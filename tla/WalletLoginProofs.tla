-------------------------- MODULE WalletLoginProofs ---------------------------
(***************************************************************************)
(* Proof that a SEP-10 challenge yields at most one session, for any       *)
(* number of wallets, challenges and requests.  The claim table alone does *)
(* not give it, since its rows are purged: a row must outlive every        *)
(* request that may still present the challenge.                           *)
(***************************************************************************)
EXTENDS WalletLogin, TLAPS

(* The purge is as long after the claim as a challenge can be presented.   *)
Times ==
  /\ Validity \in Nat /\ MaxCall \in Nat /\ PurgeAge \in Nat /\ MaxTime \in Nat
  /\ PurgeAge >= Validity + MaxCall

After == {"mint", "select", "write", "ensureUser", "answered", "in"}

(* The requests that have claimed their challenge and were not refused.    *)
Winner(r) == request[r].pc \in After

Built(c) == challenge[c].built

(* The times the proof reasons about are naturals.                         *)
TimesOK ==
  /\ now \in Nat
  /\ DOMAIN used \subseteq DOMAIN challenge
  /\ \A c \in DOMAIN challenge : challenge[c] \in [wallet : Wallets, built : Nat, signed : BOOLEAN]
  /\ \A c \in DOMAIN used : used[c] \in Nat /\ Built(c) <= used[c]
  /\ \A c \in DOMAIN challenge : Built(c) <= now

Request == [pc : After \union {"claim", "refused"}, challenge : DOMAIN challenge,
            backend : {"supabase", "authjs"}, since : Nat, existing : BOOLEAN, clean : BOOLEAN]

RequestsOK ==
  /\ DOMAIN request = Requests
  /\ request = [r \in Requests |-> request[r]]
  /\ \A r \in Requests : request[r] = Idle \/ request[r] \in Request

(* A claim under way was verified in time and is not under way for long.   *)
ClaimsAreTimely ==
  \A r \in Requests : request[r].pc = "claim" =>
    /\ request[r].since <= Built(request[r].challenge) + Validity
    /\ now <= request[r].since + MaxCall

(* The challenge of a winner is in the table, or too old to be claimed.    *)
WinnersClaimed ==
  \A r \in Requests : Winner(r) =>
    \/ request[r].challenge \in DOMAIN used
    \/ now > Built(request[r].challenge) + Validity + MaxCall

(* One winner per challenge.                                               *)
OneWinner ==
  \A r, s \in Requests :
    Winner(r) /\ Winner(s) /\ request[r].challenge = request[s].challenge => r = s

SessionsWon == sessions \subseteq Requests /\ \A r \in sessions : request[r].pc = "in"

LoginInv ==
  TimesOK /\ RequestsOK /\ ClaimsAreTimely /\ WinnersClaimed /\ OneWinner /\ SessionsWon

LEMMA LoginInit == ASSUME Times PROVE Init => LoginInv
  BY DEF Times, Init, LoginInv, TimesOK, RequestsOK, ClaimsAreTimely, WinnersClaimed,
         OneWinner, SessionsWon, Winner, After, Idle, Built

(* A request that goes from one step after its claim to another, or is     *)
(* refused, changes nothing the invariant says of the claims.              *)
LEMMA LaterStep ==
  ASSUME Times, LoginInv, NEW r \in Requests, NEW pc \in {"select", "write", "answered", "in", "refused"},
         Winner(r), UNCHANGED <<now, challenge, used>>,
         \E existing, clean \in BOOLEAN :
           request' = [request EXCEPT ![r] = [@ EXCEPT !.pc = pc, !.existing = existing, !.clean = clean]],
         sessions' = sessions \/ (sessions' = sessions \union {r} /\ pc = "in"),
         r \notin sessions
  PROVE  LoginInv'
<1>1. PICK existing \in BOOLEAN, clean \in BOOLEAN :
        request' = [request EXCEPT ![r] = [@ EXCEPT !.pc = pc, !.existing = existing, !.clean = clean]]
  OBVIOUS
<1>2. request[r] \in Request
  BY DEF LoginInv, RequestsOK, Winner, After, Idle
<1> DEFINE new == [request[r] EXCEPT !.pc = pc, !.existing = existing, !.clean = clean]
<1>3. request'[r] \in Request /\ request'[r].pc = pc /\ request'[r].challenge = request[r].challenge
  <2>1. new \in Request
    BY <1>2 DEF Request, After
  <2>2. new.pc = pc /\ new.challenge = request[r].challenge
    BY <1>2 DEF Request
  <2>3. request'[r] = new
    BY <1>1 DEF LoginInv, RequestsOK
  <2> QED
    BY <2>1, <2>2, <2>3
<1>4. \A s \in Requests : s # r => request'[s] = request[s]
  BY <1>1 DEF LoginInv, RequestsOK
<1>5. TimesOK'
  BY DEF LoginInv, TimesOK, Built
<1>6. RequestsOK'
  BY <1>1, <1>3, <1>4 DEF LoginInv, RequestsOK, Request
<1>7. ClaimsAreTimely'
  BY <1>3, <1>4 DEF LoginInv, ClaimsAreTimely, Built
<1>8. WinnersClaimed'
  BY <1>3, <1>4 DEF LoginInv, WinnersClaimed, Winner, Built
<1>9. OneWinner'
  BY <1>3, <1>4 DEF LoginInv, OneWinner, Winner
<1>10. SessionsWon'
  BY <1>3, <1>4 DEF LoginInv, SessionsWon
<1> QED
  BY <1>5, <1>6, <1>7, <1>8, <1>9, <1>10 DEF LoginInv

(* Each step keeps the invariant.                                          *)
LEMMA LoginStep == ASSUME Times, LoginInv, [Next]_vars PROVE LoginInv'
<1>1. ASSUME NEW c \in Challenges, NEW w \in Wallets, BuildChallenge(c, w) PROVE LoginInv'
  <2>1. /\ \A d \in DOMAIN challenge : challenge'[d] = challenge[d]
        /\ DOMAIN challenge' = DOMAIN challenge \union {c} /\ c \notin DOMAIN challenge
        /\ challenge'[c] = [wallet |-> w, built |-> now, signed |-> FALSE]
    BY <1>1 DEF BuildChallenge, With
  <2>2. UNCHANGED <<now, used, request, sessions>>
    BY <1>1 DEF BuildChallenge
  <2>3. TimesOK'
    <3>1. now \in Nat /\ DOMAIN used' \subseteq DOMAIN challenge'
      BY <2>1, <2>2 DEF LoginInv, TimesOK
    <3>2. challenge'[c] \in [wallet : Wallets, built : Nat, signed : BOOLEAN] /\ challenge'[c].built = now
      BY <2>1, <3>1
    <3>3. \A d \in DOMAIN challenge' :
            /\ challenge'[d] \in [wallet : Wallets, built : Nat, signed : BOOLEAN]
            /\ challenge'[d].built <= now
      <4>1. \A d \in DOMAIN challenge : challenge[d].built <= now
        BY DEF LoginInv, TimesOK, Built
      <4>2. \A d \in DOMAIN challenge : challenge[d] \in [wallet : Wallets, built : Nat, signed : BOOLEAN]
        BY DEF LoginInv, TimesOK
      <4>3. challenge'[c].built <= now
        BY <3>1, <3>2
      <4> QED
        BY <2>1, <3>2, <4>1, <4>2, <4>3
    <3>4. \A d \in DOMAIN used : used[d] \in Nat /\ challenge'[d].built <= used[d]
      BY <2>1 DEF LoginInv, TimesOK, Built
    <3> QED
      BY <2>2, <3>1, <3>3, <3>4 DEF TimesOK, Built
  <2>4. RequestsOK'
    <3>1. DOMAIN challenge \subseteq DOMAIN challenge'
      BY <2>1
    <3>2. ASSUME NEW x \in Request PROVE x \in Request'
      BY <3>1, <3>2 DEF Request
    <3> QED
      BY <2>2, <3>2 DEF LoginInv, RequestsOK
  <2>5. \A r \in Requests : request[r].pc \in After \union {"claim"} =>
          /\ request[r].challenge \in DOMAIN challenge
          /\ Built(request[r].challenge)' = Built(request[r].challenge)
    BY <2>1, <2>2 DEF LoginInv, RequestsOK, Request, Built, Idle, After
  <2>6. ClaimsAreTimely' /\ WinnersClaimed' /\ OneWinner' /\ SessionsWon'
    BY <2>2, <2>5 DEF LoginInv, ClaimsAreTimely, WinnersClaimed, OneWinner, SessionsWon, Winner
  <2> QED
    BY <2>3, <2>4, <2>6 DEF LoginInv
<1>2. ASSUME NEW c \in Challenges, WalletSigns(c) PROVE LoginInv'
  <2>1. /\ DOMAIN challenge' = DOMAIN challenge
        /\ \A d \in DOMAIN challenge : /\ challenge'[d].built = challenge[d].built
                                      /\ challenge'[d] \in [wallet : Wallets, built : Nat, signed : BOOLEAN]
    BY <1>2 DEF WalletSigns, LoginInv, TimesOK
  <2>2. UNCHANGED <<now, used, request, sessions>>
    BY <1>2 DEF WalletSigns
  <2>3. TimesOK' /\ RequestsOK'
    BY <2>1, <2>2 DEF LoginInv, TimesOK, RequestsOK, Request, Built
  <2>4. \A r \in Requests : request[r].pc \in After \union {"claim"} =>
          Built(request[r].challenge)' = Built(request[r].challenge)
    BY <2>1, <2>2 DEF LoginInv, RequestsOK, Request, Built, Idle, After
  <2>5. ClaimsAreTimely' /\ WinnersClaimed' /\ OneWinner' /\ SessionsWon'
    BY <2>2, <2>4 DEF LoginInv, ClaimsAreTimely, WinnersClaimed, OneWinner, SessionsWon, Winner
  <2> QED
    BY <2>3, <2>5 DEF LoginInv
<1>3. ASSUME NEW r \in Requests, NEW c \in Challenges, NEW b \in {"supabase", "authjs"},
             Verify(r, c, b)
      PROVE  LoginInv'
  <2> DEFINE new == [pc |-> IF Verifies(c) THEN "claim" ELSE "refused", challenge |-> c,
                     backend |-> b, since |-> now, existing |-> FALSE, clean |-> TRUE]
  <2>1. /\ request' = [request EXCEPT ![r] = new] /\ c \in DOMAIN challenge
        /\ UNCHANGED <<now, challenge, used, sessions>> /\ request[r].pc = "new"
    BY <1>3 DEF Verify
  <2>2. request'[r] = new /\ \A s \in Requests : s # r => request'[s] = request[s]
    BY <2>1 DEF LoginInv, RequestsOK
  <2>3. new \in Request
    BY <2>1 DEF LoginInv, TimesOK, Request
  <2>4. TimesOK' /\ RequestsOK'
    <3>1. TimesOK'
      BY <2>1 DEF LoginInv, TimesOK, Built
    <3>2. Request' = Request
      BY <2>1 DEF Request
    <3>3. DOMAIN request' = Requests /\ request' = [s \in Requests |-> request'[s]]
      BY <2>1 DEF LoginInv, RequestsOK
    <3> QED
      BY <2>2, <2>3, <3>1, <3>2, <3>3 DEF LoginInv, RequestsOK
  <2>5. new.pc = "claim" =>
          /\ new.since <= Built(new.challenge) + Validity /\ now <= new.since + MaxCall
    BY <2>1 DEF Verifies, LoginInv, TimesOK, Times, Built
  <2>6. ClaimsAreTimely'
    BY <2>1, <2>2, <2>5 DEF LoginInv, ClaimsAreTimely, Built
  <2>7. new.pc \notin After /\ request[r].pc # "in"
    BY <2>1 DEF After
  <2>8. WinnersClaimed' /\ OneWinner' /\ SessionsWon'
    BY <2>1, <2>2, <2>7 DEF LoginInv, WinnersClaimed, OneWinner, SessionsWon, Winner, Built
  <2> QED
    BY <2>4, <2>6, <2>8 DEF LoginInv
<1>4. ASSUME NEW r \in Requests, ClaimAnswers(r) PROVE LoginInv'
  <2> DEFINE c == request[r].challenge
  <2>1. request[r] \in Request /\ request[r].pc = "claim" /\ c \in DOMAIN challenge
    BY <1>4 DEF ClaimAnswers, LoginInv, RequestsOK, Idle, Request
  <2>2. UNCHANGED <<now, challenge, sessions>>
    BY <1>4 DEF ClaimAnswers
  <2>3. PICK pc \in {"mint", "ensureUser", "refused"} : Goto(r, pc)
    BY <1>4 DEF ClaimAnswers, AfterClaim
  <2>4. used' = used \/ (c \notin DOMAIN used /\ Claim(c))
    BY <1>4 DEF ClaimAnswers
  <2>5. pc # "refused" => c \notin DOMAIN used /\ Claim(c)
    BY <1>4, <2>3, <2>1 DEF ClaimAnswers, Goto, AfterClaim, LoginInv, RequestsOK, Request
  <2>6. /\ request'[r] \in Request /\ request'[r].pc = pc /\ request'[r].challenge = c
        /\ \A s \in Requests : s # r => request'[s] = request[s]
    <3>1. request'[r] = [request[r] EXCEPT !.pc = pc]
      BY <2>3 DEF Goto, LoginInv, RequestsOK
    <3>2. [request[r] EXCEPT !.pc = pc] \in Request
      BY <2>1 DEF Request, After
    <3> QED
      BY <3>1, <3>2, <2>1, <2>3 DEF Request, Goto, LoginInv, RequestsOK
  <2>7. /\ DOMAIN used \subseteq DOMAIN used'
        /\ \A d \in DOMAIN used : used'[d] = used[d]
        /\ \A d \in DOMAIN used' : d \in DOMAIN used \/ (d = c /\ used'[d] = now)
    BY <2>4 DEF Claim, With
  <2>8. TimesOK'
    BY <2>1, <2>2, <2>7 DEF LoginInv, TimesOK, Built
  <2>9. RequestsOK'
    BY <2>2, <2>3, <2>6 DEF LoginInv, RequestsOK, Request, Goto
  <2>10. ClaimsAreTimely' /\ SessionsWon'
    BY <2>1, <2>2, <2>6 DEF LoginInv, ClaimsAreTimely, SessionsWon, Built
  <2>11. pc # "refused" => c \in DOMAIN used'
    BY <2>5 DEF Claim, With
  <2>12. WinnersClaimed'
    BY <2>2, <2>6, <2>7, <2>11 DEF LoginInv, WinnersClaimed, Winner, Built, After
  <2>13. pc # "refused" => \A s \in Requests : Winner(s) => request[s].challenge # c
    <3>1. now <= Built(c) + Validity + MaxCall
      <4>1. request[r].since <= Built(c) + Validity /\ now <= request[r].since + MaxCall
        BY <2>1 DEF LoginInv, ClaimsAreTimely
      <4>2. now \in Nat /\ Built(c) \in Nat /\ request[r].since \in Nat
        BY <2>1 DEF LoginInv, TimesOK, Request, Built
      <4> QED
        BY <4>1, <4>2 DEF Times
    <3>2. now \in Nat /\ Built(c) \in Nat
      BY <2>1 DEF LoginInv, TimesOK, Built
    <3> QED
      BY <3>1, <3>2, <2>5 DEF LoginInv, WinnersClaimed, Times
  <2>14. OneWinner'
    BY <2>6, <2>13 DEF LoginInv, OneWinner, Winner, After
  <2> QED
    BY <2>8, <2>9, <2>10, <2>12, <2>14 DEF LoginInv
<1>5. ASSUME NEW r \in Requests,
             MintLink(r) \/ SelectProfile(r) \/ WriteProfile(r) \/ EnsureUser(r) \/ SessionStarts(r)
      PROVE  LoginInv'
  <2>1. Winner(r) /\ request[r].pc # "in" /\ r \notin sessions
    BY <1>5 DEF MintLink, SelectProfile, WriteProfile, EnsureUser, SessionStarts, Winner, After,
                LoginInv, SessionsWon
  <2>2. request[r] \in Request
    BY <2>1 DEF LoginInv, RequestsOK, Winner, After, Idle
  <2>3. UNCHANGED <<now, challenge, used>>
    BY <1>5 DEF MintLink, SelectProfile, WriteProfile, EnsureUser, SessionStarts
  <2>4. /\ request[r].existing \in BOOLEAN /\ request[r].clean \in BOOLEAN
        /\ \A pc \in STRING : \A e \in BOOLEAN :
             /\ [request[r] EXCEPT !.pc = pc] =
                [request[r] EXCEPT !.pc = pc, !.existing = request[r].existing, !.clean = request[r].clean]
             /\ [request[r] EXCEPT !.pc = pc, !.existing = e] =
                [request[r] EXCEPT !.pc = pc, !.existing = e, !.clean = request[r].clean]
             /\ [request[r] EXCEPT !.pc = pc, !.clean = e] =
                [request[r] EXCEPT !.pc = pc, !.existing = request[r].existing, !.clean = e]
    BY <2>2 DEF Request
  <2>5. PICK pc \in {"select", "write", "answered", "in", "refused"} :
          /\ \E existing, clean \in BOOLEAN :
               request' = [request EXCEPT
                 ![r] = [@ EXCEPT !.pc = pc, !.existing = existing, !.clean = clean]]
          /\ sessions' = sessions \/ (sessions' = sessions \union {r} /\ pc = "in")
    <3> DEFINE Becomes(pc, e, k) ==
          request' = [request EXCEPT
            ![r] = [@ EXCEPT !.pc = pc, !.existing = e, !.clean = k]]
    <3> DEFINE E == request[r].existing
               K == request[r].clean
    <3>1. CASE MintLink(r)
      <4>1. (Becomes("select", E, K) \/ Becomes("refused", E, K)) /\ sessions' = sessions
        BY <3>1, <2>4 DEF MintLink, Goto
      <4> QED
        BY <4>1, <2>4
    <3>2. CASE SelectProfile(r)
      <4>1. /\ \/ Becomes("write", profile[Account(r)] # "none", K)
               \/ Becomes("write", E, FALSE)
            /\ sessions' = sessions
        BY <3>2, <2>4 DEF SelectProfile, DirtyGoto
      <4> QED
        BY <4>1, <2>4
    <3>3. CASE WriteProfile(r)
      <4>1. (Becomes("answered", E, K) \/ Becomes("answered", E, FALSE)) /\ sessions' = sessions
        BY <3>3, <2>4 DEF WriteProfile, Goto, DirtyGoto
      <4> QED
        BY <4>1, <2>4
    <3>4. CASE EnsureUser(r)
      <4>1. (Becomes("answered", E, K) \/ Becomes("refused", E, K)) /\ sessions' = sessions
        BY <3>4, <2>4 DEF EnsureUser, Goto
      <4> QED
        BY <4>1, <2>4
    <3>5. CASE SessionStarts(r)
      <4>1. \/ Becomes("in", E, K) /\ sessions' = sessions \union {r}
            \/ Becomes("refused", E, K) /\ sessions' = sessions
        BY <3>5, <2>4 DEF SessionStarts, Goto
      <4> QED
        BY <4>1, <2>4
    <3> QED
      BY <1>5, <3>1, <3>2, <3>3, <3>4, <3>5
  <2> QED
    BY <2>1, <2>3, <2>5, LaterStep
<1>6. ASSUME Purge PROVE LoginInv'
  <2>1. /\ UNCHANGED <<now, challenge, request, sessions>>
        /\ used' = [c \in {d \in DOMAIN used : ~(now > used[d] + PurgeAge)} |-> used[c]]
    BY <1>6 DEF Purge
  <2>2. TimesOK' /\ RequestsOK' /\ ClaimsAreTimely' /\ OneWinner' /\ SessionsWon'
    BY <2>1 DEF LoginInv, TimesOK, RequestsOK, Request, ClaimsAreTimely, OneWinner, SessionsWon,
                Winner, Built
  <2>3. \A c \in DOMAIN used : c \in DOMAIN used' \/ now > Built(c) + Validity + MaxCall
    BY <2>1 DEF LoginInv, TimesOK, Times, Built
  <2>4. WinnersClaimed'
    BY <2>1, <2>3 DEF LoginInv, WinnersClaimed, Winner, Built
  <2> QED
    BY <2>2, <2>4 DEF LoginInv
<1>7. ASSUME Tick PROVE LoginInv'
  <2>1. /\ now' = now + 1 /\ UNCHANGED <<challenge, used, request, sessions>>
        /\ \A r \in Requests : request[r].pc = "claim" => now < request[r].since + MaxCall
    BY <1>7 DEF Tick
  <2>2. TimesOK' /\ RequestsOK' /\ OneWinner' /\ SessionsWon'
    BY <2>1 DEF LoginInv, TimesOK, RequestsOK, Request, OneWinner, SessionsWon, Winner, Built
  <2>3. \A r \in Requests : request[r] = Idle \/
          (request[r].since \in Nat /\ Built(request[r].challenge) \in Nat)
    BY DEF LoginInv, TimesOK, RequestsOK, Request, Built
  <2>4. now \in Nat
    BY DEF LoginInv, TimesOK
  <2>5. ClaimsAreTimely'
    BY <2>1, <2>3, <2>4 DEF LoginInv, ClaimsAreTimely, Built, Idle, Times
  <2>6. WinnersClaimed'
    BY <2>1, <2>3, <2>4 DEF LoginInv, WinnersClaimed, Winner, Built, Idle, Times, After
  <2> QED
    BY <2>2, <2>5, <2>6 DEF LoginInv
<1>8. CASE UNCHANGED vars
  BY <1>8 DEF vars, LoginInv, TimesOK, RequestsOK, Request, ClaimsAreTimely, WinnersClaimed,
              OneWinner, SessionsWon, Winner, Built
<1> QED
  BY <1>1, <1>2, <1>3, <1>4, <1>5, <1>6, <1>7, <1>8 DEF Next, Step

LEMMA OneWinnerOneSession == LoginInv => OneSessionPerChallenge
  BY DEF LoginInv, SessionsWon, OneWinner, OneSessionPerChallenge, Winner, After

(* "a validly-signed challenge must still be rejected on a second          *)
(* submission": of all requests that present a challenge, concurrently or  *)
(* long after one another, at most one ends in a session.                  *)
THEOREM LoginOnce == ASSUME Times PROVE Spec => []OneSessionPerChallenge
<1>1. Init => LoginInv
  BY LoginInit
<1>2. LoginInv /\ [Next]_vars => LoginInv'
  BY LoginStep
<1>3. LoginInv => OneSessionPerChallenge
  BY OneWinnerOneSession
<1> QED
  BY <1>1, <1>2, <1>3, PTL DEF Spec

-----------------------------------------------------------------------------
(* The profile: whatever the lookup of a login saw, another login may have *)
(* bound the wallet since, but none takes the binding back.                *)
Statuses == {"none", "unverified", "verified"}

LookedUp(r) ==
  request[r].pc = "write" /\ request[r].clean =>
    profile[Account(r)] # IF request[r].existing THEN "none" ELSE "unverified"

Written(r) ==
  request[r].pc \in {"answered", "in"} /\ request[r].clean => profile[Account(r)] = "verified"

ProfileInv ==
  /\ profile \in [Wallets -> Statuses]
  /\ \A r \in Requests : LookedUp(r) /\ Written(r)

(* No step of a login touches what another has found or written, except to *)
(* verify the wallet.                                                      *)
LEMMA OtherRequestsKeep ==
  ASSUME LoginInv, ProfileInv, NEW r \in Requests,
         request'[r] = request[r],
         \A w \in Wallets : profile'[w] \in {profile[w], "verified"},
         \A c \in DOMAIN challenge : challenge'[c].wallet = challenge[c].wallet
  PROVE  (LookedUp(r) /\ Written(r))'
<1>1. CASE request[r].pc \in {"write", "answered", "in"}
  <2>1. request[r].challenge \in DOMAIN challenge
    BY <1>1 DEF LoginInv, RequestsOK, Idle, Request
  <2>2. Account(r)' = Account(r) /\ Account(r) \in Wallets
    BY <2>1 DEF Account, LoginInv, TimesOK
  <2>3. profile'[Account(r)] \in {profile[Account(r)], "verified"}
    BY <2>2
  <2>4. LookedUp(r) /\ Written(r)
    BY DEF ProfileInv
  <2> QED
    BY <2>2, <2>3, <2>4 DEF LookedUp, Written
<1>2. CASE request[r].pc \notin {"write", "answered", "in"}
  BY <1>2 DEF LookedUp, Written
<1> QED
  BY <1>1, <1>2

(* A request that moves, with the wallets bound at most once more.         *)
LEMMA MovedRequest ==
  ASSUME LoginInv, ProfileInv, NEW r \in Requests, request[r].pc # "new",
         NEW pc, NEW existing \in BOOLEAN, NEW clean \in BOOLEAN,
         request' = [request EXCEPT ![r] = [@ EXCEPT !.pc = pc, !.existing = existing, !.clean = clean]],
         UNCHANGED challenge,
         \/ UNCHANGED profile
         \/ profile' = [profile EXCEPT ![Account(r)] = "verified"],
         pc = "write" /\ clean = TRUE =>
           profile'[Account(r)] # IF existing = TRUE THEN "none" ELSE "unverified",
         pc \in {"answered", "in"} /\ clean = TRUE => profile'[Account(r)] = "verified"
  PROVE  ProfileInv'
<1>1. request[r] \in Request
  BY DEF LoginInv, RequestsOK, Idle
<1> DEFINE old == request[r]
           new == [old EXCEPT !.pc = pc, !.existing = existing, !.clean = clean]
<1>2. request'[r] = new /\ \A s \in Requests \ {r} : request'[s] = request[s]
  BY DEF LoginInv, RequestsOK
<1> HIDE DEF old
<1>3. new.pc = pc /\ new.existing = existing /\ new.clean = clean /\ new.challenge = old.challenge
  BY <1>1 DEF Request, old
<1>4. Account(r)' = Account(r)
  BY <1>2, <1>3 DEF Account, old
<1> HIDE DEF new
<1>5. LookedUp(r)' /\ Written(r)'
  BY <1>2, <1>3, <1>4 DEF LookedUp, Written
<1>6. profile' \in [Wallets -> Statuses] /\ \A w \in Wallets : profile'[w] \in {profile[w], "verified"}
  BY DEF ProfileInv, Statuses
<1>7. \A s \in Requests \ {r} : (LookedUp(s) /\ Written(s))'
  BY <1>2, <1>6, OtherRequestsKeep
<1> QED
  BY <1>5, <1>6, <1>7 DEF ProfileInv

(* What the updates of a request's step and marks have in common.          *)
LEMMA RequestMarks ==
  ASSUME LoginInv, NEW r \in Requests, request[r].pc # "new"
  PROVE  /\ request[r].existing \in BOOLEAN /\ request[r].clean \in BOOLEAN
         /\ \A pc \in STRING : \A e \in BOOLEAN :
              /\ [request[r] EXCEPT !.pc = pc] =
                 [request[r] EXCEPT !.pc = pc, !.existing = request[r].existing, !.clean = request[r].clean]
              /\ [request[r] EXCEPT !.pc = pc, !.existing = e] =
                 [request[r] EXCEPT !.pc = pc, !.existing = e, !.clean = request[r].clean]
              /\ [request[r] EXCEPT !.pc = pc, !.clean = e] =
                 [request[r] EXCEPT !.pc = pc, !.existing = request[r].existing, !.clean = e]
<1>1. request[r] \in Request
  BY DEF LoginInv, RequestsOK, Idle
<1> QED
  BY <1>1 DEF Request

LEMMA ProfileStep ==
  ASSUME LoginInv, ProfileInv, [Next]_vars
  PROVE  ProfileInv'
<1>1. ASSUME UNCHANGED <<request, profile>>,
             \A c \in DOMAIN challenge : challenge'[c].wallet = challenge[c].wallet
      PROVE  ProfileInv'
  <2>1. \A r \in Requests : (LookedUp(r) /\ Written(r))'
    BY <1>1, OtherRequestsKeep DEF ProfileInv
  <2> QED
    BY <1>1, <2>1 DEF ProfileInv
<1>2. ASSUME NEW c \in Challenges, NEW w \in Wallets, BuildChallenge(c, w) PROVE ProfileInv'
  BY <1>1, <1>2 DEF BuildChallenge, With
<1>3. ASSUME NEW c \in Challenges, WalletSigns(c) PROVE ProfileInv'
  <2>1. challenge' = [challenge EXCEPT ![c].signed = TRUE] /\ UNCHANGED <<request, profile>>
    BY <1>3 DEF WalletSigns
  <2>2. \A d \in DOMAIN challenge : challenge'[d].wallet = challenge[d].wallet
    BY <2>1 DEF LoginInv, TimesOK
  <2> QED
    BY <1>1, <2>1, <2>2
<1>4. CASE Purge \/ Tick \/ UNCHANGED vars
  BY <1>1, <1>4 DEF Purge, Tick, vars
<1>5. ASSUME NEW r \in Requests, NEW c \in Challenges, NEW b \in {"supabase", "authjs"},
             Verify(r, c, b)
      PROVE  ProfileInv'
  <2> DEFINE new == [pc |-> IF Verifies(c) THEN "claim" ELSE "refused", challenge |-> c,
                     backend |-> b, since |-> now, existing |-> FALSE, clean |-> TRUE]
  <2>1. request' = [request EXCEPT ![r] = new] /\ UNCHANGED <<challenge, profile>>
    BY <1>5 DEF Verify
  <2>2. request'[r] = new /\ \A s \in Requests \ {r} : request'[s] = request[s]
    BY <2>1 DEF LoginInv, RequestsOK
  <2>3. new.pc \in {"claim", "refused"}
    OBVIOUS
  <2> HIDE DEF new
  <2>4. (LookedUp(r) /\ Written(r))'
    BY <2>2, <2>3 DEF LookedUp, Written
  <2>5. \A s \in Requests \ {r} : (LookedUp(s) /\ Written(s))'
    BY <2>1, <2>2, OtherRequestsKeep DEF ProfileInv
  <2> QED
    BY <2>1, <2>4, <2>5 DEF ProfileInv
<1>6. ASSUME NEW r \in Requests, ClaimAnswers(r) \/ MintLink(r) PROVE ProfileInv'
  <2>1. request[r].pc # "new" /\ UNCHANGED <<challenge, profile>>
    BY <1>6 DEF ClaimAnswers, MintLink
  <2>2. PICK pc \in {"mint", "ensureUser", "select", "refused"} : Goto(r, pc)
    BY <1>6 DEF ClaimAnswers, AfterClaim, MintLink
  <2>3. request' = [request EXCEPT ![r] =
          [@ EXCEPT !.pc = pc, !.existing = request[r].existing, !.clean = request[r].clean]]
    BY <2>1, <2>2, RequestMarks DEF Goto
  <2> QED
    BY <2>1, <2>3, MovedRequest, RequestMarks
<1>7. ASSUME NEW r \in Requests, SelectProfile(r) PROVE ProfileInv'
  <2>1. request[r].pc # "new" /\ UNCHANGED <<challenge, profile>>
    BY <1>7 DEF SelectProfile
  <2>2. \/ request' = [request EXCEPT ![r] =
             [@ EXCEPT !.pc = "write", !.existing = profile[Account(r)] # "none", !.clean = request[r].clean]]
        \/ request' = [request EXCEPT ![r] =
             [@ EXCEPT !.pc = "write", !.existing = request[r].existing, !.clean = FALSE]]
    BY <2>1, <1>7, RequestMarks DEF SelectProfile, DirtyGoto
  <2> DEFINE found == profile[Account(r)] # "none"
  <2>3. found \in BOOLEAN /\ profile[Account(r)] # IF found = TRUE THEN "none" ELSE "unverified"
    OBVIOUS
  <2> HIDE DEF found
  <2>4. request[r].existing \in BOOLEAN /\ request[r].clean \in BOOLEAN
    BY <2>1, RequestMarks
  <2>5. CASE request' = [request EXCEPT ![r] =
               [@ EXCEPT !.pc = "write", !.existing = found, !.clean = request[r].clean]]
    BY <2>1, <2>3, <2>4, <2>5, MovedRequest
  <2>6. CASE request' = [request EXCEPT ![r] =
               [@ EXCEPT !.pc = "write", !.existing = request[r].existing, !.clean = FALSE]]
    BY <2>1, <2>4, <2>6, MovedRequest
  <2> QED
    BY <2>2, <2>5, <2>6 DEF found
<1>8. ASSUME NEW r \in Requests, WriteProfile(r) PROVE ProfileInv'
  <2>1. request[r].pc = "write" /\ UNCHANGED challenge
    BY <1>8 DEF WriteProfile
  <2>2. request[r].challenge \in DOMAIN challenge
    BY <2>1 DEF LoginInv, RequestsOK, Idle, Request
  <2>3. Account(r) \in Wallets /\ profile[Account(r)] \in Statuses /\ DOMAIN profile = Wallets
    BY <2>2 DEF Account, LoginInv, TimesOK, ProfileInv
  <2>4. CASE Bind(r) /\ Goto(r, "answered")
    <3>1. profile' = profile \/ profile' = [profile EXCEPT ![Account(r)] = "verified"]
      BY <2>4 DEF Bind
    <3>2. request[r].clean = TRUE => profile'[Account(r)] = "verified"
      BY <2>1, <2>3, <2>4, RequestMarks DEF Bind, ProfileInv, LookedUp, Statuses
    <3>3. request' = [request EXCEPT ![r] =
            [@ EXCEPT !.pc = "answered", !.existing = request[r].existing, !.clean = request[r].clean]]
      BY <2>1, <2>4, RequestMarks DEF Goto
    <3> QED
      BY <2>1, <3>1, <3>2, <3>3, MovedRequest, RequestMarks
  <2>5. CASE UNCHANGED profile /\ DirtyGoto(r, "answered")
    <3>1. request' = [request EXCEPT ![r] =
            [@ EXCEPT !.pc = "answered", !.existing = request[r].existing, !.clean = FALSE]]
      BY <2>1, <2>5, RequestMarks DEF DirtyGoto
    <3> QED
      BY <2>1, <2>5, <3>1, MovedRequest, RequestMarks
  <2> QED
    BY <1>8, <2>4, <2>5 DEF WriteProfile
<1>9. ASSUME NEW r \in Requests, EnsureUser(r) PROVE ProfileInv'
  <2>1. request[r].pc = "ensureUser" /\ UNCHANGED challenge
    BY <1>9 DEF EnsureUser
  <2>2. request[r].challenge \in DOMAIN challenge
    BY <2>1 DEF LoginInv, RequestsOK, Idle, Request
  <2>3. Account(r) \in Wallets /\ DOMAIN profile = Wallets
    BY <2>2 DEF Account, LoginInv, TimesOK, ProfileInv
  <2>4. PICK pc \in {"answered", "refused"} :
          /\ Goto(r, pc)
          /\ \/ pc = "answered" /\ profile' = [profile EXCEPT ![Account(r)] = "verified"]
             \/ pc = "refused" /\ UNCHANGED profile
    BY <1>9 DEF EnsureUser
  <2>5. request' = [request EXCEPT ![r] =
          [@ EXCEPT !.pc = pc, !.existing = request[r].existing, !.clean = request[r].clean]]
    BY <2>1, <2>4, RequestMarks DEF Goto
  <2> QED
    BY <2>1, <2>3, <2>4, <2>5, MovedRequest, RequestMarks
<1>10. ASSUME NEW r \in Requests, SessionStarts(r) PROVE ProfileInv'
  <2>1. request[r].pc = "answered" /\ UNCHANGED <<challenge, profile>>
    BY <1>10 DEF SessionStarts
  <2>2. PICK pc \in {"in", "refused"} : Goto(r, pc)
    BY <1>10 DEF SessionStarts
  <2>3. request' = [request EXCEPT ![r] =
          [@ EXCEPT !.pc = pc, !.existing = request[r].existing, !.clean = request[r].clean]]
    BY <2>1, <2>2, RequestMarks DEF Goto
  <2>4. request[r].clean = TRUE => profile[Account(r)] = "verified"
    BY <2>1 DEF ProfileInv, Written
  <2> QED
    BY <2>1, <2>2, <2>3, <2>4, MovedRequest, RequestMarks
<1> QED
  BY <1>2, <1>3, <1>4, <1>5, <1>6, <1>7, <1>8, <1>9, <1>10 DEF Next, Step

LEMMA ProfileInit == Init => ProfileInv
BY DEF Init, Idle, ProfileInv, Statuses, LookedUp, Written

LEMMA WinnersHaveProfiles == LoginInv /\ ProfileInv => LoginLeavesProfile
BY DEF LoginInv, SessionsWon, ProfileInv, Written, LoginLeavesProfile

(* A login whose calls all succeeded leaves a verified profile, however    *)
(* many first logins of the wallet race between the lookup and the write.  *)
THEOREM ProfileIsBound == ASSUME Times PROVE Spec => []LoginLeavesProfile
<1>1. Init => LoginInv /\ ProfileInv
  BY LoginInit, ProfileInit
<1>2. LoginInv /\ ProfileInv /\ [Next]_vars => LoginInv' /\ ProfileInv'
  BY LoginStep, ProfileStep
<1>3. LoginInv /\ ProfileInv => LoginLeavesProfile
  BY WinnersHaveProfiles
<1> QED
  BY <1>1, <1>2, <1>3, PTL DEF Spec
=============================================================================
