----------------------------- MODULE WalletLogin -----------------------------
(***************************************************************************)
(* Wallet login (SEP-10): a challenge signed by server and wallet is       *)
(* verified, claimed in a table with a unique key, and exchanged for a     *)
(* session; requests run concurrently in several server processes and any  *)
(* call to the database may fail.  Two backends do this: the verify route  *)
(* ("supabase") and the credentials provider ("authjs").  What the routes  *)
(* answer before the signature is looked at (too many requests, no JSON,   *)
(* no secret) changes nothing here; RateLimit has the limiter.             *)
(***************************************************************************)
EXTENDS Naturals, FiniteSets

CONSTANTS
  Wallets,
  Challenges, \* the challenges built during a run
  Requests,   \* the verify requests of a run
  Validity,   \* how long after it was built a challenge is accepted (five
              \* minutes, and the five the Stellar SDK adds)
  MaxCall,    \* the longest a claim is under way (the platform ends a request)
  PurgeAge,   \* age from which used challenges are purged (one hour, more than Validity + MaxCall)
  MaxTime,    \* bound on the clock
  MaxFaults   \* bound on failed calls

VARIABLES
  now,
  challenge,  \* the challenges built: wallet, time, signed by the wallet
  used,       \* sep10_used_challenges: challenge -> time of the claim
  request,    \* the requests: step, challenge, backend, ...
  profile,    \* user_profiles: wallet -> "none", "unverified", "verified"
  sessions,   \* history: the sessions minted, by request
  faults

vars == <<now, challenge, used, request, profile, sessions, faults>>

Idle == [pc |-> "new"]

Init ==
  /\ now = 0
  /\ challenge = <<>> /\ used = <<>>
  /\ request = [r \in Requests |-> Idle]
  /\ profile \in [Wallets -> {"none", "unverified"}]
  /\ sessions = {} /\ faults = 0

With(f, x, v) == [y \in DOMAIN f \union {x} |-> IF y = x THEN v ELSE f[y]]

(* POST challenge: built and signed by the server; the wallet signs it.    *)
BuildChallenge(c, w) ==
  /\ c \notin DOMAIN challenge
  /\ challenge' = With(challenge, c, [wallet |-> w, built |-> now, signed |-> FALSE])
  /\ UNCHANGED <<now, used, request, profile, sessions, faults>>

WalletSigns(c) ==
  /\ c \in DOMAIN challenge /\ ~challenge[c].signed
  /\ challenge' = [challenge EXCEPT ![c].signed = TRUE]
  /\ UNCHANGED <<now, used, request, profile, sessions, faults>>

(* verifySep10Challenge throws unless the challenge is fresh and signed.   *)
Verifies(c) == challenge[c].signed /\ now <= challenge[c].built + Validity

Account(r) == challenge[request[r].challenge].wallet

Goto(r, pc) == request' = [request EXCEPT ![r].pc = pc]
Fault == faults < MaxFaults /\ faults' = faults + 1
DirtyGoto(r, pc) == request' = [request EXCEPT ![r].pc = pc, ![r].clean = FALSE]

Verify(r, c, backend) ==
  /\ request[r].pc = "new" /\ c \in DOMAIN challenge
  /\ request' = [request EXCEPT ![r] =
       [pc |-> IF Verifies(c) THEN "claim" ELSE "refused", challenge |-> c,
        backend |-> backend, since |-> now, existing |-> FALSE, clean |-> TRUE]]
  /\ UNCHANGED <<now, challenge, used, profile, sessions, faults>>

Claim(c) == used' = With(used, c, now)
AfterClaim(r) == IF request[r].backend = "supabase" THEN "mint" ELSE "ensureUser"

(* Mutants: the claim is an upsert; a failed claim is not fail closed.     *)
ClaimUpserts(r) ==
  /\ request[r].pc = "claim"
  /\ Claim(request[r].challenge) /\ Goto(r, AfterClaim(r)) /\ UNCHANGED faults
  /\ UNCHANGED <<now, challenge, profile, sessions>>
ClaimFailsOpen(r) ==
  /\ request[r].pc = "claim"
  /\ \/ request[r].challenge \notin DOMAIN used /\ Claim(request[r].challenge) /\ Goto(r, AfterClaim(r)) /\ UNCHANGED faults
     \/ Fault /\ Goto(r, AfterClaim(r)) /\ UNCHANGED used
  /\ UNCHANGED <<now, challenge, profile, sessions>>

(* claimSep10ChallengeHash: the insert succeeds, meets the row of another  *)
(* request, or fails, whether or not the row got in: an error is refused.  *)
ClaimAnswers(r) ==
  LET c == request[r].challenge IN
  /\ request[r].pc = "claim"
  /\ \/ c \notin DOMAIN used /\ Claim(c) /\ Goto(r, AfterClaim(r)) /\ UNCHANGED faults
     \/ c \in DOMAIN used /\ Goto(r, "refused") /\ UNCHANGED <<used, faults>>
     \/ Fault /\ Goto(r, "refused") /\ (UNCHANGED used \/ (c \notin DOMAIN used /\ Claim(c)))
  /\ UNCHANGED <<now, challenge, profile, sessions>>

(* generateLink creates the user and its one-time token, or fails: the     *)
(* challenge stays claimed and the wallet has to sign another one.         *)
MintLink(r) ==
  /\ request[r].pc = "mint"
  /\ \/ Goto(r, "select") /\ UNCHANGED faults
     \/ Goto(r, "refused") /\ Fault
  /\ UNCHANGED <<now, challenge, used, profile, sessions>>

(* The profile is looked up; an error of the lookup reads as no profile.   *)
SelectProfile(r) ==
  /\ request[r].pc = "select"
  /\ \/ /\ request' = [request EXCEPT ![r].pc = "write",
                         ![r].existing = profile[Account(r)] # "none"]
        /\ UNCHANGED faults
     \/ Fault /\ DirtyGoto(r, "write")
  /\ UNCHANGED <<now, challenge, used, profile, sessions>>

(* Mutant: an existing profile is left as it is.                           *)
InsertsOnly(r) ==
  IF request[r].existing THEN UNCHANGED profile
  ELSE profile' = IF profile[Account(r)] = "none"
                  THEN [profile EXCEPT ![Account(r)] = "verified"] ELSE profile

(* Update or insert, by what the lookup said.  An insert that meets the    *)
(* row of another login is refused by the primary key, with a warning.     *)
Bind(r) ==
  IF request[r].existing
  THEN profile' = [profile EXCEPT ![Account(r)] = "verified"]
  ELSE profile' = IF profile[Account(r)] = "none"
                  THEN [profile EXCEPT ![Account(r)] = "verified"] ELSE profile

WriteProfile(r) ==
  /\ request[r].pc = "write"
  /\ \/ Bind(r) /\ Goto(r, "answered") /\ UNCHANGED faults
     \/ UNCHANGED profile /\ DirtyGoto(r, "answered") /\ Fault
  /\ UNCHANGED <<now, challenge, used, sessions>>

(* authorizeSep10: ensureUser upserts (verified stays verified); an error  *)
(* makes authorize answer null.                                            *)
EnsureUser(r) ==
  /\ request[r].pc = "ensureUser"
  /\ \/ /\ profile' = [profile EXCEPT ![Account(r)] = "verified"]
        /\ Goto(r, "answered") /\ UNCHANGED faults
     \/ UNCHANGED profile /\ Goto(r, "refused") /\ Fault
  /\ UNCHANGED <<now, challenge, used, sessions>>

(* The browser redeems the token hash (verifyOtp), or gets its cookie; the *)
(* answer may also be lost on its way.                                     *)
SessionStarts(r) ==
  /\ request[r].pc = "answered"
  /\ \/ sessions' = sessions \union {r} /\ Goto(r, "in") /\ UNCHANGED faults
     \/ UNCHANGED sessions /\ Goto(r, "refused") /\ Fault
  /\ UNCHANGED <<now, challenge, used, profile>>

(* Mutant: the purge forgets challenges that can still be presented.       *)
PurgeTooSoon ==
  /\ \E c \in DOMAIN used : now > used[c]
  /\ used' = [c \in {d \in DOMAIN used : ~(now > used[d])} |-> used[c]]
  /\ UNCHANGED <<now, challenge, request, profile, sessions, faults>>

(* purge_expired_sep10_challenges, run by a schedule.                      *)
Purge ==
  /\ \E c \in DOMAIN used : now > used[c] + PurgeAge
  /\ used' = [c \in {d \in DOMAIN used : ~(now > used[d] + PurgeAge)} |-> used[c]]
  /\ UNCHANGED <<now, challenge, request, profile, sessions, faults>>

Tick ==
  /\ now < MaxTime /\ now' = now + 1
  /\ \A r \in Requests : request[r].pc = "claim" => now < request[r].since + MaxCall
  /\ UNCHANGED <<challenge, used, request, profile, sessions, faults>>

Step(r) ==
  \/ \E c \in Challenges, backend \in {"supabase", "authjs"} : Verify(r, c, backend)
  \/ ClaimAnswers(r) \/ MintLink(r) \/ SelectProfile(r) \/ WriteProfile(r)
  \/ EnsureUser(r) \/ SessionStarts(r)

Next ==
  \/ \E c \in Challenges : (\E w \in Wallets : BuildChallenge(c, w)) \/ WalletSigns(c)
  \/ \E r \in Requests : Step(r)
  \/ Purge \/ Tick

Spec == Init /\ [][Next]_vars

-----------------------------------------------------------------------------
(* Properties                                                              *)

TypeOK ==
  /\ now \in 0..MaxTime /\ faults \in 0..MaxFaults
  /\ DOMAIN challenge \subseteq Challenges /\ DOMAIN used \subseteq DOMAIN challenge
  /\ \A c \in DOMAIN used : used[c] \in challenge[c].built..now
  /\ \A r \in Requests : request[r].pc \in {"new", "claim", "mint", "select",
       "write", "ensureUser", "answered", "in", "refused"}
  /\ profile \in [Wallets -> {"none", "unverified", "verified"}]
  /\ sessions \subseteq Requests

(* "a validly-signed challenge must still be rejected on a second          *)
(* submission": however requests overlap, calls fail and used challenges   *)
(* are purged, a challenge yields at most one session.                     *)
OneSessionPerChallenge ==
  \A r, s \in sessions : request[r].challenge = request[s].challenge => r = s

(* A login whose calls all succeeded leaves a verified profile, even when  *)
(* two first logins of the wallet race to insert it.                       *)
LoginLeavesProfile ==
  \A r \in sessions : request[r].clean => profile[Account(r)] = "verified"
=============================================================================
