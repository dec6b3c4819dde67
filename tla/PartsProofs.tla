------------------------------ MODULE PartsProofs ------------------------------
(***************************************************************************)
(* What is proved of the smaller components, proved of the behaviours that *)
(* the runs of MCParts check, for any actors and things: the proofs about  *)
(* a component are taken over the variables it has there.                  *)
(***************************************************************************)
EXTENDS MCParts, TLAPS

LoginProof == INSTANCE WalletLoginProofs WITH
  Wallets <- {"w1"}, Challenges <- Thing, Requests <- Actor, Validity <- 1, MaxCall <- 1,
  PurgeAge <- 2, MaxTime <- 3,
  now <- v1, challenge <- v2, used <- v3, request <- v4, profile <- v5, sessions <- v6,
  faults <- v7

RateProof == INSTANCE RateLimitProofs WITH
  Keys <- Actor \union {"other"}, Limit <- 2, Window <- 3, MaxTracked <- 2, MaxTime <- 5,
  buckets <- v1, now <- v2, admitted <- v3

SessionProof == INSTANCE WalletSessionProofs WITH
  Wallets <- {"freighter", "albedo"}, Silent <- {"freighter"}, Accounts <- Thing,
  Backends <- {"authjs", "supabase"}, Tasks <- Actor, MaxEvents <- 4,
  backend <- v1, wallet <- v2, page <- v3, load <- v4, shown <- v5, active <- v6, hint <- v7,
  session <- v8, task <- v9, connecting <- v10, touched <- v11, strayed <- v12, events <- v13

-----------------------------------------------------------------------------
(* A behaviour stays about the part it is about, and takes its steps.      *)
LEMMA PartStarts ==
  ASSUME MCInit
  PROVE  /\ part = "limiter" => Rate!Init
         /\ part = "login" => Login!Init
         /\ part = "profile" => Profile!Init
         /\ part = "session" => Session!Init
         /\ part = "register" => Register!Init
         /\ part = "documents" => Document!Init
         /\ part = "preferences" => Saving!Init
         /\ part = "calls" => Invoke!Init
         /\ part = "preview" => Dialog!Init
BY DEF MCInit, PartInit

LEMMA PartGoesOn ==
  ASSUME [MCNext]_all
  PROVE  /\ part' = part
         /\ part = "limiter" => Rate!Next \/ UNCHANGED pool
         /\ part = "login" => Login!Next \/ UNCHANGED pool
         /\ part = "profile" => Profile!Next \/ UNCHANGED pool
         /\ part = "session" => Session!Next \/ UNCHANGED pool
         /\ part = "register" => Register!Next \/ UNCHANGED pool
         /\ part = "documents" => Document!Next \/ UNCHANGED pool
         /\ part = "preferences" => Saving!Next \/ UNCHANGED pool
         /\ part = "calls" => Invoke!Next \/ UNCHANGED pool
         /\ part = "preview" => Dialog!Next \/ UNCHANGED pool
BY DEF MCNext, PoolStep, all

-----------------------------------------------------------------------------
(* The login of MCParts is the login that is proved about.                 *)
LEMMA LoginIsItsOwn ==
  /\ Login!Init => LoginProof!Init
  /\ Login!Next => LoginProof!Next
<1>1. Login!Init => LoginProof!Init
  BY DEF Login!Init, Login!Idle, LoginProof!Init, LoginProof!Idle
<1>2. Login!Next => LoginProof!Next
  BY DEF
    Login!Next, Login!Step, Login!BuildChallenge, Login!WalletSigns, Login!Verify,
    Login!ClaimAnswers, Login!MintLink, Login!SelectProfile, Login!WriteProfile,
    Login!EnsureUser, Login!SessionStarts, Login!Purge, Login!Tick, Login!With, Login!Verifies,
    Login!Account, Login!Goto, Login!Fault, Login!DirtyGoto, Login!Claim, Login!AfterClaim,
    Login!Bind, LoginProof!Next, LoginProof!Step, LoginProof!BuildChallenge,
    LoginProof!WalletSigns, LoginProof!Verify, LoginProof!ClaimAnswers, LoginProof!MintLink,
    LoginProof!SelectProfile, LoginProof!WriteProfile, LoginProof!EnsureUser,
    LoginProof!SessionStarts, LoginProof!Purge, LoginProof!Tick, LoginProof!With,
    LoginProof!Verifies, LoginProof!Account, LoginProof!Goto, LoginProof!Fault,
    LoginProof!DirtyGoto, LoginProof!Claim, LoginProof!AfterClaim, LoginProof!Bind
<1> QED
  BY <1>1, <1>2

(* A challenge yields one session, however its requests overlap, fail and  *)
(* retry, and whatever the purge forgets.                                  *)
THEOREM LoginsAreSingle == MCSpec => []OneSessionPerChallenge
<1> DEFINE PartInv == part = "login" => LoginProof!LoginInv
<1>1. LoginProof!Times
  BY DEF LoginProof!Times
<1>2. MCInit => PartInv
  BY <1>1, PartStarts, LoginIsItsOwn, LoginProof!LoginInit
<1>3. PartInv /\ [MCNext]_all => PartInv'
  <2> SUFFICES ASSUME LoginProof!LoginInv, part = "login", [MCNext]_all
               PROVE  LoginProof!LoginInv'
    BY PartGoesOn
  <2>1. [LoginProof!Next]_(LoginProof!vars)
    BY PartGoesOn, LoginIsItsOwn DEF LoginProof!vars, pool
  <2> QED
    BY <1>1, <2>1, LoginProof!LoginStep
<1>4. PartInv => OneSessionPerChallenge
  BY LoginProof!OneWinnerOneSession DEF OneSessionPerChallenge, Login!OneSessionPerChallenge,
    LoginProof!OneSessionPerChallenge
<1> QED
  BY <1>2, <1>3, <1>4, PTL DEF MCSpec

-----------------------------------------------------------------------------
(* The tab's wallet of MCParts is the one that is proved about.            *)
LEMMA SessionIsItsOwn ==
  /\ Session!Init => SessionProof!Init
  /\ Session!Next => SessionProof!Next
<1>1. Session!Init => SessionProof!Init
  BY DEF Session!Init, Session!None, Session!NoOne, Session!Idle,
    SessionProof!Init, SessionProof!None, SessionProof!NoOne, SessionProof!Idle
<1>2. Session!Next => SessionProof!Next
  BY DEF
    Session!Next, Session!Reload, Session!Navigate, Session!ProbeWallets,
    Session!RestoreTimeout, Session!Connect, Session!Disconnect, Session!SwitchAccount,
    Session!Answered, Session!Refused, Session!Attach, Session!SignOut, Session!Sign,
    Session!Verified, Session!Reread, Session!LoginThrows, Session!SignInWithWallet,
    Session!SignInFails, Session!Event, Session!LoggingIn, Session!Busy, Session!Quiet,
    Session!Goes, Session!Ends, Session!Begins, Session!Ensure, Session!Restorable,
    Session!MustThrow, Session!Record, Session!At, Session!AfterRestore, Session!AfterConnect,
    Session!Unasked, Session!Forget, Session!SigningOut, Session!recorded, Session!None,
    Session!NoOne, Session!Unlinked, Session!Idle, SessionProof!Next, SessionProof!Reload,
    SessionProof!Navigate, SessionProof!ProbeWallets, SessionProof!RestoreTimeout,
    SessionProof!Connect, SessionProof!Disconnect, SessionProof!SwitchAccount,
    SessionProof!Answered, SessionProof!Refused, SessionProof!Attach, SessionProof!SignOut,
    SessionProof!Sign, SessionProof!Verified, SessionProof!Reread, SessionProof!LoginThrows,
    SessionProof!SignInWithWallet, SessionProof!SignInFails, SessionProof!Event,
    SessionProof!LoggingIn, SessionProof!Busy, SessionProof!Quiet, SessionProof!Goes,
    SessionProof!Ends, SessionProof!Begins, SessionProof!Ensure, SessionProof!Restorable,
    SessionProof!MustThrow, SessionProof!Record, SessionProof!At, SessionProof!AfterRestore,
    SessionProof!AfterConnect, SessionProof!Unasked, SessionProof!Forget,
    SessionProof!SigningOut, SessionProof!recorded, SessionProof!None, SessionProof!NoOne,
    SessionProof!Unlinked, SessionProof!Idle
<1> QED
  BY <1>1, <1>2

(* Signatures are asked of the wallet the page shows, a load of the page   *)
(* opens no wallet window, and the session follows the wallet.             *)
THEOREM WalletStaysShown == MCSpec => []WalletIsShown
<1> DEFINE PartInv == part = "session" => SessionProof!SessionInv
<1>1. MCInit => PartInv
  BY PartStarts, SessionIsItsOwn, SessionProof!InitEstablishesInv
<1>2. PartInv /\ [MCNext]_all => PartInv'
  <2> SUFFICES ASSUME SessionProof!SessionInv, part = "session", [MCNext]_all
               PROVE  SessionProof!SessionInv'
    BY PartGoesOn
  <2>1. [SessionProof!Next]_(SessionProof!vars)
    BY PartGoesOn, SessionIsItsOwn DEF SessionProof!vars, pool
  <2> QED
    BY <2>1, SessionProof!NextKeepsInv
<1>3. PartInv => WalletIsShown
  <2>1. SessionProof!SessionInv =>
          SessionProof!SignerIsShown /\ SessionProof!LoadIsQuiet /\ SessionProof!SessionFollows
    BY SessionProof!InvSettles DEF SessionProof!SessionInv
  <2> QED
    BY <2>1 DEF WalletIsShown, Session!SignerIsShown, Session!LoadIsQuiet, Session!SessionFollows,
      Session!Quiet, Session!Idle, Session!None, Session!NoOne,
      SessionProof!SignerIsShown, SessionProof!LoadIsQuiet, SessionProof!SessionFollows,
      SessionProof!Quiet, SessionProof!Idle, SessionProof!None, SessionProof!NoOne
<1> QED
  BY <1>1, <1>2, <1>3, PTL DEF MCSpec

-----------------------------------------------------------------------------
(* Profiles: the table is v1, the cookies are v2, the requests v3.         *)

(* A step that takes no name from a row takes nothing from what is said of *)
(* a token.                                                                *)
RowsKeep == \A u \in Thing : v1[u].username # Profile!Null => v1'[u].username = v1[u].username

LEMMA RequestStaysBacked ==
  ASSUME Profile!ProfileInv, RowsKeep, NEW q \in Actor, v3'[q] = v3[q]
  PROVE  Profile!RequestIsBacked(q)'
<1>1. CASE v3[q].pc # "new"
  <2>1. v3[q] \in Profile!Request
    BY <1>1 DEF Profile!ProfileInv, Profile!StateOK
  <2> DEFINE u == v3[q].user
             t == v3[q].token
  <2>2. u \in Thing
    BY <2>1 DEF Profile!Request
  <2>3. v1[u].username # Profile!Null => v1'[u].username = v1[u].username
    BY <2>2 DEF RowsKeep
  <2>4. Profile!RequestIsBacked(q)
    BY DEF Profile!ProfileInv
  <2> QED
    BY <1>1, <2>3, <2>4 DEF Profile!RequestIsBacked, Profile!Backed
<1>2. CASE v3[q].pc = "new"
  BY <1>2 DEF Profile!RequestIsBacked
<1> QED
  BY <1>1, <1>2

LEMMA TokensStayBacked ==
  ASSUME Profile!ProfileInv, RowsKeep, UNCHANGED v2
  PROVE  Profile!TokenNeverAhead'
BY DEF RowsKeep, Profile!ProfileInv, Profile!TokenNeverAhead, Profile!Backed

(* A request moves on with what it knows.                                  *)
LEMMA RequestMoves ==
  ASSUME Profile!ProfileInv, NEW q \in Actor, v3[q].pc # "new",
         NEW pc \in {"refresh", "reread", "push", "done", "failed"},
         NEW u \in Thing, u = v3[q].user, NEW t \in Profile!Token, NEW role \in Profile!Roles,
         v3' = [v3 EXCEPT ![q] = [@ EXCEPT !.pc = pc, !.token = t, !.role = role]],
         Profile!StateOK', RowsKeep,
         Profile!Backed(t, u)',
         pc = "refresh" => v1'[u].username # Profile!Null
  PROVE  \A p \in Actor : Profile!RequestIsBacked(p)'
<1> DEFINE r == v3[q]
           s == [r EXCEPT !.pc = pc, !.token = t, !.role = role]
<1>1. r \in Profile!Request
  BY DEF Profile!ProfileInv, Profile!StateOK
<1>2. v3'[q] = s /\ \A p \in Actor \ {q} : v3'[p] = v3[p]
  BY DEF Profile!ProfileInv, Profile!StateOK
<1> HIDE DEF r
<1>3. s.pc = pc /\ s.token = t /\ s.user = r.user
  BY <1>1 DEF Profile!Request
<1> HIDE DEF s
<1>4. Profile!RequestIsBacked(q)'
  BY <1>2, <1>3 DEF Profile!RequestIsBacked, r
<1> QED
  BY <1>2, <1>4, RequestStaysBacked

(* The updates of a request's step have a common form.                     *)
LEMMA RequestFields ==
  ASSUME Profile!ProfileInv, NEW q \in Actor, v3[q].pc # "new",
         NEW pc \in {"refresh", "reread", "push", "done", "failed"}
  PROVE  /\ v3[q] \in Profile!Request
         /\ v3[q].user \in Thing /\ v3[q].token \in Profile!Token
         /\ v3[q].role \in Profile!Roles /\ v3[q].username \in Profile!Names
         /\ [v3[q] EXCEPT !.pc = pc] =
              [v3[q] EXCEPT !.pc = pc, !.token = v3[q].token, !.role = v3[q].role]
         /\ \A t \in Profile!Token :
              [v3[q] EXCEPT !.pc = pc, !.token = t] =
              [v3[q] EXCEPT !.pc = pc, !.token = t, !.role = v3[q].role]
         /\ \A role \in Profile!Roles :
              [v3[q] EXCEPT !.pc = pc, !.role = role] =
              [v3[q] EXCEPT !.pc = pc, !.token = v3[q].token, !.role = role]
         /\ \A t \in Profile!Token, role \in Profile!Roles :
              [v3[q] EXCEPT !.pc = pc, !.token = t, !.role = role] \in Profile!Request
<1>1. v3[q] \in Profile!Request
  BY DEF Profile!ProfileInv, Profile!StateOK
<1> DEFINE r == v3[q]
<1>2. r \in Profile!Request
  BY <1>1
<1> HIDE DEF r
<1>3. /\ r.user \in Thing /\ r.token \in Profile!Token
      /\ r.role \in Profile!Roles /\ r.username \in Profile!Names
      /\ [r EXCEPT !.pc = pc] = [r EXCEPT !.pc = pc, !.token = r.token, !.role = r.role]
      /\ \A t \in Profile!Token :
           [r EXCEPT !.pc = pc, !.token = t] = [r EXCEPT !.pc = pc, !.token = t, !.role = r.role]
      /\ \A role \in Profile!Roles :
           [r EXCEPT !.pc = pc, !.role = role] =
           [r EXCEPT !.pc = pc, !.token = r.token, !.role = role]
      /\ \A t \in Profile!Token, role \in Profile!Roles :
           [r EXCEPT !.pc = pc, !.token = t, !.role = role] \in Profile!Request
  BY <1>2 DEF Profile!Request
<1> QED
  BY <1>1, <1>3 DEF r

(* A request that moves on, with a row changed or its token pushed.        *)
LEMMA MoveKeeps ==
  ASSUME Profile!ProfileInv, NEW q \in Actor, v3[q].pc # "new",
         NEW pc \in {"refresh", "reread", "push", "done", "failed"},
         NEW u \in Thing, u = v3[q].user, NEW t \in Profile!Token, NEW role \in Profile!Roles,
         v3' = [v3 EXCEPT ![q] = [@ EXCEPT !.pc = pc, !.token = t, !.role = role]],
         v1' \in [Thing -> [username : Profile!Names, role : Profile!Roles]], RowsKeep,
         v2' \in {v2, [v2 EXCEPT ![u] = t]},
         Profile!Backed(t, u)',
         pc = "refresh" => v1'[u].username # Profile!Null
  PROVE  Profile!ProfileInv'
<1>1. [v3[q] EXCEPT !.pc = pc, !.token = t, !.role = role] \in Profile!Request
  BY RequestFields
<1>2. v3' \in [Actor -> Profile!Request \union {[pc |-> "new"]}]
  BY <1>1 DEF Profile!ProfileInv, Profile!StateOK
<1>3. v2' \in [Thing -> Profile!Token \union {Profile!SignedOut}]
  BY <1>1 DEF Profile!ProfileInv, Profile!StateOK
<1>4. Profile!StateOK'
  BY <1>2, <1>3 DEF Profile!StateOK
<1>5. Profile!TokenNeverAhead'
  <2>1. CASE v2' = v2
    BY <2>1, TokensStayBacked
  <2>2. CASE v2' = [v2 EXCEPT ![u] = t]
    <3>1. v2'[u] = t /\ \A x \in Thing \ {u} : v2'[x] = v2[x]
      BY <2>2 DEF Profile!ProfileInv, Profile!StateOK
    <3> QED
      BY <3>1 DEF RowsKeep, Profile!ProfileInv, Profile!TokenNeverAhead, Profile!Backed
  <2> QED
    BY <2>1, <2>2
<1> QED
  BY <1>4, <1>5, RequestMoves DEF Profile!ProfileInv

(* A setup or an update begins with the token of its browser.              *)
LEMMA StartKeeps ==
  ASSUME Profile!ProfileInv, NEW q \in Actor, NEW u \in Thing, v2[u].signedIn,
         NEW pc \in {"claim", "update"}, NEW name \in Profile!Names, NEW role \in Profile!Roles,
         v3' = [v3 EXCEPT ![q] = [pc |-> pc, user |-> u, token |-> v2[u], username |-> name,
                                  role |-> role]],
         pc = "claim" => name # Profile!Null,
         UNCHANGED <<v1, v2>>
  PROVE  Profile!ProfileInv'
<1> DEFINE s == [pc |-> pc, user |-> u, token |-> v2[u], username |-> name, role |-> role]
<1>1. v2[u] \in Profile!Token
  BY DEF Profile!ProfileInv, Profile!StateOK, Profile!SignedOut
<1>2. s \in Profile!Request
  BY <1>1 DEF Profile!Request
<1>3. v3'[q] = s /\ \A p \in Actor \ {q} : v3'[p] = v3[p]
  BY DEF Profile!ProfileInv, Profile!StateOK
<1>4. s.pc = pc /\ s.user = u /\ s.token = v2[u] /\ s.username = name
  OBVIOUS
<1>5. v3' = [v3 EXCEPT ![q] = s]
  OBVIOUS
<1> HIDE DEF s
<1>6. Profile!StateOK'
  BY <1>2, <1>5 DEF Profile!ProfileInv, Profile!StateOK
<1>7. RowsKeep
  BY DEF RowsKeep
<1>8. Profile!Backed(v2[u], u)
  BY DEF Profile!ProfileInv, Profile!TokenNeverAhead
<1>9. Profile!RequestIsBacked(q)'
  BY <1>3, <1>4, <1>8 DEF Profile!RequestIsBacked, Profile!Backed
<1>10. \A p \in Actor : Profile!RequestIsBacked(p)'
  BY <1>3, <1>7, <1>9, RequestStaysBacked
<1> QED
  BY <1>6, <1>7, <1>10, TokensStayBacked DEF Profile!ProfileInv

(* A sign-in or sign-out: the cookie is a copy of the row, or gone.        *)
LEMMA SigningKeeps ==
  ASSUME Profile!ProfileInv, NEW u \in Thing, Profile!SignIn(u) \/ Profile!SignOut(u)
  PROVE  Profile!ProfileInv'
<1>1. PICK t \in {Profile!Extras(v1[u]), Profile!SignedOut} :
        v2' = [v2 EXCEPT ![u] = t] /\ UNCHANGED <<v1, v3>>
  BY DEF Profile!SignIn, Profile!SignOut
<1>2. v1[u].username \in Profile!Names /\ v1[u].role \in Profile!Roles
  BY DEF Profile!ProfileInv, Profile!StateOK
<1>3. Profile!Extras(v1[u]) \in Profile!Token /\ Profile!Backed(Profile!Extras(v1[u]), u)
  BY <1>2 DEF Profile!Extras, Profile!Token, Profile!Backed
<1>4. ~Profile!SignedOut.signedIn
  BY DEF Profile!SignedOut
<1>5. Profile!StateOK'
  BY <1>1, <1>3 DEF Profile!ProfileInv, Profile!StateOK
<1>6. Profile!TokenNeverAhead'
  BY <1>1, <1>3, <1>4 DEF Profile!ProfileInv, Profile!StateOK, Profile!TokenNeverAhead,
    Profile!Backed
<1>7. \A q \in Actor : Profile!RequestIsBacked(q)'
  BY <1>1, RequestStaysBacked DEF RowsKeep
<1> QED
  BY <1>5, <1>6, <1>7 DEF Profile!ProfileInv

(* Every step keeps the invariant, and claims a name at most once.         *)
LEMMA ProfileStep ==
  ASSUME Profile!ProfileInv, Profile!Next, Profile!Null \notin Usernames
  PROVE  Profile!ProfileInv' /\ Profile!ClaimsOnce
<1>1. v1 \in [Thing -> [username : Profile!Names, role : Profile!Roles]]
  BY DEF Profile!ProfileInv, Profile!StateOK
<1>2. UNCHANGED v1 => RowsKeep /\ Profile!ClaimsOnce
  BY DEF RowsKeep, Profile!ClaimsOnce
<1>3. ASSUME NEW u \in Thing, Profile!SignIn(u) \/ Profile!SignOut(u)
      PROVE  Profile!ProfileInv' /\ Profile!ClaimsOnce
  BY <1>2, <1>3, SigningKeeps DEF Profile!SignIn, Profile!SignOut
<1>4. ASSUME NEW q \in Actor, NEW u \in Thing, NEW role \in Profile!Roles,
             (\E name \in Usernames : Profile!StartSetup(q, u, name, role))
             \/ Profile!StartUpdate(q, u, role)
      PROVE  Profile!ProfileInv' /\ Profile!ClaimsOnce
  <2>1. PICK pc \in {"claim", "update"}, name \in Profile!Names :
          /\ v2[u].signedIn /\ UNCHANGED <<v1, v2>>
          /\ pc = "claim" => name # Profile!Null
          /\ v3' = [v3 EXCEPT ![q] = [pc |-> pc, user |-> u, token |-> v2[u],
                                     username |-> name, role |-> role]]
    BY <1>4 DEF Profile!StartSetup, Profile!StartUpdate, Profile!Names
  <2> QED
    BY <1>2, <2>1, StartKeeps
<1>5. ASSUME NEW q \in Actor, Profile!Claim(q)
      PROVE  Profile!ProfileInv' /\ Profile!ClaimsOnce
  <2> DEFINE u == v3[q].user
             name == v3[q].username
             claimed == [v1 EXCEPT ![u] = [username |-> name, role |-> v3[q].role]]
             allowed == v1[u].username = Profile!Null /\ ~Profile!Taken(name)
  <2>1. v3[q].pc = "claim" /\ UNCHANGED v2
    BY <1>5 DEF Profile!Claim
  <2>2. PICK pc \in {"refresh", "failed"} :
          /\ Profile!Goto(q, pc)
          /\ v1' = v1 \/ (allowed /\ v1' = claimed)
          /\ pc = "refresh" => v1' = claimed
    BY <1>5 DEF Profile!Claim
  <2>3. u \in Thing /\ name \in Profile!Names /\ v3[q].role \in Profile!Roles
        /\ v3[q].token \in Profile!Token
    BY <2>1, RequestFields
  <2>4. name # Profile!Null /\ Profile!Backed(v3[q].token, u)
    BY <2>1 DEF Profile!ProfileInv, Profile!RequestIsBacked
  <2>5. v3' = [v3 EXCEPT ![q] =
          [@ EXCEPT !.pc = pc, !.token = v3[q].token, !.role = v3[q].role]]
    BY <2>1, <2>2, RequestFields DEF Profile!Goto
  <2>6. claimed \in [Thing -> [username : Profile!Names, role : Profile!Roles]]
        /\ claimed[u].username = name /\ \A v \in Thing \ {u} : claimed[v] = v1[v]
    BY <1>1, <2>3
  <2>7. allowed => \A v \in Thing : v1[v].username # name
    BY DEF Profile!Taken
  <2> HIDE DEF claimed
  <2>8. RowsKeep /\ Profile!ClaimsOnce
    <3>1. CASE allowed /\ v1' = claimed
      BY <2>6, <2>7, <3>1 DEF RowsKeep, Profile!ClaimsOnce
    <3> QED
      BY <1>2, <2>2, <3>1
  <2>9. pc = "refresh" => v1'[u].username # Profile!Null
    BY <2>2, <2>4, <2>6
  <2>10. PICK x \in Thing, t \in Profile!Token : x = u /\ t = v3[q].token
    BY <2>3
  <2>11. Profile!Backed(t, x)'
    <3>1. Profile!Backed(t, x)
      BY <2>4, <2>10
    <3> QED
      BY <2>8, <3>1 DEF RowsKeep, Profile!Backed
  <2>12. v1' \in [Thing -> [username : Profile!Names, role : Profile!Roles]]
    BY <1>1, <2>2, <2>6
  <2> HIDE DEF u, allowed
  <2>13. Profile!ProfileInv'
    BY <2>1, <2>3, <2>5, <2>8, <2>9, <2>10, <2>11, <2>12, MoveKeeps DEF u
  <2> QED
    BY <2>8, <2>13
<1>6. ASSUME NEW q \in Actor, Profile!Update(q)
      PROVE  Profile!ProfileInv' /\ Profile!ClaimsOnce
  <2> DEFINE updated == [v1 EXCEPT ![v3[q].user].role = v3[q].role]
  <2>1. v3[q].pc = "update" /\ UNCHANGED v2
    BY <1>6 DEF Profile!Update
  <2>2. PICK pc \in {"reread", "failed"} : Profile!Goto(q, pc) /\ v1' \in {v1, updated}
    BY <1>6 DEF Profile!Update
  <2>3. v3[q].user \in Thing /\ v3[q].role \in Profile!Roles /\ v3[q].token \in Profile!Token
    BY <2>1, RequestFields
  <2>4. v3' = [v3 EXCEPT ![q] =
          [@ EXCEPT !.pc = pc, !.token = v3[q].token, !.role = v3[q].role]]
    BY <2>1, <2>2, RequestFields DEF Profile!Goto
  <2>5. updated \in [Thing -> [username : Profile!Names, role : Profile!Roles]]
        /\ \A v \in Thing : updated[v].username = v1[v].username
    BY <1>1, <2>3
  <2> HIDE DEF updated
  <2>6. /\ \A v \in Thing : v1'[v].username = v1[v].username
        /\ v1' \in [Thing -> [username : Profile!Names, role : Profile!Roles]]
    BY <1>1, <2>2, <2>5
  <2>7. RowsKeep /\ Profile!ClaimsOnce
    BY <2>6 DEF RowsKeep, Profile!ClaimsOnce
  <2>8. PICK x \in Thing, t \in Profile!Token : x = v3[q].user /\ t = v3[q].token
    BY <2>3
  <2>9. Profile!Backed(t, x)'
    <3>1. Profile!Backed(t, x)
      BY <2>1, <2>8 DEF Profile!ProfileInv, Profile!RequestIsBacked
    <3> QED
      BY <2>6, <3>1 DEF Profile!Backed
  <2>10. Profile!ProfileInv'
    BY <2>1, <2>3, <2>4, <2>6, <2>7, <2>8, <2>9, MoveKeeps
  <2> QED
    BY <2>7, <2>10
<1>7. ASSUME NEW q \in Actor, Profile!Reread(q)
      PROVE  Profile!ProfileInv' /\ Profile!ClaimsOnce
  <2>1. v3[q].pc = "reread" /\ UNCHANGED <<v1, v2>>
    BY <1>7 DEF Profile!Reread
  <2>2. v3[q].user \in Thing /\ v3[q].token \in Profile!Token
    BY <2>1, RequestFields
  <2>3. v1[v3[q].user].role \in Profile!Roles
    BY <1>1, <2>2
  <2>4. PICK x \in Thing, t \in Profile!Token, role \in Profile!Roles :
          x = v3[q].user /\ t = v3[q].token /\ role = v1[v3[q].user].role
    BY <2>2, <2>3
  <2>5. v3' = [v3 EXCEPT ![q] = [@ EXCEPT !.pc = "push", !.token = t, !.role = role]]
    <3>1. v3' = [v3 EXCEPT ![q] = [@ EXCEPT !.pc = "push", !.role = role]]
      BY <1>7, <2>4 DEF Profile!Reread
    <3>2. [v3[q] EXCEPT !.pc = "push", !.role = role] =
          [v3[q] EXCEPT !.pc = "push", !.token = t, !.role = role]
      BY <2>1, <2>4, RequestFields
    <3> QED
      BY <3>1, <3>2
  <2>6. Profile!Backed(t, x)'
    BY <2>1, <2>4 DEF Profile!ProfileInv, Profile!RequestIsBacked, Profile!Backed
  <2>7. Profile!ProfileInv'
    BY <1>1, <1>2, <2>1, <2>4, <2>5, <2>6, MoveKeeps
  <2> QED
    BY <1>2, <2>1, <2>7
<1>8. ASSUME NEW q \in Actor, Profile!RefreshSetup(q) \/ Profile!PushUpdate(q)
      PROVE  Profile!ProfileInv' /\ Profile!ClaimsOnce
  <2>1. v3[q].pc \in {"refresh", "push"} /\ UNCHANGED v1
    BY <1>8 DEF Profile!RefreshSetup, Profile!PushUpdate, Profile!Push
  <2>2. v3[q].user \in Thing /\ v3[q].token \in Profile!Token /\ v3[q].role \in Profile!Roles
    BY <2>1, RequestFields
  <2>3. PICK x \in Thing, role \in Profile!Roles : x = v3[q].user /\ role = v3[q].role
    BY <2>2
  <2>4. Profile!Backed(v3[q].token, x) /\ (v3[q].pc = "refresh" => v1[x].username # Profile!Null)
    BY <2>1, <2>3 DEF Profile!ProfileInv, Profile!RequestIsBacked
  <2> DEFINE old == v3[q].token
             done == [old EXCEPT !.hasProfile = TRUE]
             moved == [old EXCEPT !.role = role]
  <2>5. old \in Profile!Token /\ Profile!Backed(old, x)
    BY <2>2, <2>4
  <2>6. \/ v3[q].pc = "refresh" /\ Profile!Push(q, done)
        \/ Profile!Push(q, moved)
    BY <1>8, <2>3 DEF Profile!RefreshSetup, Profile!PushUpdate
  <2> HIDE DEF old
  <2>7. /\ done \in Profile!Token
        /\ v3[q].pc = "refresh" => Profile!Backed(done, x)
        /\ moved \in Profile!Token /\ Profile!Backed(moved, x)
    BY <2>4, <2>5 DEF Profile!Token, Profile!Backed
  <2> HIDE DEF done, moved
  <2>8. PICK t \in Profile!Token : Profile!Backed(t, x) /\ Profile!Push(q, t)
    BY <2>6, <2>7
  <2>9. CASE /\ v3' = [v3 EXCEPT ![q] = [@ EXCEPT !.pc = "done", !.token = t]]
             /\ v2' = [v2 EXCEPT ![x] = t]
    <3>1. [v3[q] EXCEPT !.pc = "done", !.token = t] =
          [v3[q] EXCEPT !.pc = "done", !.token = t, !.role = role]
      BY <2>1, <2>3, RequestFields
    <3>2. Profile!Backed(t, x)'
      BY <2>1, <2>8 DEF Profile!Backed
    <3> QED
      BY <1>1, <1>2, <2>1, <2>3, <2>9, <3>1, <3>2, MoveKeeps
  <2>10. CASE Profile!Goto(q, "failed") /\ UNCHANGED v2
    <3>1. PICK u \in Profile!Token : u = v3[q].token
      BY <2>2
    <3>2. v3' = [v3 EXCEPT ![q] = [@ EXCEPT !.pc = "failed", !.token = u, !.role = role]]
      BY <2>1, <2>3, <2>10, <3>1, RequestFields DEF Profile!Goto
    <3>3. Profile!Backed(u, x)'
      BY <2>1, <2>4, <3>1 DEF Profile!Backed
    <3> QED
      BY <1>1, <1>2, <2>1, <2>3, <2>10, <3>2, <3>3, MoveKeeps
  <2> QED
    BY <2>3, <2>8, <2>9, <2>10 DEF Profile!Push
<1> QED
  BY <1>3, <1>4, <1>5, <1>6, <1>7, <1>8 DEF Profile!Next

LEMMA ProfileStarts == Profile!Init => Profile!ProfileInv
<1> SUFFICES ASSUME Profile!Init PROVE Profile!ProfileInv
  OBVIOUS
<1>1. [username |-> Profile!Null, role |-> "business"]
        \in [username : Profile!Names, role : Profile!Roles]
  BY DEF Profile!Names, Profile!Roles
<1>2. Profile!StateOK
  BY <1>1 DEF Profile!Init, Profile!StateOK
<1>3. \A u \in Thing : ~v2[u].signedIn
  BY DEF Profile!Init, Profile!SignedOut
<1>4. \A q \in Actor : v3[q].pc = "new"
  BY DEF Profile!Init
<1> QED
  BY <1>2, <1>3, <1>4 DEF Profile!ProfileInv, Profile!TokenNeverAhead, Profile!RequestIsBacked

(* A login whose calls succeeded leaves a verified profile; of racing      *)
(* setups one claims a name and keeps it; no token says that a setup is    *)
(* done before it is.                                                      *)
THEOREM ProfilesStayKept ==
  ASSUME Profile!Null \notin Usernames
  PROVE  MCSpec => ProfilesAreKept
<1> DEFINE PartInv ==
      /\ part = "login" => LoginProof!LoginInv /\ LoginProof!ProfileInv
      /\ part = "profile" => Profile!ProfileInv
<1>1. LoginProof!Times
  BY DEF LoginProof!Times
<1>2. MCInit => PartInv
  BY <1>1, PartStarts, LoginIsItsOwn, LoginProof!LoginInit, LoginProof!ProfileInit, ProfileStarts
<1>3. ASSUME PartInv, [MCNext]_all
      PROVE  PartInv' /\ (part = "profile" => Profile!ClaimsOnce)
  <2>1. CASE part = "login"
    <3>1. [LoginProof!Next]_(LoginProof!vars)
      BY <1>3, <2>1, PartGoesOn, LoginIsItsOwn DEF LoginProof!vars, pool
    <3> QED
      BY <1>1, <1>3, <2>1, <3>1, PartGoesOn, LoginProof!LoginStep, LoginProof!ProfileStep
  <2>2. CASE part = "profile" /\ Profile!Next
    BY <1>3, <2>2, PartGoesOn, ProfileStep
  <2>3. CASE part = "profile" /\ UNCHANGED pool
    <3>1. UNCHANGED <<v1, v2, v3>>
      BY <2>3 DEF pool
    <3>2. Profile!ProfileInv'
      BY <1>3, <2>3, <3>1 DEF Profile!ProfileInv, Profile!StateOK, Profile!TokenNeverAhead,
        Profile!RequestIsBacked, Profile!Backed
    <3> QED
      BY <2>3, <3>1, <3>2, PartGoesOn, <1>3 DEF Profile!ClaimsOnce
  <2> QED
    BY <1>3, <2>1, <2>2, <2>3, PartGoesOn
<1>4. PartInv /\ [MCNext]_all => PartInv'
  BY <1>3
<1>5. PartInv /\ [MCNext]_all => [part = "profile" => Profile!ClaimsOnce]_all
  BY <1>3
<1>6. PartInv => /\ part = "login" => Login!LoginLeavesProfile
                 /\ part = "profile" => Profile!TokenNeverAhead
  BY LoginProof!WinnersHaveProfiles DEF Profile!ProfileInv, Login!LoginLeavesProfile,
    Login!Account, LoginProof!LoginLeavesProfile, LoginProof!Account
<1> QED
  BY <1>2, <1>4, <1>5, <1>6, PTL DEF MCSpec, ProfilesAreKept

-----------------------------------------------------------------------------
(* The limiter of MCParts is the limiter that is proved about.             *)
LEMMA RateIsItsOwn ==
  /\ Rate!Init => RateProof!Init
  /\ Rate!Next => RateProof!Next
<1>1. Rate!Init => RateProof!Init
  BY DEF Rate!Init, RateProof!Init
<1>2. Rate!Next => RateProof!Next
  BY DEF Rate!Next, Rate!Tick, Rate!CheckRateLimit, Rate!Admitted, Rate!Refused, Rate!Started,
    Rate!Room, Rate!Active, Rate!Swept, Rate!Ended, Rate!Only,
    RateProof!Next, RateProof!Tick, RateProof!CheckRateLimit, RateProof!Admitted,
    RateProof!Refused, RateProof!Started, RateProof!Room, RateProof!Active, RateProof!Swept,
    RateProof!Ended, RateProof!Only, Rate!Cardinality, RateProof!Cardinality
<1> QED
  BY <1>1, <1>2

(* No window of a tracked key is dropped or started over before it ends.   *)
THEOREM WindowsStay == MCSpec => WindowsLast
<1> DEFINE PartInv == part = "limiter" => RateProof!CapInv
           Stays == \A k \in Actor \union {"other"} : Rate!WindowStays(k)
<1>1. RateProof!Numbers
  BY DEF RateProof!Numbers
<1>2. MCInit => PartInv
  BY <1>1, PartStarts, RateIsItsOwn, RateProof!CapInit
<1>3. ASSUME PartInv, [MCNext]_all
      PROVE  PartInv' /\ [part = "limiter" => Stays]_all
  <2>1. CASE part = "limiter"
    <3>1. [RateProof!Next]_(RateProof!vars)
      BY <1>3, <2>1, PartGoesOn, RateIsItsOwn DEF RateProof!vars, pool
    <3>2. PartInv'
      BY <1>1, <1>3, <2>1, <3>1, PartGoesOn, RateProof!CapStep
    <3>3. [\A k \in Actor \union {"other"} : RateProof!WindowStays(k)]_(RateProof!vars)
      BY <1>1, <1>3, <2>1, <3>1, RateProof!CallKeepsWindows
    <3>4. CASE UNCHANGED <<v1, v2, v3>>
      <4>1. \A k \in DOMAIN v1 : v1[k].count \in Nat
        BY <1>3, <2>1 DEF RateProof!CapInv, RateProof!TableOK, RateProof!Bucket
      <4>2. Stays
        BY <3>4, <4>1 DEF Rate!WindowStays, Rate!Active, Rate!Ended
      <4> QED
        BY <3>2, <4>2
    <3>5. CASE ~UNCHANGED <<v1, v2, v3>>
      <4>1. Stays
        BY <3>3, <3>5 DEF RateProof!vars, RateProof!WindowStays, RateProof!Active, RateProof!Ended,
          Rate!WindowStays, Rate!Active, Rate!Ended
      <4> QED
        BY <3>2, <4>1
    <3> QED
      BY <3>4, <3>5
  <2> QED
    BY <1>3, <2>1, PartGoesOn
<1>4. PartInv /\ [MCNext]_all => PartInv'
  BY <1>3
<1>5. PartInv /\ [MCNext]_all => [part = "limiter" => Stays]_all
  BY <1>3
<1> QED
  BY <1>2, <1>4, <1>5, PTL DEF MCSpec, WindowsLast

-----------------------------------------------------------------------------
(* Registration: the form is v1, storage v2, the submissions v3, the       *)
(* registry v4, the table v5, what was reported v6 and lost v7, the drafts *)
(* saved v8 and typed v9.                                                  *)

LEMMA RegistrationStarts == Register!Init => Register!RegistrationInv
<1> SUFFICES ASSUME Register!Init PROVE Register!RegistrationInv
  OBVIOUS
<1>1. Register!Blank \in Register!Draft /\ Register!NoWallet \in Register!Keys
  BY DEF Register!Blank, Register!Draft, Register!Keys
<1>2. Register!StateOK
  BY <1>1 DEF Register!Init, Register!StateOK, Register!Form, Register!Job, Register!Mounted,
    Register!NoJob, Register!Absent, Register!Entry
<1> QED
  BY <1>2 DEF Register!Init, Register!RegistrationInv, Register!RowsAreRegistered,
    Register!DraftsStayApart, Register!DroppedIsGone,
    Register!SubmittedDraftIsGone, Register!SubmissionIsOwn, Register!Running, Register!NoJob,
    Register!Mounted, Register!Blank

(* A step of the form alone: what it shows is its own, and nothing dropped. *)
LEMMA FormKeeps ==
  ASSUME Register!RegistrationInv, UNCHANGED <<v2, v3, v4, v5, v6, v7, v8>>,
         v9' \in Nat, v9' >= v9, v1' \in Register!Form,
         v1'.fields # Register!Blank => v1'.fields.by = v1'.key,
         v1'.fields \notin v8, v1'.fields.n <= v9'
  PROVE  Register!RegistrationInv'
<1>1. Register!StateOK'
  BY DEF Register!RegistrationInv, Register!StateOK
<1>2. /\ Register!RowsAreRegistered' /\ Register!DraftsStayApart'
      /\ \A i \in Register!Ids : Register!SubmissionIsOwn(i)'
  BY DEF Register!RegistrationInv, Register!RowsAreRegistered, Register!DraftsStayApart,
    Register!SubmissionIsOwn, Register!Running, Register!Content
<1>3. /\ \A d \in v8 : d.n \in Nat
      /\ \A k \in Register!Keys : v2[k].n \in Nat
      /\ \A i \in Register!Ids : v3[i].fields.n \in Nat
  BY DEF Register!RegistrationInv, Register!StateOK, Register!Job, Register!Draft
<1>4. Register!DroppedIsGone'
  BY <1>1, <1>3 DEF Register!RegistrationInv, Register!StateOK, Register!DroppedIsGone,
    Register!SubmittedDraftIsGone
<1> QED
  BY <1>1, <1>2, <1>4 DEF Register!RegistrationInv

(* A step of submission i alone, its form possibly noting the account.     *)
LEMMA SubmissionKeeps ==
  ASSUME Register!RegistrationInv, NEW i \in Register!Ids, UNCHANGED <<v2, v8, v9>>,
         v1' \in Register!Form, v1'.key = v1.key, v1'.fields = v1.fields,
         NEW j \in Register!Job, v3' = [v3 EXCEPT ![i] = j], j.fields.n <= v9,
         v4' \in [Register!Ids -> Register!Entry], v5' \in [Register!Ids -> Register!Entry],
         \A k \in Register!Ids \ {i} : v4'[k] = v4[k] /\ v5'[k] = v5[k],
         v6 \subseteq v6', v7 \subseteq v7',
         Register!SubmissionIsOwn(i)',
         v5'[i] # Register!Absent => v5'[i] = v4'[i],
         v4'[i] # Register!Absent /\ v5'[i] = Register!Absent =>
           j.at = "save" \/ i \in v6' \union v7'
  PROVE  Register!RegistrationInv'
<1>1. /\ v3'[i] = j /\ (\A k \in Register!Ids \ {i} : v3'[k] = v3[k])
      /\ v3' \in [Register!Ids -> Register!Job]
  BY DEF Register!RegistrationInv, Register!StateOK
<1>2. Register!StateOK'
  BY <1>1 DEF Register!RegistrationInv, Register!StateOK
<1>3. Register!DraftsStayApart'
  BY DEF Register!RegistrationInv, Register!DraftsStayApart
<1>4. Register!RowsAreRegistered'
  BY <1>1 DEF Register!RegistrationInv, Register!RowsAreRegistered
<1>5. ASSUME NEW k \in Register!Ids
      PROVE  Register!SubmissionIsOwn(k)'
  <2>1. CASE k = i
    BY <2>1 DEF Register!SubmissionIsOwn, Register!Running, Register!Content
  <2>2. CASE k # i
    <3>1. /\ v3'[k] = v3[k] /\ v4'[k] = v4[k] /\ v5'[k] = v5[k]
          /\ Register!SubmissionIsOwn(k)
      BY <1>1, <2>2 DEF Register!RegistrationInv
    <3> QED
      BY <3>1 DEF Register!SubmissionIsOwn, Register!Running, Register!Content
  <2> QED
    BY <2>1, <2>2
<1>6. Register!DroppedIsGone'
  BY <1>1 DEF Register!RegistrationInv, Register!DroppedIsGone, Register!SubmittedDraftIsGone
<1> QED
  BY <1>2, <1>3, <1>4, <1>5, <1>6 DEF Register!RegistrationInv

LEMMA RegistrationStep ==
  ASSUME Register!RegistrationInv, Register!Next
  PROVE  Register!RegistrationInv'
<1>1. /\ v1 \in Register!Form /\ v2 \in [Register!Keys -> Register!Draft]
      /\ v3 \in [Register!Ids -> Register!Job]
      /\ v4 \in [Register!Ids -> Register!Entry] /\ v5 \in [Register!Ids -> Register!Entry]
      /\ v8 \subseteq Register!Draft /\ v9 \in Nat
  BY DEF Register!RegistrationInv, Register!StateOK
<1>2. /\ Register!RowsAreRegistered /\ Register!DraftsStayApart /\ Register!DroppedIsGone
      /\ \A i \in Register!Ids : Register!SubmissionIsOwn(i)
  BY DEF Register!RegistrationInv
<1>3. ASSUME NEW k \in Register!Keys, Register!Mount(k)
      PROVE  Register!RegistrationInv'
  <2>1. v1' = Register!Mounted(k, v2[k])
        /\ UNCHANGED <<v2, v4, v5, v6, v7, v8, v9>>
    BY <1>3 DEF Register!Mount
  <2>2. \A i \in Register!Ids : /\ v3'[i] \in Register!Job /\ v3'[i].at = v3[i].at
                                /\ v3'[i].wallet = v3[i].wallet /\ v3'[i].fields = v3[i].fields
    BY <1>1, <1>3 DEF Register!Mount, Register!Unmounted, Register!Job
  <2>3. v3' \in [Register!Ids -> Register!Job]
    BY <1>3, <2>2 DEF Register!Mount, Register!Unmounted
  <2>4. /\ v1' \in Register!Form /\ v1'.key = k /\ v1'.fields = v2[k]
    BY <1>1, <2>1 DEF Register!Mounted, Register!Form
  <2>5. Register!StateOK' /\ Register!DraftsStayApart' /\ Register!DroppedIsGone'
    BY <1>1, <1>2, <2>1, <2>2, <2>3, <2>4 DEF Register!StateOK, Register!DraftsStayApart,
      Register!DroppedIsGone,
      Register!SubmittedDraftIsGone
  <2>6. Register!RowsAreRegistered' /\ \A i \in Register!Ids : Register!SubmissionIsOwn(i)'
    BY <1>2, <2>1, <2>2 DEF Register!RowsAreRegistered, Register!SubmissionIsOwn, Register!Running,
      Register!Content
  <2> QED
    BY <2>5, <2>6 DEF Register!RegistrationInv
<1>4. ASSUME Register!Reload
      PROVE  Register!RegistrationInv'
  <2>1. /\ v1' = Register!Mounted(v1.key, v2[v1.key])
        /\ v7' = v7 \union {i \in Register!Ids : Register!Running(i)}
        /\ v3' = [i \in Register!Ids |->
                     IF Register!Running(i) THEN [Register!NoJob EXCEPT !.at = "over"] ELSE v3[i]]
        /\ UNCHANGED <<v2, v6, v8, v9>>
    BY <1>4 DEF Register!Reload
  <2>2. PICK sent \in SUBSET Register!SentAt("register") :
          v4' = [i \in Register!Ids |-> IF i \in sent THEN Register!Content(i) ELSE v4[i]]
    BY <1>4 DEF Register!Reload
  <2>3. PICK saves \in SUBSET Register!SentAt("save") :
          v5' = [i \in Register!Ids |-> IF i \in saves THEN Register!Content(i) ELSE v5[i]]
    BY <1>4 DEF Register!Reload
  <2>4. /\ v1' \in Register!Form /\ v1'.key = v1.key /\ v1'.fields = v2[v1.key]
        /\ v1.key \in Register!Keys
    BY <1>1, <2>1 DEF Register!Mounted, Register!Form
  <2>5. /\ Register!NoJob.fields = Register!Blank /\ Register!Blank.n = 0
        /\ [Register!NoJob EXCEPT !.at = "over"] \in Register!Job
        /\ [Register!NoJob EXCEPT !.at = "over"].at = "over"
        /\ [Register!NoJob EXCEPT !.at = "over"].fields = Register!Blank
    BY DEF Register!NoJob, Register!Job, Register!Blank, Register!Draft, Register!Keys
  <2>6. \A i \in Register!Ids : /\ v3'[i] \in Register!Job
                                /\ ~Register!Running(i) => v3'[i] = v3[i]
                                /\ Register!Running(i) => v3'[i].at = "over"
                                /\ Register!Running(i) => v3'[i].fields = Register!Blank
    BY <1>1, <2>1, <2>5
  <2>7. v3' \in [Register!Ids -> Register!Job]
    BY <2>1, <2>6
  <2>8. \A i \in Register!Ids : Register!Content(i) \in Register!Entry
    BY <1>1 DEF Register!Content, Register!Entry, Register!Job
  <2>9. Register!StateOK'
    BY <1>1, <2>1, <2>2, <2>3, <2>4, <2>7, <2>8 DEF Register!StateOK
  <2>10. Register!DraftsStayApart' /\ Register!DroppedIsGone'
    BY <1>1, <1>2, <2>1, <2>4, <2>5, <2>6 DEF Register!DraftsStayApart, Register!DroppedIsGone,
      Register!SubmittedDraftIsGone
  <2>11. \A i \in Register!Ids :
           /\ Register!SubmissionIsOwn(i)'
           /\ v5'[i] # Register!Absent => v5'[i] = v4'[i]
           /\ v4'[i] # Register!Absent /\ v5'[i] = Register!Absent =>
                v3'[i].at = "save" \/ i \in v6' \union v7'
    <3> TAKE i \in Register!Ids
    <3>1. CASE v3[i].at = "register"
      BY <1>2, <2>1, <2>2, <2>3, <2>6, <3>1 DEF Register!SubmissionIsOwn, Register!Running,
        Register!Content, Register!SentAt
    <3>2. CASE v3[i].at = "save"
      BY <1>2, <2>1, <2>2, <2>3, <2>6, <3>2 DEF Register!SubmissionIsOwn, Register!Running,
        Register!Content, Register!SentAt
    <3>3. CASE v3[i].at \notin {"register", "save"}
      <4>1. v4'[i] = v4[i] /\ v5'[i] = v5[i] /\ v3'[i] = v3[i]
        BY <2>2, <2>3, <2>6, <3>3 DEF Register!Running, Register!SentAt
      <4> QED
        BY <1>2, <2>1, <3>3, <4>1 DEF Register!SubmissionIsOwn, Register!RowsAreRegistered,
          Register!Running, Register!Content
    <3> QED
      BY <3>1, <3>2, <3>3
  <2> QED
    BY <2>9, <2>10, <2>11 DEF Register!RegistrationInv, Register!RowsAreRegistered
<1>5. ASSUME Register!Type
      PROVE  Register!RegistrationInv'
  <2> DEFINE fields == [by |-> v1.key, n |-> v9 + 1]
  <2>1. /\ v9' = v9 + 1 /\ UNCHANGED <<v2, v3, v4, v5, v6, v7, v8>>
        /\ v1' = [v1 EXCEPT !.fields = fields, !.cleared = FALSE]
    BY <1>5 DEF Register!Type
  <2>2. fields \in Register!Draft /\ fields.n = v9 + 1 /\ fields.by = v1.key
    BY <1>1 DEF Register!Draft, Register!Form
  <2> HIDE DEF fields
  <2>3. v1' \in Register!Form /\ v1'.fields = fields /\ v1'.key = v1.key
    BY <1>1, <2>1, <2>2 DEF Register!Form
  <2>4. fields \notin v8
    BY <1>1, <1>2, <2>2 DEF Register!DroppedIsGone
  <2> QED
    BY <1>1, <2>1, <2>2, <2>3, <2>4, FormKeeps
<1>6. ASSUME Register!CheckAccount \/ Register!FundAccount
      PROVE  Register!RegistrationInv'
  <2>1. UNCHANGED <<v2, v3, v4, v5, v6, v7, v8, v9>>
        /\ v1' \in Register!Form /\ v1'.fields = v1.fields /\ v1'.key = v1.key
    BY <1>1, <1>6 DEF Register!CheckAccount, Register!FundAccount, Register!Form
  <2> QED
    BY <1>1, <1>2, <2>1, FormKeeps DEF Register!DraftsStayApart, Register!DroppedIsGone
<1>7. ASSUME Register!SaveDraft
      PROVE  Register!RegistrationInv'
  <2>1. /\ v2' = [v2 EXCEPT ![v1.key] = v1.fields]
        /\ UNCHANGED <<v1, v3, v4, v5, v6, v7, v8, v9>>
    BY <1>7 DEF Register!SaveDraft
  <2>2. v1.key \in Register!Keys /\ v1.fields \in Register!Draft
    BY <1>1 DEF Register!Form
  <2>3. v2' \in [Register!Keys -> Register!Draft] /\ v2'[v1.key] = v1.fields
        /\ \A k \in Register!Keys \ {v1.key} : v2'[k] = v2[k]
    BY <1>1, <2>1, <2>2
  <2>4. Register!StateOK'
    BY <1>1, <2>1, <2>3 DEF Register!StateOK
  <2>5. Register!DraftsStayApart' /\ Register!DroppedIsGone'
    BY <1>2, <2>1, <2>2, <2>3 DEF Register!DraftsStayApart, Register!DroppedIsGone,
      Register!SubmittedDraftIsGone
  <2>6. Register!RowsAreRegistered' /\ \A i \in Register!Ids : Register!SubmissionIsOwn(i)'
    BY <1>2, <2>1 DEF Register!RowsAreRegistered, Register!SubmissionIsOwn, Register!Running,
      Register!Content
  <2> QED
    BY <2>4, <2>5, <2>6 DEF Register!RegistrationInv
<1>8. ASSUME NEW i \in Register!Ids, Register!Submit(i)
      PROVE  Register!RegistrationInv'
  <2> DEFINE j == [at |-> "register", wallet |-> v1.key, fields |-> v1.fields, mounted |-> TRUE]
  <2>1. /\ v1.fields # Register!Blank /\ v3[i].at = "none" /\ v3' = [v3 EXCEPT ![i] = j]
        /\ UNCHANGED <<v1, v2, v4, v5, v6, v7, v8, v9>>
    BY <1>8 DEF Register!Submit
  <2>2. j \in Register!Job /\ j.fields = v1.fields /\ j.wallet = v1.key /\ j.at = "register"
    BY <1>1 DEF Register!Form, Register!Job
  <2> HIDE DEF j
  <2>3. v3'[i] = j
    BY <1>1, <2>1
  <2>4. v4[i] = Register!Absent /\ v5[i] = Register!Absent /\ v1.fields.by = v1.key
        /\ v1.fields.n <= v9
    BY <1>2, <2>1 DEF Register!SubmissionIsOwn, Register!DraftsStayApart, Register!DroppedIsGone
  <2>5. Register!SubmissionIsOwn(i)'
    BY <2>1, <2>2, <2>3, <2>4 DEF Register!SubmissionIsOwn, Register!Running
  <2> QED
    BY <1>1, <2>1, <2>2, <2>4, <2>5, SubmissionKeeps
<1>9. ASSUME NEW i \in Register!Ids, Register!Registered(i)
      PROVE  Register!RegistrationInv'
  <2> DEFINE old == v3[i]
             j == [old EXCEPT !.at = "save"]
  <2>1. /\ old.at = "register" /\ v3' = [v3 EXCEPT ![i] = j]
        /\ v4' = [v4 EXCEPT ![i] = Register!Content(i)]
        /\ v1' = IF old.mounted THEN [v1 EXCEPT !.funded = "yes"] ELSE v1
        /\ UNCHANGED <<v2, v5, v6, v7, v8, v9>>
    BY <1>9 DEF Register!Registered, Register!OnLedger
  <2>2. old \in Register!Job
    BY <1>1
  <2>3. /\ Register!Content(i) = [wallet |-> old.wallet, fields |-> old.fields]
        /\ Register!Content(i) \in Register!Entry
    BY <2>2 DEF Register!Content, Register!Entry, Register!Job
  <2>4. /\ v5[i] = Register!Absent /\ old.fields # Register!Blank /\ old.fields.by = old.wallet
        /\ old.fields.n <= v9
    BY <1>2, <2>1 DEF Register!SubmissionIsOwn, Register!Running, Register!DroppedIsGone
  <2> HIDE DEF old
  <2>5. /\ j \in Register!Job /\ j.fields = old.fields /\ j.wallet = old.wallet /\ j.at = "save"
    BY <2>2 DEF Register!Job
  <2> HIDE DEF j
  <2>6. v3'[i] = j /\ v4'[i] = Register!Content(i)
        /\ (\A k \in Register!Ids \ {i} : v4'[k] = v4[k])
        /\ v4' \in [Register!Ids -> Register!Entry]
    BY <1>1, <2>1, <2>3
  <2>7. v1' \in Register!Form /\ v1'.fields = v1.fields /\ v1'.key = v1.key
    BY <1>1, <2>1 DEF Register!Form
  <2>8. Register!SubmissionIsOwn(i)'
    BY <2>1, <2>3, <2>4, <2>5, <2>6 DEF Register!SubmissionIsOwn, Register!Running,
      Register!Content
  <2> QED
    BY <1>1, <2>1, <2>4, <2>5, <2>6, <2>7, <2>8, SubmissionKeeps
<1>10. ASSUME NEW i \in Register!Ids, Register!RegisterThrows(i) \/ Register!SaveRefused(i)
       PROVE  Register!RegistrationInv'
  <2> DEFINE old == v3[i]
             j == [old EXCEPT !.at = "over"]
  <2>1. /\ old.at \in {"register", "save"} /\ v3' = [v3 EXCEPT ![i] = j]
        /\ UNCHANGED <<v1, v2, v8, v9>> /\ v6 \subseteq v6' /\ v7 \subseteq v7'
    BY <1>10 DEF Register!RegisterThrows, Register!SaveRefused, Register!Ends
  <2>2. old \in Register!Job /\ Register!Content(i) \in Register!Entry
    BY <1>1 DEF Register!Content, Register!Entry, Register!Job
  <2>3. \/ /\ v4' = v4 \/ (Register!OnLedger(i) /\ i \in v7')
           /\ v5' = v5 /\ v5[i] = Register!Absent /\ v4[i] = Register!Absent
        \/ /\ v5' = v5 \/ Register!Inserted(i)
           /\ v4' = v4 /\ v4[i] = Register!Content(i)
           /\ v5[i] = Register!Absent /\ i \in v6'
    BY <1>2, <1>10 DEF Register!RegisterThrows, Register!SaveRefused, Register!SubmissionIsOwn
  <2>4. /\ v4' \in [Register!Ids -> Register!Entry] /\ v5' \in [Register!Ids -> Register!Entry]
        /\ \A k \in Register!Ids \ {i} : v4'[k] = v4[k] /\ v5'[k] = v5[k]
    BY <1>1, <2>2, <2>3 DEF Register!OnLedger, Register!Inserted
  <2>5. /\ v5'[i] # Register!Absent => v5'[i] = v4'[i]
        /\ v4'[i] # Register!Absent /\ v5'[i] = Register!Absent => i \in v6' \union v7'
    BY <1>1, <2>2, <2>3 DEF Register!OnLedger, Register!Inserted
  <2>6. old.fields.n <= v9
    BY <1>2 DEF Register!DroppedIsGone
  <2> HIDE DEF old
  <2>7. j \in Register!Job /\ j.fields = old.fields /\ j.at = "over"
    BY <2>2 DEF Register!Job
  <2> HIDE DEF j
  <2>8. Register!SubmissionIsOwn(i)'
    BY <1>1, <2>1, <2>7 DEF Register!SubmissionIsOwn, Register!Running
  <2> QED
    BY <1>1, <2>1, <2>4, <2>5, <2>6, <2>7, <2>8, SubmissionKeeps
<1>11. ASSUME NEW i \in Register!Ids, Register!Saved(i)
       PROVE  Register!RegistrationInv'
  <2> DEFINE old == v3[i]
             j == [old EXCEPT !.at = "over"]
  <2>1. /\ old.at = "save" /\ v3' = [v3 EXCEPT ![i] = j]
        /\ v5' = [v5 EXCEPT ![i] = Register!Content(i)]
        /\ v2' = [v2 EXCEPT ![old.wallet] = Register!Blank]
        /\ v8' = IF old.mounted \/ v1.fields # old.fields
                      THEN v8 \union {old.fields} ELSE v8
        /\ v1' = IF old.mounted THEN [v1 EXCEPT !.fields = Register!Blank, !.cleared = TRUE]
                                  ELSE v1
        /\ UNCHANGED <<v4, v6, v7, v9>>
    BY <1>11 DEF Register!Saved, Register!Ends, Register!Inserted, Register!DropDraft,
      Register!Dropped
  <2>2. old \in Register!Job /\ Register!Content(i) \in Register!Entry
    BY <1>1 DEF Register!Content, Register!Entry, Register!Job
  <2>3. old.fields # Register!Blank /\ old.fields.by = old.wallet /\ old.fields.n <= v9
        /\ v4[i] = Register!Content(i) /\ old.wallet \in Register!Keys
        /\ old.fields \in Register!Draft
    BY <1>2, <2>1, <2>2 DEF Register!SubmissionIsOwn, Register!Running, Register!DroppedIsGone,
      Register!Job
  <2> HIDE DEF old
  <2>4. j \in Register!Job /\ j.fields = old.fields /\ j.at = "over"
    BY <2>2 DEF Register!Job
  <2> HIDE DEF j
  <2>5. /\ v3'[i] = j /\ (\A k \in Register!Ids \ {i} : v3'[k] = v3[k])
        /\ v3' \in [Register!Ids -> Register!Job]
    BY <1>1, <2>1, <2>4
  <2>6. /\ v5'[i] = Register!Content(i) /\ (\A k \in Register!Ids \ {i} : v5'[k] = v5[k])
        /\ v5' \in [Register!Ids -> Register!Entry]
    BY <1>1, <2>1, <2>2
  <2>7. Register!Blank \in Register!Draft /\ Register!Blank.n = 0
    BY DEF Register!Blank, Register!Draft, Register!Keys
  <2>8. /\ v2'[old.wallet] = Register!Blank
        /\ \A k \in Register!Keys \ {old.wallet} : v2'[k] = v2[k]
        /\ v2' \in [Register!Keys -> Register!Draft]
    BY <1>1, <2>1, <2>3, <2>7
  <2>9. v1' \in Register!Form /\ v1'.key = v1.key
        /\ v1'.fields = (IF old.mounted THEN Register!Blank ELSE v1.fields)
    BY <1>1, <2>1, <2>7 DEF Register!Form
  <2>10. Register!StateOK'
    BY <1>1, <2>1, <2>3, <2>5, <2>6, <2>8, <2>9 DEF Register!StateOK
  <2>11. Register!DraftsStayApart'
    BY <1>2, <2>8, <2>9 DEF Register!DraftsStayApart
  <2>12. Register!RowsAreRegistered' /\ \A k \in Register!Ids : Register!SubmissionIsOwn(k)'
    <3>1. Register!RowsAreRegistered'
      BY <1>2, <2>1, <2>3, <2>5, <2>6 DEF Register!RowsAreRegistered
    <3>2. Register!SubmissionIsOwn(i)'
      BY <2>4, <2>5 DEF Register!SubmissionIsOwn, Register!Running
    <3>3. \A k \in Register!Ids \ {i} : Register!SubmissionIsOwn(k)'
      BY <1>2, <2>1, <2>5, <2>6 DEF Register!SubmissionIsOwn, Register!Running, Register!Content
    <3> QED
      BY <3>1, <3>2, <3>3
  <2>13. /\ Register!Blank \notin v8' /\ v1'.fields \notin v8'
         /\ \A d \in v8' : d \in v8 \/ d = old.fields
    BY <1>2, <2>1, <2>3, <2>9 DEF Register!DroppedIsGone
  <2>14. Register!SubmittedDraftIsGone'
    <3>1. \A k \in Register!Keys \ {old.wallet} : v2[k] # old.fields
      BY <1>2, <2>3 DEF Register!DraftsStayApart
    <3> QED
      BY <1>2, <2>8, <2>13, <3>1 DEF Register!DroppedIsGone, Register!SubmittedDraftIsGone
  <2>15. Register!DroppedIsGone'
    BY <1>1, <1>2, <2>1, <2>3, <2>4, <2>5, <2>7, <2>8, <2>9, <2>13,
      <2>14 DEF Register!DroppedIsGone
  <2> QED
    BY <2>10, <2>11, <2>12, <2>15 DEF Register!RegistrationInv
<1> QED
  BY <1>3, <1>4, <1>5, <1>6, <1>7, <1>8, <1>9, <1>10, <1>11 DEF Register!Next

-----------------------------------------------------------------------------
(* Documents: uploads are v1, the rows v2, offers v3, what each page lists *)
(* v4, busy pages v5, calls under way v6, what was previewed v7.           *)

(* A row's states are told apart.                                          *)
LEMMA RowsApart ==
  /\ Document!Absent.status = Document!None /\ Document!None \notin Document!Outcomes
  /\ "pending" \notin Document!Outcomes
  /\ \A r \in Document!Row : r # Document!Absent
BY DEF Document!Absent, Document!Row, Document!None, Document!Outcomes

LEMMA DocumentsStart == Document!Init => Document!DocumentsInv
<1> SUFFICES ASSUME Document!Init PROVE Document!DocumentsInv
  OBVIOUS
<1>1. Document!StateOK
  BY DEF Document!Init, Document!StateOK, Document!Attempt, Document!Viewers, Document!Outcomes,
    Document!None
<1>2. \A d \in Document!Docs : d \notin Document!Rows /\ v2[d].status \notin Document!Outcomes
  BY RowsApart DEF Document!Init, Document!Rows
<1> QED
  BY <1>1, <1>2 DEF Document!Init, Document!DocumentsInv, Document!RowIsUpload,
    Document!NothingWithoutRow, Document!EverybodySeesTheSame,
    Document!VerdictsAreLenders, Document!None

(* The steps that change no row.                                           *)
LEMMA RowsKeepInv ==
  ASSUME Document!DocumentsInv, UNCHANGED v2, Document!StateOK', Document!NothingWithoutRow',
         \A d \in Document!Docs : v1[d].at = "over" => v1'[d] = v1[d],
         \A d \in Document!Docs :
           v1'[d].at \in {"pin", "insert"} => v1'[d].file \in {"pdf", "other"},
         \A p \in v7' \ v7 : p[2] = v1[p[1]].file
  PROVE  Document!DocumentsInv'
<1>1. Document!RowIsUpload' /\ Document!VerdictsAreLenders'
  BY DEF Document!DocumentsInv, Document!RowIsUpload, Document!Rows, Document!VerdictsAreLenders
<1>2. ASSUME NEW p \in v7'
      PROVE  p[2] = v1'[p[1]].file
  <2>1. p[1] \in Document!Docs /\ p[1] \in Document!Rows
    BY DEF Document!NothingWithoutRow, Document!Rows
  <2>2. v1'[p[1]] = v1[p[1]]
    BY <2>1 DEF Document!DocumentsInv, Document!RowIsUpload
  <2> QED
    BY <2>2 DEF Document!DocumentsInv, Document!EverybodySeesTheSame
<1> QED
  BY <1>1, <1>2 DEF Document!DocumentsInv, Document!EverybodySeesTheSame

LEMMA DocumentsStep ==
  ASSUME Document!DocumentsInv, Document!Next
  PROVE  Document!DocumentsInv'
<1>1. /\ v1 \in [Document!Docs -> Document!Attempt]
      /\ v2 \in [Document!Docs -> Document!Row \union {Document!Absent}] /\ v3 \subseteq Thing
      /\ v4 \in [Document!Viewers ->
                    [Document!Docs -> Document!Outcomes \union {"pending", Document!None}]]
      /\ v6 \subseteq [viewer : Document!Viewers, doc : Document!Docs,
                            status : Document!Outcomes, id : Nat]
      /\ v7 \subseteq Document!Docs \X {"pdf", "other"} /\ v8 \in Nat
  BY DEF Document!DocumentsInv, Document!StateOK
<1>2. /\ Document!RowIsUpload /\ Document!NothingWithoutRow /\ Document!EverybodySeesTheSame
      /\ Document!VerdictsAreLenders
  BY DEF Document!DocumentsInv
<1>3. \A v \in Document!Viewers :
        /\ Document!Shown(v) \in [Document!Docs -> Document!Outcomes \union {"pending",
           Document!None}]
        /\ \A d \in Document!Docs : Document!Shown(v)[d] # Document!None => d \in Document!Rows
  BY <1>1, RowsApart DEF Document!Shown, Document!Rows, Document!Row, Document!Absent
<1>4. ASSUME NEW l \in Thing, Document!MakeOffer(l)
      PROVE  Document!DocumentsInv'
  <2>1. Document!StateOK' /\ Document!NothingWithoutRow'
    BY <1>1, <1>2, <1>4 DEF Document!MakeOffer, Document!StateOK, Document!NothingWithoutRow,
      Document!Rows
  <2> QED
    BY <1>2, <1>4, <2>1, RowsKeepInv DEF Document!MakeOffer, Document!RowIsUpload
<1>5. ASSUME NEW d \in Document!Docs, NEW file \in {"pdf", "other"}, Document!Upload(d, file)
      PROVE  Document!DocumentsInv'
  <2>1. /\ v1[d].at = "none" /\ v1' = [v1 EXCEPT ![d] = [at |-> "pin", file |-> file]]
        /\ UNCHANGED <<v2, v3, v4, v5, v6, v7, v8>>
    BY <1>5 DEF Document!Upload
  <2>2. v1'[d] = [at |-> "pin", file |-> file]
        /\ \A e \in Document!Docs \ {d} : v1'[e] = v1[e]
    BY <1>1, <2>1
  <2>3. Document!StateOK' /\ Document!NothingWithoutRow'
    BY <1>1, <1>2, <2>1 DEF Document!StateOK, Document!Attempt, Document!NothingWithoutRow,
      Document!Rows
  <2> QED
    BY <1>2, <2>1, <2>2, <2>3, RowsKeepInv DEF Document!RowIsUpload
<1>6. ASSUME NEW d \in Document!Docs, Document!Pinned(d) \/ Document!UploadFails(d)
      PROVE  Document!DocumentsInv'
  <2> DEFINE old == v1[d]
  <2>1. PICK to \in {"insert", "over"} :
          /\ old.at \in {"pin", "insert"} /\ v1' = [v1 EXCEPT ![d] = [old EXCEPT !.at = to]]
          /\ UNCHANGED <<v2, v3, v4, v5, v6, v7, v8>>
    BY <1>6 DEF Document!Pinned, Document!UploadFails, Document!At
  <2>2. old \in Document!Attempt
        /\ old.file \in {"pdf", "other"}
    BY <1>1, <1>2, <2>1 DEF Document!RowIsUpload, Document!Attempt
  <2> DEFINE new == [old EXCEPT !.at = to]
  <2> HIDE DEF old
  <2>3. new \in Document!Attempt /\ new.file = old.file
    BY <2>2 DEF Document!Attempt
  <2> HIDE DEF new
  <2>4. v1' = [v1 EXCEPT ![d] = new]
    BY <2>1 DEF new
  <2>5. v1'[d] = new /\ \A e \in Document!Docs \ {d} : v1'[e] = v1[e]
    BY <1>1, <2>4
  <2>6. Document!StateOK' /\ Document!NothingWithoutRow'
    BY <1>1, <1>2, <2>1, <2>3, <2>4 DEF Document!StateOK, Document!NothingWithoutRow,
      Document!Rows
  <2> QED
    BY <1>2, <2>1, <2>2, <2>3, <2>5, <2>6, RowsKeepInv DEF Document!RowIsUpload, old
<1>7. ASSUME NEW v \in Document!Viewers, Document!Refresh(v)
      PROVE  Document!DocumentsInv'
  <2>1. v4' = [v4 EXCEPT ![v] = Document!Shown(v)]
        /\ UNCHANGED <<v1, v2, v3, v5, v6, v7, v8>>
    BY <1>7 DEF Document!Refresh
  <2>2. Document!StateOK' /\ Document!NothingWithoutRow'
    BY <1>1, <1>2, <1>3, <2>1 DEF Document!StateOK, Document!NothingWithoutRow, Document!Rows
  <2> QED
    BY <1>2, <2>1, <2>2, RowsKeepInv DEF Document!RowIsUpload
<1>8. ASSUME NEW v \in Document!Viewers, NEW d \in Document!Docs, NEW bytes \in {"pdf", "other"},
             Document!Preview(v, d, bytes)
      PROVE  Document!DocumentsInv'
  <2>1. d \in Document!Rows /\ bytes = v2[d].hash /\ v7' = v7 \union {<<d, bytes>>}
        /\ UNCHANGED <<v1, v2, v3, v4, v5, v6, v8>>
    BY <1>8 DEF Document!Preview, Document!Serves
  <2>2. Document!StateOK' /\ Document!NothingWithoutRow'
    BY <1>1, <1>2, <2>1 DEF Document!StateOK, Document!NothingWithoutRow, Document!Rows
  <2>3. bytes = v1[d].file
    BY <1>2, <2>1 DEF Document!RowIsUpload
  <2> QED
    BY <1>2, <2>1, <2>2, <2>3, RowsKeepInv DEF Document!RowIsUpload
<1>9. ASSUME NEW v \in Document!Viewers, NEW d \in Document!Docs,
             NEW status \in Document!Outcomes,
             Document!SetStatus(v, d, status)
      PROVE  Document!DocumentsInv'
  <2> DEFINE f == [viewer |-> v, doc |-> d, status |-> status, id |-> v8]
  <2>1. /\ v4[v][d] = "pending" /\ v6' = v6 \union {f} /\ v8' = v8 + 1
        /\ UNCHANGED <<v1, v2, v3, v4, v7>>
    BY <1>9 DEF Document!SetStatus
  <2>2. /\ f \in [viewer : Document!Viewers, doc : Document!Docs, status : Document!Outcomes,
           id : Nat]
        /\ f.doc = d
    BY <1>1
  <2>3. d \in Document!Rows
    BY <1>2, <2>1 DEF Document!NothingWithoutRow, Document!None
  <2> HIDE DEF f
  <2>4. Document!StateOK' /\ Document!NothingWithoutRow'
    BY <1>1, <1>2, <2>1, <2>2, <2>3 DEF Document!StateOK, Document!NothingWithoutRow,
      Document!Rows
  <2> QED
    BY <1>2, <2>1, <2>4, RowsKeepInv DEF Document!RowIsUpload
<1>10. ASSUME NEW f \in v6, Document!VerdictFails(f)
       PROVE  Document!DocumentsInv'
  <2>1. v6' = v6 \ {f} /\ UNCHANGED <<v1, v2, v3, v4, v7, v8>>
    BY <1>10 DEF Document!VerdictFails
  <2>2. Document!StateOK' /\ Document!NothingWithoutRow'
    BY <1>1, <1>2, <2>1 DEF Document!StateOK, Document!NothingWithoutRow, Document!Rows
  <2> QED
    BY <1>2, <2>1, <2>2, RowsKeepInv DEF Document!RowIsUpload
<1>11. ASSUME NEW d \in Document!Docs, Document!Recorded(d)
       PROVE  Document!DocumentsInv'
  <2> DEFINE new == [hash |-> v1[d].file, status |-> "pending", by |-> Document!None]
             shown == [Document!Shown(Document!Originator) EXCEPT ![d] = "pending"]
  <2>1. /\ v1[d].at = "insert" /\ v1' = [v1 EXCEPT ![d].at = "over"]
        /\ v2' = [v2 EXCEPT ![d] = new]
        /\ v4' \in {v4, [v4 EXCEPT ![Document!Originator] = shown]}
        /\ UNCHANGED <<v3, v5, v6, v7, v8>>
    BY <1>11 DEF Document!Recorded, Document!At
  <2>2. v1[d].file \in {"pdf", "other"} /\ d \notin Document!Rows
    BY <1>2, <2>1 DEF Document!RowIsUpload
  <2>3. new \in Document!Row /\ new.hash = v1[d].file /\ new.status = "pending"
    BY <2>2 DEF Document!Row
  <2>4. /\ Document!Originator \in Document!Viewers
        /\ shown \in [Document!Docs -> Document!Outcomes \union {"pending", Document!None}]
        /\ \A e \in Document!Docs : shown[e] # Document!None => e = d \/ e \in Document!Rows
    BY <1>3 DEF Document!Viewers
  <2> HIDE DEF new, shown
  <2>5. v2'[d] = new /\ (\A e \in Document!Docs \ {d} : v2'[e] = v2[e])
        /\ v2' \in [Document!Docs -> Document!Row \union {Document!Absent}]
    BY <1>1, <2>1, <2>3
  <2>6. v1'[d].at = "over" /\ v1'[d].file = v1[d].file
        /\ (\A e \in Document!Docs \ {d} : v1'[e] = v1[e])
        /\ v1' \in [Document!Docs -> Document!Attempt]
    BY <1>1, <2>1 DEF Document!Attempt
  <2>7. Document!Rows' = Document!Rows \union {d}
    BY <2>3, <2>5, RowsApart DEF Document!Rows
  <2>8. Document!StateOK'
    BY <1>1, <2>1, <2>4, <2>5, <2>6 DEF Document!StateOK
  <2>9. Document!NothingWithoutRow'
    <3>1. \A v \in Document!Viewers : v4'[v] = v4[v] \/ v4'[v] = shown
      BY <1>1, <2>1, <2>4
    <3> QED
      BY <1>2, <2>1, <2>4, <2>7, <3>1 DEF Document!NothingWithoutRow
  <2>10. Document!RowIsUpload'
    BY <1>2, <2>3, <2>5, <2>6, <2>7 DEF Document!RowIsUpload
  <2>11. Document!EverybodySeesTheSame' /\ Document!VerdictsAreLenders'
    BY <1>1, <1>2, <2>1, <2>3, <2>5, <2>6, RowsApart DEF Document!EverybodySeesTheSame,
      Document!VerdictsAreLenders,
      Document!NothingWithoutRow, Document!RowIsUpload
  <2> QED
    BY <2>8, <2>9, <2>10, <2>11 DEF Document!DocumentsInv
<1>12. ASSUME NEW f \in v6, Document!Judged(f)
       PROVE  Document!DocumentsInv'
  <2> DEFINE d == f.doc
             old == v2[d]
             new == [[old EXCEPT !.status = f.status] EXCEPT !.by = f.viewer]
             shown == [e \in Document!Docs |->
                         IF Document!Reads(f.viewer) THEN v2'[e].status ELSE Document!None]
  <2>1. /\ v6' = v6 \ {f} /\ v2' = Document!AfterVerdict(f)
        /\ v4' \in {v4, [v4 EXCEPT ![f.viewer] = shown]}
        /\ UNCHANGED <<v1, v3, v7, v8>>
    BY <1>12 DEF Document!Judged
  <2>2. /\ d \in Document!Docs /\ f.viewer \in Document!Viewers
        /\ f.status \in Document!Outcomes /\ d \in Document!Rows
    BY <1>1, <1>2 DEF Document!NothingWithoutRow
  <2>3. old \in Document!Row
    BY <1>1, <2>2 DEF Document!Rows
  <2> HIDE DEF old
  <2>4. f.viewer \in Thing => /\ new \in Document!Row /\ new.hash = old.hash
                                /\ new.status = f.status /\ new.by = f.viewer
    BY <2>2, <2>3 DEF Document!Row
  <2> HIDE DEF new
  <2>5. \/ v2' = v2
        \/ f.viewer \in Thing /\ v2' = [v2 EXCEPT ![d] = new]
    BY <1>1, <2>1 DEF Document!AfterVerdict, Document!Judges, old, new
  <2>6. /\ v2' \in [Document!Docs -> Document!Row \union {Document!Absent}]
        /\ Document!Rows' = Document!Rows
        /\ \A e \in Document!Rows : v2'[e].hash = v2[e].hash
        /\ \A e \in Document!Docs : \/ v2'[e] = v2[e]
                                    \/ v2'[e].status = f.status /\ v2'[e].by \in Thing
    <3>1. CASE v2' = v2
      BY <1>1, <3>1 DEF Document!Rows
    <3>2. CASE f.viewer \in Thing /\ v2' = [v2 EXCEPT ![d] = new]
      <4>1. /\ v2'[d] = new /\ (\A e \in Document!Docs \ {d} : v2'[e] = v2[e])
            /\ new \in Document!Row
        BY <1>1, <2>2, <2>4, <3>2
      <4> QED
        BY <1>1, <2>2, <2>4, <3>2, <4>1, RowsApart DEF Document!Rows, old
    <3> QED
      BY <2>5, <3>1, <3>2
  <2>7. shown \in [Document!Docs -> Document!Outcomes \union {"pending", Document!None}]
        /\ \A e \in Document!Docs : shown[e] # Document!None => e \in Document!Rows
    BY <2>6 DEF Document!Row, Document!Absent, Document!Rows
  <2> HIDE DEF shown
  <2>8. Document!StateOK' /\ Document!NothingWithoutRow'
    BY <1>1, <1>2, <2>1, <2>2, <2>6, <2>7 DEF Document!StateOK, Document!NothingWithoutRow
  <2>9. Document!RowIsUpload' /\ Document!EverybodySeesTheSame'
    BY <1>2, <2>1, <2>6 DEF Document!RowIsUpload, Document!EverybodySeesTheSame
  <2>10. Document!VerdictsAreLenders'
    BY <1>2, <2>6 DEF Document!VerdictsAreLenders
  <2> QED
    BY <2>8, <2>9, <2>10 DEF Document!DocumentsInv
<1> QED
  BY <1>4, <1>5, <1>6, <1>7, <1>8, <1>9, <1>10, <1>11, <1>12 DEF Document!Next

(* The registry's rows, the drafts of the wallets and the documents of     *)
(* their originators stay what they are: a row says what was registered, a *)
(* failed save is reported, no draft shows under another wallet or comes   *)
(* back after its submission, every preview shows the uploaded bytes, and  *)
(* a verdict is a lender's.                                                *)
THEOREM PapersHold == MCSpec => []InvoicePapersHold
<1> DEFINE PartInv == /\ part = "register" => Register!RegistrationInv
                      /\ part = "documents" => Document!DocumentsInv
<1>1. MCInit => PartInv
  BY PartStarts, RegistrationStarts, DocumentsStart
<1>2. PartInv /\ [MCNext]_all => PartInv'
  <2> SUFFICES ASSUME PartInv, [MCNext]_all
               PROVE  PartInv'
    OBVIOUS
  <2>1. CASE part = "register"
    <3>1. Register!RegistrationInv /\ UNCHANGED pool => Register!RegistrationInv'
      BY DEF pool, Register!RegistrationInv, Register!StateOK, Register!RowsAreRegistered,
        Register!DraftsStayApart, Register!DroppedIsGone, Register!SubmittedDraftIsGone,
        Register!SubmissionIsOwn, Register!Running, Register!Content
    <3> QED
      BY <2>1, <3>1, PartGoesOn, RegistrationStep
  <2>2. CASE part = "documents"
    <3>1. Document!DocumentsInv /\ UNCHANGED pool => Document!DocumentsInv'
      BY DEF pool, Document!DocumentsInv, Document!StateOK, Document!RowIsUpload,
        Document!NothingWithoutRow, Document!EverybodySeesTheSame,
        Document!VerdictsAreLenders, Document!Rows
    <3> QED
      BY <2>2, <3>1, PartGoesOn, DocumentsStep
  <2> QED
    BY <2>1, <2>2, PartGoesOn
<1>3. PartInv => InvoicePapersHold
  BY DEF InvoicePapersHold, Register!RegistrationInv, Register!DroppedIsGone,
    Document!DocumentsInv
<1> QED
  BY <1>1, <1>2, <1>3, PTL DEF MCSpec

-----------------------------------------------------------------------------
(* Preferences: what the page shows is v1, storage v2, the row v3, the     *)
(* session v4, the load v5, the calls v6, what was asked last v7, whether  *)
(* anything was raced v8, the failures v11, what the effect stored v12.    *)

LEMMA PreferencesStart == Saving!Init => Saving!PreferencesInv
<1> SUFFICES ASSUME Saving!Init PROVE Saving!PreferencesInv
  OBVIOUS
<1>1. Saving!Idle \in [pc : {"idle", "auth", "write"},
                      p : {"default", "mine"} \cup {Saving!NoRow}]
  BY DEF Saving!Idle
<1> QED
  BY <1>1 DEF Saving!Init, Saving!PreferencesInv, Saving!StateOK, Saving!LastIsKept

LEMMA PreferencesStep ==
  ASSUME Saving!PreferencesInv, Saving!Next
  PROVE  Saving!PreferencesInv'
<1> DEFINE Asking == [pc : {"idle", "auth", "write"}, p : {"default", "mine"} \cup {Saving!NoRow}]
           Clean == ~v8 /\ v11 = 0 /\ v7 # "nothing"
<1>1. v6 \in [Actor -> Asking] /\ v8 \in BOOLEAN /\ v4 \in BOOLEAN /\ v11 \in Nat
      /\ Saving!LastIsKept
  BY DEF Saving!PreferencesInv, Saving!StateOK
<1>2. Saving!Fault => v11' \in Nat /\ v11' # 0
  BY <1>1 DEF Saving!Fault
<1>3. Saving!Idle \in Asking /\ Saving!Idle.pc = "idle"
  BY DEF Saving!Idle
<1>4. CASE Saving!HydrateUser \/ Saving!HydrateRow
  <2>1. /\ UNCHANGED <<v12, v3, v4, v6, v7, v8>>
        /\ v5 # "done" /\ (v11' = v11 \/ Saving!Fault)
    BY <1>4 DEF Saving!HydrateUser, Saving!HydrateRow
  <2>2. Saving!StateOK'
    BY <1>1, <1>2, <2>1 DEF Saving!StateOK
  <2>3. Saving!LastIsKept'
    <3> SUFFICES ASSUME Clean'
                 PROVE  /\ v1' = Saving!Meant(v7) /\ v2' = Saving!Meant(v7)
                        /\ v5' # "done" => v12 = v2'
      BY <1>1, <1>2, <2>1 DEF Saving!LastIsKept, Saving!NoneActive
    <3>1. /\ Clean /\ UNCHANGED v11 /\ v1 = Saving!Meant(v7) /\ v2 = Saving!Meant(v7)
          /\ v12 = v2 /\ v3 = v7
      BY <1>1, <1>2, <2>1 DEF Saving!LastIsKept
    <3> QED
      BY <1>2, <1>4, <2>1, <3>1 DEF Saving!HydrateUser, Saving!HydrateRow, Saving!Meant
  <2> QED
    BY <2>2, <2>3 DEF Saving!PreferencesInv
<1>5. CASE Saving!Remount
  <2>1. Saving!StateOK'
    BY <1>1, <1>3, <1>5 DEF Saving!Remount, Saving!StateOK
  <2>2. Saving!LastIsKept'
    BY <1>1, <1>5 DEF Saving!Remount, Saving!LastIsKept, Saving!NoneActive
  <2> QED
    BY <2>1, <2>2 DEF Saving!PreferencesInv
<1>6. CASE Saving!SignInOrOut
  <2>1. Saving!StateOK'
    BY <1>1, <1>6 DEF Saving!SignInOrOut, Saving!StateOK
  <2>2. Saving!LastIsKept'
    BY <1>1, <1>6 DEF Saving!SignInOrOut, Saving!LastIsKept, Saving!NoneActive
  <2> QED
    BY <2>1, <2>2 DEF Saving!PreferencesInv
<1>7. ASSUME NEW c \in Actor, NEW p \in {"default", "mine"} \cup {Saving!NoRow},
             Saving!Begin(c, p)
      PROVE  Saving!PreferencesInv'
  <2> DEFINE new == [pc |-> "auth", p |-> p]
  <2>1. new \in Asking /\ new.p = p /\ new # Saving!Idle
    BY <1>3
  <2>2. /\ v1' = Saving!Meant(p) /\ v2' = Saving!Meant(p) /\ v6' = [v6 EXCEPT ![c] = new]
        /\ v7' = p /\ v8' = (v8 \/ ~Saving!Quiet \/ ~v4)
        /\ UNCHANGED <<v12, v3, v4, v5, v11>>
    BY <1>7 DEF Saving!Begin
  <2> HIDE DEF new
  <2>3. v6'[c] = new /\ (\A d \in Actor \ {c} : v6'[d] = v6[d])
    BY <1>1, <2>2
  <2>4. Saving!StateOK'
    BY <1>1, <2>1, <2>2 DEF Saving!StateOK
  <2>5. Saving!LastIsKept'
    BY <1>1, <2>1, <2>2, <2>3 DEF Saving!LastIsKept, Saving!NoneActive, Saving!Quiet
  <2> QED
    BY <2>4, <2>5 DEF Saving!PreferencesInv
<1>8. ASSUME NEW c \in Actor, Saving!CallUser(c) \/ Saving!CallWrite(c)
      PROVE  Saving!PreferencesInv'
  <2> DEFINE old == v6[c]
             asks == [old EXCEPT !.pc = "write"]
  <2>1. old \in Asking
    BY <1>1
  <2>2. /\ old.pc \in {"auth", "write"} /\ (v11' = v11 \/ Saving!Fault)
        /\ \/ v6' = [v6 EXCEPT ![c] = asks]
           \/ /\ v6' = [v6 EXCEPT ![c] = Saving!Idle]
              /\ Saving!Fault \/ ~v4 \/ v3' = old.p
        /\ UNCHANGED <<v12, v1, v2, v4, v5, v7, v8>>
    BY <1>8 DEF Saving!CallUser, Saving!CallWrite, Saving!Stored, Saving!Written
  <2> HIDE DEF old
  <2>3. asks \in Asking /\ asks.p = old.p /\ asks.pc = "write"
    BY <2>1
  <2> HIDE DEF asks
  <2>4. Saving!StateOK'
    BY <1>1, <1>2, <1>3, <2>2, <2>3 DEF Saving!StateOK
  <2>5. Saving!LastIsKept'
    <3> SUFFICES ASSUME Clean'
                 PROVE  /\ \A d \in Actor : v6'[d] # Saving!Idle => v6'[d].p = v7 /\ v4
                        /\ \A d, e \in Actor :
                             v6'[d] # Saving!Idle /\ v6'[e] # Saving!Idle => d = e
                        /\ v5 # "done" => Saving!NoneActive'
                        /\ Saving!NoneActive' => v3' = v7
      BY <1>1, <1>2, <2>2 DEF Saving!LastIsKept
    <3>1. Clean /\ UNCHANGED v11 /\ ~Saving!Fault
      BY <1>2, <2>2
    <3>2. old # Saving!Idle /\ old.p = v7 /\ v4 /\ v5 = "done"
          /\ \A d \in Actor \ {c} : v6[d] = Saving!Idle
      BY <1>1, <1>3, <2>2, <3>1 DEF Saving!LastIsKept, old, Saving!NoneActive
    <3>3. CASE v6' = [v6 EXCEPT ![c] = Saving!Idle] /\ v3' = v7
      <4>1. \A d \in Actor : v6'[d] = Saving!Idle
        BY <1>1, <3>2, <3>3
      <4> QED
        BY <2>2, <3>1, <3>2, <3>3, <4>1 DEF Saving!NoneActive
    <3>4. CASE v6' = [v6 EXCEPT ![c] = asks]
      <4>1. v6'[c] = asks /\ \A d \in Actor \ {c} : v6'[d] = Saving!Idle
        BY <1>1, <3>2, <3>4
      <4> QED
        BY <1>3, <2>3, <3>2, <4>1 DEF Saving!NoneActive
    <3> QED
      BY <2>2, <3>1, <3>2, <3>3, <3>4
  <2> QED
    BY <2>4, <2>5 DEF Saving!PreferencesInv
<1> QED
  BY <1>4, <1>5, <1>6, <1>7, <1>8 DEF Saving!Next

(* What was asked last is kept once nothing is under way.                  *)
LEMMA LastIsSaved == Saving!PreferencesInv => Saving!SavedIsKept
BY DEF Saving!PreferencesInv, Saving!LastIsKept, Saving!SavedIsKept, Saving!Quiet,
  Saving!NoneActive

(* What the lender saved last is what the page shows, on this device and   *)
(* in the table, once nothing is under way and nothing was raced.          *)
THEOREM PreferencesAreKept == MCSpec => []SavedIsKept
<1> DEFINE PartInv == part = "preferences" => Saving!PreferencesInv
<1>1. MCInit => PartInv
  BY PartStarts, PreferencesStart
<1>2. PartInv /\ [MCNext]_all => PartInv'
  <2>1. Saving!PreferencesInv /\ UNCHANGED pool => Saving!PreferencesInv'
    BY DEF pool, Saving!PreferencesInv, Saving!StateOK, Saving!LastIsKept, Saving!NoneActive,
      Saving!Meant
  <2> QED
    BY <2>1, PartGoesOn, PreferencesStep
<1>3. PartInv => SavedIsKept
  BY LastIsSaved DEF SavedIsKept
<1> QED
  BY <1>1, <1>2, <1>3, PTL DEF MCSpec

-----------------------------------------------------------------------------
(* Calls: the time is v1, the account's sequence number v2, what the chain *)
(* would accept v3, the transactions sent v4 and applied v5, the cache v6, *)
(* the calls v7.                                                           *)

LEMMA InvocationStarts == Invoke!Init => Invoke!InvocationInv
<1> SUFFICES ASSUME Invoke!Init PROVE Invoke!InvocationInv
  OBVIOUS
<1>1. Invoke!NoTx \in Invoke!Tx
  BY DEF Invoke!NoTx, Invoke!Tx
<1>2. Invoke!Idle \in Invoke!CallState /\ Invoke!Idle.pc = "idle"
  BY <1>1 DEF Invoke!Idle, Invoke!CallState
<1>3. Invoke!StateOK /\ \A c \in Actor : v7[c].pc = "idle"
  BY <1>2 DEF Invoke!Init, Invoke!StateOK
<1>4. DOMAIN v6 = {} /\ DOMAIN v5 = {} /\ v4 = {}
  BY DEF Invoke!Init
<1> QED
  BY <1>3, <1>4 DEF Invoke!InvocationInv, Invoke!EntriesAreOwn, Invoke!NetworkWasSent,
    Invoke!ReportIsTrue

(* A step of one call, which adds at most its own transaction to the pool. *)
LEMMA CallKeeps ==
  ASSUME Invoke!InvocationInv, NEW c \in Actor, NEW new \in Invoke!CallState,
         v7' = [v7 EXCEPT ![c] = new],
         UNCHANGED <<v1, v2, v5>>, Invoke!EntriesAreOwn',
         Invoke!ReportIsTrue(c)',
         Invoke!Sent(c) => Invoke!Sent(c)' /\ new.tx = v7[c].tx,
         v4' = v4 \/ (v4' = v4 \cup {new.tx} /\ Invoke!Sent(c)')
  PROVE  Invoke!InvocationInv'
<1>1. /\ v7 \in [Actor -> Invoke!CallState] /\ v1 \in Nat /\ v2 \in Nat
      /\ \A tx \in DOMAIN v5 : v5[tx] \in {"SUCCESS", "FAILED"}
  BY DEF Invoke!InvocationInv, Invoke!StateOK
<1>2. v7'[c] = new /\ (\A d \in Actor \ {c} : v7'[d] = v7[d]) /\
      v7' \in [Actor -> Invoke!CallState]
  BY <1>1
<1>3. Invoke!StateOK'
  BY <1>1, <1>2 DEF Invoke!StateOK
<1>4. ASSUME NEW tx \in v4' \cup DOMAIN v5'
      PROVE  \E d \in Actor : Invoke!Sent(d)' /\ v7'[d].tx = tx
  <2>1. CASE tx \in v4 \cup DOMAIN v5
    <3>1. PICK d \in Actor : Invoke!Sent(d) /\ v7[d].tx = tx
      BY <2>1 DEF Invoke!InvocationInv, Invoke!NetworkWasSent
    <3>2. CASE d = c
      BY <1>2, <3>1, <3>2
    <3>3. CASE d # c
      BY <1>2, <3>1, <3>3 DEF Invoke!Sent
    <3> QED
      BY <3>2, <3>3
  <2>2. CASE tx = new.tx /\ Invoke!Sent(c)'
    BY <1>2, <2>2
  <2> QED
    BY <2>1, <2>2
<1>5. Invoke!NetworkWasSent'
  BY <1>4 DEF Invoke!InvocationInv, Invoke!NetworkWasSent
<1>6. ASSUME NEW d \in Actor \ {c}
      PROVE  Invoke!ReportIsTrue(d)'
  <2>1. v7'[d] = v7[d] /\ Invoke!ReportIsTrue(d)
    BY <1>2 DEF Invoke!InvocationInv
  <2> QED
    BY <2>1 DEF Invoke!ReportIsTrue
<1> QED
  BY <1>3, <1>5, <1>6 DEF Invoke!InvocationInv

LEMMA InvocationStep ==
  ASSUME Invoke!InvocationInv, Invoke!Next
  PROVE  Invoke!InvocationInv'
<1>1. /\ v7 \in [Actor -> Invoke!CallState] /\ v1 \in Nat /\ v2 \in Nat /\ Invoke!EntriesAreOwn
      /\ Invoke!NetworkWasSent
      /\ \A tx \in DOMAIN v5 : v5[tx] \in {"SUCCESS", "FAILED"}
  BY DEF Invoke!InvocationInv, Invoke!StateOK
<1>2. Invoke!NoTx \in Invoke!Tx
  BY DEF Invoke!NoTx, Invoke!Tx
<1>3. ASSUME NEW c \in Actor, NEW op \in {"repay"}, Invoke!Build(c, op)
      PROVE  Invoke!InvocationInv'
  <2> DEFINE tx == [seq |-> v2 + 1, op |-> op, until |-> v1 + 1]
             new == [Invoke!Idle EXCEPT !.pc = "simulate", !.op = op, !.own = tx]
  <2>1. /\ v7[c].pc = "idle" /\ v7' = [v7 EXCEPT ![c] = new]
        /\ UNCHANGED <<v1, v2, v3, v4, v5, v6, v8>>
    BY <1>3 DEF Invoke!Build
  <2>2. tx \in Invoke!Tx
    BY <1>1 DEF Invoke!Tx
  <2> HIDE DEF tx
  <2>3. new \in Invoke!CallState /\ new.pc = "simulate"
    BY <1>2, <2>2 DEF Invoke!CallState, Invoke!Idle
  <2> HIDE DEF new
  <2>4. v7'[c] = new
    BY <1>1, <2>1
  <2>5. Invoke!ReportIsTrue(c)' /\ Invoke!EntriesAreOwn' /\ ~Invoke!Sent(c)
    BY <1>1, <2>1, <2>3, <2>4 DEF Invoke!ReportIsTrue, Invoke!EntriesAreOwn, Invoke!Sent
  <2> QED
    BY <2>1, <2>3, <2>5, CallKeeps
<1>4. ASSUME NEW c \in Actor, Invoke!Simulate(c)
      PROVE  Invoke!InvocationInv'
  <2> DEFINE old == v7[c]
             own == old.own
             signs == [old EXCEPT !.pc = "sign", !.tx = own]
             fails == [old EXCEPT !.pc = "failed"]
             hit == v6[own]
  <2>1. old.pc = "simulate" /\ UNCHANGED <<v1, v2, v3, v4, v5>>
    BY <1>4 DEF Invoke!Simulate
  <2>2. \/ /\ own \in DOMAIN v6 /\ UNCHANGED v6
           /\ v7' = [v7 EXCEPT ![c] = IF hit.ok THEN [old EXCEPT !.pc = "sign", !.tx = hit.tx]
                                          ELSE fails]
        \/ /\ v6' = Invoke!SetCached(own, own.op \in v3)
           /\ v7' = [v7 EXCEPT ![c] = IF own.op \in v3 THEN signs ELSE fails]
        \/ v7' = [v7 EXCEPT ![c] = fails] /\ UNCHANGED v6
    BY <1>4 DEF Invoke!Simulate, Invoke!Cached, Invoke!TxCacheKey, Invoke!EnvelopeKey
  <2>3. v7' = [v7 EXCEPT ![c] = signs] \/ v7' = [v7 EXCEPT ![c] = fails]
    BY <1>1, <2>2 DEF Invoke!EntriesAreOwn
  <2>4. Invoke!EntriesAreOwn'
    BY <1>1, <2>2 DEF Invoke!EntriesAreOwn, Invoke!SetCached, Invoke!TxCacheKey,
      Invoke!EnvelopeKey
  <2>5. old \in Invoke!CallState
    BY <1>1
  <2>6. own \in Invoke!Tx
    BY <2>5 DEF Invoke!CallState
  <2> HIDE DEF old
  <2>7. /\ signs \in Invoke!CallState /\ signs.pc = "sign" /\ signs.tx = signs.own
        /\ fails \in Invoke!CallState /\ fails.pc = "failed"
    BY <2>5, <2>6 DEF Invoke!CallState
  <2> HIDE DEF signs, fails
  <2>8. PICK new \in {signs, fails} : v7' = [v7 EXCEPT ![c] = new]
    BY <2>3
  <2>9. v7'[c] = new /\ new \in Invoke!CallState
    BY <1>1, <2>7, <2>8
  <2>10. Invoke!ReportIsTrue(c)' /\ ~Invoke!Sent(c)
    BY <2>1, <2>7, <2>9 DEF Invoke!ReportIsTrue, Invoke!Sent, old
  <2> QED
    BY <2>1, <2>4, <2>8, <2>9, <2>10, CallKeeps
<1>5. ASSUME NEW c \in Actor, NEW accept \in BOOLEAN, Invoke!Sign(c, accept)
      PROVE  Invoke!InvocationInv'
  <2> DEFINE old == v7[c]
             pc == IF accept THEN "send" ELSE "failed"
             new == [old EXCEPT !.pc = pc]
  <2>1. /\ old.pc = "sign" /\ v7' = [v7 EXCEPT ![c] = new]
        /\ UNCHANGED <<v1, v2, v3, v4, v5, v6, v8>>
    BY <1>5 DEF Invoke!Sign
  <2>2. old \in Invoke!CallState /\ old.tx = old.own
    BY <1>1, <2>1 DEF Invoke!InvocationInv, Invoke!ReportIsTrue
  <2> HIDE DEF old
  <2>3. new \in Invoke!CallState /\ new.pc \in {"send", "failed"} /\ new.tx = new.own
    BY <2>2 DEF Invoke!CallState
  <2> HIDE DEF new
  <2>4. v7'[c] = new
    BY <1>1, <2>1
  <2>5. Invoke!ReportIsTrue(c)' /\ Invoke!EntriesAreOwn' /\ ~Invoke!Sent(c)
    BY <1>1, <2>1, <2>3, <2>4 DEF Invoke!ReportIsTrue, Invoke!EntriesAreOwn, Invoke!Sent, old
  <2> QED
    BY <2>1, <2>3, <2>5, CallKeeps
<1>6. ASSUME NEW c \in Actor, Invoke!Send(c)
      PROVE  Invoke!InvocationInv'
  <2> DEFINE old == v7[c]
             accepted == old.tx.seq = v2 + 1 /\ v1 <= old.tx.until
             pc == IF accepted THEN "poll" ELSE "failed"
             answered == [old EXCEPT !.pc = pc, !.at = v1]
             loses == [old EXCEPT !.pc = "lost"]
  <2>1. old.pc = "send" /\ UNCHANGED <<v1, v2, v3, v5, v6>>
    BY <1>6 DEF Invoke!Send
  <2>2. \/ v7' = [v7 EXCEPT ![c] = answered] /\ (accepted \/ v4' = v4)
        \/ v7' = [v7 EXCEPT ![c] = loses]
    BY <1>6 DEF Invoke!Send
  <2>3. v4' = v4 \/ v4' = v4 \cup {old.tx}
    BY <1>6 DEF Invoke!Send
  <2>4. old \in Invoke!CallState /\ old.tx = old.own
    BY <1>1, <2>1 DEF Invoke!InvocationInv, Invoke!ReportIsTrue
  <2> HIDE DEF old, accepted
  <2>5. /\ answered \in Invoke!CallState /\ answered.pc = pc /\ answered.tx = old.tx
        /\ answered.own = old.own
        /\ loses \in Invoke!CallState /\ loses.pc = "lost" /\ loses.tx = old.tx
    BY <1>1, <2>4 DEF Invoke!CallState
  <2> HIDE DEF answered, loses
  <2>6. PICK new \in {answered, loses} :
          v7' = [v7 EXCEPT ![c] = new] /\ (new.pc \in {"poll", "lost"} \/ v4' = v4)
    BY <2>2, <2>5
  <2>7. v7'[c] = new /\ new \in Invoke!CallState /\ new.tx = old.tx
    BY <1>1, <2>5, <2>6
  <2>8. new.pc \in {"poll", "failed", "lost"} /\ (new.pc = "poll" => new.own = new.tx)
    BY <2>4, <2>5, <2>6
  <2>9. Invoke!ReportIsTrue(c)' /\ Invoke!EntriesAreOwn' /\ ~Invoke!Sent(c)
    BY <1>1, <2>1, <2>7, <2>8 DEF Invoke!ReportIsTrue, Invoke!EntriesAreOwn, Invoke!Sent, old
  <2>10. v4' = v4 \/ (v4' = v4 \cup {new.tx} /\ Invoke!Sent(c)')
    BY <2>3, <2>6, <2>7 DEF Invoke!Sent
  <2> QED
    BY <2>1, <2>6, <2>7, <2>9, <2>10, CallKeeps
<1>7. ASSUME NEW c \in Actor, Invoke!Poll(c)
      PROVE  Invoke!InvocationInv'
  <2> DEFINE old == v7[c]
             pc == Invoke!Outcome(old.tx, old.polls)
             settles == [old EXCEPT !.pc = pc, !.polls = @ + 1, !.at = v1]
             loses == [old EXCEPT !.pc = "lost"]
  <2>1. /\ old.pc = "poll" /\ UNCHANGED <<v1, v2, v3, v4, v5, v6>>
        /\ \/ v7' = [v7 EXCEPT ![c] = settles]
           \/ v7' = [v7 EXCEPT ![c] = loses]
    BY <1>7 DEF Invoke!Poll
  <2>2. old \in Invoke!CallState /\ old.tx = old.own
    BY <1>1, <2>1 DEF Invoke!InvocationInv, Invoke!ReportIsTrue
  <2>3. /\ pc \in {"ok", "refused", "poll", "gave up"}
        /\ pc = "ok" => old.tx \in DOMAIN v5 /\ v5[old.tx] = "SUCCESS"
        /\ pc = "refused" => old.tx \in DOMAIN v5 /\ v5[old.tx] = "FAILED"
    BY <1>1 DEF Invoke!Outcome, Invoke!Settled
  <2> HIDE DEF old, pc
  <2>4. /\ settles \in Invoke!CallState /\ settles.pc = pc /\ settles.tx = old.tx
        /\ settles.own = old.own
        /\ loses \in Invoke!CallState /\ loses.pc = "lost" /\ loses.tx = old.tx
    <3>9. old.polls \in Nat
      BY <2>2 DEF Invoke!CallState
    <3>1. PICK n \in Nat : n = old.polls + 1
      BY <3>9
    <3>2. settles = [old EXCEPT !.pc = pc, !.polls = n, !.at = v1]
      BY <3>1
    <3>3. PICK x \in {"ok", "refused", "poll", "gave up"}, t \in Nat : x = pc /\ t = v1
      BY <1>1, <2>3
    <3> HIDE DEF settles
    <3>4. settles = [old EXCEPT !.pc = x, !.polls = n, !.at = t]
      BY <3>2, <3>3
    <3>5. /\ settles \in Invoke!CallState /\ settles.pc = x /\ settles.tx = old.tx
          /\ settles.own = old.own
      BY <2>2, <3>4 DEF Invoke!CallState
    <3> QED
      BY <2>2, <3>3, <3>5 DEF Invoke!CallState
  <2> HIDE DEF settles, loses
  <2>5. PICK new \in {settles, loses} : v7' = [v7 EXCEPT ![c] = new]
    BY <2>1
  <2>6. v7'[c] = new /\ new \in Invoke!CallState /\ new.tx = old.tx
    BY <1>1, <2>4, <2>5
  <2>7. Invoke!ReportIsTrue(c)' /\ Invoke!EntriesAreOwn' /\ Invoke!Sent(c)'
    <3>1. new.pc \in {pc, "lost"} /\ (new.pc = "poll" => new.own = new.tx)
      BY <2>2, <2>4, <2>5
    <3>2. /\ new.pc \in {"ok", "refused", "poll", "gave up", "lost"}
          /\ new.pc = "ok" => new.tx \in DOMAIN v5 /\ v5[new.tx] = "SUCCESS"
          /\ new.pc = "refused" => new.tx \in DOMAIN v5 /\ v5[new.tx] = "FAILED"
      BY <2>3, <2>6, <3>1
    <3> QED
      BY <1>1, <2>1, <2>6, <3>1, <3>2 DEF Invoke!ReportIsTrue, Invoke!EntriesAreOwn, Invoke!Sent
  <2> QED
    BY <2>1, <2>5, <2>6, <2>7, CallKeeps DEF old
<1>8. ASSUME NEW tx \in v4, Invoke!Include(tx)
      PROVE  Invoke!InvocationInv'
  <2>1. PICK result \in {"SUCCESS", "FAILED"} :
          /\ tx.seq = v2 + 1 /\ v4' = v4 \ {tx} /\ v2' = v2 + 1
          /\ v5' = [t \in DOMAIN v5 \cup {tx} |-> IF t = tx THEN result ELSE v5[t]]
          /\ UNCHANGED <<v1, v3, v6, v7, v8>>
    BY <1>8 DEF Invoke!Include
  <2>2. tx \notin DOMAIN v5
    BY <1>1, <2>1 DEF Invoke!NetworkWasSent
  <2>3. /\ DOMAIN v5' = DOMAIN v5 \cup {tx}
        /\ \A t \in DOMAIN v5 : v5'[t] = v5[t]
    BY <2>1, <2>2
  <2>4. Invoke!StateOK' /\ Invoke!EntriesAreOwn'
    BY <1>1, <2>1, <2>3 DEF Invoke!StateOK, Invoke!EntriesAreOwn
  <2>5. Invoke!NetworkWasSent'
    <3>1. \A t \in v4' \cup DOMAIN v5' : \E c \in Actor : Invoke!Sent(c)' /\ v7'[c].tx = t
      BY <1>1, <2>1, <2>3 DEF Invoke!NetworkWasSent, Invoke!Sent
    <3>2. \A t \in DOMAIN v5 : t.seq \in Nat
      BY <1>1 DEF Invoke!NetworkWasSent, Invoke!CallState, Invoke!Tx
    <3>3. \A t \in DOMAIN v5' : t.seq <= v2'
      BY <1>1, <2>1, <2>3, <3>2 DEF Invoke!NetworkWasSent
    <3> QED
      BY <3>1, <3>3 DEF Invoke!NetworkWasSent
  <2>6. \A c \in Actor : Invoke!ReportIsTrue(c)'
    BY <2>1, <2>3 DEF Invoke!InvocationInv, Invoke!ReportIsTrue
  <2> QED
    BY <2>4, <2>5, <2>6 DEF Invoke!InvocationInv
<1>9. ASSUME Invoke!Tick \/ \E op \in {"repay"} : Invoke!ChainChanges(op)
      PROVE  Invoke!InvocationInv'
  <2>1. v1' \in Nat /\ UNCHANGED <<v2, v4, v5, v6, v7>>
    BY <1>1, <1>9 DEF Invoke!Tick, Invoke!ChainChanges
  <2> QED
    BY <1>1, <2>1 DEF Invoke!InvocationInv, Invoke!StateOK, Invoke!EntriesAreOwn,
      Invoke!NetworkWasSent, Invoke!Sent, Invoke!ReportIsTrue
<1> QED
  BY <1>3, <1>4, <1>5, <1>6, <1>7, <1>8, <1>9 DEF Invoke!Next

LEMMA ReportsAreOwn == Invoke!InvocationInv => Invoke!CallsAreTheirOwn
<1> SUFFICES ASSUME Invoke!InvocationInv PROVE Invoke!CallsAreTheirOwn
  OBVIOUS
<1>1. ASSUME NEW c \in Actor, v7[c].pc = "failed", v7[c].tx \in DOMAIN v5
      PROVE  \E d \in Actor \ {c} : v7[d].tx = v7[c].tx
  <2>1. PICK d \in Actor : Invoke!Sent(d) /\ v7[d].tx = v7[c].tx
    BY <1>1 DEF Invoke!InvocationInv, Invoke!NetworkWasSent
  <2> QED
    BY <1>1, <2>1 DEF Invoke!Sent
<1> QED
  BY <1>1 DEF Invoke!InvocationInv, Invoke!ReportIsTrue, Invoke!CallsAreTheirOwn,
    Invoke!SignsItsOwn, Invoke!OutcomeIsTrue

-----------------------------------------------------------------------------
(* The preview: the wallet is v2, the cache v4, whether the dialog is open *)
(* v5, its runs v6, what it shows v7 and what was confirmed v10.           *)

LEMMA PreviewStarts == Dialog!Init => Dialog!PreviewInv
BY DEF Dialog!Init, Dialog!PreviewInv, Dialog!StateOK, Dialog!ShownIsOwn,
  Dialog!ConfirmedWasPreviewed

(* The cleanup of the effect leaves no run live.                           *)
LEMMA CleanupCancels ==
  ASSUME v6 \subseteq Dialog!Run
  PROVE  /\ Dialog!AfterCleanup(v6) \subseteq Dialog!Run
         /\ \A f \in Dialog!AfterCleanup(v6) : ~f.live
BY DEF Dialog!AfterCleanup, Dialog!Cancelled, Dialog!Run

(* A run that ends shows its result, if it was not cancelled.              *)
LEMMA ShowKeeps ==
  ASSUME Dialog!PreviewInv, NEW f \in v6, NEW r,
         r = Dialog!Nothing \/ r.wallet = f.wallet, Dialog!Show(f, r),
         UNCHANGED <<v2, v5, v10, v11>>,
         \A k \in DOMAIN v4' : v4'[k].result.wallet = k
  PROVE  Dialog!PreviewInv'
<1>1. Dialog!StateOK'
  BY DEF Dialog!Show, Dialog!PreviewInv, Dialog!StateOK
<1>2. CASE f.live
  BY <1>1, <1>2 DEF Dialog!Show, Dialog!PreviewInv, Dialog!ShownIsOwn,
    Dialog!ConfirmedWasPreviewed
<1>3. CASE ~f.live
  BY <1>1, <1>3 DEF Dialog!Show, Dialog!PreviewInv, Dialog!ShownIsOwn,
    Dialog!ConfirmedWasPreviewed
<1> QED
  BY <1>2, <1>3

LEMMA PreviewStep ==
  ASSUME Dialog!PreviewInv, Dialog!Next
  PROVE  Dialog!PreviewInv'
<1>1. /\ v2 \in Actor /\ v6 \subseteq Dialog!Run /\ v11 \in Nat
      /\ Dialog!ShownIsOwn /\ Dialog!ConfirmedWasPreviewed
  BY DEF Dialog!PreviewInv, Dialog!StateOK
<1>2. Dialog!AfterCleanup(v6) \subseteq Dialog!Run /\ \A f \in Dialog!AfterCleanup(v6) : ~f.live
  BY <1>1, CleanupCancels
<1>3. ASSUME NEW w \in Actor, Dialog!Started(w), v2' = w, v5', v11' = v11 + 1,
             UNCHANGED <<v4, v10>>
      PROVE  Dialog!PreviewInv'
  <2> DEFINE new == [id |-> v11, wallet |-> w, live |-> TRUE, pc |-> "start"]
  <2>1. new \in Dialog!Run /\ new.wallet = w
    BY <1>1 DEF Dialog!Run
  <2>2. v6' = Dialog!AfterCleanup(v6) \cup {new} /\ v7' = Dialog!Nothing
    BY <1>3 DEF Dialog!Started
  <2> HIDE DEF new
  <2>3. \A f \in v6' : f.live => f.wallet = w
    BY <1>2, <2>1, <2>2
  <2> QED
    BY <1>1, <1>2, <1>3, <2>1, <2>2, <2>3 DEF Dialog!PreviewInv, Dialog!StateOK,
      Dialog!ShownIsOwn,
      Dialog!ConfirmedWasPreviewed
<1>4. CASE Dialog!Open
  <2>1. PICK w \in Actor : w = v2
    BY <1>1
  <2>2. Dialog!Started(w)
    BY <1>4, <2>1 DEF Dialog!Open, Dialog!Started
  <2> QED
    BY <1>3, <1>4, <2>1, <2>2 DEF Dialog!Open
<1>5. CASE Dialog!Close \/ Dialog!Done
  <2>1. /\ v6' = Dialog!AfterCleanup(v6) /\ v7' = Dialog!Nothing
        /\ UNCHANGED <<v2, v4, v10, v11>>
    BY <1>5 DEF Dialog!Close, Dialog!Done
  <2> QED
    BY <1>1, <1>2, <2>1 DEF Dialog!PreviewInv, Dialog!StateOK, Dialog!ShownIsOwn,
      Dialog!ConfirmedWasPreviewed
<1>6. ASSUME NEW w \in Actor, Dialog!SwitchWallet(w)
      PROVE  Dialog!PreviewInv'
  <2>1. CASE v5
    BY <1>3, <1>6, <2>1 DEF Dialog!SwitchWallet
  <2>2. CASE ~v5
    BY <1>1, <1>6, <2>2 DEF Dialog!SwitchWallet, Dialog!PreviewInv, Dialog!StateOK,
      Dialog!ShownIsOwn, Dialog!ConfirmedWasPreviewed
  <2> QED
    BY <2>1, <2>2
<1>7. CASE Dialog!Confirm
  <2>1. v7 # Dialog!Nothing
    BY <1>7 DEF Dialog!Confirm, Dialog!Nothing
  <2>2. v7.success /\ v7.wallet = v2
    BY <1>1, <1>7, <2>1 DEF Dialog!Confirm, Dialog!ShownIsOwn
  <2> DEFINE new == [by |-> v2, shown |-> v7]
  <2>3. new.shown.success /\ new.shown.wallet = new.by
    BY <2>2
  <2>4. v10' = v10 \cup {new}
        /\ UNCHANGED <<v2, v4, v5, v6, v7, v11>>
    BY <1>7 DEF Dialog!Confirm
  <2> HIDE DEF new
  <2> QED
    BY <1>1, <2>3, <2>4 DEF Dialog!PreviewInv, Dialog!StateOK, Dialog!ShownIsOwn,
      Dialog!ConfirmedWasPreviewed
<1>8. ASSUME Dialog!Tick \/ \E w \in Actor : Dialog!ChainChanges(w)
      PROVE  Dialog!PreviewInv'
  BY <1>1, <1>8 DEF Dialog!Tick, Dialog!ChainChanges, Dialog!PreviewInv, Dialog!StateOK,
    Dialog!ShownIsOwn, Dialog!ConfirmedWasPreviewed
<1>9. ASSUME NEW f \in v6, Dialog!Lookup(f)
      PROVE  Dialog!PreviewInv'
  <2>1. UNCHANGED <<v2, v4, v5, v10, v11>>
    BY <1>9 DEF Dialog!Lookup
  <2>2. CASE Dialog!Hit(f.wallet)
    <3>1. f.wallet \in DOMAIN v4 /\ Dialog!Show(f, v4[f.wallet].result)
      BY <1>9, <2>2 DEF Dialog!Lookup, Dialog!Hit, Dialog!CacheKey, Dialog!KeyOfSource
    <3>2. v4[f.wallet].result.wallet = f.wallet
      BY <1>1, <3>1 DEF Dialog!ShownIsOwn
    <3> QED
      BY <1>1, <2>1, <3>1, <3>2, ShowKeeps DEF Dialog!ShownIsOwn
  <2>3. CASE ~Dialog!Hit(f.wallet)
    <3> DEFINE new == [f EXCEPT !.pc = "rpc"]
    <3>1. v6' = (v6 \ {f}) \cup {new} /\ UNCHANGED v7
      BY <1>9, <2>3 DEF Dialog!Lookup
    <3>2. new \in Dialog!Run /\ new.wallet = f.wallet /\ new.live = f.live
      BY <1>1 DEF Dialog!Run
    <3> HIDE DEF new
    <3> QED
      BY <1>1, <2>1, <3>1, <3>2 DEF Dialog!PreviewInv, Dialog!StateOK, Dialog!ShownIsOwn,
        Dialog!ConfirmedWasPreviewed
  <2> QED
    BY <2>2, <2>3
<1>10. ASSUME NEW f \in v6, Dialog!Answer(f)
       PROVE  Dialog!PreviewInv'
  <2>1. UNCHANGED <<v2, v5, v10, v11>>
    BY <1>10 DEF Dialog!Answer
  <2>2. \A k \in DOMAIN v4' : v4'[k].result.wallet = k
    BY <1>1, <1>10 DEF Dialog!Answer, Dialog!Result, Dialog!CacheKey, Dialog!KeyOfSource,
      Dialog!ShownIsOwn
  <2>3. Dialog!Show(f, Dialog!Result(f)) \/ Dialog!Show(f, Dialog!Nothing)
    BY <1>10 DEF Dialog!Answer
  <2>4. Dialog!Result(f).wallet = f.wallet
    BY DEF Dialog!Result
  <2> QED
    BY <2>1, <2>2, <2>3, <2>4, ShowKeeps
<1> QED
  BY <1>4, <1>5, <1>6, <1>7, <1>8, <1>9, <1>10 DEF Dialog!Next

(* A step of another part changes nothing of the calls.                    *)
LEMMA CallsRest ==
  ASSUME Invoke!InvocationInv, UNCHANGED <<v1, v2, v4, v5, v6, v7>>
  PROVE  Invoke!InvocationInv'
<1>1. Invoke!StateOK' /\ Invoke!EntriesAreOwn'
  BY DEF Invoke!InvocationInv, Invoke!StateOK, Invoke!EntriesAreOwn
<1>2. \A c \in Actor : Invoke!ReportIsTrue(c)'
  BY DEF Invoke!InvocationInv, Invoke!ReportIsTrue
<1>3. Invoke!NetworkWasSent'
  <2>1. ASSUME NEW tx \in v4' \cup DOMAIN v5'
        PROVE  \E c \in Actor : Invoke!Sent(c)' /\ v7'[c].tx = tx
    <3>1. PICK c \in Actor : Invoke!Sent(c) /\ v7[c].tx = tx
      BY DEF Invoke!InvocationInv, Invoke!NetworkWasSent
    <3>2. Invoke!Sent(c)'
      BY <3>1, Zenon DEF Invoke!Sent
    <3> QED
      BY <3>1, <3>2
  <2>2. \A tx \in DOMAIN v5' : tx.seq <= v2'
    BY DEF Invoke!InvocationInv, Invoke!NetworkWasSent
  <2> QED
    BY <2>1, <2>2 DEF Invoke!NetworkWasSent
<1> QED
  BY <1>1, <1>2, <1>3 DEF Invoke!InvocationInv

(* A call signs what it built and reports what happened to it, and what is *)
(* confirmed was shown a success of the wallet that confirms it.           *)
THEOREM CallsStayTheirOwn == MCSpec => []CallsAreTheirOwn
<1> DEFINE PartInv == /\ part = "calls" => Invoke!InvocationInv
                      /\ part = "preview" => Dialog!PreviewInv
<1>1. MCInit => PartInv
  BY PartStarts, InvocationStarts, PreviewStarts
<1>2. PartInv /\ [MCNext]_all => PartInv'
  <2> SUFFICES ASSUME PartInv, [MCNext]_all
               PROVE  PartInv'
    OBVIOUS
  <2>1. CASE part = "calls"
    <3>1. Invoke!InvocationInv /\ UNCHANGED <<v1, v2, v4, v5, v6, v7>> => Invoke!InvocationInv'
      BY CallsRest
    <3>2. UNCHANGED pool => UNCHANGED <<v1, v2, v4, v5, v6, v7>>
      BY DEF pool
    <3> QED
      BY <2>1, <3>1, <3>2, PartGoesOn, InvocationStep
  <2>2. CASE part = "preview"
    <3>1. Dialog!PreviewInv /\ UNCHANGED pool => Dialog!PreviewInv'
      BY DEF pool, Dialog!PreviewInv, Dialog!StateOK, Dialog!ShownIsOwn,
        Dialog!ConfirmedWasPreviewed
    <3> QED
      BY <2>2, <3>1, PartGoesOn, PreviewStep
  <2> QED
    BY <2>1, <2>2, PartGoesOn
<1>3. PartInv => CallsAreTheirOwn
  BY ReportsAreOwn DEF CallsAreTheirOwn, Dialog!PreviewInv
<1> QED
  BY <1>1, <1>2, <1>3, PTL DEF MCSpec
=============================================================================
