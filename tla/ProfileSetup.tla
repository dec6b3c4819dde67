---------------------------- MODULE ProfileSetup ----------------------------
(***************************************************************************)
(* The profile of a wallet and its copy in the session token (lib/auth/    *)
(* profile.ts, config.ts; api/profile/setup and update).  The username is  *)
(* claimed once; the token is a cookie that holds what the profile was at  *)
(* sign-in and what setup and update pushed since.  A request works on the *)
(* cookie it came with and its answer replaces the browser's, so requests  *)
(* of one browser overwrite each other.  Display names are left out.       *)
(***************************************************************************)
EXTENDS Naturals

CONSTANTS
  Users,
  Usernames,
  Requests,   \* the requests of a run, of any browser (one per user)
  MaxFaults   \* bound on failed calls

VARIABLES
  row,        \* user_profiles: username and role of each user
  token,      \* the session cookie of each user's browser
  request,
  faults

vars == <<row, token, request, faults>>

Roles == {"business", "lender"}
Null == "null"
SignedOut == [signedIn |-> FALSE]

(* ensureUser made the row at the first login.                             *)
Init ==
  /\ row = [u \in Users |-> [username |-> Null, role |-> "business"]]
  /\ token = [u \in Users |-> SignedOut]
  /\ request = [q \in Requests |-> [pc |-> "new"]]
  /\ faults = 0

(* rowToUser, and jwt() at sign-in: the token is a copy of the row.        *)
Extras(r) == [signedIn |-> TRUE, username |-> r.username, role |-> r.role,
              hasProfile |-> r.username # Null]

SignIn(u) ==
  /\ token' = [token EXCEPT ![u] = Extras(row[u])]
  /\ UNCHANGED <<row, request, faults>>

SignOut(u) ==
  /\ token[u].signedIn
  /\ token' = [token EXCEPT ![u] = SignedOut]
  /\ UNCHANGED <<row, request, faults>>

Goto(q, pc) == request' = [request EXCEPT ![q].pc = pc]
Fault == faults < MaxFaults /\ faults' = faults + 1

(* POST setup, past the checks of its body.                                *)
StartSetup(q, u, name, role) ==
  /\ request[q].pc = "new" /\ token[u].signedIn
  /\ request' = [request EXCEPT ![q] =
       [pc |-> "claim", user |-> u, token |-> token[u], username |-> name, role |-> role]]
  /\ UNCHANGED <<row, token, faults>>

Taken(name) == \E v \in Users : row[v].username = name

(* Mutants: no unique index; the session is refreshed when the claim is    *)
(* refused.                                                                *)
ClaimTaken(q) ==
  /\ request[q].pc = "claim" /\ row[request[q].user].username = Null
  /\ row' = [row EXCEPT ![request[q].user] =
               [username |-> request[q].username, role |-> request[q].role]]
  /\ Goto(q, "refresh") /\ UNCHANGED <<token, faults>>
RefreshAnyway(q) ==
  LET u == request[q].user IN
  /\ request[q].pc = "claim" /\ Goto(q, "refresh")
  /\ row' = IF row[u].username = Null /\ ~Taken(request[q].username)
            THEN [row EXCEPT ![u] = [username |-> request[q].username, role |-> request[q].role]]
            ELSE row
  /\ UNCHANGED <<token, faults>>

(* claimUsername: one conditional update, arbitrated by the unique index.  *)
Claim(q) ==
  LET u == request[q].user
      claimed == [row EXCEPT ![u] =
                    [username |-> request[q].username, role |-> request[q].role]]
      allowed == row[u].username = Null /\ ~Taken(request[q].username)
  IN
  /\ request[q].pc = "claim"
  /\ \/ allowed /\ row' = claimed /\ Goto(q, "refresh") /\ UNCHANGED faults
     \/ ~allowed /\ Goto(q, "failed") /\ UNCHANGED <<row, faults>>
     \/ Fault /\ Goto(q, "failed") /\ (UNCHANGED row \/ (allowed /\ row' = claimed))
  /\ UNCHANGED token

(* updateAuthSession: jwt() copies what it is given onto the token the     *)
(* request came with; the answer sets the cookie, even if the user has     *)
(* signed out in the meantime.  A failure is only logged.                  *)
Push(q, t) ==
  LET u == request[q].user IN
  /\ \/ /\ request' = [request EXCEPT ![q].pc = "done", ![q].token = t]
        /\ token' = [token EXCEPT ![u] = t]
        /\ UNCHANGED faults
     \/ Fault /\ Goto(q, "failed") /\ UNCHANGED token
  /\ UNCHANGED row

(* Setup pushes the name and hasProfile.                                   *)
RefreshSetup(q) ==
  /\ request[q].pc = "refresh"
  /\ Push(q, [request[q].token EXCEPT !.hasProfile = TRUE])

(* PATCH update of the role (the username is refused).                     *)
StartUpdate(q, u, role) ==
  /\ request[q].pc = "new" /\ token[u].signedIn
  /\ request' = [request EXCEPT ![q] =
       [pc |-> "update", user |-> u, token |-> token[u], username |-> Null, role |-> role]]
  /\ UNCHANGED <<row, token, faults>>

Update(q) ==
  LET u == request[q].user
      updated == [row EXCEPT ![u].role = request[q].role] IN
  /\ request[q].pc = "update"
  /\ \/ row' = updated /\ Goto(q, "reread") /\ UNCHANGED faults
     \/ Fault /\ Goto(q, "failed") /\ row' \in {row, updated}
  /\ UNCHANGED token

(* getProfileByWallet: what is pushed is the row of that moment.           *)
Reread(q) ==
  /\ request[q].pc = "reread"
  /\ request' = [request EXCEPT ![q].pc = "push", ![q].role = row[request[q].user].role]
  /\ UNCHANGED <<row, token, faults>>

PushUpdate(q) ==
  /\ request[q].pc = "push"
  /\ Push(q, [request[q].token EXCEPT !.role = request[q].role])

Next ==
  \/ \E u \in Users : SignIn(u) \/ SignOut(u)
  \/ \E q \in Requests, u \in Users, role \in Roles :
       \/ \E name \in Usernames : StartSetup(q, u, name, role)
       \/ StartUpdate(q, u, role)
  \/ \E q \in Requests :
       Claim(q) \/ RefreshSetup(q) \/ Update(q) \/ Reread(q) \/ PushUpdate(q)

Spec == Init /\ [][Next]_vars

-----------------------------------------------------------------------------
(* Properties                                                              *)

TypeOK ==
  /\ \A u \in Users : row[u].username \in Usernames \union {Null} /\ row[u].role \in Roles
  /\ \A u \in Users : token[u] # SignedOut => token[u].hasProfile \in BOOLEAN
  /\ faults \in 0..MaxFaults

(* "unique, immutable once set": of racing setups of one user, or of two   *)
(* users for one name, whether or not their answers arrive, one wins and   *)
(* stays.                                                                  *)
ClaimsOnce ==
  \A u \in Users :
    row'[u].username # row[u].username =>
      /\ row[u].username = Null
      /\ \A v \in Users : row[v].username # row'[u].username

UsernamesArePermanent == [][ClaimsOnce]_vars

Backed(t, u) ==
  /\ t.hasProfile => row[u].username # Null
  /\ t.username \in {Null, row[u].username}

(* A token says that the setup is done only when it is, however the        *)
(* requests of its browser interleave.                                     *)
TokenNeverAhead == \A u \in Users : token[u].signedIn => Backed(token[u], u)

(* Why that is: the tokens that requests work on are not ahead either, and *)
(* a setup comes to refresh its token only past the claim.                 *)
Names == Usernames \union {Null}
Token == [signedIn : {TRUE}, username : Names, role : Roles, hasProfile : BOOLEAN]
Request == [pc : {"claim", "refresh", "update", "reread", "push", "done", "failed"}, user : Users,
            token : Token, username : Names, role : Roles]

StateOK ==
  /\ row \in [Users -> [username : Names, role : Roles]]
  /\ token \in [Users -> Token \union {SignedOut}]
  /\ request \in [Requests -> Request \union {[pc |-> "new"]}]

RequestIsBacked(q) ==
  /\ request[q].pc # "new" => Backed(request[q].token, request[q].user)
  /\ request[q].pc = "claim" => request[q].username # Null
  /\ request[q].pc = "refresh" => row[request[q].user].username # Null

ProfileInv == StateOK /\ TokenNeverAhead /\ \A q \in Requests : RequestIsBacked(q)
=============================================================================
