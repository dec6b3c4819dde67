------------------------- MODULE WalletSessionProofs --------------------------
(***************************************************************************)
(* Proofs about the wallet of a tab and its session, for any wallets,      *)
(* accounts and calls under way: signatures go to the wallet that is       *)
(* shown, a load opens no window, and a login that ran on its own leaves   *)
(* the session of the wallet the tab recorded.                             *)
(***************************************************************************)
EXTENDS WalletSession, TLAPS

Places == {"idle", "address", "sign", "verify", "reread", "user", "anonymous", "link", "sign out"}

TaskState ==
  [at : Places, wallet : Wallets \union Accounts \union {NoOne}, account : Accounts \union {NoOne},
   by : {NoOne, "load", "button", "login page", "wallet"}, alone : BOOLEAN]

(* The tasks whose end decides what the session is.                        *)
Deciding == {"sign", "verify", "user", "anonymous", "link", "sign out"}

StateOK ==
  /\ strayed \in BOOLEAN
  /\ task \in [Tasks -> TaskState]
  /\ wallet \in [Wallets -> Accounts]
  /\ \A t \in Tasks :
       task[t].at = "address" =>
         task[t].by \in {"load", "button", "login page"} /\ task[t].wallet \in Wallets
  /\ hint = None \/ hint \in [wallet : Wallets, account : Accounts]

(* A task that knows itself to be alone is.                                *)
AloneIsAlone ==
  \A t, u \in Tasks :
    t # u /\ task[t] # Idle /\ task[t].alone /\ task[t].at # "sign out" => task[u] = Idle

(* A login that runs alone is for the account the tab has recorded.        *)
LoginIsRecorded ==
  \A t \in Tasks :
    task[t].alone /\ task[t].at \in LoggingIn => task[t].account = hint.account

(* The session is the recorded account's, or a task is under way that      *)
(* decides about it, or it has strayed.                                    *)
SessionIsDecided ==
  \/ strayed
  \/ session \in {NoOne, hint.account}
  \/ \E t \in Tasks : task[t].at \in Deciding

SessionInv ==
  StateOK /\ AloneIsAlone /\ LoginIsRecorded /\ SessionIsDecided /\ SignerIsShown /\ LoadIsQuiet

-----------------------------------------------------------------------------
LEMMA IdleIsIdle == Idle \in TaskState /\ Idle.at = "idle"
BY DEF Idle, TaskState, Places

(* A task that begins is as it is called, and the others are the same but  *)
(* no longer alone.                                                        *)
LEMMA ATaskBegins ==
  ASSUME StateOK, NEW t \in Tasks, NEW call \in TaskState, Begins(t, call),
         call.at = "address" =>
           call.by \in {"load", "button", "login page"} /\ call.wallet \in Wallets
  PROVE  /\ task' \in [Tasks -> TaskState]
         /\ \A u \in Tasks :
              task'[u].at = "address" =>
                task'[u].by \in {"load", "button", "login page"} /\ task'[u].wallet \in Wallets
         /\ AloneIsAlone'
         /\ task'[t].at = call.at /\ task'[t].account = call.account
         /\ task[t].at = "idle"
         /\ \A u \in Tasks \ {t} : task'[u].at = task[u].at
         /\ \A u \in Tasks \ {t} : task'[u] = Idle \/ ~task'[u].alone
<1> DEFINE others(u) == IF task[u] = Idle THEN Idle ELSE [task[u] EXCEPT !.alone = FALSE]
<1>1. Idle \in TaskState /\ Idle.at = "idle"
  BY IdleIsIdle
<1>2. [call EXCEPT !.alone = Quiet] \in TaskState
  BY DEF TaskState, Quiet
<1>3. /\ task'[t] = [call EXCEPT !.alone = Quiet] /\ task[t] = Idle
      /\ \A u \in Tasks \ {t} : task'[u] = others(u)
      /\ task' = [u \in Tasks |-> IF u = t THEN [call EXCEPT !.alone = Quiet] ELSE others(u)]
  BY DEF Begins
<1>4. /\ task'[t].at = call.at /\ task'[t].account = call.account /\ task'[t].by = call.by
      /\ task'[t].wallet = call.wallet /\ task'[t].alone = Quiet
  BY <1>3 DEF TaskState
<1>5. ASSUME NEW u \in Tasks \ {t}
      PROVE  /\ others(u) \in TaskState
             /\ others(u).at = task[u].at /\ others(u).by = task[u].by
             /\ others(u).wallet = task[u].wallet
             /\ others(u) = Idle \/ ~others(u).alone
             /\ task[u] = Idle => others(u) = Idle
  <2>1. task[u] \in TaskState
    BY DEF StateOK
  <2>2. CASE task[u] = Idle
    BY <1>1, <2>2
  <2>3. CASE task[u] # Idle
    <3> DEFINE r == task[u]
               s == [r EXCEPT !.alone = FALSE]
    <3>1. others(u) = s
      BY <2>3
    <3>2. r \in TaskState
      BY <2>1
    <3> HIDE DEF others, r
    <3>3. s \in TaskState /\ s.at = r.at /\ s.by = r.by /\ s.wallet = r.wallet /\ ~s.alone
      BY <3>2 DEF TaskState
    <3> QED
      BY <2>3, <3>1, <3>3 DEF r
  <2> QED
    BY <2>2, <2>3
<1> HIDE DEF others
<1>6. task' \in [Tasks -> TaskState]
  BY <1>2, <1>3, <1>5
<1>7. AloneIsAlone'
  <2> SUFFICES ASSUME NEW u \in Tasks, NEW v \in Tasks, u # v, task'[u] # Idle,
                      task'[u].alone
               PROVE  task'[v] = Idle
    BY DEF AloneIsAlone
  <2>1. u = t
    BY <1>3, <1>5
  <2>2. Quiet
    BY <2>1, <1>4
  <2> QED
    BY <2>1, <2>2, <1>3, <1>5 DEF Quiet
<1> QED
  BY <1>1, <1>3, <1>4, <1>5, <1>6, <1>7 DEF StateOK

(* One task goes on or ends, and any other under way knows itself not to   *)
(* be alone.                                                               *)
LEMMA ATaskMoves ==
  ASSUME StateOK, AloneIsAlone, NEW t \in Tasks, NEW s \in TaskState,
         task[t].at # "idle", task' = [task EXCEPT ![t] = s],
         s = Idle \/ s.at = "sign out" \/ (s.alone = task[t].alone /\ task[t].at # "sign out"),
         s.at = "address" =>
           s.by \in {"load", "button", "login page"} /\ s.wallet \in Wallets
  PROVE  /\ task' \in [Tasks -> TaskState]
         /\ \A u \in Tasks :
              task'[u].at = "address" =>
                task'[u].by \in {"load", "button", "login page"} /\ task'[u].wallet \in Wallets
         /\ AloneIsAlone'
         /\ task'[t] = s
         /\ \A u \in Tasks \ {t} : task'[u] = task[u]
         /\ \A u \in Tasks \ {t} : task[u].alone => task[u].at \notin LoggingIn
<1>1. task[t] # Idle
  BY IdleIsIdle
<1>2. task'[t] = s /\ \A u \in Tasks \ {t} : task'[u] = task[u]
  BY DEF StateOK
<1>3. task' \in [Tasks -> TaskState]
  BY DEF StateOK
<1>4. AloneIsAlone'
  BY <1>1, <1>2 DEF AloneIsAlone
<1>5. ASSUME NEW u \in Tasks \ {t}, task[u].alone, task[u].at \in LoggingIn
      PROVE  FALSE
  <2>1. task[u] # Idle /\ task[u].at # "sign out"
    BY <1>5, IdleIsIdle DEF LoggingIn
  <2> QED
    BY <2>1, <1>1, <1>5 DEF AloneIsAlone
<1> QED
  BY <1>2, <1>3, <1>4, <1>5 DEF StateOK

-----------------------------------------------------------------------------
LEMMA InitEstablishesInv == Init => SessionInv
<1> SUFFICES ASSUME Init PROVE SessionInv
  OBVIOUS
<1>1. \A t \in Tasks : task[t] = Idle
  BY DEF Init
<1>2. StateOK
  BY <1>1, IdleIsIdle DEF Init, StateOK
<1>3. AloneIsAlone /\ LoginIsRecorded
  BY <1>1, IdleIsIdle DEF AloneIsAlone, LoginIsRecorded, LoggingIn
<1>4. SessionIsDecided /\ SignerIsShown /\ LoadIsQuiet
  BY DEF Init, SessionIsDecided, SignerIsShown, LoadIsQuiet, None
<1> QED
  BY <1>2, <1>3, <1>4 DEF SessionInv

LEMMA StutterKeepsInv ==
  ASSUME SessionInv, UNCHANGED <<wallet, recorded, session, task, touched, strayed>>
  PROVE  SessionInv'
BY DEF SessionInv, StateOK, AloneIsAlone, LoginIsRecorded, SessionIsDecided, SignerIsShown,
  LoadIsQuiet, recorded

(* A load ends every task, and remembers that one was deciding.            *)
LEMMA ReloadKeepsInv ==
  ASSUME SessionInv, NEW p \in {"auth", "app"}, Reload(p)
  PROVE  SessionInv'
<1>1. \A t \in Tasks : task'[t] = Idle
  BY DEF Reload
<1>2. StateOK'
  BY <1>1, IdleIsIdle DEF SessionInv, StateOK, Reload, Busy
<1>3. AloneIsAlone' /\ LoginIsRecorded'
  BY <1>1, IdleIsIdle DEF AloneIsAlone, LoginIsRecorded, LoggingIn
<1>4. SessionIsDecided'
  BY DEF SessionInv, SessionIsDecided, Reload, Busy, LoggingIn, Deciding
<1>5. SignerIsShown' /\ LoadIsQuiet'
  BY DEF SignerIsShown, LoadIsQuiet, Reload, None
<1> QED
  BY <1>2, <1>3, <1>4, <1>5 DEF SessionInv

(* The restore and a click both begin by asking a wallet for its address.  *)
LEMMA AskingKeepsInv ==
  ASSUME SessionInv, NEW t \in Tasks, NEW w \in Wallets,
         NEW by \in {"load", "button", "login page"},
         Begins(t, [Idle EXCEPT !.at = "address", !.wallet = w, !.by = by]),
         LoadIsQuiet', UNCHANGED <<wallet, recorded, session, strayed>>
  PROVE  SessionInv'
<1> DEFINE call == [Idle EXCEPT !.at = "address", !.wallet = w, !.by = by]
<1>1. call \in TaskState /\ call.at = "address" /\ call.by = by /\ call.wallet = w
  BY DEF Idle, TaskState, Places
<1>2. Begins(t, call)
  OBVIOUS
<1> HIDE DEF call
<1>3. /\ task' \in [Tasks -> TaskState]
      /\ \A u \in Tasks :
           task'[u].at = "address" =>
             task'[u].by \in {"load", "button", "login page"} /\ task'[u].wallet \in Wallets
      /\ AloneIsAlone'
      /\ task'[t].at = "address" /\ task[t].at = "idle"
      /\ \A u \in Tasks \ {t} : task'[u].at = task[u].at
      /\ \A u \in Tasks \ {t} : task'[u] = Idle \/ ~task'[u].alone
  BY <1>1, <1>2, ATaskBegins DEF SessionInv
<1>4. StateOK'
  BY <1>3 DEF SessionInv, StateOK, recorded
<1>5. LoginIsRecorded'
  BY <1>3, IdleIsIdle DEF LoginIsRecorded, LoggingIn
<1>6. SessionIsDecided'
  BY <1>3 DEF SessionInv, SessionIsDecided, Deciding, recorded
<1>7. SignerIsShown'
  BY DEF SessionInv, SignerIsShown, recorded
<1> QED
  BY <1>3, <1>4, <1>5, <1>6, <1>7 DEF SessionInv

LEMMA ProbeKeepsInv ==
  ASSUME SessionInv, NEW found \in SUBSET Wallets, ProbeWallets(found)
  PROVE  SessionInv'
<1>1. CASE UNCHANGED <<task, touched>>
  BY <1>1, StutterKeepsInv DEF ProbeWallets
<1>2. CASE ~UNCHANGED <<task, touched>>
  <2>1. PICK t \in Tasks :
          Begins(t, [Idle EXCEPT !.at = "address", !.wallet = hint.wallet, !.by = "load"])
    BY <1>2 DEF ProbeWallets
  <2>2. hint.wallet \in Wallets /\ hint.wallet \in Silent
        /\ touched' = touched \union {hint.wallet}
    BY <1>2 DEF ProbeWallets, Restorable
  <2>3. LoadIsQuiet'
    BY <2>2 DEF SessionInv, LoadIsQuiet
  <2>4. UNCHANGED <<wallet, recorded, session, strayed>>
    BY DEF ProbeWallets
  <2> QED
    BY <2>1, <2>2, <2>3, <2>4, AskingKeepsInv
<1> QED
  BY <1>1, <1>2

LEMMA ConnectKeepsInv ==
  ASSUME SessionInv, NEW w \in Wallets, NEW by \in {"button", "login page"}, Connect(w, by)
  PROVE  SessionInv'
<1>1. PICK t \in Tasks : Begins(t, [Idle EXCEPT !.at = "address", !.wallet = w, !.by = by])
  BY DEF Connect
<1>2. LoadIsQuiet' /\ UNCHANGED <<wallet, recorded, session, strayed>>
  BY DEF Connect, SessionInv, LoadIsQuiet
<1> QED
  BY <1>1, <1>2, AskingKeepsInv

-----------------------------------------------------------------------------
(* A step of a task that leaves the records alone.                         *)
LEMMA TaskKeepsInv ==
  ASSUME SessionInv, NEW t \in Tasks, NEW s \in TaskState,
         task[t].at # "idle", task' = [task EXCEPT ![t] = s],
         s = Idle \/ s.at = "sign out" \/ (s.alone = task[t].alone /\ task[t].at # "sign out"),
         s.at = "address" =>
           s.by \in {"load", "button", "login page"} /\ s.wallet \in Wallets,
         s.alone /\ s.at \in LoggingIn => s.account = hint.account,
         UNCHANGED <<wallet, recorded, touched>>, strayed' \in BOOLEAN,
         \/ strayed'
         \/ session' \in {NoOne, hint.account}
         \/ s.at \in Deciding
         \/ UNCHANGED <<session, strayed>> /\ task[t].at \notin Deciding
  PROVE  SessionInv'
<1>1. /\ task' \in [Tasks -> TaskState]
      /\ \A u \in Tasks :
           task'[u].at = "address" =>
             task'[u].by \in {"load", "button", "login page"} /\ task'[u].wallet \in Wallets
      /\ AloneIsAlone'
      /\ task'[t] = s
      /\ \A u \in Tasks \ {t} : task'[u] = task[u]
  BY ATaskMoves DEF SessionInv
<1>2. StateOK'
  BY <1>1 DEF SessionInv, StateOK, recorded
<1>3. LoginIsRecorded'
  BY <1>1 DEF SessionInv, LoginIsRecorded, recorded
<1>4. SessionIsDecided'
  BY <1>1 DEF SessionInv, SessionIsDecided, recorded
<1>5. SignerIsShown' /\ LoadIsQuiet'
  BY DEF SessionInv, SignerIsShown, LoadIsQuiet, recorded
<1> QED
  BY <1>1, <1>2, <1>3, <1>4, <1>5 DEF SessionInv

LEMMA AnsweredKeepsInv ==
  ASSUME SessionInv, NEW t \in Tasks, Answered(t)
  PROVE  SessionInv'
<1> DEFINE r == task[t]
           s == [r EXCEPT !.account = wallet[r.wallet]]
<1>1. r \in TaskState /\ r.at = "address" /\ wallet[r.wallet] \in Accounts
      /\ r.by \in {"load", "button", "login page"} /\ r.wallet \in Wallets
  BY DEF SessionInv, StateOK, Answered
<1>2. task' = [task EXCEPT ![t] = s]
  BY DEF Answered
<1>3. UNCHANGED <<wallet, recorded, touched, session, strayed>> /\ strayed' \in BOOLEAN
  BY DEF Answered, SessionInv, StateOK
<1> HIDE DEF r
<1>4. s \in TaskState /\ s.at = "address" /\ s.by = r.by /\ s.wallet = r.wallet /\ s.alone = r.alone
  BY <1>1 DEF TaskState
<1> HIDE DEF s
<1>5. s.at \notin LoggingIn /\ r.at \notin Deciding
  BY <1>1, <1>4 DEF LoggingIn, Deciding
<1> QED
  BY <1>1, <1>2, <1>3, <1>4, <1>5, TaskKeepsInv DEF r

(* A task ends: a refusal, the end of a login, a sign-out, a failure.      *)
LEMMA EndKeepsInv ==
  ASSUME SessionInv, NEW t \in Tasks, task[t].at # "idle", Ends(t),
         UNCHANGED <<wallet, recorded, touched>>, strayed' \in BOOLEAN,
         \/ strayed'
         \/ session' \in {NoOne, hint.account}
         \/ UNCHANGED <<session, strayed>> /\ task[t].at \notin Deciding
  PROVE  SessionInv'
<1>1. Idle \in TaskState /\ Idle.at = "idle" /\ Idle.at \notin LoggingIn
  BY IdleIsIdle DEF LoggingIn
<1>2. task' = [task EXCEPT ![t] = Idle]
  BY DEF Ends
<1> QED
  BY <1>1, <1>2, TaskKeepsInv

LEMMA EndingsKeepInv ==
  ASSUME SessionInv, NEW t \in Tasks,
         Refused(t) \/ SignOut(t) \/ Reread(t) \/ SignInFails(t)
  PROVE  SessionInv'
<1>1. task[t] \in TaskState /\ strayed \in BOOLEAN /\ task[t].alone \in BOOLEAN
  BY DEF SessionInv, StateOK, TaskState
<1>2. CASE Refused(t)
  BY <1>1, <1>2, EndKeepsInv DEF Refused, Deciding
<1>3. CASE SignOut(t)
  BY <1>1, <1>3, EndKeepsInv DEF SignOut
<1>4. CASE Reread(t)
  BY <1>1, <1>4, EndKeepsInv DEF Reread, Deciding
<1>5. CASE SignInFails(t)
  BY <1>1, <1>5, EndKeepsInv DEF SignInFails
<1> QED
  BY <1>2, <1>3, <1>4, <1>5

(* A task goes to another place of a login.                                *)
LEMMA GoesKeepsInv ==
  ASSUME SessionInv, NEW t \in Tasks, task[t].at \in LoggingIn,
         NEW place \in LoggingIn, Goes(t, place),
         UNCHANGED <<wallet, recorded, touched>>, strayed' \in BOOLEAN,
         \/ strayed'
         \/ session' \in {NoOne, hint.account}
         \/ place \in Deciding
  PROVE  SessionInv'
<1> DEFINE r == task[t]
           s == [r EXCEPT !.at = place]
<1>1. r \in TaskState /\ r.at \notin {"idle", "sign out"}
  BY DEF SessionInv, StateOK, LoggingIn
<1>2. task' = [task EXCEPT ![t] = s]
  BY DEF Goes
<1>3. r.alone => r.account = hint.account
  BY DEF SessionInv, LoginIsRecorded
<1> HIDE DEF r
<1>4. s \in TaskState /\ s.at = place /\ s.account = r.account /\ s.alone = r.alone
  BY <1>1 DEF TaskState, LoggingIn, Places
<1> HIDE DEF s
<1>5. s.at # "address"
  BY <1>4 DEF LoggingIn
<1> QED
  BY <1>1, <1>2, <1>3, <1>4, <1>5, TaskKeepsInv DEF r

(* The wallet that is active signs: it has an account.                     *)
LEMMA SignKeepsInv ==
  ASSUME SessionInv, NEW t \in Tasks, Sign(t)
  PROVE  SessionInv'
<1> DEFINE r == task[t]
           s == [r EXCEPT !.at = "verify", !.wallet = wallet[active]]
<1>1. wallet[active] \in Accounts
  <2>1. None.wallet = NoOne
    BY DEF None
  <2>2. shown # None /\ active = hint.wallet
    BY <2>1 DEF SessionInv, SignerIsShown, Sign
  <2>3. active \in Wallets
    BY <2>1, <2>2 DEF SessionInv, StateOK, Sign
  <2> QED
    BY <2>3 DEF SessionInv, StateOK
<1>2. r \in TaskState /\ r.at = "sign"
  BY DEF SessionInv, StateOK, Sign
<1>3. task' = [task EXCEPT ![t] = s]
  BY DEF Sign
<1>4. r.alone => r.account = hint.account
  BY DEF SessionInv, LoginIsRecorded, Sign, LoggingIn
<1>5. UNCHANGED <<wallet, recorded, touched, session, strayed>> /\ strayed' \in BOOLEAN
  BY DEF Sign, SessionInv, StateOK
<1> HIDE DEF r
<1>6. s \in TaskState /\ s.at = "verify" /\ s.account = r.account /\ s.alone = r.alone
  BY <1>1, <1>2 DEF TaskState, Places
<1> HIDE DEF s
<1>7. s.at \in Deciding
  BY <1>6 DEF Deciding
<1> QED
  BY <1>2, <1>3, <1>4, <1>5, <1>6, <1>7, TaskKeepsInv DEF r

(* Only a login that was alone says that the session has not strayed, and  *)
(* that one is for the account of the hint.                                *)
LEMMA VerifiedKeepsInv ==
  ASSUME SessionInv, NEW t \in Tasks, Verified(t)
  PROVE  SessionInv'
<1>1. task[t].at = "verify" /\ task[t].at \in LoggingIn /\ task[t].alone \in BOOLEAN
  BY DEF Verified, LoggingIn, SessionInv, StateOK, TaskState
<1>2. strayed' \/ session' = hint.account
  BY <1>1 DEF Verified, SessionInv, LoginIsRecorded
<1>3. UNCHANGED <<wallet, recorded, touched>> /\ strayed' \in BOOLEAN
  BY <1>1 DEF Verified
<1>4. CASE Goes(t, "reread")
  BY <1>1, <1>2, <1>3, <1>4, GoesKeepsInv DEF LoggingIn
<1>5. CASE Ends(t)
  BY <1>1, <1>2, <1>3, <1>5, EndKeepsInv
<1> QED
  BY <1>4, <1>5 DEF Verified

LEMMA SignInKeepsInv ==
  ASSUME SessionInv, NEW t \in Tasks, SignInWithWallet(t)
  PROVE  SessionInv'
<1>1. task[t].at \in LoggingIn /\ task[t].alone \in BOOLEAN /\ strayed \in BOOLEAN
  BY DEF SignInWithWallet, LoggingIn, SessionInv, StateOK, TaskState
<1>2. UNCHANGED <<wallet, recorded, touched>>
  BY DEF SignInWithWallet
<1>3. CASE task[t].at # "link"
  <2>1. PICK place \in {"anonymous", "link"} : Goes(t, place)
    BY <1>3 DEF SignInWithWallet
  <2>2. strayed' = strayed /\ place \in LoggingIn /\ place \in Deciding
    BY <1>3 DEF SignInWithWallet, LoggingIn, Deciding
  <2> QED
    BY <1>1, <1>2, <2>1, <2>2, GoesKeepsInv
<1>4. CASE task[t].at = "link"
  <2>1. Ends(t) /\ strayed' = ~task[t].alone /\ session' \in {NoOne, task[t].account}
    BY <1>4 DEF SignInWithWallet
  <2>2. strayed' \/ session' \in {NoOne, hint.account}
    BY <1>1, <2>1 DEF SessionInv, LoginIsRecorded
  <2> QED
    BY <1>1, <1>2, <1>4, <2>1, <2>2, EndKeepsInv
<1> QED
  BY <1>3, <1>4

-----------------------------------------------------------------------------
(* The records are made out anew: only a task that is alone takes a        *)
(* session for them along.                                                 *)
LEMMA RecordedTogether ==
  ASSUME NEW w \in Wallets, NEW a \in Accounts, Record(w, a)
  PROVE  /\ hint' \in [wallet : Wallets, account : Accounts]
         /\ hint'.account = a
         /\ SignerIsShown'
BY DEF Record, At, SignerIsShown

LEMMA ForgottenTogether == Forget => hint' = None /\ SignerIsShown'
BY DEF Forget, SignerIsShown, None

(* An answer of a wallet: if no login follows, the task was alone and the  *)
(* account is the one there was.                                           *)
LEMMA AttachKeepsInv ==
  ASSUME SessionInv, NEW t \in Tasks, Attach(t)
  PROVE  SessionInv'
<1> DEFINE r == task[t]
           next == IF r.by = "load" THEN AfterRestore ELSE AfterConnect(r.by)
           s == [r EXCEPT !.at = next]
<1>1. /\ r \in TaskState /\ r.at = "address" /\ r.account # NoOne
      /\ r.by \in {"load", "button", "login page"} /\ r.wallet \in Wallets
  BY DEF SessionInv, StateOK, Attach
<1>2. r.account \in Accounts /\ r.alone \in BOOLEAN
  BY <1>1 DEF TaskState
<1>3. Record(r.wallet, r.account) /\ UNCHANGED <<wallet, session, touched>>
      /\ strayed' = (strayed \/ ~r.alone \/ Unasked(r))
  BY DEF Attach
<1>4. /\ hint' \in [wallet : Wallets, account : Accounts]
      /\ hint'.account = r.account
      /\ SignerIsShown'
  BY <1>1, <1>2, <1>3, RecordedTogether
<1>5. next \in {"idle", "sign", "user"}
  BY DEF AfterRestore, AfterConnect, Ensure
<1>6. next = "idle" /\ ~Unasked(r) => r.account = hint.account
  BY <1>1 DEF AfterRestore, AfterConnect, Ensure, Unasked
<1>7. task' = [task EXCEPT ![t] = IF next = "idle" THEN Idle ELSE s]
  BY DEF Attach, Ends, Goes
<1>8. strayed' \in BOOLEAN /\ Unasked(r) \in BOOLEAN
  BY <1>2, <1>3 DEF SessionInv, StateOK, Unasked
<1> HIDE DEF r, next
<1>9. s \in TaskState /\ s.at = next /\ s.account = r.account /\ s.alone = r.alone
  BY <1>1, <1>5 DEF TaskState, Places
<1> HIDE DEF s
<1> DEFINE q == IF next = "idle" THEN Idle ELSE s
<1>10. /\ q \in TaskState
       /\ q = Idle \/ q.alone = r.alone
       /\ q = Idle \/ q.account = r.account
       /\ next = "idle" \/ q.at \in Deciding
  BY <1>5, <1>9, IdleIsIdle DEF Deciding
<1>11. task' = [task EXCEPT ![t] = q] /\ q.at # "address"
  BY <1>5, <1>7, <1>9, IdleIsIdle
<1> HIDE DEF q
<1>12. /\ task' \in [Tasks -> TaskState]
       /\ \A u \in Tasks :
            task'[u].at = "address" =>
              task'[u].by \in {"load", "button", "login page"} /\ task'[u].wallet \in Wallets
       /\ AloneIsAlone'
       /\ task'[t] = q
       /\ \A u \in Tasks \ {t} : task'[u] = task[u]
       /\ \A u \in Tasks \ {t} : task[u].alone => task[u].at \notin LoggingIn
  BY <1>1, <1>10, <1>11, ATaskMoves DEF SessionInv, r
<1>13. StateOK'
  BY <1>3, <1>4, <1>8, <1>12 DEF SessionInv, StateOK
<1>14. LoginIsRecorded'
  BY <1>4, <1>10, <1>12, IdleIsIdle DEF LoginIsRecorded, LoggingIn
<1>15. SessionIsDecided'
  <2>1. CASE next # "idle"
    BY <2>1, <1>10, <1>12 DEF SessionIsDecided
  <2>2. CASE next = "idle" /\ ~strayed'
    <3>1. ~strayed /\ r.alone /\ ~Unasked(r)
      BY <2>2, <1>2, <1>3, <1>8 DEF SessionInv, StateOK
    <3>2. \A u \in Tasks : u # t => task[u] = Idle
      BY <3>1, <1>1, IdleIsIdle DEF SessionInv, AloneIsAlone, r
    <3>3. \A u \in Tasks : task[u].at \notin Deciding
      BY <3>2, <1>1, IdleIsIdle DEF Deciding, r
    <3>4. session \in {NoOne, hint.account}
      BY <3>1, <3>3 DEF SessionInv, SessionIsDecided
    <3> QED
      BY <3>1, <3>4, <2>2, <1>3, <1>4, <1>6 DEF SessionIsDecided
  <2> QED
    BY <2>1, <2>2 DEF SessionIsDecided
<1>16. LoadIsQuiet'
  BY <1>3 DEF SessionInv, LoadIsQuiet
<1> QED
  BY <1>4, <1>12, <1>13, <1>14, <1>15, <1>16 DEF SessionInv

(* A login that throws ends, or on the login page takes the records away.  *)
LEMMA ThrowKeepsInv ==
  ASSUME SessionInv, NEW t \in Tasks, LoginThrows(t)
  PROVE  SessionInv'
<1>1. task[t].at \in {"sign", "verify", "reread"} /\ strayed' = TRUE
      /\ UNCHANGED <<wallet, session, touched>>
  BY DEF LoginThrows
<1>2. CASE Ends(t) /\ UNCHANGED recorded
  BY <1>1, <1>2, EndKeepsInv
<1>3. CASE Forget /\ task' = [task EXCEPT ![t] = SigningOut]
  <2>1. SigningOut \in TaskState /\ SigningOut.at = "sign out"
    BY DEF SigningOut, Idle, TaskState, Places
  <2>2. hint' = None /\ SignerIsShown'
    BY <1>3, ForgottenTogether
  <2>3. /\ task' \in [Tasks -> TaskState]
        /\ \A u \in Tasks :
             task'[u].at = "address" =>
               task'[u].by \in {"load", "button", "login page"} /\ task'[u].wallet \in Wallets
        /\ AloneIsAlone'
        /\ task'[t] = SigningOut
        /\ \A u \in Tasks \ {t} : task'[u] = task[u]
        /\ \A u \in Tasks \ {t} : task[u].alone => task[u].at \notin LoggingIn
    BY <1>1, <1>3, <2>1, ATaskMoves DEF SessionInv
  <2>4. StateOK'
    BY <1>1, <2>2, <2>3 DEF SessionInv, StateOK
  <2>5. LoginIsRecorded'
    BY <2>1, <2>3 DEF LoginIsRecorded, LoggingIn
  <2>6. SessionIsDecided' /\ LoadIsQuiet'
    BY <1>1 DEF SessionIsDecided, SessionInv, LoadIsQuiet
  <2> QED
    BY <2>2, <2>3, <2>4, <2>5, <2>6 DEF SessionInv
<1> QED
  BY <1>2, <1>3 DEF LoginThrows

(* A disconnect and a switch begin a task that decides, and leave no other *)
(* alone.                                                                  *)
LEMMA BeginningKeepsInv ==
  ASSUME SessionInv, NEW t \in Tasks, NEW call \in TaskState, Begins(t, call),
         call.at \in {"sign out", "sign", "user"},
         call.at # "sign out" => call.account = hint'.account,
         wallet' \in [Wallets -> Accounts], strayed' \in BOOLEAN,
         hint' = None \/ hint' \in [wallet : Wallets, account : Accounts],
         SignerIsShown', UNCHANGED touched
  PROVE  SessionInv'
<1>1. /\ task' \in [Tasks -> TaskState]
      /\ \A u \in Tasks :
           task'[u].at = "address" =>
             task'[u].by \in {"load", "button", "login page"} /\ task'[u].wallet \in Wallets
      /\ AloneIsAlone'
      /\ task'[t].at = call.at /\ task'[t].account = call.account
      /\ \A u \in Tasks \ {t} : task'[u] = Idle \/ ~task'[u].alone
  BY ATaskBegins DEF SessionInv
<1>2. StateOK'
  BY <1>1 DEF StateOK
<1>3. LoginIsRecorded'
  BY <1>1, IdleIsIdle DEF LoginIsRecorded, LoggingIn
<1>4. SessionIsDecided'
  BY <1>1 DEF SessionIsDecided, Deciding
<1>5. LoadIsQuiet'
  BY DEF SessionInv, LoadIsQuiet
<1> QED
  BY <1>1, <1>2, <1>3, <1>4, <1>5 DEF SessionInv

LEMMA DisconnectKeepsInv ==
  ASSUME SessionInv, Disconnect
  PROVE  SessionInv'
<1>1. PICK t \in Tasks : Begins(t, SigningOut)
  BY DEF Disconnect
<1>2. SigningOut \in TaskState /\ SigningOut.at = "sign out"
  BY DEF SigningOut, Idle, TaskState, Places
<1>3. hint' = None /\ SignerIsShown'
  BY ForgottenTogether DEF Disconnect
<1>4. wallet' \in [Wallets -> Accounts] /\ UNCHANGED touched
  BY DEF Disconnect, SessionInv, StateOK
<1>5. strayed' \in BOOLEAN
  BY DEF Disconnect, Quiet, SessionInv, StateOK
<1> QED
  BY <1>1, <1>2, <1>3, <1>4, <1>5, BeginningKeepsInv

LEMMA SwitchKeepsInv ==
  ASSUME SessionInv, NEW w \in Wallets, NEW a \in Accounts, SwitchAccount(w, a)
  PROVE  SessionInv'
<1>1. wallet' \in [Wallets -> Accounts] /\ UNCHANGED <<session, touched>>
  BY DEF SwitchAccount, SessionInv, StateOK
<1>2. CASE UNCHANGED <<recorded, task, strayed>>
  <2>1. StateOK'
    BY <1>1, <1>2 DEF SessionInv, StateOK, recorded
  <2>2. AloneIsAlone' /\ LoginIsRecorded' /\ SessionIsDecided' /\ SignerIsShown' /\ LoadIsQuiet'
    BY <1>1, <1>2 DEF SessionInv, AloneIsAlone, LoginIsRecorded, SessionIsDecided,
      SignerIsShown, LoadIsQuiet, recorded
  <2> QED
    BY <2>1, <2>2 DEF SessionInv
<1>3. CASE ~UNCHANGED <<recorded, task, strayed>>
  <2> DEFINE call == [Idle EXCEPT !.at = Ensure, !.account = a, !.by = "wallet"]
  <2>1. w = shown.wallet /\ Record(shown.wallet, a) /\ strayed' = (strayed \/ ~Quiet)
        /\ \E t \in Tasks : Begins(t, call)
    BY <1>3 DEF SwitchAccount
  <2>2. PICK t \in Tasks : Begins(t, call)
    BY <2>1
  <2>3. call \in TaskState /\ call.at \in {"sign", "user"} /\ call.account = a
    BY DEF Idle, Ensure, TaskState, Places
  <2>4. strayed' \in BOOLEAN
    BY <2>1 DEF SessionInv, StateOK, Quiet
  <2>5. /\ hint' \in [wallet : Wallets, account : Accounts]
        /\ hint'.account = a
        /\ SignerIsShown'
    BY <2>1, RecordedTogether
  <2> HIDE DEF call
  <2> QED
    BY <2>2, <2>3, <2>4, <2>5, <1>1, BeginningKeepsInv
<1> QED
  BY <1>2, <1>3

-----------------------------------------------------------------------------
LEMMA NextKeepsInv == SessionInv /\ [Next]_vars => SessionInv'
<1> SUFFICES ASSUME SessionInv, [Next]_vars PROVE SessionInv'
  OBVIOUS
<1>1. CASE UNCHANGED vars
  BY <1>1, StutterKeepsInv DEF vars, recorded
<1>2. ASSUME NEW p \in {"auth", "app"}, Reload(p) \/ Navigate(p) PROVE SessionInv'
  BY <1>2, ReloadKeepsInv, StutterKeepsInv DEF Navigate
<1>3. CASE RestoreTimeout
  BY <1>3, StutterKeepsInv DEF RestoreTimeout
<1>4. ASSUME NEW t \in Tasks,
             \/ Answered(t) \/ Refused(t) \/ Attach(t) \/ SignOut(t)
             \/ Sign(t) \/ Verified(t) \/ Reread(t) \/ LoginThrows(t)
             \/ SignInWithWallet(t) \/ SignInFails(t)
      PROVE  SessionInv'
  BY <1>4, AnsweredKeepsInv, EndingsKeepInv, AttachKeepsInv, SignKeepsInv, VerifiedKeepsInv,
    ThrowKeepsInv, SignInKeepsInv
<1> QED
  BY <1>1, <1>2, <1>3, <1>4, ProbeKeepsInv, ConnectKeepsInv, DisconnectKeepsInv, SwitchKeepsInv
    DEF Next

(* With nothing under way, nothing is left to be decided.                  *)
LEMMA InvSettles == SessionInv => SessionFollows
BY IdleIsIdle DEF SessionInv, SessionIsDecided, SessionFollows, Quiet, Deciding

(* Whatever restores, clicks, switches and failed logins overlap, a        *)
(* signature is asked of the wallet the page shows: WalletProvider writes  *)
(* its three records of the wallet with no await between them.             *)
THEOREM SignerStaysShown == Spec => []SignerIsShown
<1>1. SessionInv => SignerIsShown
  BY DEF SessionInv
<1> QED
  BY InitEstablishesInv, NextKeepsInv, <1>1, PTL DEF Spec

(* A load asks no wallet for its address but those that answer silently.   *)
THEOREM LoadsStayQuiet == Spec => []LoadIsQuiet
<1>1. SessionInv => LoadIsQuiet
  BY DEF SessionInv
<1> QED
  BY InitEstablishesInv, NextKeepsInv, <1>1, PTL DEF Spec

(* Once every call has ended, the session is that of the wallet the tab    *)
(* recorded last, unless calls that overlapped, were cut off or failed     *)
(* have left it astray.                                                    *)
THEOREM SessionStaysWithWallet == Spec => []SessionFollows
BY InitEstablishesInv, NextKeepsInv, InvSettles, PTL DEF Spec
=============================================================================
