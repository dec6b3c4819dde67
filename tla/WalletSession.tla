---------------------------- MODULE WalletSession ----------------------------
(***************************************************************************)
(* The wallet a browser tab is connected to, and the backend session that  *)
(* should go with it: apps/frontend/src/components/auth/WalletProvider.tsx *)
(* with the login page, the wallet button, lib/walletkit.ts,               *)
(* lib/last-wallet.ts and lib/sep10.ts.                                    *)
(*                                                                         *)
(* The wallet is recorded in three places: the state the pages render      *)
(* (`shown`), the id that signatures go to (`active`) and the hint in the  *)
(* browser's storage (`hint`).  A restore, a click in the dialog, a switch *)
(* of the account in the extension and a disconnect all write them, each   *)
(* after requests to the wallet or the server that can end in any order.   *)
(***************************************************************************)
EXTENDS Naturals, FiniteSets

CONSTANTS
  Wallets, Accounts,
  Silent,      \* the wallets that answer without a window of their own
  Backends,    \* subset of {"authjs", "supabase"}
  Tasks,       \* calls that can be under way at once (bound)
  MaxEvents    \* clicks, loads, switches and failures in a behaviour (bound)

VARIABLES
  backend,
  wallet,      \* the account each wallet has selected
  page,        \* "auth" (sign-in pages) or "app"
  load,        \* "probing" | "restoring" | "done": what the spinner waits for
  shown, active, hint,
  session,     \* account of the session's profile, NoOne, or Unlinked
  task,
  connecting,
  touched,     \* wallets asked for their address since the load, without a click
  strayed,     \* the session may belong to another account, see below
  events

NoOne == "no one"
Unlinked == "no wallet"   \* an anonymous session whose profile names no wallet
None == [wallet |-> NoOne, account |-> NoOne]
At(w, a) == [wallet |-> w, account |-> a]
Idle == [at |-> "idle", wallet |-> NoOne, account |-> NoOne, by |-> NoOne, alone |-> TRUE]

recorded == <<shown, active, hint>>
vars == <<backend, wallet, page, load, shown, active, hint, session, task, connecting,
          touched, strayed, events>>

TypeOK ==
  /\ backend \in Backends
  /\ wallet \in [Wallets -> Accounts]
  /\ page \in {"auth", "app"} /\ load \in {"probing", "restoring", "done"}
  /\ shown \in {None} \union [wallet : Wallets, account : Accounts]
  /\ active \in Wallets \union {NoOne}
  /\ hint \in {None} \union [wallet : Wallets, account : Accounts]
  /\ session \in Accounts \union {NoOne, Unlinked}
  /\ \A t \in Tasks : DOMAIN task[t] = DOMAIN Idle
  /\ connecting \in BOOLEAN /\ strayed \in BOOLEAN
  /\ touched \subseteq Wallets /\ events \in 0..MaxEvents

Init ==
  /\ backend \in Backends /\ wallet \in [Wallets -> Accounts]
  /\ page \in {"auth", "app"} /\ load = "probing"
  /\ shown = None /\ active = NoOne /\ hint = None /\ session = NoOne
  /\ task = [t \in Tasks |-> Idle] /\ connecting = FALSE
  /\ touched = {} /\ strayed = FALSE /\ events = 0

Event == events < MaxEvents /\ events' = events + 1

(* The tasks on their way to a session, or to the end of one. *)
LoggingIn == {"sign", "verify", "reread", "user", "anonymous", "link"}
Busy(places) == \E t \in Tasks : task[t].at \in places
Quiet == \A t \in Tasks : task[t] = Idle
Goes(t, place) == task' = [task EXCEPT ![t].at = place]
Ends(t) == task' = [task EXCEPT ![t] = Idle]


(* `alone` tells whether anything else went on while the task ran.         *)
Begins(t, call) ==
  /\ task[t] = Idle
  /\ task' = [u \in Tasks |->
                IF u = t THEN [call EXCEPT !.alone = Quiet]
                ELSE IF task[u] = Idle THEN Idle ELSE [task[u] EXCEPT !.alone = FALSE]]

(* Where a session is asked for without a word of the user's.              *)
Ensure == IF backend = "authjs" THEN "sign" ELSE "user"

-----------------------------------------------------------------------------
(* The page is loaded: what was in memory is gone, storage and cookie stay.*)
Reload(p) ==
  /\ Event
  /\ page' = p /\ load' = "probing"
  /\ shown' = None /\ active' = NoOne /\ connecting' = FALSE /\ touched' = {}
  /\ task' = [t \in Tasks |-> Idle]
  /\ strayed' = (strayed \/ Busy(LoggingIn \union {"sign out"}))
  /\ UNCHANGED <<backend, wallet, hint, session>>

Navigate(p) ==
  /\ Event /\ p # page /\ page' = p
  /\ UNCHANGED <<backend, wallet, load, recorded, session, task, connecting, touched, strayed>>

(* Mutant: the last wallet is restored whichever it is. *)
AnyRestorable(found) == found

(* Which wallets are there; the last one is restored if it can be silently.*)
Restorable(found) == found \intersect Silent

ProbeWallets(found) ==
  /\ load = "probing"
  /\ IF page = "auth" \/ hint.wallet \notin Restorable(found)
     THEN load' = "done" /\ UNCHANGED <<task, touched>>
     ELSE \E t \in Tasks :
            /\ Begins(t, [Idle EXCEPT !.at = "address", !.wallet = hint.wallet, !.by = "load"])
            /\ load' = "restoring" /\ touched' = touched \union {hint.wallet}
  /\ UNCHANGED <<backend, wallet, page, recorded, session, connecting, strayed, events>>

(* The page no longer waits; the restore goes on all the same.             *)
RestoreTimeout ==
  /\ load = "restoring" /\ Event /\ load' = "done"
  /\ UNCHANGED <<backend, wallet, page, recorded, session, task, connecting, touched, strayed>>

(* A click in the dialog, which shows while no wallet is connected.        *)
Connect(w, by) ==
  /\ Event
  /\ shown = None /\ load = "done" /\ ~connecting
  /\ by = "login page" => page = "auth"
  /\ connecting' = TRUE
  /\ \E t \in Tasks :
       Begins(t, [Idle EXCEPT !.at = "address", !.wallet = w, !.by = by])
  /\ UNCHANGED <<backend, wallet, page, load, recorded, session, touched, strayed>>

(* fetchAddress answers; the probe of the network is still to come.        *)
Answered(t) ==
  /\ task[t].at = "address" /\ task[t].account = NoOne
  /\ task' = [task EXCEPT ![t].account = wallet[task[t].wallet]]
  /\ UNCHANGED <<backend, wallet, page, load, recorded, session, connecting, touched, strayed, events>>

Refused(t) ==
  /\ task[t].at = "address" /\ task[t].account = NoOne /\ Event
  /\ Ends(t)
  /\ load' = IF task[t].by = "load" THEN "done" ELSE load
  /\ connecting' = IF task[t].by = "load" THEN connecting ELSE FALSE
  /\ UNCHANGED <<backend, wallet, page, recorded, session, touched, strayed>>

(* setActiveWallet, persistLastWallet and setState, with no await between. *)
Record(w, a) ==
  /\ active' = w
  /\ hint' = At(w, a)
  /\ shown' = At(w, a)

AfterRestore == IF backend = "authjs" THEN "idle" ELSE "user"

(* Mutant: whoever has a session already needs no login. *)
ConnectIfNone(by) ==
  IF session # NoOne THEN "idle" ELSE IF page # "auth" THEN Ensure ELSE IF by = "login page" THEN "sign" ELSE "idle"

AfterConnect(by) ==
  IF page # "auth" THEN Ensure ELSE IF by = "login page" THEN "sign" ELSE "idle"

(* Another account than before is taken on without asking for a session.   *)
Unasked(me) ==
  /\ me.account # hint.account
  /\ IF me.by = "load" THEN backend = "authjs" ELSE page = "auth" /\ me.by = "button"

Attach(t) ==
  LET me == task[t]
      next == IF me.by = "load" THEN AfterRestore ELSE AfterConnect(me.by)
  IN /\ me.at = "address" /\ me.account # NoOne
     /\ Record(me.wallet, me.account)
     /\ connecting' = FALSE
     /\ load' = IF me.by = "load" /\ next = "idle" THEN "done" ELSE load
     /\ IF next = "idle" THEN Ends(t) ELSE Goes(t, next)
     /\ strayed' = (strayed \/ ~me.alone \/ Unasked(me))
     /\ UNCHANGED <<backend, wallet, page, session, touched, events>>

-----------------------------------------------------------------------------
(* Mutant: a disconnect leaves the signer in place. *)
ForgetShown == shown' = None /\ hint' = None /\ connecting' = FALSE /\ UNCHANGED active

(* Disconnect: all three records at once, the session by a request.        *)
Forget ==
  /\ active' = NoOne
  /\ shown' = None
  /\ hint' = None
  /\ connecting' = FALSE

SigningOut == [Idle EXCEPT !.at = "sign out"]

Disconnect ==
  /\ Event /\ shown # None
  /\ Forget
  /\ \E t \in Tasks : Begins(t, SigningOut)
  /\ strayed' = (strayed \/ ~Quiet)
  /\ UNCHANGED <<backend, wallet, page, load, session, touched>>

SignOut(t) ==
  /\ task[t].at = "sign out" /\ Ends(t)
  /\ \/ session' = NoOne /\ strayed' = ~task[t].alone /\ UNCHANGED events
     \/ Event /\ strayed' = TRUE /\ UNCHANGED session
  /\ UNCHANGED <<backend, wallet, page, load, recorded, connecting, touched>>

(* Another account is selected in the wallet: of the connected one the     *)
(* page hears, and asks for a session of the new account.                  *)
SwitchAccount(w, a) ==
  /\ Event /\ wallet[w] # a /\ wallet' = [wallet EXCEPT ![w] = a]
  /\ IF w # shown.wallet \/ a = shown.account
     THEN UNCHANGED <<recorded, task, strayed>>
     ELSE /\ Record(shown.wallet, a)
          /\ strayed' = (strayed \/ ~Quiet)
          /\ \E t \in Tasks :
               Begins(t, [Idle EXCEPT !.at = Ensure, !.account = a, !.by = "wallet"])
  /\ UNCHANGED <<backend, page, load, session, connecting, touched>>

-----------------------------------------------------------------------------
(* loginWithSep10: the challenge names the task's account; whichever       *)
(* wallet is active by then signs it with the account it has selected.     *)
Sign(t) ==
  /\ task[t].at = "sign" /\ active # NoOne
  /\ task' = [task EXCEPT ![t].at = "verify", ![t].wallet = wallet[active]]
  /\ UNCHANGED <<backend, wallet, page, load, recorded, session, connecting, touched, strayed, events>>

Verified(t) ==
  /\ task[t].at = "verify" /\ task[t].wallet = task[t].account
  /\ session' = task[t].account
  /\ strayed' = ~task[t].alone
  /\ IF backend = "authjs" THEN Goes(t, "reread") ELSE Ends(t)
  /\ UNCHANGED <<backend, wallet, page, load, recorded, connecting, touched, events>>

Reread(t) ==
  /\ task[t].at = "reread" /\ session # NoOne /\ Ends(t)
  /\ UNCHANGED <<backend, wallet, page, load, recorded, session, connecting, touched, strayed, events>>

(* The reasons a login throws: declined, no wallet, another account's      *)
(* signature, a failed request, no session afterwards.                     *)
MustThrow(t) ==
  \/ task[t].at = "sign" /\ active = NoOne
  \/ task[t].at = "verify" /\ task[t].wallet # task[t].account
  \/ task[t].at = "reread" /\ session = NoOne

(* The login page drops the connection, the provider takes no notice.      *)
LoginThrows(t) ==
  /\ task[t].at \in {"sign", "verify", "reread"}
  /\ IF MustThrow(t) THEN UNCHANGED events ELSE Event
  /\ IF task[t].by = "login page"
     THEN Forget /\ task' = [task EXCEPT ![t] = SigningOut]
     ELSE Ends(t) /\ UNCHANGED <<recorded, connecting>>
  /\ strayed' = TRUE
  /\ UNCHANGED <<backend, wallet, page, load, session, touched>>

(* signInWithWallet, without a proof: the session there is, or an          *)
(* anonymous one, is linked to the address.                                *)
SignInWithWallet(t) ==
  /\ \/ /\ task[t].at = "user"
        /\ Goes(t, IF session = NoOne THEN "anonymous" ELSE "link")
        /\ UNCHANGED <<session, strayed>>
     \/ task[t].at = "anonymous" /\ session' = Unlinked /\ Goes(t, "link") /\ UNCHANGED strayed
     \/ /\ task[t].at = "link" /\ Ends(t)
        /\ session' = IF session = NoOne THEN NoOne ELSE task[t].account
        /\ strayed' = ~task[t].alone
  /\ load' = IF task[t].at = "link" /\ task[t].by = "load" THEN "done" ELSE load
  /\ UNCHANGED <<backend, wallet, page, recorded, connecting, touched, events>>

SignInFails(t) ==
  /\ task[t].at \in {"user", "anonymous", "link"} /\ Event
  /\ Ends(t) /\ strayed' = TRUE
  /\ load' = IF task[t].by = "load" THEN "done" ELSE load
  /\ UNCHANGED <<backend, wallet, page, recorded, session, connecting, touched>>

Next ==
  \/ \E p \in {"auth", "app"} : Reload(p) \/ Navigate(p)
  \/ \E found \in SUBSET Wallets : ProbeWallets(found)
  \/ RestoreTimeout
  \/ \E w \in Wallets, by \in {"button", "login page"} : Connect(w, by)
  \/ Disconnect
  \/ \E w \in Wallets, a \in Accounts : SwitchAccount(w, a)
  \/ \E t \in Tasks :
       \/ Answered(t) \/ Refused(t) \/ Attach(t) \/ SignOut(t)
       \/ Sign(t) \/ Verified(t) \/ Reread(t) \/ LoginThrows(t)
       \/ SignInWithWallet(t) \/ SignInFails(t)

Spec == Init /\ [][Next]_vars

-----------------------------------------------------------------------------
(* Whatever restores, clicks, switches and failed logins overlap, a        *)
(* signature is asked of the wallet the page shows, and the next load will *)
(* look for that one.                                                      *)
SignerIsShown ==
  /\ active = shown.wallet
  /\ shown # None => hint = shown

(* A load opens no window of a wallet: only wallets that answer silently   *)
(* are asked without a click.                                              *)
LoadIsQuiet == touched \subseteq Silent

(* With nothing under way the session is that of the wallet the tab last   *)
(* recorded, and there is none after a disconnect.  `strayed` excepts what *)
(* the code leaves open until a login runs through on its own: calls that  *)
(* overlapped or were cut off by a load, a login that failed or was not    *)
(* asked for, a sign-out that failed.                                      *)
SessionFollows ==
  (~strayed /\ Quiet) => session \in {NoOne, hint.account}
=============================================================================
