------------------------------- MODULE Preview -------------------------------
(***************************************************************************)
(* The confirmation dialog that simulates a call before it is made         *)
(* (components/common/SimulateConfirm.tsx) and the 5-second cache of       *)
(* lib/simulate.ts it reads through.  The wallet may change and the dialog *)
(* may be closed and opened again while a simulation is under way.         *)
(***************************************************************************)
EXTENDS Naturals

CONSTANTS Wallets,
          CacheTtl,      \* CACHE_TTL_MS
          MaxTime, MaxOpens, MaxFaults   \* bounds

Nothing == [success |-> FALSE, wallet |-> "none"]

VARIABLES now,
          wallet,     \* the connected wallet, part of onSimulate's identity
          fits,       \* wallets for which the call would succeed on chain
          cache,      \* [key -> [result, at]]
          open,       \* the dialog is open
          flights,    \* simulateContractCall runs: [id, wallet, live, pc]
          shown,      \* simResult, or Nothing
          loading, submitting,
          confirmed,  \* history: [by, shown] of every confirmation
          opens, faults

vars == <<now, wallet, fits, cache, open, flights, shown, loading, submitting, confirmed, opens, faults>>

Init == /\ now = 0 /\ wallet \in Wallets /\ fits \in SUBSET Wallets /\ cache = << >>
        /\ open = FALSE /\ flights = {} /\ shown = Nothing
        /\ loading = FALSE /\ submitting = FALSE /\ confirmed = {} /\ opens = 0 /\ faults = 0

-----------------------------------------------------------------------------
\* cacheKey: the call and the wallet it is simulated from.
KeyOfSource(w) == w
\* Mutant: the key leaves the wallet out, as it once did.
KeyOfCall(w) == "the call"
CacheKey(w) == KeyOfSource(w)

Hit(w) == CacheKey(w) \in DOMAIN cache /\ now - cache[CacheKey(w)].at <= CacheTtl

\* The runs after the effect's cleanup: whatever is under way is cancelled.
Cancelled(fs) == {[f EXCEPT !.live = FALSE] : f \in fs}
\* Mutant: the effect has no cleanup.
KeptLive(fs) == fs
AfterCleanup(fs) == Cancelled(fs)

\* The effect with the dialog open: the state is cleared and a run is started.
Started(w) == /\ flights' = AfterCleanup(flights)
                            \cup {[id |-> opens, wallet |-> w, live |-> TRUE, pc |-> "start"]}
              /\ shown' = Nothing /\ loading' = TRUE

Open == /\ ~open /\ opens < MaxOpens /\ open' = TRUE /\ opens' = opens + 1
        /\ Started(wallet)
        /\ UNCHANGED <<now, wallet, fits, cache, submitting, confirmed, faults>>

\* Closing clears the result; the spinner of a run under way is left on.
Close == /\ open /\ ~submitting /\ open' = FALSE
         /\ flights' = AfterCleanup(flights) /\ shown' = Nothing
         /\ UNCHANGED <<now, wallet, fits, cache, loading, submitting, confirmed, opens, faults>>

\* Another wallet: onSimulate is another function, and the effect runs again.
SwitchWallet(w) ==
  /\ w # wallet /\ wallet' = w /\ opens < MaxOpens /\ opens' = opens + 1
  /\ IF open THEN Started(w) ELSE UNCHANGED <<flights, shown, loading>>
  /\ UNCHANGED <<now, fits, cache, open, submitting, confirmed, faults>>

Result(f) == [success |-> f.wallet \in fits, wallet |-> f.wallet]

\* A result reaches the dialog unless the run was cancelled.
Show(f, r) == /\ flights' = flights \ {f}
              /\ IF f.live THEN shown' = r /\ loading' = FALSE ELSE UNCHANGED <<shown, loading>>

\* simulateContractCall: a fresh entry answers at once; otherwise the account
\* (funded by Friendbot when missing) and the simulation are awaited.
Lookup(f) ==
  /\ f \in flights /\ f.pc = "start"
  /\ IF Hit(f.wallet) THEN Show(f, cache[CacheKey(f.wallet)].result)
     ELSE flights' = (flights \ {f}) \cup {[f EXCEPT !.pc = "rpc"]} /\ UNCHANGED <<shown, loading>>
  /\ UNCHANGED <<now, wallet, fits, cache, open, submitting, confirmed, opens, faults>>

\* The answer is parsed and cached, a failing call's too; a rejected promise is not.
Answer(f) ==
  /\ f \in flights /\ f.pc = "rpc"
  /\ \/ /\ Show(f, Result(f))
        /\ cache' = [k \in DOMAIN cache \cup {CacheKey(f.wallet)} |->
             IF k = CacheKey(f.wallet) THEN [result |-> Result(f), at |-> now] ELSE cache[k]]
        /\ UNCHANGED faults
     \/ /\ faults < MaxFaults /\ faults' = faults + 1
        /\ Show(f, Nothing) /\ UNCHANGED cache
  /\ UNCHANGED <<now, wallet, fits, open, submitting, confirmed, opens>>

\* handleConfirm, enabled by a successful result; the dialog closes once the
\* parent's handler is done.
Confirm == /\ open /\ shown.success /\ ~submitting
           /\ submitting' = TRUE
           /\ confirmed' = confirmed \cup {[by |-> wallet, shown |-> shown]}
           /\ UNCHANGED <<now, wallet, fits, cache, open, flights, shown, loading, opens, faults>>

Done == /\ submitting /\ submitting' = FALSE /\ open' = FALSE
        /\ flights' = AfterCleanup(flights) /\ shown' = Nothing
        /\ UNCHANGED <<now, wallet, fits, cache, loading, confirmed, opens, faults>>

ChainChanges(w) == /\ fits' = IF w \in fits THEN fits \ {w} ELSE fits \cup {w}
                   /\ UNCHANGED <<now, wallet, cache, open, flights, shown, loading, submitting, confirmed, opens, faults>>

Tick == /\ now < MaxTime /\ now' = now + 1
        /\ UNCHANGED <<wallet, fits, cache, open, flights, shown, loading, submitting, confirmed, opens, faults>>

Next == \/ Open \/ Close \/ Confirm \/ Done \/ Tick
        \/ \E w \in Wallets : SwitchWallet(w) \/ ChainChanges(w)
        \/ \E f \in flights : Lookup(f) \/ Answer(f)

Spec == Init /\ [][Next]_vars

-----------------------------------------------------------------------------
\* Runs and results are of wallets of the user.
TypeOK == /\ wallet \in Wallets /\ shown.wallet \in Wallets \cup {"none"}
          /\ \A f \in flights : f.wallet \in Wallets

\* What is confirmed was previewed from the very wallet that confirms it, and
\* the preview was a success, whatever was cached or under way before.
ConfirmedWasPreviewed == \A c \in confirmed : c.shown.success /\ c.shown.wallet = c.by

\* Why: a result is shown in the open dialog only, and is the connected wallet's;
\* so are the runs that are not cancelled, and an entry is its key's.
ShownIsOwn ==
  /\ shown # Nothing => open /\ shown.wallet = wallet
  /\ \A f \in flights : f.live => open /\ f.wallet = wallet
  /\ \A k \in DOMAIN cache : cache[k].result.wallet = k

Run == [id : Nat, wallet : Wallets, live : BOOLEAN, pc : {"start", "rpc"}]
StateOK == wallet \in Wallets /\ flights \subseteq Run /\ opens \in Nat

PreviewInv == StateOK /\ ShownIsOwn /\ ConfirmedWasPreviewed
=============================================================================
