----------------------------- MODULE Invocation ------------------------------
(***************************************************************************)
(* A state-changing contract call of the SDK: invokeContract (client.ts)   *)
(* with the simulation cache of simulation.ts.  One account makes the      *)
(* calls; the network includes a transaction while its sequence number is  *)
(* the next one and its time bound has not passed.                         *)
(***************************************************************************)
EXTENDS Naturals, FiniteSets

CONSTANTS Calls, Ops,          \* calls, a retry being another one; what one invokes, arguments included
          TxLife,              \* setTimeout(30)
          Polls,               \* getTransaction attempts, one a second
          CacheTtl,            \* SIMULATION_CACHE_TTL_MS
          MaxTime, MaxFaults   \* bounds

VARIABLES now,        \* seconds
          seq,        \* sequence number of the account
          fits,       \* the operations whose preconditions hold on chain
          pool,       \* transactions the network holds
          status,     \* getTransaction: [tx -> "SUCCESS" or "FAILED"]
          simCache,   \* simulationCache: [key -> [tx, ok, at]]
          call,       \* the calls
          faults

vars == <<now, seq, fits, pool, status, simCache, call, faults>>

NoTx == [seq |-> 0, op |-> "none", until |-> 0]
Idle == [pc |-> "idle", op |-> "none", tx |-> NoTx, own |-> NoTx, polls |-> 0, at |-> 0]

Init == /\ now = 0 /\ seq = 0 /\ fits \in SUBSET Ops /\ pool = {} /\ status = << >>
        /\ simCache = << >> /\ call = [c \in Calls |-> Idle]
        /\ faults = 0

Fault == faults < MaxFaults /\ faults' = faults + 1

-----------------------------------------------------------------------------
\* ensureAccount, getAccount and the builder: the next sequence number, valid TxLife seconds.
Build(c, op) ==
  /\ call[c].pc = "idle"
  /\ LET tx == [seq |-> seq + 1, op |-> op, until |-> now + TxLife]
     IN call' = [call EXCEPT ![c] = [Idle EXCEPT !.pc = "simulate", !.op = op, !.own = tx]]
  /\ UNCHANGED <<now, seq, fits, pool, status, simCache, faults>>

\* txCacheKey: the whole envelope, the sequence number and the time bound included.
EnvelopeKey(tx) == tx
\* Mutant: the key is the operation alone.
OperationKey(tx) == [tx EXCEPT !.seq = 0, !.until = 0]
TxCacheKey(tx) == EnvelopeKey(tx)

\* pruneCache and set: what is older than the lifetime goes, the new result is stored.
SetCached(tx, ok) ==
  LET live == {k \in DOMAIN simCache : now - simCache[k].at <= CacheTtl}
  IN [k \in live \cup {TxCacheKey(tx)} |->
        IF k = TxCacheKey(tx) THEN [tx |-> tx, ok |-> ok, at |-> now] ELSE simCache[k]]

Cached(tx) == TxCacheKey(tx) \in DOMAIN simCache /\ now - simCache[TxCacheKey(tx)].at <= CacheTtl

\* simulateOrThrow: the cached result, or the network's answer; a network
\* failure is reported and not cached.
Simulate(c) ==
  LET tx == call[c].own  hit == simCache[TxCacheKey(tx)]
      after(ok, t) == IF ok THEN [call[c] EXCEPT !.pc = "sign", !.tx = t]
                            ELSE [call[c] EXCEPT !.pc = "failed"] IN
  /\ call[c].pc = "simulate"
  /\ \/ /\ Cached(tx)
        /\ call' = [call EXCEPT ![c] = after(hit.ok, hit.tx)]
        /\ UNCHANGED <<simCache, faults>>
     \/ /\ ~Cached(tx)
        /\ LET ok == tx.op \in fits
           IN /\ call' = [call EXCEPT ![c] = after(ok, tx)]
              /\ simCache' = SetCached(tx, ok)
        /\ UNCHANGED faults
     \/ /\ ~Cached(tx) /\ Fault
        /\ call' = [call EXCEPT ![c] = after(FALSE, tx)]
        /\ UNCHANGED simCache
  /\ UNCHANGED <<now, seq, fits, pool, status>>

\* The wallet signs, or the user declines.
Sign(c, accept) ==
  /\ call[c].pc = "sign"
  /\ call' = [call EXCEPT ![c].pc = IF accept THEN "send" ELSE "failed"]
  /\ UNCHANGED <<now, seq, fits, pool, status, simCache, faults>>

\* sendTransaction: ERROR for a sequence number or a time bound that is past;
\* a transaction the network holds already is answered with its hash again.
\* When the answer is lost the call throws whether or not the network has it.
Send(c) ==
  LET tx == call[c].tx  accepted == tx.seq = seq + 1 /\ now <= tx.until IN
  /\ call[c].pc = "send"
  /\ pool' \in {pool, IF accepted THEN pool \cup {tx} ELSE pool}
  /\ \/ /\ accepted => tx \in pool'
        /\ call' = [call EXCEPT ![c].pc = IF accepted THEN "poll" ELSE "failed", ![c].at = now]
        /\ UNCHANGED faults
     \/ Fault /\ call' = [call EXCEPT ![c].pc = "lost"]
  /\ UNCHANGED <<now, seq, fits, status, simCache>>

\* What a call makes of an answer when it polled for the n-th time.
Settled(tx, n) == IF tx \in DOMAIN status
                    THEN IF status[tx] = "SUCCESS" THEN "ok" ELSE "refused"
                    ELSE IF n < Polls THEN "poll" ELSE "gave up"
\* Mutant: only FAILED is an error, a transaction that is still unknown is not.
SettledUnlessFailed(tx, n) == IF tx \in DOMAIN status /\ status[tx] = "FAILED" THEN "refused"
                              ELSE IF tx \in DOMAIN status \/ n = Polls THEN "ok" ELSE "poll"
Outcome(tx, n) == Settled(tx, n)

\* getTransaction, once a second; anything but SUCCESS in the end is an error,
\* and so is a request that fails.
Poll(c) ==
  /\ call[c].pc = "poll" /\ (call[c].polls = 0 \/ now > call[c].at)
  /\ \/ /\ call' = [call EXCEPT ![c].pc = Outcome(call[c].tx, call[c].polls),
                                ![c].polls = @ + 1, ![c].at = now]
        /\ UNCHANGED faults
     \/ Fault /\ call' = [call EXCEPT ![c].pc = "lost"]
  /\ UNCHANGED <<now, seq, fits, pool, status, simCache>>

-----------------------------------------------------------------------------
\* The network includes a transaction; it uses up the sequence number even if it fails.
Include(tx) ==
  /\ tx \in pool /\ tx.seq = seq + 1 /\ now <= tx.until
  /\ pool' = pool \ {tx} /\ seq' = seq + 1
  /\ LET result == IF tx.op \in fits THEN "SUCCESS" ELSE "FAILED"
     IN status' = [t \in DOMAIN status \cup {tx} |-> IF t = tx THEN result ELSE status[t]]
  /\ UNCHANGED <<now, fits, simCache, call, faults>>

\* The chain moves on: a balance or a status changes what fits.
ChainChanges(op) ==
  /\ fits' = IF op \in fits THEN fits \ {op} ELSE fits \cup {op}
  /\ UNCHANGED <<now, seq, pool, status, simCache, call, faults>>

Tick == /\ now < MaxTime /\ now' = now + 1
        /\ UNCHANGED <<seq, fits, pool, status, simCache, call, faults>>

Next == \/ Tick
        \/ \E c \in Calls : \/ Simulate(c) \/ Send(c) \/ Poll(c)
                            \/ \E op \in Ops : Build(c, op)
                            \/ \E accept \in BOOLEAN : Sign(c, accept)
        \/ \E tx \in pool : Include(tx)
        \/ \E op \in Ops : ChainChanges(op)

Spec == Init /\ [][Next]_vars

-----------------------------------------------------------------------------
\* Transactions carry sequence numbers of the account and the calls their own.
TypeOK == /\ seq \in 0..Cardinality(DOMAIN status)
          /\ \A tx \in pool \cup DOMAIN status : tx.op \in Ops

\* A call signs the transaction it built, never one that an earlier call built
\* and the cache still holds: its sequence number would be used up.
SignsItsOwn == \A c \in Calls : call[c].pc \in {"sign", "send", "poll"} => call[c].tx = call[c].own

\* What a call reports is what happened.  A success was applied; a refused or
\* failed one was not, unless another call sent the very same transaction.
\* Only a call that gave up waiting, or lost an answer, may see its transaction
\* applied later.
OutcomeIsTrue == \A c \in Calls :
  /\ call[c].pc = "ok" => call[c].tx \in DOMAIN status /\ status[call[c].tx] = "SUCCESS"
  /\ call[c].pc = "refused" => status[call[c].tx] = "FAILED"
  /\ call[c].pc = "failed" /\ call[c].tx \in DOMAIN status
       => \E d \in Calls \ {c} : call[d].tx = call[c].tx

\* Both: a call's transaction is its own, and so is what it reports of it.
CallsAreTheirOwn == SignsItsOwn /\ OutcomeIsTrue

\* Why: an entry of the cache is of its key; what the network holds or has
\* applied was sent by a call that did not call it failed; a transaction is
\* applied once, as its sequence number is used up.
Tx == [seq : Nat, op : Ops \cup {"none"}, until : Nat]
CallState == [pc : {"idle", "simulate", "sign", "send", "poll", "ok", "refused", "gave up",
                    "lost", "failed"},
              op : Ops \cup {"none"}, tx : Tx, own : Tx, polls : Nat, at : Nat]

StateOK ==
  /\ now \in Nat /\ seq \in Nat /\ call \in [Calls -> CallState]
  /\ \A tx \in DOMAIN status : status[tx] \in {"SUCCESS", "FAILED"}

EntriesAreOwn == \A k \in DOMAIN simCache : simCache[k].tx = k

Sent(c) == call[c].pc \in {"poll", "ok", "refused", "gave up", "lost"}
NetworkWasSent ==
  /\ \A tx \in pool \cup DOMAIN status : \E c \in Calls : Sent(c) /\ call[c].tx = tx
  /\ \A tx \in DOMAIN status : tx.seq <= seq

ReportIsTrue(c) ==
  /\ call[c].pc \in {"sign", "send", "poll"} => call[c].tx = call[c].own
  /\ call[c].pc = "ok" => call[c].tx \in DOMAIN status /\ status[call[c].tx] = "SUCCESS"
  /\ call[c].pc = "refused" => call[c].tx \in DOMAIN status /\ status[call[c].tx] = "FAILED"

InvocationInv ==
  StateOK /\ EntriesAreOwn /\ NetworkWasSent /\ \A c \in Calls : ReportIsTrue(c)
=============================================================================
