------------------------------ MODULE SwrCache ------------------------------
(***************************************************************************)
(* The SDK's offline cache (sdk/src/cache.ts): stale-while-revalidate      *)
(* reads, invalidation after a mutation, a tracked total size and eviction *)
(* of the least recently used entries.  A call runs in several IndexedDB   *)
(* transactions, each of them atomic; those of other calls come between.   *)
(***************************************************************************)
EXTENDS Naturals, Sequences, SequencesExt, FiniteSetsExt

CONSTANTS
  Key,
  Call,        \* the calls that may be in progress at a time
  PrefixKeys,  \* what mutations invalidate: the sets of keys under a prefix
  Size(_),     \* the size of an entry, from the version of its data
  MaxSize,     \* MAX_CACHE_SIZE_BYTES
  MaxVersion   \* bound on the mutations of a key

ASSUME CacheAssumption ==
  /\ PrefixKeys \subseteq SUBSET Key
  /\ MaxSize \in Nat /\ MaxVersion \in Nat
  /\ \A v \in 0..MaxVersion : Size(v) \in Nat \ {0}

VARIABLES
  chain,       \* the version of what a fetch of each key answers
  store,       \* the cached version of each key, or None
  used,        \* the cached keys, least recently accessed first
  totalBytes,  \* the meta record
  call,        \* where each call is
  dropping,    \* prefixes whose invalidation is on its way
  dropped,     \* history: the version of each key last invalidated
  cleared,     \* the wallet is disconnected and clearCache has run
  overdue      \* history: an eviction has failed and none has run since

vars == <<chain, store, used, totalBytes, call, dropping, dropped, cleared, overdue>>

None == [cached |-> FALSE]
Cached(v) == [cached |-> TRUE, data |-> v]
Idle == [pc |-> "idle"]

Keys == {k \in Key : store[k].cached}
Bytes(k) == IF store[k].cached THEN Size(store[k].data) ELSE 0

Init ==
  /\ chain = [k \in Key |-> 0]
  /\ store = [k \in Key |-> None]
  /\ used = <<>>
  /\ totalBytes = 0
  /\ call = [c \in Call |-> Idle]
  /\ dropping = {}
  /\ dropped = [k \in Key |-> 0]
  /\ cleared = FALSE
  /\ overdue = FALSE

Elsewhere == UNCHANGED <<chain, dropping, dropped, cleared>>

(* Mutant: an entry is indexed anew and keeps its old place as well.       *)
TouchAgain(k) == Append(used, k)

Touch(k) == Append(SelectSeq(used, LAMBDA other : other # k), k)
Without(K) == SelectSeq(used, LAMBDA k : k \notin K)
Minus(a, b) == IF a > b THEN a - b ELSE 0

(* staleWhileRevalidate reads and touches the entry, then starts a fetch.  *)
Read(c, k) ==
  /\ call[c] = Idle
  /\ ~cleared
  /\ used' = IF store[k].cached THEN Touch(k) ELSE used
  /\ call' = [call EXCEPT ![c] = [pc |-> "fetch", key |-> k]]
  /\ UNCHANGED <<store, totalBytes, overdue>> /\ Elsewhere

FetchAnswers(c) ==
  /\ call[c].pc = "fetch"
  /\ call' = [call EXCEPT ![c] = [pc |-> "set", key |-> call[c].key,
                                  data |-> chain[call[c].key]]]
  /\ UNCHANGED <<store, used, totalBytes, overdue>> /\ Elsewhere

(* A fetch that rejects, or a transaction that aborts: nothing is written. *)
Fails(c) ==
  /\ call[c].pc \in {"fetch", "set", "evict"}
  /\ call' = [call EXCEPT ![c] = Idle]
  /\ overdue' = (overdue \/ call[c].pc = "evict")
  /\ UNCHANGED <<store, used, totalBytes>> /\ Elsewhere

(* Mutant: the size of the entry it replaces is not taken off.             *)
SetCachedAdds(c) ==
  LET k == call[c].key
      v == call[c].data
      total == totalBytes + Size(v)
  IN
  /\ call[c].pc = "set"
  /\ store' = [store EXCEPT ![k] = Cached(v)]
  /\ used' = Touch(k)
  /\ totalBytes' = total
  /\ call' = [call EXCEPT ![c] = IF total > MaxSize THEN [pc |-> "evict"] ELSE Idle]
  /\ UNCHANGED overdue
  /\ Elsewhere

(* setCached: the entry and the total in one transaction.                  *)
SetCached(c) ==
  LET k == call[c].key
      v == call[c].data
      total == Minus(totalBytes, Bytes(k)) + Size(v)
  IN
  /\ call[c].pc = "set"
  /\ store' = [store EXCEPT ![k] = Cached(v)]
  /\ used' = Touch(k)
  /\ totalBytes' = total
  /\ call' = [call EXCEPT ![c] = IF total > MaxSize THEN [pc |-> "evict"] ELSE Idle]
  /\ UNCHANGED overdue
  /\ Elsewhere

(* evictLru walks the lastAccessed index until the total is in budget.     *)
Oldest(n) == {used[i] : i \in 1..n}
BytesOf(K) == MapThenSumSet(Bytes, K)

(* Mutant: one entry is evicted, whatever its size.                        *)
VictimsOne == IF used = <<>> THEN 0 ELSE 1

(* Mutant: the walk stops one entry after the rest fits.                   *)
VictimsOneMore ==
  CHOOSE n \in 0..Len(used) :
    /\ totalBytes < MaxSize + BytesOf(Oldest(n)) \/ n = Len(used)
    /\ \A m \in 0..n - 1 : totalBytes >= MaxSize + BytesOf(Oldest(m))

Victims ==
  CHOOSE n \in 0..Len(used) :
    /\ totalBytes <= MaxSize + BytesOf(Oldest(n)) \/ n = Len(used)
    /\ \A m \in 0..n - 1 : totalBytes > MaxSize + BytesOf(Oldest(m))

EvictLru(c) ==
  LET out == Oldest(Victims) IN
  /\ call[c].pc = "evict"
  /\ store' = [k \in Key |-> IF k \in out THEN None ELSE store[k]]
  /\ used' = Without(out)
  /\ totalBytes' = Minus(totalBytes, BytesOf(out))
  /\ call' = [call EXCEPT ![c] = Idle]
  /\ overdue' = FALSE
  /\ Elsewhere

(* A confirmed mutation starts the invalidation of its prefix; not awaited. *)
Mutate(K) ==
  /\ ~cleared
  /\ \A k \in K : chain[k] < MaxVersion
  /\ chain' = [k \in Key |-> IF k \in K THEN chain[k] + 1 ELSE chain[k]]
  /\ dropping' = dropping \union {K}
  /\ UNCHANGED <<store, used, totalBytes, call, dropped, cleared, overdue>>

Invalidate(K) ==
  /\ K \in dropping
  /\ dropping' = dropping \ {K}
  /\ dropped' = [k \in Key |-> IF k \in K THEN chain[k] ELSE dropped[k]]
  /\ store' = [k \in Key |-> IF k \in K THEN None ELSE store[k]]
  /\ used' = Without(K)
  /\ totalBytes' = Minus(totalBytes, BytesOf(K))
  /\ UNCHANGED <<chain, call, cleared, overdue>>

ClearCache ==
  /\ ~cleared
  /\ cleared' = TRUE
  /\ store' = [k \in Key |-> None]
  /\ used' = <<>>
  /\ totalBytes' = 0
  /\ UNCHANGED <<chain, call, dropping, dropped, overdue>>

CallStep(c) ==
  \/ \E k \in Key : Read(c, k)
  \/ FetchAnswers(c) \/ Fails(c) \/ SetCached(c) \/ EvictLru(c)

Next ==
  \/ \E c \in Call : CallStep(c)
  \/ \E K \in PrefixKeys : Mutate(K) \/ Invalidate(K)
  \/ ClearCache

Spec == Init /\ [][Next]_vars

-----------------------------------------------------------------------------
(* Properties                                                              *)

(* The index of the store and the store itself have the same keys, once.   *)
TypeOK ==
  /\ chain \in [Key -> 0..MaxVersion] /\ dropped \in [Key -> 0..MaxVersion]
  /\ store \in [Key -> {None} \union {Cached(v) : v \in 0..MaxVersion}]
  /\ ToSet(used) = Keys /\ Len(used) = Cardinality(Keys)
  /\ dropping \subseteq PrefixKeys
  /\ \A c \in Call : call[c].pc \in {"idle", "fetch", "set", "evict"}

(* The running total, kept by read-modify-write in five places, is what a  *)
(* full scan would find.                                                   *)
SizeIsTracked == totalBytes = BytesOf(Keys)

(* "a caller that awaits setCached is guaranteed the store is back under   *)
(* budget": it is over budget only while a call is about to evict, or      *)
(* after an eviction that failed, which is swallowed.                      *)
WithinBudget ==
  totalBytes > MaxSize => overdue \/ \E c \in Call : call[c].pc = "evict"

(* Both: the budget is kept by a total that can be trusted.                *)
BudgetIsKept == SizeIsTracked /\ WithinBudget

(* An eviction removes the least recently accessed entries, whoever read   *)
(* them since the call that evicts wrote its own, and none too many.       *)
EvictsOldestFirst ==
  [][\A c \in Call :
       call[c].pc = "evict" /\ call'[c] = Idle /\ used' # used =>
         \E n \in 1..Len(used) :
           /\ used' = SubSeq(used, n + 1, Len(used))
           /\ totalBytes' + Bytes(used[n]) > MaxSize]_vars

(* "invalidation just makes sure a subsequent cached read doesn't serve    *)
(* stale data": no entry is older than the last invalidation of its key.   *)
NothingInvalidatedComesBack ==
  \A k \in Keys : store[k].data >= dropped[k]
=============================================================================
