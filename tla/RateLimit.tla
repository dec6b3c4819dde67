------------------------------ MODULE RateLimit ------------------------------
(***************************************************************************)
(* checkRateLimit (lib/rate-limit.ts): fixed windows per key in a table    *)
(* that holds at most MaxTracked keys; a new key is refused while the      *)
(* table is full of windows that have not ended.                           *)
(***************************************************************************)
EXTENDS Naturals, FiniteSetsExt

CONSTANTS
  Keys,       \* an endpoint and a client address
  Limit,      \* hits per window
  Window,     \* length of a window
  MaxTracked, \* cap on tracked keys
  MaxTime     \* bound on the clock

VARIABLES
  buckets,    \* the table: key -> its count and the end of its window
  now,
  admitted    \* history: how many hits of a key were admitted at a time

vars == <<buckets, now, admitted>>

Init ==
  /\ buckets = <<>> /\ now = 0
  /\ admitted = [k \in Keys, t \in 0..MaxTime |-> 0]

Only(b, keys) == [k \in keys |-> b[k]]

Ended(b, k) == b[k].resetAt <= now

(* Mutants: a window is swept in its last instant; the sweep takes any.    *)
SweptEarly(b) ==
  IF Cardinality(DOMAIN b) >= MaxTracked
  THEN Only(b, {k \in DOMAIN b : b[k].resetAt > now + 1}) ELSE b

(* sweepExpired runs when the table is full.                               *)
Swept(b) ==
  IF Cardinality(DOMAIN b) >= MaxTracked
  THEN Only(b, {k \in DOMAIN b : ~Ended(b, k)}) ELSE b

Active(k) == k \in DOMAIN buckets /\ ~Ended(buckets, k)

(* The table without the ended window of k, swept if it is full.           *)
Room(k) == Swept(Only(buckets, DOMAIN buckets \ {k}))

(* A new window of k beside what is left of the table.                     *)
Started(k) ==
  [j \in DOMAIN Room(k) \union {k} |->
     IF j = k THEN [count |-> 1, resetAt |-> now + Window] ELSE Room(k)[j]]

(* Mutants: the comparison is off by one; the cap is not looked at again.  *)
AdmittedOneMore(k) ==
  \/ /\ Active(k) /\ buckets[k].count <= Limit
     /\ buckets' = [buckets EXCEPT ![k].count = @ + 1]
  \/ /\ ~Active(k) /\ Cardinality(DOMAIN Room(k)) < MaxTracked
     /\ buckets' = Started(k)
AdmittedOverCap(k) ==
  \/ /\ Active(k) /\ buckets[k].count < Limit
     /\ buckets' = [buckets EXCEPT ![k].count = @ + 1]
  \/ /\ ~Active(k)
     /\ buckets' = Started(k)

Admitted(k) ==
  \/ /\ Active(k) /\ buckets[k].count < Limit
     /\ buckets' = [buckets EXCEPT ![k].count = @ + 1]
  \/ /\ ~Active(k) /\ Cardinality(DOMAIN Room(k)) < MaxTracked
     /\ buckets' = Started(k)

Refused(k) ==
  \/ Active(k) /\ buckets[k].count >= Limit /\ UNCHANGED buckets
  \/ /\ ~Active(k) /\ Cardinality(DOMAIN Room(k)) >= MaxTracked
     /\ buckets' = Room(k)

CheckRateLimit(k) ==
  /\ \/ Admitted(k) /\ admitted' = [admitted EXCEPT ![<<k, now>>] = @ + 1]
     \/ Refused(k) /\ UNCHANGED admitted
  /\ UNCHANGED now

Tick ==
  /\ now < MaxTime /\ now' = now + 1
  /\ UNCHANGED <<buckets, admitted>>

Next == Tick \/ \E k \in Keys : CheckRateLimit(k)

Spec == Init /\ [][Next]_vars

-----------------------------------------------------------------------------
(* Properties                                                              *)

TypeOK ==
  /\ DOMAIN buckets \subseteq Keys
  /\ \A k \in DOMAIN buckets :
       buckets[k].count \in Nat \ {0} /\ buckets[k].resetAt <= now + Window
  /\ now \in 0..MaxTime

(* Within any stretch of one window's length, a client is admitted less    *)
(* than twice the limit: a window's hits may crowd at its end and those of *)
(* the next at its beginning, but no bucket is swept, dropped for another  *)
(* key or started over while its window lasts.                             *)
RateIsBounded ==
  \A k \in Keys : \A from \in 0..MaxTime :
    MapThenSumSet(LAMBDA t : admitted[k, t],
                  {t \in from..MaxTime : t < from + Window}) < 2 * Limit

(* "may never hold more than this many active entries", whatever keys come *)
(* while windows end.                                                      *)
CapHolds == Cardinality(DOMAIN buckets) <= MaxTracked

(* "An already-tracked key is never affected by the cap": whatever other   *)
(* keys do, a window is neither dropped nor started over before it ends.   *)
WindowStays(k) ==
  Active(k) /\ now' < buckets[k].resetAt =>
    /\ k \in DOMAIN buckets'
    /\ buckets'[k].resetAt = buckets[k].resetAt
    /\ buckets'[k].count >= buckets[k].count

WindowsLast == [][\A k \in Keys : WindowStays(k)]_vars
=============================================================================
