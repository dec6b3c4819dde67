--------------------------- MODULE RateLimitProofs ----------------------------
(***************************************************************************)
(* Proofs about the rate limiter, for any number of keys: the table stays  *)
(* within its cap, and a full table never costs a tracked key its window.  *)
(***************************************************************************)
EXTENDS RateLimit, FiniteSetTheorems, TLAPS

Numbers == Limit \in Nat /\ Window \in Nat /\ MaxTracked \in Nat /\ MaxTime \in Nat

Bucket == [count : Nat, resetAt : Nat]

(* The table maps finitely many keys to buckets.                           *)
TableOK ==
  /\ now \in Nat
  /\ IsFiniteSet(DOMAIN buckets)
  /\ buckets = [k \in DOMAIN buckets |-> buckets[k]]
  /\ \A k \in DOMAIN buckets : buckets[k] \in Bucket

CapInv == TableOK /\ CapHolds

(* What Room takes away: the window of k, and windows that have ended.     *)
LEMMA RoomKeepsActive ==
  ASSUME Numbers, TableOK, NEW k
  PROVE  /\ DOMAIN Room(k) \subseteq DOMAIN buckets \ {k}
         /\ \A j \in DOMAIN Room(k) : Room(k)[j] = buckets[j]
         /\ \A j \in DOMAIN buckets \ {k} : Active(j) => j \in DOMAIN Room(k)
         /\ Room(k) = [j \in DOMAIN Room(k) |-> Room(k)[j]]
<1> DEFINE rest == Only(buckets, DOMAIN buckets \ {k})
<1>1. DOMAIN rest = DOMAIN buckets \ {k} /\ \A j \in DOMAIN rest : rest[j] = buckets[j]
  BY DEF Only
<1>2. rest = [j \in DOMAIN rest |-> rest[j]]
  BY DEF Only
<1>3. Room(k) = rest \/ Room(k) = Only(rest, {j \in DOMAIN rest : ~Ended(rest, j)})
  BY DEF Room, Swept
<1>4. CASE Room(k) = rest
  BY <1>1, <1>2, <1>4
<1>5. CASE Room(k) = Only(rest, {j \in DOMAIN rest : ~Ended(rest, j)})
  <2>1. /\ DOMAIN Room(k) = {j \in DOMAIN rest : ~Ended(rest, j)}
        /\ \A j \in DOMAIN Room(k) : Room(k)[j] = rest[j]
        /\ Room(k) = [j \in DOMAIN Room(k) |-> Room(k)[j]]
    BY <1>5 DEF Only
  <2>2. \A j \in DOMAIN buckets \ {k} : Active(j) => ~Ended(rest, j)
    BY <1>1 DEF Active, Ended
  <2> QED
    BY <1>1, <2>1, <2>2
<1> QED
  BY <1>3, <1>4, <1>5

(* What a call leaves of the table: all of it, with one hit more of k or   *)
(* not; what Room leaves; or that and a new window of k.                   *)
LEMMA CallOutcome ==
  ASSUME Numbers, TableOK, NEW k \in Keys, CheckRateLimit(k)
  PROVE  \/ buckets' = buckets
         \/ /\ Active(k)
            /\ buckets' = [buckets EXCEPT ![k].count = @ + 1]
         \/ ~Active(k) /\ buckets' = Room(k)
         \/ /\ ~Active(k) /\ Cardinality(DOMAIN Room(k)) < MaxTracked
            /\ DOMAIN buckets' = DOMAIN Room(k) \union {k}
            /\ buckets' = [j \in DOMAIN buckets' |->
                 IF j = k THEN [count |-> 1, resetAt |-> now + Window] ELSE Room(k)[j]]
<1>1. CASE Admitted(k)
  <2>1. k \notin DOMAIN Room(k)
    BY RoomKeepsActive
  <2> QED
    BY <1>1, <2>1 DEF Admitted, Started
<1>2. CASE Refused(k)
  BY <1>2 DEF Refused
<1> QED
  BY <1>1, <1>2 DEF CheckRateLimit

LEMMA CapStep == ASSUME Numbers, CapInv, [Next]_vars PROVE CapInv'
<1>1. ASSUME NEW k \in Keys, CheckRateLimit(k) PROVE CapInv'
  <2>1. now' = now /\ now \in Nat
    BY <1>1 DEF CheckRateLimit, CapInv, TableOK
  <2>2. CASE buckets' = buckets
    BY <2>1, <2>2 DEF CapInv, TableOK, CapHolds, Bucket
  <2>3. CASE Active(k) /\ buckets' = [buckets EXCEPT ![k].count = @ + 1]
    <3>1. buckets[k] \in Bucket /\ k \in DOMAIN buckets
      BY <2>3 DEF Active, CapInv, TableOK
    <3>2. [buckets[k] EXCEPT !.count = @ + 1] \in Bucket
      BY <3>1 DEF Bucket
    <3>3. /\ DOMAIN buckets' = DOMAIN buckets
          /\ buckets'[k] = [buckets[k] EXCEPT !.count = @ + 1]
          /\ \A j \in DOMAIN buckets : j # k => buckets'[j] = buckets[j]
          /\ buckets' = [j \in DOMAIN buckets' |-> buckets'[j]]
      BY <2>3, <3>1 DEF CapInv, TableOK
    <3> QED
      BY <2>1, <3>2, <3>3 DEF CapInv, TableOK, CapHolds
  <2>4. DOMAIN Room(k) \subseteq DOMAIN buckets /\ IsFiniteSet(DOMAIN Room(k))
        /\ \A j \in DOMAIN Room(k) : Room(k)[j] \in Bucket
    BY RoomKeepsActive, FS_Subset DEF CapInv, TableOK
  <2>5. Cardinality(DOMAIN Room(k)) <= MaxTracked /\ Cardinality(DOMAIN Room(k)) \in Nat
    BY <2>4, FS_Subset, FS_CardinalityType DEF CapInv, TableOK, CapHolds, Numbers
  <2>6. CASE buckets' = Room(k)
    BY <2>1, <2>4, <2>5, <2>6, RoomKeepsActive DEF CapInv, TableOK, CapHolds
  <2>7. CASE /\ ~Active(k) /\ Cardinality(DOMAIN Room(k)) < MaxTracked
             /\ DOMAIN buckets' = DOMAIN Room(k) \union {k}
             /\ buckets' = [j \in DOMAIN buckets' |->
                  IF j = k THEN [count |-> 1, resetAt |-> now + Window] ELSE Room(k)[j]]
    <3>1. k \notin DOMAIN Room(k)
      BY RoomKeepsActive DEF CapInv
    <3>2. /\ IsFiniteSet(DOMAIN Room(k) \union {k})
          /\ Cardinality(DOMAIN Room(k) \union {k}) = Cardinality(DOMAIN Room(k)) + 1
      BY <2>4, <3>1, FS_AddElement
    <3>3. [count |-> 1, resetAt |-> now + Window] \in Bucket
      BY <2>1 DEF Bucket, Numbers
    <3>4. CapHolds'
      BY <2>5, <2>7, <3>2 DEF CapHolds, Numbers
    <3>5. \A j \in DOMAIN buckets' : buckets'[j] \in Bucket
      BY <2>4, <2>7, <3>3
    <3>6. buckets' = [j \in DOMAIN buckets' |-> buckets'[j]]
      BY <2>7
    <3> QED
      BY <2>1, <2>7, <3>2, <3>4, <3>5, <3>6 DEF CapInv, TableOK
  <2> QED
    BY <1>1, <2>2, <2>3, <2>6, <2>7, CallOutcome DEF CapInv
<1>2. ASSUME Tick PROVE CapInv'
  BY <1>2 DEF Tick, CapInv, TableOK, CapHolds, Bucket
<1>3. CASE UNCHANGED vars
  BY <1>3 DEF vars, CapInv, TableOK, CapHolds, Bucket
<1> QED
  BY <1>1, <1>2, <1>3 DEF Next

LEMMA CapInit == ASSUME Numbers PROVE Init => CapInv
<1>1. DOMAIN <<>> = {}
  OBVIOUS
<1> QED
  BY <1>1, FS_EmptySet DEF Numbers, Init, CapInv, TableOK, CapHolds

LEMMA CallKeepsWindows ==
  ASSUME Numbers, CapInv, [Next]_vars
  PROVE  [\A k \in Keys : WindowStays(k)]_vars
<1> SUFFICES ASSUME NEW j \in Keys, Active(j), now' < buckets[j].resetAt
             PROVE  /\ j \in DOMAIN buckets'
                    /\ buckets'[j].resetAt = buckets[j].resetAt
                    /\ buckets'[j].count >= buckets[j].count
  BY DEF WindowStays
<1>1. j \in DOMAIN buckets /\ buckets[j] \in Bucket /\ TableOK
  BY DEF Active, CapInv, TableOK
<1>2. buckets[j].count \in Nat
  BY <1>1 DEF Bucket
<1>3. CASE buckets' = buckets
  BY <1>1, <1>2, <1>3
<1>4. ASSUME NEW k \in Keys, CheckRateLimit(k), buckets' # buckets
      PROVE  /\ j \in DOMAIN buckets'
             /\ buckets'[j].resetAt = buckets[j].resetAt
             /\ buckets'[j].count >= buckets[j].count
  <2>1. CASE Active(k) /\ buckets' = [buckets EXCEPT ![k].count = @ + 1]
    <3>1. CASE j = k
      BY <1>1, <1>2, <2>1, <3>1 DEF Bucket, TableOK
    <3>2. CASE j # k
      BY <1>1, <1>2, <2>1, <3>2 DEF TableOK
    <3> QED
      BY <3>1, <3>2
  <2>2. CASE ~Active(k) /\ buckets' = Room(k)
    BY <1>1, <1>2, <2>2, RoomKeepsActive
  <2>3. CASE /\ ~Active(k) /\ Cardinality(DOMAIN Room(k)) < MaxTracked
             /\ DOMAIN buckets' = DOMAIN Room(k) \union {k}
             /\ buckets' = [i \in DOMAIN buckets' |->
                  IF i = k THEN [count |-> 1, resetAt |-> now + Window] ELSE Room(k)[i]]
    BY <1>1, <1>2, <2>3, RoomKeepsActive
  <2> QED
    BY <1>1, <1>4, <2>1, <2>2, <2>3, CallOutcome
<1> QED
  BY <1>3, <1>4 DEF Next, Tick, vars

(* "may never hold more than this many active entries", whatever keys come *)
(* and windows end.                                                        *)
THEOREM TableWithinCap == ASSUME Numbers PROVE Spec => []CapHolds
<1>1. Init => CapInv
  BY CapInit
<1>2. CapInv /\ [Next]_vars => CapInv'
  BY CapStep
<1>3. CapInv => CapHolds
  BY DEF CapInv
<1> QED
  BY <1>1, <1>2, <1>3, PTL DEF Spec

(* "An already-tracked key is never affected by the cap": no call of any   *)
(* key drops a window or starts it over before it ends, or forgets a hit.  *)
THEOREM WindowsAreKept == ASSUME Numbers PROVE Spec => WindowsLast
<1>1. Init => CapInv
  BY CapInit
<1>2. CapInv /\ [Next]_vars => CapInv'
  BY CapStep
<1>3. CapInv /\ [Next]_vars => [\A k \in Keys : WindowStays(k)]_vars
  BY CallKeepsWindows
<1> QED
  BY <1>1, <1>2, <1>3, PTL DEF Spec, WindowsLast
=============================================================================
