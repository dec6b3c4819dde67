----------------------------- MODULE EscrowResolve -----------------------------
(***************************************************************************)
(* After the deployment of a disbursement escrow the page has to learn the *)
(* escrow's id from Trustless Work's read model, which trails the chain.   *)
(* Two loops retry: the SDK's resolveContractId within a request to        *)
(* /api/escrow/resolve, and the page's resolveDisbursementEscrow over      *)
(* requests.  Time is counted in units of 200 ms.                          *)
(***************************************************************************)
EXTENDS Naturals

CONSTANTS
  Lags,                        \* when the read model may come to show the escrow
  Attempts, Base, MaxBackoff,  \* the proxy's budget for one request
  Rounds, RoundBase, RoundMax, \* the page's retries
  Latency,                     \* a lookup takes 0..Latency
  MaxFaults,                   \* requests that fail (bound)
  Within                       \* Within[f]: the lag that f failures leave tolerable

VARIABLES
  now, indexedAt,
  round, attempt,              \* counters of the two loops, from 0 and from 1
  id,                          \* "pending", then "found" or "null"
  faults

vars == <<now, indexedAt, round, attempt, id, faults>>

TypeOK ==
  /\ now \in Nat /\ indexedAt \in Lags
  /\ round \in 0..(Rounds - 1) /\ attempt \in 1..Attempts
  /\ id \in {"pending", "found", "null"} /\ faults \in 0..MaxFaults

(* The deployment has just been submitted.                                 *)
Init ==
  /\ now = 0 /\ indexedAt \in Lags
  /\ round = 0 /\ attempt = 1 /\ id = "pending" /\ faults = 0

-----------------------------------------------------------------------------
(* A wait is the base, +-20% of jitter.                                    *)
Jittered(base) == ((4 * base) \div 5) .. ((6 * base) \div 5)
AtMost(bound, n) == IF n <= bound THEN n ELSE bound

(* Mutant: the wait before the next attempt does not double.               *)
LinearBackoff(n) == Jittered(AtMost(MaxBackoff, Base))
Backoff(n) == Jittered(AtMost(MaxBackoff, Base * 2 ^ (n - 1)))
RoundBackoff(n) == Jittered(AtMost(RoundMax, RoundBase * 2 ^ n))

Indexed == indexedAt <= now
Takes(wait) == \E w \in wait, l \in 0..Latency : now' = now + w + l

Found ==
  /\ id = "pending" /\ Indexed
  /\ id' = "found" /\ UNCHANGED <<now, indexedAt, round, attempt, faults>>

(* Not there yet: the same request looks again ...                         *)
LookAgain ==
  /\ id = "pending" /\ ~Indexed /\ attempt < Attempts
  /\ attempt' = attempt + 1 /\ Takes(Backoff(attempt))
  /\ UNCHANGED <<indexedAt, round, id, faults>>

(* ... until its budget is spent: the page asks once more, or gives up.    *)
RoundFails ==
  IF round + 1 >= Rounds
    THEN id' = "null" /\ UNCHANGED <<now, round, attempt>>
    ELSE /\ round' = round + 1 /\ attempt' = 1 /\ Takes(RoundBackoff(round))
         /\ UNCHANGED id

BudgetSpent ==
  /\ id = "pending" /\ ~Indexed /\ attempt = Attempts
  /\ RoundFails /\ UNCHANGED <<indexedAt, faults>>

(* Any other error ends the request at once, also one whose answer is lost.*)
RequestFails ==
  /\ id = "pending" /\ faults < MaxFaults /\ faults' = faults + 1
  /\ RoundFails /\ UNCHANGED indexedAt

Next == Found \/ LookAgain \/ BudgetSpent \/ RequestFails

Spec == Init /\ [][Next]_vars

-----------------------------------------------------------------------------
(* The page gives up, and leaves a deployed escrow unfunded, only when the *)
(* read model lagged longer than the two loops together promise; a failed  *)
(* request costs no more than its own round.                               *)
LagIsTolerated == id = "null" => indexedAt > Within[faults]
=============================================================================
