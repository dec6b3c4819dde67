--------------------------- MODULE ApprovalQuorum ---------------------------
(***************************************************************************)
(* What the approval queue of the frontend promises, without tabs, tables  *)
(* or a network: signers approve requests, approvals are never withdrawn,  *)
(* and a request reaches the ledger only with a quorum of distinct         *)
(* approvals.  Multisig refines this specification.                        *)
(***************************************************************************)
CONSTANTS
  Request,    \* the requests that can be queued
  Signer,     \* the keys of the source account
  Enough(_)   \* Enough(S): the signers in S are a quorum

VARIABLES
  approvals,  \* approvals[r]: the signers who approved request r
  landed      \* the requests whose transaction is on the ledger

vars == <<approvals, landed>>

Init ==
  /\ approvals = [r \in Request |-> {}]
  /\ landed = {}

Approve(r, s) ==
  /\ approvals' = [approvals EXCEPT ![r] = @ \union {s}]
  /\ UNCHANGED landed

Land(r) ==
  /\ r \notin landed
  /\ Enough(approvals[r])
  /\ landed' = landed \union {r}
  /\ UNCHANGED approvals

Next == \E r \in Request : Land(r) \/ \E s \in Signer : Approve(r, s)

Spec == Init /\ [][Next]_vars
=============================================================================
