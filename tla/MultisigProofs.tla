--------------------------- MODULE MultisigProofs ---------------------------
(***************************************************************************)
(* Proofs about Multisig, for any number of requests, signers and pages.   *)
(***************************************************************************)
EXTENDS Multisig, FiniteSetTheorems, TLAPS

(* More signatures never undo a quorum (approvalProgress counts a set). *)
LEMMA QuorumGrows ==
  ASSUME NEW S \in SUBSET Signer, NEW T \in SUBSET Signer,
         S \subseteq T, ThresholdMet(S)
  PROVE  ThresholdMet(T)
<1>1. IsFiniteSet(S) /\ IsFiniteSet(T)
  BY SignerAssumption, FS_Subset
<1>2. Cardinality(S) \in Nat /\ Cardinality(T) \in Nat /\ Cardinality(S) <= Cardinality(T)
  BY <1>1, FS_Subset, FS_CardinalityType
<1>3. Required \in Nat
  BY RequiredAssumption DEF Required
<1> QED
  BY <1>2, <1>3 DEF ThresholdMet

(* The variables keep their types. *)
THEOREM TypeCorrect == Spec => []TypeOK
<1>1. Init => TypeOK
  BY DEF Init, TypeOK, Idle, NoRows, Row, Status
<1>2. TypeOK /\ [Next]_vars => TypeOK'
  <2> SUFFICES ASSUME TypeOK, [Next]_vars PROVE TypeOK'
    OBVIOUS
  <2> USE DEF TypeOK, Running, Start, Finish, dbVars, chainVars
  <2>1. ASSUME NEW s \in Session, NEW r \in Request, BuildPayment(s, r) PROVE TypeOK'
    BY <2>1 DEF BuildPayment, Op
  <2>2. ASSUME NEW s \in Session, CreatePending(s) PROVE TypeOK'
    <3>1. op[s] \in Op
      BY <2>2 DEF CreatePending, Idle
    <3>2. op[s].req \in Request /\ op[s].seq \in Nat /\ Owner[s] \in Signer
      BY <3>1, OwnerAssumption DEF Op
    <3> QED
      BY <2>2, <3>2 DEF CreatePending, Status
  <2>3. ASSUME NEW s \in Session, FetchPending(s) PROVE TypeOK'
    <3>1. Rows \in [Request -> Row]
      BY DEF Rows, Row
    <3> QED
      BY <2>3, <3>1 DEF FetchPending
  <2>4. ASSUME NEW s \in Session, ExpireStale(s) PROVE TypeOK'
    <3>1. \A r \in Request : poll[s][r] \in Row
      OBVIOUS
    <3>2. \A r \in Request : [poll[s][r] EXCEPT !.status = "Expired"] \in Row
      BY <3>1 DEF Row, Status
    <3>3. status' \in [Request -> Status]
      BY <2>4 DEF ExpireStale, Status
    <3>4. view' \in [Session -> [Request -> Row]]
      BY <2>4, <3>1, <3>2 DEF ExpireStale
    <3>5. poll' \in [Session -> [Request -> Row]]
      BY <2>4 DEF ExpireStale, NoRows, Row, Status
    <3> QED
      BY <2>4, <3>3, <3>4, <3>5 DEF ExpireStale
  <2>5. ASSUME NEW s \in Session, RecordApproval(s) PROVE TypeOK'
    <3>1. op[s] \in Op
      BY <2>5 DEF RecordApproval, Idle
    <3>2. Owner[s] \in Signer
      BY OwnerAssumption
    <3> QED
      BY <2>5, <3>1, <3>2 DEF RecordApproval, Op
  <2>6. ASSUME NEW s \in Session, SubmitConfirmed(s) PROVE TypeOK'
    <3>1. op[s] \in Op
      BY <2>6 DEF SubmitConfirmed, Idle
    <3> QED
      BY <2>6, <3>1 DEF SubmitConfirmed, Op
  <2>7. ASSUME NEW s \in Session, RecordExecuted(s) PROVE TypeOK'
    BY <2>7 DEF RecordExecuted, Status
  <2>8. ASSUME NEW s \in Session, OpFails(s) \/ PollFails(s) PROVE TypeOK'
    <3>1. CASE OpFails(s)
      BY <3>1 DEF OpFails
    <3>2. CASE PollFails(s)
      <4>1. NoRows \in [Request -> Row]
        BY DEF NoRows, Row, Status
      <4> QED
        BY <3>2, <4>1 DEF PollFails
    <3> QED
      BY <2>8, <3>1, <3>2
  <2>9. ASSUME NEW s \in Session, NEW r \in Request, StartApproval(s, r) PROVE TypeOK'
    BY <2>9 DEF StartApproval, Op
  <2>10. ASSUME NEW s \in Session, NEW r \in Request, Submit(s, r) PROVE TypeOK'
    <3>1. view[s][r].approvals \in SUBSET Signer
      BY DEF Row
    <3> QED
      BY <2>10, <3>1 DEF Submit, Op, Envelope
  <2>11. ASSUME NEW s \in Session, NEW r \in Request, RejectPending(s, r) PROVE TypeOK'
    BY <2>11 DEF RejectPending, Status
  <2>12. ASSUME NEW e \in network, LandEnvelope(e) PROVE TypeOK'
    BY <2>12 DEF LandEnvelope, Envelope
  <2>13. ASSUME NEW r \in Request, WindowPasses(r) PROVE TypeOK'
    BY <2>13 DEF WindowPasses
  <2>14. CASE OtherTransaction
    BY <2>14 DEF OtherTransaction
  <2>15. CASE UNCHANGED vars
    BY <2>15 DEF vars
  <2> QED
    BY <2>1, <2>2, <2>3, <2>4, <2>5, <2>6, <2>7, <2>8, <2>9, <2>10, <2>11,
       <2>12, <2>13, <2>14, <2>15 DEF Next, SessionStep, Click
<1> QED
  BY <1>1, <1>2, PTL DEF Spec

-----------------------------------------------------------------------------
(* The quorum argument.  A page adds up approvals on an old copy, so the   *)
(* count itself is not inductive: what is preserved is that every copy is  *)
(* contained in the table, and that the envelope on the wire carries       *)
(* signatures that were in such a copy.                                    *)
QuorumInv ==
  TypeOK /\ CopiesAreSound /\ EnvelopesAreApproved /\ LandedWithQuorum

LEMMA QuorumInvInit == Init => QuorumInv
<1> SUFFICES ASSUME Init PROVE QuorumInv
  OBVIOUS
<1>1. TypeOK
  BY DEF Init, TypeOK, Idle, NoRows, Row, Status
<1>2. CopiesAreSound /\ EnvelopesAreApproved /\ LandedWithQuorum
  BY DEF Init, CopiesAreSound, EnvelopesAreApproved, LandedWithQuorum, NoRows
<1> QED
  BY <1>1, <1>2 DEF QuorumInv

(* Steps that touch neither the approvals nor the copies nor the network.  *)
LEMMA QuorumInvFrame ==
  ASSUME QuorumInv, TypeOK', UNCHANGED <<approvals, view, poll, network, landed>>
  PROVE  QuorumInv'
BY DEF QuorumInv, CopiesAreSound, EnvelopesAreApproved, LandedWithQuorum, ThresholdMet

LEMMA QuorumInvStep == QuorumInv /\ TypeOK' /\ [Next]_vars => QuorumInv'
<1> SUFFICES ASSUME QuorumInv, TypeOK', [Next]_vars PROVE QuorumInv'
  OBVIOUS
<1> USE DEF dbVars, chainVars
<1>1. ASSUME NEW s \in Session, NEW r \in Request,
             BuildPayment(s, r) \/ StartApproval(s, r) \/ RejectPending(s, r)
      PROVE  QuorumInv'
  BY <1>1, QuorumInvFrame DEF BuildPayment, StartApproval, RejectPending
<1>2. ASSUME NEW s \in Session,
             \/ CreatePending(s) \/ SubmitConfirmed(s)
             \/ RecordExecuted(s) \/ OpFails(s)
      PROVE  QuorumInv'
  BY <1>2, QuorumInvFrame DEF CreatePending, SubmitConfirmed, RecordExecuted, OpFails
<1>3. CASE OtherTransaction \/ (\E r \in Request : WindowPasses(r)) \/ UNCHANGED vars
  BY <1>3, QuorumInvFrame DEF OtherTransaction, WindowPasses, vars
<1>4. ASSUME NEW s \in Session, FetchPending(s) \/ PollFails(s) \/ ExpireStale(s)
      PROVE  QuorumInv'
  <2>1. \A r \in Request : /\ Rows[r].approvals = approvals[r]
                           /\ NoRows[r].approvals = {}
    BY DEF Rows, NoRows
  <2>2. \A r \in Request : poll[s][r] \in Row /\ view[s][r] \in Row
    BY DEF QuorumInv, TypeOK
  <2>3. \A r \in Request :
          [poll[s][r] EXCEPT !.status = "Expired"].approvals = poll[s][r].approvals
    BY <2>2 DEF Row
  <2>4. UNCHANGED <<approvals, network, landed>>
    BY <1>4 DEF FetchPending, PollFails, ExpireStale
  <2>5. \A t \in Session, r \in Request :
          poll'[t][r].approvals \subseteq approvals[r]
    <3>1. CASE FetchPending(s)
      BY <3>1, <2>1 DEF FetchPending, QuorumInv, TypeOK, CopiesAreSound
    <3>2. CASE PollFails(s)
      BY <3>2, <2>1 DEF PollFails, QuorumInv, TypeOK, CopiesAreSound
    <3>3. CASE ExpireStale(s)
      BY <3>3, <2>1 DEF ExpireStale, QuorumInv, TypeOK, CopiesAreSound
    <3> QED
      BY <1>4, <3>1, <3>2, <3>3
  <2>6. \A t \in Session, r \in Request :
          view'[t][r].approvals \subseteq approvals[r]
    <3>1. CASE FetchPending(s) \/ PollFails(s)
      BY <3>1 DEF FetchPending, PollFails, QuorumInv, CopiesAreSound
    <3>2. CASE ExpireStale(s)
      BY <3>2, <2>3 DEF ExpireStale, QuorumInv, TypeOK, CopiesAreSound
    <3> QED
      BY <1>4, <3>1, <3>2
  <2> QED
    BY <2>4, <2>5, <2>6
       DEF QuorumInv, CopiesAreSound, EnvelopesAreApproved, LandedWithQuorum, ThresholdMet
<1>5. ASSUME NEW s \in Session, RecordApproval(s) PROVE QuorumInv'
  <2>1. \A r \in Request : /\ approvals[r] \subseteq approvals'[r]
                           /\ approvals[r] \in SUBSET Signer
                           /\ approvals'[r] \in SUBSET Signer
    BY <1>5 DEF RecordApproval, QuorumInv, TypeOK
  <2>2. UNCHANGED <<view, poll, network, landed>>
    BY <1>5 DEF RecordApproval
  <2>3. CopiesAreSound'
    BY <2>1, <2>2 DEF QuorumInv, CopiesAreSound
  <2>4. EnvelopesAreApproved'
    <3>1. \A e \in network : e.req \in Request
      BY DEF QuorumInv, TypeOK, Envelope
    <3> QED
      BY <2>1, <2>2, <3>1 DEF QuorumInv, EnvelopesAreApproved, ThresholdMet
  <2>5. LandedWithQuorum'
    <3>1. \A r \in landed : r \in Request /\ ThresholdMet(approvals[r])
      BY DEF QuorumInv, TypeOK, LandedWithQuorum
    <3>2. \A r \in landed : ThresholdMet(approvals'[r])
      BY <2>1, <3>1, QuorumGrows
    <3> QED
      BY <2>2, <3>2 DEF LandedWithQuorum, ThresholdMet
  <2> QED
    BY <2>3, <2>4, <2>5 DEF QuorumInv
<1>6. ASSUME NEW s \in Session, NEW r \in Request, Submit(s, r) PROVE QuorumInv'
  <2> DEFINE e == [req |-> r, sigs |-> view[s][r].approvals]
  <2>1. network' = network \union {e} /\ ThresholdMet(e.sigs)
    BY <1>6 DEF Submit
  <2>2. e.sigs \subseteq approvals[e.req]
    BY DEF QuorumInv, CopiesAreSound
  <2>3. UNCHANGED <<approvals, view, poll, landed>>
    BY <1>6 DEF Submit
  <2> QED
    BY <2>1, <2>2, <2>3
       DEF QuorumInv, CopiesAreSound, EnvelopesAreApproved, LandedWithQuorum, ThresholdMet
<1>7. ASSUME NEW e \in network, LandEnvelope(e) PROVE QuorumInv'
  <2>1. e.sigs \in SUBSET Signer /\ approvals[e.req] \in SUBSET Signer
    BY DEF QuorumInv, TypeOK, Envelope
  <2>2. ThresholdMet(approvals[e.req])
    BY <2>1, QuorumGrows DEF QuorumInv, EnvelopesAreApproved
  <2>3. landed' = landed \union {e.req} /\ UNCHANGED <<approvals, view, poll, network>>
    BY <1>7 DEF LandEnvelope
  <2> QED
    BY <2>2, <2>3
       DEF QuorumInv, CopiesAreSound, EnvelopesAreApproved, LandedWithQuorum, ThresholdMet
<1> QED
  BY <1>1, <1>2, <1>3, <1>4, <1>5, <1>6, <1>7 DEF Next, SessionStep, Click

(* Whatever the interleaving of pages, polls, prompts and crashes, a       *)
(* request is on the ledger only with a quorum of recorded approvals.      *)
THEOREM QuorumSafety == Spec => []LandedWithQuorum
<1>1. Spec => []QuorumInv
  BY TypeCorrect, QuorumInvInit, QuorumInvStep, PTL DEF Spec
<1>2. QuorumInv => LandedWithQuorum
  BY DEF QuorumInv
<1> QED
  BY <1>1, <1>2, PTL

-----------------------------------------------------------------------------
(* Refinement: every step of the queue is a step of the abstract quorum    *)
(* protocol or leaves approvals and ledger alone.                          *)
LEMMA PromiseInit == Init => Promise!Init
BY DEF Init, Promise!Init

LEMMA PromiseStep == QuorumInv /\ [Next]_vars => [Promise!Next]_(Promise!vars)
<1> SUFFICES ASSUME QuorumInv, [Next]_vars PROVE [Promise!Next]_(Promise!vars)
  OBVIOUS
<1>1. ASSUME NEW s \in Session, RecordApproval(s) PROVE [Promise!Next]_(Promise!vars)
  <2>1. op[s].req \in Request
    BY <1>1 DEF RecordApproval, QuorumInv, TypeOK, Running, Op, Idle
  <2>2. Owner[s] \in Signer
    BY OwnerAssumption
  <2>3. Promise!Approve(op[s].req, Owner[s])
    BY <1>1 DEF RecordApproval, Promise!Approve, chainVars
  <2> QED
    BY <2>1, <2>2, <2>3 DEF Promise!Next
<1>2. ASSUME NEW e \in network, LandEnvelope(e) PROVE [Promise!Next]_(Promise!vars)
  <2>1. e.req \in Request /\ e.sigs \in SUBSET Signer /\ approvals[e.req] \in SUBSET Signer
    BY DEF QuorumInv, TypeOK, Envelope
  <2>2. ThresholdMet(approvals[e.req])
    BY <2>1, QuorumGrows DEF QuorumInv, EnvelopesAreApproved
  <2>3. Promise!Land(e.req)
    <3>1. /\ e.req \notin landed
          /\ landed' = landed \union {e.req}
          /\ UNCHANGED approvals
      BY <1>2 DEF LandEnvelope, dbVars
    <3> QED
      BY <3>1, <2>2 DEF Promise!Land
  <2> QED
    BY <2>1, <2>3 DEF Promise!Next
<1>3. ASSUME NEW s \in Session,
             \/ CreatePending(s) \/ FetchPending(s) \/ ExpireStale(s)
             \/ SubmitConfirmed(s) \/ RecordExecuted(s) \/ OpFails(s) \/ PollFails(s)
      PROVE  UNCHANGED Promise!vars
  <2>1. UNCHANGED approvals
    BY <1>3 DEF CreatePending, FetchPending, ExpireStale, SubmitConfirmed,
       RecordExecuted, OpFails, PollFails, dbVars
  <2>2. UNCHANGED landed
    BY <1>3 DEF CreatePending, FetchPending, ExpireStale, SubmitConfirmed,
       RecordExecuted, OpFails, PollFails, chainVars
  <2> QED
    BY <2>1, <2>2 DEF Promise!vars
<1>4. ASSUME NEW s \in Session, NEW r \in Request, Click(s, r)
      PROVE  UNCHANGED Promise!vars
  BY <1>4 DEF Click, BuildPayment, StartApproval, Submit, RejectPending,
     Promise!vars, dbVars, chainVars
<1>5. CASE OtherTransaction \/ (\E r \in Request : WindowPasses(r)) \/ UNCHANGED vars
  BY <1>5 DEF OtherTransaction, WindowPasses, vars, Promise!vars, dbVars, chainVars
<1> QED
  BY <1>1, <1>2, <1>3, <1>4, <1>5 DEF Next, SessionStep

(* The queue implements ApprovalQuorum. *)
THEOREM Refinement == Spec => KeepsPromise
<1>1. Spec => []QuorumInv
  BY TypeCorrect, QuorumInvInit, QuorumInvStep, PTL DEF Spec
<1> QED
  BY <1>1, PromiseInit, PromiseStep, PTL DEF Spec, KeepsPromise, Promise!Spec

(* For any number of pages and however old their rows: no copy and no      *)
(* envelope holds an approval that approvePendingTransaction did not       *)
(* record.                                                                 *)
THEOREM ApprovalsBacked == Spec => []ApprovalsAreBacked
<1>1. Spec => []QuorumInv
  BY TypeCorrect, QuorumInvInit, QuorumInvStep, PTL DEF Spec
<1>2. QuorumInv => ApprovalsAreBacked
  BY DEF QuorumInv, ApprovalsAreBacked
<1> QED
  BY <1>1, <1>2, PTL

-----------------------------------------------------------------------------
(* What the rows say of the ledger: the write of "Executed" looks at no    *)
(* row, so what makes it true is that only a handler whose transaction is  *)
(* on the ledger gets there, and that nothing leaves the ledger.           *)
LEMMA OnChainStep == TypeOK /\ ExecutedIsOnChain /\ [Next]_vars => ExecutedIsOnChain'
<1> SUFFICES ASSUME TypeOK, ExecutedIsOnChain, [Next]_vars PROVE ExecutedIsOnChain'
  OBVIOUS
<1> USE DEF ExecutedIsOnChain, TypeOK, Running, dbVars, chainVars
<1>1. ASSUME NEW s \in Session, NEW r \in Request, Click(s, r) PROVE ExecutedIsOnChain'
  BY <1>1 DEF Click, BuildPayment, StartApproval, Submit, RejectPending, Start
<1>2. ASSUME NEW s \in Session, CreatePending(s) \/ ExpireStale(s) PROVE ExecutedIsOnChain'
  <2>1. CASE CreatePending(s)
    BY <2>1 DEF CreatePending, Finish, Idle
  <2>2. CASE ExpireStale(s)
    BY <2>2 DEF ExpireStale
  <2> QED
    BY <1>2, <2>1, <2>2
<1>3. ASSUME NEW s \in Session, SubmitConfirmed(s) PROVE ExecutedIsOnChain'
  BY <1>3 DEF SubmitConfirmed, Start
<1>4. ASSUME NEW s \in Session, RecordExecuted(s) PROVE ExecutedIsOnChain'
  BY <1>4 DEF RecordExecuted, Finish, Idle
<1>5. ASSUME NEW s \in Session,
             FetchPending(s) \/ RecordApproval(s) \/ OpFails(s) \/ PollFails(s)
      PROVE  ExecutedIsOnChain'
  BY <1>5 DEF FetchPending, RecordApproval, OpFails, PollFails, Finish, Idle
<1>6. ASSUME NEW e \in network, LandEnvelope(e) PROVE ExecutedIsOnChain'
  BY <1>6 DEF LandEnvelope
<1>7. CASE OtherTransaction \/ (\E r \in Request : WindowPasses(r)) \/ UNCHANGED vars
  BY <1>7 DEF OtherTransaction, WindowPasses, vars
<1> QED
  BY <1>1, <1>2, <1>3, <1>4, <1>5, <1>6, <1>7 DEF Next, SessionStep

(* A request marked Executed, whoever marks it and however late, is one    *)
(* whose transaction is on the ledger (setPendingStatus).                  *)
THEOREM ExecutedIsTrue == Spec => []ExecutedIsOnChain
<1>1. Init => ExecutedIsOnChain
  BY DEF Init, ExecutedIsOnChain, Running, Idle
<1> QED
  BY <1>1, TypeCorrect, OnChainStep, PTL DEF Spec

-----------------------------------------------------------------------------
(* A request is resolved once.  A page acts on a row it has seen, so what  *)
(* is preserved is that a copied row exists in the table, that a handler   *)
(* past its first await has its row, and that one page builds a request.   *)
RowsExist ==
  /\ \A s \in Session, r \in Request :
       /\ view[s][r].status # "None" => status[r] # "None"
       /\ poll[s][r].status # "None" => status[r] # "None"
  /\ \A s \in Session :
       op[s].kind \in {"sign", "submit", "record"} => status[op[s].req] # "None"

BuiltOnce ==
  \A s \in Session : Running(s, "build") =>
    /\ status[op[s].req] = "None"
    /\ \A t \in Session : Running(t, "build") /\ op[t].req = op[s].req => t = s

ResolvedInv == TypeOK /\ RowsExist /\ BuiltOnce

LEMMA ResolvedInvInit == Init => ResolvedInv
<1> SUFFICES ASSUME Init PROVE ResolvedInv
  OBVIOUS
<1>1. TypeOK
  BY DEF Init, TypeOK, Idle, NoRows, Row, Status
<1>2. RowsExist /\ BuiltOnce
  BY DEF Init, RowsExist, BuiltOnce, NoRows, Idle, Running
<1> QED
  BY <1>1, <1>2 DEF ResolvedInv

(* A step of the queue changes a status only as ResolvedOnce says. *)
StatusMoves ==
  \A r \in Request :
    status'[r] # status[r] =>
      \/ status[r] = "None" /\ status'[r] = "Pending"
      \/ status[r] = "Pending" /\ status'[r] # "None"
      \/ status[r] \in {"Rejected", "Expired"} /\ status'[r] = "Executed"

LEMMA StatusStep == ResolvedInv /\ [Next]_vars => StatusMoves
<1> SUFFICES ASSUME ResolvedInv, [Next]_vars PROVE StatusMoves
  OBVIOUS
<1> USE DEF StatusMoves, dbVars, chainVars
<1>1. status \in [Request -> Status]
  BY DEF ResolvedInv, TypeOK
<1>2. ASSUME NEW s \in Session, CreatePending(s) PROVE StatusMoves
  <2>1. status[op[s].req] = "None"
    BY <1>2 DEF CreatePending, ResolvedInv, BuiltOnce
  <2> QED
    BY <1>1, <1>2, <2>1 DEF CreatePending
<1>3. ASSUME NEW s \in Session, ExpireStale(s) PROVE StatusMoves
  BY <1>1, <1>3 DEF ExpireStale, Swept
<1>4. ASSUME NEW s \in Session, RecordExecuted(s) PROVE StatusMoves
  <2>1. status[op[s].req] # "None"
    BY <1>4 DEF RecordExecuted, Running, ResolvedInv, RowsExist
  <2> QED
    BY <1>1, <1>4, <2>1 DEF RecordExecuted, Status
<1>5. ASSUME NEW s \in Session, NEW r \in Request, Click(s, r) PROVE StatusMoves
  BY <1>1, <1>5 DEF Click, BuildPayment, StartApproval, Submit, RejectPending
<1>6. ASSUME NEW s \in Session,
             \/ FetchPending(s) \/ RecordApproval(s) \/ SubmitConfirmed(s)
             \/ OpFails(s) \/ PollFails(s)
      PROVE  StatusMoves
  BY <1>6 DEF FetchPending, RecordApproval, SubmitConfirmed, OpFails, PollFails
<1>7. ASSUME NEW e \in network, LandEnvelope(e) PROVE StatusMoves
  BY <1>7 DEF LandEnvelope
<1>8. CASE OtherTransaction \/ (\E r \in Request : WindowPasses(r)) \/ UNCHANGED vars
  BY <1>8 DEF OtherTransaction, WindowPasses, vars
<1> QED
  BY <1>2, <1>3, <1>4, <1>5, <1>6, <1>7, <1>8 DEF Next, SessionStep

(* Rows are never taken out of the table. *)
LEMMA RowsStay ==
  ASSUME StatusMoves, NEW r \in Request, status[r] # "None"
  PROVE  status'[r] # "None"
BY DEF StatusMoves

LEMMA RowsExistStep ==
  ASSUME ResolvedInv, StatusMoves, [Next]_vars
  PROVE  RowsExist'
<1> USE DEF dbVars, chainVars
<1>1. TypeOK /\ RowsExist
  BY DEF ResolvedInv
<1>2. \A r \in Request : status[r] # "None" => status'[r] # "None"
  BY RowsStay
<1>3. \A s \in Session : op[s].kind \in {"build", "sign", "submit", "record"}
                          => op[s].req \in Request
  BY <1>1 DEF TypeOK, Op, Idle
<1>4. ASSUME NEW s \in Session, FetchPending(s) PROVE RowsExist'
  <2>1. \A r \in Request : Rows[r].status = status[r]
    BY DEF Rows
  <2> QED
    BY <1>1, <1>2, <1>3, <1>4, <2>1 DEF FetchPending, RowsExist, TypeOK
<1>5. ASSUME NEW s \in Session, PollFails(s) PROVE RowsExist'
  BY <1>1, <1>2, <1>3, <1>5 DEF PollFails, RowsExist, TypeOK, NoRows
<1>6. ASSUME NEW s \in Session, ExpireStale(s) PROVE RowsExist'
  <2>1. \A t \in Session, r \in Request :
          poll'[t][r].status # "None" => status'[r] # "None"
    BY <1>1, <1>2, <1>6 DEF ExpireStale, RowsExist, TypeOK, NoRows
  <2>2. \A r \in Request : r \in Swept(s) => status'[r] # "None"
    BY <1>6 DEF ExpireStale
  <2>3. \A t \in Session, r \in Request :
          view'[t][r].status # "None" => status'[r] # "None"
    BY <1>1, <1>2, <1>6, <2>2 DEF ExpireStale, RowsExist, TypeOK
  <2>4. UNCHANGED op
    BY <1>6 DEF ExpireStale
  <2> QED
    BY <1>1, <1>2, <1>3, <2>1, <2>3, <2>4 DEF RowsExist
<1>7. ASSUME NEW s \in Session, NEW r \in Request, StartApproval(s, r) \/ Submit(s, r)
      PROVE  RowsExist'
  <2>1. status[r] # "None"
    BY <1>1, <1>7 DEF StartApproval, Submit, Shows, effectiveStatus, RowsExist
  <2>2. op'[s].req = r /\ (\A t \in Session : t # s => op'[t] = op[t])
    BY <1>1, <1>7 DEF StartApproval, Submit, Start, TypeOK
  <2>3. UNCHANGED <<view, poll>>
    BY <1>7 DEF StartApproval, Submit
  <2> QED
    BY <1>1, <1>2, <1>3, <2>1, <2>2, <2>3 DEF RowsExist
<1>8. ASSUME NEW s \in Session, NEW r \in Request, BuildPayment(s, r) \/ RejectPending(s, r)
      PROVE  RowsExist'
  <2>1. UNCHANGED <<view, poll>>
    BY <1>8 DEF BuildPayment, RejectPending
  <2>2. \A t \in Session :
          op'[t].kind \in {"sign", "submit", "record"} => op'[t] = op[t]
    BY <1>1, <1>8 DEF BuildPayment, RejectPending, Start, TypeOK
  <2> QED
    BY <1>1, <1>2, <1>3, <2>1, <2>2 DEF RowsExist
<1>9. ASSUME NEW s \in Session,
             \/ CreatePending(s) \/ RecordApproval(s) \/ SubmitConfirmed(s)
             \/ RecordExecuted(s) \/ OpFails(s)
      PROVE  RowsExist'
  <2>1. UNCHANGED <<view, poll>>
    BY <1>9 DEF CreatePending, RecordApproval, SubmitConfirmed, RecordExecuted, OpFails
  <2>2. \A t \in Session :
          /\ op'[t].kind \in {"sign", "submit", "record"}
          => op[t].kind \in {"sign", "submit", "record"} /\ op'[t].req = op[t].req
    BY <1>1, <1>9 DEF CreatePending, RecordApproval, SubmitConfirmed, RecordExecuted,
       OpFails, Start, Finish, Idle, Running, TypeOK
  <2> QED
    BY <1>1, <1>2, <1>3, <2>1, <2>2 DEF RowsExist
<1>10. ASSUME UNCHANGED <<view, poll, op>> PROVE RowsExist'
  BY <1>1, <1>2, <1>3, <1>10 DEF RowsExist
<1>11. ASSUME NEW e \in network, LandEnvelope(e) PROVE RowsExist'
  BY <1>10, <1>11 DEF LandEnvelope
<1>12. CASE OtherTransaction \/ (\E r \in Request : WindowPasses(r)) \/ UNCHANGED vars
  BY <1>10, <1>12 DEF OtherTransaction, WindowPasses, vars
<1> QED
  BY <1>4, <1>5, <1>6, <1>7, <1>8, <1>9, <1>11, <1>12 DEF Next, SessionStep, Click

LEMMA BuiltOnceStep ==
  ASSUME ResolvedInv, [Next]_vars
  PROVE  BuiltOnce'
<1> USE DEF dbVars, chainVars, Running
<1>1. TypeOK /\ RowsExist /\ BuiltOnce
  BY DEF ResolvedInv
<1>2. \A s \in Session : op[s].kind \in {"build", "sign", "submit", "record"}
                          => op[s].req \in Request
  BY <1>1 DEF TypeOK, Op, Idle
<1>3. ASSUME UNCHANGED op, \A r \in Request : status[r] = "None" => status'[r] = "None"
      PROVE  BuiltOnce'
  BY <1>1, <1>2, <1>3 DEF BuiltOnce
<1>4. ASSUME NEW s \in Session, NEW r \in Request, BuildPayment(s, r) PROVE BuiltOnce'
  <2>1. op'[s].req = r /\ (\A t \in Session : t # s => op'[t] = op[t])
    BY <1>1, <1>4 DEF BuildPayment, Start, TypeOK
  <2>2. /\ status'[r] = "None" /\ UNCHANGED status
        /\ \A t \in Session : ~(op[t].kind = "build" /\ op[t].req = r)
    BY <1>4 DEF BuildPayment
  <2> QED
    BY <1>1, <2>1, <2>2 DEF BuiltOnce
<1>5. ASSUME NEW s \in Session, CreatePending(s) PROVE BuiltOnce'
  <2>1. op'[s].kind = "idle" /\ (\A t \in Session : t # s => op'[t] = op[t])
    BY <1>1, <1>5 DEF CreatePending, Finish, Idle, TypeOK
  <2>2. \A r \in Request : r # op[s].req => status'[r] = status[r]
    BY <1>1, <1>5 DEF CreatePending, TypeOK
  <2>3. \A t \in Session : t # s /\ op[t].kind = "build" => op[t].req # op[s].req
    BY <1>1, <1>5 DEF CreatePending, BuiltOnce
  <2> QED
    BY <1>1, <1>2, <2>1, <2>2, <2>3 DEF BuiltOnce
<1>6. ASSUME NEW s \in Session,
             RecordApproval(s) \/ SubmitConfirmed(s) \/ RecordExecuted(s) \/ OpFails(s)
      PROVE  BuiltOnce'
  <2>1. op'[s].kind \in {"idle", "record"} /\ (\A t \in Session : t # s => op'[t] = op[t])
    BY <1>1, <1>6 DEF RecordApproval, SubmitConfirmed, RecordExecuted, OpFails,
       Start, Finish, Idle, TypeOK
  <2>2. \A r \in Request : status[r] = "None" => status'[r] = "None"
    <3>1. CASE RecordExecuted(s)
      <4>1. status[op[s].req] # "None"
        BY <1>1, <3>1 DEF RecordExecuted, RowsExist
      <4> QED
        BY <1>1, <3>1, <4>1 DEF RecordExecuted, TypeOK
    <3>2. CASE RecordApproval(s) \/ SubmitConfirmed(s) \/ OpFails(s)
      BY <3>2 DEF RecordApproval, SubmitConfirmed, OpFails
    <3> QED
      BY <1>6, <3>1, <3>2
  <2> QED
    BY <1>1, <1>2, <2>1, <2>2 DEF BuiltOnce
<1>7. ASSUME NEW s \in Session, NEW r \in Request, StartApproval(s, r) \/ Submit(s, r)
      PROVE  BuiltOnce'
  <2>1. op'[s].kind \in {"sign", "submit"} /\ (\A t \in Session : t # s => op'[t] = op[t])
    BY <1>1, <1>7 DEF StartApproval, Submit, Start, TypeOK
  <2>2. UNCHANGED status
    BY <1>7 DEF StartApproval, Submit
  <2> QED
    BY <1>1, <2>1, <2>2 DEF BuiltOnce
<1>8. ASSUME NEW s \in Session, NEW r \in Request, RejectPending(s, r) PROVE BuiltOnce'
  BY <1>1, <1>3, <1>8 DEF RejectPending, TypeOK
<1>9. ASSUME NEW s \in Session, FetchPending(s) \/ ExpireStale(s) \/ PollFails(s)
      PROVE  BuiltOnce'
  BY <1>3, <1>9 DEF FetchPending, ExpireStale, Swept, PollFails
<1>10. ASSUME NEW e \in network, LandEnvelope(e) PROVE BuiltOnce'
  BY <1>3, <1>10 DEF LandEnvelope
<1>11. CASE OtherTransaction \/ (\E r \in Request : WindowPasses(r)) \/ UNCHANGED vars
  BY <1>3, <1>11 DEF OtherTransaction, WindowPasses, vars
<1> QED
  BY <1>4, <1>5, <1>6, <1>7, <1>8, <1>9, <1>10, <1>11 DEF Next, SessionStep, Click

(* Of all the pages that reject, sweep and execute a request, on whatever  *)
(* copies, one resolves it; Executed may still correct that, and is final. *)
THEOREM Resolution == Spec => ResolvedOnce
<1>1. ResolvedInv /\ TypeOK' /\ [Next]_vars => ResolvedInv'
  BY StatusStep, RowsExistStep, BuiltOnceStep DEF ResolvedInv
<1>2. Spec => []ResolvedInv
  BY <1>1, TypeCorrect, ResolvedInvInit, PTL DEF Spec
<1>3. ResolvedInv /\ [Next]_vars => [StatusMoves]_vars
  BY StatusStep
<1>4. Spec => [][StatusMoves]_vars
  BY <1>2, <1>3, PTL DEF Spec
<1> QED
  BY <1>4 DEF ResolvedOnce, StatusMoves
=============================================================================
