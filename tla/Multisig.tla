------------------------------ MODULE Multisig ------------------------------
(***************************************************************************)
(* The multi-signature approval queue (frontend, lib/multisig.ts).         *)
(*                                                                         *)
(* A request is a base envelope kept in the table pending_transactions.    *)
(* Co-signers work on it from browser sessions, each on the copy of the    *)
(* rows its last poll returned: they sign, and their signature becomes a   *)
(* row of transaction_approvals; they reject; or, once enough signatures   *)
(* are there, they combine them, submit the envelope and write the         *)
(* outcome back.  Every await of the code is a step boundary here: the     *)
(* wallet prompt, the submission and each request to the database.         *)
(***************************************************************************)
EXTENDS Naturals, FiniteSets

CONSTANTS
  Request,            \* ids of pending_transactions rows
  Signer,             \* the co-signers: one wallet key and one user each
  Session,            \* running pages; a signer may have several
  Owner,              \* Owner[s]: the signer who uses session s
  RequiredSignatures, \* the configured MULTISIG_REQUIRED_SIGNATURES
  ChainThreshold,     \* signatures the source account itself demands
  MaxSeq              \* bound on the source account's sequence number

ASSUME SignerAssumption == IsFiniteSet(Signer)
ASSUME OwnerAssumption == Owner \in [Session -> Signer]
ASSUME RequiredAssumption == RequiredSignatures \in Nat
ASSUME ChainAssumption == ChainThreshold \in Nat /\ MaxSeq \in Nat

VARIABLES
  \* --- the database -----------------------------------------------------
  status,     \* status[r]: "None" until the row is inserted
  initiator,  \* initiator[r]: who inserted the row, {} until then
  approvals,  \* approvals[r]: the signers with a transaction_approvals row
  \* --- the clock and the ledger -----------------------------------------
  window,     \* window[r]: "open", "late" (time bound passed), "closed"
  seqOf,      \* seqOf[r]: the sequence number fixed in the envelope
  acctSeq,    \* the source account's current sequence number
  network,    \* the envelopes sent to Horizon: request and signatures
  landed,     \* the requests whose transaction is on the ledger
  \* --- the sessions -----------------------------------------------------
  view,       \* view[s]: the rows session s renders
  poll,       \* poll[s]: rows read by a poll still sweeping, or NoRows
  op          \* op[s]: the handler running in session s

dbVars == <<status, initiator, approvals>>
chainVars == <<window, seqOf, acctSeq, network, landed>>
vars == <<dbVars, chainVars, view, poll, op>>

Status == {"None", "Pending", "Executed", "Rejected", "Expired"}
Row == [status : Status, approvals : SUBSET Signer]
Idle == [kind |-> "idle"]
Op == [kind : {"build", "sign", "submit", "record"}, req : Request, seq : Nat]
Envelope == [req : Request, sigs : SUBSET Signer]

Required == IF RequiredSignatures < 2 THEN 2 ELSE RequiredSignatures

ThresholdMet(sigs) == Cardinality(sigs) >= Required

isExpired(r) == window[r] = "closed"

(* What a viewer of a copied row sees: the deadline folded into its status *)
effectiveStatus(row, r) ==
  IF row.status = "Pending" /\ isExpired(r) THEN "Expired" ELSE row.status

(* The row-level security of updates: the initiator or a recorded approver *)
Participant(s, r) == Owner[s] \in initiator[r] \union approvals[r]

Rows == [r \in Request |-> [status |-> status[r], approvals |-> approvals[r]]]
NoRows == [r \in Request |-> [status |-> "None", approvals |-> {}]]

Running(s, k) == op[s].kind = k

Start(s, k, r, n) == op' = [op EXCEPT ![s] = [kind |-> k, req |-> r, seq |-> n]]

Finish(s) == op' = [op EXCEPT ![s] = Idle]

Shows(s, r) == effectiveStatus(view[s][r], r) = "Pending"

Init ==
  /\ status = [r \in Request |-> "None"]
  /\ initiator = [r \in Request |-> {}]
  /\ approvals = [r \in Request |-> {}]
  /\ window = [r \in Request |-> "open"]
  /\ seqOf = [r \in Request |-> 0]
  /\ acctSeq = 0
  /\ network = {}
  /\ landed = {}
  /\ view = [s \in Session |-> NoRows]
  /\ poll = [s \in Session |-> NoRows]
  /\ op = [s \in Session |-> Idle]

-----------------------------------------------------------------------------
(* Queueing a request.                                                     *)

BuildPayment(s, r) ==
  /\ Running(s, "idle")
  /\ status[r] = "None"
  /\ \A t \in Session : ~(Running(t, "build") /\ op[t].req = r)
  /\ window[r] = "open"
  /\ acctSeq < MaxSeq
  /\ Start(s, "build", r, acctSeq + 1)
  /\ UNCHANGED <<dbVars, chainVars, view, poll>>

CreatePending(s) ==
  /\ Running(s, "build")
  /\ LET r == op[s].req IN
       /\ status' = [status EXCEPT ![r] = "Pending"]
       /\ initiator' = [initiator EXCEPT ![r] = {Owner[s]}]
       /\ seqOf' = [seqOf EXCEPT ![r] = op[s].seq]
  /\ Finish(s)
  /\ UNCHANGED <<approvals, window, acctSeq, network, landed, view, poll>>

-----------------------------------------------------------------------------
(* The poll: read the rows, then sweep the stale ones among those read.    *)

FetchPending(s) ==
  /\ poll[s] = NoRows
  /\ poll' = [poll EXCEPT ![s] = Rows]
  /\ UNCHANGED <<dbVars, chainVars, view, op>>

(* Mutant: the sweep looks for rows already marked instead of Pending ones. *)
SweptMarked(s) ==
  {r \in Request : poll[s][r].status = "Expired" /\ isExpired(r) /\ Participant(s, r)}

Swept(s) ==
  {r \in Request : /\ poll[s][r].status = "Pending" /\ isExpired(r)
                   /\ status[r] = "Pending" /\ Participant(s, r)}

ExpireStale(s) ==
  /\ poll[s] # NoRows
  /\ status' = [r \in Request |-> IF r \in Swept(s) THEN "Expired" ELSE status[r]]
  /\ view' = [view EXCEPT ![s] =
       [r \in Request |-> IF r \in Swept(s)
                          THEN [poll[s][r] EXCEPT !.status = "Expired"]
                          ELSE poll[s][r]]]
  /\ poll' = [poll EXCEPT ![s] = NoRows]
  /\ UNCHANGED <<initiator, approvals, chainVars, op>>

-----------------------------------------------------------------------------
(* Approving: the checks run on the rendered copy, the insert comes after  *)
(* the wallet prompt.                                                      *)

StartApproval(s, r) ==
  /\ Running(s, "idle")
  /\ Shows(s, r)
  /\ Owner[s] \notin view[s][r].approvals
  /\ ~ThresholdMet(view[s][r].approvals)
  /\ Start(s, "sign", r, 0)
  /\ UNCHANGED <<dbVars, chainVars, view, poll>>

(* Mutant: the insert replaces the approvals that are there. *)
RecordApprovalReplaces(s) ==
  /\ Running(s, "sign")
  /\ approvals' = [approvals EXCEPT ![op[s].req] = {Owner[s]}]
  /\ Finish(s)
  /\ UNCHANGED <<status, initiator, chainVars, view, poll>>

RecordApproval(s) ==
  /\ Running(s, "sign")
  /\ approvals' = [approvals EXCEPT ![op[s].req] = @ \union {Owner[s]}]
  /\ Finish(s)
  /\ UNCHANGED <<status, initiator, chainVars, view, poll>>

-----------------------------------------------------------------------------
(* Executing: combine the signatures of the rendered copy, submit, record. *)

(* Mutant: the approvals are submitted without counting them. *)
SubmitUncounted(s, r) ==
  /\ Running(s, "idle")
  /\ Shows(s, r)
  /\ Start(s, "submit", r, 0)
  /\ network' = network \union {[req |-> r, sigs |-> view[s][r].approvals]}
  /\ UNCHANGED <<dbVars, window, seqOf, acctSeq, landed, view, poll>>

Submit(s, r) ==
  /\ Running(s, "idle")
  /\ Shows(s, r)
  /\ ThresholdMet(view[s][r].approvals)
  /\ Start(s, "submit", r, 0)
  /\ network' = network \union {[req |-> r, sigs |-> view[s][r].approvals]}
  /\ UNCHANGED <<dbVars, window, seqOf, acctSeq, landed, view, poll>>

(* Mutant: any answer of Horizon counts as a confirmation. *)
SubmitAnswered(s) ==
  /\ Running(s, "submit")
  /\ Start(s, "record", op[s].req, 0)
  /\ UNCHANGED <<dbVars, chainVars, view, poll>>

SubmitConfirmed(s) ==
  /\ Running(s, "submit")
  /\ op[s].req \in landed
  /\ Start(s, "record", op[s].req, 0)
  /\ UNCHANGED <<dbVars, chainVars, view, poll>>

(* Mutant: a status the table does not know. *)
RecordConfirmed(s) ==
  /\ Running(s, "record")
  /\ status' = [status EXCEPT ![op[s].req] = "Confirmed"]
  /\ Finish(s)
  /\ UNCHANGED <<initiator, approvals, chainVars, view, poll>>

RecordExecuted(s) ==
  /\ Running(s, "record")
  /\ status' = IF Participant(s, op[s].req)
               THEN [status EXCEPT ![op[s].req] = "Executed"]
               ELSE status
  /\ Finish(s)
  /\ UNCHANGED <<initiator, approvals, chainVars, view, poll>>

(* Mutant: the rejection is not conditional on the stored status. *)
RejectAny(s, r) ==
  /\ Running(s, "idle")
  /\ Shows(s, r)
  /\ Participant(s, r)
  /\ status' = [status EXCEPT ![r] = "Rejected"]
  /\ UNCHANGED <<initiator, approvals, chainVars, view, poll, op>>

RejectPending(s, r) ==
  /\ Running(s, "idle")
  /\ Shows(s, r)
  /\ status[r] = "Pending"
  /\ Participant(s, r)
  /\ status' = [status EXCEPT ![r] = "Rejected"]
  /\ UNCHANGED <<initiator, approvals, chainVars, view, poll, op>>

(* A handler that throws: the wallet declines or signs with another key,   *)
(* Horizon refuses or times out, the database returns an error; or the tab *)
(* is closed, which ends its handler and its poll.  A page that opens      *)
(* again renders the rows of its first poll.                               *)
OpFails(s) ==
  /\ ~Running(s, "idle")
  /\ Finish(s)
  /\ UNCHANGED <<dbVars, chainVars, view, poll>>

PollFails(s) ==
  /\ poll[s] # NoRows
  /\ poll' = [poll EXCEPT ![s] = NoRows]
  /\ UNCHANGED <<dbVars, chainVars, view, op>>

-----------------------------------------------------------------------------
(* The ledger and the clock.                                               *)

LandEnvelope(e) ==
  /\ e.req \notin landed
  /\ seqOf[e.req] = acctSeq + 1
  /\ window[e.req] = "open"
  /\ Cardinality(e.sigs) >= ChainThreshold
  /\ landed' = landed \union {e.req}
  /\ acctSeq' = acctSeq + 1
  /\ UNCHANGED <<dbVars, window, seqOf, network, view, poll, op>>

OtherTransaction ==
  /\ acctSeq < MaxSeq
  /\ acctSeq' = acctSeq + 1
  /\ UNCHANGED <<dbVars, window, seqOf, network, landed, view, poll, op>>

WindowPasses(r) ==
  /\ status[r] # "None"
  /\ window[r] # "closed"
  /\ window' = [window EXCEPT ![r] = IF @ = "open" THEN "late" ELSE "closed"]
  /\ UNCHANGED <<dbVars, seqOf, acctSeq, network, landed, view, poll, op>>

-----------------------------------------------------------------------------
SessionStep(s) ==
  \/ CreatePending(s) \/ FetchPending(s) \/ ExpireStale(s)
  \/ RecordApproval(s) \/ SubmitConfirmed(s) \/ RecordExecuted(s)
  \/ OpFails(s) \/ PollFails(s)

Click(s, r) ==
  BuildPayment(s, r) \/ StartApproval(s, r) \/ Submit(s, r) \/ RejectPending(s, r)

Next ==
  \/ \E s \in Session : SessionStep(s)
  \/ \E s \in Session, r \in Request : Click(s, r)
  \/ \E e \in network : LandEnvelope(e)
  \/ \E r \in Request : WindowPasses(r)
  \/ OtherTransaction

Spec == Init /\ [][Next]_vars

(* Time passes, and a page left open polls every 20 s.  A poll is a read   *)
(* and an update and a closed tab can cut it at any time, so that one of   *)
(* them completes again and again is strong fairness.                      *)
Fairness ==
  /\ \A r \in Request : WF_vars(WindowPasses(r))
  /\ \A s \in Session : WF_vars(FetchPending(s)) /\ SF_vars(ExpireStale(s))

FairSpec == Spec /\ Fairness

-----------------------------------------------------------------------------
(* Properties.                                                             *)

(* Types of the variables. *)
TypeOK ==
  /\ status \in [Request -> Status]
  /\ initiator \in [Request -> SUBSET Signer]
  /\ approvals \in [Request -> SUBSET Signer]
  /\ window \in [Request -> {"open", "late", "closed"}]
  /\ seqOf \in [Request -> Nat]
  /\ acctSeq \in Nat
  /\ network \subseteq Envelope
  /\ landed \subseteq Request
  /\ view \in [Session -> [Request -> Row]]
  /\ poll \in [Session -> [Request -> Row]]
  /\ op \in [Session -> Op \union {Idle}]

(* A copy a session holds may be old, but it never counts an approval the  *)
(* table does not have: what a session adds up is at most what is stored.  *)
CopiesAreSound ==
  \A s \in Session, r \in Request :
    /\ view[s][r].approvals \subseteq approvals[r]
    /\ poll[s][r].approvals \subseteq approvals[r]

(* Whatever page submitted it, and however old the rows it rendered were,  *)
(* an envelope on the wire carries recorded approvals, at least Required.  *)
EnvelopesAreApproved ==
  \A e \in network : e.sigs \subseteq approvals[e.req] /\ ThresholdMet(e.sigs)

(* Both: nothing a page holds or has sent counts an approval that is not   *)
(* recorded (the stale rows and the envelopes of executePendingTransaction *)
(* and fetchPendingTransactions).                                          *)
ApprovalsAreBacked == CopiesAreSound /\ EnvelopesAreApproved

(* executePendingTransaction: a request is on the ledger only with         *)
(* Required distinct recorded approvals, even where the account itself     *)
(* would be content with fewer signatures.                                 *)
LandedWithQuorum == \A r \in landed : ThresholdMet(approvals[r])

(* setPendingStatus: "Executed" is written without looking at the row, but *)
(* never for a transaction that is not on the ledger.                      *)
ExecutedIsOnChain ==
  /\ \A s \in Session : Running(s, "record") => op[s].req \in landed
  /\ \A r \in Request : status[r] = "Executed" => r \in landed

(* setPendingStatus, expireStale: of the pages racing to reject, expire    *)
(* and execute one request a single one resolves it; the only later change *)
(* is to "Executed", and "Executed" is final.                              *)
ResolvedOnce ==
  [][\A r \in Request :
       status'[r] # status[r] =>
         \/ status[r] = "None" /\ status'[r] = "Pending"
         \/ status[r] = "Pending" /\ status'[r] # "None"
         \/ status[r] \in {"Rejected", "Expired"} /\ status'[r] = "Executed"]_vars

(* expireStale: a request that stays queued is resolved in the end, through *)
(* the poll of a page that may update the row.                             *)
QueueDrains ==
  \A r \in Request : status[r] = "Pending" ~> status[r] # "Pending"

(* The queue keeps the promise of an abstract quorum.                      *)
Promise == INSTANCE ApprovalQuorum WITH Enough <- ThresholdMet
KeepsPromise == Promise!Spec

(* "it records an authoritative on-chain outcome regardless of what the    *)
(* row drifted to meanwhile" (the comment on setPendingStatus): the write  *)
(* that follows a confirmed submission makes the row "Executed".           *)
OutcomeIsRecorded ==
  [][\A s \in Session :
       RecordExecuted(s) => status'[op[s].req] = "Executed"]_vars
=============================================================================
