--------------------------- MODULE ProtocolEvents ---------------------------
(***************************************************************************)
(* The events of the contracts and how the SDK decodes them                *)
(* (sdk/src/events.ts): the name is topic 0, the subject topic 1, and the  *)
(* value an array whose places have names.                                 *)
(***************************************************************************)
EXTENDS Naturals, Sequences, SequencesExt

(* The fields of each event's data, in the order of the value's places.    *)
Payload == [
  inv_reg  |-> <<"originator", "amount", "dueDate">>,
  inv_amt  |-> <<"newAmount">>,
  inv_sts  |-> <<"newStatus">>,
  inv_cxl  |-> <<"originator">>,
  inv_ovd  |-> <<"dueDate">>,
  inv_def  |-> <<"invoiceId">>,
  inv_dsp  |-> <<"originator">>,
  inv_rsl  |-> <<"newStatus">>,
  off_new  |-> <<"invoiceId", "lender", "amount", "interestRate">>,
  off_wdr  |-> <<"lender">>,
  off_acc  |-> <<"invoiceId", "lender", "amount">>,
  off_rej  |-> <<"invoiceId">>,
  off_def  |-> <<"invoiceId", "lender">>,
  pos_mint |-> <<"lender", "amount">>,
  inv_rep  |-> <<"offerId", "amount", "fullyRepaid">>,
  pool_stk |-> <<"staker", "amount">>,
  pool_un  |-> <<"staker", "amount">>,
  pool_pay |-> <<"recipient", "amount">>,
  reputn   |-> <<"address", "score">>]

KnownEventNames == DOMAIN Payload

(* A missing place decodes to the zero of its type; a value that cannot be *)
(* read, and an unknown name, make the event undecodable.                  *)
Zero(field) ==
  CASE field \in {"amount", "newAmount", "dueDate", "interestRate", "score"} -> 0
    [] field = "fullyRepaid" -> FALSE
    [] OTHER -> ""

Decodes(raw) == raw.name \in KnownEventNames /\ raw.readable

DecodeEventData(raw) ==
  LET fields == Payload[raw.name] IN
  [f \in ToSet(fields) |->
     LET place == CHOOSE i \in 1..Len(fields) : fields[i] = f
     IN  IF place <= Len(raw.value) THEN raw.value[place] ELSE Zero(f)]

DecodeEvent(raw) ==
  [type |-> raw.name, subjectId |-> raw.subject, txHash |-> raw.tx,
   data |-> DecodeEventData(raw)]
=============================================================================
