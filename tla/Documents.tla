------------------------------- MODULE Documents -------------------------------
(***************************************************************************)
(* The proof documents of an invoice: uploaded by its originator through   *)
(* /api/documents/upload, pinned to IPFS, recorded in invoice_documents,   *)
(* previewed through /api/documents/[id]/content and judged by the lenders *)
(* with an offer.  A hash stands for the bytes it is of.  The originator   *)
(* may have another wallet connected than the invoice's, and then is shown *)
(* a lender's buttons.                                                     *)
(***************************************************************************)
EXTENDS Naturals

CONSTANTS Lenders, Files, MaxUploads, MaxVerdicts     \* the last two are bounds

Docs == 1..MaxUploads
Originator == "originator"
Viewers == Lenders \union {Originator}
None == "none"

VARIABLES
  upload,     \* upload[d]: [at, file] of the d-th upload
  row,        \* row[d]: [hash, status, by] in invoice_documents
  offers,     \* the lenders with an offer on the invoice
  list, busy, \* list[v][d]: the status viewer v is shown; the document it is busy with
  flights,    \* updates under way: [viewer, doc, status, id]
  seen,       \* history: <<d, bytes>> of every preview
  verdicts

vars == <<upload, row, offers, list, busy, flights, seen, verdicts>>

Absent == [hash |-> None, status |-> None, by |-> None]
Rows == {d \in Docs : row[d] # Absent}
Outcomes == {"verified", "rejected"}

TypeOK ==
  /\ \A d \in Docs : /\ upload[d].at \in {"none", "pin", "insert", "over"}
                     /\ row[d].status \in Outcomes \union {"pending", None}
  /\ offers \subseteq Lenders /\ list \in [Viewers -> [Docs -> Outcomes \union {"pending", None}]]
  /\ busy \in [Viewers -> Docs \union {0}] /\ verdicts \in 0..MaxVerdicts

Init ==
  /\ upload = [d \in Docs |-> [at |-> "none", file |-> None]]
  /\ row = [d \in Docs |-> Absent] /\ offers = {}
  /\ list = [v \in Viewers |-> [d \in Docs |-> None]] /\ busy = [v \in Viewers |-> 0]
  /\ flights = {} /\ seen = {} /\ verdicts = 0

(* Row-level security: who reads the documents, and whose update counts.   *)
Reads(v) == v = Originator \/ v \in offers
(* Mutant: whoever reads a document may judge it.                          *)
JudgesIfReads(v) == Reads(v)
Judges(v) == v \in offers

Shown(v) == [d \in Docs |-> IF Reads(v) THEN row[d].status ELSE None]

-----------------------------------------------------------------------------
MakeOffer(l) ==
  /\ l \notin offers /\ offers' = offers \union {l}
  /\ UNCHANGED <<upload, row, list, busy, flights, seen, verdicts>>

(* A drop is taken while an upload is under way, too.                      *)
Upload(d, file) ==
  /\ upload[d].at = "none" /\ \A e \in 1..(d - 1) : upload[e].at # "none"
  /\ upload' = [upload EXCEPT ![d] = [at |-> "pin", file |-> file]]
  /\ UNCHANGED <<row, offers, list, busy, flights, seen, verdicts>>

At(d, from, to) == upload[d].at = from /\ upload' = [upload EXCEPT ![d].at = to]

Pinned(d) ==
  /\ At(d, "pin", "insert")
  /\ UNCHANGED <<row, offers, list, busy, flights, seen, verdicts>>

(* The insert is answered, or its answer is lost; then the list is reread. *)
Recorded(d) ==
  /\ At(d, "insert", "over")
  /\ row' = [row EXCEPT ![d] = [hash |-> upload[d].file, status |-> "pending", by |-> None]]
  /\ list' \in {list, [list EXCEPT ![Originator] = [Shown(Originator) EXCEPT ![d] = "pending"]]}
  /\ UNCHANGED <<offers, busy, flights, seen, verdicts>>

(* Refused by the route or the policy, or failed; a pinned file stays.     *)
UploadFails(d) ==
  /\ At(d, "pin", "over") \/ At(d, "insert", "over")
  /\ UNCHANGED <<row, offers, list, busy, flights, seen, verdicts>>

Refresh(v) ==
  /\ list' = [list EXCEPT ![v] = Shown(v)]
  /\ UNCHANGED <<upload, row, offers, busy, flights, seen, verdicts>>

-----------------------------------------------------------------------------
(* Mutant: the bytes are served as the gateway returned them.              *)
ServesAnything(d, bytes) == TRUE
Serves(d, bytes) == bytes = row[d].hash

(* The gateway may answer with anything.                                   *)
Preview(v, d, bytes) ==
  /\ d \in Rows /\ Reads(v) /\ list[v][d] # None
  /\ Serves(d, bytes) /\ seen' = seen \union {<<d, bytes>>}
  /\ UNCHANGED <<upload, row, offers, list, busy, flights, verdicts>>

(* The buttons show under a pending document; only the one the viewer was  *)
(* busy with last is disabled.                                             *)
SetStatus(v, d, status) ==
  /\ verdicts < MaxVerdicts /\ verdicts' = verdicts + 1
  /\ list[v][d] = "pending" /\ busy[v] # d
  /\ busy' = [busy EXCEPT ![v] = d]
  /\ flights' = flights \union {[viewer |-> v, doc |-> d, status |-> status, id |-> verdicts]}
  /\ UNCHANGED <<upload, row, offers, list, seen>>

(* An update the policy filters out changes no row, and is no error.       *)
AfterVerdict(f) ==
  IF Judges(f.viewer)
    THEN [row EXCEPT ![f.doc].status = f.status, ![f.doc].by = f.viewer] ELSE row

Judged(f) ==
  /\ flights' = flights \ {f} /\ busy' = [busy EXCEPT ![f.viewer] = 0]
  /\ row' = AfterVerdict(f)
  /\ list' \in {list, [list EXCEPT ![f.viewer] =
                  [d \in Docs |-> IF Reads(f.viewer) THEN row'[d].status ELSE None]]}
  /\ UNCHANGED <<upload, offers, seen, verdicts>>

VerdictFails(f) ==
  /\ flights' = flights \ {f} /\ busy' = [busy EXCEPT ![f.viewer] = 0]
  /\ UNCHANGED <<upload, row, offers, list, seen, verdicts>>

Next ==
  \/ \E l \in Lenders : MakeOffer(l)
  \/ \E d \in Docs : Pinned(d) \/ Recorded(d) \/ UploadFails(d) \/ \E file \in Files : Upload(d, file)
  \/ \E v \in Viewers : Refresh(v)
  \/ \E v \in Viewers, d \in Docs :
       \/ \E bytes \in Files : Preview(v, d, bytes)
       \/ \E status \in Outcomes : SetStatus(v, d, status)
  \/ \E f \in flights : Judged(f) \/ VerdictFails(f)

Spec == Init /\ [][Next]_vars

-----------------------------------------------------------------------------
(* Whoever previews a document, before or after it was judged, sees the    *)
(* bytes its originator uploaded, whatever the gateway returns.            *)
EverybodySeesTheSame == \A p \in seen : p[2] = upload[p[1]].file

(* A verdict on record is that of a lender, whichever page gave it last.   *)
VerdictsAreLenders ==
  \A d \in Docs : row[d].status \in Outcomes => row[d].by \in Lenders

(* Why: a document has a row once its upload is over, and the row holds    *)
(* what was uploaded; what a page shows or judges or has previewed has one. *)
Attempt == [at : {"none", "pin", "insert", "over"}, file : Files \union {None}]
Row == [hash : Files, status : Outcomes \union {"pending"}, by : Lenders \union {None}]

StateOK ==
  /\ upload \in [Docs -> Attempt] /\ row \in [Docs -> Row \union {Absent}]
  /\ offers \subseteq Lenders
  /\ list \in [Viewers -> [Docs -> Outcomes \union {"pending", None}]]
  /\ flights \subseteq [viewer : Viewers, doc : Docs, status : Outcomes, id : Nat]
  /\ seen \subseteq Docs \X Files /\ verdicts \in Nat

RowIsUpload ==
  \A d \in Docs :
    /\ d \in Rows => upload[d].at = "over" /\ row[d].hash = upload[d].file
    /\ upload[d].at \in {"pin", "insert"} => upload[d].file \in Files

NothingWithoutRow ==
  /\ \A v \in Viewers, d \in Docs : list[v][d] # None => d \in Rows
  /\ \A f \in flights : f.doc \in Rows
  /\ \A p \in seen : p[1] \in Rows

DocumentsInv ==
  StateOK /\ RowIsUpload /\ NothingWithoutRow /\ EverybodySeesTheSame /\ VerdictsAreLenders
=============================================================================
