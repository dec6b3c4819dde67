----------------------------- MODULE Registration -----------------------------
(***************************************************************************)
(* Registering an invoice (InvoiceForm.tsx): the call of the registry, the *)
(* insert of the row that mirrors it, and the draft in localStorage, kept  *)
(* per wallet, that survives a reload and goes with a success.  One tab,   *)
(* with the contracts configured; the i-th submission draws the id i.      *)
(***************************************************************************)
EXTENDS Naturals

CONSTANTS Wallets, MaxTyped, MaxSubmits     \* bounds: changes of the fields, submissions

NoWallet == "anonymous"
Keys == Wallets \union {NoWallet}
Blank == [by |-> NoWallet, n |-> 0]
Ids == 1..MaxSubmits

VARIABLES
  form,        \* [key, fields, cleared, funded] of the mounted InvoiceDraftForm
  storage,     \* storage[k]: the draft in localStorage
  job,         \* job[i]: [at, wallet, fields, mounted]; is its form still the mounted one?
  registered, row,   \* registered[i], row[i]: on the ledger, in the database
  told,        \* ids reported as registered but not saved
  lost,        \* history: ids whose answer or page was lost
  saved,       \* history: fields whose draft was dropped and nowhere restored
  typed

vars == <<form, storage, job, registered, row, told, lost, saved, typed>>

Absent == [wallet |-> NoWallet, fields |-> Blank]
NoJob == [at |-> "none", wallet |-> NoWallet, fields |-> Blank, mounted |-> FALSE]
Running(i) == job[i].at \in {"register", "save"}

TypeOK ==
  /\ form.key \in Keys /\ form.cleared \in BOOLEAN
  /\ form.funded \in {"unknown", "yes", "no"}
  /\ DOMAIN storage = Keys /\ DOMAIN job = Ids
  /\ \A i \in Ids : job[i].at \in {"none", "register", "save", "over"}
  /\ told \union lost \subseteq Ids /\ typed \in 0..MaxTyped

Mounted(k, fields) == [key |-> k, fields |-> fields, cleared |-> fields = Blank, funded |-> "unknown"]

Init ==
  /\ form = Mounted(NoWallet, Blank)
  /\ storage = [k \in Keys |-> Blank]
  /\ job = [i \in Ids |-> NoJob]
  /\ registered = [i \in Ids |-> Absent] /\ row = [i \in Ids |-> Absent]
  /\ told = {} /\ lost = {} /\ saved = {} /\ typed = 0

-----------------------------------------------------------------------------
(* Another wallet, or coming back to the page: a fresh form on the draft   *)
(* of its key; submissions of the form before go on without one.           *)
Unmounted == [i \in Ids |-> [job[i] EXCEPT !.mounted = FALSE]]

(* Mutant: one form for all wallets.                                       *)
MountKeepsFields(k) ==
  /\ form' = Mounted(k, form.fields) /\ job' = Unmounted
  /\ UNCHANGED <<storage, registered, row, told, lost, saved, typed>>
Mount(k) ==
  /\ form' = Mounted(k, storage[k]) /\ job' = Unmounted
  /\ UNCHANGED <<storage, registered, row, told, lost, saved, typed>>

(* A reload ends the submissions; what was sent may take effect.           *)
Content(i) == [wallet |-> job[i].wallet, fields |-> job[i].fields]
SentAt(place) == {i \in Ids : job[i].at = place}

Reload ==
  /\ \E sent \in SUBSET SentAt("register") :
       registered' = [i \in Ids |-> IF i \in sent THEN Content(i) ELSE registered[i]]
  /\ \E sent \in SUBSET SentAt("save") :
       row' = [i \in Ids |-> IF i \in sent THEN Content(i) ELSE row[i]]
  /\ lost' = lost \union {i \in Ids : Running(i)}
  /\ job' = [i \in Ids |-> IF Running(i) THEN [NoJob EXCEPT !.at = "over"] ELSE job[i]]
  /\ form' = Mounted(form.key, storage[form.key])
  /\ UNCHANGED <<storage, told, saved, typed>>

Type ==
  /\ typed < MaxTyped /\ typed' = typed + 1
  /\ form' = [form EXCEPT !.fields = [by |-> form.key, n |-> typed'], !.cleared = FALSE]
  /\ UNCHANGED <<storage, job, registered, row, told, lost, saved>>

(* The debounced save: watch() yields a new object at every render, so the *)
(* timer runs again and again.                                             *)
SaveDraft ==
  /\ ~form.cleared /\ storage' = [storage EXCEPT ![form.key] = form.fields]
  /\ UNCHANGED <<form, job, registered, row, told, lost, saved, typed>>

CheckAccount ==
  /\ form.key # NoWallet /\ form.funded = "unknown"
  /\ \E f \in {"yes", "no"} : form' = [form EXCEPT !.funded = f]
  /\ UNCHANGED <<storage, job, registered, row, told, lost, saved, typed>>

FundAccount ==
  /\ form.funded = "no" /\ form' = [form EXCEPT !.funded = "yes"]
  /\ UNCHANGED <<storage, job, registered, row, told, lost, saved, typed>>

-----------------------------------------------------------------------------
Submit(i) ==
  /\ form.key # NoWallet /\ form.funded # "no" /\ form.fields # Blank
  /\ ~\E j \in Ids : job[j].mounted /\ Running(j)
  /\ job[i].at = "none" /\ \A j \in 1..(i - 1) : job[j].at # "none"
  /\ job' = [job EXCEPT ![i] = [at |-> "register", wallet |-> form.key,
                                fields |-> form.fields, mounted |-> TRUE]]
  /\ UNCHANGED <<form, storage, registered, row, told, lost, saved, typed>>

Ends(i) == job' = [job EXCEPT ![i].at = "over"]
OnLedger(i) == registered' = [registered EXCEPT ![i] = Content(i)]

Registered(i) ==
  /\ job[i].at = "register" /\ OnLedger(i)
  /\ job' = [job EXCEPT ![i].at = "save"]
  /\ form' = IF job[i].mounted THEN [form EXCEPT !.funded = "yes"] ELSE form
  /\ UNCHANGED <<storage, row, told, lost, saved, typed>>

(* registerInvoice throws; the transaction may have landed all the same.   *)
RegisterThrows(i) ==
  /\ job[i].at = "register" /\ Ends(i)
  /\ \/ OnLedger(i) /\ lost' = lost \union {i}
     \/ UNCHANGED <<registered, lost>>
  /\ UNCHANGED <<form, storage, row, told, saved, typed>>

(* Inserted: the draft goes, from the storage and from the fields.         *)
Inserted(i) == row' = [row EXCEPT ![i] = Content(i)]

Dropped(i) ==
  /\ storage' = [storage EXCEPT ![job[i].wallet] = Blank]
  /\ saved' = IF job[i].mounted \/ form.fields # job[i].fields
                THEN saved \union {job[i].fields} ELSE saved

(* Mutant: the fields are not reset.                                       *)
DropDraftOnly(i) == Dropped(i) /\ UNCHANGED form
DropDraft(i) ==
  /\ Dropped(i)
  /\ form' = IF job[i].mounted THEN [form EXCEPT !.fields = Blank, !.cleared = TRUE] ELSE form

Saved(i) ==
  /\ job[i].at = "save" /\ Ends(i)
  /\ Inserted(i) /\ DropDraft(i)
  /\ UNCHANGED <<registered, told, lost, typed>>

(* Mutant: the error of the insert is not looked at.                       *)
RefusedSilently(i) ==
  /\ job[i].at = "save" /\ Ends(i) /\ UNCHANGED row /\ DropDraft(i)
  /\ UNCHANGED <<registered, told, lost, typed>>

(* Refused by row-level security or a fault; or in, with the answer lost.  *)
SaveRefused(i) ==
  /\ job[i].at = "save" /\ Ends(i)
  /\ Inserted(i) \/ UNCHANGED row
  /\ told' = told \union {i}
  /\ UNCHANGED <<form, storage, registered, lost, saved, typed>>

Next ==
  \/ \E k \in Keys : Mount(k)
  \/ Reload \/ Type \/ SaveDraft \/ CheckAccount \/ FundAccount
  \/ \E i \in Ids : Submit(i) \/ Registered(i) \/ RegisterThrows(i) \/ Saved(i) \/ SaveRefused(i)

Spec == Init /\ [][Next]_vars

-----------------------------------------------------------------------------
(* A row says what the registry says, and an invoice that is only on the   *)
(* ledger is being saved, was reported, or its answer never came.          *)
RowsAreRegistered ==
  \A i \in Ids :
    /\ row[i] # Absent => row[i] = registered[i]
    /\ registered[i] # Absent /\ row[i] = Absent => job[i].at = "save" \/ i \in told \union lost

(* The draft of one wallet never shows or ends up under another.           *)
DraftsStayApart ==
  /\ \A k \in Keys : storage[k] # Blank => storage[k].by = k
  /\ form.fields # Blank => form.fields.by = form.key

(* The draft of an invoice that was saved does not come back, unless a     *)
(* form had restored it while the submission was under way.                *)
SubmittedDraftIsGone == \A k \in Keys : storage[k] \notin saved

(* Why: a submission carries the wallet it was made by and its draft; it   *)
(* is on the ledger once past its registration, in the table once saved.   *)
Draft == [by : Keys, n : Nat]
Entry == [wallet : Keys, fields : Draft]

Form == [key : Keys, fields : Draft, cleared : BOOLEAN, funded : {"unknown", "yes", "no"}]
Job == [at : {"none", "register", "save", "over"}, wallet : Keys, fields : Draft,
        mounted : BOOLEAN]

StateOK ==
  /\ form \in Form /\ storage \in [Keys -> Draft] /\ job \in [Ids -> Job]
  /\ registered \in [Ids -> Entry] /\ row \in [Ids -> Entry]
  /\ saved \subseteq Draft /\ typed \in Nat

SubmissionIsOwn(i) ==
  /\ Running(i) => job[i].fields # Blank /\ job[i].fields.by = job[i].wallet
  /\ job[i].at \in {"none", "register"} => registered[i] = Absent /\ row[i] = Absent
  /\ job[i].at = "save" => registered[i] = Content(i) /\ row[i] = Absent

(* What was dropped comes back into no form, and no draft typed later is   *)
(* the same.                                                               *)
DroppedIsGone ==
  /\ SubmittedDraftIsGone /\ form.fields \notin saved /\ Blank \notin saved
  /\ form.fields.n <= typed /\ \A d \in saved : d.n <= typed
  /\ \A k \in Keys : storage[k].n <= typed
  /\ \A i \in Ids : job[i].fields.n <= typed

RegistrationInv ==
  /\ StateOK /\ RowsAreRegistered /\ DraftsStayApart /\ DroppedIsGone
  /\ \A i \in Ids : SubmissionIsOwn(i)
=============================================================================
