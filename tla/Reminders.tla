------------------------------ MODULE Reminders ------------------------------
(***************************************************************************)
(* The invoice reminder collector (scripts/invoice-reminders.ts): a daily  *)
(* job, also started by hand, with no lock between two runs.  A run reads  *)
(* the configuration, the invoices, the opt-outs and the log, then for     *)
(* every decision sends an email and a webhook, each followed by a write   *)
(* of its outcome.  One action per await.                                  *)
(***************************************************************************)
EXTENDS Integers, FiniteSets

CONSTANTS Invoices,       \* rows of the invoices mirror
          DueDate,        \* [Invoices -> day]
          Offset,         \* [stage -> days after the due date], STAGE_OFFSET_DAYS
          Jobs,           \* runs of the workflow, each started once
          MaxDay,         \* bound: last day considered
          MaxAttempts,    \* max_webhook_attempts
          MaxFaults       \* bound: failed calls and killed runs

Stages == DOMAIN Offset
Channels == {"email", "webhook"}

VARIABLES day,        \* the calendar day (UTC)
          emailed,    \* invoices whose originator has an email on file
          open,       \* invoices whose status is Financed or Overdue
          optedOut,   \* invoice_reminder_preferences.opted_out
          config,     \* reminder_configs: enabled, stages, webhook
          log,        \* invoice_reminders: [key -> "none" | "sent" | "failed" | "skipped"]
          job,        \* the runs
          delivered,  \* history: copies that reached a recipient
          faults, overlapped   \* history: faults so far; two runs were active together

vars == <<day, emailed, open, optedOut, config, log, job, delivered, faults, overlapped>>

\* The dedupe index of the log: one row per invoice, stage and channel.
Keys == Invoices \X Stages \X Channels

Idle == [pc |-> "idle", day |-> 0, config |-> [enabled |-> FALSE, stages |-> {}, webhook |-> FALSE],
         found |-> {}, todo |-> {}, existing |-> {}, at |-> <<>>, result |-> "none", decided |-> {}]

Finished == {"idle", "done", "failed"}
Active == {j \in Jobs : job[j].pc \notin Finished}

Init == /\ day = 0 /\ emailed \in SUBSET Invoices /\ open = Invoices /\ optedOut = {}
        /\ config = [enabled |-> TRUE, stages |-> Stages, webhook |-> TRUE]
        /\ log = [k \in Keys |-> "none"]
        /\ job = [j \in Jobs |-> Idle]
        /\ delivered = [k \in Keys |-> 0]
        /\ faults = 0 /\ overlapped = FALSE

Fault == faults < MaxFaults /\ faults' = faults + 1
NoFault == UNCHANGED faults

-----------------------------------------------------------------------------
\* stageForInvoice: the one stage today lines up with, if any.
DueStages(i, today) == {s \in Stages : today - DueDate[i] = Offset[s]}

\* computeDueReminders over the rows found and the opt-outs read.
Decisions(found, out, cfg, today) ==
  {d \in found \X cfg.stages : d[1] \notin out /\ d[2] \in DueStages(d[1], today)}

\* The next channel of decision d after `from`, skipping the rows that exist
\* and the webhook when no URL is configured; the next decision when none is left.
Advance(r, d, from) ==
  IF from = "email" /\ r.config.webhook /\ <<d[1], d[2], "webhook">> \notin r.existing
    THEN [r EXCEPT !.pc = "webhook", !.at = d]
    ELSE [r EXCEPT !.pc = IF r.todo = {} THEN "done" ELSE "next", !.at = <<>>]

Read == UNCHANGED <<day, emailed, open, optedOut, config, log, delivered>>

\* The workflow starts a run: `now` is taken once.  A run may start while another is active.
Start(j) ==
  /\ job[j].pc = "idle"
  /\ job' = [job EXCEPT ![j] = [Idle EXCEPT !.pc = "config", !.day = day]]
  /\ overlapped' = (overlapped \/ Active # {})
  /\ Read /\ NoFault

\* loadConfig: the defaults (every stage, no webhook) when the read fails.
LoadConfig(j) ==
  /\ job[j].pc = "config"
  /\ \E c \in {config, [enabled |-> TRUE, stages |-> Stages, webhook |-> FALSE]} :
       /\ \/ c = config /\ NoFault
          \/ c # config /\ Fault
       /\ job' = [job EXCEPT ![j].pc = IF c.enabled THEN "invoices" ELSE "done", ![j].config = c]
  /\ Read /\ UNCHANGED overlapped

\* loadReminderableInvoices: an error ends the run.
LoadInvoices(j) ==
  /\ job[j].pc = "invoices"
  /\ \/ NoFault /\ job' = [job EXCEPT ![j].pc = "optOuts", ![j].found = open]
     \/ Fault /\ job' = [job EXCEPT ![j].pc = "failed"]
  /\ Read /\ UNCHANGED overlapped

\* loadOptedOutInvoiceIds and the decisions: nobody has opted out when the read fails.
LoadOptOuts(j) ==
  /\ job[j].pc = "optOuts"
  /\ \E out \in {optedOut, {}} :
       /\ \/ out = optedOut /\ NoFault
          \/ out # optedOut /\ Fault
       /\ LET ds == Decisions(job[j].found, out, job[j].config, job[j].day)
          IN job' = [job EXCEPT ![j].pc = IF ds = {} THEN "done" ELSE "existing",
                                ![j].todo = ds, ![j].decided = ds]
  /\ Read /\ UNCHANGED overlapped

\* loadExistingReminders: no row exists when the read fails.
LoadExisting(j) ==
  /\ job[j].pc = "existing"
  /\ \E rows \in {{k \in Keys : log[k] # "none"}, {}} :
       /\ \/ rows = {k \in Keys : log[k] # "none"} /\ NoFault
          \/ rows # {k \in Keys : log[k] # "none"} /\ Fault
       /\ job' = [job EXCEPT ![j].pc = "next", ![j].existing = rows]
  /\ Read /\ UNCHANGED overlapped

\* Takes the next decision; its email is skipped when a row for it exists.
NextDecision(j) ==
  /\ job[j].pc = "next"
  /\ \E d \in job[j].todo :
       LET r == [job[j] EXCEPT !.todo = @ \ {d}]
       IN job' = [job EXCEPT ![j] =
            IF <<d[1], d[2], "email">> \in r.existing THEN Advance(r, d, "email")
            ELSE [r EXCEPT !.pc = "email", !.at = d]]
  /\ Read /\ NoFault /\ UNCHANGED overlapped

\* sendReminderEmail once, or no email on file.  A failed call may have been delivered.
SendEmail(j) ==
  LET d == job[j].at  k == <<d[1], d[2], "email">> IN
  /\ job[j].pc = "email"
  /\ \E result \in {"sent", "failed", "skipped"}, copies \in 0..1 :
       /\ (result = "skipped") = (d[1] \notin emailed)
       /\ result = "sent" => copies = 1
       /\ result = "skipped" => copies = 0
       /\ IF result = "failed" THEN Fault ELSE NoFault
       /\ delivered' = [delivered EXCEPT ![k] = @ + copies]
       /\ job' = [job EXCEPT ![j].pc = "emailLog", ![j].result = result]
  /\ UNCHANGED <<day, emailed, open, optedOut, config, log, overlapped>>

\* sendWebhookWithRetry: every attempt but the last failed; a failed one may have been delivered.
SendWebhook(j) ==
  LET d == job[j].at  k == <<d[1], d[2], "webhook">> IN
  /\ job[j].pc = "webhook"
  /\ \E result \in {"sent", "failed"}, tries \in 1..MaxAttempts, copies \in 0..MaxAttempts :
       /\ result = "failed" => tries = MaxAttempts
       /\ copies <= tries /\ (result = "sent" => copies >= 1)
       /\ IF result = "failed" \/ tries > 1 THEN Fault ELSE NoFault
       /\ delivered' = [delivered EXCEPT ![k] = @ + copies]
       /\ job' = [job EXCEPT ![j].pc = "webhookLog", ![j].result = result]
  /\ UNCHANGED <<day, emailed, open, optedOut, config, log, overlapped>>

\* The rows of the log after logReminder: an upsert on the dedupe index.
Upserted(k, result) == [log EXCEPT ![k] = result]
\* Mutant: the outcome of a skipped reminder is not written.
SkippedUnlogged(k, result) == [log EXCEPT ![k] = IF result = "skipped" THEN @ ELSE result]
\* Mutant: the row is written under the email channel whatever the channel.
LoggedUnderEmail(k, result) == [log EXCEPT ![<<k[1], k[2], "email">>] = result]

Logged(k, result) == Upserted(k, result)

\* logReminder: a failed write is only warned about.
LogOutcome(j) ==
  /\ job[j].pc \in {"emailLog", "webhookLog"}
  /\ LET ch == IF job[j].pc = "emailLog" THEN "email" ELSE "webhook"
         d == job[j].at
     IN /\ job' = [job EXCEPT ![j] = Advance([@ EXCEPT !.result = "none"], d, ch)]
        /\ \/ NoFault /\ log' = Logged(<<d[1], d[2], ch>>, job[j].result)
           \/ Fault /\ UNCHANGED log
  /\ UNCHANGED <<day, emailed, open, optedOut, config, delivered, overlapped>>

\* The runner is killed between two awaits.
Crash(j) ==
  /\ j \in Active
  /\ Fault
  /\ job' = [job EXCEPT ![j].pc = "failed"]
  /\ Read /\ UNCHANGED overlapped

-----------------------------------------------------------------------------
\* setReminderOptOut by the originator.
SetOptOut(i) ==
  /\ optedOut' = IF i \in optedOut THEN optedOut \ {i} ELSE optedOut \cup {i}
  /\ UNCHANGED <<day, emailed, open, config, log, job, delivered, faults, overlapped>>

\* The mirror row leaves Financed and Overdue (repaid, defaulted).
Settle(i) ==
  /\ i \in open /\ open' = open \ {i}
  /\ UNCHANGED <<day, emailed, optedOut, config, log, job, delivered, faults, overlapped>>

\* updateReminderConfig by an admin: the switch and the webhook URL.
UpdateConfig(on, hook) ==
  /\ config' = [config EXCEPT !.enabled = on, !.webhook = hook]
  /\ config' # config
  /\ UNCHANGED <<day, emailed, open, optedOut, log, job, delivered, faults, overlapped>>

Tomorrow ==
  /\ day < MaxDay /\ day' = day + 1
  /\ UNCHANGED <<emailed, open, optedOut, config, log, job, delivered, faults, overlapped>>

Next ==
  \/ \E j \in Jobs : \/ Start(j) \/ LoadConfig(j) \/ LoadInvoices(j) \/ LoadOptOuts(j)
                     \/ LoadExisting(j) \/ NextDecision(j) \/ SendEmail(j) \/ SendWebhook(j)
                     \/ LogOutcome(j) \/ Crash(j)
  \/ \E i \in Invoices : SetOptOut(i) \/ Settle(i)
  \/ \E on, hook \in BOOLEAN : UpdateConfig(on, hook)
  \/ Tomorrow

Spec == Init /\ [][Next]_vars

-----------------------------------------------------------------------------
\* The mirror, the log and the runs have their shapes.
TypeOK ==
  /\ day \in 0..MaxDay /\ open \subseteq Invoices /\ optedOut \subseteq Invoices
  /\ \A k \in Keys : log[k] \in {"none", "sent", "failed", "skipped"} /\ delivered[k] \in Nat
  /\ \A j \in Jobs : job[j].decided \subseteq Invoices \X Stages /\ job[j].todo \subseteq job[j].decided

\* While no two runs overlapped and no call failed, no recipient got a
\* reminder twice, whatever order the runs, the days and the edits come in.
CleanRunsSendOnce ==
  ~overlapped /\ faults = 0 => \A k \in Keys : delivered[k] <= 1

\* A run that finished with no fault left a row for the email of every
\* decision, and one for the webhook when it had a URL: what was skipped or
\* failed is on record too, and is never tried again.
DoneMeansLogged ==
  faults = 0 => \A j \in Jobs : job[j].pc = "done" => \A d \in job[j].decided :
    /\ log[<<d[1], d[2], "email">>] # "none"
    /\ job[j].config.webhook => log[<<d[1], d[2], "webhook">>] # "none"

\* Both: what is due is sent once and is on record.
RemindersAreKept == CleanRunsSendOnce /\ DoneMeansLogged

(* Why: a run works through what it decided, one decision at a time, and   *)
(* leaves a row for each; without a fault the rows it found are there and  *)
(* stay.  A run that is alone has found all rows but those it wrote.       *)
Decision == Invoices \X Stages
Entry(d, ch) == <<d[1], d[2], ch>>
Outcomes == {"none", "sent", "failed", "skipped"}
ConfigRecord == [enabled : BOOLEAN, stages : SUBSET Stages, webhook : BOOLEAN]
Reading == {"config", "invoices", "optOuts", "existing"}
Handling == {"email", "emailLog", "webhook", "webhookLog"}
JobRecord == [pc : {"next"} \cup Finished \cup Reading \cup Handling, day : Int, config : ConfigRecord,
              found : SUBSET Invoices, todo : SUBSET Decision, existing : SUBSET Keys,
              at : Decision \cup {<< >>}, result : Outcomes, decided : SUBSET Decision]

StateOK ==
  /\ day \in Nat /\ open \subseteq Invoices /\ config \in ConfigRecord /\ faults \in Nat /\ overlapped \in BOOLEAN
  /\ log \in [Keys -> Outcomes] /\ delivered \in [Keys -> Nat] /\ job \in [Jobs -> JobRecord]
  /\ \A j \in Jobs : job[j].pc \in Handling => job[j].at \in Decision

OnRecord(d, ch) == log[Entry(d, ch)] # "none"

RunIsThorough(r) ==
  /\ r.pc \in {"idle", "config", "invoices", "optOuts"} => r.todo = {} /\ r.decided = {}
  /\ r.pc = "existing" => r.todo = r.decided
  /\ r.pc = "done" => r.todo = {}
  /\ r.pc \in {"next", "done"} \cup Handling => \A d \in r.decided \ r.todo :
       \/ r.pc \in Handling /\ d = r.at
       \/ OnRecord(d, "email") /\ (r.config.webhook => OnRecord(d, "webhook"))
  /\ r.pc \in {"webhook", "webhookLog"} => OnRecord(r.at, "email")
  /\ r.pc \in {"emailLog", "webhookLog"} => r.result # "none"
  /\ \A k \in r.existing : log[k] # "none"

(* What a run is about to write, and what it has still to look at.         *)
Unlogged(r, d, ch) == r.pc = (IF ch = "email" THEN "emailLog" ELSE "webhookLog") /\ d = r.at
Ahead(r, d, ch) ==
  \/ r.pc \in {"next"} \cup Handling /\ d \in r.todo
  \/ r.pc = "email" /\ d = r.at
  \/ r.pc \in {"emailLog", "webhook"} /\ d = r.at /\ ch = "webhook"

RunIsCareful(r) ==
  /\ r.pc \in Handling => r.at \notin r.todo
  /\ \A ch \in Channels : r.pc = ch => Entry(r.at, ch) \notin r.existing
  /\ \A d \in Decision, ch \in Channels :
       Ahead(r, d, ch) /\ OnRecord(d, ch) => Entry(d, ch) \in r.existing

RunsAreAlone ==
  /\ \A i, j \in Active : i = j
  /\ \A j \in Jobs : RunIsCareful(job[j])
  /\ \A d \in Decision, ch \in Channels : delivered[Entry(d, ch)] > 0 =>
       /\ delivered[Entry(d, ch)] = 1
       /\ OnRecord(d, ch) \/ \E j \in Jobs : Unlogged(job[j], d, ch)

RemindersInv == /\ StateOK /\ (faults = 0 => \A j \in Jobs : RunIsThorough(job[j]))
                /\ (faults = 0 /\ ~overlapped => RunsAreAlone)
=============================================================================
