---------------------------- MODULE EscrowDelivery ----------------------------
(***************************************************************************)
(* The milestone flow of a funded disbursement escrow (OfferList.tsx's     *)
(* EscrowPanel and handlers, lib/escrow.ts, the SDK's escrow.ts): the      *)
(* originator confirms the delivery, the platform approves and releases,   *)
(* each from a page that shows a snapshot of Trustless Work's read model,  *)
(* which trails the chain.  The contract is external and enforces nothing  *)
(* here but that funds leave once: the order is the pages' doing.          *)
(***************************************************************************)
EXTENDS Naturals, Sequences

CONSTANTS MaxLoads, MaxFaults     \* bounds: snapshots read, answers lost

Pages == {"originator", "platform"}
Awaiting == [completed |-> FALSE, approved |-> FALSE, disputed |-> FALSE, released |-> FALSE]

VARIABLES chain,    \* the states the escrow has had, the last is the present one
          index,    \* how far the read model has got
          page,     \* page[p]: [status: the snapshot shown, known: "undefined"
          \* (not loaded yet), "null" (unavailable) or "row", busy, toast]
          flight,   \* flight[p]: [kind, pc] of the handler under way
          reads,    \* snapshot reads under way or answered: [p, pos, handler]
          paid,     \* history: funds left the escrow
          loads, faults

vars == <<chain, index, page, flight, reads, paid, loads, faults>>

Idle == [kind |-> "none", pc |-> "idle"]
Now == chain[Len(chain)]
Shown(p) == page[p].status
Loaded(p) == page[p].known = "row"

Init == /\ chain = <<Awaiting>> /\ index = 1
        /\ page = [p \in Pages |-> [status |-> Awaiting, known |-> "undefined", busy |-> FALSE, toast |-> FALSE]]
        /\ flight = [p \in Pages |-> Idle] /\ reads = {} /\ paid = FALSE
        /\ loads = 0 /\ faults = 0

-----------------------------------------------------------------------------
(* The read model catches up with the chain.                               *)
Indexed == /\ index < Len(chain) /\ index' = index + 1
           /\ UNCHANGED <<chain, page, flight, reads, paid, loads, faults>>

(* A dispute is raised on the escrow by other means.                       *)
Dispute == /\ ~Now.disputed /\ ~Now.released
           /\ chain' = Append(chain, [Now EXCEPT !.disputed = TRUE])
           /\ UNCHANGED <<index, page, flight, reads, paid, loads, faults>>

-----------------------------------------------------------------------------
(* loadEscrowStatus is called by the effect while the status is undefined, *)
(* once per run of it, or by a handler (h) that awaits it.                 *)
StartRead(p, h) == /\ loads < MaxLoads /\ loads' = loads + 1
                   /\ reads' = reads \cup {[p |-> p, pos |-> index, handler |-> h, id |-> loads]}

LoadOnMount(p) == /\ page[p].known = "undefined" /\ StartRead(p, FALSE)
                  /\ UNCHANGED <<chain, index, page, flight, paid, faults>>

AfterRead(p, r) == IF r.handler THEN [flight EXCEPT ![p].pc = "answered"] ELSE flight

ReadAnswered(r) ==
  /\ page' = [page EXCEPT ![r.p].status = chain[r.pos], ![r.p].known = "row"]
  /\ flight' = AfterRead(r.p, r) /\ reads' = reads \ {r}
  /\ UNCHANGED <<chain, index, paid, loads, faults>>

ReadFailed(r) ==
  /\ faults < MaxFaults /\ faults' = faults + 1
  /\ page' = [page EXCEPT ![r.p].known = "null"]
  /\ flight' = AfterRead(r.p, r) /\ reads' = reads \ {r}
  /\ UNCHANGED <<chain, index, paid, loads>>

-----------------------------------------------------------------------------
(* The buttons of EscrowPanel, by role and by the snapshot shown.          *)
OffersByStatus(p, kind) ==
  LET s == Shown(p) IN
  /\ Loaded(p) /\ ~s.released /\ ~s.disputed /\ ~page[p].busy
  /\ \/ p = "originator" /\ kind = "confirm" /\ ~s.completed
     \/ p = "platform" /\ kind = "approve" /\ s.completed /\ ~s.approved
     \/ p = "platform" /\ kind = "release" /\ s.approved
\* Mutant: the platform may approve what it has not seen completed.
OffersEarly(p, kind) ==
  LET s == Shown(p) IN
  /\ Loaded(p) /\ ~s.released /\ ~s.disputed /\ ~page[p].busy
  /\ \/ p = "originator" /\ kind = "confirm" /\ ~s.completed
     \/ p = "platform" /\ kind = "approve" /\ ~s.approved
     \/ p = "platform" /\ kind = "release" /\ s.approved
Offers(p, kind) == OffersByStatus(p, kind)

(* handleConfirmDelivery, handleApprove, handleRelease up to the submit.   *)
Press(p, kind) ==
  /\ Offers(p, kind)
  /\ page' = [page EXCEPT ![p].busy = TRUE, ![p].toast = FALSE]
  /\ flight' = [flight EXCEPT ![p] = [kind |-> kind, pc |-> "submit"]]
  /\ UNCHANGED <<chain, index, reads, paid, loads, faults>>

Effect(kind) == CASE kind = "confirm" -> [Now EXCEPT !.completed = TRUE]
                  [] kind = "approve" -> [Now EXCEPT !.approved = TRUE]
                  [] kind = "release" -> [Now EXCEPT !.released = TRUE]

(* The contract executes a release while the funds are there, no other     *)
(* call after it, and none on a disputed escrow.                           *)
Executes(kind) == /\ ~Now.released /\ ~Now.disputed
                  /\ chain' = Append(chain, Effect(kind)) /\ paid' = (paid \/ kind = "release")

Refused(kind) == UNCHANGED <<chain, paid>>

(* The submission is answered; a release is answered PENDING and executed, *)
(* or not, later (submitDirectRelease does not wait for it).               *)
Submitted(p) ==
  /\ flight[p].pc = "submit"
  /\ \/ flight[p].kind /= "release" /\ Executes(flight[p].kind)
     \/ flight[p].kind = "release" /\ (Executes("release") \/ Refused("release"))
  /\ flight' = [flight EXCEPT ![p].pc = "load"]
  /\ UNCHANGED <<index, page, reads, loads, faults>>

(* The catch and the finally: an error, whether or not the call was made.  *)
SubmitFailed(p) ==
  /\ flight[p].pc = "submit"
  /\ \/ Refused(flight[p].kind) /\ UNCHANGED faults
     \/ faults < MaxFaults /\ faults' = faults + 1 /\ Executes(flight[p].kind)
  /\ page' = [page EXCEPT ![p].busy = FALSE]
  /\ flight' = [flight EXCEPT ![p] = Idle]
  /\ UNCHANGED <<index, reads, loads>>

(* await loadEscrowStatus, then the toast of success and the finally.      *)
LoadAfter(p) == /\ flight[p].pc = "load" /\ StartRead(p, TRUE)
                /\ flight' = [flight EXCEPT ![p].pc = "loading"]
                /\ UNCHANGED <<chain, index, page, paid, faults>>
Finish(p) == /\ flight[p].pc = "answered"
             /\ page' = [page EXCEPT ![p].toast = TRUE, ![p].busy = FALSE]
             /\ flight' = [flight EXCEPT ![p] = Idle]
             /\ UNCHANGED <<chain, index, reads, paid, loads, faults>>

Next == \/ Indexed \/ Dispute
        \/ \E r \in reads : ReadAnswered(r) \/ ReadFailed(r)
        \/ \E p \in Pages : LoadOnMount(p) \/ Submitted(p) \/ SubmitFailed(p) \/ LoadAfter(p) \/ Finish(p)
        \/ \E p \in Pages, kind \in {"confirm", "approve", "release"} : Press(p, kind)
Spec == Init /\ [][Next]_vars

-----------------------------------------------------------------------------
TypeOK == /\ index \in 1..Len(chain) /\ loads \in 0..MaxLoads /\ faults \in 0..MaxFaults
          /\ \A p \in Pages : page[p].busy = (flight[p] /= Idle)

(* Funds leave the escrow only after the delivery was confirmed and        *)
(* approved, in that order, though both pages act on stale snapshots.      *)
ReleaseFollowsDelivery ==
  paid => \E i, j, k \in DOMAIN chain :
            /\ i < j /\ j < k
            /\ ~chain[i].approved /\ chain[i].completed
            /\ ~chain[j].released /\ chain[j].approved /\ chain[k].released

(* Why: the escrow keeps what was confirmed and approved, a page shows a   *)
(* state it has had, and what is submitted followed from the one shown.    *)
State == [completed : BOOLEAN, approved : BOOLEAN, disputed : BOOLEAN, released : BOOLEAN]
Page == [status : State, known : {"undefined", "null", "row"}, busy : BOOLEAN, toast : BOOLEAN]
Flight == [kind : {"none", "confirm", "approve", "release"},
           pc : {"idle", "submit", "load", "loading", "answered"}]

StateOK ==
  /\ chain \in Seq(State) /\ chain # << >> /\ index \in DOMAIN chain
  /\ page \in [Pages -> Page] /\ flight \in [Pages -> Flight]
  /\ \A r \in reads : r.p \in Pages /\ r.pos \in DOMAIN chain

FlagsStay ==
  \A i, j \in DOMAIN chain : i <= j => /\ chain[i].completed => chain[j].completed
                                       /\ chain[i].approved => chain[j].approved

PagesShowThePast == \A p \in Pages : \E i \in DOMAIN chain : Shown(p) = chain[i]

SubmitsFollow ==
  \A p \in Pages : flight[p].pc = "submit" => /\ flight[p].kind # "none"
                                              /\ flight[p].kind = "approve" => Now.completed
                                              /\ flight[p].kind = "release" => Now.approved

StepsAreInOrder ==
  /\ \A j \in DOMAIN chain : chain[j].approved =>
       \E i \in DOMAIN chain : i < j /\ chain[i].completed /\ ~chain[i].approved
  /\ \A k \in DOMAIN chain : chain[k].released =>
       \E j \in DOMAIN chain : j < k /\ chain[j].approved /\ ~chain[j].released
  /\ paid => \E k \in DOMAIN chain : chain[k].released

DeliveryInv == StateOK /\ FlagsStay /\ PagesShowThePast /\ SubmitsFollow /\ StepsAreInOrder
=============================================================================
