---------------------------- MODULE ClientMethods ----------------------------
(***************************************************************************)
(* The state-changing methods of the SDK client and the keys of its        *)
(* offline cache: apps/sdk/src/client.ts.  Every method makes sure of its  *)
(* account, runs the transaction (module Invocation has that in detail),   *)
(* and, when it succeeded, drops the keys it knows to be affected.  There  *)
(* are keys for the invoice, its offers and the positions of each holder,  *)
(* and a consumer that has all of them cached whenever a call lands; how a *)
(* refresh races with an invalidation is the business of SwrCache.         *)
(***************************************************************************)
EXTENDS InvoiceContracts, FiniteSets

CONSTANTS
  Offers, Holders, Lender,   \* Lender[o] \in Holders: who made offer o
  Total,                     \* what an offer is due
  Calls,                     \* calls of this client under way (bound)
  Testnet,                   \* Friendbot funds a missing account there
  MaxCalls                   \* calls of a behaviour (bound)

VARIABLES
  ledger, due, holder,       \* the contracts; who holds the token of each offer
  exists,                    \* the client's account is on the ledger
  outdated,                  \* keys whose cached copy a call of this client made wrong
  call, calls

vars == <<ledger, due, holder, exists, outdated, call, calls>>

NoOne == "no one"
Keys == {"invoices", "offers"} \union Holders
Kinds == {"submit", "accept", "reject", "repay", "overdue", "reclaim", "cancel",
          "register", "transfer"}
Idle == [at |-> "idle", kind |-> "none", offer |-> NoOne, from |-> NoOne,
         to |-> NoOne, tries |-> 0, changed |-> {}]

TypeOK ==
  /\ DOMAIN ledger = {"inv", "off", "repaid"} /\ due \in {"no", "past", "grace"}
  /\ holder \in [Offers -> Holders \union {NoOne}]
  /\ exists \in BOOLEAN /\ calls \in 0..MaxCalls
  /\ outdated \subseteq Keys
  /\ \A t \in Calls : call[t].tries \in 0..2 /\ call[t].changed \subseteq Keys

(* The client is made when the invoice has come this far.                  *)
Init ==
  /\ \E start \in {<<"None", "None">>, <<"Pending", "None">>, <<"Pending", "Pending">>,
                   <<"Financed", "Accepted">>, <<"Overdue", "Accepted">>} :
       /\ ledger = [inv |-> start[1], off |-> [o \in Offers |-> start[2]],
                    repaid |-> [o \in Offers |-> 0]]
       /\ holder = [o \in Offers |-> IF start[2] = "Accepted" THEN Lender[o] ELSE NoOne]
       /\ due = IF start[1] = "Overdue" THEN "past" ELSE "no"
  /\ exists \in BOOLEAN /\ (~Testnet => exists)
  /\ outdated = {}
  /\ call = [t \in Calls |-> Idle] /\ calls = 0

-----------------------------------------------------------------------------
(* The contracts with the registration, and with the position token:       *)
(* minted on acceptance, moved by a transfer, burnt with its offer.        *)
Works(c) ==
  CASE c.kind = "register" -> ledger.inv = "None"
    [] c.kind = "transfer" -> holder[c.offer] = c.from
    [] c.kind \notin {"register", "transfer"} -> Succeeds(ledger, due, c.kind, c.offer)

NewLedger(c) ==
  CASE c.kind = "register" -> [ledger EXCEPT !.inv = "Pending"]
    [] c.kind = "transfer" -> ledger
    [] c.kind \notin {"register", "transfer"} -> After(ledger, c.kind, c.offer, 1, Total)

NewHolder(c) ==
  LET o == c.offer IN
  CASE c.kind = "transfer" -> [holder EXCEPT ![o] = c.to]
    [] c.kind = "accept"   -> [holder EXCEPT ![o] = Lender[o]]
    [] c.kind \notin {"transfer", "accept"} ->
         IF NewLedger(c).off[o] \in {"Repaid", "Defaulted"}
           THEN [holder EXCEPT ![o] = NoOne] ELSE holder

Executes(c) ==
  Works(c) /\ ledger' = NewLedger(c) /\ holder' = NewHolder(c)

(* What a consumer reads under a key, and the keys a call changes.         *)
Content(l, h, k) ==
  CASE k = "invoices" -> <<l.inv, l.repaid>>
    [] k = "offers"   -> l.off
    [] k \in Holders  -> {o \in Offers : h[o] = k}

Changed(c) ==
  {k \in Keys : Content(ledger, holder, k) # Content(NewLedger(c), NewHolder(c), k)}

(* Another wallet's call, of which the cache cannot know; the due date.    *)
OtherParty(c) ==
  /\ calls < MaxCalls /\ calls' = calls + 1
  /\ Executes(c)
  /\ UNCHANGED <<due, exists, outdated, call>>

TimePasses ==
  /\ due # "grace" /\ due' = IF due = "no" THEN "past" ELSE "grace"
  /\ UNCHANGED <<ledger, holder, exists, outdated, call, calls>>

-----------------------------------------------------------------------------
Start(t, c) ==
  /\ call[t] = Idle /\ calls < MaxCalls /\ calls' = calls + 1
  /\ call' = [call EXCEPT ![t] = [c EXCEPT !.at = "ensure"]]
  /\ UNCHANGED <<ledger, due, holder, exists, outdated>>

Goes(t, place) == call' = [call EXCEPT ![t].at = place]
Ends(t) == call' = [call EXCEPT ![t] = Idle]

(* ensureAccount: there, or funded and looked for again; the third funding *)
(* is not looked at any more.                                              *)
EnsureAccount(t) ==
  /\ call[t].at = "ensure"
  /\ \/ exists /\ Goes(t, "invoke") /\ UNCHANGED exists
     \/ ~exists /\ ~Testnet /\ Ends(t) /\ UNCHANGED exists
     \/ /\ ~exists /\ Testnet /\ exists' \in BOOLEAN
        /\ IF call[t].tries = 2 THEN Ends(t)
           ELSE call' = [call EXCEPT ![t].tries = @ + 1]
  /\ UNCHANGED <<ledger, due, holder, outdated, calls>>

(* The simulation, the signature or the transaction fails.                 *)
InvokeThrows(t) ==
  /\ call[t].at \in {"ensure", "invoke"} /\ Ends(t)
  /\ UNCHANGED <<ledger, due, holder, exists, outdated, calls>>

Lands(t) ==
  /\ call[t].at = "invoke"
  /\ Executes(call[t])
  /\ outdated' = outdated \union Changed(call[t])
  /\ call' = [call EXCEPT ![t].at = "landed", ![t].changed = Changed(call[t])]
  /\ UNCHANGED <<due, exists, calls>>

(* Mutant: a repayment is not thought of as burning the token.             *)
RepaymentDropsLess(kind) ==
  CASE kind = "reclaim" -> Keys
    [] kind = "repay"   -> {"invoices", "offers"}
    [] kind = "overdue" -> {"invoices"}

(* The prefixes the methods of each contract drop.                         *)
RegistryDrops(kind) ==
  IF kind = "register" THEN {"invoices"} ELSE {"invoices", "offers"}

FinancingDrops(kind) ==
  IF kind = "accept" THEN Keys ELSE {"offers"}

RepaymentDrops(kind) ==
  IF kind = "overdue" THEN {"invoices"} ELSE Keys

TransferDrops(c) == {c.from, c.to}

Invalidates(c) ==
  CASE c.kind \in {"register", "cancel"}           -> RegistryDrops(c.kind)
    [] c.kind \in {"submit", "accept", "reject"}   -> FinancingDrops(c.kind)
    [] c.kind \in {"repay", "overdue", "reclaim"}  -> RepaymentDrops(c.kind)
    [] c.kind = "transfer"                         -> TransferDrops(c)

Returns(t) ==
  /\ call[t].at = "landed" /\ Ends(t)
  /\ outdated' = outdated \ Invalidates(call[t])
  /\ UNCHANGED <<ledger, due, holder, exists, calls>>

(* batch() and send() make the same calls and drop nothing, nor does a     *)
(* method that threw as its answer was lost: what these leave behind is    *)
(* not held against the others.                                            *)
LeavesCopies(t) ==
  /\ call[t].at = "landed" /\ Ends(t)
  /\ outdated' = outdated \ call[t].changed
  /\ UNCHANGED <<ledger, due, holder, exists, calls>>

Possible ==
  {[Idle EXCEPT !.kind = k, !.offer = o, !.from = f, !.to = h] :
     k \in Kinds, o \in Offers, f \in Holders, h \in Holders}

(* Only a transfer is told apart by its two ends.                          *)
Sensible == {c \in Possible : c.kind = "transfer" \/ c.from = c.to}

Next ==
  \/ \E c \in Sensible : OtherParty(c) \/ \E t \in Calls : Start(t, c)
  \/ TimePasses
  \/ \E t \in Calls :
       EnsureAccount(t) \/ InvokeThrows(t) \/ Lands(t) \/ Returns(t) \/ LeavesCopies(t)

Spec == Init /\ [][Next]_vars

-----------------------------------------------------------------------------
(* Once a method of this client has returned, no key of its cache keeps    *)
(* what the call changed, whatever calls overlap.  Excused is what others  *)
(* changed, and what batch(), send() or a lost answer left behind.         *)
OwnChangesShow ==
  outdated \subseteq UNION {call[t].changed : t \in {u \in Calls : call[u].at = "landed"}}
=============================================================================
