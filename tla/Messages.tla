------------------------------ MODULE Messages -------------------------------
(***************************************************************************)
(* The messaging panel of an invoice (hooks/useMessages.ts with            *)
(* MessagingPanel.tsx and 003_encrypted_messages.sql).  The user may       *)
(* switch wallets while the panel is open; the key of a pair is derived in *)
(* the background and every call is an await of its own.  A key is named   *)
(* by the wallet whose pair with Peer it belongs to.                       *)
(***************************************************************************)
EXTENDS Naturals, FiniteSets, Sequences, SequencesExt

CONSTANTS Wallets,    \* wallets the user may connect
          Peer,       \* the counterparty, with its own correct client
          Fetches,    \* fetchMessages calls that can be under way together
          MaxRows, MaxSwitches, MaxFaults   \* bounds

NoKey == "none"

VARIABLES rows,       \* encrypted_messages in created_at order: [from, to, key, read]
          me,         \* currentAddress
          key,        \* keyRef.current
          deriving,   \* derivations under way, by wallet
          raced,      \* history: two derivations were under way together
          fetch,      \* each call: [pc, me, rows]
          list,       \* messages: [id (0 for an optimistic one), from, text, read]
          send,       \* sendMessage: [pc, from, key]
          marking,    \* markAsRead calls under way: [id, me]
          switches, faults

vars == <<rows, me, key, deriving, raced, fetch, list, send, marking, switches, faults>>

NoFetch == [pc |-> "idle", me |-> NoKey, rows |-> <<>>]
NoSend  == [pc |-> "idle", from |-> NoKey, key |-> NoKey]

Init == /\ rows = <<>> /\ list = <<>>
        /\ me \in Wallets /\ key = NoKey /\ deriving = {me} /\ raced = FALSE
        /\ fetch = [f \in Fetches |-> NoFetch]
        /\ send = NoSend /\ marking = {} /\ switches = 0 /\ faults = 0

Fault == faults < MaxFaults /\ faults' = faults + 1

-----------------------------------------------------------------------------
\* keyRef.current once the effect of a new address pair has run.
Reset(k) == NoKey
\* Mutant: the effect keeps the key of the pair before.
Kept(k) == k
KeyAfterSwitch(k) == Reset(k)

\* Another wallet is connected: the effect drops the key and derives a new one.
SwitchWallet(w) ==
  /\ w # me /\ switches < MaxSwitches
  /\ me' = w /\ switches' = switches + 1
  /\ key' = KeyAfterSwitch(key)
  /\ raced' = (raced \/ deriving # {})
  /\ deriving' = deriving \cup {w}
  /\ UNCHANGED <<rows, fetch, list, send, marking, faults>>

\* A derivation resolves, whichever was asked for first: nothing cancels it.
KeyDerived(w) ==
  /\ w \in deriving
  /\ deriving' = deriving \ {w} /\ key' = w
  /\ UNCHANGED <<rows, me, raced, fetch, list, send, marking, switches, faults>>

\* Both timers call fetchMessages once the key is there, the poll for ever.
KeyIsThere == key # NoKey
\* Mutant: only the wait for the key loads the list, there is no poll.
ListIsEmpty == key # NoKey /\ list = <<>>
MayFetch == KeyIsThere

StartFetch(f) ==
  /\ fetch[f].pc = "idle" /\ MayFetch
  /\ fetch' = [fetch EXCEPT ![f] = [pc |-> "query", me |-> me, rows |-> <<>>]]
  /\ UNCHANGED <<rows, me, key, deriving, raced, list, send, marking, switches, faults>>

Visible(w) == SelectSeq([n \in DOMAIN rows |-> [id |-> n, row |-> rows[n]]],
                        LAMBDA r : w \in {r.row.from, r.row.to})

\* The database answers with the rows of the caller; an error is only shown.
Query(f) ==
  /\ fetch[f].pc = "query"
  /\ \/ fetch' = [fetch EXCEPT ![f].pc = "answered", ![f].rows = Visible(fetch[f].me)]
        /\ UNCHANGED faults
     \/ fetch' = [fetch EXCEPT ![f] = NoFetch] /\ Fault
  /\ UNCHANGED <<rows, me, key, deriving, raced, list, send, marking, switches>>

\* What a row looks like decrypted with key k: a placeholder when it is not its key.
Decrypted(r, k) == [id |-> r.id, from |-> r.row.from, read |-> r.row.read,
                    text |-> IF k = r.row.key THEN "plain" ELSE "placeholder"]

\* The unread messages of others that the panel's effect marks, once it has rendered l for w.
Unread(l, w) == {[id |-> m.id, me |-> w] : m \in {x \in ToSet(l) : x.from # w /\ ~x.read}}

\* The answer is decrypted with the key of this moment and replaces the list.
Install(f) ==
  /\ fetch[f].pc = "answered"
  /\ list' = [n \in DOMAIN fetch[f].rows |-> Decrypted(fetch[f].rows[n], key)]
  /\ fetch' = [fetch EXCEPT ![f] = NoFetch]
  /\ marking' = marking \cup Unread(list', me)
  /\ UNCHANGED <<rows, me, key, deriving, raced, send, switches, faults>>

\* sendMessage: one at a time (`sending`), encrypted with the key of this moment.
StartSend ==
  /\ send.pc = "idle" /\ key # NoKey
  /\ send' = [pc |-> "insert", from |-> me, key |-> key]
  /\ UNCHANGED <<rows, me, key, deriving, raced, fetch, list, marking, switches, faults>>

\* The insert, then the optimistic append; a failed insert is shown.
Insert ==
  /\ send.pc = "insert" /\ Len(rows) < MaxRows
  /\ \/ /\ rows' = Append(rows, [from |-> send.from, to |-> Peer, key |-> send.key, read |-> FALSE])
        /\ send' = [send EXCEPT !.pc = "append"]
        /\ UNCHANGED faults
     \/ send' = NoSend /\ Fault /\ UNCHANGED rows
  /\ UNCHANGED <<me, key, deriving, raced, fetch, list, marking, switches>>

AppendSent ==
  /\ send.pc = "append"
  /\ list' = Append(list, [id |-> 0, from |-> send.from, text |-> "plain", read |-> FALSE])
  /\ send' = NoSend
  /\ marking' = marking \cup Unread(list', me)
  /\ UNCHANGED <<rows, me, key, deriving, raced, fetch, switches, faults>>

\* markAsRead: the row is updated only when the caller is its recipient; no row
\* matching is no error, so the message is shown as read all the same.
MarkAsRead(m) ==
  /\ m \in marking
  /\ marking' = marking \ {m}
  /\ \/ /\ rows' = [n \in DOMAIN rows |-> IF n = m.id /\ rows[n].to = m.me
                                          THEN [rows[n] EXCEPT !.read = TRUE] ELSE rows[n]]
        /\ list' = [n \in DOMAIN list |-> IF list[n].id = m.id
                                          THEN [list[n] EXCEPT !.read = TRUE] ELSE list[n]]
        /\ UNCHANGED faults
     \/ Fault /\ UNCHANGED <<rows, list>>
  /\ UNCHANGED <<me, key, deriving, raced, fetch, send, switches>>

\* The counterparty writes to a wallet, or reads what was sent to it.
PeerSends(w) ==
  /\ Len(rows) < MaxRows
  /\ rows' = Append(rows, [from |-> Peer, to |-> w, key |-> w, read |-> FALSE])
  /\ UNCHANGED <<me, key, deriving, raced, fetch, list, send, marking, switches, faults>>

PeerReads(n) ==
  /\ rows[n].to = Peer /\ ~rows[n].read
  /\ rows' = [rows EXCEPT ![n].read = TRUE]
  /\ UNCHANGED <<me, key, deriving, raced, fetch, list, send, marking, switches, faults>>

ClientStep == \/ \E w \in Wallets : KeyDerived(w)
              \/ \E f \in Fetches : StartFetch(f) \/ Query(f) \/ Install(f)
              \/ Insert \/ AppendSent
              \/ \E m \in marking : MarkAsRead(m)

Next == \/ ClientStep \/ StartSend
        \/ \E w \in Wallets : SwitchWallet(w) \/ PeerSends(w)
        \/ \E n \in DOMAIN rows : PeerReads(n)

\* The timers keep firing and every call is answered.
Fairness == /\ \A w \in Wallets : WF_vars(KeyDerived(w))
            /\ \A f \in Fetches : WF_vars(StartFetch(f)) /\ WF_vars(Query(f)) /\ WF_vars(Install(f))
            /\ WF_vars(AppendSent)

Spec == Init /\ [][Next]_vars
FairSpec == Spec /\ Fairness

-----------------------------------------------------------------------------
\* The calls are for wallets of the user and the list shows rows that exist.
TypeOK == /\ me \in Wallets /\ key \in Wallets \cup {NoKey} /\ deriving \subseteq Wallets
          /\ \A n \in DOMAIN list : list[n].id \in 0..Len(rows)

\* A message can be decrypted by the one it is sent to, unless the user
\* switched wallets while a key was still being derived: the older derivation
\* may then resolve last and encrypt for the pair before.
SentIsReadable == ~raced => \A n \in DOMAIN rows :
  rows[n].key = IF rows[n].from = Peer THEN rows[n].to ELSE rows[n].from

\* What the panel ends up with, for the wallet connected: each message of the
\* conversation once, in order, in plain text.
Shown == Len(list) = Len(Visible(me)) /\ \A n \in DOMAIN list :
           /\ list[n].id = Visible(me)[n].id
           /\ list[n].text = "plain"

\* Once nobody writes or switches any more the panel comes to show the whole
\* conversation and keeps showing it, whatever list an older answer put back.
ConversationIsShown == <>[](Shown \/ raced)

\* Both: whoever a message is for can read it, and the panel shows it.
MessagesArrive == []SentIsReadable /\ ConversationIsShown
=============================================================================
