----------------------------- MODULE Preferences -----------------------------
(***************************************************************************)
(* A lender's matching preferences (hooks/useLenderPreferences.ts and      *)
(* useLocalStorage.ts): kept in React state, in localStorage and, when     *)
(* signed in, in lender_preferences.  The load on mount, save and reset    *)
(* each await the session and then the table; nothing orders them.         *)
(***************************************************************************)
EXTENDS Naturals

CONSTANTS Prefs, Default,   \* preferences that can be saved; DEFAULT_PREFERENCES is one of them
          Calls,            \* save and reset calls that can be under way together
          MaxCalls, MaxMounts, MaxFaults   \* bounds

NoRow == "no row"

VARIABLES state, local,  \* `preferences` of the mounted hook; localStorage
          remote,        \* the lender's row, or NoRow
          signedIn,
          hydrate,       \* the load on mount: "auth", "query", "done"
          serialized,    \* localStorage as the mount read it
          call,          \* [pc, p]: pc "idle", "auth", "write"; p = NoRow for a reset
          latest,        \* history: what the lender asked for last, "nothing" before
          raced,         \* history: a call began beside another, beside the load, or signed out
          calls, mounts, faults

vars == <<state, local, serialized, remote, signedIn, hydrate, call, latest, raced, calls, mounts, faults>>

Idle == [pc |-> "idle", p |-> NoRow]
Quiet == hydrate = "done" /\ \A c \in Calls : call[c] = Idle

Init == /\ local = Default /\ state = Default /\ serialized = Default
        /\ remote \in Prefs \cup {NoRow} /\ signedIn \in BOOLEAN
        /\ hydrate = "auth" /\ call = [c \in Calls |-> Idle]
        /\ latest = "nothing" /\ raced = FALSE /\ calls = 0 /\ mounts = 1 /\ faults = 0

Fault == faults < MaxFaults /\ faults' = faults + 1

\* A preference without a row means the default one.
Meant(p) == IF p = NoRow THEN Default ELSE p

-----------------------------------------------------------------------------
\* The load on mount: who is signed in; without a session localStorage is the source.
HydrateUser ==
  /\ hydrate = "auth"
  /\ \/ hydrate' = (IF signedIn THEN "query" ELSE "done") /\ UNCHANGED faults
        /\ state' = IF signedIn THEN state ELSE serialized
     \/ hydrate' = "done" /\ Fault /\ UNCHANGED state
  /\ UNCHANGED <<serialized, local, remote, signedIn, call, latest, raced, calls, mounts>>

\* A row replaces the local copies; no row (PGRST116) and an error leave them alone.
HydrateRow ==
  /\ hydrate = "query" /\ hydrate' = "done"
  /\ \/ /\ IF remote = NoRow THEN UNCHANGED <<state, local>>
           ELSE state' = remote /\ local' = remote
        /\ UNCHANGED faults
     \/ Fault /\ UNCHANGED <<state, local>>
  /\ UNCHANGED <<serialized, remote, signedIn, call, latest, raced, calls, mounts>>

\* save(p) and reset() (p = NoRow) write the local copies at once.
Begin(c, p) ==
  /\ call[c] = Idle /\ calls < MaxCalls
  /\ state' = Meant(p) /\ local' = Meant(p)
  /\ call' = [call EXCEPT ![c] = [pc |-> "auth", p |-> p]]
  /\ latest' = p /\ raced' = (raced \/ ~Quiet \/ ~signedIn)
  /\ calls' = calls + 1
  /\ UNCHANGED <<serialized, remote, signedIn, hydrate, mounts, faults>>

CallUser(c) ==
  /\ call[c].pc = "auth"
  /\ \/ call' = [call EXCEPT ![c] = IF signedIn THEN [@ EXCEPT !.pc = "write"] ELSE Idle]
        /\ UNCHANGED faults
     \/ call' = [call EXCEPT ![c] = Idle] /\ Fault
  /\ UNCHANGED <<serialized, state, local, remote, signedIn, hydrate, latest, raced, calls, mounts>>

\* The row after a call: an upsert for a save, a delete for a reset.
Written(p) == p
\* Mutant: a reset leaves the row in the table.
SavesOnly(p) == IF p = NoRow THEN remote ELSE p
Stored(p) == Written(p)

CallWrite(c) ==
  /\ call[c].pc = "write" /\ call' = [call EXCEPT ![c] = Idle]
  /\ \/ remote' = Stored(call[c].p) /\ UNCHANGED faults
     \/ Fault /\ UNCHANGED remote
  /\ UNCHANGED <<serialized, state, local, signedIn, hydrate, latest, raced, calls, mounts>>

\* The page is opened again; the calls of the old one are done with or lost.
Remount ==
  /\ mounts < MaxMounts /\ mounts' = mounts + 1
  /\ state' = local /\ serialized' = local /\ hydrate' = "auth"
  /\ call' = [c \in Calls |-> Idle]
  /\ raced' = (raced \/ \E c \in Calls : call[c] # Idle)
  /\ UNCHANGED <<local, remote, signedIn, latest, calls, faults>>

SignInOrOut ==
  /\ signedIn' = ~signedIn
  /\ raced' = (raced \/ \E c \in Calls : call[c] # Idle)
  /\ UNCHANGED <<serialized, state, local, remote, hydrate, call, latest, calls, mounts, faults>>

Next == \/ HydrateUser \/ HydrateRow \/ Remount \/ SignInOrOut
        \/ \E c \in Calls : \/ CallUser(c) \/ CallWrite(c)
                            \/ \E p \in Prefs \cup {NoRow} : Begin(c, p)

Spec == Init /\ [][Next]_vars

-----------------------------------------------------------------------------
\* Every copy is a preference.
TypeOK == /\ state \in Prefs /\ local \in Prefs /\ remote \in Prefs \cup {NoRow}
          /\ hydrate \in {"auth", "query", "done"}

\* What the lender saved or reset is what the page shows, on this mount and on
\* the next, in storage and in the table, as long as no call failed and none
\* ran beside another or beside the load, which puts an older row back.
SavedIsKept ==
  Quiet /\ ~raced /\ faults = 0 /\ latest # "nothing"
    => state = Meant(latest) /\ local = Meant(latest) /\ remote = latest

\* Why: until something is raced, a call is the only one and asks for what was
\* asked last; a load finds that on this device and in the table.
NoneActive == \A c \in Calls : call[c] = Idle

StateOK ==
  /\ call \in [Calls -> [pc : {"idle", "auth", "write"}, p : Prefs \cup {NoRow}]]
  /\ raced \in BOOLEAN /\ signedIn \in BOOLEAN /\ faults \in Nat

LastIsKept ==
  ~raced /\ faults = 0 /\ latest # "nothing" =>
    /\ state = Meant(latest) /\ local = Meant(latest)
    /\ hydrate # "done" => serialized = local /\ NoneActive
    /\ \A c \in Calls : call[c] # Idle => call[c].p = latest /\ signedIn
    /\ \A c, d \in Calls : call[c] # Idle /\ call[d] # Idle => c = d
    /\ NoneActive => remote = latest

PreferencesInv == StateOK /\ LastIsKept
=============================================================================
