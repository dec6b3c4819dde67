------------------------------- MODULE Upgrade -------------------------------
(***************************************************************************)
(* The SDK's upgrade client (upgrade.ts) and its version rules             *)
(* (version.ts): what version a contract runs is detected by simulated     *)
(* calls that may fail, and from it come the notifications, the verdict on *)
(* a target and the migration plan (its rollback plan is left out).        *)
(***************************************************************************)
EXTENDS Naturals, Sequences, SequencesExt

CONSTANTS Versions,    \* <<major, minor, patch, pre>>; pre = 1: a pre-release
          Matrix,      \* COMPATIBILITY_MATRIX: [from, to, status] entries
          MaxRuns      \* bound on detections

Unknown == <<0, 0, 0, 0>>       \* what a failed detection is reported as

VARIABLES deployed,     \* the version on chain
          expected,     \* expectedVersions of the contract
          answers,      \* [version, get_version]: what each simulated call does
          detected,     \* [version, ok]: the last DetectedVersion, ok FALSE before
          notices,      \* what generateNotifications returned
          plan,         \* what planMigration(detected, expected) returned
          runs

vars == <<deployed, expected, answers, detected, notices, plan, runs>>

-----------------------------------------------------------------------------
(* Components in order of weight; a release weighs more than a pre-release.*)
Weight(v) == <<v[1], v[2], v[3], 1 - v[4]>>
Newer(a, b) ==          \* isNewerVersion(a, b): b after a, by compareVersions
  \E i \in 1..4 : /\ Weight(a)[i] < Weight(b)[i]
                  /\ \A j \in 1..(i - 1) : Weight(a)[j] = Weight(b)[j]

IsMajorUpgrade(a, b) == a[1] /= b[1]

(* The heuristics of getCompatibilityStatus: patch and tag do not count.   *)
Older(a, b) == a[1] > b[1] \/ (a[1] = b[1] /\ a[2] > b[2])
\* Mutant: the minor numbers are compared whatever the major ones are.
OlderByMinor(a, b) == a[1] > b[1] \/ a[2] > b[2]
Downgrades(a, b) == Older(a, b)

Heuristic(a, b) == CASE Downgrades(a, b)           -> "downgrade"
                     [] a[1] = b[1] /\ a[2] = b[2] -> "compatible"
                     [] a[1] = b[1] /\ a[2] < b[2] -> "minor-update"
                     [] OTHER                      -> "major-update"

(* lookupCompatibility: the static table first.                            *)
Status(a, b) ==
  LET known == {e \in Matrix : e.from = a /\ e.to = b}
  IN  IF known /= {} THEN (CHOOSE e \in known : TRUE).status ELSE Heuristic(a, b)

-----------------------------------------------------------------------------
(* The steps of a plan; "deploy" deploys the version the plan goes to.     *)
Steps(status) ==
  CASE status = "compatible"   -> <<"deploy">>
    [] status = "minor-update" -> <<"check", "deploy", "verify">>
    [] status = "major-update" ->
         <<"snapshot", "migrate", "deploy", "verify", "smoke-test">>
    [] OTHER -> << >>

PlanMigration(current, target) ==
  [from |-> current, to |-> target, steps |-> Steps(Status(current, target))]

Severity(current, target) ==
  CASE IsMajorUpgrade(current, target)            -> "critical"
    [] Status(current, target) = "minor-update"   -> "info"
    [] OTHER                                      -> "warning"

(* generateNotifications: nothing about a contract that is up to date.     *)
Notices(current, target) ==
  IF current = target THEN {}
  ELSE {[from |-> current, to |-> target, severity |-> Severity(current, target)]}

\* validateUpgradeTarget
IsSafe(current, target) == Status(current, target) \in {"compatible", "minor-update"}

-----------------------------------------------------------------------------
Outcomes == {"value", "error", "nothing", "throws"}
None == [version |-> Unknown, ok |-> FALSE]

Init == /\ deployed \in Versions /\ expected \in Versions
        /\ answers = [version |-> "value", get_version |-> "value"]
        /\ detected = None /\ notices = {} /\ plan = << >> /\ runs = 0

(* detectVersion: version(), and get_version() only if that call errs.     *)
Detection(answer, v) ==
  LET success == [version |-> v, ok |-> TRUE] IN
  CASE answer.version = "value" -> success
    [] answer.version = "error" /\ answer.get_version = "value" -> success
    [] OTHER -> None

(* The RPC and the contract answer as they will.                           *)
Detect == /\ runs < MaxRuns /\ runs' = runs + 1
          /\ answers' \in [version : Outcomes, get_version : Outcomes]
          /\ detected' = Detection(answers', deployed)
          /\ UNCHANGED <<deployed, expected, notices, plan>>

(* generateNotifications and planMigration over what detectAllVersions     *)
(* returned; a failed detection stands in the list as 0.0.0.               *)
Advise == /\ runs > 0 /\ plan = << >>
          /\ notices' = Notices(detected.version, expected)
          /\ plan' = <<PlanMigration(detected.version, expected)>>
          /\ UNCHANGED <<deployed, expected, answers, detected, runs>>

(* The contract is upgraded to what was planned, out of the SDK's sight.   *)
Deploy == /\ plan /= << >> /\ deployed' = plan[1].to /\ plan' = << >> /\ notices' = {}
          /\ UNCHANGED <<expected, answers, detected, runs>>

Next == Detect \/ Advise \/ Deploy
Spec == Init /\ [][Next]_vars

-----------------------------------------------------------------------------
TypeOK == /\ {deployed, expected} \subseteq Versions /\ runs \in 0..MaxRuns
          /\ detected.version \in Versions \cup {Unknown} /\ detected.ok \in BOOLEAN
          /\ Len(plan) <= 1

(* A target called an update is later than the current version and one     *)
(* called a downgrade is earlier, in the order of compareVersions; an      *)
(* update's plan deploys the target once, a downgrade's plan nothing; no   *)
(* target of another major version is called safe.                         *)
UpdatesGoForward ==
  \A p \in ToSet(plan) :
    LET status == Status(p.from, p.to)
        deploys == {i \in DOMAIN p.steps : p.steps[i] = "deploy"}
    IN  /\ status \in {"minor-update", "major-update"} => Newer(p.from, p.to)
        /\ status = "downgrade" => Newer(p.to, p.from) /\ deploys = {}
        /\ status /= "downgrade" => \E i \in DOMAIN p.steps : deploys = {i}
        /\ IsSafe(p.from, p.to) => ~IsMajorUpgrade(p.from, p.to)
=============================================================================
