------------------------------ MODULE RunPlan ------------------------------
(***************************************************************************)
(* The plan of a provisioning run: utils/provisioning_runs.py create_run   *)
(* and the step lists of schemas/playbook.py job_steps.                    *)
(*                                                                         *)
(* A playbook definition maps each phase to a sequence of steps.  Every    *)
(* device of a path carries one playbook; Definition[d][v] is the          *)
(* normalized definition of device d's playbook at version v.  A step has  *)
(* a name, a driver, the configuration step it undoes (rollback steps) and *)
(* whether its author declared it idempotent; templates, captures and      *)
(* timeouts are left out, since no property here tells them apart.         *)
(***************************************************************************)
EXTENDS Integers, Sequences, FiniteSets

CONSTANTS
  Services,      \* client_service rows
  Devices,       \* inventory_item rows that carry a playbook
  Names,         \* step names
  MaxVersion,    \* bound on playbook.version
  MaxReparents,  \* bound on the re-parentings of a service's path
  Definition,    \* the definition of each device's playbook, by version
  Path           \* Path[s][n]: service s's configured nodes, leaf first,
                 \* after n re-parentings

Versions == 1 .. MaxVersion
PathRevisions == 0 .. MaxReparents

PhasePreconditions == "PRECONDITIONS"
PhaseConfiguration == "CONFIGURATION"
PhaseVerification == "VERIFICATION"
PhaseRollback == "ROLLBACK"
Phases == {PhasePreconditions, PhaseConfiguration, PhaseVerification, PhaseRollback}
NoPhase == "NULL"        \* phase of a run, job or entry older than engine v2

NoStep == "no step"
SessionProbeName == "__session__"
CliDrivers == {"ssh", "telnet"}
NoUndoDrivers == {"simulator", "ping", "connection_request"}
ManualDriver == "manual"
Drivers == CliDrivers \cup NoUndoDrivers \cup {ManualDriver, "tr069"}

StepNames == Names \cup {SessionProbeName}
Step == [name : Names, driver : Drivers, undoes : Names \cup {NoStep},
         idempotent : BOOLEAN]

Entry == [item : Devices, version : Versions, phase : Phases \cup {NoPhase},
          probe : BOOLEAN, ran : SUBSET Names]

ASSUME RunPlanAssumption ==
  /\ MaxVersion \in Nat \ {0}
  /\ MaxReparents \in Nat
  /\ NoStep \notin StepNames
  /\ SessionProbeName \notin Names
  /\ Definition \in [Devices -> [Versions -> [Phases -> Seq(Step)]]]
  /\ Path \in [Services -> [PathRevisions -> Seq(Devices)]]

(* validate_definition: "step names must be unique across all phases". *)
ASSUME StepNamesUnique ==
  \A d \in Devices, v \in Versions : \A p, q \in Phases :
    \A i \in 1 .. Len(Definition[d][v][p]), j \in 1 .. Len(Definition[d][v][q]) :
      Definition[d][v][p][i].name = Definition[d][v][q][j].name => p = q /\ i = j

(* resolve_path follows parent_id and refuses a walk past MAX_PATH_DEPTH,  *)
(* so that a path that comes back to a device is never returned            *)
(* (PathReachesRoot of NetworkGraph).                                      *)
ASSUME PathsAreSimple ==
  \A s \in Services, n \in PathRevisions :
    \A i, j \in 1 .. Len(Path[s][n]) : Path[s][n][i] = Path[s][n][j] => i = j

PurposeActivation == "ACTIVATION"
Purposes == {PurposeActivation, "SUSPENSION", "REACTIVATION", "DEPROVISION",
             "CPE_SWAP", "BOOST", "BOOST_END"}
TopDownPurposes == {PurposeActivation, "DEPROVISION", "CPE_SWAP"}
TeardownPurposes == {"SUSPENSION", "DEPROVISION"}

-----------------------------------------------------------------------------
(***************************************************************************)
(* The elements of a finite set of integers in increasing order: how a     *)
(* Python list built by a filtered loop keeps the order of its source.     *)
(***************************************************************************)
Ascents(I) ==
  {q \in [1 .. Cardinality(I) -> I] :
     \A i, j \in 1 .. Cardinality(I) : i < j => q[i] < q[j]}

Ascending(I) == IF Ascents(I) = {} THEN <<>> ELSE CHOOSE q \in Ascents(I) : TRUE

Backwards(s) == [i \in 1 .. Len(s) |-> s[Len(s) + 1 - i]]

-----------------------------------------------------------------------------
(* The definition snapshot an entry executes, never the live playbook.     *)
DefinitionFor(e) == Definition[e.item][e.version]

(* The schema reserves the probe's name: no authored step carries it. *)
SessionProbe ==
  [name |-> SessionProbeName, driver |-> "ssh", undoes |-> NoStep, idempotent |-> FALSE]

(* The steps a job executes; an entry without a phase runs all the forward *)
(* phases flattened, a probe puts the session step first.                  *)
JobSteps(e) ==
  IF e.phase = NoPhase
  THEN DefinitionFor(e)[PhasePreconditions] \o DefinitionFor(e)[PhaseConfiguration]
         \o DefinitionFor(e)[PhaseVerification]
  ELSE IF e.probe /\ e.phase = PhasePreconditions
       THEN <<SessionProbe>> \o DefinitionFor(e)[e.phase]
       ELSE DefinitionFor(e)[e.phase]

DriversIn(steps) == {steps[i].driver : i \in 1 .. Len(steps)}

(* The implicit preflight probe of a playbook that opens CLI sessions and  *)
(* does not already start with one; never on a CPE that is not up yet.     *)
NeedsProbe(def, cpeNotUpYet) ==
  /\ ~cpeNotUpYet
  /\ (DriversIn(def[PhaseConfiguration]) \cup DriversIn(def[PhaseVerification]))
       \cap CliDrivers # {}
  /\ \/ def[PhasePreconditions] = <<>>
     \/ def[PhasePreconditions][1].driver \notin CliDrivers

OrderForPurpose(steps, purpose) ==
  IF purpose \in TopDownPurposes THEN Backwards(steps) ELSE steps

PlanEntry(d, v, phase, probe) ==
  [item |-> d, version |-> v, phase |-> phase, probe |-> probe, ran |-> {}]

(* One phase of the plan: the entries, in configuration order, that have   *)
(* anything to execute.  `leaf` is the CPE, position 0 of the path.        *)
PhaseEntries(ordered, versions, phase, leaf, bringUp) ==
  LET entry == [i \in 1 .. Len(ordered) |->
        LET d == ordered[i]
        IN  PlanEntry(d, versions[d], phase,
              /\ phase = PhasePreconditions
              /\ NeedsProbe(Definition[d][versions[d]], bringUp /\ d = leaf))]
      kept == Ascending({i \in 1 .. Len(ordered) : JobSteps(entry[i]) # <<>>})
  IN  [k \in 1 .. Len(kept) |-> entry[kept[k]]]

(* The plan create_run snapshots: phase-major, and for a dry run also the  *)
(* rollback of every device in reverse configuration order.                *)
NewPlan(path, purpose, dry, versions) ==
  LET ordered == OrderForPurpose(path, purpose)
      bringUp == purpose \notin TeardownPurposes
      leaf == path[1]
      part(order, phase) == PhaseEntries(order, versions, phase, leaf, bringUp)
  IN  part(ordered, PhasePreconditions) \o part(ordered, PhaseConfiguration)
        \o part(ordered, PhaseVerification)
        \o (IF dry THEN part(Backwards(ordered), PhaseRollback) ELSE <<>>)
=============================================================================
