-------------------------- MODULE ProvisioningRuns --------------------------
(***************************************************************************)
(* Engine v2 of the provisioning runs: utils/provisioning_runs.py and the  *)
(* terminal transition of a job in utils/provisioning_jobs.py, over the    *)
(* provisioning_run / provisioning_job / provisioning_event tables.        *)
(*                                                                         *)
(* One action is one database transaction.  Every writer of a run locks    *)
(* its row first (advance_run, revert_run, retry_rollback: FOR UPDATE;     *)
(* repair_stranded_runs: FOR UPDATE SKIP LOCKED) and a worker's write to a *)
(* job is fenced by its claim token, so a transaction is atomic with       *)
(* respect to the run it changes.  The follow-ons of finish_job each have  *)
(* a savepoint of their own and may fail alone: that is how a run strands. *)
(* The office actions alone take two steps: they read the service's other  *)
(* runs, which they do not lock, before they commit.                       *)
(*                                                                         *)
(* The worker, its reaper and the cancel endpoint live in another          *)
(* repository; they are modelled from how this one uses them (external).   *)
(***************************************************************************)
EXTENDS RunRows

CONSTANTS
  MaxRuns,           \* bound on the runs opened
  MaxPlan,           \* bound on a plan's length when an office action extends it
  MaxMishaps,        \* bound on what goes wrong: a step that fails, an executor
                     \* that dies, a cancelled child, a follow-on of finish_job
                     \* that fails
  RunPurposes,       \* the purposes producers ask for
  DryRuns,           \* the values of dry_run producers ask for
  GuidedRuns,        \* the values of mode = GUIDED producers ask for
  LegacyServices,    \* services whose run was opened before engine v2
  SystemDevices,     \* devices whose playbook has a name of SYSTEM_PLAYBOOK_NAMES
  Simulated          \* last_dry_run_version of every playbook at the start: 0 or 1

ASSUME ProvisioningRunsAssumption ==
  /\ MaxRuns \in Nat
  /\ MaxPlan \in Nat
  /\ MaxMishaps \in Nat
  /\ RunPurposes \subseteq Purposes
  /\ DryRuns \in SUBSET BOOLEAN
  /\ GuidedRuns \in SUBSET BOOLEAN
  /\ LegacyServices \subseteq Services
  /\ \A s \in LegacyServices : Path[s][0] # <<>>
  /\ SystemDevices \subseteq Devices
  /\ Simulated \in {0, 1}

VARIABLES
  runs,      \* the provisioning_run table in creation order, each row with
             \* its children (kids) and the events it emitted (outbox)
  version,   \* playbook.version, by device
  lastDry,   \* playbook.last_dry_run_version, by device
  reparents, \* how often each service's path has been re-parented
  drift,     \* client_service.path_changed_at IS NOT NULL
  mishaps,   \* how much may still go wrong
  applied,   \* ground truth: <<r, d, n>> when configuration step n of run r
             \* is on device d (no code reads it)
  deciding,  \* the runs whose row an office action has locked and whose
             \* service it found free: its transaction has not committed yet
  unseen     \* history: the runs opened in such a moment on the same service,
             \* which the office action does not know of (no code reads it)

tables == <<runs, version, lastDry, reparents, drift, mishaps, applied>>
vars == <<runs, version, lastDry, reparents, drift, mishaps, applied, deciding, unseen>>

-----------------------------------------------------------------------------
(* Committing a transaction on run r.                                      *)

\* Mutant: the version is stamped as it is now, not as it was simulated.
StampsWhateverIsLive(w, d) == \E i \in 1 .. Len(w.plan) : w.plan[i].item = d

(* A clean simulation unlocks the version it executed, if still current. *)
Stamps(w, d) ==
  \E i \in 1 .. Len(w.plan) : w.plan[i].item = d /\ w.plan[i].version = version[d]

Commit(r, left) ==
  /\ runs' = [runs EXCEPT ![r] = left.row]
  /\ drift' = IF left.settlesPath THEN [drift EXCEPT ![left.row.service] = FALSE] ELSE drift
  /\ lastDry' = [d \in Devices |-> IF left.stamps /\ Stamps(left.row, d)
                                   THEN version[d] ELSE lastDry[d]]

RunIds == 1 .. Len(runs)

(* n things go wrong in this step, within the bound. *)
Spend(n) == n <= mishaps /\ mishaps' = mishaps - n

(* A job update by the worker: no follow-on, nothing but the job changes. *)
UpdateJob(r, k, job) ==
  /\ runs' = [runs EXCEPT ![r].kids[k] = job]
  /\ UNCHANGED <<version, lastDry, reparents, drift>>

(* A terminal transition, any of whose two follow-ons may fail. *)
SettleJob(r, k, w, status, spent) ==
  \E advances, emits \in BOOLEAN :
    /\ Spend(spent + (IF advances THEN 0 ELSE 1) + (IF emits THEN 0 ELSE 1))
    /\ Commit(r, FinishJob(w, k, status, advances, emits))
    /\ UNCHANGED <<version, reparents>>

-----------------------------------------------------------------------------
(* Producers.                                                              *)

NewRun(s, purpose, dry, guided) ==
  LET plan == NewPlan(Path[s][reparents[s]], purpose, dry, version)
  IN  [service |-> s, purpose |-> purpose, dry |-> dry, guided |-> guided,
       revision |-> reparents[s], status |-> "QUEUED",
       phase |-> IF plan = <<>> THEN NoPhase ELSE plan[1].phase,
       plan |-> plan, code |-> NoCode, cause |-> NoCode, noRollback |-> {},
       outputs |-> [d \in Devices |-> 0],
       kids |-> IF plan = <<>> THEN <<>> ELSE <<NewJob(1)>>, outbox |-> <<>>]

SameKey(w, s, purpose, dry) == w.service = s /\ w.purpose = purpose /\ w.dry = dry

FindInFlightRun(s, purpose, dry) ==
  {r \in RunIds : SameKey(runs[r], s, purpose, dry) /\ runs[r].status \in InFlight}

(* The dry-run gate on every node of the path, from which playbooks with a *)
(* system name are exempt; dry runs pass every gate.                       *)
GatesPass(s, dry) ==
  dry \/ \A i \in 1 .. Len(Path[s][reparents[s]]) :
           LET d == Path[s][reparents[s]][i]
           IN  d \in SystemDevices \/ lastDry[d] = version[d]

(* create_or_get_run when no in-flight run has the key; with one, it       *)
(* returns that run and changes nothing.                                   *)
CreateOrGetRun(s, purpose, dry, guided) ==
  /\ Len(runs) < MaxRuns
  /\ FindInFlightRun(s, purpose, dry) = {}
  /\ GatesPass(s, dry)
  /\ runs' = Append(runs, NewRun(s, purpose, dry, guided))
  /\ UNCHANGED <<version, lastDry, reparents, drift, mishaps, applied>>

(* The playbook router (external): an edit raises the version. *)
EditPlaybook(d) ==
  /\ version[d] < MaxVersion
  /\ version' = [version EXCEPT ![d] = @ + 1]
  /\ UNCHANGED <<runs, lastDry, reparents, drift, mishaps, applied>>

(* The network router (external): a node above the service's CPE is        *)
(* re-parented and path_changed_at is stamped.                             *)
Reparent(s) ==
  /\ reparents[s] < MaxReparents
  /\ reparents' = [reparents EXCEPT ![s] = @ + 1]
  /\ drift' = [drift EXCEPT ![s] = TRUE]
  /\ UNCHANGED <<runs, version, lastDry, mishaps, applied>>

-----------------------------------------------------------------------------
(* The worker (external).                                                  *)

StepsOf(r, k) == JobSteps(EntryOf(runs[r], k))
StepAt(r, k) == StepsOf(r, k)[runs[r].kids[k].next]

(* The step is one of those that configure the device: the steps of a      *)
(* CONFIGURATION entry, and those among the flattened steps of an entry    *)
(* older than the phases.                                                  *)
Configures(e, step) ==
  \/ e.phase = PhaseConfiguration
  \/ /\ e.phase = NoPhase
     /\ \E i \in 1 .. Len(DefinitionFor(e)[PhaseConfiguration]) :
          DefinitionFor(e)[PhaseConfiguration][i] = step

(* What step `step` of job k of run r leaves on the devices once it acts.  *)
Acted(r, k, step) ==
  LET w == runs[r]
      e == EntryOf(w, k)
      removed == IF step.undoes = NoStep THEN Names ELSE {step.undoes}
  IN  IF w.dry \/ step.driver \in NoUndoDrivers THEN applied
      ELSE IF Configures(e, step) THEN applied \cup {<<r, e.item, step.name>>}
      ELSE IF e.phase = PhaseRollback
           THEN {a \in applied : ~(/\ runs[a[1]].service = w.service
                                   /\ a[2] = e.item /\ a[3] \in removed)}
      ELSE applied

(* A session that broke off may or may not have acted. *)
MayHaveActed(r, k, step) == applied' \in {applied, Acted(r, k, step)}

(* Runs on one service go in order, and a device is held by one job. *)
OldestOfService(r) ==
  \A q \in 1 .. (r - 1) :
    runs[q].service = runs[r].service => runs[q].status \notin InFlight

DeviceFree(r, k) ==
  \A q \in RunIds : \A j \in LiveKids(runs[q]) :
    <<q, j>> # <<r, k>> /\ runs[q].kids[j].lock
      => EntryOf(runs[q], j).item # EntryOf(runs[r], k).item

Claim(r, k) ==
  LET job == runs[r].kids[k]
  IN  /\ job.status = "QUEUED"
      /\ job.attempts < MaxAttempts(EntryOf(runs[r], k))
      /\ OldestOfService(r)
      /\ runs[r].dry \/ DeviceFree(r, k)
      /\ UpdateJob(r, k, [job EXCEPT !.status = "RUNNING", !.lock = ~runs[r].dry,
                                     !.attempts = @ + 1, !.failed = FALSE])
      /\ UNCHANGED <<applied, mishaps>>

(* The claim-time backstops: the attempts are used up. *)
RefuseClaim(r, k) ==
  /\ runs[r].kids[k].status = "QUEUED"
  /\ runs[r].kids[k].attempts >= MaxAttempts(EntryOf(runs[r], k))
  /\ OldestOfService(r)
  /\ SettleJob(r, k, runs[r], "FAILED", 0)
  /\ UNCHANGED applied

(* Between two steps of a claimed job. *)
AtStep(r, k) ==
  LET job == runs[r].kids[k]
  IN  /\ job.status = "RUNNING"
      /\ job.inflight = NoStep
      /\ ~job.failed
      /\ job.next <= Len(StepsOf(r, k))

(* A guided run pauses before every step but a rollback's, a manual step   *)
(* waits for the person; a dry run never waits.                            *)
MustPark(r, k) ==
  /\ ~runs[r].dry
  /\ \/ StepAt(r, k).driver = ManualDriver
     \/ /\ runs[r].guided
        /\ EntryOf(runs[r], k).phase # PhaseRollback
        /\ runs[r].kids[k].parked # "continued"

SkippedByPlan(r, k) ==
  LET e == EntryOf(runs[r], k)
  IN  e.phase = PhaseRollback /\ ~runs[r].dry /\ Skips(StepAt(r, k), e.ran)

Logged(job, step, status, stage) ==
  [job EXCEPT !.log = @ \cup {[name |-> step.name, status |-> status, stage |-> stage]},
              !.inflight = NoStep,
              !.parked = "no",
              !.next = IF status = "FAILED" THEN @ ELSE @ + 1,
              !.failed = status = "FAILED"]

SkipStep(r, k) ==
  /\ AtStep(r, k)
  /\ SkippedByPlan(r, k)
  /\ UpdateJob(r, k, Logged(runs[r].kids[k], StepAt(r, k), "SKIPPED", "render"))
  /\ UNCHANGED <<applied, mishaps>>

(* The journal: the step's name is committed before anything is sent. *)
StartStep(r, k) ==
  /\ AtStep(r, k)
  /\ ~SkippedByPlan(r, k)
  /\ ~MustPark(r, k)
  /\ UpdateJob(r, k, [runs[r].kids[k] EXCEPT !.inflight = StepAt(r, k).name])
  /\ UNCHANGED <<applied, mishaps>>

EndStep(r, k) ==
  LET job == runs[r].kids[k]
  IN  /\ job.status = "RUNNING"
      /\ job.inflight # NoStep
      /\ \/ /\ UpdateJob(r, k, Logged(job, StepAt(r, k), "SUCCEEDED", "command"))
            /\ applied' = Acted(r, k, StepAt(r, k))
            /\ UNCHANGED mishaps
         \/ /\ UpdateJob(r, k, Logged(job, StepAt(r, k), "FAILED", "command"))
            /\ MayHaveActed(r, k, StepAt(r, k))
            /\ Spend(1)
         \/ /\ UpdateJob(r, k, Logged(job, StepAt(r, k), "FAILED", "connect"))
            /\ UNCHANGED applied
            /\ Spend(1)

IsResendSafe(step) ==
  step.idempotent \/ step.driver \in NoUndoDrivers \/ step.driver = ManualDriver

(***************************************************************************)
(* The lease lapsed, or a failed step is retried after its backoff: the    *)
(* job goes back to the queue and keeps its device lock.  An attempt that  *)
(* was cut off is logged as one that may have reached the device, which    *)
(* ran_steps relies on: the next attempt clears the journal.               *)
(***************************************************************************)
Requeue(r, k) ==
  LET job == runs[r].kids[k]
      queued == [job EXCEPT !.status = "QUEUED"]
  IN  /\ job.status = "RUNNING"
      /\ Spend(IF job.failed THEN 0 ELSE 1)
      /\ \/ /\ job.inflight = NoStep
            /\ UpdateJob(r, k, queued)
            /\ UNCHANGED applied
         \/ /\ job.inflight # NoStep
            /\ IsResendSafe(StepAt(r, k))
            /\ UpdateJob(r, k, Logged(queued, StepAt(r, k), "FAILED", "command"))
            /\ MayHaveActed(r, k, StepAt(r, k))

(* The worker settles a job whose steps are done or whose step failed. *)
Settle(r, k) ==
  LET job == runs[r].kids[k]
  IN  /\ job.status = "RUNNING"
      /\ job.inflight = NoStep
      /\ \/ job.failed /\ SettleJob(r, k, runs[r], "FAILED", 0)
         \/ job.next > Len(StepsOf(r, k)) /\ SettleJob(r, k, runs[r], "SUCCEEDED", 0)
      /\ UNCHANGED applied

(* UNKNOWN_STEP_OUTCOME: the executor died in a step that must not be resent. *)
ReapUnknown(r, k) ==
  /\ runs[r].kids[k].status = "RUNNING"
  /\ runs[r].kids[k].inflight # NoStep
  /\ ~IsResendSafe(StepAt(r, k))
  /\ SettleJob(r, k, runs[r], "FAILED", 1)
  /\ MayHaveActed(r, k, StepAt(r, k))

(* The job parks, its lease and fence released, its device lock kept. *)
Park(r, k) ==
  LET job == runs[r].kids[k]
      pending == [name |-> StepAt(r, k).name, status |-> "PENDING", stage |-> "command"]
  IN  /\ AtStep(r, k)
      /\ ~SkippedByPlan(r, k)
      /\ MustPark(r, k)
      /\ UpdateJob(r, k, [job EXCEPT
           !.status = "PENDING_MANUAL",
           !.log = @ \cup {pending},
           !.parked = IF runs[r].guided /\ job.parked # "continued"
                        /\ EntryOf(runs[r], k).phase # PhaseRollback
                      THEN "guided" ELSE "manual"])
      /\ UNCHANGED <<applied, mishaps>>


(* "Continuar" sends the guided step; "Hecho" confirms the manual one. *)
Resume(r, k) ==
  LET job == runs[r].kids[k]
      unparked == [job EXCEPT !.status = "QUEUED", !.log = NotPending(@)]
  IN  /\ job.status = "PENDING_MANUAL"
      /\ \/ /\ job.parked = "guided"
            /\ UpdateJob(r, k, [unparked EXCEPT !.parked = "continued"])
            /\ UNCHANGED applied
         \/ /\ job.parked = "manual"
            /\ UpdateJob(r, k, Logged(unparked, StepAt(r, k), "SUCCEEDED", "command"))
            /\ applied' = Acted(r, k, StepAt(r, k))
      /\ UNCHANGED mishaps

-----------------------------------------------------------------------------
FailParked(r, k) ==
  LET job == runs[r].kids[k]
  IN  /\ job.status = "PENDING_MANUAL"
      /\ SettleJob(r, k, [runs[r] EXCEPT !.kids[k] = PendingFailed(@)], "FAILED", 0)
      /\ IF job.parked = "guided" THEN UNCHANGED applied
                                  ELSE MayHaveActed(r, k, StepAt(r, k))

(* The cancel endpoint (external): the child is cancelled and its lock     *)
(* freed, and the run advanced, in one commit.  A job is cancelled between *)
(* steps; a person may already have acted on a parked manual step.         *)
Cancel(r, k) ==
  LET job == runs[r].kids[k]
  IN  /\ IsLive(job)
      /\ job.inflight = NoStep
      /\ Commit(r, AdvanceRun(Cancelled(runs[r], k), k))
      /\ IF job.status = "PENDING_MANUAL" /\ job.parked = "manual"
         THEN MayHaveActed(r, k, StepAt(r, k))
         ELSE UNCHANGED applied
      /\ Spend(1)
      /\ UNCHANGED <<version, reparents>>

(* A duplicate or stale settle: advance_run on a child already handled. *)
AdvanceAgain(r, k) ==
  /\ AdvanceRun(runs[r], k).row # runs[r]
  /\ Commit(r, AdvanceRun(runs[r], k))
  /\ UNCHANGED <<version, reparents, mishaps, applied>>

-----------------------------------------------------------------------------
(* The reaper's backstop and the office actions.                           *)

RepairStrandedRun(r) ==
  /\ Stranded(runs[r])
  /\ \/ Commit(r, RepairFresh(runs[r]))
     \/ Commit(r, RepairExpired(runs[r]))
  /\ UNCHANGED <<version, reparents, mishaps, applied>>

-----------------------------------------------------------------------------
(* The office actions.                                                     *)

InFlightForService(r) ==
  \E q \in RunIds \ {r} :
    runs[q].service = runs[r].service /\ runs[q].status \in InFlight

LaterRunForService(r) ==
  \E q \in RunIds : q > r /\ runs[q].service = runs[r].service /\ ~runs[q].dry

\* Mutant: only the runs in flight are looked at.
RefusesOnlyInFlight(r) == InFlightForService(r)

\* Mutant: only the later runs are looked at.
RefusesOnlyLater(r) == LaterRunForService(r)

ServiceRefusal(r) == InFlightForService(r) \/ LaterRunForService(r)

(* What a run's own row refuses ... *)
NotRevertible(r) ==
  \/ runs[r].dry
  \/ runs[r].status # "SUCCEEDED"
  \/ runs[r].phase = NoPhase
  \/ runs[r].purpose # PurposeActivation

NotRetryable(r) ==
  \/ runs[r].dry
  \/ runs[r].status # "FAILED"
  \/ runs[r].code # "ROLLBACK_INCOMPLETE"
  \/ runs[r].phase = NoPhase

(* ... and what the other runs of its service do. *)
RevertRefusal(r) == NotRevertible(r) \/ ServiceRefusal(r)

RollbackRetryRefusal(r) == NotRetryable(r) \/ ServiceRefusal(r)

(* Bound: with nothing to undo a retry closes the run again at once and    *)
(* announces it again, as often as the office asks.                        *)
MaxOutbox == 2 * MaxPlan

(* revert_run or retry_rollback locks the row and is not refused. *)
PassRefusal(r) ==
  /\ r \notin deciding
  /\ Len(runs[r].plan) < MaxPlan
  /\ \/ ~RevertRefusal(r)
     \/ ~RollbackRetryRefusal(r) /\ Len(runs[r].outbox) < MaxOutbox
  /\ deciding' = deciding \cup {r}
  /\ UNCHANGED <<tables, unseen>>

(* The rest of revert_run and its caller's commit: the row is locked, so   *)
(* what it refused is as it was; of the service that is not known.         *)
RevertRun(r) ==
  /\ r \in deciding
  /\ ~NotRevertible(r)
  /\ Commit(r, Left(Reverted(runs[r])))
  /\ deciding' = deciding \ {r}
  /\ UNCHANGED <<version, reparents, mishaps, applied, unseen>>

(* Likewise retry_rollback. *)
RetryRollback(r) ==
  /\ r \in deciding
  /\ ~NotRetryable(r)
  /\ Commit(r, Left(Retried(runs[r])))
  /\ deciding' = deciding \ {r}
  /\ UNCHANGED <<version, reparents, mishaps, applied, unseen>>

-----------------------------------------------------------------------------
(* The specification.                                                      *)

(* A run opened before engine v2: entries without a phase, leaf first. *)
LegacyRun(s, dry) ==
  [service |-> s, purpose |-> PurposeActivation, dry |-> dry, guided |-> FALSE,
   revision |-> 0, status |-> "QUEUED", phase |-> NoPhase,
   plan |-> [i \in 1 .. Len(Path[s][0]) |-> PlanEntry(Path[s][0][i], 1, NoPhase, FALSE)],
   code |-> NoCode, cause |-> NoCode, noRollback |-> {},
   outputs |-> [d \in Devices |-> 0], kids |-> <<NewJob(1)>>, outbox |-> <<>>]

Init ==
  /\ runs \in {<<>>} \cup {<<LegacyRun(s, dry)>> : s \in LegacyServices, dry \in DryRuns}
  /\ version = [d \in Devices |-> 1]
  /\ lastDry = [d \in Devices |-> Simulated]
  /\ reparents = [s \in Services |-> 0]
  /\ drift = [s \in Services |-> FALSE]
  /\ mishaps = MaxMishaps
  /\ applied = {}
  /\ deciding = {}
  /\ unseen = {}

Produce ==
  \E s \in Services, p \in RunPurposes, dry \in DryRuns, guided \in GuidedRuns :
    CreateOrGetRun(s, p, dry, guided)

(* What moves a job on without anybody asking. *)
WorkerStep(r, k) ==
  \/ Claim(r, k)
  \/ RefuseClaim(r, k)
  \/ SkipStep(r, k)
  \/ StartStep(r, k)
  \/ EndStep(r, k)
  \/ Settle(r, k)
  \/ ReapUnknown(r, k)
  \/ Park(r, k)
  \/ FailParked(r, k)

JobStep(r, k) ==
  \/ WorkerStep(r, k)
  \/ Requeue(r, k)
  \/ Resume(r, k)
  \/ Cancel(r, k)
  \/ AdvanceAgain(r, k)

(* The runs this step opens on a service that an office action on another  *)
(* run found free.                                                         *)
OpenedUnseen ==
  {q \in 1 .. Len(runs') \ RunIds : \E r \in deciding : runs[r].service = runs'[q].service}

(* Everything but the office's reverts and rollback retries. *)
EngineStep ==
  /\ \/ Produce
     \/ \E d \in Devices : EditPlaybook(d)
     \/ \E s \in Services : Reparent(s)
     \/ \E r \in RunIds : \/ \E k \in 1 .. Len(runs[r].kids) : JobStep(r, k)
                          \/ RepairStrandedRun(r)
  /\ unseen' = unseen \cup OpenedUnseen
  /\ UNCHANGED deciding

OfficeStep == \E r \in RunIds : PassRefusal(r) \/ RevertRun(r) \/ RetryRollback(r)

Next == EngineStep \/ OfficeStep

(***************************************************************************)
(* The worker polls for jobs, the reaper for stale leases, expired pauses  *)
(* and stranded runs; nobody has to ask for a run, cancel or revert one.   *)
(***************************************************************************)
Progress(r) ==
  /\ r \in RunIds
  /\ RepairStrandedRun(r) \/ \E k \in 1 .. Len(runs[r].kids) : WorkerStep(r, k)
  /\ UNCHANGED <<deciding, unseen>>

Spec == Init /\ [][Next]_vars

FairSpec == Spec /\ \A r \in 1 .. MaxRuns : WF_vars(Progress(r))

-----------------------------------------------------------------------------
(* Properties.                                                             *)

TablesOK ==
  /\ runs \in Seq(Run)
  /\ version \in [Devices -> Versions]
  /\ lastDry \in [Devices -> 0 .. MaxVersion]
  /\ reparents \in [Services -> PathRevisions]
  /\ drift \in [Services -> BOOLEAN]
  /\ mishaps \in 0 .. MaxMishaps
  /\ applied \subseteq (1 .. Len(runs)) \X Devices \X Names

(* The tables hold what their columns may hold. *)
TypeOK == TablesOK /\ deciding \subseteq RunIds /\ unseen \subseteq RunIds

(***************************************************************************)
(* "At most one child of a run is QUEUED or RUNNING at once", it is the    *)
(* last one, and a closed run has none: whatever settles, cancels, stale   *)
(* advances, repairs and office actions interleave.                        *)
(***************************************************************************)
OneLiveChild ==
  \A r \in RunIds :
    /\ LiveKids(runs[r]) \subseteq {Len(runs[r].kids)}
    /\ runs[r].status \in Terminal => LiveKids(runs[r]) = {}

AppliedBy(r) == {a \in applied : a[1] = r}

(* A run opened before engine v2, whose entries have no phase. *)
Legacy(w) == \E i \in 1 .. Len(w.plan) : w.plan[i].phase = NoPhase

(***************************************************************************)
(* A live run of engine v2 that closed FAILED or CANCELLED without         *)
(* ROLLBACK_INCOMPLETE tells the operator that its devices are untouched:  *)
(* they are, even when an executor died mid-step, a person acted on a      *)
(* parked step, or the advance that should have seen the failure was lost. *)
(* A run older than the engine promises no such thing: _advance_legacy     *)
(* closes it with its child's status and rolls nothing back.               *)
(***************************************************************************)
FailedMeansUntouched ==
  \A r \in RunIds :
    /\ ~Legacy(runs[r])
    /\ runs[r].status \in {"FAILED", "CANCELLED"}
    /\ runs[r].code # "ROLLBACK_INCOMPLETE"
    => AppliedBy(r) = {}

(* A playbook with a rollback that has no step for n, or none but a probe  *)
(* such as a ping: its author may omit one.                                *)
Uncovered(w, d, n) ==
  \E i \in 1 .. Len(w.plan) :
    /\ w.plan[i].item = d
    /\ LET rollback == DefinitionFor(w.plan[i])[PhaseRollback]
       IN  /\ rollback # <<>>
           /\ \A j \in 1 .. Len(rollback) :
                rollback[j].undoes \in {NoStep, n} => rollback[j].driver \in NoUndoDrivers

(***************************************************************************)
(* ROLLED_BACK is earned: after a forward failure, a revert or retried     *)
(* rollbacks, a device keeps nothing of the run except steps that the      *)
(* author of its rollback left uncovered.                                  *)
(***************************************************************************)
RolledBackIsRestored ==
  \A r \in RunIds :
    runs[r].status = "ROLLED_BACK" =>
      \A a \in AppliedBy(r) : Uncovered(runs[r], a[2], a[3])

(***************************************************************************)
(* No device of a live run is configured before every earlier entry        *)
(* succeeded, and a run that started to roll back never configures again.  *)
(***************************************************************************)
ForwardNeedsSuccess ==
  \A r \in RunIds :
    \A j \in 1 .. Len(runs[r].kids) : \A i \in 1 .. (j - 1) :
      /\ ~runs[r].dry
      /\ EntryOf(runs[r], j).phase # PhaseRollback
      => /\ runs[r].kids[i].status = "SUCCEEDED"
         /\ EntryOf(runs[r], i).phase # PhaseRollback

(***************************************************************************)
(* While the latest live run of a service stands SUCCEEDED, every step it  *)
(* logged as done is still on its device: no older run's rollback, revert  *)
(* or rollback retry takes it away.  It may when the run was opened        *)
(* between the guard of such an office action and its commit, since        *)
(* _service_refusal locks none of the runs it reads: that is the only      *)
(* moment in which "a corrective run that succeeded" can be undone.        *)
(***************************************************************************)
LatestSuccessStands ==
  \A r \in RunIds \ unseen :
    /\ runs[r].status = "SUCCEEDED"
    /\ ~runs[r].dry
    /\ ~LaterRunForService(r)
    => \A k \in KidsOfPhase(runs[r], PhaseConfiguration) :
         \A e \in runs[r].kids[k].log :
           LET d == EntryOf(runs[r], k).item
               cfg == DefinitionFor(EntryOf(runs[r], k))[PhaseConfiguration]
           IN  /\ e.status = "SUCCEEDED"
               /\ \E i \in 1 .. Len(cfg) : cfg[i].name = e.name
                                         /\ cfg[i].driver \notin NoUndoDrivers
               => <<r, d, e.name>> \in applied

(***************************************************************************)
(* A closed run is reopened only by the office, only to roll back, and     *)
(* while it is the newest live run of a service nothing else runs on: of   *)
(* every other run of the service, unless one of the two was opened        *)
(* between the guard of an office action and its commit, the commit finds  *)
(* what the guard has read.                                                *)
(***************************************************************************)
ReopenedOnlyToRollBack ==
  [][\A r \in RunIds :
       /\ runs[r].status \in Terminal
       /\ runs'[r] # runs[r]
       => /\ runs'[r].phase = PhaseRollback
          /\ \/ runs[r].status = "SUCCEEDED"
             \/ runs[r].code = "ROLLBACK_INCOMPLETE"
          /\ \A q \in RunIds \ {r} :
               runs[q].service = runs[r].service =>
                 \/ runs[q].status \in Terminal /\ (runs[q].dry \/ q < r)
                 \/ {q, r} \cap unseen # {}]_vars

(***************************************************************************)
(* A device whose rollback succeeded is not rolled back again by a retry,  *)
(* and each attempt goes through the devices against configuration order.  *)
(***************************************************************************)
RollbackAgainstTheOrder ==
  \A r \in RunIds : \A j \in KidsOfPhase(runs[r], PhaseRollback) :
    LET item(k) == EntryOf(runs[r], k).item
        before == {i \in KidsOfPhase(runs[r], PhaseRollback) : i < j}
        tried == {i \in before : item(i) = item(j)}
    IN  ~runs[r].dry =>
          /\ \A i \in tried : runs[r].kids[i].status # "SUCCEEDED"
          /\ tried = {} =>
               \A i \in before : \A c, d \in KidsOfPhase(runs[r], PhaseConfiguration) :
                 item(c) = item(i) /\ item(d) = item(j) => d < c

(* A rolled-back run still says why it was rolled back, however often its  *)
(* rollback had to be retried.                                             *)
RolledBackKeepsItsCause ==
  \A r \in RunIds :
    runs[r].status = "ROLLED_BACK" =>
      runs[r].code = runs[r].cause /\ runs[r].cause \in CauseCodes

(***************************************************************************)
(* The last RUN_CLOSED event of a closed live run carries the outcome the  *)
(* run ended with, although a run may close several times.                 *)
(***************************************************************************)
LastEventTellsTheOutcome ==
  \A r \in RunIds :
    runs[r].status \in Terminal /\ ~runs[r].dry =>
      \E n \in 1 .. Len(runs[r].outbox) :
        /\ runs[r].outbox[n] = RunClosed(runs[r].status, runs[r].code)
        /\ \A m \in (n + 1) .. Len(runs[r].outbox) : runs[r].outbox[m].kind # "RUN_CLOSED"

(***************************************************************************)
(* JOB_FINISHED of the child that closes its run follows RUN_CLOSED: its   *)
(* consumer reads the run's status and must see it closed.                 *)
(***************************************************************************)
FinishFollowsClose ==
  [][\A r \in RunIds :
       /\ runs[r].status \in InFlight
       /\ runs'[r].status \in Terminal
       /\ Len(runs'[r].outbox) > Len(runs[r].outbox) + 1
       => runs'[r].outbox[Len(runs'[r].outbox)].kind = "JOB_FINISHED"]_vars

(***************************************************************************)
(* The dry-run gate: every playbook version a live run executes was part   *)
(* of a dry run in which every child succeeded, or was simulated before    *)
(* the start, except where the playbook has a system name: those go live   *)
(* as they are, a tenant's own among them.  Edits may land at any moment.  *)
(***************************************************************************)
LiveVersionsWereSimulated ==
  \A r \in RunIds : \A i \in 1 .. Len(runs[r].plan) :
    LET e == runs[r].plan[i]
    IN  \/ runs[r].dry
        \/ e.phase = NoPhase
        \/ e.item \in SystemDevices
        \/ e.version <= Simulated
        \/ \E q \in 1 .. (r - 1) :
             /\ runs[q].dry
             /\ \A k \in 1 .. Len(runs[q].kids) : runs[q].kids[k].status = "SUCCEEDED"
             /\ \E k \in 1 .. Len(runs[q].kids) :
                  /\ EntryOf(runs[q], k).item = e.item
                  /\ EntryOf(runs[q], k).version = e.version

(***************************************************************************)
(* A run that succeeded shows the latest outputs of every device, whatever *)
(* advances were lost, repeated or made up for by the repair: each child's *)
(* outputs were merged, and none by an older child's.                      *)
(***************************************************************************)
SuccessShowsItsOutputs ==
  \A r \in RunIds :
    runs[r].status = "SUCCEEDED" /\ runs[r].phase # NoPhase =>
      \A k \in 1 .. Len(runs[r].kids) :
        Published(runs[r].kids[k]) =>
          runs[r].outputs[EntryOf(runs[r], k).item] >= runs[r].kids[k].position

(***************************************************************************)
(* What _succeed says of path_changed_at: the path a service was           *)
(* provisioned against is now the path it sits on, so the drift is         *)
(* settled.  A step that clears it is the success of a run planned on the  *)
(* path as it is now.                                                      *)
(***************************************************************************)
DriftSettledOnTheCurrentPath ==
  [][\A s \in Services :
       drift[s] /\ ~drift'[s] =>
         \E r \in RunIds : /\ runs[r].status \in InFlight
                           /\ runs'[r].status = "SUCCEEDED"
                           /\ runs[r].service = s
                           /\ runs[r].revision = reparents[s]]_vars

(***************************************************************************)
(* Every run closes: a lost advance, a dead executor, a device that never  *)
(* answers or a pause nobody answers cannot hold a run open for ever.      *)
(***************************************************************************)
EveryRunCloses ==
  \A r \in 1 .. MaxRuns :
    (r \in RunIds /\ runs[r].status \in InFlight)
      ~> (r \in RunIds /\ runs[r].status \in Terminal)
=============================================================================
