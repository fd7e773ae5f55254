------------------------------ MODULE RunRows ------------------------------
(***************************************************************************)
(* A provisioning_run row with its children and its events, and what each  *)
(* function of utils/provisioning_runs.py (and finish_job, fail_parked of  *)
(* utils/provisioning_jobs.py) turns it into: functions from rows to rows, *)
(* which ProvisioningRuns commits as transactions.                         *)
(***************************************************************************)
EXTENDS RunPlan

CONSTANTS
  PhaseMaxAttempts,  \* attempts per step, by phase
  LegacyAttempts     \* max_attempts of a child older than engine v2

ASSUME RunRowsAssumption ==
  /\ PhaseMaxAttempts \in [Phases -> Nat \ {0}]
  /\ LegacyAttempts \in Nat \ {0}

InFlight == {"QUEUED", "RUNNING", "PENDING_INFORM", "PENDING_MANUAL"}
Terminal == {"SUCCEEDED", "FAILED", "ROLLED_BACK", "CANCELLED"}

NoCode == "NULL"
CauseCodes == {"CONFIGURATION_FAILED", "VERIFICATION_FAILED", "CANCELLED",
               "STRANDED_RUN_EXPIRED", "REVERTED"}
Codes == CauseCodes \cup {"PRECONDITION_FAILED", "ROLLBACK_INCOMPLETE", NoCode}

LogEntry == [name : StepNames, status : {"SUCCEEDED", "FAILED", "SKIPPED", "PENDING"},
             stage : {"connect", "render", "command"}]

Job == [position : Nat, status : InFlight \cup Terminal, next : Nat \ {0},
        log : SUBSET LogEntry, inflight : StepNames \cup {NoStep},
        interrupted : StepNames \cup {NoStep}, lock : BOOLEAN, attempts : Nat,
        failed : BOOLEAN, parked : {"no", "manual", "guided", "continued"}]

Event == [kind : {"RUN_CLOSED", "JOB_FINISHED"}, status : Terminal, code : Codes]

Run == [service : Services, purpose : Purposes, dry : BOOLEAN, guided : BOOLEAN,
        revision : PathRevisions, status : InFlight \cup Terminal,
        phase : Phases \cup {NoPhase}, plan : Seq(Entry), code : Codes, cause : Codes,
        noRollback : SUBSET Devices, outputs : [Devices -> Nat], kids : Seq(Job),
        outbox : Seq(Event)]

IsLive(job) == job.status \in InFlight
LiveKids(w) == {k \in 1 .. Len(w.kids) : IsLive(w.kids[k])}
EntryOf(w, k) == w.plan[w.kids[k].position]

-----------------------------------------------------------------------------
(* Queueing and closing.                                                   *)

NewJob(position) ==
  [position |-> position, status |-> "QUEUED", next |-> 1, log |-> {},
   inflight |-> NoStep, interrupted |-> NoStep, lock |-> FALSE, attempts |-> 0,
   failed |-> FALSE, parked |-> "no"]

MaxAttempts(e) ==
  IF e.phase = NoPhase THEN LegacyAttempts
  ELSE PhaseMaxAttempts[e.phase] *
         (IF JobSteps(e) = <<>> THEN 1 ELSE Len(JobSteps(e)))

(* The caller has checked that the plan reaches `position`. *)
QueueChild(w, position) ==
  LET phase == w.plan[position].phase
  IN  [w EXCEPT !.phase = IF phase = NoPhase THEN @ ELSE phase,
                !.kids = Append(@, NewJob(position))]

RunClosed(status, code) == [kind |-> "RUN_CLOSED", status |-> status, code |-> code]
JobFinished(status) == [kind |-> "JOB_FINISHED", status |-> status, code |-> NoCode]

\* Mutant: the event is written from the argument, not from the row.
CloseRunAnnouncesArgument(w, status, code) ==
  [w EXCEPT !.status = status,
            !.code = IF code = NoCode THEN @ ELSE code,
            !.outbox = IF w.dry THEN @ ELSE Append(@, RunClosed(status, code))]

CloseRun(w, status, code) ==
  LET kept == IF code = NoCode THEN w.code ELSE code
  IN  [w EXCEPT !.status = status,
                !.code = kept,
                !.outbox = IF w.dry THEN @ ELSE Append(@, RunClosed(status, kept))]

(***************************************************************************)
(* What a transaction leaves behind: the run's row, and whether it also    *)
(* settles the service's path drift or stamps the simulated playbooks.     *)
(***************************************************************************)
Left(w) == [row |-> w, settlesPath |-> FALSE, stamps |-> FALSE]

-----------------------------------------------------------------------------
(* Rollback planning.                                                      *)

(* The steps the log shows to have reached the device, or perhaps to have. *)
LoggedSteps(job) ==
  {e.name : e \in {x \in job.log :
      /\ x.status # "SKIPPED"
      /\ ~(x.status = "FAILED" /\ x.stage \in {"connect", "render"})}}

\* Mutant: the step an executor died in is forgotten.
RanStepsForgetsInterrupted(job) == LoggedSteps(job) \ {SessionProbeName}

\* Mutant: a missing interrupted step counts as one that ran.
RanStepsKeepsNone(job) == (LoggedSteps(job) \cup {job.interrupted}) \ {SessionProbeName}

(* The configuration steps of a child that may have changed its device.    *)
RanSteps(job) ==
  (LoggedSteps(job) \cup {job.interrupted}) \ {NoStep, SessionProbeName}

Published(job) == \E e \in job.log : e.status = "SUCCEEDED"

\* Mutant: the first writer of an output wins.
MergeOutputsOnce(w, k) ==
  IF Published(w.kids[k]) /\ w.outputs[EntryOf(w, k).item] = 0
  THEN [w EXCEPT !.outputs[EntryOf(w, k).item] = w.kids[k].position]
  ELSE w

MergeOutputs(w, k) ==
  IF Published(w.kids[k])
  THEN [w EXCEPT !.outputs[EntryOf(w, k).item] = w.kids[k].position]
  ELSE w

KidsOfPhase(w, phase) == {k \in 1 .. Len(w.kids) : EntryOf(w, k).phase = phase}

Touched(w, items) ==
  {k \in KidsOfPhase(w, PhaseConfiguration) :
     EntryOf(w, k).item \in items /\ RanSteps(w.kids[k]) # {}}

(* A rollback step tied to a configuration step that did not run is skipped. *)
Skips(step, ran) == step.undoes # NoStep /\ step.undoes \notin ran

RollbackOf(w, k) == DefinitionFor(EntryOf(w, k))[PhaseRollback]

(* Touched devices that have no rollback although a step that ran needs one. *)
LacksRollback(w, k) ==
  /\ RollbackOf(w, k) = <<>>
  /\ LET cfg == DefinitionFor(EntryOf(w, k))[PhaseConfiguration]
     IN  \E n \in RanSteps(w.kids[k]) :
           ~\E i \in 1 .. Len(cfg) : cfg[i].name = n /\ cfg[i].driver \in NoUndoDrivers

NoRollbackItems(w, items) ==
  {EntryOf(w, k).item : k \in {t \in Touched(w, items) : LacksRollback(w, t)}}

NeedsEntry(w, k) ==
  \E i \in 1 .. Len(RollbackOf(w, k)) : ~Skips(RollbackOf(w, k)[i], RanSteps(w.kids[k]))

\* Mutant: devices are rolled back in the order they were configured.
RollbackInConfigurationOrder(w, items) ==
  Ascending({k \in Touched(w, items) : NeedsEntry(w, k)})

(* The children to roll back, in reverse configuration order. *)
RollbackOrder(w, items) ==
  Backwards(Ascending({k \in Touched(w, items) : NeedsEntry(w, k)}))

RollbackEntries(w, items) ==
  LET order == RollbackOrder(w, items)
  IN  [i \in 1 .. Len(order) |->
         [EntryOf(w, order[i]) EXCEPT !.phase = PhaseRollback, !.probe = FALSE,
                                      !.ran = RanSteps(w.kids[order[i]])]]

RecordRollback(w, items) ==
  [w EXCEPT !.noRollback = @ \cup NoRollbackItems(w, items),
            !.plan = @ \o RollbackEntries(w, items)]

SetCause(w, code) ==
  [w EXCEPT !.cause = code, !.code = code, !.noRollback = {}]

(* Queue the first entry the transaction appended, or close at once. *)
CloseAfterRollbackPlanned(w, planned) ==
  IF Len(w.plan) < Len(planned.plan)
  THEN [QueueChild(planned, Len(w.plan) + 1) EXCEPT !.phase = PhaseRollback,
                                                   !.status = "RUNNING"]
  ELSE IF NoRollbackItems(w, Devices) # {}
       THEN CloseRun(planned, "FAILED", "ROLLBACK_INCOMPLETE")
       ELSE CloseRun(planned, "ROLLED_BACK", NoCode)

EnterRollback(w, code, cancelled) ==
  LET caused == SetCause(w, code)
  IN  IF Touched(w, Devices) = {}
      THEN CloseRun(caused, IF cancelled THEN "CANCELLED" ELSE "FAILED", NoCode)
      ELSE CloseAfterRollbackPlanned(caused, RecordRollback(caused, Devices))

(* The latest ROLLBACK child of a device failed. *)
RollbackKids(w, d) ==
  {k \in KidsOfPhase(w, PhaseRollback) : EntryOf(w, k).item = d}

\* Mutant: a cancelled rollback child does not count as a failed one.
RollbackFailedUnlessCancelled(w, d) ==
  \E k \in RollbackKids(w, d) :
    /\ w.kids[k].status = "FAILED"
    /\ \A j \in RollbackKids(w, d) : j <= k

RollbackFailed(w, d) ==
  \E k \in RollbackKids(w, d) :
    /\ w.kids[k].status # "SUCCEEDED"
    /\ \A j \in RollbackKids(w, d) : j <= k

\* Mutant: only the devices without a rollback keep a run from ROLLED_BACK.
FinishRollbackRegardless(w) ==
  IF w.noRollback = {} THEN CloseRun(w, "ROLLED_BACK", NoCode)
  ELSE CloseRun(w, "FAILED", "ROLLBACK_INCOMPLETE")

FinishRollback(w) ==
  IF w.noRollback = {} /\ \A d \in Devices : ~RollbackFailed(w, d)
  THEN CloseRun(w, "ROLLED_BACK", NoCode)
  ELSE CloseRun(w, "FAILED", "ROLLBACK_INCOMPLETE")

-----------------------------------------------------------------------------
(* Advancing.                                                              *)

FinishDryRun(w) ==
  LET ok == w.kids # <<>> /\ \A k \in 1 .. Len(w.kids) : w.kids[k].status = "SUCCEEDED"
  IN  [row |-> CloseRun(w, IF ok THEN "SUCCEEDED" ELSE "FAILED", NoCode),
       settlesPath |-> FALSE, stamps |-> ok]

Succeed(w) ==
  [row |-> CloseRun(w, "SUCCEEDED", NoCode),
   settlesPath |-> w.purpose \in {PurposeActivation, "CPE_SWAP"}, stamps |-> FALSE]

QueueNext(w, k) ==
  [QueueChild(w, w.kids[k].position + 1) EXCEPT !.status = "RUNNING"]

PlanReaches(w, k) == w.kids[k].position + 1 <= Len(w.plan)

AdvanceLegacy(w, k) ==
  IF w.kids[k].status # "SUCCEEDED" THEN Left(CloseRun(w, w.kids[k].status, NoCode))
  ELSE IF PlanReaches(w, k) THEN Left(QueueNext(w, k))
  ELSE IF w.dry THEN Left(CloseRun(w, "SUCCEEDED", NoCode))
  ELSE Succeed(w)

(* The end of the plan, by what the run was doing. *)
FinishRun(w, phase) ==
  IF w.dry THEN FinishDryRun(w)
  ELSE IF phase = PhaseRollback THEN Left(FinishRollback(w))
  ELSE Succeed(w)

(* A forward child of a live run did not succeed. *)
ForwardFailure(w, phase, cancelled) ==
  IF phase = PhasePreconditions
  THEN IF cancelled THEN CloseRun(w, "CANCELLED", "CANCELLED")
                    ELSE CloseRun(w, "FAILED", "PRECONDITION_FAILED")
  ELSE EnterRollback(w, IF cancelled THEN "CANCELLED"
                        ELSE IF phase = PhaseConfiguration THEN "CONFIGURATION_FAILED"
                        ELSE "VERIFICATION_FAILED", cancelled)

\* Mutant: a child that already has a successor advances the run again.
AdvanceTwice(w, k) == w.status \notin InFlight \/ IsLive(w.kids[k])

(* Child k's outcome advances the run, once: a closed run, a live child    *)
(* and a child that already has a successor are left alone.                *)
AdvanceIsNoop(w, k) ==
  \/ w.status \notin InFlight
  \/ IsLive(w.kids[k])
  \/ \E j \in 1 .. Len(w.kids) : w.kids[j].position > w.kids[k].position

\* Mutant: a cancelled child lets the run go on.
MovesOnWhenCancelled(w, k) ==
  w.dry \/ w.kids[k].status # "FAILED" \/ EntryOf(w, k).phase = PhaseRollback

(* Rollback and dry runs are best-effort; a live run needs a success. *)
MovesOn(w, k) ==
  w.dry \/ w.kids[k].status = "SUCCEEDED" \/ EntryOf(w, k).phase = PhaseRollback

AdvanceRun(w, k) ==
  LET phase == EntryOf(w, k).phase
      merged == MergeOutputs(w, k)
  IN  IF AdvanceIsNoop(w, k) THEN Left(w)
      ELSE IF phase = NoPhase THEN AdvanceLegacy(w, k)
      ELSE IF MovesOn(w, k)
           THEN IF PlanReaches(w, k) THEN Left(QueueNext(merged, k))
                                     ELSE FinishRun(merged, phase)
      ELSE Left(ForwardFailure(merged, phase, w.kids[k].status = "CANCELLED"))

(* finish_job: the outcome always commits; advance_run and the event are   *)
(* follow-ons that may fail alone.  The executor's cursor (next, attempts, *)
(* failed) is dropped with its claim: nothing reads it again.              *)
Unclaimed(job) ==
  [job EXCEPT !.lock = FALSE, !.parked = "no", !.inflight = NoStep,
              !.next = 1, !.attempts = 0, !.failed = FALSE]

FinishedJob(job, status) ==
  [Unclaimed(job) EXCEPT
     !.status = status,
     !.interrupted = IF status # "SUCCEEDED" /\ job.inflight # NoStep
                     THEN job.inflight ELSE job.interrupted]

Finished(w, k, status) == [w EXCEPT !.kids[k] = FinishedJob(@, status)]

\* Mutant: the job's event is written before the run advances.
FinishJobEmitsFirst(w, k, status, advances, emits) ==
  LET told == IF emits THEN [w EXCEPT !.outbox = Append(@, JobFinished(status))] ELSE w
  IN  IF advances THEN AdvanceRun(Finished(told, k, status), k)
                  ELSE Left(Finished(told, k, status))

FinishJob(w, k, status, advances, emits) ==
  LET after == IF advances THEN AdvanceRun(Finished(w, k, status), k)
                           ELSE Left(Finished(w, k, status))
  IN  IF emits THEN [after EXCEPT !.row.outbox = Append(@, JobFinished(status))]
               ELSE after

NotPending(log) == {e \in log : e.status # "PENDING"}

(* fail_parked: the expiry of a pause, or "Abortar".  The pending entry    *)
(* fails at stage render when it was guided (never sent), else at command  *)
(* (the person may have changed the device).                               *)
PendingFailed(job) ==
  LET stage == IF job.parked = "guided" THEN "render" ELSE "command"
  IN  [job EXCEPT !.inflight = NoStep,
                  !.log = NotPending(@) \cup
                     {[e EXCEPT !.status = "FAILED", !.stage = stage] :
                        e \in job.log \ NotPending(job.log)}]

(* The cancel endpoint (external) frees the lock; it leaves the log alone. *)
Cancelled(w, k) ==
  [w EXCEPT !.kids[k] = [Unclaimed(@) EXCEPT !.status = "CANCELLED"]]

-----------------------------------------------------------------------------
(* The reaper's backstop.                                                  *)

LastIsFinal(w) ==
  /\ w.kids # <<>>
  /\ w.kids[Len(w.kids)].status = "SUCCEEDED"
  /\ w.kids[Len(w.kids)].position = Len(w.plan)

AdvanceLast(w) == AdvanceRun(w, Len(w.kids))

\* Mutant: an expired run is closed without looking at its devices.
RepairExpiredClosesAll(w) == Left(CloseRun(w, "FAILED", "STRANDED_RUN_EXPIRED"))

(* What one stranded run becomes when it was quiet past STRANDED_RUN_MAX_AGE *)
RepairExpired(w) ==
  IF w.phase = PhaseRollback /\ ~w.dry
  THEN IF w.kids = <<>> THEN Left(CloseRun(w, "FAILED", "ROLLBACK_INCOMPLETE"))
                        ELSE AdvanceLast(w)
  ELSE IF ~w.dry /\ LastIsFinal(w) THEN AdvanceLast(w)
  ELSE IF ~w.dry /\ w.phase \in {PhaseConfiguration, PhaseVerification}
       THEN Left(EnterRollback(w, "STRANDED_RUN_EXPIRED", FALSE))
  ELSE Left(CloseRun(w, "FAILED", "STRANDED_RUN_EXPIRED"))

(* ... and when it was quiet for less than that. *)
RepairFresh(w) ==
  IF w.kids # <<>> THEN AdvanceLast(w)
  ELSE IF w.plan = <<>> THEN Left(CloseRun(w, "SUCCEEDED", NoCode))
  ELSE Left(QueueChild(w, 1))

\* Mutant: the sweep looks at RUNNING runs only.
StrandedRunning(w) == w.status = "RUNNING" /\ LiveKids(w) = {}

Stranded(w) == w.status \in InFlight /\ LiveKids(w) = {}

-----------------------------------------------------------------------------
(* The office actions.                                                     *)

Reopened(w) == [w EXCEPT !.status = "RUNNING", !.phase = PhaseRollback]

Reverted(w) ==
  LET caused == Reopened(SetCause(w, "REVERTED"))
  IN  CloseAfterRollbackPlanned(caused, RecordRollback(caused, Devices))

(* The devices whose latest ROLLBACK child failed, or never ran. *)
RetryItems(w) ==
  {d \in Devices :
     /\ \E i \in 1 .. Len(w.plan) : w.plan[i].item = d /\ w.plan[i].phase = PhaseRollback
     /\ RollbackKids(w, d) = {} \/ RollbackFailed(w, d)}

\* Mutant: the reopened run keeps ROLLBACK_INCOMPLETE as its code.
RetriedKeepsCode(w) ==
  LET planned == RecordRollback(Reopened(w), RetryItems(w))
  IN  IF Len(w.plan) < Len(planned.plan) THEN QueueChild(planned, Len(w.plan) + 1)
      ELSE FinishRollback(planned)

Retried(w) ==
  LET reopened == [Reopened(w) EXCEPT !.code = IF w.cause = NoCode THEN @ ELSE w.cause]
      planned == RecordRollback(reopened, RetryItems(w))
  IN  IF Len(w.plan) < Len(planned.plan) THEN QueueChild(planned, Len(w.plan) + 1)
      ELSE FinishRollback(planned)
=============================================================================
