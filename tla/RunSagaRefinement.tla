-------------------------- MODULE RunSagaRefinement --------------------------
(***************************************************************************)
(* The engine implements the saga: every behaviour of ProvisioningRuns is  *)
(* one of RunSaga, with a run's stage read off its row and its dirt off    *)
(* the devices themselves.                                                 *)
(***************************************************************************)
EXTENDS ProvisioningRuns

StageOf(w) ==
  IF Legacy(w) THEN "legacy"
  ELSE IF w.status \in InFlight
  THEN IF w.phase = PhaseRollback /\ ~w.dry THEN "undoing" ELSE "forward"
  ELSE IF w.status = "SUCCEEDED" THEN "done"
  ELSE IF w.code = "ROLLBACK_INCOMPLETE" THEN "stuck"
  ELSE "undone"

LeftBehind(r) == {a \in AppliedBy(r) : ~Uncovered(runs[r], a[2], a[3])}

RunStages == [r \in 1 .. MaxRuns |-> IF r \in RunIds THEN StageOf(runs[r]) ELSE "absent"]

RunDirt == [r \in 1 .. MaxRuns |-> r \in RunIds /\ LeftBehind(r) # {}]

Saga == INSTANCE RunSaga WITH Runs <- 1 .. MaxRuns, stage <- RunStages, dirty <- RunDirt

(***************************************************************************)
(* Provisioning is a saga: see RunSaga for what that promises.  The code   *)
(* behind it is all of advance_run, the rollback planner, the repair and   *)
(* the office actions.                                                     *)
(***************************************************************************)
ImplementsSaga == Saga!SagaSpec
=============================================================================
