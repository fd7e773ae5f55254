SPECIFICATION Spec
CONSTANTS
  Services = {s1, s2}
  Devices = {"cpe", "olt", "radio", "wall"}
  Names = {"a", "b", "p", "v", "ra", "rb"}
  MaxVersion = 1
  MaxReparents = 0
  Definition <- MCFaults
  Path <- MCOwnDevices
  MaxRuns = 1
  MaxPlan = 5
  MaxMishaps = 3
  PhaseMaxAttempts <- MCTwoAttempts
  LegacyAttempts = 1
  RunPurposes = {"ACTIVATION", "SUSPENSION"}
  DryRuns = {FALSE, TRUE}
  GuidedRuns = {FALSE, TRUE}
  LegacyServices = {s2}
  SystemDevices = {}
  Simulated = 1
INVARIANTS
  TypeOK
  OneLiveChild
  FailedMeansUntouched
  RolledBackIsRestored
  ForwardNeedsSuccess
  RollbackAgainstTheOrder
  RolledBackKeepsItsCause
  LastEventTellsTheOutcome
  SuccessShowsItsOutputs
PROPERTIES
  FinishFollowsClose
  ImplementsSaga
CHECK_DEADLOCK FALSE
