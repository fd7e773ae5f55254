SPECIFICATION Spec
CONSTANTS
  Services = {s1}
  Devices = {"cpe", "radio"}
  Names = {"a", "b", "p", "v", "ra", "rb"}
  MaxVersion = 2
  MaxReparents = 0
  Definition <- MCSystemPing
  Path <- MCCpeAndSystem
  MaxRuns = 3
  MaxPlan = 5
  MaxMishaps = 1
  PhaseMaxAttempts <- MCAttempts
  LegacyAttempts = 1
  RunPurposes = {"ACTIVATION", "SUSPENSION"}
  DryRuns = {FALSE, TRUE}
  GuidedRuns = {FALSE}
  LegacyServices = {}
  SystemDevices = {"radio"}
  Simulated = 0
INVARIANTS
  LatestSuccessStands
  LiveVersionsWereSimulated
PROPERTIES
  ImplementsSaga
  ReopenedOnlyToRollBack
CHECK_DEADLOCK FALSE
