SPECIFICATION FairSpec
CONSTANTS
  Services = {s1}
  Devices = {"cpe", "radio"}
  Names = {"a", "b", "p", "v", "ra", "rb"}
  MaxVersion = 1
  MaxReparents = 1
  Definition <- MCManualOrNothing
  Path <- MCMoved
  MaxRuns = 1
  MaxPlan = 4
  MaxMishaps = 3
  PhaseMaxAttempts <- MCAttempts
  LegacyAttempts = 1
  RunPurposes = {"ACTIVATION"}
  DryRuns = {FALSE}
  GuidedRuns = {FALSE, TRUE}
  LegacyServices = {}
  SystemDevices = {}
  Simulated = 1
PROPERTIES
  EveryRunCloses
CHECK_DEADLOCK FALSE
