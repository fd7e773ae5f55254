SPECIFICATION Spec
CONSTANTS
  Services = {s1}
  Devices = {"cpe"}
  Names = {"a", "b", "p", "v", "ra", "rb"}
  MaxVersion = 1
  MaxReparents = 1
  Definition <- MCOneCommand
  Path <- MCJustTheCpe
  MaxRuns = 2
  MaxPlan = 3
  MaxMishaps = 0
  PhaseMaxAttempts <- MCAttempts
  LegacyAttempts = 1
  RunPurposes = {"ACTIVATION"}
  DryRuns = {FALSE}
  GuidedRuns = {FALSE}
  LegacyServices = {}
  SystemDevices = {}
  Simulated = 1
PROPERTIES
  DriftSettledOnTheCurrentPath
CHECK_DEADLOCK FALSE
