SPECIFICATION Spec
CONSTANTS
  p1 = p1
  p2 = p2
  Procs <- MCProcs
  Workflows <- MCWorkflows
  TriggersOf <- MCTriggers
  StepsOf <- MCSteps
  KindOf <- MCKinds
  EdgeChoices <- MCEdges
  Services = {v}
  NoService = NoService
  Targets = {v}
  Statuses = {"PENDING", "ACTIVE"}
  Refusing = {}
  Breaking = {}
  Deletable = {}
  MaxEvents = 2
  MaxDirect = 0
  MaxEnds = 0
  MaxCrashes = 0
INVARIANT RacesOnlyFailTheStep
SYMMETRY Sym
