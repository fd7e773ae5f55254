SPECIFICATION Spec
CONSTANTS
  p1 = p1
  p2 = p2
  Procs <- MCProcs
  Workflows <- MCWorkflows
  TriggersOf <- MCTriggers
  StepsOf <- MCSteps
  KindOf <- MCKinds
  EdgeChoices <- MCEdges
  Services = {v}
  NoService = NoService
  Targets = {v, NoService}
  Statuses = {"PENDING", "ACTIVE"}
  Refusing = {"h"}
  Breaking = {"u"}
  Deletable = {"follow"}
  MaxEvents = 2
  MaxDirect = 1
  MaxEnds = 1
  MaxCrashes = 1
INVARIANTS
  OneLiveRowPerKey
  FollowOnSeesEntity
  RowsAreAccountedFor
  StepsFollowTheGraph
  ChainsAreBounded
  OncePerEvent
  LostRunRaceIsHarmless
SYMMETRY Sym
