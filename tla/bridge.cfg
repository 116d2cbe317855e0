SPECIFICATION Spec
CONSTANTS
  c1 = c1
  c2 = c2
  r1 = r1
  r2 = r2
  Commands <- MCCommands
  Replicas <- MCReplicas
  NoCommand = NoCommand
  NoReplica = NoReplica
  MaxRuntime = 2
SYMMETRY Symmetry
INVARIANTS AtMostOnce OperatorsAreToldTheTruth SettledReceiptsAreKept
PROPERTIES NothingIsDoneLate
