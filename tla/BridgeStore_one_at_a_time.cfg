SPECIFICATION StoreSpec
CONSTANTS
  live = live
  envA = envA
  envB = envB
  NoEnv = NoEnv
  NoChild = NoChild
  NoStore = NoStore
  ReadChild = {r1}
  WriteChild = {w1}
  Call = {c1, c2, c3}
  Env = {live, envA, envB}
  DefaultEnv = live
  OneAtATime = TRUE
  Circumstances <- Either
  Requests <- WithTransitions
SYMMETRY Symmetric
INVARIANTS StoreTypeOK ReadsReflectAcknowledgedWrites AcknowledgedWritesAreDurable BindingNamesTheFile
PROPERTIES LossNeedsADeadWriter
