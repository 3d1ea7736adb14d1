SPECIFICATION StoreSpec
CONSTANTS
  live = live
  envA = envA
  envB = envB
  NoEnv = NoEnv
  NoChild = NoChild
  NoStore = NoStore
  ReadChild = {r1, r2}
  WriteChild = {w1}
  Call = {c1, c2, c3}
  Env = {live, envA}
  DefaultEnv = live
  OneAtATime = FALSE
  Circumstances <- Neither
  Requests <- ReadsAndWrites
SYMMETRY Symmetric
INVARIANT ReadsReflectAcknowledgedWrites
