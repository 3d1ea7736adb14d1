SPECIFICATION FairSpec
CONSTANTS
  live = live
  envA = envA
  NoEnv = NoEnv
  NoChild = NoChild
  ReadChild = {r1}
  WriteChild = {w1}
  Call = {c1, c2}
  Env = {live, envA}
  DefaultEnv = live
  Requests <- AllKinds
INVARIANTS NoStuckTransition
PROPERTIES CallsAreSettledOnce RebindingIsABarrier
