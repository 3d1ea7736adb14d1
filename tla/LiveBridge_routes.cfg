SPECIFICATION Spec
CONSTANTS
  live = live
  envA = envA
  NoEnv = NoEnv
  NoChild = NoChild
  ReadChild = {r1, r2}
  WriteChild = {w1}
  Call = {c1, c2, c3}
  Env = {live}
  DefaultEnv = live
  Requests <- BothRoutes
SYMMETRY Symmetric
INVARIANTS TypeOK NoLostCall ResponsesReachTheirCall NoLeakedChild
