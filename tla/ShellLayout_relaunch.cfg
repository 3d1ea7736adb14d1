SPECIFICATION Spec
CONSTANTS
  nav = nav
  util = util
  insp = insp
  Panel = {nav, util, insp}
  LeftDefault <- Left
  RightDefault <- Right
  NoPanel = NoPanel
  Width = {w1}
  DefaultWidth = w1
  NoWidth = NoWidth
  Images <- Stored
  NoLayout = NoLayout
  Faults = {"read", "write"}
  MaxLoads = 2
  MaxActs = 3
CHECK_DEADLOCK FALSE
INVARIANTS TypeOK EveryPanelHasOnePlace LayoutSurvivesARelaunch
