SPECIFICATION FairSpec
CONSTANTS
  Draft = {d0, d1}
  Default = d0
  Same = Same
  Name = {n1, n2}
  NoName = NoName
  Absent = Absent
  Saved = {n1}
  Faults = {"lost"}
  MaxJobs = 2
  MaxEdits = 2
  MaxReloads = 1
CHECK_DEADLOCK FALSE
INVARIANTS TypeOK SavedAsShown OpenedAsSaved TypedTextIsOnItsWay
PROPERTIES HandlersEnd
