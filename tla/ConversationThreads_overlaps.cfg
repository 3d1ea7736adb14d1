SPECIFICATION Spec
CONSTANTS
  Thread = {a, b}
  NoThread = NoThread
  Send = {s1}
  ProjectThread = NoThread
  History = {0, 1}
  MaxActs = 2
SYMMETRY Symmetric
CHECK_DEADLOCK FALSE
INVARIANTS TypeOK SettledViewShowsTheSelection ComposerIsFree
PROPERTIES LoadsKeepTheTranscript
