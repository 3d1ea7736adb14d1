SPECIFICATION Spec
CONSTANTS
  Caller = {c1, c2, c3}
  Setting = {theme}
  Value = {v1, v2}
  Unset = Unset
  NoImage = NoImage
  Default = v1
  Operations = {"get", "set", "focus", "load", "revert"}
SYMMETRY Symmetric
INVARIANTS TypeOK FocusIsShown NoWriteBehindALoad
PROPERTIES OnlyTheWriterForgets
