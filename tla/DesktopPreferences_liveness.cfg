SPECIFICATION FairSpec
CONSTANTS
  Caller = {c1, c2, c3}
  Setting = {}
  Value = {v1, v2}
  Unset = Unset
  NoImage = NoImage
  Default = v1
  Operations = {"set", "load"}

PROPERTIES EveryWriteSettles
