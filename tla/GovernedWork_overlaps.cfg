SPECIFICATION FairSpec
CONSTANTS
  draft = draft
  review = review
  placeholder = placeholder
  steer = steer
  resume = resume
  Item = {draft, review, placeholder}
  Placeholder = placeholder
  NoItem = NoItem
  First = draft
  Dialog = {steer}
  MaxFaults = 1
  MaxCommands = 2
  MaxInputs = 2
CHECK_DEADLOCK FALSE
INVARIANTS TypeOK PanelShowsTheSelection PanelIsFresh
PROPERTIES ShownNeverGoesBack HandlersEnd
