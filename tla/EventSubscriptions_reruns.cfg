SPECIFICATION FairSpec
CONSTANTS
  conversation = conversation
  transcript = transcript
  turn = turn
  chunk = chunk
  Effect = {conversation, transcript}
  Sort = {turn, chunk}
  Filters <- Asked
  Refreshing = {turn}
  MaxRuns = 3
  MaxEvents = 2
  MaxReloads = 1
CHECK_DEADLOCK FALSE
INVARIANTS TypeOK EverySubscriberHearsItsEvents RefreshesAreForWhatIsShown LeftRunsAreUnsubscribed
PROPERTIES EventsAreHeard
