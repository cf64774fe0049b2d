SPECIFICATION FairPagesSpec
CONSTANTS
  Users = {ann, bob}
  Sessions = {s1}
  Points = {five, eight}
  NoVote = NoVote
  Ticks = {1}
  MaxEvents = 3
  Streams = {1, 2, 3}
  Me = ann
  MaxPages = 1
  MaxInFlight = 2
  EarlyEnds = {"timedOut", "gone"}
  RushedEvents = 2
INVARIANTS
  CalmStreamsAreComplete
  CalmPagesShowTheRound
  CalmPagesKnowYourVote
PROPERTIES
  CalmPagesCatchUp
CHECK_DEADLOCK FALSE
