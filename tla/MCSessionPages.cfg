SPECIFICATION SettledPagesSpec
CONSTANTS
  Users = {ann}
  Sessions = {s1, s2}
  Points = {five}
  NoVote = NoVote
  Ticks = {1}
  MaxEvents = 3
  Streams = {1, 2, 3}
  Me = ann
  MaxPages = 2
  MaxInFlight = 1
  EarlyEnds = {}
  RushedEvents = 3
SYMMETRY Symmetry
INVARIANTS
  PagesTypeOK
  PagesListenOnce
  PagesShowTheirSessions
CHECK_DEADLOCK FALSE
