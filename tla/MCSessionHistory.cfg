SPECIFICATION HistorySpec
CONSTANTS
  Users = {ann, bob}
  Sessions = {s1}
  Points = {five, eight}
  NoVote = NoVote
  Threads = {t1, t2, t3}
  Absent = Absent
  MaxRequests = 5
  Ticks = {1}
SYMMETRY Symmetry
INVARIANTS
  EventsTellTheState
PROPERTIES
  ResetForgetsEarlierVotes
CHECK_DEADLOCK FALSE
