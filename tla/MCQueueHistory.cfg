SPECIFICATION HistorySpec
CONSTANTS
  Users = {ann, bob}
  Sessions = {s1, s2}
  Points = {five}
  NoVote = NoVote
  Ticks = {1}
  MaxEvents = 4
SYMMETRY Symmetry
INVARIANTS
  QueuesTypeOK
  QueuesBelongToTheirUsers
  DisabledQueuesAreLeaving
  
  SettledQueuesFollowEvents
PROPERTIES
  BroadcastsReachEverybody
CHECK_DEADLOCK FALSE
