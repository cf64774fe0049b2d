SPECIFICATION HistorySpec
CONSTANTS
  Users = {ann, bob}
  Sessions = {s1}
  Points = {five}
  NoVote = NoVote
  Ticks = {1}
  MaxEvents = 3
SYMMETRY Symmetry
INVARIANTS
  ExitClearsTheUsersQueue
CHECK_DEADLOCK FALSE
