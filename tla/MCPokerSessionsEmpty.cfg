SPECIFICATION Spec
CONSTANTS
  Users = {ann, bob}
  Sessions = {s1}
  Points = {five}
  NoVote = NoVote
  Threads = {t1, t2}
  Absent = Absent
  MaxRequests = 3
  Ticks = {1}
SYMMETRY Symmetry
PROPERTIES
  TerminatesOnlyEmptySessions
CHECK_DEADLOCK FALSE
