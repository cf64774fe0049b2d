SPECIFICATION ScriptedSpec
CONSTANTS
  Users = {ann}
  Sessions = {s1}
  Points = {five}
  NoVote = NoVote
  Ticks = {1}
  Threads = {t1}
  Absent = Absent
  MaxRequests = 5
  MaxEvents = 10
  Streams = {k1}
INVARIANTS
  TestSeesTwoEvents
CHECK_DEADLOCK FALSE
