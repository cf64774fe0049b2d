SPECIFICATION SettledServerSpec
CONSTANTS
  Users = {ann, bob}
  Sessions = {s1}
  Points = {five}
  NoVote = NoVote
  Ticks = {1}
  Threads = {t1, t2}
  Absent = Absent
  MaxRequests = 4
  MaxEvents = 8
  Streams = {}
INVARIANTS
  MembersHaveQueues
CHECK_DEADLOCK FALSE
