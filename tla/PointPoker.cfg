SPECIFICATION ServerSpec
CONSTANTS
  Users = {ann}
  Sessions = {s1}
  Points = {five}
  NoVote = NoVote
  Ticks = {1}
  Threads = {t1, t2}
  Absent = Absent
  MaxRequests = 3
  MaxEvents = 6
  Streams = {k1}
PROPERTIES
  ImplementsDelivery
CHECK_DEADLOCK FALSE
