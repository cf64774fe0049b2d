SPECIFICATION FairSpec
CONSTANTS
  Users = {ann, bob}
  Sessions = {s1, s2}
  Points = {five}
  NoVote = NoVote
  Threads = {t1, t2}
  Absent = Absent
  MaxRequests = 4
  Ticks = {1}
INVARIANTS
  TypeOK
  EmptySessionIsBeingTerminated
  MembersWereIntroduced
  TerminationsAreAnnounced
PROPERTIES
  PublishesInOrder
  ImplementsLifecycle
  ImplementsFairLifecycle
CHECK_DEADLOCK FALSE
