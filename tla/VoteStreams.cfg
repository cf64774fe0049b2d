SPECIFICATION FairDeliverySpec
CONSTANTS
  Users = {ann}
  Sessions = {s1}
  Points = {five}
  NoVote = NoVote
  Ticks = {0}
  MaxEvents = 3
  Streams = {k1, k2}
INVARIANTS
  DeliveryTypeOK
  EventsAreGivenOnce
  StreamsEndAtReset
  OpenStreamsHaveConsumers
PROPERTIES
  ResetsEndStreams
CHECK_DEADLOCK FALSE
