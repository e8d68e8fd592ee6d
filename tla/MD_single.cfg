\* threaded: false, the main thread flushes the queue inline; two channels, so one datagram may reach a participant through both, and only one delivery to it may result.
CONSTANTS
  p1 = p1  p2 = p2  p3 = p3  c1 = c1  c2 = c2  w1 = w1  w2 = w2
  MainThread = MainThread
  NoP = NoP
  Participants <- MCParticipants2
  BodyReaders <- MCReaders1
  Channels <- MCChannels2
  Workers <- MCWorkers0
  HasUpstream = TRUE
  Kinds = {"ok", "short", "trunc"}
  MaxMsgs = 2
SPECIFICATION Spec
INVARIANT TypeOK
PROPERTY RoutedEventuallyProcessed
PROPERTY RefinesRouting
CHECK_DEADLOCK FALSE
