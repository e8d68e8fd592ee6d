\* threaded: true with two routing threads and the cleanup timer.
CONSTANTS
  p1 = p1  p2 = p2  p3 = p3  c1 = c1  c2 = c2  w1 = w1  w2 = w2
  MainThread = MainThread
  NoP = NoP
  Participants <- MCParticipants2
  BodyReaders <- MCReaders1
  Channels <- MCChannels1
  Workers <- MCWorkers2
  HasUpstream = TRUE
  Kinds = {"ok", "short", "trunc"}
  MaxMsgs = 2
SPECIFICATION Spec
PROPERTY RoutedEventuallyProcessed
CHECK_DEADLOCK FALSE
