\* a body reader throws on a short body and process_datagram abandons the rest of the fanout.
CONSTANTS
  p1 = p1  p2 = p2  p3 = p3  c1 = c1  c2 = c2  w1 = w1  w2 = w2
  MainThread = MainThread
  NoP = NoP
  Participants <- MCParticipants2
  BodyReaders <- MCReaders1
  Channels <- MCChannels1
  Workers <- MCWorkers0
  HasUpstream = TRUE
  Kinds = {"short"}
  MaxMsgs = 2
SPECIFICATION Spec
INVARIANT FanoutComplete
CHECK_DEADLOCK FALSE
