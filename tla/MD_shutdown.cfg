\* threaded: true; the destructor joins the routing threads while datagrams are still queued.
CONSTANTS
  p1 = p1  p2 = p2  p3 = p3  c1 = c1  c2 = c2  w1 = w1  w2 = w2
  MainThread = MainThread
  NoP = NoP
  Participants <- MCParticipants2
  BodyReaders <- MCReadersNone
  Channels <- MCChannels1
  Workers <- MCWorkers2
  HasUpstream = FALSE
  Kinds = {"ok"}
  MaxMsgs = 2
SPECIFICATION Spec
INVARIANT ShutdownDrains
CHECK_DEADLOCK FALSE
