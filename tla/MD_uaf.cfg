\* threaded: true; a participant is deleted by the cleanup timer while a routing thread still holds it.
CONSTANTS
  p1 = p1  p2 = p2  p3 = p3  c1 = c1  c2 = c2  w1 = w1  w2 = w2
  MainThread = MainThread
  NoP = NoP
  Participants <- MCParticipants2
  BodyReaders <- MCReadersNone
  Channels <- MCChannels1
  Workers <- MCWorkers2
  HasUpstream = FALSE
  Kinds = {"ok"}
  MaxMsgs = 2
SPECIFICATION Spec
INVARIANT NoUseAfterFree
CHECK_DEADLOCK FALSE
