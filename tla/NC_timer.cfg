\* Write timeout, good and bad frames: accounting, single report and draining still hold.
CONSTANTS
  Main = Main
  w1 = w1
  Workers <- MCWorkers
  Sizes <- MCSizes
  MaxQueue = 2
  WriteTimeout = TRUE
  BodyLens = {1, 2}
  MaxFrames = 3
  MaxChunk = 5
  PeerReads = TRUE
  MaxSends = 3
SPECIFICATION Spec
INVARIANT TypeOK QueueAccounting FramesInOrder
PROPERTY SendQueueDrains
\* A connection with nothing left to do sits idle: no deadlock to report.
CHECK_DEADLOCK FALSE
