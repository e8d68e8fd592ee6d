\* Reads with good or bad data and write timeouts: a disconnect goes unreported.
CONSTANTS
  Main = Main
  w1 = w1
  Workers <- MCWorkers
  Sizes <- MCSizes
  MaxQueue = 0
  WriteTimeout = TRUE
  BodyLens = {0, 1}
  MaxFrames = 2
  MaxChunk = 3
  PeerReads = TRUE
  MaxSends = 2
SPECIFICATION Spec
PROPERTY DisconnectReported
\* A connection with nothing left to do sits idle: no deadlock to report.
CHECK_DEADLOCK FALSE
