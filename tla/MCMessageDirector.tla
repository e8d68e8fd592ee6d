------------------------- MODULE MCMessageDirector -------------------------
(* Model-checking instances of MessageDirector: small sets of model values *)
(* for participants, channels and routing threads.                          *)
EXTENDS MessageDirector, TLC

CONSTANTS p1, p2, p3, c1, c2, w1, w2

\* threaded: true with two routing threads
MCWorkers2 == {w1, w2}
\* threaded: false
MCWorkers0 == {}

MCParticipants2 == {p1, p2}
MCParticipants3 == {p1, p2, p3}
MCChannels1 == {c1}
MCChannels2 == {c1, c2}

MCReadersNone == {}
MCReaders1 == {p2}

Symm == Permutations({w1, w2})
=============================================================================
