---------------------------- MODULE MCClientAgent ----------------------------
EXTENDS ClientAgent

CONSTANTS c1, c2

MCClients == {c1, c2}

\* Channel values for 3-bit channels: 1 a plain bound, 3 the largest signed
\* value (LLONG_MAX), 4 just above it, 7 CHANNEL_MAX.
MCChannelVals == {1, 3, 4, 7}

\* Hosts: an IPv4 literal 1.1.1.1, a name, and the IPv6 literal ::1 bare
\* and bracketed.
V4 == <<Num(1), Chr("."), Num(1), Chr("."), Num(1), Chr("."), Num(1)>>
Name == <<Chr("h")>>
V6 == <<Chr(":"), Chr(":"), Num(1)>>
Bracketed(h) == <<Chr("[")>> \o h \o <<Chr("]")>>
Hosts == {V4, Name, Bracketed(V6)}

\* Well-formed hostspecs: a host with or without a port, the bare IPv6
\* literal, and a name with an empty port (which split_port rejects).
MCBindWellFormed ==
  {h \o p : h \in Hosts, p \in {<<>>, <<Chr(":"), Num(7199)>>}}
  \cup {V6, Name \o <<Chr(":")>>}

\* Every host with every port suffix: a port above 65535, a negative one,
\* one beyond INT_MAX, an empty one, one that is no number.
MCBindAll ==
  {h \o p : h \in Hosts,
            p \in {<<>>, <<Chr(":"), Num(7199)>>, <<Chr(":"), Num(70000)>>,
                   <<Chr(":"), Chr("-"), Num(1)>>, <<Chr(":"), BigNum>>,
                   <<Chr(":")>>, <<Chr(":"), Chr("h")>>}}
  \cup {V6 \o <<Chr(":"), Num(7199)>>}

MCSymmetry == Permutations(MCClients)
=============================================================================
