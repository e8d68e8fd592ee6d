---------------------------- MODULE AddressUtils ----------------------------
(***************************************************************************)
(* Host specifications and their resolution (src/src/net/address_utils.cpp).*)
(*                                                                         *)
(* A hostspec is a sequence of tokens: one character, or a maximal run of  *)
(* decimal digits with its value.  A run whose value exceeds INT_MAX is    *)
(* the token BigNum, since TLC's own integers stop there.  The letter "h"  *)
(* stands for any character of a host name that is not a hex digit.       *)
(***************************************************************************)
EXTENDS Integers, Sequences, FiniteSets

LOCAL Seqs == INSTANCE SequencesExt

Chr(c) == [c |-> c, v |-> 0]
Num(n) == [c |-> "0", v |-> n]
BigNum == [c |-> "0", v |-> -1]

PortMod == 2^16

IsColon(t) == t.c = ":"
IsDigits(t) == t.c = "0"

\* std::stoi: an optional sign, then digits; none throws invalid_argument,
\* a value outside int throws out_of_range; trailing characters are ignored.
StoI(s) ==
  LET neg == s # <<>> /\ s[1] = Chr("-")
      body == IF neg THEN Tail(s) ELSE s
  IN CASE body = <<>> \/ ~IsDigits(body[1]) -> [r |-> "invalid_argument", v |-> 0]
       [] body[1] = BigNum -> [r |-> "out_of_range", v |-> 0]
       [] OTHER -> [r |-> "ok", v |-> IF neg THEN -body[1].v ELSE body[1].v]

\* A plausible slip: the port taken after the first ':' (find, not rfind).
SplitPortFirstColon(ip, port) ==
  LET last == Seqs!SelectInSeq(ip, IsColon)
      colons == Cardinality({i \in DOMAIN ip : IsColon(ip[i])})
      n == StoI(SubSeq(ip, last + 1, Len(ip)))
  IN CASE last = 0 -> [r |-> "ok", ip |-> ip, port |-> port]
       [] colons > 1 /\ (last = 1 \/ ip[last - 1] # Chr("]")) -> [r |-> "ok", ip |-> ip, port |-> port]
       [] n.r = "invalid_argument" -> [r |-> "fail", ip |-> ip, port |-> port]
       [] n.r = "out_of_range" -> [r |-> "throw", ip |-> ip, port |-> port]
       [] OTHER -> [r |-> "ok", ip |-> SubSeq(ip, 1, last - 1), port |-> n.v % PortMod]

\* split_port: the text after the last ':' is the port unless the spec has
\* several colons and no ']' before the last; the int is narrowed into the
\* uint16_t port.  Only invalid_argument is caught: "throw" is the
\* out_of_range that leaves the function.
SplitPort(ip, port) ==
  LET last == Seqs!SelectLastInSeq(ip, IsColon)
      colons == Cardinality({i \in DOMAIN ip : IsColon(ip[i])})
      n == StoI(SubSeq(ip, last + 1, Len(ip)))
  IN CASE last = 0 -> [r |-> "ok", ip |-> ip, port |-> port]
       [] colons > 1 /\ ip[last - 1] # Chr("]") -> [r |-> "ok", ip |-> ip, port |-> port]
       [] n.r = "invalid_argument" -> [r |-> "fail", ip |-> ip, port |-> port]
       [] n.r = "out_of_range" -> [r |-> "throw", ip |-> ip, port |-> port]
       [] OTHER -> [r |-> "ok", ip |-> SubSeq(ip, 1, last - 1), port |-> n.v % PortMod]

----------------------------------------------------------------------------
(* boost::asio::ip::make_address, the library parser parse_address calls. *)

IsOctet(t) == IsDigits(t) /\ t # BigNum /\ t.v <= 255
\* A group of at most four hex digits (the inputs write groups in decimal).
IsGroup(t) == IsDigits(t) /\ t # BigNum /\ t.v <= 9999

IsIPv4(s) ==
  /\ Len(s) = 7
  /\ \A i \in DOMAIN s : IF i % 2 = 1 THEN IsOctet(s[i]) ELSE s[i] = Chr(".")

\* Eight groups, or fewer around exactly one "::".
IsIPv6(s) ==
  LET gaps == {i \in 1..Len(s) - 1 : IsColon(s[i]) /\ IsColon(s[i + 1])}
      groups == Cardinality({i \in DOMAIN s : IsGroup(s[i])})
  IN /\ s # <<>>
     /\ \A i \in DOMAIN s : IsColon(s[i]) \/ IsGroup(s[i])
     /\ \/ gaps = {} /\ groups = 8 /\ IsGroup(s[1]) /\ IsGroup(s[Len(s)])
        \/ /\ Cardinality(gaps) = 1 /\ groups <= 7
           /\ IsColon(s[1]) => 1 \in gaps
           /\ IsColon(s[Len(s)]) => Len(s) - 1 \in gaps

\* parse_address: strip one pair of enclosing brackets, then make_address.
ParseAddress(ip, port) ==
  LET cleaned == IF ip # <<>> /\ ip[1] = Chr("[") /\ ip[Len(ip)] = Chr("]")
                 THEN SubSeq(ip, 2, Len(ip) - 1) ELSE ip
  IN IF IsIPv4(cleaned) \/ IsIPv6(cleaned)
     THEN [ok |-> TRUE, addr |-> [ip |-> cleaned, port |-> port]]
     ELSE [ok |-> FALSE, addr |-> [ip |-> <<>>, port |-> 0]]

----------------------------------------------------------------------------
(* resolve_address: a literal gives one address; anything else goes to the *)
(* resolver, which may fail or give one or more of the Endpoints, each     *)
(* with that port.                                                          *)
(* The result is the set of outcomes the call can have: r = "throw" for    *)
(* the exception split_port lets out, else the vector of addresses.       *)

ResolveAddress(hostspec, port, Endpoints) ==
  LET sp == SplitPort(hostspec, port)
      lit == ParseAddress(sp.ip, sp.port)
      Ret(v) == [r |-> "ok", addrs |-> v]
  IN CASE sp.r = "throw" -> {[r |-> "throw", addrs |-> <<>>]}
       [] sp.r = "fail" -> {Ret(<<>>)}
       [] lit.ok -> {Ret(<<lit.addr>>)}
       [] OTHER -> {Ret(<<>>)} \cup {Ret([i \in 1..Len(es) |-> [ip |-> <<Chr(es[i])>>, port |-> sp.port]])
                                     : es \in UNION {Seqs!SetToSeqs(E) : E \in SUBSET Endpoints \ {{}}}}

=============================================================================
