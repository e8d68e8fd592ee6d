------------------------------ MODULE Routing ------------------------------
(***************************************************************************)
(* What the MessageDirector promises its participants, with the queue,    *)
(* the routing threads and the snapshot taken away (spec.md 4.4, 8.3,     *)
(* 8.4): routed datagrams are handled one at a time in the order they     *)
(* were routed; the datagram being handled goes only to connected         *)
(* participants subscribed to one of its channels, never back to its      *)
(* origin and at most once to each; a delivery may end the handling      *)
(* (a handler that throws); every datagram is routed at most once.         *)
(*                                                                         *)
(* Which participants are connected, what they subscribe to and which     *)
(* datagrams exist is the environment's business: no action here          *)
(* constrains conn, subs or msgs.                                          *)
(***************************************************************************)
EXTENDS Naturals, Sequences, FiniteSets, Bags
LOCAL INSTANCE BagsExt

CONSTANTS Participants, Channels, Ids

VARIABLES
  msgs,     \* datagrams by id: origin and receiver channels
  conn,     \* connected participants
  subs,     \* channels each participant subscribes to
  pending,  \* routed datagrams not yet handled, oldest first
  routed,   \* ids routed so far
  got       \* bag of <<participant, id>>: one copy per delivery

vars == <<msgs, conn, subs, pending, routed, got>>

SeqIds(s) == {s[k] : k \in DOMAIN s}

\* Datagrams, made in this step or before, are routed: appended behind
\* every datagram routed before, each for the first time.
Route ==
  \E n \in 1..Cardinality(Ids) : \E s \in [1..n -> Ids] :
    /\ Cardinality(SeqIds(s)) = n
    /\ SeqIds(s) \cap routed = {} /\ SeqIds(s) \subseteq DOMAIN msgs'
    /\ pending' = pending \o s
    /\ routed' = routed \cup SeqIds(s)
    /\ UNCHANGED got

\* The oldest pending datagram is delivered to q; stop ends its handling.
Deliver(q, stop) ==
  /\ pending # <<>>
  /\ LET id == Head(pending) IN
       /\ q \in conn /\ q # msgs[id].origin
       /\ subs[q] \cap msgs[id].rcv # {}
       /\ ~BagIn(<<q, id>>, got)
       /\ got' = BagAdd(got, <<q, id>>)
  /\ pending' = IF stop THEN Tail(pending) ELSE pending
  /\ UNCHANGED routed

\* The handling of the oldest pending datagram ends.
Finish ==
  /\ pending # <<>>
  /\ pending' = Tail(pending)
  /\ UNCHANGED <<routed, got>>

\* Participants connect, disconnect and (un)subscribe; datagrams are made.
Environment == UNCHANGED <<pending, routed, got>>

Init == pending = <<>> /\ routed = {} /\ got = EmptyBag

Next ==
  \/ Route
  \/ \E q \in Participants, stop \in BOOLEAN : Deliver(q, stop)
  \/ Finish
  \/ Environment

Spec == Init /\ [][Next]_vars

=============================================================================
