----------------------------- MODULE ClientAgent -----------------------------
(***************************************************************************)
(* The Client Agent's start-up and its channel allocator.                  *)
(*                                                                         *)
(* The role's YAML entry is first checked by ConfigValidator against       *)
(* ClientAgent::schema() (src/src/config/ConfigValidator.cpp); the config  *)
(* loader treats any error as fatal (spec.md 7), and only then is the      *)
(* ClientAgent constructed, reading the same entry through ConfigSection   *)
(* (src/src/config/ConfigSection.{h,cpp}) into a ChannelTracker.  Clients  *)
(* then take and give back channels with alloc_channel/free_channel.       *)
(* The constructor ends by binding a TcpAcceptor to the "bind" hostspec    *)
(* (AddressUtils, NetworkAcceptor) and starting it, with handle_error as   *)
(* the acceptor's error callback.                                          *)
(*                                                                         *)
(* A YAML node is a record: kind "map" (fields: key -> node), "scalar"     *)
(* (cls "int" with value n, "bool", or "str" with the token sequence s of *)
(* AddressUtils), "null" (the                                              *)
(* YAML::Node() that ConfigSection::resolve returns), "zombie" (the         *)
(* invalid node a const operator[] returns for a missing key) or "throw"   *)
(* (a lookup that throws).  Channels are W bits wide: ChannelMax stands    *)
(* for CHANNEL_MAX = 2^64-1 and LongLongMax for 2^63-1.                    *)
(***************************************************************************)
EXTENDS Naturals, Sequences, FiniteSets, Functions, TLC, AddressUtils, NetworkAcceptor

CONSTANTS
  Clients,        \* client connections taking channels
  W,              \* channel width in bits
  ChannelVals,    \* integers a config may give channels.min/max
  ClientOpts,     \* forms of the optional "client" block: "absent", or an add_interest value
  BindSpecs,      \* hostspecs a config may give "bind"
  Endpoints,      \* what the resolver may answer for a host name
  AcceptorFaults  \* errors open(), set_option() and bind() may report

VARIABLES
  cfg,      \* the role's YAML entry
  phase,    \* "validate", "construct", "rejected", "failed", "exited" or "running"
  errors,   \* the validator's errors: <<path, kind>>
  next,     \* ChannelTracker::m_next
  max,      \* ChannelTracker::m_max
  unused,   \* ChannelTracker::m_unused_channels, front first
  chan,     \* each client's channel, INVALID_CHANNEL when it holds none
  acceptor, \* m_net_acceptor
  accepted  \* clients whose connection handle_tcp turned into a Client

vars == <<cfg, phase, errors, next, max, unused, chan, acceptor, accepted>>

ChannelMax == 2^W - 1
LongLongMax == 2^(W-1) - 1
INVALID_CHANNEL == 0
\* The default "bind", "0.0.0.0:7198", and the port bind() is given.
DefaultBind == <<Num(0), Chr("."), Num(0), Chr("."), Num(0), Chr("."), Num(0), Chr(":"), Num(7198)>>
DefaultPort == 7198

Node(k, c, n, s, f) == [kind |-> k, cls |-> c, n |-> n, s |-> s, fields |-> f]
\* A one-word text, and a string node with text t.
Word(w) == <<Chr(w)>>
TextNode(t) == Node("scalar", "str", 0, t, <<>>)
StrNode(w) == TextNode(Word(w))
IntNode(n) == Node("scalar", "int", n, <<>>, <<>>)
BoolNode == Node("scalar", "bool", 0, <<>>, <<>>)
Absent == Node("absent", "", 0, <<>>, <<>>)
Zombie == Node("zombie", "", 0, <<>>, <<>>)
NullNode == Node("null", "", 0, <<>>, <<>>)
Throw == Node("throw", "", 0, <<>>, <<>>)
\* A mapping of the keys whose value is not Absent.
MapOf(f) == Node("map", "", 0, <<>>, RestrictValues(f, LAMBDA v : v.kind # "absent"))

----------------------------------------------------------------------------
(* The schema: SchemaBuilder semantics and ClientAgent::schema().          *)

Prop(t, req) == [type |-> t, required |-> req, enum |-> {}, child |-> [additional |-> FALSE, props |-> <<>>]]
Enum(vals, req) == [Prop("String", req) EXCEPT !.enum = vals]
\* required_object / optional_object: the nested node never allows extra keys.
Obj(props, req) == [Prop("Object", req) EXCEPT !.child = [additional |-> FALSE, props |-> props]]

CASchema ==
  [additional |-> FALSE,
   props |-> ("type" :> Prop("String", TRUE)) @@ ("bind" :> Prop("String", TRUE))
             @@ ("version" :> Prop("String", TRUE)) @@ ("haproxy" :> Prop("Bool", FALSE))
             @@ ("manual_dc_hash" :> Prop("String", FALSE))
             @@ ("channels" :> Obj(("min" :> Prop("Int", TRUE)) @@ ("max" :> Prop("Int", TRUE)), TRUE))
             @@ ("client" :> Obj(("relocate" :> Prop("Bool", FALSE))
                     @@ ("add_interest" :> Enum({"visible", "enabled", "disabled"}, FALSE))
                     @@ ("manual_dc_hash" :> Prop("String", FALSE))
                     @@ ("send_hash" :> Prop("Bool", FALSE)) @@ ("send_version" :> Prop("Bool", FALSE)), FALSE))
             @@ ("tuning" :> Obj("interest_timeout" :> Prop("Int", FALSE), FALSE))]

----------------------------------------------------------------------------
(* ConfigValidator                                                          *)

\* A plausible slip: an Int property checked with as<unsigned long long>.
ParsesAsUnsigned(t, v) ==
  /\ v.kind = "scalar"
  /\ CASE t = "Bool" -> v.cls = "bool"
       [] t \in {"Int", "UInt"} -> v.cls = "int" /\ v.n <= ChannelMax
       [] t = "Number" -> v.cls = "int"

\* A plausible slip: an Int property only checked to be a scalar.
ParsesAsScalar(t, v) ==
  /\ v.kind = "scalar"
  /\ CASE t = "Bool" -> v.cls = "bool"
       [] t = "Int" -> TRUE
       [] t = "UInt" -> v.cls = "int" /\ v.n <= ChannelMax
       [] t = "Number" -> v.cls = "int"

\* Whether node.as<T>() returns instead of throwing, for a scalar or map.
ParsesAs(t, v) ==
  /\ v.kind = "scalar"
  /\ CASE t = "Bool" -> v.cls = "bool"
       [] t = "Int" -> v.cls = "int" /\ v.n <= LongLongMax
       [] t = "UInt" -> v.cls = "int" /\ v.n <= ChannelMax
       [] t = "Number" -> v.cls = "int"

RECURSIVE ValidateNode(_, _, _), ValidateProperty(_, _, _)

ValidateNode(node, schema, path) ==
  IF node.kind # "map" THEN {<<path, "mapping">>}
  ELSE LET f == node.fields IN
       UNION {IF k \notin DOMAIN f
              THEN IF schema.props[k].required THEN {<<Append(path, k), "required">>} ELSE {}
              ELSE ValidateProperty(f[k], schema.props[k], Append(path, k))
              : k \in DOMAIN schema.props}
       \cup (IF schema.additional THEN {}
             ELSE {<<Append(path, k), "unrecognized">> : k \in DOMAIN f \ DOMAIN schema.props})

ValidateProperty(node, prop, path) ==
  CASE prop.type = "Object" -> ValidateNode(node, prop.child, path)
    [] prop.type = "String" ->
         IF node.kind # "scalar" THEN {<<path, "string">>}
         ELSE IF prop.enum # {} /\ node.s \notin {Word(w) : w \in prop.enum} THEN {<<path, "enum">>}
         ELSE {}
    [] OTHER -> IF ParsesAs(prop.type, node) THEN {} ELSE {<<path, prop.type>>}

\* validate_role over the roles list, for the "clientagent" schema.
ValidateRole(roles) ==
  LET typed == {i \in DOMAIN roles : "type" \in DOMAIN roles[i].fields}
      mine == {i \in typed : roles[i].fields["type"].s = Word("clientagent")}
  IN  {<<<<"roles">>, "type">> : i \in DOMAIN roles \ typed}
      \cup UNION {ValidateNode(roles[i], CASchema, <<"roles">>) : i \in mine}
      \cup (IF mine = {} THEN {<<<<"roles">>, "role">>} ELSE {})

----------------------------------------------------------------------------
(* ConfigSection and the ClientAgent constructor                           *)

\* const YAML::Node::operator[]: a missing key gives an invalid node; an
\* invalid node throws InvalidNode and a scalar throws BadSubscript.
Index(node, k) ==
  CASE node.kind = "map" -> IF k \in DOMAIN node.fields THEN node.fields[k] ELSE Zombie
    [] node.kind = "null" -> Zombie
    [] OTHER -> Throw

\* ConfigSection::resolve, and so child(): an invalid section gives YAML::Node(),
\* a null node that is defined.
Resolve(sec, k) == IF sec.kind = "zombie" THEN NullNode ELSE Index(sec, k)

Defined(node) == node.kind \in {"map", "scalar", "null"}

\* Node::as<T>(): a null node converts only to std::string, as "null".
As(t, v) ==
  CASE v.kind = "null" /\ t = "String" -> StrNode("null")
    [] v.kind = "scalar" /\ (t = "String" \/ ParsesAs(t, v)) -> v
    [] OTHER -> Throw

\* ConfigSection::get_or through get_optional_as: the fallback only when the
\* resolved node is undefined.
GetOr(sec, k, t, fallback) ==
  LET v == Resolve(sec, k) IN
  CASE v.kind = "throw" -> Throw
    [] ~Defined(v) -> fallback
    [] OTHER -> As(t, v)

\* parse_hash_node: absent is no override; a non-scalar throws.
HashOk(node) == node.kind \in {"zombie", "scalar"}

\* The tuning block: interest_timeout must be a scalar that std::stoul parses.
TuningOk(tuning) ==
  \/ ~Defined(tuning)
  \/ LET t == Index(tuning, "interest_timeout") IN
        t.kind = "zombie" \/ (t.kind = "scalar" /\ t.cls = "int")

\* ClientAgent::ClientAgent up to the acceptor: the reads in order; the first
\* that throws, or an unregistered client type (exit(1)), ends start-up.  The
\* configs enumerated have no top-level manual_dc_hash, so config_hash is 0.
Ctor(e) ==
  LET client == Resolve(e, "client")
      ctype == GetOr(client, "type", "String", StrNode("libastron"))
      channels == Resolve(e, "channels")
      lo == GetOr(channels, "min", "UInt", IntNode(INVALID_CHANNEL))
      hi == GetOr(channels, "max", "UInt", IntNode(INVALID_CHANNEL))
      reads == <<GetOr(e, "bind", "String", TextNode(DefaultBind)), GetOr(e, "version", "String", StrNode("")),
                 GetOr(e, "haproxy", "Bool", BoolNode), Index(client, "manual_dc_hash"), ctype,
                 channels, lo, hi>>
      ok == /\ \A i \in DOMAIN reads : reads[i].kind # "throw"
            /\ HashOk(reads[4])
            /\ ctype.s = Word("libastron")
            /\ TuningOk(Resolve(e, "tuning"))
  IN [ok |-> ok, min |-> lo.n, max |-> hi.n, bind |-> reads[1].s]

----------------------------------------------------------------------------
(* Start-up and the ChannelTracker                                          *)

\* The config loader runs the validator first (spec.md 7).
Validate ==
  /\ phase = "validate"
  /\ errors' = ValidateRole(<<cfg>>)
  /\ phase' = IF errors' = {} THEN "construct" ELSE "rejected"
  /\ UNCHANGED <<cfg, next, max, unused, chan, acceptor, accepted>>

\* ClientAgent::handle_error: exit(1) on these two errors only.
HandleErrorExits(err) == err \in {"address_in_use", "address_not_available"}

\* The role is constructed: m_ct = ChannelTracker(range_min, range_max), then
\* m_net_acceptor->bind(bind_address, 7198) and ->start(), each error going
\* to handle_error.  The resolver's answer and each address's open/bind
\* result come from the environment.
Construct ==
  /\ phase = "construct"
  /\ LET r == Ctor(cfg) IN
       IF ~r.ok THEN phase' = "failed" /\ UNCHANGED <<next, max, acceptor>>
       ELSE
       /\ next' = r.min /\ max' = r.max
       /\ \E res \in ResolveAddress(r.bind, DefaultPort, Endpoints) :
            IF res.r = "throw" THEN phase' = "failed" /\ UNCHANGED acceptor
            ELSE \E outs \in [1..Len(res.addrs) -> {"ok"} \cup AcceptorFaults] :
              LET b == Bind(NewAcceptor, res.addrs, outs)
                  st == Start(b.acc)
              IN IF HandleErrorExits(b.err) THEN phase' = "exited" /\ acceptor' = b.acc
                 ELSE /\ phase' = IF HandleErrorExits(st.err) THEN "exited" ELSE "running"
                      /\ acceptor' = st.acc
  /\ UNCHANGED <<cfg, errors, unused, chan, accepted>>

\* The accept loop delivers client c's connection: handle_accept, then
\* ClientAgent::handle_tcp instantiates the Client through ClientFactory.
Accept(c) ==
  /\ phase = "running" /\ Accepting(acceptor) /\ c \notin accepted
  /\ accepted' = accepted \cup {c}
  /\ UNCHANGED <<cfg, phase, errors, next, max, unused, chan, acceptor>>

\* ChannelTracker::alloc_channel for client c: m_next++ while in range (a
\* channel_t wraps at CHANNEL_MAX), then the oldest freed channel, else 0.
AllocChannel(c) ==
  /\ phase = "running" /\ c \in accepted /\ chan[c] = INVALID_CHANNEL
  /\ IF next <= max
     THEN chan' = [chan EXCEPT ![c] = next] /\ next' = (next + 1) % (ChannelMax + 1)
          /\ UNCHANGED unused
     ELSE IF unused # <<>>
     THEN chan' = [chan EXCEPT ![c] = Head(unused)] /\ unused' = Tail(unused)
          /\ UNCHANGED next
     ELSE UNCHANGED <<chan, next, unused>>
  /\ UNCHANGED <<cfg, phase, errors, max, acceptor, accepted>>

\* ChannelTracker::free_channel: the client gives its channel back.
FreeChannel(c) ==
  /\ phase = "running" /\ chan[c] # INVALID_CHANNEL
  /\ unused' = Append(unused, chan[c])
  /\ chan' = [chan EXCEPT ![c] = INVALID_CHANNEL]
  /\ UNCHANGED <<cfg, phase, errors, next, max, acceptor, accepted>>

\* Role entries: every key of ClientAgent::schema() in one or more forms,
\* well-formed or not, and one key the schema does not know.
Configs ==
  LET opt(S) == S \cup {Absent}
      ints == {IntNode(v) : v \in ChannelVals} \cup {StrNode("x")}
      channels == {MapOf(("min" :> lo) @@ ("max" :> hi)) : lo \in opt(ints), hi \in opt(ints)}
                  \cup {IntNode(1)} \cup {Absent}
      client == {IF o = "absent" THEN Absent ELSE MapOf("add_interest" :> StrNode(o)) : o \in ClientOpts}
      tuning == {MapOf("interest_timeout" :> t) : t \in {Absent, IntNode(1), StrNode("x")}} \cup {Absent}
  IN {MapOf(("type" :> StrNode("clientagent")) @@ ("version" :> StrNode("v")) @@ ("bind" :> b)
            @@ ("haproxy" :> h) @@ ("channels" :> ch) @@ ("client" :> cl) @@ ("tuning" :> tu)
            @@ ("extra" :> x))
      : b \in {TextNode(t) : t \in BindSpecs} \cup {Absent}, h \in {BoolNode, StrNode("x"), Absent}, ch \in channels,
        cl \in client, tu \in tuning, x \in {StrNode("x"), Absent}}

Init ==
  /\ cfg \in Configs /\ phase = "validate" /\ errors = {}
  /\ next = 0 /\ max = 0 /\ unused = <<>>
  /\ chan = [c \in Clients |-> INVALID_CHANNEL]
  /\ acceptor = NewAcceptor
  /\ accepted = {}

Next ==
  \/ Validate
  \/ Construct
  \/ \E c \in Clients : Accept(c) \/ AllocChannel(c) \/ FreeChannel(c)

Spec == Init /\ [][Next]_vars

----------------------------------------------------------------------------
(* Properties *)

\* The port a "bind" hostspec names, read as spec.md 6 gives it (host:port,
\* the port 1..65535) and as split_port's comment reads IPv6 (an address
\* with a port is bracketed): DefaultPort when it names none, -1 when it
\* names no usable port.
PlainHost(h) ==
  \/ \A i \in DOMAIN h : ~IsColon(h[i])
  \/ h # <<>> /\ h[1] = Chr("[") /\ h[Len(h)] = Chr("]")
ConfiguredPort(s) ==
  LET n == Len(s) IN
  CASE PlainHost(s) \/ (s[1] # Chr("[") /\ Cardinality({i \in DOMAIN s : IsColon(s[i])}) > 1) -> DefaultPort
    [] n >= 2 /\ IsColon(s[n - 1]) /\ IsDigits(s[n]) /\ s[n].v \in 1..65535
       /\ PlainHost(SubSeq(s, 1, n - 2)) -> s[n].v
    [] OTHER -> -1

\* A role entry that ConfigValidator accepts against ClientAgent::schema()
\* never makes the constructor throw or fail, and the Client Agent it
\* starts either listens on the port its "bind" names, or has ended the
\* process through handle_error's exit(1) (spec.md 7: a bind failure is
\* fatal): the schema, the constructor's reads, split_port, the acceptor
\* and handle_error agree on what a usable config is.
ValidatedConfigServes ==
  /\ phase # "failed"
  /\ phase = "running" =>
       /\ acceptor.listening /\ acceptor.bound
       /\ acceptor.at.port = ConfiguredPort(Ctor(cfg).bind)

\* No channel is handed to two clients at once, and the tracker's queue of
\* unused channels holds none twice and none a client holds: m_next never
\* wraps back into channels already given out.
ChannelsDistinct ==
  LET held == {chan[c] : c \in Clients} \ {INVALID_CHANNEL} IN
  /\ \A c, d \in Clients : c # d /\ chan[c] # INVALID_CHANNEL => chan[c] # chan[d]
  /\ IsInjective(unused)
  /\ \A i \in DOMAIN unused : unused[i] \notin held

=============================================================================
