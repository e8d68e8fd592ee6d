--------------------------- MODULE NetworkAcceptor ---------------------------
(***************************************************************************)
(* NetworkAcceptor::bind and ::start (src/src/net/NetworkAcceptor.cpp) as  *)
(* operators on the acceptor's state, for the roles that own one.  An      *)
(* acceptor is a record: its socket is open, bound to address "at",        *)
(* started (m_started) and listening.  Each call yields the new acceptor   *)
(* and the error it hands m_err_callback, "none" when it hands none.       *)
(***************************************************************************)
EXTENDS Sequences

LOCAL Seqs == INSTANCE SequencesExt

\* What open() can report: the acceptor stays closed.
OpenErrors == {"address_family_not_supported"}
\* What set_option(reuse_address) can report: the socket stays open and
\* unbound, as after a failed bind().
SetOptionErrors == {"no_protocol_option"}
\* What bind() can report: the socket stays open and unbound.
BindErrors == {"address_in_use", "address_not_available", "permission_denied"}

NoAddr == [ip |-> <<>>, port |-> 0]

\* The constructor: a tcp::acceptor on the context, not yet open.
NewAcceptor == [open |-> FALSE, bound |-> FALSE, at |-> NoAddr, started |-> FALSE, listening |-> FALSE]

\* bind: no address reports address_not_available.  Otherwise each address
\* in turn is tried (close, open, set_option, bind) until one binds; outs[i]
\* is "ok" or the error of address i.  If none binds, the acceptor is as the
\* last attempt left it and last_error is that attempt's error.
Bind(acc, addrs, outs) ==
  LET i == Seqs!SelectInSeq(outs, LAMBDA o : o = "ok")
      last == outs[Len(outs)]
  IN CASE addrs = <<>> -> [acc |-> acc, err |-> "address_not_available"]
       [] i # 0 -> [acc |-> [acc EXCEPT !.open = TRUE, !.bound = TRUE, !.at = addrs[i]], err |-> "none"]
       [] OTHER -> [acc |-> [acc EXCEPT !.open = last \notin OpenErrors, !.bound = FALSE, !.at = NoAddr],
                    err |-> last]

\* start: once only; listen() on a closed socket fails with bad_descriptor,
\* on an open one it succeeds, and on an unbound one the kernel binds it to
\* an ephemeral port first.  Only then is the first accept queued.
Start(acc) ==
  CASE acc.started -> [acc |-> acc, err |-> "none"]
    [] ~acc.open -> [acc |-> [acc EXCEPT !.started = TRUE], err |-> "bad_descriptor"]
    [] OTHER -> [acc |-> [acc EXCEPT !.started = TRUE, !.listening = TRUE], err |-> "none"]

\* TcpAcceptor::start_accept queues an accept only while started and open,
\* and handle_accept hands a socket to the callback only while started.  An
\* accept that fails, or whose endpoints cannot be read, closes the socket
\* and re-arms, leaving the acceptor as it was.
Accepting(acc) == acc.started /\ acc.open /\ acc.listening

=============================================================================
