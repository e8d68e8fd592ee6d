------------------------------- MODULE Timeout -------------------------------
(***************************************************************************)
(* src/src/util/Timeout.cpp: a one-shot timer object that deletes itself.  *)
(* reset() (re)arms a boost::asio::steady_timer; its completion handler     *)
(* calls timer_callback() on the main thread, which runs the callback       *)
(* unless cancel() got there first, then destroy_timer() deletes the        *)
(* object.  cancel() may be called from any thread: off the main thread it  *)
(* sets m_callback_disabled and posts itself to the main thread.            *)
(*                                                                         *)
(* The io_context is a FIFO of completions: timer handlers (with success    *)
(* or operation_aborted) and the posted cancel tasks.  As in asio, a        *)
(* handler whose wait already completed is queued and can no longer be      *)
(* cancelled; steady_timer::cancel only aborts the wait still pending.      *)
(*                                                                         *)
(* The owner is modelled as a client that calls reset() and cancel() only   *)
(* while it holds the object: until it cancels or its callback runs.        *)
(***************************************************************************)
EXTENDS Naturals, Sequences

CONSTANTS
  Main, Other,        \* the main thread and one other thread
  MaxResets           \* bound on the owner's reset() calls

VARIABLES
  s,          \* the object and the io_context queue, see below
  gen,        \* reset() calls so far: the id of the latest wait
  fires,      \* ids of the waits whose handler ran m_callback, in order
  owner,      \* "holds", "cancelled" or "notified"
  cancelOk,   \* some cancel() returned true
  uaf         \* a handler or task dereferenced the deleted object

vars == <<s, gen, fires, owner, cancelOk, uaf>>

\* Fields of s: alive (not deleted), timer (m_timer != nullptr), waiting
\* (id of the async_wait still pending on the timer, 0 for none), callback
\* (m_callback != nullptr), disabled (m_callback_disabled), events (the
\* io_context queue of completions).
WaitDone(id, ok) == [kind |-> "wait", id |-> id, ok |-> ok]
CancelTask == [kind |-> "cancel", id |-> 0, ok |-> FALSE]

----------------------------------------------------------------------------

\* steady_timer::cancel(): the pending wait completes with operation_aborted.
AbortWait(t) ==
  IF t.waiting = 0 THEN t
  ELSE [t EXCEPT !.waiting = 0, !.events = Append(@, WaitDone(t.waiting, FALSE))]

\* Timeout::setup: create the steady_timer.
Setup(t) == [t EXCEPT !.timer = TRUE]

\* Timeout::destroy_timer: drop the callback, cancel and release the timer,
\* delete this.
DestroyTimer(t) ==
  LET c == [t EXCEPT !.callback = FALSE]
      d == IF c.timer THEN [AbortWait(c) EXCEPT !.timer = FALSE] ELSE c
  IN [d EXCEPT !.alive = FALSE]

\* Whether timer_callback runs m_callback: set, and the exchange finds the
\* flag clear.
Fires(t) == t.callback /\ ~t.disabled

\* Timeout::timer_callback: exchange the flag (when the callback is set),
\* run the callback, then destroy_timer.
TimerCallback(t) ==
  DestroyTimer(IF t.callback THEN [t EXCEPT !.disabled = TRUE] ELSE t)

\* A plausible slip in reset(): the async_wait sits inside the
\* `m_timer == nullptr` block, so only the first reset() arms a wait.
ResetFirstOnly(t, g) ==
  IF t.timer THEN AbortWait(t) ELSE [Setup(t) EXCEPT !.waiting = g]

\* Timeout::reset: set up the timer if needed, cancel it, arm wait g.
Reset(t, g) ==
  [AbortWait(IF t.timer THEN t ELSE Setup(t)) EXCEPT !.waiting = g]

\* Timeout::cancel on the main thread: exchange the flag, destroy_timer if
\* there is a timer.
CancelOnMain(t) ==
  LET c == [t EXCEPT !.disabled = TRUE] IN IF c.timer THEN DestroyTimer(c) ELSE c

\* A plausible slip in cancel() off the main thread: leave the exchange to
\* the posted task, and report success.
CancelOffMainDeferred(t) == [t EXCEPT !.events = Append(@, CancelTask)]

\* Timeout::cancel off the main thread: exchange the flag, post self->cancel().
CancelOffMain(t) ==
  [t EXCEPT !.disabled = TRUE, !.events = Append(@, CancelTask)]

\* The owner calls reset() on the main thread.
OwnerReset ==
  /\ owner = "holds" /\ gen < MaxResets
  /\ s' = Reset(s, gen + 1)
  /\ gen' = gen + 1
  /\ UNCHANGED <<fires, owner, cancelOk, uaf>>

\* The owner calls cancel() from thread th and lets go of the object; the
\* return value is !exchange(true).
OwnerCancel(th) ==
  /\ owner = "holds"
  /\ s' = IF th = Main THEN CancelOnMain(s) ELSE CancelOffMain(s)
  /\ owner' = "cancelled"
  /\ cancelOk' = (cancelOk \/ ~s.disabled)
  /\ UNCHANGED <<gen, fires, uaf>>

\* The timer's deadline passes: the pending wait completes with success.
Expire ==
  /\ s.waiting # 0
  /\ s' = [s EXCEPT !.waiting = 0, !.events = Append(@, WaitDone(s.waiting, TRUE))]
  /\ UNCHANGED <<gen, fires, owner, cancelOk, uaf>>

\* The main thread runs the async_wait lambda of an aborted wait: !ec is
\* false, so it does not touch self.
RunAborted ==
  /\ s.events # <<>> /\ Head(s.events).kind = "wait" /\ ~Head(s.events).ok
  /\ s' = [s EXCEPT !.events = Tail(@)]
  /\ UNCHANGED <<gen, fires, owner, cancelOk, uaf>>

\* The main thread runs the lambda of a completed wait: self->timer_callback().
\* On a deleted object this is a use after free and nothing else is modelled.
RunExpired ==
  /\ s.events # <<>> /\ Head(s.events).kind = "wait" /\ Head(s.events).ok
  /\ LET e == Head(s.events)
         t == [s EXCEPT !.events = Tail(@)]
     IN \/ /\ ~s.alive
           /\ s' = t /\ uaf' = TRUE
           /\ UNCHANGED <<fires, owner>>
        \/ /\ s.alive
           /\ s' = TimerCallback(t)
           /\ fires' = IF Fires(t) THEN Append(fires, e.id) ELSE fires
           /\ owner' = IF Fires(t) THEN "notified" ELSE owner
           /\ UNCHANGED uaf
  /\ UNCHANGED <<gen, cancelOk>>

\* The main thread runs the task posted by an off-main cancel():
\* self->cancel(), now on the main thread.
RunCancelTask ==
  /\ s.events # <<>> /\ Head(s.events).kind = "cancel"
  /\ LET t == [s EXCEPT !.events = Tail(@)] IN
        \/ /\ ~s.alive /\ s' = t /\ uaf' = TRUE
        \/ /\ s.alive /\ s' = CancelOnMain(t) /\ UNCHANGED uaf
  /\ UNCHANGED <<gen, fires, owner, cancelOk>>

\* Timeout(ms, f): a callback is set, no timer yet.
Init ==
  /\ s = [alive |-> TRUE, timer |-> FALSE, waiting |-> 0, callback |-> TRUE,
          disabled |-> FALSE, events |-> <<>>]
  /\ gen = 0 /\ fires = <<>> /\ owner = "holds" /\ cancelOk = FALSE /\ uaf = FALSE

Next ==
  \/ OwnerReset
  \/ \E th \in {Main, Other} : OwnerCancel(th)
  \/ Expire
  \/ RunAborted
  \/ RunExpired
  \/ RunCancelTask

\* Deadlines pass and the io_context keeps running completions; the owner
\* is not obliged to do anything.
Fairness == WF_vars(Expire) /\ WF_vars(RunAborted) /\ WF_vars(RunExpired)
            /\ WF_vars(RunCancelTask)

Spec == Init /\ [][Next]_vars /\ Fairness

----------------------------------------------------------------------------
(* Properties *)

\* Once cancel() has returned true, whether called on the main thread or
\* another, the callback never runs: the exchange in cancel() and the one in
\* timer_callback() decide between them.
CancelPreventsCallback == cancelOk => fires = <<>>

\* Once reset() has armed the timer, the object is eventually deleted: the
\* wait completes and timer_callback destroys it, or a cancel() does.
ArmedEventuallyDeleted == (gen > 0) ~> ~s.alive

\* No completion handler and no posted cancel task runs on the deleted
\* object (timer_callback's and cancel()'s `self` stays valid).
NoUseAfterFree == ~uaf

=============================================================================
