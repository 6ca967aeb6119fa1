------------------------------- MODULE Events -------------------------------
(**************************************************************************)
(* How events reach the application.  Every part of the engine sends into *)
(* one channel; one thread takes events out of it, keeps them while there *)
(* is no listener, and hands them over one by one.                        *)
(**************************************************************************)
EXTENDS Naturals, Sequences

CONSTANTS
  Listener,   \* listeners the application may register
  None,       \* no listener
  Backlog,    \* events kept without a listener (EVENT_BACKLOG, 256)
  MaxEvents   \* bound: events that happen

ASSUME EventsAssumption ==
  Backlog \in Nat \ {0} /\ MaxEvents \in Nat /\ None \notin Listener

VARIABLES
  chan,      \* the channel
  backlog,   \* taken out of it and not handed over yet
  dropped,   \* events thrown away and not reported yet
  listener,  \* the registered listener
  pc,        \* the thread: receive, look, deliver or ended
  current,   \* the listener it has found
  open,      \* the engine exists: there are senders
  emitted,   \* events so far, numbered from 1
  heard,     \* history: what listeners were called with; event 0 is the report
             \* of what was thrown away
  since      \* history: events that happened since there is a listener

thread == <<backlog, dropped, pc, current, heard>>
vars == <<thread, chan, listener, open, emitted, since>>

TypeOK ==
  /\ chan \in Seq(1 .. emitted)
  /\ backlog \in Seq(1 .. emitted) /\ Len(backlog) <= Backlog
  /\ dropped \in Nat
  /\ listener \in Listener \cup {None}
  /\ pc \in {"receive", "look", "deliver", "ended"}
  /\ current \in Listener \cup {None}
  /\ open \in BOOLEAN
  /\ emitted \in Nat
  /\ heard \in Seq([event : 0 .. emitted, lost : Nat])
  /\ since \in Nat

Init ==
  /\ chan = <<>> /\ backlog = <<>> /\ dropped = 0
  /\ listener = None /\ pc = "receive" /\ current = None
  /\ open = TRUE /\ emitted = 0 /\ heard = <<>> /\ since = 0

\* Something in the engine happens, also inside a call of the listener.
Emit ==
  /\ open /\ emitted < MaxEvents
  /\ emitted' = emitted + 1
  /\ chan' = Append(chan, emitted + 1)
  /\ since' = IF listener = None THEN since ELSE since + 1
  /\ UNCHANGED <<thread, listener, open>>

\* Engine::set_event_listener.
SetListener(l) ==
  /\ listener # l
  /\ listener' = l
  /\ UNCHANGED <<thread, chan, open, emitted, since>>

\* The engine is dropped, and every sender with it.
Close ==
  /\ open
  /\ open' = FALSE
  /\ UNCHANGED <<thread, chan, listener, emitted, since>>

\* Mutant: a full backlog refuses the new event.
KeepOldest(e) ==
  IF Len(backlog) = Backlog
  THEN backlog' = backlog /\ dropped' = dropped + 1
  ELSE backlog' = Append(backlog, e) /\ UNCHANGED dropped

\* Mutant: nothing is thrown away.
KeepAll(e) == backlog' = Append(backlog, e) /\ UNCHANGED dropped

\* The oldest event makes room for the new one.
Keep(e) ==
  IF Len(backlog) = Backlog
  THEN backlog' = Append(Tail(backlog), e) /\ dropped' = dropped + 1
  ELSE backlog' = Append(backlog, e) /\ UNCHANGED dropped

Receive ==
  /\ pc = "receive" /\ chan # <<>>
  /\ chan' = Tail(chan)
  /\ Keep(Head(chan))
  /\ pc' = "look"
  /\ UNCHANGED <<listener, current, open, emitted, heard, since>>

\* Mutant: nothing new means nothing to do.
TimeoutIdle ==
  /\ pc = "receive" /\ chan = <<>> /\ open
  /\ UNCHANGED vars

\* Nothing arrives for 100 ms: the backlog is looked at all the same.
Timeout ==
  /\ pc = "receive" /\ chan = <<>> /\ open /\ backlog # <<>>
  /\ pc' = "look"
  /\ UNCHANGED <<backlog, dropped, current, heard, chan, listener, open, emitted,
                 since>>

Disconnected ==
  /\ pc = "receive" /\ chan = <<>> /\ ~ open
  /\ pc' = "ended"
  /\ UNCHANGED <<backlog, dropped, current, heard, chan, listener, open, emitted,
                 since>>

\* The listener is cloned out of its lock.
Look ==
  /\ pc = "look"
  /\ current' = listener
  /\ pc' = IF listener = None THEN "receive" ELSE "deliver"
  /\ UNCHANGED <<backlog, dropped, heard, chan, listener, open, emitted, since>>

\* What was thrown away is reported before anything is handed over.
ReportDropped ==
  /\ pc = "deliver" /\ dropped > 0
  /\ heard' = Append(heard, [event |-> 0, lost |-> dropped])
  /\ dropped' = 0
  /\ UNCHANGED <<backlog, pc, current, chan, listener, open, emitted, since>>

Deliver ==
  /\ pc = "deliver" /\ dropped = 0 /\ backlog # <<>>
  /\ heard' = Append(heard, [event |-> Head(backlog), lost |-> 0])
  /\ backlog' = Tail(backlog)
  /\ UNCHANGED <<dropped, pc, current, chan, listener, open, emitted, since>>

Delivered ==
  /\ pc = "deliver" /\ dropped = 0 /\ backlog = <<>>
  /\ pc' = "receive"
  /\ current' = None
  /\ UNCHANGED <<backlog, dropped, heard, chan, listener, open, emitted, since>>

Dispatch == \/ Receive \/ Timeout \/ Disconnected \/ Look
            \/ ReportDropped \/ Deliver \/ Delivered

Next == Emit \/ Close \/ (\E l \in Listener : SetListener(l)) \/ Dispatch

Spec == Init /\ [][Next]_vars

\* The thread goes on as long as there is something for it to do: listeners
\* return from their calls.
FairSpec == Spec /\ WF_vars(Dispatch)

-----------------------------------------------------------------------------
(* Properties.                                                           *)

Feed == INSTANCE EventFeed WITH Event <- 1 .. MaxEvents,
                                queue <- backlog \o chan, lost <- dropped

\* The thread implements the promise: in order, once, nothing thrown away that
\* happened under a listener or within the backlog, and no loss unreported
\* (spawn_event_dispatch).
InOrder == Feed!Spec

\* What happens under a listener is heard, even if nothing else ever happens and
\* the engine is dropped meanwhile; what waited when the listener was set is
\* heard or reported as lost, unless the engine is dropped before the thread
\* looks again (the timeout in spawn_event_dispatch).
Heard(n) == \E k \in 1 .. Len(heard) : heard[k].event = n
LossReported == \E k \in 1 .. Len(heard) : heard[k].lost > 0

HeardInTheEnd ==
  \A n \in 1 .. MaxEvents :
    /\ n <= emitted /\ n > emitted - since ~> Heard(n)
    /\ n <= emitted /\ listener # None ~> Heard(n) \/ LossReported \/ ~ open
=============================================================================
