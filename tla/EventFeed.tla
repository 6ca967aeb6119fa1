----------------------------- MODULE EventFeed -----------------------------
(*************************************************************************)
(* What an application is promised about events: it hears them in the    *)
(* order they happened, each once.  As long as more than Backlog of them *)
(* wait the oldest may be discarded, but never one that happened since   *)
(* there was a listener, and a listener is told of the discarded ones    *)
(* before it hears anything else.                                        *)
(*************************************************************************)
EXTENDS Naturals, Sequences

CONSTANTS Event, Backlog

VARIABLES
  queue,  \* events that wait, oldest first
  heard,  \* what was heard: [event, lost], with event 0 for a report
  lost,   \* discarded and not reported yet
  since   \* how many events happened since there is a listener

vars == <<queue, heard, lost, since>>

Init == queue = <<>> /\ heard = <<>> /\ lost = 0 /\ since = 0

\* Event e happens, watched or not.
Happen(e, watched) ==
  /\ queue' = Append(queue, e)
  /\ since' = IF watched THEN since + 1 ELSE since
  /\ UNCHANGED <<heard, lost>>

Hear ==
  /\ queue # <<>> /\ lost = 0
  /\ heard' = Append(heard, [event |-> Head(queue), lost |-> 0])
  /\ queue' = Tail(queue)
  /\ UNCHANGED <<lost, since>>

Report ==
  /\ lost > 0
  /\ heard' = Append(heard, [event |-> 0, lost |-> lost])
  /\ lost' = 0
  /\ UNCHANGED <<queue, since>>

Discard ==
  /\ Len(queue) > Backlog /\ Len(queue) > since
  /\ queue' = Tail(queue)
  /\ lost' = lost + 1
  /\ UNCHANGED <<heard, since>>

Next ==
  \/ \E e \in Event, watched \in BOOLEAN : Happen(e, watched)
  \/ Hear \/ Report \/ Discard

Spec == Init /\ [][Next]_vars
=============================================================================
