---------------------------- MODULE EventsProofs ----------------------------
(***************************************************************************)
(* What is proved about Events for every set of listeners, every length of *)
(* the backlog and every number of events: its types, and that the thread  *)
(* of spawn_event_dispatch implements the promise of EventFeed.            *)
(***************************************************************************)
EXTENDS Events, SequenceTheorems, TLAPS

-----------------------------------------------------------------------------
(* Lemmas about sequences.                                                 *)

\* The first of what waits in two places leaves the second for the end of the
\* first: nothing changes in the order.
LEMMA HandOver ==
  ASSUME NEW S, NEW b \in Seq(S), NEW c \in Seq(S), c # <<>>
  PROVE  Append(b, Head(c)) \o Tail(c) = b \o c
<1>1. /\ Head(c) \in S
      /\ Tail(c) \in Seq(S)
      /\ c = <<Head(c)>> \o Tail(c)
  <2>1. Head(c) \in S /\ Tail(c) \in Seq(S)
    BY HeadTailProperties
  <2>2. /\ <<Head(c)>> \in Seq(S)
        /\ Len(<<Head(c)>>) = 1
        /\ <<Head(c)>>[1] = Head(c)
    BY <2>1
  <2>3. /\ <<Head(c)>> \o Tail(c) \in Seq(S)
        /\ Len(<<Head(c)>> \o Tail(c)) = Len(c)
        /\ \A i \in 1 .. Len(c) : (<<Head(c)>> \o Tail(c))[i] = c[i]
    <3>1. Len(Tail(c)) = Len(c) - 1 /\ Len(c) \in Nat
          /\ \A i \in 1 .. Len(Tail(c)) : Tail(c)[i] = c[i + 1]
      BY HeadTailProperties, LenProperties
    <3>2. Head(c) = c[1]
      OBVIOUS
    <3> QED
      BY <2>1, <2>2, <3>1, <3>2, ConcatProperties
  <2> QED
    BY <2>1, <2>3, SeqEqual
<1>2. Append(b, Head(c)) = b \o <<Head(c)>>
  BY <1>1, AppendIsConcat
<1>3. <<Head(c)>> \in Seq(S)
  BY <1>1
<1> QED
  BY <1>1, <1>2, <1>3, ConcatAssociative

\* What is appended to the second of two sequences is appended to the whole.
LEMMA AppendToSecond ==
  ASSUME NEW S, NEW b \in Seq(S), NEW c \in Seq(S), NEW e \in S
  PROVE  b \o Append(c, e) = Append(b \o c, e)
<1>1. Append(c, e) = c \o <<e>> /\ <<e>> \in Seq(S)
  BY AppendIsConcat
<1>2. b \o c \in Seq(S) /\ Append(b \o c, e) = (b \o c) \o <<e>>
  BY ConcatProperties, AppendIsConcat
<1> QED
  BY <1>1, <1>2, ConcatAssociative

\* The head of two sequences is the head of the first one, if it has any.
LEMMA HeadOfFirst ==
  ASSUME NEW S, NEW b \in Seq(S), NEW c \in Seq(S), b # <<>>
  PROVE  /\ Head(b \o c) = Head(b)
         /\ Tail(b \o c) = Tail(b) \o c
         /\ b \o c # <<>>
<1>1. /\ Len(b) \in Nat \ {0} /\ Len(c) \in Nat
      /\ b \o c \in Seq(S) /\ Len(b \o c) = Len(b) + Len(c)
      /\ \A i \in 1 .. Len(b) + Len(c) :
           (b \o c)[i] = IF i <= Len(b) THEN b[i] ELSE c[i - Len(b)]
  BY ConcatProperties, EmptySeq, LenProperties
<1>2. b \o c # <<>>
  BY <1>1
<1>3. /\ Tail(b) \in Seq(S) /\ Len(Tail(b)) = Len(b) - 1
      /\ \A i \in 1 .. Len(Tail(b)) : Tail(b)[i] = b[i + 1]
  BY HeadTailProperties
<1>4. /\ Tail(b \o c) \in Seq(S) /\ Len(Tail(b \o c)) = Len(b) + Len(c) - 1
      /\ \A i \in 1 .. Len(Tail(b \o c)) : Tail(b \o c)[i] = (b \o c)[i + 1]
  BY <1>1, <1>2, HeadTailProperties
<1>5. /\ Tail(b) \o c \in Seq(S) /\ Len(Tail(b) \o c) = Len(b) - 1 + Len(c)
      /\ \A i \in 1 .. Len(b) - 1 + Len(c) :
           (Tail(b) \o c)[i] = IF i <= Len(b) - 1 THEN Tail(b)[i]
                               ELSE c[i - (Len(b) - 1)]
  BY <1>3, ConcatProperties
<1>6. \A i \in 1 .. Len(b) + Len(c) - 1 : Tail(b \o c)[i] = (Tail(b) \o c)[i]
  BY <1>1, <1>3, <1>4, <1>5
<1>7. Tail(b \o c) = Tail(b) \o c
  <2>1. Len(Tail(b \o c)) = Len(Tail(b) \o c)
    BY <1>1, <1>4, <1>5
  <2>2. \A i \in 1 .. Len(Tail(b \o c)) : Tail(b \o c)[i] = (Tail(b) \o c)[i]
    BY <1>4, <1>6
  <2> QED
    BY <1>4, <1>5, <2>1, <2>2, SeqEqual
<1>8. Head(b \o c) = Head(b)
  BY <1>1
<1> QED
  BY <1>2, <1>7, <1>8

-----------------------------------------------------------------------------
(* The invariant.                                                          *)

\* Events are numbered up to the bound; a listener's time starts with the
\* listener; and when the thread is about to take the next event while some
\* still wait, all that happened under the present listener is in the channel:
\* what it throws away is older.
Waiting ==
  /\ emitted <= MaxEvents
  /\ listener = None => since = 0
  /\ pc = "receive" /\ backlog # <<>> => since <= Len(chan)

\* A sequence of events stays one when another event happens.
LEMMA MoreEvents ==
  ASSUME NEW n \in Nat, NEW s \in Seq(1 .. n)
  PROVE  s \in Seq(1 .. n + 1)
<1>1. 1 .. n \subseteq 1 .. n + 1
  OBVIOUS
<1> QED
  BY <1>1, SeqMonotonic

\* What was heard stays well formed when another event happens.
LEMMA MoreHeard ==
  ASSUME NEW n \in Nat, NEW s \in Seq([event : 0 .. n, lost : Nat])
  PROVE  s \in Seq([event : 0 .. n + 1, lost : Nat])
<1>1. [event : 0 .. n, lost : Nat] \subseteq [event : 0 .. n + 1, lost : Nat]
  OBVIOUS
<1> QED
  BY <1>1, SeqMonotonic

\* Every step keeps the types (spawn_event_dispatch, set_event_listener).
LEMMA TypeStep == TypeOK /\ [Next]_vars => TypeOK'
<1> SUFFICES ASSUME TypeOK, [Next]_vars
             PROVE  TypeOK'
  OBVIOUS
<1> USE EventsAssumption
<1>1. CASE Emit
  <2>1. chan' \in Seq(1 .. emitted')
    <3>1. chan \in Seq(1 .. emitted + 1)
      BY MoreEvents DEF TypeOK
    <3>2. emitted + 1 \in 1 .. emitted + 1
      BY DEF TypeOK
    <3> QED
      BY <1>1, <3>1, <3>2, AppendProperties DEF Emit
  <2>2. backlog' \in Seq(1 .. emitted') /\ Len(backlog') <= Backlog
    BY <1>1, MoreEvents DEF Emit, thread, TypeOK
  <2>3. heard' \in Seq([event : 0 .. emitted', lost : Nat])
    BY <1>1, MoreHeard DEF Emit, thread, TypeOK
  <2> QED
    BY <1>1, <2>1, <2>2, <2>3 DEF Emit, thread, TypeOK
<1>2. CASE Close
  BY <1>2 DEF Close, thread, TypeOK
<1>3. ASSUME NEW l \in Listener, SetListener(l)
      PROVE  TypeOK'
  BY <1>3 DEF SetListener, thread, TypeOK
<1>4. CASE Receive
  <2> DEFINE S == 1 .. emitted
  <2>1. /\ backlog \in Seq(S) /\ chan \in Seq(S) /\ chan # <<>>
        /\ Len(backlog) <= Backlog /\ dropped \in Nat
        /\ chan' = Tail(chan) /\ emitted' = emitted
    BY <1>4 DEF Receive, TypeOK
  <2> HIDE DEF S
  <2>2. Head(chan) \in S /\ chan' \in Seq(S)
    BY <2>1, HeadTailProperties
  <2>3. backlog' \in Seq(S) /\ Len(backlog') <= Backlog /\ dropped' \in Nat
    <3>1. CASE Len(backlog) = Backlog
      <4>1. backlog' = Append(Tail(backlog), Head(chan)) /\ dropped' = dropped + 1
        BY <1>4, <3>1 DEF Receive, Keep
      <4>2. Tail(backlog) \in Seq(S) /\ Len(Tail(backlog)) = Backlog - 1
        BY <2>1, <3>1, HeadTailProperties, EmptySeq
      <4> QED
        BY <2>1, <2>2, <4>1, <4>2, AppendProperties
    <3>2. CASE Len(backlog) # Backlog
      <4>1. backlog' = Append(backlog, Head(chan)) /\ dropped' = dropped
        BY <1>4, <3>2 DEF Receive, Keep
      <4>2. Len(backlog) \in Nat /\ Len(backlog) < Backlog
        BY <2>1, <3>2, LenProperties
      <4> QED
        BY <2>1, <2>2, <4>1, <4>2, AppendProperties
    <3> QED
      BY <3>1, <3>2
  <2> QED
    BY <1>4, <2>1, <2>2, <2>3 DEF Receive, TypeOK, S
<1>5. CASE Timeout
  BY <1>5 DEF Timeout, TypeOK
<1>6. CASE Disconnected
  BY <1>6 DEF Disconnected, TypeOK
<1>7. CASE Look
  BY <1>7 DEF Look, TypeOK
<1>8. CASE ReportDropped
  <2>1. [event |-> 0, lost |-> dropped] \in [event : 0 .. emitted, lost : Nat]
    BY DEF TypeOK
  <2>2. heard' \in Seq([event : 0 .. emitted, lost : Nat])
    BY <1>8, <2>1, AppendProperties DEF ReportDropped, TypeOK
  <2> QED
    BY <1>8, <2>2 DEF ReportDropped, TypeOK
<1>9. CASE Deliver
  <2> DEFINE S == 1 .. emitted
  <2>1. backlog \in Seq(S) /\ backlog # <<>> /\ Len(backlog) <= Backlog
    BY <1>9 DEF Deliver, TypeOK
  <2> HIDE DEF S
  <2>2. /\ Head(backlog) \in S /\ Tail(backlog) \in Seq(S)
        /\ Len(Tail(backlog)) = Len(backlog) - 1 /\ Len(backlog) \in Nat
    BY <2>1, HeadTailProperties, LenProperties
  <2>3. [event |-> Head(backlog), lost |-> 0] \in [event : 0 .. emitted, lost : Nat]
    BY <2>2 DEF S, TypeOK
  <2>4. heard' \in Seq([event : 0 .. emitted, lost : Nat])
    BY <1>9, <2>3, AppendProperties DEF Deliver, TypeOK
  <2>5. backlog' \in Seq(S) /\ Len(backlog') <= Backlog
    BY <1>9, <2>1, <2>2 DEF Deliver
  <2> QED
    BY <1>9, <2>4, <2>5 DEF Deliver, TypeOK, S
<1>10. CASE Delivered
  BY <1>10 DEF Delivered, TypeOK
<1>11. CASE UNCHANGED vars
  BY <1>11 DEF vars, thread, TypeOK
<1> QED
  BY <1>1, <1>2, <1>3, <1>4, <1>5, <1>6, <1>7, <1>8, <1>9, <1>10, <1>11
     DEF Next, Dispatch

\* The dispatch of events keeps its types: the backlog holds at most Backlog
\* events, and every number in it is one of an event that happened.
THEOREM TypeCorrect == Spec => []TypeOK
<1>1. Init => TypeOK
  BY EventsAssumption, EmptySeq DEF Init, TypeOK
<1> QED
  BY <1>1, TypeStep, PTL DEF Spec

\* Every step keeps the events under a listener out of reach of what the thread
\* throws away.
LEMMA WaitingStep == TypeOK /\ Waiting /\ [Next]_vars => Waiting'
<1> SUFFICES ASSUME TypeOK, Waiting, [Next]_vars
             PROVE  Waiting'
  OBVIOUS
<1> USE EventsAssumption
<1>0. Len(chan) \in Nat
  BY LenProperties DEF TypeOK
<1>1. CASE Emit
  <2>1. Len(chan') = Len(chan) + 1
    <3>1. chan \in Seq(1 .. emitted + 1) /\ emitted + 1 \in 1 .. emitted + 1
      BY MoreEvents DEF TypeOK
    <3> QED
      BY <1>1, <3>1, AppendProperties DEF Emit
  <2> QED
    BY <1>0, <1>1, <2>1 DEF Emit, thread, Waiting, TypeOK
<1>2. CASE Close
  BY <1>2 DEF Close, thread, Waiting
<1>3. ASSUME NEW l \in Listener, SetListener(l)
      PROVE  Waiting'
  BY <1>3 DEF SetListener, thread, Waiting
<1>4. CASE Receive
  BY <1>4 DEF Receive, Waiting
<1>5. CASE Timeout
  BY <1>5 DEF Timeout, Waiting
<1>6. CASE Disconnected
  BY <1>6 DEF Disconnected, Waiting
<1>7. CASE Look
  BY <1>0, <1>7 DEF Look, Waiting
<1>8. CASE ReportDropped
  BY <1>8 DEF ReportDropped, Waiting
<1>9. CASE Deliver
  BY <1>9 DEF Deliver, Waiting
<1>10. CASE Delivered
  BY <1>10 DEF Delivered, Waiting
<1>11. CASE UNCHANGED vars
  BY <1>11 DEF vars, thread, Waiting
<1> QED
  BY <1>1, <1>2, <1>3, <1>4, <1>5, <1>6, <1>7, <1>8, <1>9, <1>10, <1>11
     DEF Next, Dispatch

-----------------------------------------------------------------------------
(* The refinement.                                                         *)

\* A step of the engine or of the thread is a step of the promise, or none:
\* an event happens, is heard, is discarded or the discarded ones are reported.
LEMMA FeedStep ==
  TypeOK /\ Waiting /\ Waiting' /\ [Next]_vars => [Feed!Next]_(Feed!vars)
<1> SUFFICES ASSUME TypeOK, Waiting, Waiting', [Next]_vars
             PROVE  [Feed!Next]_(Feed!vars)
  OBVIOUS
<1> USE EventsAssumption
<1> DEFINE S == 1 .. emitted
           queue == backlog \o chan
<1>0. backlog \in Seq(S) /\ chan \in Seq(S) /\ Len(backlog) \in Nat
  BY LenProperties DEF TypeOK
<1>a. ASSUME UNCHANGED <<backlog, chan, heard, dropped, since>>
      PROVE  UNCHANGED Feed!vars
  BY <1>a DEF Feed!vars
<1>1. CASE Emit
  <2>1. emitted + 1 \in 1 .. MaxEvents
    BY <1>1 DEF Emit, Waiting, TypeOK
  <2>2. queue' = Append(queue, emitted + 1)
    <3>1. backlog \in Seq(1 .. emitted + 1) /\ chan \in Seq(1 .. emitted + 1)
      BY MoreEvents DEF TypeOK
    <3>2. emitted + 1 \in 1 .. emitted + 1
      BY DEF TypeOK
    <3>3. queue' = backlog \o Append(chan, emitted + 1)
      BY <1>1 DEF Emit, thread
    <3> HIDE DEF queue
    <3> QED
      BY <3>1, <3>2, <3>3, AppendToSecond DEF queue
  <2>3. Feed!Happen(emitted + 1, listener # None)
    BY <1>1, <2>2 DEF Emit, thread, Feed!Happen
  <2>4. Feed!Next
    BY <2>1, <2>3 DEF Feed!Next
  <2> QED
    BY <2>4
<1>2. CASE Close
  BY <1>2, <1>a DEF Close, thread
<1>3. ASSUME NEW l \in Listener, SetListener(l)
      PROVE  UNCHANGED Feed!vars
  BY <1>3, <1>a DEF SetListener, thread
<1>4. CASE Receive
  <2>1. chan # <<>> /\ chan' = Tail(chan) /\ UNCHANGED <<heard, since>>
    BY <1>4 DEF Receive
  <2> HIDE DEF S
  <2>2. CASE Len(backlog) = Backlog
    <3>1. /\ backlog' = Append(Tail(backlog), Head(chan))
          /\ dropped' = dropped + 1
      BY <1>4, <2>2 DEF Receive, Keep
    <3>2. backlog # <<>> /\ Tail(backlog) \in Seq(S)
      BY <1>0, <2>2, HeadTailProperties, EmptySeq
    <3>3. queue' = Append(Tail(backlog), Head(chan)) \o Tail(chan)
      BY <2>1, <3>1
    <3>4. queue' = Tail(backlog) \o chan
      <4> HIDE DEF queue
      <4> QED
        BY <1>0, <2>1, <3>2, <3>3, HandOver
    <3>5. queue' = Tail(queue) /\ queue # <<>>
      BY <1>0, <3>2, <3>4, HeadOfFirst
    <3>6. /\ Len(queue) = Backlog + Len(chan)
          /\ Len(chan) \in Nat \ {0}
      BY <1>0, <2>1, <2>2, ConcatProperties, EmptySeq
    <3>7. since <= Len(chan) /\ since \in Nat
      BY <1>4, <3>2 DEF Receive, Waiting, TypeOK
    <3>8. Len(queue) > Backlog /\ Len(queue) > since
      <4> HIDE DEF queue
      <4> QED
        BY <3>6, <3>7
    <3>9. Feed!Discard
      BY <2>1, <3>1, <3>5, <3>8 DEF Feed!Discard
    <3> QED
      BY <3>9 DEF Feed!Next
  <2>3. CASE Len(backlog) # Backlog
    <3>1. backlog' = Append(backlog, Head(chan)) /\ dropped' = dropped
      BY <1>4, <2>3 DEF Receive, Keep
    <3>2. queue' = Append(backlog, Head(chan)) \o Tail(chan)
      BY <2>1, <3>1
    <3>3. queue' = queue
      <4>1. Append(backlog, Head(chan)) \o Tail(chan) = queue
        BY <1>0, <2>1, HandOver
      <4> QED
        BY <3>2, <4>1
    <3> QED
      BY <2>1, <3>1, <3>3 DEF Feed!vars
  <2> QED
    BY <2>2, <2>3
<1>5. CASE Timeout
  BY <1>5, <1>a DEF Timeout
<1>6. CASE Disconnected
  BY <1>6, <1>a DEF Disconnected
<1>7. CASE Look
  BY <1>7, <1>a DEF Look
<1>8. CASE ReportDropped
  <2>1. Feed!Report
    BY <1>8 DEF ReportDropped, Feed!Report
  <2> QED
    BY <2>1 DEF Feed!Next
<1>9. CASE Deliver
  <2>1. backlog # <<>>
    BY <1>9 DEF Deliver
  <2>2. /\ Head(queue) = Head(backlog) /\ queue # <<>>
        /\ Tail(queue) = Tail(backlog) \o chan
    BY <1>0, <2>1, HeadOfFirst
  <2>3. queue' = Tail(backlog) \o chan
    BY <1>9 DEF Deliver
  <2>4. Feed!Hear
    BY <1>9, <2>2, <2>3 DEF Deliver, Feed!Hear
  <2> QED
    BY <2>4 DEF Feed!Next
<1>10. CASE Delivered
  BY <1>10, <1>a DEF Delivered
<1>11. CASE UNCHANGED vars
  BY <1>11, <1>a DEF vars, thread
<1> QED
  BY <1>1, <1>2, <1>3, <1>4, <1>5, <1>6, <1>7, <1>8, <1>9, <1>10, <1>11
     DEF Next, Dispatch

\* The thread of spawn_event_dispatch implements the promise: events are heard
\* in order and once, nothing is discarded that happened under the listener or
\* fits the backlog, and no loss goes unreported.
THEOREM EventsImplementFeed == Spec => InOrder
<1>1. Init => TypeOK /\ Waiting
  BY EventsAssumption, EmptySeq DEF Init, TypeOK, Waiting
<1>2. Init => Feed!Init
  <2>1. <<>> \o <<>> = <<>>
    BY EmptySeq, ConcatEmptySeq
  <2> QED
    BY <2>1 DEF Init, Feed!Init
<1>3. TypeOK /\ Waiting /\ [Next]_vars
        => (TypeOK /\ Waiting)' /\ [Feed!Next]_(Feed!vars)
  BY TypeStep, WaitingStep, FeedStep
<1> QED
  BY <1>1, <1>2, <1>3, PTL DEF Spec, InOrder, Feed!Spec
=============================================================================
