----------------------------- MODULE WebProofs -----------------------------
(***************************************************************************)
(* What is proved about Web for every set of folders, files, requests and  *)
(* pages: its types, that at most one engine runs over the folder in use,  *)
(* and that a change of folder takes along the file of every item held.    *)
(***************************************************************************)
EXTENDS Web, SequenceTheorems, TLAPS

\* As long as nobody went away in the middle of a change of folder, whoever is in
\* the middle of one holds the mutex, no engine runs while files move, the request
\* remembers the folder in use until another is made the current one, and what is
\* started is the engine over the folder that was asked for, or that was left.
OneSwitch ==
  ~ left =>
    /\ (\A r \in Request : switches[r].step # "publish") => up \subseteq {folder}
    /\ \A r \in Request : Busy(r) => turn = r
    /\ \A r \in Request : switches[r].step \in {"move", "open", "reopen"} => up = {}
    /\ \A r \in Request :
         switches[r].step \in {"move", "open", "reopen", "republish"} =>
           switches[r].from = folder
    /\ \A r \in Request : switches[r].step = "publish" => up = {switches[r].to}
    /\ \A r \in Request : switches[r].step \in {"scan", "save"} =>
         switches[r].to = folder

\* As long as nothing went wrong, the file of every item held is in the folder in
\* use, which is the one that is remembered; while files move it is in the old
\* folder or in the new one, and from then on in the new one, and nobody goes back.
FilesFollow ==
  ~ torn /\ ~ left =>
    /\ ~ Switching => held \subseteq files[folder] /\ saved = folder
    /\ \A r \in Request :
         /\ switches[r].step = "move" =>
              held \subseteq files[switches[r].from] \cup files[switches[r].to]
         /\ switches[r].step \in {"open", "publish", "scan", "save"} =>
              held \subseteq files[switches[r].to]
         /\ switches[r].step # "republish"

-----------------------------------------------------------------------------
(* Types.                                                                  *)

Steps == {"none", "queued", "move", "open", "publish", "reopen", "republish", "scan",
          "save", "done"}

Switch == [step : Steps, from : Folder, to : Folder]

Page == [step : {"closed", "subscribed", "read", "open"},
         of : Folder \cup {None}, opening : Snapshots \cup {None},
         queue : Seq(Message), shows : Snapshots \cup {None}, doubt : BOOLEAN]

\* What is read of an engine is a snapshot.
LEMMA SnapshotTyped == \A d \in Folder : SnapshotOf(d) \in Snapshots
<1> SUFFICES ASSUME NEW d \in Folder
             PROVE  SnapshotOf(d) \in Snapshots
  OBVIOUS
<1>1. (d \in up) \in BOOLEAN
  OBVIOUS
<1> QED
  BY <1>1 DEF SnapshotOf, Snapshots

\* Sending keeps a page well formed and its queue within the channel's capacity.
LEMMA SentTyped ==
  ASSUME NEW p \in Page, NEW m \in Message, Len(p.queue) <= Capacity
  PROVE  /\ Sent(p, m) \in Page /\ Len(Sent(p, m).queue) <= Capacity
         /\ Sent(p, m).step = p.step /\ Sent(p, m).of = p.of
<1> USE WebAssumption
<1>0. p.queue \in Seq(Message) /\ Len(p.queue) \in Nat
  BY LenProperties DEF Page
<1>1. CASE p.step = "closed"
  BY <1>1 DEF Sent
<1>2. CASE p.step # "closed" /\ Len(p.queue) < Capacity
  <2> DEFINE q == Append(p.queue, m)
  <2>1. q \in Seq(Message) /\ Len(q) = Len(p.queue) + 1
    BY <1>0, AppendProperties
  <2>2. Sent(p, m) = [p EXCEPT !.queue = q]
    BY <1>2 DEF Sent
  <2> HIDE DEF q
  <2>3. /\ Sent(p, m) \in Page /\ Sent(p, m).queue = q
        /\ Sent(p, m).step = p.step /\ Sent(p, m).of = p.of
    BY <2>1, <2>2 DEF Page
  <2> QED
    BY <1>0, <1>2, <2>1, <2>3
<1>3. CASE p.step # "closed" /\ ~ (Len(p.queue) < Capacity)
  <2> DEFINE q == Append(Tail(p.queue), m)
             doubtful == p.doubt \/ Head(p.queue).kind = "state"
  <2>1. p.queue # <<>>
    BY <1>0, <1>3, EmptySeq
  <2>2. Tail(p.queue) \in Seq(Message) /\ Len(Tail(p.queue)) = Len(p.queue) - 1
    BY <1>0, <2>1, HeadTailProperties
  <2>3. q \in Seq(Message) /\ Len(q) = Len(Tail(p.queue)) + 1
    BY <2>2, AppendProperties
  <2>4. doubtful \in BOOLEAN
    OBVIOUS
  <2>5. Sent(p, m) = [p EXCEPT !.queue = q, !.doubt = doubtful]
    BY <1>3 DEF Sent
  <2> HIDE DEF q, doubtful
  <2>6. /\ Sent(p, m) \in Page /\ Sent(p, m).queue = q
        /\ Sent(p, m).step = p.step /\ Sent(p, m).of = p.of
    BY <2>3, <2>4, <2>5 DEF Page
  <2> QED
    BY <1>0, <1>3, <2>2, <2>3, <2>6
<1> QED
  BY <1>1, <1>2, <1>3

\* A page sent to stays a page, whichever pages there are.
LEMMA AllSentTyped ==
  ASSUME TypeOK, NEW m \in Message, tabs' = [t \in Tab |-> Sent(tabs[t], m)]
  PROVE  /\ tabs' \in [Tab -> Page] /\ \A t \in Tab : Len(tabs'[t].queue) <= Capacity
         /\ \A t \in Tab : tabs'[t].step = tabs[t].step /\ tabs'[t].of = tabs[t].of
<1> SUFFICES ASSUME NEW t \in Tab
             PROVE  /\ Sent(tabs[t], m) \in Page
                    /\ Len(Sent(tabs[t], m).queue) <= Capacity
                    /\ Sent(tabs[t], m).step = tabs[t].step
                    /\ Sent(tabs[t], m).of = tabs[t].of
  OBVIOUS
<1>1. tabs[t] \in Page /\ Len(tabs[t].queue) <= Capacity
  BY DEF TypeOK, Page
<1> QED
  BY <1>1, SentTyped

\* Moving a request to another step keeps the requests well formed.
LEMMA AtTyped ==
  ASSUME TypeOK, NEW r \in Request, NEW s \in Steps, At(r, s)
  PROVE  switches' \in [Request -> Switch]
<1>1. switches \in [Request -> Switch]
  BY DEF TypeOK, Switch, Steps
<1>2. switches' = [switches EXCEPT ![r].step = s]
  BY DEF At
<1> QED
  BY <1>1, <1>2 DEF Switch

\* A page changed by itself leaves the others as they are.
LEMMA OnePageTyped ==
  ASSUME TypeOK, NEW t \in Tab, NEW p \in Page, Len(p.queue) <= Capacity,
         tabs' = [tabs EXCEPT ![t] = p]
  PROVE  tabs' \in [Tab -> Page] /\ \A u \in Tab : Len(tabs'[u].queue) <= Capacity
BY DEF TypeOK, Page

\* The types, with the records named.
Types ==
  /\ folder \in Folder /\ saved \in Folder /\ up \subseteq Folder
  /\ files \in [Folder -> SUBSET File] /\ held \subseteq File
  /\ calls \subseteq [file : File, folder : Folder]
  /\ switches \in [Request -> Switch]
  /\ turn \in Request \cup {None}
  /\ loop \in [step : {"wait", "send", "ended"}, seen : Snapshots \cup {None},
               last : Snapshots \cup {None}]
  /\ tabs \in [Tab -> Page] /\ \A t \in Tab : Len(tabs[t].queue) <= Capacity
  /\ acts \in 0 .. MaxActs /\ notices \in 0 .. MaxNotices
  /\ left \in BOOLEAN /\ torn \in BOOLEAN /\ stranded \in BOOLEAN

\* A page that has subscribed has got hold of an engine, and the task that is about
\* to send has read one.
Reading ==
  /\ loop.step = "send" => loop.seen \in Snapshots
  /\ \A t \in Tab : tabs[t].step = "subscribed" => tabs[t].of \in Folder

LEMMA SameTypes == (TypeOK <=> Types) /\ (TypeOK' <=> Types')
<1>1. TypeOK <=> Types
  BY DEF TypeOK, Types, Switch, Steps, Page
<1>2. TypeOK' <=> Types'
  BY DEF TypeOK, Types, Switch, Steps, Page
<1> QED
  BY <1>1, <1>2

\* Imports and changes of folder keep the types (choose, switch, move_contents).
LEMMA EngineTypeStep ==
  ASSUME Types,
         \/ \E f \in File : ImportBegin(f)
         \/ \E c \in calls : ImportEnd(c)
         \/ \E r \in Request :
              SwitchStep(r) \/ Hangup(r) \/ (\E to \in Folder : Choose(r, to))
  PROVE  Types'
<1> USE WebAssumption
<1>0. TypeOK
  BY SameTypes
<1>1. ASSUME NEW f \in File, ImportBegin(f)
      PROVE  Types'
  <2>1. acts' \in 0 .. MaxActs
    BY <1>1 DEF ImportBegin, Act, Types
  <2> QED
    BY <1>1, <2>1 DEF ImportBegin, change, pages, Types
<1>2. ASSUME NEW c \in calls, ImportEnd(c)
      PROVE  Types'
  <2>1. c.folder \in Folder /\ c.file \in File
    BY <1>2 DEF Types
  <2>2. files' \in [Folder -> SUBSET File] /\ held' \subseteq File
    BY <1>2, <2>1 DEF ImportEnd, Types
  <2>3. torn' \in BOOLEAN
    BY <1>2 DEF ImportEnd, Types
  <2> QED
    BY <1>2, <2>2, <2>3 DEF ImportEnd, pages, Types
<1>3. ASSUME NEW r \in Request, NEW to \in Folder, Choose(r, to)
      PROVE  Types'
  <2>1. acts' \in 0 .. MaxActs
    <3>1. acts \in 0 .. MaxActs /\ Act
      BY <1>3 DEF Choose, Types
    <3> QED
      BY <3>1 DEF Act
  <2>2. switches' \in [Request -> Switch]
    <3>1. PICK s : s = [NoSwitch EXCEPT !.step = "queued", !.to = to]
      OBVIOUS
    <3>2. s \in Switch
      BY <3>1 DEF NoSwitch, Switch, Steps
    <3>3. switches' = [switches EXCEPT ![r] = s]
      BY <1>3, <3>1 DEF Choose
    <3> QED
      BY <3>2, <3>3 DEF Types
  <2> QED
    BY <1>3, <2>1, <2>2 DEF Choose, engine, pages, Types
<1>4. ASSUME NEW r \in Request, Hangup(r)
      PROVE  Types'
  <2>1. acts' \in 0 .. MaxActs
    BY <1>4 DEF Hangup, Act, Types
  <2>2. switches' \in [Request -> Switch]
    <3>1. CASE Busy(r)
      BY <1>4, <3>1 DEF Hangup, Types
    <3>2. CASE ~ Busy(r)
      BY <1>0, <1>4, <3>2, AtTyped DEF Hangup, Steps
    <3> QED
      BY <3>1, <3>2
  <2>3. turn' \in Request \cup {None} /\ left' \in BOOLEAN
    BY <1>4 DEF Hangup, Released, Types
  <2> QED
    BY <1>4, <2>1, <2>2, <2>3 DEF Hangup, engine, pages, Types
<1>a. ASSUME NEW r \in Request, Finished(r)
      PROVE  switches' \in [Request -> Switch] /\ turn' \in Request \cup {None}
  BY <1>0, <1>a, AtTyped DEF Finished, Released, Types, Steps
<1>5. ASSUME NEW r \in Request, BeginSwitch(r)
      PROVE  Types'
  <2>1. /\ switches' \in [Request -> Switch] /\ turn' \in Request \cup {None}
        /\ up' \subseteq Folder
    <3>1. CASE Finished(r) /\ UNCHANGED up
      BY <1>a, <3>1 DEF Types
    <3>2. CASE ~ (Finished(r) /\ UNCHANGED up)
      <4>1. switches' = [switches EXCEPT ![r].step = "move", ![r].from = folder]
        BY <1>5, <3>2 DEF BeginSwitch
      <4>2. switches' \in [Request -> Switch]
        BY <4>1 DEF Types, Switch, Steps
      <4> QED
        BY <1>5, <3>2, <4>2 DEF BeginSwitch, Types
    <3> QED
      BY <3>1, <3>2
  <2> QED
    BY <1>5, <2>1 DEF BeginSwitch, pages, Types
<1>6. ASSUME NEW r \in Request, MoveDone(r)
      PROVE  Types'
  <2>1. switches' \in [Request -> Switch]
    BY <1>0, <1>6, AtTyped DEF MoveDone, Steps
  <2> QED
    BY <1>6, <2>1 DEF MoveDone, engine, pages, Types
<1>7. ASSUME NEW r \in Request, MoveFails(r)
      PROVE  Types'
  BY <1>7, <1>a DEF MoveFails, engine, pages, Types
<1>8. ASSUME NEW r \in Request, OpenNew(r)
      PROVE  Types'
  <2>1. switches' \in [Request -> Switch]
    BY <1>0, <1>8, AtTyped DEF OpenNew, Steps
  <2>2. switches[r].to \in Folder
    BY DEF Types, Switch
  <2> QED
    BY <1>8, <2>1, <2>2 DEF OpenNew, pages, Types
<1>9. ASSUME NEW r \in Request, Reopen(r)
      PROVE  Types'
  <2>1. switches[r].from \in Folder
    BY DEF Types, Switch
  <2>2. up' \subseteq Folder /\ stranded' \in BOOLEAN
    BY <1>9, <2>1 DEF Reopen, Types
  <2>3. switches' \in [Request -> Switch] /\ turn' \in Request \cup {None}
    <3>1. CASE At(r, "republish") /\ UNCHANGED turn
      BY <1>0, <3>1, AtTyped DEF Types, Steps
    <3>2. CASE Finished(r)
      BY <1>a, <3>2
    <3> QED
      BY <1>9, <3>1, <3>2 DEF Reopen
  <2> QED
    BY <1>9, <2>2, <2>3 DEF Reopen, pages, Types
<1>13. ASSUME NEW r \in Request, Publish(r)
       PROVE  Types'
  <2>1. switches' \in [Request -> Switch]
    BY <1>0, <1>13, AtTyped DEF Publish, Steps
  <2>2. switches[r].to \in Folder
    BY DEF Types, Switch
  <2> QED
    BY <1>13, <2>1, <2>2 DEF Publish, pages, Types
<1>14. ASSUME NEW r \in Request, Republish(r)
       PROVE  Types'
  <2>1. switches[r].from \in Folder
    BY DEF Types, Switch
  <2> QED
    BY <1>14, <1>a, <2>1 DEF Republish, pages, Types
<1>10. ASSUME NEW r \in Request, ScanNew(r)
       PROVE  Types'
  <2>1. switches' \in [Request -> Switch]
    BY <1>0, <1>10, AtTyped DEF ScanNew, Steps
  <2>2. switches[r].to \in Folder
    BY DEF Types, Switch
  <2>3. held' \subseteq File
    BY <1>10, <2>2 DEF ScanNew, Types
  <2> QED
    BY <1>10, <2>1, <2>3 DEF ScanNew, pages, Types
<1>11. ASSUME NEW r \in Request, Save(r)
       PROVE  Types'
  <2>1. switches[r].to \in Folder
    BY DEF Types, Switch
  <2>2. saved' \in Folder /\ torn' \in BOOLEAN
    BY <1>11, <2>1 DEF Save, Types
  <2>3. switches' \in [Request -> Switch] /\ turn' \in Request \cup {None}
    BY <1>11, <1>a DEF Save
  <2> QED
    BY <1>11, <2>2, <2>3 DEF Save, pages, Types
<1>12. ASSUME NEW r \in Request, NEW f \in File, MoveOne(r, f)
       PROVE  Types'
  <2>1. switches[r].to \in Folder /\ switches[r].from \in Folder
    BY DEF Types, Switch
  <2>2. files' \in [Folder -> SUBSET File]
    BY <1>12, <2>1 DEF MoveOne, Types
  <2> QED
    BY <1>12, <2>2 DEF MoveOne, change, pages, Types
<1> QED
  BY <1>1, <1>2, <1>3, <1>4, <1>5, <1>6, <1>7, <1>8, <1>9, <1>10, <1>11, <1>12, <1>13,
     <1>14 DEF SwitchStep

\* Pages, the task that sends and a new process keep them (stream,
\* broadcast_changes).
LEMMA PageTypeStep ==
  ASSUME Types, Reading,
         \/ Relaunch \/ SendNotice \/ LoopStep \/ LoopEnds
         \/ \E t \in Tab : Subscribe(t) \/ PageStep(t)
  PROVE  Types' /\ Reading'
<1> USE WebAssumption
<1>0. TypeOK
  BY SameTypes
<1>a. NoPage \in Page /\ Len(NoPage.queue) <= Capacity
  BY EmptySeq DEF NoPage, Page
<1>1. CASE Relaunch
  <2>1. acts' \in 0 .. MaxActs
    BY <1>1 DEF Relaunch, Act, Types
  <2>2. switches' \in [Request -> Switch]
    BY <1>1 DEF Relaunch, NoSwitch, Types, Switch, Steps
  <2>3. tabs' \in [Tab -> Page] /\ \A t \in Tab : Len(tabs'[t].queue) <= Capacity
    BY <1>1, <1>a DEF Relaunch
  <2>4. torn' \in BOOLEAN
    BY <1>1 DEF Relaunch, Types
  <2> QED
    BY <1>1, <2>1, <2>2, <2>3, <2>4 DEF Relaunch, NoPage, Types, Reading
<1>2. CASE SendNotice
  <2>1. Notice \in Message
    BY DEF Message
  <2>2. tabs' = [t \in Tab |-> Sent(tabs[t], Notice)]
    BY <1>2 DEF SendNotice
  <2>3. /\ tabs' \in [Tab -> Page] /\ \A t \in Tab : Len(tabs'[t].queue) <= Capacity
        /\ \A t \in Tab : tabs'[t].step = tabs[t].step /\ tabs'[t].of = tabs[t].of
    BY <1>0, <2>1, <2>2, AllSentTyped
  <2> QED
    BY <1>2, <2>3 DEF SendNotice, engine, change, Types, Reading
<1>3. CASE LoopRead
  <2>1. Snapshot \in Snapshots
    BY SnapshotTyped DEF Snapshot, Types
  <2>2. loop' \in [step : {"wait", "send", "ended"}, seen : Snapshots \cup {None},
                   last : Snapshots \cup {None}]
    BY <1>3, <2>1 DEF LoopRead, Types
  <2>3. Reading'
    BY <1>3, <2>1 DEF LoopRead, Types, Reading
  <2> QED
    BY <1>3, <2>2, <2>3 DEF LoopRead, engine, change, Types
<1>4. CASE LoopSend
  <2>1. loop.seen \in Snapshots
    BY <1>4 DEF LoopSend, Reading
  <2>2. /\ tabs' \in [Tab -> Page] /\ \A t \in Tab : Len(tabs'[t].queue) <= Capacity
        /\ \A t \in Tab : tabs'[t].step = tabs[t].step /\ tabs'[t].of = tabs[t].of
    <3>1. CASE loop.seen = loop.last
      BY <1>4, <3>1 DEF LoopSend, Types
    <3>2. CASE loop.seen # loop.last
      <4>1. tabs' = [t \in Tab |-> Sent(tabs[t], State(loop.seen))]
        BY <1>4, <3>2 DEF LoopSend
      <4>2. State(loop.seen) \in Message
        BY <2>1 DEF Message
      <4> QED
        BY <1>0, <4>1, <4>2, AllSentTyped
    <3> QED
      BY <3>1, <3>2
  <2>3. loop' \in [step : {"wait", "send", "ended"}, seen : Snapshots \cup {None},
                   last : Snapshots \cup {None}]
    BY <1>4, <2>1 DEF LoopSend
  <2> QED
    BY <1>4, <2>2, <2>3 DEF LoopSend, engine, change, Types, Reading
<1>b. ASSUME NEW t \in Tab, NEW p \in Page, Len(p.queue) <= Capacity,
             p.step = "subscribed" => p.of \in Folder,
             tabs' = [tabs EXCEPT ![t] = p]
      PROVE  /\ tabs' \in [Tab -> Page] /\ \A u \in Tab : Len(tabs'[u].queue) <= Capacity
             /\ \A u \in Tab : tabs'[u].step = "subscribed" => tabs'[u].of \in Folder
  <2>1. tabs' \in [Tab -> Page] /\ \A u \in Tab : Len(tabs'[u].queue) <= Capacity
    BY <1>0, <1>b, OnePageTyped
  <2>2. \A u \in Tab : tabs'[u].step = "subscribed" => tabs'[u].of \in Folder
    BY <1>b DEF Types, Reading
  <2> QED
    BY <2>1, <2>2
<1>9. CASE LoopEnds
  <2>1. acts' \in 0 .. MaxActs
    BY <1>9 DEF LoopEnds, Act, Types
  <2>2. loop' \in [step : {"wait", "send", "ended"}, seen : Snapshots \cup {None},
                   last : Snapshots \cup {None}]
    BY <1>9 DEF LoopEnds, Types
  <2>3. Reading'
    BY <1>9, <2>2 DEF LoopEnds, Types, Reading
  <2> QED
    BY <1>9, <2>1, <2>2, <2>3 DEF LoopEnds, engine, change, Types
<1>c. ASSUME NEW t \in Tab
      PROVE  /\ tabs[t] \in Page /\ Len(tabs[t].queue) <= Capacity
             /\ tabs[t].queue \in Seq(Message) /\ Len(tabs[t].queue) \in Nat
  <2>1. tabs[t] \in Page /\ Len(tabs[t].queue) <= Capacity
    BY DEF Types
  <2>2. tabs[t].queue \in Seq(Message)
    BY <2>1 DEF Page
  <2> QED
    BY <2>1, <2>2, LenProperties
<1>5. ASSUME NEW t \in Tab, Subscribe(t)
      PROVE  Types' /\ Reading'
  <2>1. acts' \in 0 .. MaxActs
    BY <1>5 DEF Subscribe, Act, Types
  <2>2. PICK p : p = [NoPage EXCEPT !.step = "subscribed", !.of = folder]
    OBVIOUS
  <2>3. /\ p \in Page /\ Len(p.queue) <= Capacity
        /\ p.step = "subscribed" => p.of \in Folder
    <3>1. folder \in Folder
      BY DEF Types
    <3>2. p = [step |-> "subscribed", of |-> folder, opening |-> None, queue |-> <<>>,
               shows |-> None, doubt |-> FALSE]
      BY <2>2 DEF NoPage
    <3>3. <<>> \in Seq(Message) /\ Len(<<>>) <= Capacity
      BY EmptySeq
    <3> QED
      BY <3>1, <3>2, <3>3 DEF Page
  <2>4. tabs' = [tabs EXCEPT ![t] = p]
    BY <1>5, <2>2 DEF Subscribe
  <2>5. /\ tabs' \in [Tab -> Page] /\ \A u \in Tab : Len(tabs'[u].queue) <= Capacity
        /\ \A u \in Tab : tabs'[u].step = "subscribed" => tabs'[u].of \in Folder
    BY <1>b, <2>3, <2>4
  <2> QED
    BY <1>5, <2>1, <2>5 DEF Subscribe, engine, change, Types, Reading
<1>6. ASSUME NEW t \in Tab, ReadOpening(t)
      PROVE  Types' /\ Reading'
  <2>1. PICK b : b = (tabs[t].doubt \/ SnapshotOf(tabs[t].of) # loop.last)
    OBVIOUS
  <2>2. PICK s : s = SnapshotOf(tabs[t].of)
    OBVIOUS
  <2>3. PICK p : p = [tabs[t] EXCEPT !.step = "read", !.of = None, !.opening = s,
                                     !.doubt = b]
    OBVIOUS
  <2>4. b \in BOOLEAN
    BY <2>1
  <2>5. s \in Snapshots
    BY <1>6, <2>2, SnapshotTyped DEF ReadOpening, Reading
  <2>6. /\ p \in Page /\ Len(p.queue) <= Capacity
        /\ p.step = "subscribed" => p.of \in Folder
    BY <1>c, <2>3, <2>4, <2>5 DEF Page
  <2>7. tabs' = [tabs EXCEPT ![t] = p]
    BY <1>6, <1>c, <2>1, <2>2, <2>3 DEF ReadOpening, Types
  <2>8. /\ tabs' \in [Tab -> Page] /\ \A u \in Tab : Len(tabs'[u].queue) <= Capacity
        /\ \A u \in Tab : tabs'[u].step = "subscribed" => tabs'[u].of \in Folder
    BY <1>b, <2>6, <2>7
  <2> QED
    BY <1>6, <2>8 DEF ReadOpening, engine, change, Types, Reading
<1>7. ASSUME NEW t \in Tab, OpenPage(t)
      PROVE  Types' /\ Reading'
  <2>1. PICK p : p = [tabs[t] EXCEPT !.step = "open", !.opening = None,
                                     !.shows = tabs[t].opening]
    OBVIOUS
  <2>2. /\ p \in Page /\ Len(p.queue) <= Capacity
        /\ p.step = "subscribed" => p.of \in Folder
    BY <1>c, <2>1 DEF Page
  <2>3. tabs' = [tabs EXCEPT ![t] = p]
    BY <1>7, <2>1 DEF OpenPage, Types
  <2>4. /\ tabs' \in [Tab -> Page] /\ \A u \in Tab : Len(tabs'[u].queue) <= Capacity
        /\ \A u \in Tab : tabs'[u].step = "subscribed" => tabs'[u].of \in Folder
    BY <1>b, <2>2, <2>3
  <2> QED
    BY <1>7, <2>4 DEF OpenPage, engine, change, Types, Reading
<1>8. ASSUME NEW t \in Tab, Receive(t)
      PROVE  Types' /\ Reading'
  <2>1. tabs[t].queue # <<>>
    BY <1>8 DEF Receive
  <2>2. /\ Head(tabs[t].queue) \in Message /\ Tail(tabs[t].queue) \in Seq(Message)
        /\ Len(Tail(tabs[t].queue)) <= Capacity
    BY <1>c, <2>1, HeadTailProperties
  <2>3. PICK m : m = Head(tabs[t].queue)
    OBVIOUS
  <2>4. PICK q : q = Tail(tabs[t].queue)
    OBVIOUS
  <2>5. PICK p : p = IF m.kind = "state"
                     THEN [tabs[t] EXCEPT !.queue = q, !.shows = m.state, !.doubt = FALSE]
                     ELSE [tabs[t] EXCEPT !.queue = q]
    OBVIOUS
  <2>6. m.kind = "state" => m.state \in Snapshots
    BY <2>2, <2>3 DEF Message, Notice, State
  <2>7. /\ p \in Page /\ Len(p.queue) <= Capacity
        /\ p.step = "subscribed" => p.of \in Folder
    BY <1>8, <1>c, <2>2, <2>4, <2>5, <2>6 DEF Page, Receive
  <2>8. tabs' = [tabs EXCEPT ![t] = p]
    BY <1>8, <2>3, <2>4, <2>5 DEF Receive, Types
  <2>9. /\ tabs' \in [Tab -> Page] /\ \A u \in Tab : Len(tabs'[u].queue) <= Capacity
        /\ \A u \in Tab : tabs'[u].step = "subscribed" => tabs'[u].of \in Folder
    BY <1>b, <2>7, <2>8
  <2> QED
    BY <1>8, <2>9 DEF Receive, engine, change, Types, Reading
<1> QED
  BY <1>1, <1>2, <1>3, <1>4, <1>5, <1>6, <1>7, <1>8, <1>9 DEF LoopStep, PageStep

LEMMA TypeStep == TypeOK /\ Reading /\ [Next]_vars => TypeOK' /\ Reading'
<1> SUFFICES ASSUME Types, Reading, [Next]_vars
             PROVE  Types' /\ Reading'
  BY SameTypes
<1>1. CASE UNCHANGED vars
  BY <1>1 DEF vars, Types, Reading
<1>2. CASE \/ \E f \in File : ImportBegin(f)
           \/ \E c \in calls : ImportEnd(c)
           \/ \E r \in Request :
                SwitchStep(r) \/ Hangup(r) \/ (\E to \in Folder : Choose(r, to))
  <2>1. UNCHANGED pages
    BY <1>2 DEF ImportBegin, ImportEnd, SwitchStep, Hangup, Choose, BeginSwitch,
                MoveDone, MoveFails, OpenNew, Publish, Reopen, Republish, ScanNew,
                Save, MoveOne
  <2> QED
    BY <1>2, <2>1, EngineTypeStep DEF pages, Reading
<1>3. CASE \/ Relaunch \/ SendNotice \/ LoopStep \/ LoopEnds
           \/ \E t \in Tab : Subscribe(t) \/ PageStep(t)
  BY <1>3, PageTypeStep
<1> QED
  BY <1>1, <1>2, <1>3 DEF Next

LEMMA InitTyped == Init => TypeOK /\ Reading
<1> SUFFICES ASSUME Init
             PROVE  Types /\ Reading
  BY SameTypes
<1> USE WebAssumption
<1>1. NoPage \in Page /\ Len(NoPage.queue) <= Capacity
  BY EmptySeq DEF NoPage, Page
<1>2. tabs \in [Tab -> Page] /\ \A t \in Tab : Len(tabs[t].queue) <= Capacity
  BY <1>1 DEF Init
<1>3. switches \in [Request -> Switch]
  BY DEF Init, NoSwitch, Switch, Steps
<1>4. files \in [Folder -> SUBSET File] /\ held \subseteq File
  BY DEF Init
<1>5. Reading
  BY DEF Init, NoPage, Reading
<1>6. loop \in [step : {"wait", "send", "ended"}, seen : Snapshots \cup {None},
                last : Snapshots \cup {None}]
  BY DEF Init
<1>7. /\ acts \in 0 .. MaxActs /\ notices \in 0 .. MaxNotices
      /\ folder \in Folder /\ saved \in Folder /\ up \subseteq Folder
  BY DEF Init
<1>8. /\ calls \subseteq [file : File, folder : Folder]
      /\ turn \in Request \cup {None}
  BY DEF Init
<1>9. left \in BOOLEAN /\ torn \in BOOLEAN /\ stranded \in BOOLEAN
  BY DEF Init
<1> QED
  BY <1>2, <1>3, <1>4, <1>5, <1>6, <1>7, <1>8, <1>9 DEF Types

\* The web front end keeps its types: a page is given snapshots only, and no more
\* messages wait for it than the channel holds (stream, broadcast_changes).
THEOREM TypeCorrect == Spec => []TypeOK
BY InitTyped, TypeStep, PTL DEF Spec

-----------------------------------------------------------------------------
(* One engine.                                                             *)

\* What OneSwitch and FilesFollow speak of is untouched.
LEMMA ChangeUntouched ==
  ASSUME UNCHANGED <<folder, up, switches, turn, left>>
  PROVE  /\ OneSwitch => OneSwitch'
         /\ UNCHANGED <<saved, files, held, torn>> /\ FilesFollow => FilesFollow'
BY DEF OneSwitch, FilesFollow, Switching, Busy

\* Only who is in the middle of a change changes it, so all others are out of it.
LEMMA OnlyOneBusy ==
  ASSUME OneSwitch, ~ left, NEW r \in Request, Busy(r)
  PROVE  turn = r /\ \A q \in Request \ {r} : ~ Busy(q)
BY DEF OneSwitch

\* The step of a request that is in the middle of a change of folder, after which
\* it is still in the middle or has let go of the mutex.
LEMMA BusyAfter ==
  ASSUME TypeOK, OneSwitch, ~ left, NEW r \in Request, Busy(r), NEW s \in Steps,
         At(r, s)
  PROVE  /\ \A q \in Request \ {r} : switches'[q] = switches[q] /\ ~ Busy(q)'
         /\ switches'[r].step = s
         /\ switches'[r].from = switches[r].from /\ switches'[r].to = switches[r].to
<1>1. switches \in [Request -> Switch]
  BY SameTypes DEF Types
<1>2. switches' = [switches EXCEPT ![r].step = s]
  BY DEF At
<1>3. \A q \in Request \ {r} : switches'[q] = switches[q] /\ ~ Busy(q)
  BY <1>1, <1>2, OnlyOneBusy
<1> QED
  BY <1>1, <1>2, <1>3 DEF Busy, Switch

\* Every step keeps OneSwitch (choose, switch, App::open).
LEMMA OneSwitchStep == TypeOK /\ OneSwitch /\ [Next]_vars => OneSwitch'
<1> SUFFICES ASSUME TypeOK, OneSwitch, [Next]_vars
             PROVE  OneSwitch'
  OBVIOUS
<1> USE WebAssumption
<1>0. switches \in [Request -> Switch] /\ turn \in Request \cup {None}
  BY SameTypes DEF Types
<1>a. ASSUME NEW r \in Request, ~ left, UNCHANGED left, Busy(r), Finished(r),
             up' \subseteq {folder'}
      PROVE  OneSwitch'
  <2>1. \A q \in Request : ~ Busy(q)'
    BY <1>a, BusyAfter DEF Finished, Busy, Steps
  <2> QED
    BY <1>a, <2>1 DEF OneSwitch, Busy
<1>1. ASSUME NEW f \in File, ImportBegin(f)
      PROVE  OneSwitch'
  BY <1>1, ChangeUntouched DEF ImportBegin, change
<1>2. ASSUME NEW c \in calls, ImportEnd(c)
      PROVE  OneSwitch'
  BY <1>2, ChangeUntouched DEF ImportEnd
<1>3. ASSUME NEW r \in Request, NEW to \in Folder, Choose(r, to)
      PROVE  OneSwitch'
  <2>1. PICK s : s = [NoSwitch EXCEPT !.step = "queued", !.to = to]
    OBVIOUS
  <2>2. switches' = [switches EXCEPT ![r] = s] /\ s.step = "queued"
    BY <1>3, <2>1 DEF Choose, NoSwitch
  <2>3. \A q \in Request \ {r} : switches'[q] = switches[q]
    BY <1>0, <2>2
  <2>4. switches'[r].step = "queued"
    BY <1>0, <2>2
  <2> QED
    BY <1>3, <2>3, <2>4 DEF Choose, engine, OneSwitch, Busy
<1>4. ASSUME NEW r \in Request, Hangup(r)
      PROVE  OneSwitch'
  <2>1. CASE Busy(r)
    BY <1>4, <2>1 DEF Hangup, OneSwitch
  <2>2. CASE ~ Busy(r) /\ ~ left
    <3>1. switches[r].step = "queued" /\ switches' = [switches EXCEPT ![r].step = "done"]
      BY <1>4, <2>2 DEF Hangup, At
    <3>2. \A q \in Request \ {r} : switches'[q] = switches[q]
      BY <1>0, <3>1
    <3>3. switches'[r].step = "done"
      BY <1>0, <3>1 DEF Switch
    <3>4. UNCHANGED <<folder, up>> /\ turn' = IF turn = r THEN None ELSE turn
      BY <1>4 DEF Hangup, engine, Released
    <3> QED
      BY <2>2, <3>2, <3>3, <3>4 DEF OneSwitch, Busy
  <2>3. CASE left
    BY <1>4, <2>3 DEF Hangup, OneSwitch
  <2> QED
    BY <2>1, <2>2, <2>3
<1>b. ASSUME left, UNCHANGED left
      PROVE  OneSwitch'
  BY <1>b DEF OneSwitch
<1>5. ASSUME NEW r \in Request, BeginSwitch(r)
      PROVE  OneSwitch'
  <2>1. CASE left
    BY <1>5, <1>b, <2>1 DEF BeginSwitch
  <2>2. CASE ~ left /\ Finished(r) /\ UNCHANGED up
    <3>1. switches' = [switches EXCEPT ![r].step = "done"]
      BY <2>2 DEF Finished, At
    <3>2. \A q \in Request \ {r} : switches'[q] = switches[q]
      BY <1>0, <3>1
    <3>3. switches'[r].step = "done"
      BY <1>0, <3>1 DEF Switch
    <3>4. turn = None /\ \A q \in Request : ~ Busy(q)
      BY <1>5, <2>2 DEF BeginSwitch, MayTurn, OneSwitch
    <3>5. \A q \in Request : ~ Busy(q)'
      BY <3>2, <3>3, <3>4 DEF Busy
    <3>6. up \subseteq {folder} /\ UNCHANGED <<folder, up>>
      BY <1>5, <2>2, <3>4 DEF BeginSwitch, OneSwitch, Busy
    <3> QED
      BY <3>5, <3>6 DEF OneSwitch, Busy
  <2>3. CASE ~ left /\ ~ (Finished(r) /\ UNCHANGED up)
    <3>1. /\ turn' = r /\ up' = up \ {folder} /\ folder' = folder /\ left' = left
          /\ switches' = [switches EXCEPT ![r].step = "move", ![r].from = folder]
      BY <1>5, <2>3 DEF BeginSwitch
    <3>2. \A q \in Request \ {r} : switches'[q] = switches[q]
      BY <1>0, <3>1
    <3>3. switches'[r].step = "move" /\ switches'[r].from = folder
      BY <1>0, <3>1 DEF Switch
    <3>4. turn = None /\ \A q \in Request : ~ Busy(q)
      BY <1>5, <2>3 DEF BeginSwitch, MayTurn, OneSwitch
    <3>5. \A q \in Request \ {r} : ~ Busy(q)'
      BY <3>2, <3>4 DEF Busy
    <3>6. \A q \in Request : switches[q].step # "publish"
      BY <3>4 DEF Busy
    <3>7. up' = {}
      BY <2>3, <3>1, <3>6 DEF OneSwitch
    <3> QED
      BY <3>1, <3>3, <3>5, <3>7 DEF OneSwitch, Busy
  <2> QED
    BY <2>1, <2>2, <2>3
<1>6. ASSUME NEW r \in Request, MoveDone(r)
      PROVE  OneSwitch'
  <2>1. CASE left
    BY <1>6, <1>b, <2>1 DEF MoveDone
  <2>2. CASE ~ left
    <3>1. Busy(r) /\ switches[r].step = "move" /\ UNCHANGED <<folder, up, turn, left>>
      BY <1>6 DEF MoveDone, Busy, engine
    <3>2. /\ \A q \in Request \ {r} : ~ Busy(q)'
          /\ switches'[r].step = "open" /\ switches'[r].from = switches[r].from
      BY <1>6, <2>2, <3>1, BusyAfter DEF MoveDone, Steps
    <3> QED
      BY <2>2, <3>1, <3>2 DEF OneSwitch, Busy
  <2> QED
    BY <2>1, <2>2
<1>7. ASSUME NEW r \in Request, MoveFails(r)
      PROVE  OneSwitch'
  <2>1. CASE left
    BY <1>7, <1>b, <2>1 DEF MoveFails
  <2>2. CASE ~ left
    <3>1. /\ Busy(r) /\ Finished(r) /\ UNCHANGED <<folder, up, left>>
          /\ switches[r].step = "move"
      BY <1>7 DEF MoveFails, Busy, engine
    <3>2. up' \subseteq {folder'}
      BY <2>2, <3>1 DEF OneSwitch
    <3> QED
      BY <1>a, <2>2, <3>1, <3>2
  <2> QED
    BY <2>1, <2>2
<1>8. ASSUME NEW r \in Request, OpenNew(r)
      PROVE  OneSwitch'
  <2>1. CASE left
    BY <1>8, <1>b, <2>1 DEF OpenNew
  <2>2. CASE ~ left
    <3>1. Busy(r) /\ switches[r].step = "open" /\ UNCHANGED <<folder, turn, left>>
      BY <1>8 DEF OpenNew, Busy
    <3>2. up = {} /\ switches[r].from = folder
      BY <2>2, <3>1 DEF OneSwitch
    <3>3. CASE up' = up \cup {switches[r].to} /\ At(r, "publish")
      <4>1. /\ \A q \in Request \ {r} : ~ Busy(q)'
            /\ switches'[r].step = "publish" /\ switches'[r].to = switches[r].to
        BY <2>2, <3>1, <3>3, BusyAfter DEF Steps
      <4> QED
        BY <2>2, <3>1, <3>2, <3>3, <4>1 DEF OneSwitch, Busy
    <3>4. CASE At(r, "reopen") /\ UNCHANGED up
      <4>1. /\ \A q \in Request \ {r} : ~ Busy(q)'
            /\ switches'[r].step = "reopen" /\ switches'[r].from = switches[r].from
        BY <2>2, <3>1, <3>4, BusyAfter DEF Steps
      <4> QED
        BY <2>2, <3>1, <3>2, <3>4, <4>1 DEF OneSwitch, Busy
    <3> QED
      BY <1>8, <3>3, <3>4 DEF OpenNew
  <2> QED
    BY <2>1, <2>2
<1>9. ASSUME NEW r \in Request, Reopen(r)
      PROVE  OneSwitch'
  <2>1. CASE left
    BY <1>9, <1>b, <2>1 DEF Reopen
  <2>2. CASE ~ left
    <3>1. Busy(r) /\ switches[r].step = "reopen" /\ UNCHANGED <<folder, left>>
      BY <1>9 DEF Reopen, Busy
    <3>2. up = {} /\ switches[r].from = folder
      BY <2>2, <3>1 DEF OneSwitch
    <3>3. CASE up' = up \cup {switches[r].from} /\ At(r, "republish") /\ UNCHANGED turn
      <4>1. /\ \A q \in Request \ {r} : ~ Busy(q)'
            /\ switches'[r].step = "republish" /\ switches'[r].from = switches[r].from
        BY <2>2, <3>1, <3>3, BusyAfter DEF Steps
      <4> QED
        BY <2>2, <3>1, <3>2, <3>3, <4>1 DEF OneSwitch, Busy
    <3>4. CASE Finished(r) /\ UNCHANGED up
      BY <1>a, <2>2, <3>1, <3>2, <3>4
    <3> QED
      BY <1>9, <3>3, <3>4 DEF Reopen
  <2> QED
    BY <2>1, <2>2
<1>17. ASSUME NEW r \in Request, Publish(r)
       PROVE  OneSwitch'
  <2>1. CASE left
    BY <1>17, <1>b, <2>1 DEF Publish
  <2>2. CASE ~ left
    <3>1. /\ Busy(r) /\ switches[r].step = "publish" /\ UNCHANGED <<up, turn, left>>
          /\ folder' = switches[r].to
      BY <1>17 DEF Publish, Busy
    <3>2. up = {switches[r].to}
      BY <2>2, <3>1 DEF OneSwitch
    <3>3. /\ \A q \in Request \ {r} : ~ Busy(q)'
          /\ switches'[r].step = "scan" /\ switches'[r].to = switches[r].to
      BY <1>17, <2>2, <3>1, BusyAfter DEF Publish, Steps
    <3> QED
      BY <2>2, <3>1, <3>2, <3>3 DEF OneSwitch, Busy
  <2> QED
    BY <2>1, <2>2
<1>18. ASSUME NEW r \in Request, Republish(r)
       PROVE  OneSwitch'
  <2>1. CASE left
    BY <1>18, <1>b, <2>1 DEF Republish
  <2>2. CASE ~ left
    <3>1. /\ Busy(r) /\ Finished(r) /\ UNCHANGED <<up, left>>
          /\ switches[r].step = "republish" /\ folder' = switches[r].from
      BY <1>18 DEF Republish, Busy
    <3>2. folder' = folder /\ \A q \in Request \ {r} : ~ Busy(q)
      BY <2>2, <3>1, OnlyOneBusy DEF OneSwitch
    <3>3. \A q \in Request : switches[q].step # "publish"
      BY <3>1, <3>2 DEF Busy
    <3>4. up' \subseteq {folder'}
      BY <2>2, <3>1, <3>2, <3>3 DEF OneSwitch
    <3> QED
      BY <1>a, <2>2, <3>1, <3>4
  <2> QED
    BY <2>1, <2>2
<1>10. ASSUME NEW r \in Request, ScanNew(r)
       PROVE  OneSwitch'
  <2>1. CASE left
    BY <1>10, <1>b, <2>1 DEF ScanNew
  <2>2. CASE ~ left
    <3>1. Busy(r) /\ switches[r].step = "scan" /\ UNCHANGED <<folder, up, turn, left>>
      BY <1>10 DEF ScanNew, Busy
    <3>2. /\ \A q \in Request \ {r} : ~ Busy(q)'
          /\ switches'[r].step = "save" /\ switches'[r].to = switches[r].to
      BY <1>10, <2>2, <3>1, BusyAfter DEF ScanNew, Steps
    <3> QED
      BY <2>2, <3>1, <3>2 DEF OneSwitch, Busy
  <2> QED
    BY <2>1, <2>2
<1>11. ASSUME NEW r \in Request, Save(r)
       PROVE  OneSwitch'
  <2>1. CASE left
    BY <1>11, <1>b, <2>1 DEF Save
  <2>2. CASE ~ left
    <3>1. /\ Busy(r) /\ Finished(r) /\ UNCHANGED <<folder, up, left>>
          /\ switches[r].step = "save"
      BY <1>11 DEF Save, Busy
    <3>2. \A q \in Request : switches[q].step # "publish"
      BY <2>2, <3>1, OnlyOneBusy DEF Busy
    <3>3. up' \subseteq {folder'}
      BY <2>2, <3>1, <3>2 DEF OneSwitch
    <3> QED
      BY <1>a, <2>2, <3>1, <3>3
  <2> QED
    BY <2>1, <2>2
<1>12. ASSUME NEW r \in Request, NEW f \in File, MoveOne(r, f)
       PROVE  OneSwitch'
  BY <1>12, ChangeUntouched DEF MoveOne, change
<1>13. CASE Relaunch
  <2>1. \A q \in Request : ~ Busy(q)'
    BY <1>13 DEF Relaunch, Busy, NoSwitch, Switch
  <2> QED
    BY <1>13, <2>1 DEF Relaunch, OneSwitch, Busy
<1>14. CASE SendNotice \/ LoopStep \/ LoopEnds
  BY <1>14, ChangeUntouched
     DEF SendNotice, LoopStep, LoopRead, LoopSend, LoopEnds, engine, change
<1>15. ASSUME NEW t \in Tab, Subscribe(t) \/ PageStep(t)
       PROVE  OneSwitch'
  BY <1>15, ChangeUntouched
     DEF Subscribe, PageStep, ReadOpening, OpenPage, Receive, engine, change
<1>16. CASE UNCHANGED vars
  BY <1>16, ChangeUntouched DEF vars
<1> QED
  BY <1>1, <1>2, <1>3, <1>4, <1>5, <1>6, <1>7, <1>8, <1>9, <1>10, <1>11, <1>12, <1>13,
     <1>14, <1>15, <1>16, <1>17, <1>18 DEF Next, SwitchStep

\* However requests to change the folder overlap, at most one engine runs, over the
\* folder every new call gets, and none while files are moved, unless who asked went
\* away in the middle (choose, App::open).
THEOREM OneEngine == Spec => []OneEngineRuns
<1>1. Init => TypeOK /\ Reading /\ OneSwitch
  <2>1. Init => OneSwitch
    BY DEF Init, NoSwitch, OneSwitch, Busy
  <2> QED
    BY <2>1, InitTyped
<1>2. OneSwitch => OneEngineRuns
  BY DEF OneSwitch, OneEngineRuns
<1> QED
  BY <1>1, <1>2, TypeStep, OneSwitchStep, PTL DEF Spec

-----------------------------------------------------------------------------
(* The files follow.                                                       *)

\* Every step keeps FilesFollow (move_contents, switch, import_file).
LEMMA FilesFollowStep ==
  TypeOK /\ OneSwitch /\ FilesFollow /\ [Next]_vars => FilesFollow'
<1> SUFFICES ASSUME TypeOK, OneSwitch, FilesFollow, [Next]_vars
             PROVE  FilesFollow'
  OBVIOUS
<1> USE WebAssumption
<1>0. /\ switches \in [Request -> Switch] /\ turn \in Request \cup {None}
      /\ files \in [Folder -> SUBSET File]
      /\ folder \in Folder /\ saved \in Folder /\ up \subseteq Folder
  BY SameTypes DEF Types
<1>a. ASSUME torn' \/ left'
      PROVE  FilesFollow'
  BY <1>a DEF FilesFollow
<1>b. ASSUME \A q \in Request : ~ Busy(q)', held' \subseteq files'[folder'],
             saved' = folder'
      PROVE  FilesFollow'
  BY <1>b DEF FilesFollow, Busy
<1>1. ASSUME NEW f \in File, ImportBegin(f)
      PROVE  FilesFollow'
  BY <1>1, ChangeUntouched DEF ImportBegin, change
<1>2. ASSUME NEW c \in calls, ImportEnd(c)
      PROVE  FilesFollow'
  <2>1. CASE torn \/ left \/ c.folder \notin up
    BY <1>2, <1>a, <2>1 DEF ImportEnd
  <2>2. CASE ~ torn /\ ~ left /\ c.folder \in up
    <3>1. PICK d \in Folder : d = c.folder
      BY <1>0, <2>2
    <3>2. /\ held' = held \cup {c.file} /\ UNCHANGED <<folder, saved, switches, left>>
          /\ files' = [files EXCEPT ![d] = files[d] \cup {c.file}]
      BY <1>2, <3>1 DEF ImportEnd
    <3>3. files'[d] = files[d] \cup {c.file}
      BY <1>0, <3>2
    <3>4. \A q \in Request : switches[q].step \notin {"move", "open", "reopen"}
      BY <2>2 DEF OneSwitch
    <3>5. \A q \in Request : switches[q].step = "publish" => switches[q].to = d
      BY <2>2, <3>1 DEF OneSwitch
    <3>6. \A q \in Request : switches[q].step \in {"scan", "save"} =>
            switches[q].to = d
      BY <2>2, <3>1, OnlyOneBusy DEF OneSwitch, Busy
    <3>7. ~ Switching => d = folder
      BY <2>2, <3>1 DEF OneSwitch, Switching, Busy
    <3>8. \A q \in Request : switches[q].step \in {"publish", "scan", "save"} =>
            held \subseteq files[d]
      BY <2>2, <3>5, <3>6 DEF FilesFollow
    <3>9. ~ Switching' => held' \subseteq files'[folder'] /\ saved' = folder'
      <4>1. Switching' <=> Switching
        BY <3>2 DEF Switching, Busy
      <4>2. ~ Switching => held \subseteq files[folder] /\ saved = folder
        BY <2>2 DEF FilesFollow
      <4> QED
        BY <3>2, <3>3, <3>7, <4>1, <4>2
    <3>10. \A q \in Request : switches'[q].step \in {"publish", "scan", "save"} =>
             held' \subseteq files'[switches'[q].to]
      BY <3>2, <3>3, <3>5, <3>6, <3>8
    <3>11. \A q \in Request : switches'[q].step \notin {"move", "open", "republish"}
      BY <2>2, <3>2, <3>4 DEF FilesFollow
    <3> QED
      BY <3>9, <3>10, <3>11 DEF FilesFollow
  <2> QED
    BY <2>1, <2>2
<1>3. ASSUME NEW r \in Request, NEW to \in Folder, Choose(r, to)
      PROVE  FilesFollow'
  <2>1. PICK s : s = [NoSwitch EXCEPT !.step = "queued", !.to = to]
    OBVIOUS
  <2>2. switches' = [switches EXCEPT ![r] = s] /\ s.step = "queued"
    BY <1>3, <2>1 DEF Choose, NoSwitch
  <2>3. \A q \in Request \ {r} : switches'[q] = switches[q]
    BY <1>0, <2>2
  <2>4. switches'[r].step = "queued" /\ switches[r].step = "none"
    BY <1>0, <1>3, <2>2 DEF Choose
  <2>5. Switching' <=> Switching
    BY <2>3, <2>4 DEF Switching, Busy
  <2>6. UNCHANGED <<folder, saved, files, held, torn, left>>
    BY <1>3 DEF Choose, engine
  <2> QED
    BY <2>3, <2>4, <2>5, <2>6 DEF FilesFollow
<1>4. ASSUME NEW r \in Request, Hangup(r)
      PROVE  FilesFollow'
  <2>1. CASE Busy(r) \/ left
    BY <1>4, <1>a, <2>1 DEF Hangup
  <2>2. CASE ~ Busy(r) /\ ~ left
    <3>1. switches[r].step = "queued" /\ switches' = [switches EXCEPT ![r].step = "done"]
      BY <1>4, <2>2 DEF Hangup, At
    <3>2. \A q \in Request \ {r} : switches'[q] = switches[q]
      BY <1>0, <3>1
    <3>3. switches'[r].step = "done"
      BY <1>0, <3>1 DEF Switch
    <3>4. UNCHANGED <<folder, saved, files, held, torn>>
      BY <1>4 DEF Hangup, engine
    <3>5. Switching' <=> Switching
      BY <3>1, <3>2, <3>3 DEF Switching, Busy
    <3> QED
      BY <2>2, <3>2, <3>3, <3>4, <3>5 DEF FilesFollow
  <2> QED
    BY <2>1, <2>2
<1>5. ASSUME NEW r \in Request, BeginSwitch(r)
      PROVE  FilesFollow'
  <2>0. UNCHANGED <<folder, saved, files, held, torn, left>>
    BY <1>5 DEF BeginSwitch
  <2>1. CASE left \/ torn
    BY <1>a, <2>0, <2>1
  <2>2. CASE ~ left /\ ~ torn
    <3>1. \A q \in Request : ~ Busy(q)
      BY <1>5, <2>2 DEF BeginSwitch, MayTurn, OneSwitch
    <3>2. held \subseteq files[folder] /\ saved = folder
      BY <2>2, <3>1 DEF FilesFollow, Switching
    <3>3. CASE Finished(r) /\ UNCHANGED up
      <4>1. switches' = [switches EXCEPT ![r].step = "done"]
        BY <3>3 DEF Finished, At
      <4>2. \A q \in Request \ {r} : switches'[q] = switches[q]
        BY <1>0, <4>1
      <4>3. switches'[r].step = "done"
        BY <1>0, <4>1 DEF Switch
      <4>4. \A q \in Request : ~ Busy(q)'
        BY <3>1, <4>2, <4>3 DEF Busy
      <4> QED
        BY <1>b, <2>0, <3>2, <4>4
    <3>4. CASE ~ (Finished(r) /\ UNCHANGED up)
      <4>1. switches' = [switches EXCEPT ![r].step = "move", ![r].from = folder]
        BY <1>5, <3>4 DEF BeginSwitch
      <4>2. \A q \in Request \ {r} : switches'[q] = switches[q]
        BY <1>0, <4>1
      <4>3. switches'[r].step = "move" /\ switches'[r].from = folder
        BY <1>0, <4>1 DEF Switch
      <4>4. \A q \in Request \ {r} : ~ Busy(q)'
        BY <3>1, <4>2 DEF Busy
      <4>5. Switching'
        BY <4>3 DEF Switching, Busy
      <4> QED
        BY <2>0, <3>2, <4>3, <4>4, <4>5 DEF FilesFollow, Busy
    <3> QED
      BY <3>3, <3>4
  <2> QED
    BY <2>1, <2>2
<1>6. ASSUME NEW r \in Request, MoveDone(r)
      PROVE  FilesFollow'
  <2>0. UNCHANGED <<folder, saved, files, held, torn, left>>
    BY <1>6 DEF MoveDone, engine
  <2>1. CASE left \/ torn
    BY <1>a, <2>0, <2>1
  <2>2. CASE ~ left /\ ~ torn
    <3>1. Busy(r) /\ switches[r].step = "move"
      BY <1>6 DEF MoveDone, Busy
    <3>2. /\ \A q \in Request \ {r} : ~ Busy(q)'
          /\ switches'[r].step = "open" /\ switches'[r].to = switches[r].to
      BY <1>6, <2>2, <3>1, BusyAfter DEF MoveDone, Steps
    <3>3. held \subseteq files[switches[r].to]
      BY <1>6, <2>2, <3>1 DEF MoveDone, Movable, FilesFollow
    <3> QED
      BY <2>0, <3>2, <3>3 DEF FilesFollow, Switching, Busy
  <2> QED
    BY <2>1, <2>2
<1>7. ASSUME NEW r \in Request, MoveFails(r)
      PROVE  FilesFollow'
  BY <1>7, <1>a DEF MoveFails
<1>8. ASSUME NEW r \in Request, OpenNew(r)
      PROVE  FilesFollow'
  <2>0. UNCHANGED <<folder, saved, files, held, torn, left>>
    BY <1>8 DEF OpenNew
  <2>1. CASE left \/ torn
    BY <1>a, <2>0, <2>1
  <2>2. CASE ~ left /\ ~ torn
    <3>1. Busy(r) /\ switches[r].step = "open"
      BY <1>8 DEF OpenNew, Busy
    <3>2. PICK s \in {"publish", "reopen"} : At(r, s)
      BY <1>8 DEF OpenNew
    <3>3. /\ \A q \in Request \ {r} : ~ Busy(q)'
          /\ switches'[r].step = s /\ switches'[r].to = switches[r].to
      BY <2>2, <3>1, <3>2, BusyAfter DEF Steps
    <3>4. held \subseteq files[switches[r].to]
      BY <2>2, <3>1 DEF FilesFollow
    <3> QED
      BY <2>0, <3>2, <3>3, <3>4 DEF FilesFollow, Switching, Busy
  <2> QED
    BY <2>1, <2>2
<1>9. ASSUME NEW r \in Request, Reopen(r)
      PROVE  FilesFollow'
  BY <1>9, <1>a DEF Reopen
<1>17. ASSUME NEW r \in Request, Publish(r) \/ Republish(r)
       PROVE  FilesFollow'
  <2>0. UNCHANGED <<saved, files, held, torn, left>>
    BY <1>17 DEF Publish, Republish
  <2>1. CASE left \/ torn
    BY <1>a, <2>0, <2>1
  <2>2. CASE ~ left /\ ~ torn
    <3>1. Busy(r) /\ switches[r].step = "publish" /\ At(r, "scan")
      BY <1>17, <2>2 DEF Publish, Republish, FilesFollow, Busy
    <3>2. /\ \A q \in Request \ {r} : ~ Busy(q)'
          /\ switches'[r].step = "scan" /\ switches'[r].to = switches[r].to
      BY <2>2, <3>1, BusyAfter DEF Steps
    <3>3. held \subseteq files[switches[r].to]
      BY <2>2, <3>1 DEF FilesFollow
    <3> QED
      BY <2>0, <3>2, <3>3 DEF FilesFollow, Switching, Busy
  <2> QED
    BY <2>1, <2>2
<1>10. ASSUME NEW r \in Request, ScanNew(r)
       PROVE  FilesFollow'
  <2>0. UNCHANGED <<folder, saved, files, torn, left>>
    BY <1>10 DEF ScanNew
  <2>1. CASE left \/ torn
    BY <1>a, <2>0, <2>1
  <2>2. CASE ~ left /\ ~ torn
    <3>1. Busy(r) /\ switches[r].step = "scan"
      BY <1>10 DEF ScanNew, Busy
    <3>2. /\ \A q \in Request \ {r} : ~ Busy(q)'
          /\ switches'[r].step = "save" /\ switches'[r].to = switches[r].to
      BY <1>10, <2>2, <3>1, BusyAfter DEF ScanNew, Steps
    <3>3. held' \subseteq files[switches[r].to]
      BY <1>10, <2>2, <3>1 DEF ScanNew, FilesFollow
    <3> QED
      BY <2>0, <3>2, <3>3 DEF FilesFollow, Switching, Busy
  <2> QED
    BY <2>1, <2>2
<1>11. ASSUME NEW r \in Request, Save(r)
       PROVE  FilesFollow'
  <2>0. UNCHANGED <<folder, files, held, left>>
    BY <1>11 DEF Save
  <2>1. CASE left \/ torn'
    BY <1>a, <2>0, <2>1
  <2>2. CASE ~ left /\ ~ torn'
    <3>1. Busy(r) /\ switches[r].step = "save" /\ At(r, "done")
      BY <1>11 DEF Save, Busy, Finished
    <3>2. saved' = switches[r].to /\ ~ torn
      BY <1>11, <2>2 DEF Save
    <3>3. \A q \in Request : ~ Busy(q)'
      BY <2>2, <3>1, BusyAfter DEF Steps, Busy
    <3>4. held \subseteq files[switches[r].to] /\ switches[r].to = folder
      BY <2>2, <3>1, <3>2 DEF FilesFollow, OneSwitch
    <3> QED
      BY <1>b, <2>0, <3>2, <3>3, <3>4
  <2> QED
    BY <2>1, <2>2
<1>12. ASSUME NEW r \in Request, NEW f \in File, MoveOne(r, f)
       PROVE  FilesFollow'
  <2>0. UNCHANGED <<folder, saved, held, switches, torn, left>>
    BY <1>12 DEF MoveOne, change
  <2>1. CASE left \/ torn
    BY <1>a, <2>0, <2>1
  <2>2. CASE ~ left /\ ~ torn
    <3>1. PICK from \in Folder, to \in Folder :
            from = switches[r].from /\ to = switches[r].to
      BY <1>0 DEF Switch
    <3>2. Busy(r) /\ switches[r].step = "move" /\ f \in files[from] /\ f \notin files[to]
      BY <1>12, <3>1 DEF MoveOne, Busy, Movable
    <3>3. files' = [files EXCEPT ![from] = files[from] \ {f}, ![to] = files[to] \cup {f}]
      BY <1>12, <3>1, <3>2 DEF MoveOne
    <3>4. files'[from] = files[from] \ {f} /\ files'[to] = files[to] \cup {f}
      BY <1>0, <3>1, <3>2, <3>3
    <3>5. held \subseteq files[from] \cup files[to]
      BY <2>2, <3>1, <3>2 DEF FilesFollow
    <3>6. held \subseteq files'[from] \cup files'[to]
      BY <3>4, <3>5
    <3>7. \A q \in Request \ {r} : ~ Busy(q)
      BY <2>2, <3>2, OnlyOneBusy
    <3>8. \A q \in Request :
            /\ switches'[q].step = "move" =>
                 held' \subseteq files'[switches'[q].from] \cup files'[switches'[q].to]
            /\ switches'[q].step \notin {"open", "publish", "republish", "scan", "save"}
      BY <2>0, <3>1, <3>2, <3>6, <3>7 DEF Busy
    <3>9. Switching'
      BY <2>0, <3>2 DEF Switching, Busy
    <3> QED
      BY <3>8, <3>9 DEF FilesFollow
  <2> QED
    BY <2>1, <2>2
<1>13. CASE Relaunch
  <2>0. UNCHANGED <<saved, files, held, left>> /\ folder' = saved
    BY <1>13 DEF Relaunch
  <2>1. CASE left \/ torn'
    BY <1>a, <2>0, <2>1
  <2>2. CASE ~ left /\ ~ torn'
    <3>1. ~ torn /\ ~ Switching
      BY <1>13, <2>2 DEF Relaunch, Switching
    <3>2. held \subseteq files[folder] /\ saved = folder
      BY <2>2, <3>1 DEF FilesFollow
    <3>3. \A q \in Request : ~ Busy(q)'
      BY <1>13 DEF Relaunch, Busy, NoSwitch, Switch
    <3> QED
      BY <1>b, <2>0, <3>2, <3>3
  <2> QED
    BY <2>1, <2>2
<1>14. CASE SendNotice \/ LoopStep \/ LoopEnds
  BY <1>14, ChangeUntouched
     DEF SendNotice, LoopStep, LoopRead, LoopSend, LoopEnds, engine, change
<1>15. ASSUME NEW t \in Tab, Subscribe(t) \/ PageStep(t)
       PROVE  FilesFollow'
  BY <1>15, ChangeUntouched
     DEF Subscribe, PageStep, ReadOpening, OpenPage, Receive, engine, change
<1>16. CASE UNCHANGED vars
  BY <1>16, ChangeUntouched DEF vars
<1> QED
  BY <1>1, <1>2, <1>3, <1>4, <1>5, <1>6, <1>7, <1>8, <1>9, <1>10, <1>11, <1>12, <1>13,
     <1>14, <1>15, <1>16, <1>17 DEF Next, SwitchStep

\* After a change of folder every item held has its file in the folder in use, unless
\* a step of it failed, who asked or the process went away in the middle, or a call
\* was still using the engine it replaced (switch, move_contents).
THEOREM FilesFollowTheFolder == Spec => []HeldIsInFolder
<1>1. Init => OneSwitch /\ FilesFollow
  BY DEF Init, NoSwitch, OneSwitch, FilesFollow, Busy
<1>2. FilesFollow => HeldIsInFolder
  BY DEF FilesFollow, HeldIsInFolder
<1> QED
  BY <1>1, <1>2, InitTyped, TypeStep, OneSwitchStep, FilesFollowStep, PTL DEF Spec
=============================================================================
