-------------------------------- MODULE Web --------------------------------
(******************************************************************************)
(* The web front end: one engine behind an HTTP API, pages that draw it, and  *)
(* the change of its sync folder.                                             *)
(*                                                                            *)
(* A page is sent whole snapshots.  One task reads the engine over and over   *)
(* and sends what differs from what it sent last; a new page is given a       *)
(* snapshot of its own first.  Between the two is a broadcast channel that    *)
(* drops what a slow page has not taken.                                      *)
(*                                                                            *)
(* The sync folder is an argument of the engine's constructor, so choosing    *)
(* another one stops the engine, moves the files and makes a new engine over  *)
(* the same catalog, while requests that got hold of the old engine go on.    *)
(*                                                                            *)
(* Of what a snapshot tells, the folder and whether the engine runs stand for *)
(* all, and the whole of one engine is read at once.  The task reads again    *)
(* two seconds later at the latest, which is all the bell (Notify) shortens.  *)
(******************************************************************************)
EXTENDS Naturals, Sequences, FiniteSets

CONSTANTS
  File,      \* names of files
  Folder,    \* folders on this machine
  Home,      \* the one in use at first
  Request,   \* requests to use another folder
  Tab,       \* pages
  Capacity,  \* of the broadcast channel (64)
  None,      \* no request, nothing sent or shown yet
  MaxActs,   \* bound: requests, imports, pages opened, process ends
  MaxNotices \* bound: progress and notices sent

ASSUME WebAssumption ==
  /\ Home \in Folder /\ None \notin Request
  /\ Capacity \in Nat \ {0} /\ MaxActs \in Nat /\ MaxNotices \in Nat

VARIABLES
  folder,    \* App::engine is an engine over this folder
  up,        \* folders a running engine watches
  saved,     \* the folder settings.json remembers
  files,     \* files[d]: the names taken in folder d
  held,      \* what the catalog says this device holds
  calls,     \* imports under way: the file, and the folder of the engine they use
  switches,  \* switches[r]: how far a request to change the folder is
  turn,      \* who holds the mutex App::switching
  loop,      \* the task that reads and sends
  tabs,      \* the pages
  acts, notices,
  left,      \* history: whoever asked for a change of folder went away in the middle
  torn,      \* history: folder and catalog may have come apart
  stranded   \* history: a change of folder ended with no engine running

engine == <<folder, up, saved, files, held, calls>>
change == <<switches, turn, left, torn, stranded>>
pages == <<loop, tabs>>
vars == <<folder, up, saved, files, held, calls, switches, turn, loop, tabs, acts,
          notices, left, torn, stranded>>

\* snapshot::read of the engine over folder d, and what is true now.
SnapshotOf(d) == [folder |-> d, running |-> d \in up]
Snapshot == SnapshotOf(folder)
Snapshots == [folder : Folder, running : BOOLEAN]

NoSwitch == [step |-> "none", from |-> Home, to |-> Home]
NoPage == [step |-> "closed", of |-> None, opening |-> None, queue |-> <<>>, shows |-> None,
           doubt |-> FALSE]

Notice == [kind |-> "notice", state |-> None]
State(s) == [kind |-> "state", state |-> s]
Message == {Notice} \cup {State(s) : s \in Snapshots}

TypeOK ==
  /\ folder \in Folder /\ saved \in Folder /\ up \subseteq Folder
  /\ files \in [Folder -> SUBSET File] /\ held \subseteq File
  /\ calls \subseteq [file : File, folder : Folder]
  /\ switches \in [Request -> [step : {"none", "queued", "move", "open", "publish", "reopen",
                                       "republish", "scan", "save", "done"},
                               from : Folder, to : Folder]]
  /\ turn \in Request \cup {None}
  /\ loop \in [step : {"wait", "send", "ended"}, seen : Snapshots \cup {None},
               last : Snapshots \cup {None}]
  /\ tabs \in [Tab -> [step : {"closed", "subscribed", "read", "open"},
                       of : Folder \cup {None}, opening : Snapshots \cup {None},
                       queue : Seq(Message), shows : Snapshots \cup {None},
                       doubt : BOOLEAN]]
  /\ \A t \in Tab : Len(tabs[t].queue) <= Capacity
  /\ acts \in 0 .. MaxActs /\ notices \in 0 .. MaxNotices
  /\ left \in BOOLEAN /\ torn \in BOOLEAN /\ stranded \in BOOLEAN

\* Everything in the folder in use is held; a folder may have a file of any name.
Init ==
  /\ folder = Home /\ up = {Home} /\ saved = Home
  /\ files \in [Folder -> {S \in SUBSET File : Cardinality(S) <= 1}]
  /\ held = files[Home]
  /\ calls = {}
  /\ switches = [r \in Request |-> NoSwitch] /\ turn = None
  /\ loop = [step |-> "wait", seen |-> None, last |-> None]
  /\ tabs = [t \in Tab |-> NoPage]
  /\ acts = 0 /\ notices = 0
  /\ left = FALSE /\ torn = FALSE /\ stranded = FALSE

Act == acts < MaxActs /\ acts' = acts + 1

-----------------------------------------------------------------------------
(* Requests to the engine, by the example of an import.  The engine is cloned *)
(* out of its lock when the call begins.                                      *)

ImportBegin(f) ==
  /\ Act
  /\ f \notin held /\ f \notin files[folder]
  /\ calls' = calls \cup {[file |-> f, folder |-> folder]}
  /\ UNCHANGED <<folder, up, saved, files, held, change, pages, notices>>

\* Its engine may have been stopped since: import_file does not ask.
ImportEnd(c) ==
  /\ c \in calls
  /\ calls' = calls \ {c}
  /\ files' = [files EXCEPT ![c.folder] = @ \cup {c.file}]
  /\ held' = held \cup {c.file}
  /\ torn' = (torn \/ c.folder \notin up)
  /\ UNCHANGED <<folder, up, saved, switches, turn, left, stranded, pages, acts, notices>>

-----------------------------------------------------------------------------
(* choose and switch.                                                    *)

Choose(r, to) ==
  /\ Act
  /\ switches[r].step = "none"
  /\ switches' = [switches EXCEPT ![r] = [NoSwitch EXCEPT !.step = "queued", !.to = to]]
  /\ UNCHANGED <<engine, turn, left, torn, stranded, pages, notices>>

At(r, step) == switches' = [switches EXCEPT ![r].step = step]

\* Mutant: an early return forgets the mutex.
FinishedHolding(r) == At(r, "done") /\ UNCHANGED turn

Released(r) == turn' = IF turn = r THEN None ELSE turn

\* The reply is sent and the mutex let go.
Finished(r) == At(r, "done") /\ Released(r)

Busy(r) == switches[r].step \notin {"none", "queued", "done"}

\* The page that asked is closed or loaded again.  A request that waits is
\* forgotten; of one that does not, the mutex is let go and the blocking task goes
\* on without it.
Hangup(r) ==
  /\ Act
  /\ switches[r].step = "queued" \/ (Busy(r) /\ turn = r)
  /\ IF Busy(r) THEN UNCHANGED switches ELSE At(r, "done")
  /\ Released(r)
  /\ left' = (left \/ Busy(r))
  /\ UNCHANGED <<engine, torn, stranded, pages, notices>>

\* Mutant: requests do not wait for each other.
MayTurnAnytime(r) == switches[r].step = "queued"

MayTurn(r) == switches[r].step = "queued" /\ turn = None

\* A folder that will not do, or is the one in use, changes nothing; for another the
\* current engine is stopped.
BeginSwitch(r) ==
  /\ MayTurn(r)
  /\ \/ Finished(r) /\ UNCHANGED up
     \/ /\ switches[r].to # folder
        /\ turn' = r
        /\ switches' = [switches EXCEPT ![r].step = "move", ![r].from = folder]
        /\ up' = up \ {folder}
  /\ UNCHANGED <<folder, saved, files, held, calls, left, torn, stranded, pages, acts, notices>>

\* Entry after entry is moved; a name taken at the destination stays behind.
Movable(r) == files[switches[r].from] \ files[switches[r].to]

MoveOne(r, f) ==
  /\ switches[r].step = "move" /\ f \in Movable(r)
  /\ files' = [files EXCEPT ![switches[r].from] = @ \ {f}, ![switches[r].to] = @ \cup {f}]
  /\ UNCHANGED <<folder, up, saved, held, calls, change, pages, acts, notices>>

\* Mutant: the engine is opened before the last file has moved.
MoveDoneEarly(r) ==
  /\ switches[r].step = "move"
  /\ At(r, "open")
  /\ UNCHANGED <<engine, turn, left, torn, stranded, pages, acts, notices>>

MoveDone(r) ==
  /\ switches[r].step = "move" /\ Movable(r) = {}
  /\ At(r, "open")
  /\ UNCHANGED <<engine, turn, left, torn, stranded, pages, acts, notices>>

\* The folder cannot be read, or an entry neither renamed nor copied: the request ends,
\* with the engine stopped and part of the files moved.
MoveFails(r) ==
  /\ switches[r].step = "move"
  /\ Finished(r)
  /\ torn' = TRUE /\ stranded' = TRUE
  /\ UNCHANGED <<engine, left, pages, acts, notices>>

\* App::open: an engine is built, wired and started, and only then made the current
\* one.
OpenNew(r) ==
  /\ switches[r].step = "open"
  /\ \/ up' = up \cup {switches[r].to} /\ At(r, "publish")
     \/ At(r, "reopen") /\ UNCHANGED up
  /\ UNCHANGED <<folder, saved, files, held, calls, turn, left, torn, stranded, pages,
                 acts, notices>>

Publish(r) ==
  /\ switches[r].step = "publish"
  /\ folder' = switches[r].to
  /\ At(r, "scan")
  /\ UNCHANGED <<up, saved, files, held, calls, turn, left, torn, stranded, pages, acts,
                 notices>>

\* The files have moved; the engine goes back to where they were, if it can.
Reopen(r) ==
  /\ switches[r].step = "reopen"
  /\ torn' = TRUE
  /\ \/ /\ up' = up \cup {switches[r].from}
        /\ At(r, "republish")
        /\ UNCHANGED <<turn, stranded>>
     \/ Finished(r) /\ stranded' = TRUE /\ UNCHANGED up
  /\ UNCHANGED <<folder, saved, files, held, calls, left, pages, acts, notices>>

Republish(r) ==
  /\ switches[r].step = "republish"
  /\ folder' = switches[r].from
  /\ Finished(r)
  /\ UNCHANGED <<up, saved, files, held, calls, left, torn, stranded, pages, acts, notices>>

\* scan_sync_folder: what was there already joins the mesh.
ScanNew(r) ==
  /\ switches[r].step = "scan"
  /\ held' = held \cup files[switches[r].to]
  /\ At(r, "save")
  /\ UNCHANGED <<folder, up, saved, files, calls, turn, left, torn, stranded, pages, acts,
                 notices>>

\* If the folder cannot be remembered, the next process opens the old one.
Save(r) ==
  /\ switches[r].step = "save"
  /\ \/ saved' = switches[r].to /\ UNCHANGED torn
     \/ torn' = TRUE /\ UNCHANGED saved
  /\ Finished(r)
  /\ UNCHANGED <<folder, up, files, held, calls, left, stranded, pages, acts, notices>>

\* The process ends at any point and is started again; pages reconnect later.
Relaunch ==
  /\ Act
  /\ folder' = saved /\ up' = {saved}
  /\ calls' = {} /\ turn' = None
  /\ switches' = [r \in Request |->
       IF switches[r].step = "none" THEN NoSwitch ELSE [switches[r] EXCEPT !.step = "done"]]
  /\ torn' = (torn \/ \E r \in Request : Busy(r))
  /\ stranded' = FALSE
  /\ loop' = [step |-> "wait", seen |-> None, last |-> None]
  /\ tabs' = [t \in Tab |-> NoPage]
  /\ UNCHANGED <<saved, files, held, left, notices>>

-----------------------------------------------------------------------------
(* broadcast_changes and stream.                                         *)

\* Mutant: the channel grows.
SentAlways(p, m) ==
  IF p.step = "closed" THEN p ELSE [p EXCEPT !.queue = Append(@, m)]

\* A full channel drops its oldest message for who has not taken it.  A page that
\* loses a snapshot this way is in doubt until it gets the next.
Sent(p, m) ==
  IF p.step = "closed" THEN p
  ELSE IF Len(p.queue) < Capacity THEN [p EXCEPT !.queue = Append(@, m)]
  ELSE [p EXCEPT !.queue = Append(Tail(@), m),
                 !.doubt = @ \/ Head(p.queue).kind = "state"]

\* Bridge::on_event: progress, done and notices go to every page.
SendNotice ==
  /\ notices < MaxNotices /\ up # {}
  /\ notices' = notices + 1
  /\ tabs' = [t \in Tab |-> Sent(tabs[t], Notice)]
  /\ UNCHANGED <<engine, change, loop, acts>>

\* The bell has rung or the two seconds are over.  The engine is cloned and read in
\* one step here: what comes between is late for this round, and in the next.
LoopRead ==
  /\ loop.step = "wait"
  /\ loop' = [loop EXCEPT !.step = "send", !.seen = Snapshot]
  /\ UNCHANGED <<engine, change, tabs, acts, notices>>

\* A read that panics, on a mutex some panic has poisoned for one, ends the task, and
\* nobody starts it again.
LoopEnds ==
  /\ Act
  /\ loop.step = "wait"
  /\ loop' = [loop EXCEPT !.step = "ended"]
  /\ UNCHANGED <<engine, change, tabs, notices>>

\* What differs from what was sent last is sent.
LoopSend ==
  /\ loop.step = "send"
  /\ tabs' = IF loop.seen = loop.last THEN tabs
             ELSE [t \in Tab |-> Sent(tabs[t], State(loop.seen))]
  /\ loop' = [step |-> "wait", seen |-> None, last |-> loop.seen]
  /\ UNCHANGED <<engine, change, acts, notices>>

\* stream subscribes first, gets hold of the engine, reads a snapshot of its own and
\* sends that before anything from the channel.
Subscribe(t) ==
  /\ Act
  /\ tabs[t].step = "closed"
  /\ tabs' = [tabs EXCEPT ![t] = [NoPage EXCEPT !.step = "subscribed", !.of = folder]]
  /\ UNCHANGED <<engine, change, loop, notices>>

\* A page that opens on what the task has not sent is in doubt until it gets the
\* next snapshot: there is none if things are back as they were by then.
ReadOpening(t) ==
  /\ tabs[t].step = "subscribed"
  /\ tabs' = [tabs EXCEPT ![t].step = "read", ![t].of = None,
                          ![t].opening = SnapshotOf(tabs[t].of),
                          ![t].doubt = @ \/ SnapshotOf(tabs[t].of) # loop.last]
  /\ UNCHANGED <<engine, change, loop, acts, notices>>

\* Mutant: the page subscribes once it has been given its snapshot.
OpenPageLate(t) ==
  /\ tabs[t].step = "read"
  /\ tabs' = [tabs EXCEPT ![t].step = "open", ![t].opening = None, ![t].queue = <<>>,
                          ![t].shows = tabs[t].opening]
  /\ UNCHANGED <<engine, change, loop, acts, notices>>

OpenPage(t) ==
  /\ tabs[t].step = "read"
  /\ tabs' = [tabs EXCEPT ![t].step = "open", ![t].opening = None,
                          ![t].shows = tabs[t].opening]
  /\ UNCHANGED <<engine, change, loop, acts, notices>>

Receive(t) ==
  /\ tabs[t].step = "open" /\ tabs[t].queue # <<>>
  /\ tabs' = [tabs EXCEPT ![t] =
       IF Head(@.queue).kind = "state"
       THEN [@ EXCEPT !.queue = Tail(tabs[t].queue), !.shows = Head(tabs[t].queue).state,
                      !.doubt = FALSE]
       ELSE [@ EXCEPT !.queue = Tail(tabs[t].queue)]]
  /\ UNCHANGED <<engine, change, loop, acts, notices>>

-----------------------------------------------------------------------------
SwitchStep(r) ==
  \/ BeginSwitch(r) \/ MoveDone(r) \/ MoveFails(r) \/ OpenNew(r) \/ Publish(r)
  \/ Reopen(r) \/ Republish(r) \/ ScanNew(r) \/ Save(r)
  \/ \E f \in File : MoveOne(r, f)

LoopStep == LoopRead \/ LoopSend

PageStep(t) == ReadOpening(t) \/ OpenPage(t) \/ Receive(t)

Next ==
  \/ \E f \in File : ImportBegin(f)
  \/ \E c \in calls : ImportEnd(c)
  \/ \E r \in Request : SwitchStep(r) \/ Hangup(r) \/ (\E to \in Folder : Choose(r, to))
  \/ Relaunch \/ SendNotice
  \/ LoopStep \/ LoopEnds
  \/ \E t \in Tab : Subscribe(t) \/ PageStep(t)

Spec == Init /\ [][Next]_vars

\* Blocking calls return, the task's sleep is a runtime timer, and an open page
\* takes what it is sent.
FairSpec ==
  /\ Spec
  /\ WF_vars(\E c \in calls : ImportEnd(c))
  /\ \A r \in Request : WF_vars(SwitchStep(r))
  /\ WF_vars(LoopStep)
  /\ \A t \in Tab : WF_vars(PageStep(t))

-----------------------------------------------------------------------------
(* Properties.                                                           *)

Switching == \E r \in Request : Busy(r)

\* However requests to change the folder overlap, one engine at most is running, over
\* the folder every new call gets, but for the instant in which a new one has started
\* and is not the current one yet; and while files are moved there is none, unless who
\* asked for a change went away before it was made (choose, App::open).
OneEngineRuns ==
  ~ left =>
    /\ (\A r \in Request : switches[r].step # "publish") => up \subseteq {folder}
    /\ \A r \in Request :
         /\ switches[r].step = "publish" => up = {switches[r].to}
         /\ switches[r].step \in {"move", "open", "reopen"} => up = {}

\* After a change of folder every item held has its file in the folder now in use,
\* unless a step of it failed, who asked or the process went away in the middle, or
\* a call was still using the engine it replaced (switch, move_contents).
HeldIsInFolder == ~torn /\ ~left /\ ~Switching => held \subseteq files[folder]

\* Every request to change the folder has its turn and ends, whatever order they
\* come in and whoever goes away meanwhile, and in the end an engine is running
\* again, unless the files could not be moved or neither folder opened (choose).
EngineComesBack ==
  \A r \in Request :
    switches[r].step = "queued" ~>
      switches[r].step = "done" /\ ~Switching /\ (up # {} \/ stranded)

\* A page comes to show what is, whenever it was opened and however much was sent
\* meanwhile, unless it is in doubt and nothing has changed since, or the task that
\* reads has ended (stream, broadcast_changes).
PageIsTrue ==
  <>[](\A t \in Tab : tabs[t].step = "open" =>
         tabs[t].shows = Snapshot \/ tabs[t].doubt \/ loop.step = "ended")

=============================================================================
