------------------------------- MODULE Folder -------------------------------
(******************************************************************************)
(* One path of the sync folder of a desktop device, and the watcher.          *)
(*                                                                            *)
(* Two writers share the folder.  What a person does in it must reach the     *)
(* catalog; what the engine does in it - a copy received, an import, a copy   *)
(* deleted - must not come back as something a person did.  The operating     *)
(* system reports both alike and in any order, and the engine tells them      *)
(* apart by time: it ignores the paths it touches until a few seconds after.  *)
(* That rests on its own acts being reported in time (Late); a person's may   *)
(* be reported at any later time.  Every event is handled by a task of its    *)
(* own, without the database mutex until the handler asks for it.             *)
(*                                                                            *)
(* An index may fail at each step and then gives up where it is; nobody tries *)
(* again before the file is next touched or scanned.                          *)
(*                                                                            *)
(* Left to other modules: who else holds the item (Mesh), its blocks (Store), *)
(* the name a file that must make way gets and revisions other devices make   *)
(* (Names).  A version is one content of the file; the listed item and the    *)
(* file are at the one path this module is about.                             *)
(******************************************************************************)
EXTENDS Naturals

CONSTANTS
  Wait,      \* how long handle_fs_event sleeps before it reads the file
  Debounce,  \* how long after an event it took it takes no other
  Grace,     \* SELF_WRITE_GRACE_SECS
  Late,      \* how late the engine's own acts may be reported
  MaxActs,   \* bound: what a person and the operating system do
  MaxOwn     \* bound: what the engine does in the folder of its own

ASSUME FolderAssumption ==
  /\ Wait \in Nat \ {0} /\ Debounce \in Nat /\ Grace \in Nat
  /\ Late \in Nat
  /\ Wait < Debounce /\ Debounce < Grace /\ Late < Grace
  /\ MaxActs \in Nat /\ MaxOwn \in Nat

Part == MaxActs + MaxOwn + 1   \* a file the engine has begun to write
Version == 1 .. MaxActs + MaxOwn
Data == 0 .. Part               \* 0: no file, no content known
Stamp == 0 .. MaxActs + 3 * MaxOwn  \* size and modification time, in seconds

VARIABLES
  disk,     \* the file: its content, its stamp, whether a person wrote it and no
            \* index has read it since
  row,      \* the catalog: is the path listed, do we hold it, content and stamp
  events,   \* reported by the operating system and not handled yet: <<what, by whom>>
  since,    \* the time since debounce_map took an event for the path
  age,      \* how long one of the engine's own acts has waited to be heard
  ignored,  \* the path is in the ignore set
  timers,   \* when the scheduled unmarks are due
  jobs,     \* the runs of Indexer::index: the watcher's, and a caller's
  own,      \* the write of the engine under way
  running,  \* there is a watcher
  made,     \* versions and stamps handed out
  acts, owns,
  history   \* what the properties look back to

vars == <<disk, row, events, since, age, ignored, timers, jobs, own, running, made,
          acts, owns, history>>

Nothing == [data |-> 0, stamp |-> 0, unread |-> FALSE]
Unlisted == [state |-> "none", data |-> 0, stamp |-> 0]
NoJob == [step |-> "idle", left |-> 0, import |-> FALSE, sees |-> "none", known |-> 0,
          data |-> 0, stamp |-> 0]
NoWrite == [kind |-> "none", step |-> "idle", data |-> 0]
Worker == {"watcher", "caller"}
JobSteps == {"idle", "waiting", "lookup", "rename", "read", "claim", "undo"}
Reports == {"write", "remove"} \X {"person", "engine"}

TypeOK ==
  /\ disk \in [data : Data, stamp : Stamp, unread : BOOLEAN]
  /\ row \in [state : {"none", "listed", "held"}, data : Data, stamp : Stamp]
  /\ events \subseteq Reports
  /\ since \in 0 .. Debounce /\ timers \subseteq 0 .. Grace /\ age \in 0 .. Late
  /\ ignored \in BOOLEAN /\ running \in BOOLEAN
  /\ jobs \in [Worker -> [step : JobSteps, left : 0 .. Wait, import : BOOLEAN,
                          sees : {"none", "listed", "held"}, known : Data, data : Data,
                          stamp : Stamp]]
  /\ own \in [kind : {"none", "pull", "push", "import"},
              step : {"idle", "writing", "written"}, data : Data]
  /\ made \in [version : 0 .. MaxActs + MaxOwn, stamp : Stamp]
  /\ acts \in 0 .. MaxActs /\ owns \in 0 .. MaxOwn
  /\ history \in [{"missed", "crossed", "echoed", "failed"} -> BOOLEAN]

Init ==
  /\ disk = Nothing /\ row = Unlisted
  /\ events = {} /\ since = Debounce /\ age = 0
  /\ ignored = FALSE /\ timers = {}
  /\ jobs = [w \in Worker |-> NoJob]
  /\ own = NoWrite
  /\ running = FALSE
  /\ made = [version |-> 0, stamp |-> 0]
  /\ acts = 0 /\ owns = 0
  /\ history = [h \in {"missed", "crossed", "echoed", "failed"} |-> FALSE]

-----------------------------------------------------------------------------
AllIdle == \A w \in Worker : jobs[w] = NoJob
Quiet == events = {} /\ AllIdle /\ own = NoWrite

\* Reports of what the engine did of its own.
ByEngine == {"write", "remove"} \X {"engine"}

\* finalize_file holds the database mutex from its first look to its last write.
MutexFree == ~(own.kind = "push" /\ own.step = "writing")

Note(h, b) == history' = [history EXCEPT ![h] = b]

\* What the operating system reports, if there is anybody to report to.
Reported(what, who) == IF running THEN events \cup {<<what, who>>} ELSE events

\* A write gets a new modification time, in whole seconds.
NextStamp == made.stamp + 1

-----------------------------------------------------------------------------
(* A person in the folder.  An act that finds the folder quiet and watched is *)
(* bound to be heard; of one that does not, this module promises nothing, and *)
(* nothing until the next that does.                                          *)

\* Written again within the second and with the same size, a file keeps its stamp.
Save ==
  /\ acts < MaxActs
  /\ acts' = acts + 1
  /\ \E s \in {NextStamp} \cup (IF disk.data # 0 THEN {disk.stamp} ELSE {}) :
       /\ disk' = [data |-> made.version + 1, stamp |-> s, unread |-> TRUE]
       /\ made' = [version |-> made.version + 1,
                   stamp |-> IF s = NextStamp THEN s ELSE made.stamp]
  /\ events' = Reported("write", "person")
  /\ Note("missed", ~(running /\ Quiet /\ ~ignored /\ since = Debounce))
  /\ UNCHANGED <<row, since, age, ignored, timers, jobs, own, running, owns>>

\* A file deleted is reported as gone.  One moved out of the folder is reported as
\* renamed, on Linux and macOS, and handle_fs_event takes that for a write.
Delete ==
  /\ acts < MaxActs /\ disk.data # 0
  /\ acts' = acts + 1
  /\ disk' = Nothing
  /\ \E what \in {"write", "remove"} :
       /\ events' = Reported(what, "person")
       /\ Note("missed", ~(running /\ Quiet /\ ~ignored /\ what = "remove"))
  /\ UNCHANGED <<row, since, age, ignored, timers, jobs, own, running, made, owns>>

\* Another device's item comes to be listed at the path, with a content of its own.
Learn ==
  /\ owns < MaxOwn /\ row.state = "none" /\ MutexFree
  /\ owns' = owns + 1
  /\ row' = [state |-> "listed", data |-> made.version + 1, stamp |-> NextStamp]
  /\ made' = [version |-> made.version + 1, stamp |-> NextStamp]
  /\ UNCHANGED <<disk, events, since, age, ignored, timers, jobs, own, running, acts, history>>

-----------------------------------------------------------------------------
(* Indexer::index, in the sections between which it lets the mutex go.   *)

Becomes(w, j) == jobs' = [jobs EXCEPT ![w] = j]

\* index gives up: what a person has put there and is still there stays uncatalogued.
\* import_file then takes its file away again (Undo).
GivesUp(w) ==
  /\ Becomes(w, IF jobs[w].import THEN [NoJob EXCEPT !.step = "undo", !.import = TRUE]
                                  ELSE NoJob)
  /\ history' = [history EXCEPT !.missed = @ \/ (disk.data # 0 /\ ~jobs[w].import)]

\* The size and the time are read, and the row is looked up: where another's item
\* is listed the file must make way.
IndexLook(w) ==
  /\ jobs[w].step = "waiting" /\ jobs[w].left = 0
  /\ MutexFree /\ disk.data # 0
  /\ Becomes(w, [jobs[w] EXCEPT !.stamp = disk.stamp,
       !.step = IF row.state = "listed" THEN "rename" ELSE "lookup"])
  /\ UNCHANGED <<disk, row, events, since, age, ignored, timers, own, running, made, acts,
                 owns, history>>

\* There is no file any more, or it cannot be looked at.
IndexLookFails(w) ==
  /\ jobs[w].step = "waiting" /\ jobs[w].left = 0
  /\ GivesUp(w)
  /\ UNCHANGED <<disk, row, events, since, age, ignored, timers, own, running, made, acts,
                 owns>>

\* The row is looked up once more: a new item, or an edit of what is listed by now.
IndexLookAgain(w) ==
  /\ jobs[w].step = "lookup"
  /\ MutexFree
  /\ Becomes(w, [jobs[w] EXCEPT !.step = "read", !.sees = row.state, !.known = row.data])
  /\ UNCHANGED <<disk, row, events, since, age, ignored, timers, own, running, made, acts,
                 owns, history>>

\* Mutant: the marks of the two names add up.
MarkTwice == ignored' = TRUE /\ timers' = timers \cup {Grace + Grace}

\* rename_on_disk marks the path whether or not it can move the file.
Mark == ignored' = TRUE /\ timers' = timers \cup {Grace}

\* The file moves aside; its new name is none of this module's.
MakeWay(w) ==
  /\ jobs[w].step = "rename"
  /\ MutexFree /\ disk.data # 0
  /\ disk' = Nothing
  /\ events' = Reported("write", "engine")
  /\ Mark
  /\ Becomes(w, NoJob)
  /\ Note("crossed", history.crossed \/ timers # {} \/ own # NoWrite)
  /\ UNCHANGED <<row, since, age, own, running, made, acts, owns>>

\* It has gone, or cannot be moved.
MakeWayFails(w) ==
  /\ jobs[w].step = "rename"
  /\ MutexFree
  /\ Mark
  /\ Becomes(w, IF jobs[w].import THEN [NoJob EXCEPT !.step = "undo", !.import = TRUE]
                                  ELSE NoJob)
  /\ history' = [history EXCEPT !.missed = @ \/ (disk.data # 0 /\ ~jobs[w].import),
                                !.crossed = @ \/ timers # {} \/ own # NoWrite]
  /\ UNCHANGED <<disk, row, events, since, age, own, running, made, acts, owns>>

\* insert_file for job j.  A new id takes away what is listed at the path, unless it has
\* blocks, as what is held here has: then the insert is refused.  An item that went
\* to the trash in between comes back with the copy it had.
CanPut(j) == j.sees = "none" => row.state # "held"

Put(j, data) ==
  [state |-> IF row.state = "held" \/ (row.state = "none" /\ j.sees = "held")
             THEN "held" ELSE "listed",
   data |-> data, stamp |-> j.stamp]

\* The row is written before the file is cut into blocks.
IndexRead(w) ==
  LET j == jobs[w] IN
  /\ j.step = "read"
  /\ MutexFree /\ CanPut(j) /\ disk.data # 0
  /\ row' = Put(j, j.known)
  /\ disk' = [disk EXCEPT !.unread = FALSE]
  /\ Becomes(w, IF disk.data = j.known THEN NoJob
                ELSE [j EXCEPT !.step = "claim", !.data = disk.data])
  /\ UNCHANGED <<events, since, age, ignored, timers, own, running, made, acts, owns, history>>

\* The insert is refused, or the file has gone or cannot be read to its end, and the
\* row stays without it.
IndexReadFails(w) ==
  /\ jobs[w].step = "read"
  /\ MutexFree
  /\ row' \in {row} \cup {Put(j, j.known) : j \in {i \in {jobs[w]} : CanPut(i)}}
  /\ GivesUp(w)
  /\ UNCHANGED <<disk, events, since, age, ignored, timers, own, running, made, acts, owns>>

\* Mutant: the item gets its content and nobody claims the copy.
IndexClaimUnheld(w) ==
  /\ jobs[w].step = "claim"
  /\ MutexFree
  /\ row' = Put(jobs[w], jobs[w].data)
  /\ Becomes(w, NoJob)
  /\ UNCHANGED <<disk, events, since, age, ignored, timers, own, running, made, acts, owns,
                 history>>

IndexClaim(w) ==
  /\ jobs[w].step = "claim"
  /\ MutexFree
  /\ row' = [state |-> "held", data |-> jobs[w].data, stamp |-> jobs[w].stamp]
  /\ Becomes(w, NoJob)
  /\ UNCHANGED <<disk, events, since, age, ignored, timers, own, running, made, acts, owns,
                 history>>

\* The row is not written, or the holder is not.
IndexClaimFails(w) ==
  /\ jobs[w].step = "claim"
  /\ MutexFree
  /\ row' \in {row, Put(jobs[w], jobs[w].data)}
  /\ GivesUp(w)
  /\ UNCHANGED <<disk, events, since, age, ignored, timers, own, running, made, acts, owns>>

\* import_file removes a file that was not indexed; the path is not marked again.
Undo(w) ==
  /\ jobs[w].step = "undo"
  /\ disk' = Nothing
  /\ events' = IF disk.data # 0 THEN Reported("remove", "engine") ELSE events
  /\ Becomes(w, NoJob)
  /\ UNCHANGED <<row, since, age, ignored, timers, own, running, made, acts, owns, history>>

Begin(w, import) ==
  jobs' = [jobs EXCEPT ![w] = [NoJob EXCEPT !.step = "waiting", !.import = import]]

-----------------------------------------------------------------------------
(* handle_fs_event.                                                      *)

\* Mutant: new files are left to the next scan.
TakenOfHeld == disk.data # 0 /\ ~ignored /\ since = Debounce /\ row.state = "held"

\* A write is taken up when there is a file, nobody ignores it, and no event of
\* the path was taken a moment before.
Taken == disk.data # 0 /\ ~ignored /\ since = Debounce

\* Two reports of a kind not handled yet count as one: the second would find
\* the path debounced.
HearWrite(who) ==
  /\ <<"write", who>> \in events
  /\ events' = events \ {<<"write", who>>}
  /\ IF Taken
     THEN /\ \E w \in Worker : jobs[w] = NoJob /\ Becomes(w,
               [NoJob EXCEPT !.step = "waiting", !.left = Wait])
          /\ since' = 0
          /\ Note("echoed", history.echoed \/ who = "engine")
     ELSE UNCHANGED <<since, jobs, history>>
  /\ age' = IF events' \cap ByEngine = {} THEN 0 ELSE age
  /\ UNCHANGED <<disk, row, ignored, timers, own, running, made, acts, owns>>

\* forget drops this device's copy.  Of the last one the item goes to the trash,
\* of another it stays listed.
Forgotten == {Unlisted, [row EXCEPT !.state = "listed"]}

HearRemove(who) ==
  /\ <<"remove", who>> \in events
  /\ events' = events \ {<<"remove", who>>}
  /\ IF ignored
     THEN UNCHANGED <<row, history>>
     ELSE /\ MutexFree
          /\ row' \in (IF row.state = "held" THEN Forgotten ELSE {row})
          /\ Note("echoed", history.echoed \/ who = "engine")
  /\ age' = IF events' \cap ByEngine = {} THEN 0 ELSE age
  /\ UNCHANGED <<disk, since, ignored, timers, jobs, own, running, made, acts, owns>>

-----------------------------------------------------------------------------
(* The engine in the folder.                                             *)

\* Whether what the engine is about to do crosses something it or a person did
\* just before.
Crossing == events # {} \/ ~AllIdle \/ timers # {}

\* Mutant: the path is marked once the file is written.
OwnBeginUnmarked(kind) ==
  /\ owns < MaxOwn /\ own = NoWrite
  /\ owns' = owns + 1
  /\ CASE kind = "pull" -> row.state = "listed" /\ row.data # 0
       [] kind = "push" -> row.state # "none" /\ row.data # 0
       [] kind = "import" -> row.state = "none" /\ disk.data = 0
  /\ own' = [kind |-> kind, step |-> "writing",
             data |-> IF kind = "import" THEN made.version + 1 ELSE row.data]
  /\ made' = [version |-> IF kind = "import" THEN made.version + 1 ELSE made.version,
              stamp |-> NextStamp]
  /\ disk' = [data |-> Part, stamp |-> NextStamp, unread |-> FALSE]
  /\ events' = Reported("write", "engine")
  /\ history' = [history EXCEPT !.missed = @ \/ Crossing,
                                !.crossed = @ \/ Crossing]
  /\ UNCHANGED <<row, since, age, ignored, timers, jobs, running, acts>>

\* pull_copy and finalize_file write the item listed here, import_file a file of
\* its own where there is neither item nor file.  An item without content is one
\* an interrupted index left: nobody has it to give.
OwnBegin(kind) ==
  /\ owns < MaxOwn /\ own = NoWrite
  /\ owns' = owns + 1
  /\ CASE kind = "pull" -> row.state = "listed" /\ row.data # 0
       [] kind = "push" -> row.state # "none" /\ row.data # 0
       [] kind = "import" -> row.state = "none" /\ disk.data = 0
  /\ own' = [kind |-> kind, step |-> "writing",
             data |-> IF kind = "import" THEN made.version + 1 ELSE row.data]
  /\ made' = [version |-> IF kind = "import" THEN made.version + 1 ELSE made.version,
              stamp |-> NextStamp]
  /\ ignored' = TRUE
  /\ disk' = [data |-> Part, stamp |-> NextStamp, unread |-> FALSE]
  /\ events' = Reported("write", "engine")
  /\ history' = [history EXCEPT !.missed = @ \/ Crossing,
                                !.crossed = @ \/ Crossing]
  /\ UNCHANGED <<row, since, age, timers, jobs, running, acts>>

\* The operating system reports the file as it grows.
OwnGrow ==
  /\ own.step = "writing"
  /\ events' = Reported("write", "engine")
  /\ events' # events
  /\ UNCHANGED <<disk, row, since, age, ignored, timers, jobs, own, running, made, acts, owns, history>>

\* Mutant: nothing ends the ignoring of an imported file.
OwnEndIgnoring ==
  /\ own.step = "writing" /\ (own.kind = "import" => jobs["caller"] = NoJob)
  /\ disk' = IF disk.data = Part THEN [disk EXCEPT !.data = own.data] ELSE disk
  /\ events' = Reported("write", "engine")
  /\ row' = IF own.kind = "push" THEN [row EXCEPT !.state = "held"] ELSE row
  /\ own' = IF own.kind = "pull" THEN [own EXCEPT !.step = "written"] ELSE NoWrite
  /\ timers' = IF own.kind = "import" THEN timers ELSE timers \cup {Grace}
  /\ IF own.kind = "import" THEN Begin("caller", TRUE) ELSE UNCHANGED jobs
  /\ UNCHANGED <<since, age, ignored, running, made, acts, owns, history>>

\* The file is whole, unless it was moved or replaced under the writer.  A push
\* claims the copy in the same section, an import goes on to index the file.
OwnEnd ==
  /\ own.step = "writing" /\ (own.kind = "import" => jobs["caller"] = NoJob)
  /\ disk' = IF disk.data = Part THEN [disk EXCEPT !.data = own.data] ELSE disk
  /\ events' = Reported("write", "engine")
  /\ timers' = timers \cup {Grace}
  /\ row' = IF own.kind = "push" THEN [row EXCEPT !.state = "held"] ELSE row
  /\ own' = IF own.kind = "pull" THEN [own EXCEPT !.step = "written"] ELSE NoWrite
  /\ IF own.kind = "import" THEN Begin("caller", TRUE) ELSE UNCHANGED jobs
  /\ UNCHANGED <<since, age, ignored, running, made, acts, owns, history>>

\* pull_copy claims the copy in a section of its own.
OwnClaim ==
  /\ own.step = "written"
  /\ row' = IF row.state = "none" THEN row ELSE [row EXCEPT !.state = "held"]
  /\ own' = NoWrite
  /\ UNCHANGED <<disk, events, since, age, ignored, timers, jobs, running, made, acts, owns, history>>

\* A block cannot be read, the disk is full: the part stays, and only import_file
\* sees to it that the path is watched again.
OwnFail ==
  /\ own.step = "writing"
  /\ own' = NoWrite
  /\ timers' = IF own.kind = "import" THEN timers \cup {Grace} ELSE timers
  /\ history' = [history EXCEPT !.failed = TRUE, !.crossed = TRUE, !.missed = TRUE]
  /\ UNCHANGED <<disk, row, events, since, age, ignored, jobs, running, made, acts, owns>>

\* delete_local_copy with remove_from_disk, all in one section.
OwnRemove ==
  /\ owns < MaxOwn /\ row.state = "held" /\ MutexFree
  /\ owns' = owns + 1
  /\ row' \in Forgotten
  /\ disk' = Nothing
  /\ IF disk.data = 0
     THEN UNCHANGED <<events, ignored, timers>>
     ELSE /\ ignored' = TRUE /\ timers' = timers \cup {Grace}
          /\ events' = Reported("remove", "engine")
  /\ history' = [history EXCEPT !.missed = @ \/ Crossing \/ own # NoWrite,
                                !.crossed = @ \/ Crossing \/ own # NoWrite]
  /\ UNCHANGED <<since, age, jobs, own, running, made, acts>>

AlreadyCurrent == row.state = "held" /\ row.stamp = disk.stamp

\* scan indexes the file unless the catalog has it held and with its stamp.  It
\* finds what came or changed, not what went, and asks nobody whether the path is
\* being written.
Scan ==
  /\ acts < MaxActs /\ jobs["caller"] = NoJob /\ MutexFree
  /\ disk.data # 0 /\ ~AlreadyCurrent
  /\ acts' = acts + 1
  /\ Begin("caller", FALSE)
  /\ history' = [history EXCEPT !.missed = ~Quiet,
                                !.crossed = @ \/ own # NoWrite]
  /\ UNCHANGED <<disk, row, events, since, age, ignored, timers, own, running, made, owns>>

-----------------------------------------------------------------------------
\* A watcher comes with an empty debounce map.
Start ==
  /\ ~running /\ acts < MaxActs
  /\ acts' = acts + 1
  /\ running' = TRUE /\ since' = Debounce
  /\ UNCHANGED <<disk, row, events, age, ignored, timers, jobs, own, made, owns, history>>

\* The tasks already spawned go on.
Stop ==
  /\ running /\ acts < MaxActs
  /\ acts' = acts + 1
  /\ running' = FALSE
  /\ events' \in SUBSET events
  /\ age' = IF events' \cap ByEngine = {} THEN 0 ELSE age
  /\ Note("missed", history.missed \/ events # {})
  /\ UNCHANGED <<disk, row, since, ignored, timers, jobs, own, made, owns>>

\* What the ignore set and the tasks knew is gone with the process.
Crash ==
  /\ acts < MaxActs
  /\ acts' = acts + 1
  /\ running' = FALSE
  /\ events' = {} /\ age' = 0 /\ ignored' = FALSE /\ timers' = {}
  /\ jobs' = [w \in Worker |-> NoJob] /\ own' = NoWrite
  /\ history' = [history EXCEPT !.missed = @ \/ ~Quiet,
                                !.crossed = @ \/ own # NoWrite]
  /\ UNCHANGED <<disk, row, since, made, owns>>

Unmark ==
  /\ 0 \in timers
  /\ ignored' = FALSE /\ timers' = timers \ {0}
  /\ UNCHANGED <<disk, row, events, since, age, jobs, own, running, made, acts, owns, history>>

\* Files are indexed faster than time passes, and what the engine does of its own is
\* reported before it has passed Late times; how late a person is heard and how long
\* the engine writes is open.
Tick ==
  /\ \A w \in Worker : jobs[w].step # "idle" => jobs[w].left > 0
  /\ events \cap ByEngine # {} => age < Late
  /\ 0 \notin timers
  /\ since < Debounce \/ timers # {}
  /\ since' = IF since < Debounce THEN since + 1 ELSE since
  /\ timers' = {t - 1 : t \in timers}
  /\ age' = IF events \cap ByEngine = {} THEN 0 ELSE age + 1
  /\ jobs' = [w \in Worker |->
       IF jobs[w].left > 0 THEN [jobs[w] EXCEPT !.left = @ - 1] ELSE jobs[w]]
  /\ UNCHANGED <<disk, row, events, ignored, own, running, made, acts, owns, history>>

-----------------------------------------------------------------------------
PersonStep == Save \/ Delete \/ Scan \/ Start \/ Stop \/ Crash

Handle == \E who \in {"person", "engine"} : HearWrite(who) \/ HearRemove(who)

Index ==
  \E w \in Worker :
    \/ IndexLook(w) \/ IndexLookAgain(w) \/ MakeWay(w) \/ IndexRead(w) \/ IndexClaim(w)
    \/ IndexLookFails(w) \/ MakeWayFails(w) \/ IndexReadFails(w) \/ IndexClaimFails(w)
    \/ Undo(w)

Finish == OwnEnd \/ OwnFail \/ OwnClaim

OwnStep ==
  \/ \E kind \in {"pull", "push", "import"} : OwnBegin(kind)
  \/ OwnGrow \/ OwnRemove \/ Learn

Next ==
  PersonStep \/ OwnStep \/ Handle \/ Index \/ Finish \/ Unmark \/ Tick

Spec == Init /\ [][Next]_vars

\* Events reach their handlers, what has begun is finished, timers are runtime
\* timers or sleeping threads.
FairSpec ==
  /\ Spec
  /\ WF_vars(Handle) /\ WF_vars(Index) /\ WF_vars(Finish)
  /\ WF_vars(Unmark) /\ WF_vars(Tick)

-----------------------------------------------------------------------------
(* Properties.                                                           *)

\* The folder and the catalog agree about the file: it is there exactly when this
\* device holds the item of that name, with the content the catalog says.
InStep ==
  /\ disk.data # 0 <=> row.state = "held"
  /\ disk.data # 0 => row.data = disk.data

\* Whatever a person does in a quiet folder is in the catalog once the watcher is
\* through with it, and whatever the engine does leaves folder and catalog agreed,
\* imports that fail half-way too, unless something was missed (start_watcher, index,
\* pull_copy, finalize_file).  Missed is an act of a person that crossed another act,
\* a file moved out of the folder, which the comment in handle_fs_event takes for
\* heard, and a file of a person that an index gave up on.
InStepUnlessMissed == Quiet /\ ~history.missed => InStep

\* The watcher never takes what the engine did in the folder for an act of a
\* person, and no index catalogues a file the engine is still writing, unless the
\* engine touched the path twice within the grace time, or under a scan: the timer
\* of the first act then ends the ignoring of the second (ignore.rs).
NoEcho == history.echoed \/ row.data = Part => history.crossed

\* A path the engine touched is watched again, however its acts overlap, unless
\* a write failed: pull_copy and finalize_file then never end the ignoring.
IgnoringEnds == ignored ~> (~ignored \/ history.failed)

\* The engine writes over a file no index has read only where the one crossed the
\* other, or an index gave up on the file: assemble_file_from_blocks asks nobody what
\* it truncates, so everything rests on an index having been there first.
UnreadIsKept ==
  [][disk.unread /\ disk'.data = Part => history'.missed]_vars

=============================================================================
