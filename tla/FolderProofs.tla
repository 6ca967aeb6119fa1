---------------------------- MODULE FolderProofs ----------------------------
(***************************************************************************)
(* What is proved about Folder for every length of the waits, every delay  *)
(* of the engine's own reports shorter than the grace time, and any number *)
(* of acts: its types, that the engine never takes its own writing for a   *)
(* person's, that the catalog follows the folder, and that the engine      *)
(* writes over nothing it has not read, each unless acts crossed, and the  *)
(* last two unless a file was moved out or an index gave up on it.         *)
(***************************************************************************)
EXTENDS Folder, TLAPS

\* Every version and stamp handed out was paid for by an act.
Counted == made.version <= acts + owns /\ made.stamp <= acts + owns

\* The contents anybody knows of are versions handed out, or the part of a file.
Contents ==
  {disk.data, row.data, own.data}
    \cup {jobs[w].known : w \in Worker} \cup {jobs[w].data : w \in Worker}
Handed == \A d \in Contents : d <= made.version \/ d = Part

\* What holds of every record, whoever crossed whom.
Shaped(j) ==
  /\ j.step = "idle" => j = NoJob
  /\ j.step = "undo" => j.import
  /\ j.import => j.left = 0
  /\ j.sees = "none" => j.known = 0

Shapes ==
  /\ \A w \in Worker : Shaped(jobs[w])
  /\ own.step = "idle" => own = NoWrite
  /\ row.state = "none" => row.data = 0
  /\ disk.data \in {0, Part} => ~ disk.unread

\* A timer set when the oldest report of the engine's that waits was still to come.
Recent(t) == t + age >= Grace

\* As long as no acts of the engine crossed, one timer at most runs, what the engine
\* does is ignored from before it begins until the reports of it have been handled,
\* and the part of a file is known to nobody but who writes it.
Apart ==
  ~ history.crossed =>
    /\ ~ history.echoed
    /\ own.step = "writing" => timers = {} /\ ignored /\ AllIdle
    /\ \A t, u \in timers : t = u
    /\ \A what \in {"write", "remove"} : <<what, "engine">> \in events =>
         ignored /\ (own.step = "writing" \/ \E t \in timers : Recent(t))
    /\ \A w \in Worker : jobs[w].import => ignored /\ Grace \in timers
    /\ disk.data = Part => own.step = "writing"
    /\ row.data # Part /\ own.data # Part
    /\ \A w \in Worker : jobs[w].known # Part /\ jobs[w].data # Part

Own == {<<"write", "engine">>}
ByPerson(what) == events = {<<what, "person">>} /\ AllIdle /\ own = NoWrite /\ ~ ignored

\* An act of a person that waits to be heard finds nobody at work and the path
\* watched; what waits of the engine's will not be taken for one.
Unheard ==
  /\ <<"write", "person">> \in events =>
       ByPerson("write") /\ since = Debounce /\ disk.data # 0
  /\ <<"remove", "person">> \in events => ByPerson("remove") /\ disk.data = 0
  /\ <<"remove", "engine">> \in events =>
       AllIdle /\ own = NoWrite /\ row.state # "held"
  /\ <<"write", "engine">> \in events /\ disk.data # 0 =>
       ignored /\ (own.step = "writing" \/ \E t \in timers : timers = {t} /\ Recent(t))

\* What the row an index works on has become while the mutex was free: another's item
\* may have come to be listed where there was none.
Kept(j) ==
  /\ j.step = "lookup" /\ row.state = "listed" => row.data # disk.data
  /\ j.step = "rename" => row.state = "listed"
  /\ j.step = "read" =>
       /\ row.state # j.sees => j.sees = "none" /\ row.state = "listed"
       /\ row.state = j.sees => row.data = j.known
       /\ j.sees = "listed" => j.known # disk.data
  /\ j.step = "claim" => j.data = disk.data /\ ~ disk.unread
  /\ j.import => row.state # "held" /\ j.sees # "held" /\ timers = {Grace}

\* There is one index at most, nothing is written meanwhile, and what it has read
\* is still so.
OneIndex ==
  \A w \in Worker : jobs[w] # NoJob =>
    /\ \A v \in Worker : jobs[v] # NoJob => v = w
    /\ own = NoWrite /\ disk.data # 0 /\ events \subseteq Own
    /\ Kept(jobs[w])

\* The file the engine writes is that of the item listed, and stays so until it is
\* claimed; one imported is nobody's yet.
OneWrite ==
  /\ own.step = "writing" =>
       /\ timers = {} /\ ignored /\ events \subseteq Own
       /\ disk.data = Part /\ own.data # 0 /\ own.kind # "none"
       /\ own.kind = "import" => row.state # "held"
       /\ own.kind # "import" => row.data = own.data /\ row.state # "none"
       /\ own.kind = "pull" => row.state = "listed"
  /\ own.step = "written" =>
       /\ events \subseteq Own /\ row.state = "listed"
       /\ disk.data # 0 /\ row.data = disk.data /\ ~ disk.unread

\* With nobody at work and no act of a person to be heard, folder and catalog agree
\* and the file has been read.
Settled ==
  AllIdle /\ own = NoWrite /\ events \subseteq {"write", "remove"} \X {"engine"} =>
    InStep /\ ~ disk.unread

\* As long as nothing was missed, only one of them is at work - a person whose act
\* waits to be heard, an index, a write of the engine - and each works on what the
\* one before left.
Follows == ~ history.missed => Unheard /\ OneIndex /\ OneWrite /\ Settled

-----------------------------------------------------------------------------
(* Types.                                                                  *)

File == [data : Data, stamp : Stamp, unread : BOOLEAN]
Item == [state : {"none", "listed", "held"}, data : Data, stamp : Stamp]
Job == [step : {"idle", "waiting", "lookup", "rename", "read", "claim", "undo"},
        left : 0 .. Wait, import : BOOLEAN, sees : {"none", "listed", "held"},
        known : Data, data : Data, stamp : Stamp]
Write == [kind : {"none", "pull", "push", "import"},
          step : {"idle", "writing", "written"}, data : Data]
History == [{"missed", "crossed", "echoed", "failed"} -> BOOLEAN]

Types ==
  /\ disk \in File /\ row \in Item
  /\ events \subseteq Reports
  /\ since \in 0 .. Debounce /\ timers \subseteq 0 .. Grace /\ age \in 0 .. Late
  /\ ignored \in BOOLEAN /\ running \in BOOLEAN
  /\ jobs \in [Worker -> Job] /\ own \in Write
  /\ made \in [version : 0 .. MaxActs + MaxOwn, stamp : Stamp]
  /\ acts \in 0 .. MaxActs /\ owns \in 0 .. MaxOwn
  /\ history \in History

LEMMA SameTypes == (TypeOK <=> Types) /\ (TypeOK' <=> Types')
<1>1. TypeOK <=> Types
  BY DEF TypeOK, Types, File, Item, Job, JobSteps, Write, History
<1>2. TypeOK' <=> Types'
  BY DEF TypeOK, Types, File, Item, Job, JobSteps, Write, History
<1> QED
  BY <1>1, <1>2

\* The values at the start are of their types.
LEMMA StartTyped ==
  /\ Nothing \in File /\ Unlisted \in Item /\ NoJob \in Job /\ NoWrite \in Write
  /\ 0 \in Stamp
<1> USE FolderAssumption
<1>1. 0 \in Data /\ 0 \in Stamp /\ 0 \in 0 .. Wait
  BY DEF Data, Part, Stamp
<1> QED
  BY <1>1 DEF Nothing, Unlisted, NoJob, NoWrite, File, Item, Job, Write

\* A version or stamp handed out now is one there can be, and no part of a file.
LEMMA HandedOut ==
  ASSUME Types, Counted, acts + owns < MaxActs + MaxOwn
  PROVE  /\ made.version + 1 \in Version /\ made.version + 1 \in Data
         /\ made.version + 1 # Part /\ made.version + 1 # 0
         /\ made.version + 1 \in 0 .. MaxActs + MaxOwn
         /\ NextStamp \in Stamp
<1> USE FolderAssumption
<1>1. /\ made.version \in Nat /\ made.version <= acts + owns
      /\ made.stamp \in Nat /\ made.stamp <= acts + owns
      /\ acts \in Nat /\ owns \in Nat
  BY DEF Types, Counted, Stamp
<1> QED
  BY <1>1 DEF Version, Data, Part, Stamp, NextStamp

\* What is reported is a report.
LEMMA ReportedTyped ==
  ASSUME Types, NEW what \in {"write", "remove"}, NEW who \in {"person", "engine"}
  PROVE  Reported(what, who) \subseteq Reports
BY DEF Reported, Reports, Types

\* Noting one thing keeps the rest.
LEMMA Noted ==
  ASSUME Types, NEW h \in {"missed", "crossed", "echoed", "failed"}, NEW b \in BOOLEAN,
         Note(h, b)
  PROVE  /\ history' \in History /\ history'[h] = b
         /\ \A g \in {"missed", "crossed", "echoed", "failed"} \ {h} :
              history'[g] = history[g]
BY DEF Note, Types, History

\* What one worker does leaves the job of the other alone.
LEMMA OneJob ==
  ASSUME Types, NEW w \in Worker, NEW j, jobs' = [jobs EXCEPT ![w] = j]
  PROVE  jobs'[w] = j /\ \A v \in Worker \ {w} : jobs'[v] = jobs[v]
BY DEF Types

\* A job of the right shape comes in the place of one.
LEMMA JobsTyped ==
  ASSUME Types, Shapes, NEW w \in Worker, NEW j \in Job, Shaped(j),
         jobs' = [jobs EXCEPT ![w] = j]
  PROVE  jobs' \in [Worker -> Job] /\ \A v \in Worker : Shaped(jobs'[v])
<1>1. jobs' \in [Worker -> Job]
  BY DEF Types
<1>2. \A v \in Worker : jobs'[v] \in {j, jobs[v]}
  BY OneJob
<1> QED
  BY <1>1, <1>2 DEF Shapes

\* The jobs that begin and end: the watcher's, a scan's, an import's, and the taking
\* away of a file that was not indexed.
LEMMA JobsShaped ==
  /\ NoJob \in Job /\ Shaped(NoJob)
  /\ \A i \in BOOLEAN : LET j == [NoJob EXCEPT !.step = "waiting", !.import = i]
                        IN  j \in Job /\ Shaped(j)
  /\ LET j == [NoJob EXCEPT !.step = "waiting", !.left = Wait]
     IN  j \in Job /\ Shaped(j)
  /\ LET j == [NoJob EXCEPT !.step = "undo", !.import = TRUE]
     IN  j \in Job /\ Shaped(j)
<1>1. 0 \in 0 .. Wait /\ Wait \in 0 .. Wait
  BY FolderAssumption
<1> QED
  BY <1>1, StartTyped DEF NoJob, Job, Shaped

Base == Types /\ Counted /\ Shapes

\* Every act of a person keeps the types (the acts the watcher is there to hear).
LEMMA PersonBase == Base /\ PersonStep => Base'
<1> SUFFICES ASSUME Types, Counted, Shapes, PersonStep
             PROVE  Base'
  BY DEF Base
<1> USE FolderAssumption
<1>0. /\ acts \in Nat /\ owns \in Nat /\ owns <= MaxOwn
      /\ made.version \in Nat /\ made.version <= acts + owns
      /\ made.stamp \in Nat /\ made.stamp <= acts + owns
  BY DEF Types, Counted, Stamp
<1>a. ASSUME acts < MaxActs, acts' = acts + 1, owns' = owns
      PROVE  /\ acts' \in 0 .. MaxActs /\ owns' \in 0 .. MaxOwn
             /\ acts + owns < MaxActs + MaxOwn /\ acts' + owns' = acts + owns + 1
  BY <1>0, <1>a DEF Types
<1>b. ASSUME acts' + owns' = acts + owns + 1, made' = made
      PROVE  Counted'
  BY <1>0, <1>b DEF Counted
<1>1. CASE Save
  <2>1. acts < MaxActs /\ acts' = acts + 1 /\ owns' = owns
    BY <1>1 DEF Save
  <2>2. PICK s \in {NextStamp} \cup (IF disk.data # 0 THEN {disk.stamp} ELSE {}) :
          /\ disk' = [data |-> made.version + 1, stamp |-> s, unread |-> TRUE]
          /\ made' = [version |-> made.version + 1,
                      stamp |-> IF s = NextStamp THEN s ELSE made.stamp]
    BY <1>1 DEF Save
  <2>3. s \in Stamp
    BY <1>a, <2>1, <2>2, HandedOut DEF Types, File
  <2>4. disk' \in File /\ disk'.data \notin {0, Part}
    BY <1>a, <2>1, <2>2, <2>3, HandedOut DEF File
  <2>5. made' \in [version : 0 .. MaxActs + MaxOwn, stamp : Stamp]
    BY <1>a, <2>1, <2>2, <2>3, HandedOut DEF Types
  <2>6. Counted'
    BY <1>0, <1>a, <2>1, <2>2 DEF Counted, NextStamp
  <2>7. events' \subseteq Reports
    BY <1>1, ReportedTyped DEF Save
  <2>8. history' \in History
    <3>1. PICK b \in BOOLEAN : Note("missed", b)
      BY <1>1 DEF Save
    <3> QED
      BY <3>1, Noted
  <2>9. Types'
    BY <1>1, <1>a, <2>1, <2>4, <2>5, <2>7, <2>8 DEF Save, Types
  <2>10. Shapes'
    BY <1>1, <2>4 DEF Save, Shapes
  <2> QED
    BY <2>6, <2>9, <2>10 DEF Base
<1>2. CASE Delete
  <2>1. acts < MaxActs /\ acts' = acts + 1 /\ owns' = owns /\ disk' = Nothing
        /\ made' = made
    BY <1>2 DEF Delete
  <2>2. disk' \in File /\ ~ disk'.unread
    BY <2>1, StartTyped DEF Nothing
  <2>0. PICK what \in {"write", "remove"} :
          /\ events' = Reported(what, "person")
          /\ Note("missed", ~(running /\ Quiet /\ ~ignored /\ what = "remove"))
    BY <1>2 DEF Delete
  <2>3. events' \subseteq Reports
    BY <2>0, ReportedTyped
  <2>4. history' \in History
    <3>1. PICK b \in BOOLEAN : Note("missed", b)
      BY <2>0
    <3> QED
      BY <3>1, Noted
  <2>5. Types'
    BY <1>2, <1>a, <2>1, <2>2, <2>3, <2>4 DEF Delete, Types
  <2>6. Shapes'
    BY <1>2, <2>2 DEF Delete, Shapes
  <2> QED
    BY <1>a, <1>b, <2>1, <2>5, <2>6 DEF Base
<1>3. CASE Scan
  <2>1. acts < MaxActs /\ acts' = acts + 1 /\ owns' = owns /\ made' = made
    BY <1>3 DEF Scan
  <2>2. jobs' = [jobs EXCEPT !["caller"] = [NoJob EXCEPT !.step = "waiting",
                                                         !.import = FALSE]]
    BY <1>3 DEF Scan, Begin
  <2>3. jobs' \in [Worker -> Job] /\ \A v \in Worker : Shaped(jobs'[v])
    BY <2>2, JobsTyped, JobsShaped DEF Worker
  <2>4. history' \in History
    BY <1>3 DEF Scan, Types, History
  <2>5. Types'
    BY <1>3, <1>a, <2>1, <2>3, <2>4 DEF Scan, Types
  <2>6. Shapes'
    BY <1>3, <2>3 DEF Scan, Shapes
  <2> QED
    BY <1>a, <1>b, <2>1, <2>5, <2>6 DEF Base
<1>4. CASE Start
  <2>1. Types'
    BY <1>4, <1>a DEF Start, Types
  <2>2. Shapes'
    BY <1>4 DEF Start, Shapes
  <2> QED
    BY <1>4, <1>a, <1>b, <2>1, <2>2 DEF Start, Base
<1>5. CASE Stop
  <2>1. history' \in History
    <3>1. PICK b \in BOOLEAN : Note("missed", b)
      BY <1>5 DEF Stop
    <3> QED
      BY <3>1, Noted
  <2>2. Types'
    <3>1. age' \in 0 .. Late
      BY <1>5 DEF Stop, Types
    <3>2. events' \subseteq Reports /\ UNCHANGED <<disk, row, since, ignored, timers, jobs,
                                                  own, made>>
      BY <1>5 DEF Stop, Types
    <3>3. running' \in BOOLEAN /\ acts' \in 0 .. MaxActs /\ owns' \in 0 .. MaxOwn
      BY <1>5, <1>a DEF Stop
    <3> QED
      BY <2>1, <3>1, <3>2, <3>3 DEF Types
  <2>3. Shapes'
    BY <1>5 DEF Stop, Shapes
  <2> QED
    BY <1>5, <1>a, <1>b, <2>2, <2>3 DEF Stop, Base
<1>6. CASE Crash
  <2>1. history' \in History
    BY <1>6 DEF Crash, Types, History
  <2>2. jobs' \in [Worker -> Job] /\ \A w \in Worker : Shaped(jobs'[w])
    BY <1>6, JobsShaped DEF Crash
  <2>3. Types'
    <3>1. age' \in 0 .. Late /\ timers' \subseteq 0 .. Grace /\ events' \subseteq Reports
      BY <1>6 DEF Crash
    <3>2. own' \in Write /\ UNCHANGED <<disk, row, since, made>>
      BY <1>6, StartTyped DEF Crash
    <3>3. /\ running' \in BOOLEAN /\ ignored' \in BOOLEAN
          /\ acts' \in 0 .. MaxActs /\ owns' \in 0 .. MaxOwn
      BY <1>6, <1>a DEF Crash
    <3> QED
      BY <2>1, <2>2, <3>1, <3>2, <3>3 DEF Types
  <2>4. Shapes'
    BY <1>6, <2>2 DEF Crash, Shapes, NoWrite
  <2> QED
    BY <1>6, <1>a, <1>b, <2>3, <2>4 DEF Crash, Base
<1> QED
  BY <1>1, <1>2, <1>3, <1>4, <1>5, <1>6 DEF PersonStep

\* What the engine does in the folder of its own keeps them (import_file, pull_copy,
\* finalize_file, delete_local_copy).
LEMMA OwnBase == Base /\ (OwnStep \/ Finish) => Base'
<1> SUFFICES ASSUME Types, Counted, Shapes, OwnStep \/ Finish
             PROVE  Base'
  BY DEF Base
<1> USE FolderAssumption
<1>0. /\ acts \in Nat /\ owns \in Nat /\ acts <= MaxActs
      /\ made.version \in Nat /\ made.version <= acts + owns
      /\ made.stamp \in Nat /\ made.stamp <= acts + owns
  BY DEF Types, Counted, Stamp
<1>a. ASSUME owns < MaxOwn, owns' = owns + 1, acts' = acts
      PROVE  /\ acts' \in 0 .. MaxActs /\ owns' \in 0 .. MaxOwn
             /\ acts + owns < MaxActs + MaxOwn /\ acts' + owns' = acts + owns + 1
  BY <1>0, <1>a DEF Types
<1>g. Grace \in 0 .. Grace
  OBVIOUS
<1>1. ASSUME NEW kind \in {"pull", "push", "import"}, OwnBegin(kind)
      PROVE  Base'
  <2>1. owns < MaxOwn /\ owns' = owns + 1 /\ acts' = acts
    BY <1>1 DEF OwnBegin
  <2>2. PICK v : v = IF kind = "import" THEN made.version + 1 ELSE made.version
    OBVIOUS
  <2>3. PICK d : d = IF kind = "import" THEN made.version + 1 ELSE row.data
    OBVIOUS
  <2>4. v \in 0 .. MaxActs + MaxOwn /\ v <= made.version + 1
    BY <1>0, <1>a, <2>1, <2>2, HandedOut DEF Types
  <2>5. d \in Data
    BY <1>a, <2>1, <2>3, HandedOut DEF Types, Item
  <2>6. own' = [kind |-> kind, step |-> "writing", data |-> d]
    BY <1>1, <2>3 DEF OwnBegin
  <2>7. made' = [version |-> v, stamp |-> NextStamp]
    BY <1>1, <2>2 DEF OwnBegin
  <2>8. own' \in Write /\ own'.step # "idle"
    BY <2>5, <2>6 DEF Write
  <2>9. made' \in [version : 0 .. MaxActs + MaxOwn, stamp : Stamp]
    BY <1>a, <2>1, <2>4, <2>7, HandedOut
  <2>10. Counted'
    BY <1>0, <1>a, <2>1, <2>4, <2>7 DEF Counted, NextStamp
  <2>11. disk' = [data |-> Part, stamp |-> NextStamp, unread |-> FALSE]
    BY <1>1 DEF OwnBegin
  <2>12. disk' \in File /\ ~ disk'.unread
    <3>1. Part \in Data /\ NextStamp \in Stamp
      BY <1>a, <2>1, HandedOut DEF Data, Part
    <3> QED
      BY <2>11, <3>1 DEF File
  <2>13. events' \subseteq Reports
    BY <1>1, ReportedTyped DEF OwnBegin
  <2>14. history' \in History
    BY <1>1 DEF OwnBegin, Types, History
  <2>15. Types'
    BY <1>1, <1>a, <2>1, <2>8, <2>9, <2>12, <2>13, <2>14 DEF OwnBegin, Types
  <2>16. Shapes'
    BY <1>1, <2>8, <2>12 DEF OwnBegin, Shapes
  <2> QED
    BY <2>10, <2>15, <2>16 DEF Base
<1>2. CASE OwnGrow
  <2>1. events' \subseteq Reports
    BY <1>2, ReportedTyped DEF OwnGrow
  <2> QED
    BY <1>2, <2>1 DEF OwnGrow, Types, Counted, Shapes, Base
<1>3. CASE OwnRemove
  <2>1. owns < MaxOwn /\ owns' = owns + 1 /\ acts' = acts /\ disk' = Nothing
        /\ made' = made
    BY <1>3 DEF OwnRemove
  <2>2. disk' \in File /\ ~ disk'.unread
    BY <2>1, StartTyped DEF Nothing
  <2>3. row' \in Item /\ (row'.state = "none" => row'.data = 0)
    <3>1. row' = Unlisted \/ row' = [row EXCEPT !.state = "listed"]
      BY <1>3 DEF OwnRemove, Forgotten
    <3> QED
      BY <3>1, StartTyped DEF Unlisted, Types, Item
  <2>4. /\ events' \subseteq Reports /\ ignored' \in BOOLEAN
        /\ timers' \subseteq 0 .. Grace
    BY <1>3, <1>g, ReportedTyped DEF OwnRemove, Types
  <2>5. history' \in History
    BY <1>3 DEF OwnRemove, Types, History
  <2>6. Types'
    BY <1>3, <1>a, <2>1, <2>2, <2>3, <2>4, <2>5 DEF OwnRemove, Types
  <2>7. Shapes'
    BY <1>3, <2>2, <2>3 DEF OwnRemove, Shapes
  <2>8. Counted'
    BY <1>0, <1>a, <2>1 DEF Counted
  <2> QED
    BY <2>6, <2>7, <2>8 DEF Base
<1>4. CASE Learn
  <2>1. owns < MaxOwn /\ owns' = owns + 1 /\ acts' = acts
    BY <1>4 DEF Learn
  <2>2. row' \in Item /\ row'.state # "none"
    BY <1>4, <1>a, <2>1, HandedOut DEF Learn, Item
  <2>3. made' \in [version : 0 .. MaxActs + MaxOwn, stamp : Stamp] /\ Counted'
    BY <1>0, <1>4, <1>a, <2>1, HandedOut DEF Learn, Counted, NextStamp
  <2>4. Types'
    BY <1>4, <1>a, <2>1, <2>2, <2>3 DEF Learn, Types
  <2>5. Shapes'
    BY <1>4, <2>2 DEF Learn, Shapes
  <2> QED
    BY <2>3, <2>4, <2>5 DEF Base
<1>5. CASE OwnEnd
  <2>1. disk' \in File /\ (disk'.data \in {0, Part} => ~ disk'.unread)
    BY <1>5 DEF OwnEnd, Types, File, Write, Shapes
  <2>2. row' \in Item /\ (row'.state = "none" => row'.data = 0)
    BY <1>5 DEF OwnEnd, Types, Item, Shapes
  <2>3. own' \in Write /\ (own'.step = "idle" => own' = NoWrite)
    BY <1>5, StartTyped DEF OwnEnd, Types, Write
  <2>4. jobs' \in [Worker -> Job] /\ \A v \in Worker : Shaped(jobs'[v])
    <3>1. CASE own.kind = "import"
      <4>1. jobs' = [jobs EXCEPT !["caller"] = [NoJob EXCEPT !.step = "waiting",
                                                             !.import = TRUE]]
        BY <1>5, <3>1 DEF OwnEnd, Begin
      <4> QED
        BY <4>1, JobsTyped, JobsShaped DEF Worker
    <3>2. CASE own.kind # "import"
      BY <1>5, <3>2 DEF OwnEnd, Types, Shapes
    <3> QED
      BY <3>1, <3>2
  <2>5. events' \subseteq Reports /\ timers' \subseteq 0 .. Grace
    BY <1>5, <1>g, ReportedTyped DEF OwnEnd, Types
  <2>6. Types'
    BY <1>5, <2>1, <2>2, <2>3, <2>4, <2>5 DEF OwnEnd, Types
  <2>7. Shapes'
    BY <2>1, <2>2, <2>3, <2>4 DEF Shapes
  <2> QED
    BY <1>5, <2>6, <2>7 DEF OwnEnd, Counted, Base
<1>6. CASE OwnFail
  <2>1. history' \in History
    BY <1>6 DEF OwnFail, Types, History
  <2>2. timers' \subseteq 0 .. Grace
    BY <1>6, <1>g DEF OwnFail, Types
  <2>3. Types'
    BY <1>6, <2>1, <2>2, StartTyped DEF OwnFail, Types
  <2> QED
    BY <1>6, <2>3 DEF OwnFail, Counted, Shapes, Base
<1>7. CASE OwnClaim
  <2>1. row' \in Item /\ (row'.state = "none" => row'.data = 0)
    BY <1>7 DEF OwnClaim, Types, Item, Shapes
  <2>2. Types'
    BY <1>7, <2>1, StartTyped DEF OwnClaim, Types
  <2> QED
    BY <1>7, <2>1, <2>2 DEF OwnClaim, Counted, Shapes, Base
<1> QED
  BY <1>1, <1>2, <1>3, <1>4, <1>5, <1>6, <1>7 DEF OwnStep, Finish

\* An index that gives up, and one that goes on.
LEMMA GivenUp ==
  ASSUME Types, Shapes, NEW w \in Worker, GivesUp(w)
  PROVE  /\ jobs' \in [Worker -> Job] /\ \A v \in Worker : Shaped(jobs'[v])
         /\ history' \in History
<1>1. history' \in History
  BY DEF GivesUp, Types, History
<1> QED
  BY <1>1, JobsTyped, JobsShaped DEF GivesUp, Becomes

\* What a job puts in the catalog is an item.
LEMMA PutTyped ==
  ASSUME Types, NEW j \in Job, NEW d \in Data
  PROVE  Put(j, d) \in Item /\ Put(j, d).state # "none" /\ Put(j, d).data = d
BY DEF Put, Types, Item, Job

\* Every section of an index keeps them (Indexer::index).
LEMMA IndexBase == Base /\ Index => Base'
<1> SUFFICES ASSUME Types, Counted, Shapes, NEW w \in Worker,
                    \/ IndexLook(w) \/ IndexLookAgain(w) \/ MakeWay(w) \/ IndexRead(w)
                    \/ IndexClaim(w) \/ IndexLookFails(w) \/ MakeWayFails(w)
                    \/ IndexReadFails(w) \/ IndexClaimFails(w) \/ Undo(w)
             PROVE  Base'
  BY DEF Base, Index
<1> USE FolderAssumption
<1>g. Grace \in 0 .. Grace
  OBVIOUS
<1>j. jobs[w] \in Job /\ Shaped(jobs[w])
  BY DEF Types, Shapes
<1>1. CASE IndexLook(w)
  <2> DEFINE j == [jobs[w] EXCEPT !.stamp = disk.stamp,
                     !.step = IF row.state = "listed" THEN "rename" ELSE "lookup"]
  <2>1. j \in Job
    BY <1>j DEF Types, File, Job
  <2>2. Shaped(j)
    BY <1>j DEF Job, Shaped
  <2>3. jobs' = [jobs EXCEPT ![w] = j]
    BY <1>1 DEF IndexLook, Becomes
  <2> HIDE DEF j
  <2>4. jobs' \in [Worker -> Job] /\ \A v \in Worker : Shaped(jobs'[v])
    BY <2>1, <2>2, <2>3, JobsTyped
  <2> QED
    BY <1>1, <2>4 DEF IndexLook, Types, Counted, Shapes, Base
<1>2. CASE IndexLookAgain(w)
  <2> DEFINE j == [jobs[w] EXCEPT !.step = "read", !.sees = row.state, !.known = row.data]
  <2>1. j \in Job
    BY <1>j DEF Types, Item, Job
  <2>2. Shaped(j)
    BY <1>j DEF Job, Shaped, Shapes
  <2>3. jobs' = [jobs EXCEPT ![w] = j]
    BY <1>2 DEF IndexLookAgain, Becomes
  <2> HIDE DEF j
  <2>4. jobs' \in [Worker -> Job] /\ \A v \in Worker : Shaped(jobs'[v])
    BY <2>1, <2>2, <2>3, JobsTyped
  <2> QED
    BY <1>2, <2>4 DEF IndexLookAgain, Types, Counted, Shapes, Base
<1>3. CASE MakeWay(w)
  <2>1. jobs' \in [Worker -> Job] /\ \A v \in Worker : Shaped(jobs'[v])
    BY <1>3, JobsTyped, JobsShaped DEF MakeWay, Becomes
  <2>2. disk' \in File /\ ~ disk'.unread
    BY <1>3, StartTyped DEF MakeWay, Nothing
  <2>3. events' \subseteq Reports /\ timers' \subseteq 0 .. Grace /\ ignored'
    BY <1>3, <1>g, ReportedTyped DEF MakeWay, Mark, Types
  <2>4. history' \in History
    <3>1. PICK b \in BOOLEAN : Note("crossed", b)
      BY <1>3 DEF MakeWay, Types, History
    <3> QED
      BY <3>1, Noted
  <2>5. Types'
    BY <1>3, <2>1, <2>2, <2>3, <2>4 DEF MakeWay, Types
  <2> QED
    BY <1>3, <2>1, <2>2, <2>5 DEF MakeWay, Counted, Shapes, Base
<1>4. CASE IndexRead(w)
  <2>1. row' \in Item /\ row'.state # "none"
    BY <1>4, <1>j, PutTyped DEF IndexRead, Job
  <2>2. disk' = [disk EXCEPT !.unread = FALSE]
    BY <1>4 DEF IndexRead
  <2>3. disk' \in File /\ ~ disk'.unread
    BY <2>2 DEF Types, File
  <2> DEFINE j == [jobs[w] EXCEPT !.step = "claim", !.data = disk.data]
  <2>4. j \in Job
    BY <1>j DEF Types, File, Job
  <2>5. Shaped(j)
    BY <1>j DEF Job, Shaped
  <2>6. jobs' = [jobs EXCEPT ![w] = NoJob] \/ jobs' = [jobs EXCEPT ![w] = j]
    BY <1>4 DEF IndexRead, Becomes
  <2> HIDE DEF j
  <2>7. jobs' \in [Worker -> Job] /\ \A v \in Worker : Shaped(jobs'[v])
    BY <2>4, <2>5, <2>6, JobsTyped, JobsShaped
  <2>8. UNCHANGED <<events, since, age, ignored, timers, own, running, made, acts, owns,
                    history>>
    BY <1>4 DEF IndexRead
  <2>9. Types'
    BY <2>1, <2>3, <2>7, <2>8 DEF Types
  <2> QED
    BY <2>1, <2>3, <2>7, <2>8, <2>9 DEF Counted, Shapes, Base
<1>5. CASE IndexClaim(w)
  <2>1. jobs' \in [Worker -> Job] /\ \A v \in Worker : Shaped(jobs'[v])
    BY <1>5, JobsTyped, JobsShaped DEF IndexClaim, Becomes
  <2>2. row' \in Item /\ row'.state # "none"
    BY <1>5, <1>j DEF IndexClaim, Item, Job
  <2> QED
    BY <1>5, <2>1, <2>2 DEF IndexClaim, Types, Counted, Shapes, Base
<1>6. CASE IndexLookFails(w)
  <2>1. /\ jobs' \in [Worker -> Job] /\ \A v \in Worker : Shaped(jobs'[v])
        /\ history' \in History
    BY <1>6, GivenUp DEF IndexLookFails
  <2> QED
    BY <1>6, <2>1 DEF IndexLookFails, Types, Counted, Shapes, Base
<1>7. CASE MakeWayFails(w)
  <2>1. jobs' \in [Worker -> Job] /\ \A v \in Worker : Shaped(jobs'[v])
    BY <1>7, JobsTyped, JobsShaped DEF MakeWayFails, Becomes
  <2>2. history' \in History
    BY <1>7 DEF MakeWayFails, Types, History
  <2>3. timers' \subseteq 0 .. Grace /\ ignored'
    BY <1>7, <1>g DEF MakeWayFails, Mark, Types
  <2>4. Types'
    BY <1>7, <2>1, <2>2, <2>3 DEF MakeWayFails, Types
  <2> QED
    BY <1>7, <2>1, <2>4 DEF MakeWayFails, Counted, Shapes, Base
<1>8. CASE IndexReadFails(w)
  <2>1. /\ jobs' \in [Worker -> Job] /\ \A v \in Worker : Shaped(jobs'[v])
        /\ history' \in History
    BY <1>8, GivenUp DEF IndexReadFails
  <2>2. row' = row \/ row' = Put(jobs[w], jobs[w].known)
    BY <1>8 DEF IndexReadFails
  <2>3. row' \in Item /\ (row'.state = "none" => row'.data = 0)
    BY <1>j, <2>2, PutTyped DEF Job, Types, Shapes
  <2> QED
    BY <1>8, <2>1, <2>3 DEF IndexReadFails, Types, Counted, Shapes, Base
<1>9. CASE IndexClaimFails(w)
  <2>1. /\ jobs' \in [Worker -> Job] /\ \A v \in Worker : Shaped(jobs'[v])
        /\ history' \in History
    BY <1>9, GivenUp DEF IndexClaimFails
  <2>2. row' = row \/ row' = Put(jobs[w], jobs[w].data)
    BY <1>9 DEF IndexClaimFails
  <2>3. row' \in Item /\ (row'.state = "none" => row'.data = 0)
    BY <1>j, <2>2, PutTyped DEF Job, Types, Shapes
  <2> QED
    BY <1>9, <2>1, <2>3 DEF IndexClaimFails, Types, Counted, Shapes, Base
<1>10. CASE Undo(w)
  <2>1. jobs' \in [Worker -> Job] /\ \A v \in Worker : Shaped(jobs'[v])
    BY <1>10, JobsTyped, JobsShaped DEF Undo, Becomes
  <2>2. disk' \in File /\ ~ disk'.unread
    BY <1>10, StartTyped DEF Undo, Nothing
  <2>3. events' \subseteq Reports
    BY <1>10, ReportedTyped DEF Undo, Types
  <2> QED
    BY <1>10, <2>1, <2>2, <2>3 DEF Undo, Types, Counted, Shapes, Base
<1> QED
  BY <1>1, <1>2, <1>3, <1>4, <1>5, <1>6, <1>7, <1>8, <1>9, <1>10

\* The handling of events and the passing of time keep them (handle_fs_event).
LEMMA HandleBase == Base /\ (Handle \/ Unmark \/ Tick) => Base'
<1> SUFFICES ASSUME Types, Counted, Shapes, Handle \/ Unmark \/ Tick
             PROVE  Base'
  BY DEF Base
<1> USE FolderAssumption
<1>1. ASSUME NEW who \in {"person", "engine"}, HearWrite(who)
      PROVE  Base'
  <2>1. CASE Taken
    <3>1. PICK w \in Worker : jobs' = [jobs EXCEPT ![w] =
            [NoJob EXCEPT !.step = "waiting", !.left = Wait]]
      BY <1>1, <2>1 DEF HearWrite, Becomes
    <3>2. jobs' \in [Worker -> Job] /\ \A v \in Worker : Shaped(jobs'[v])
      BY <3>1, JobsTyped, JobsShaped
    <3>3. history' \in History
      <4>1. PICK b \in BOOLEAN : Note("echoed", b)
        BY <1>1, <2>1 DEF HearWrite
      <4> QED
        BY <4>1, Noted
    <3>4. since' \in 0 .. Debounce
      BY <1>1, <2>1 DEF HearWrite
    <3>5. Types'
      BY <1>1, <3>2, <3>3, <3>4 DEF HearWrite, Types
    <3>6. Shapes'
      BY <1>1, <3>2 DEF HearWrite, Shapes
    <3> QED
      BY <1>1, <3>5, <3>6 DEF HearWrite, Counted, Base
  <2>2. CASE ~ Taken
    BY <1>1, <2>2 DEF HearWrite, Types, Counted, Shapes, Base
  <2> QED
    BY <2>1, <2>2
<1>2. ASSUME NEW who \in {"person", "engine"}, HearRemove(who)
      PROVE  Base'
  <2>1. CASE ignored
    BY <1>2, <2>1 DEF HearRemove, Types, Counted, Shapes, Base
  <2>2. CASE ~ ignored
    <3>1. row' = row \/ row' = Unlisted \/ row' = [row EXCEPT !.state = "listed"]
      BY <1>2, <2>2 DEF HearRemove, Forgotten
    <3>2. row' \in Item /\ (row'.state = "none" => row'.data = 0)
      BY <3>1, StartTyped DEF Unlisted, Types, Item, Shapes
    <3>3. history' \in History
      <4>1. PICK b \in BOOLEAN : Note("echoed", b)
        BY <1>2, <2>2 DEF HearRemove
      <4> QED
        BY <4>1, Noted
    <3>4. Types'
      BY <1>2, <3>2, <3>3 DEF HearRemove, Types
    <3> QED
      BY <1>2, <3>2, <3>4 DEF HearRemove, Counted, Shapes, Base
  <2> QED
    BY <2>1, <2>2
<1>3. CASE Unmark
  <2>1. timers' \subseteq 0 .. Grace
    BY <1>3 DEF Unmark, Types
  <2> QED
    BY <1>3, <2>1 DEF Unmark, Types, Counted, Shapes, Base
<1>4. CASE Tick
  <2>1. since' \in 0 .. Debounce
    BY <1>4 DEF Tick, Types
  <2>2. timers' \subseteq 0 .. Grace
    BY <1>4 DEF Tick, Types
  <2>3. age' \in 0 .. Late
    BY <1>4 DEF Tick, Types
  <2>4. jobs' = [w \in Worker |->
          IF jobs[w].left > 0 THEN [jobs[w] EXCEPT !.left = jobs[w].left - 1]
          ELSE jobs[w]]
    BY <1>4 DEF Tick
  <2>5. ASSUME NEW j \in Job, Shaped(j)
        PROVE  LET k == IF j.left > 0 THEN [j EXCEPT !.left = j.left - 1] ELSE j
               IN  k \in Job /\ Shaped(k)
    <3>1. j = NoJob => j.left = 0
      BY DEF NoJob
    <3> QED
      BY <2>5, <3>1 DEF Job, Shaped
  <2>6. \A w \in Worker : jobs[w] \in Job /\ Shaped(jobs[w])
    BY DEF Types, Shapes
  <2>7. \A w \in Worker : jobs'[w] \in Job /\ Shaped(jobs'[w])
    BY <2>4, <2>5, <2>6
  <2>8. jobs' \in [Worker -> Job]
    BY <2>4, <2>7
  <2>9. Types'
    BY <1>4, <2>1, <2>2, <2>3, <2>8 DEF Tick, Types
  <2>10. Shapes'
    BY <1>4, <2>7 DEF Tick, Shapes
  <2> QED
    BY <1>4, <2>9, <2>10 DEF Tick, Counted, Base
<1> QED
  BY <1>1, <1>2, <1>3, <1>4 DEF Handle

\* Every step keeps the types, the count and the shapes.
LEMMA BaseStep == Base /\ [Next]_vars => Base'
<1>1. Base /\ UNCHANGED vars => Base'
  BY DEF vars, Base, Types, Counted, Shapes
<1> QED
  BY <1>1, PersonBase, OwnBase, IndexBase, HandleBase DEF Next

LEMMA BaseInit == Init => Base
<1> SUFFICES ASSUME Init
             PROVE  Base
  OBVIOUS
<1> USE FolderAssumption
<1>1. disk \in File /\ row \in Item /\ own \in Write /\ jobs \in [Worker -> Job]
  BY StartTyped DEF Init
<1>2. /\ events \subseteq Reports /\ timers \subseteq 0 .. Grace
      /\ since \in 0 .. Debounce /\ age \in 0 .. Late
      /\ acts \in 0 .. MaxActs /\ owns \in 0 .. MaxOwn
      /\ made \in [version : 0 .. MaxActs + MaxOwn, stamp : Stamp]
  BY StartTyped DEF Init
<1>3. ignored \in BOOLEAN /\ running \in BOOLEAN
  BY DEF Init
<1>4. history \in History
  BY DEF Init, History
<1>5. Counted
  BY DEF Init, Counted
<1>6. Shapes
  BY JobsShaped DEF Init, Shapes, NoWrite, Unlisted, Nothing
<1> QED
  BY <1>1, <1>2, <1>3, <1>4, <1>5, <1>6 DEF Types, Base

\* The watcher and the engine keep the types of what they know of the path: the
\* waits stay within their bounds, and no more versions are known than were made.
THEOREM TypeCorrect == Spec => []TypeOK
<1>1. Base => TypeOK
  BY SameTypes DEF Base
<1> QED
  BY <1>1, BaseInit, BaseStep, PTL DEF Spec

-----------------------------------------------------------------------------
(* The contents anybody knows of.                                          *)

\* Contents come from those there were, or are handed out.
LEMMA HandedOn ==
  ASSUME Types, Types', Handed, made.version <= made'.version, NEW S,
         S = Contents \cup {0, Part, made'.version},
         disk'.data \in S, row'.data \in S, own'.data \in S,
         \A w \in Worker : jobs'[w].known \in S /\ jobs'[w].data \in S
  PROVE  Handed'
<1>1. Contents' \subseteq S
  BY DEF Contents
<1>2. Contents \subseteq Data
  BY DEF Contents, Types, File, Item, Write, Job
<1>3. made.version \in Nat /\ made'.version \in Nat
  BY DEF Types
<1>4. \A d \in S : d <= made'.version \/ d = Part
  <2>1. \A d \in Contents : d \in Nat /\ (d <= made.version \/ d = Part)
    BY <1>2, FolderAssumption DEF Handed, Data, Part
  <2> QED
    BY <1>3, <2>1
<1>5. \A d \in Contents' : d <= made'.version \/ d = Part
  BY <1>1, <1>4
<1> QED
  BY <1>5 DEF Handed

\* Nobody comes to know of a content that was not handed out.
LEMMA HandedStep == Base /\ Base' /\ Handed /\ [Next]_vars => Handed'
<1> SUFFICES ASSUME Types, Shapes, Types', Handed, Next
             PROVE  Handed'
  <2>1. Handed /\ UNCHANGED vars => Handed'
    BY DEF vars, Handed, Contents
  <2> QED
    BY <2>1 DEF Base
<1> DEFINE S == Contents \cup {0, Part, made'.version}
<1>s. /\ disk.data \in S /\ row.data \in S /\ own.data \in S
      /\ \A w \in Worker : jobs[w].known \in S /\ jobs[w].data \in S
      /\ 0 \in S /\ Part \in S /\ made'.version \in S
  BY DEF Contents
<1>n. /\ NoJob.known = 0 /\ NoJob.data = 0 /\ NoWrite.data = 0
      /\ Nothing.data = 0 /\ Unlisted.data = 0
  BY DEF NoJob, NoWrite, Nothing, Unlisted
<1>t. disk \in File /\ row \in Item /\ own \in Write /\ made.version \in Nat
      /\ \A w \in Worker : jobs[w] \in Job
  BY DEF Types
<1>h. ASSUME disk'.data \in S, row'.data \in S, own'.data \in S,
             \A w \in Worker : jobs'[w].known \in S /\ jobs'[w].data \in S,
             made.version <= made'.version
      PROVE  Handed'
  BY <1>h, HandedOn
<1>j. ASSUME NEW w \in Worker, NEW j, jobs' = [jobs EXCEPT ![w] = j],
             j.known \in S, j.data \in S
      PROVE  \A v \in Worker : jobs'[v].known \in S /\ jobs'[v].data \in S
  <2>1. \A v \in Worker : jobs'[v] \in {j, jobs[v]}
    BY <1>j, OneJob
  <2> QED
    BY <1>j, <1>s, <2>1
<1> HIDE DEF S
<1>e. jobs' = jobs => \A v \in Worker : jobs'[v].known \in S /\ jobs'[v].data \in S
  BY <1>s
<1>m. made' = made => made.version <= made'.version
  BY <1>t
<1>1. CASE PersonStep
  <2>1. CASE Save
    <3>1. disk'.data \in S /\ made.version <= made'.version
      BY <1>s, <1>t, <2>1 DEF Save
    <3> QED
      BY <1>e, <1>h, <1>s, <2>1, <3>1 DEF Save
  <2>2. CASE Delete
    <3>1. disk'.data \in S
      BY <1>n, <1>s, <2>2 DEF Delete
    <3> QED
      BY <1>e, <1>h, <1>m, <1>s, <2>2, <3>1 DEF Delete
  <2>3. CASE Scan
    <3> DEFINE j == [NoJob EXCEPT !.step = "waiting", !.import = FALSE]
    <3>1. j.known \in S /\ j.data \in S /\ jobs' = [jobs EXCEPT !["caller"] = j]
      BY <1>s, <2>3 DEF Scan, Begin, NoJob
    <3> HIDE DEF j
    <3>2. \A v \in Worker : jobs'[v].known \in S /\ jobs'[v].data \in S
      BY <1>j, <3>1 DEF Worker
    <3> QED
      BY <1>h, <1>m, <1>s, <2>3, <3>2 DEF Scan
  <2>4. CASE Start \/ Stop
    BY <1>e, <1>h, <1>m, <1>s, <2>4 DEF Start, Stop
  <2>5. CASE Crash
    <3>1. own'.data \in S /\ \A v \in Worker : jobs'[v].known \in S /\ jobs'[v].data \in S
      BY <1>n, <1>s, <2>5 DEF Crash
    <3> QED
      BY <1>h, <1>m, <1>s, <2>5, <3>1 DEF Crash
  <2> QED
    BY <1>1, <2>1, <2>2, <2>3, <2>4, <2>5 DEF PersonStep
<1>2. CASE OwnStep \/ Finish
  <2>1. ASSUME NEW kind \in {"pull", "push", "import"}, OwnBegin(kind)
        PROVE  Handed'
    <3>1. own'.data \in S /\ disk'.data \in S /\ made.version <= made'.version
      BY <1>s, <1>t, <2>1 DEF OwnBegin
    <3> QED
      BY <1>e, <1>h, <1>s, <2>1, <3>1 DEF OwnBegin
  <2>2. CASE OwnGrow
    BY <1>e, <1>h, <1>m, <1>s, <2>2 DEF OwnGrow
  <2>3. CASE OwnRemove
    <3>1. row' = Unlisted \/ row' = [row EXCEPT !.state = "listed"]
      BY <2>3 DEF OwnRemove, Forgotten
    <3>2. row'.data \in S
      BY <1>n, <1>s, <1>t, <3>1 DEF Item
    <3>3. disk'.data \in S
      BY <1>n, <1>s, <2>3 DEF OwnRemove
    <3> QED
      BY <1>e, <1>h, <1>m, <1>s, <2>3, <3>2, <3>3 DEF OwnRemove
  <2>4. CASE Learn
    <3>1. row'.data \in S /\ made.version <= made'.version
      BY <1>s, <1>t, <2>4 DEF Learn
    <3> QED
      BY <1>e, <1>h, <1>s, <2>4, <3>1 DEF Learn
  <2>5. CASE OwnEnd
    <3>1. disk'.data \in S
      BY <1>s, <1>t, <2>5 DEF OwnEnd, File
    <3>2. row'.data \in S
      BY <1>s, <1>t, <2>5 DEF OwnEnd, Item
    <3>3. own'.data \in S
      BY <1>n, <1>s, <1>t, <2>5 DEF OwnEnd, Write
    <3>4. \A v \in Worker : jobs'[v].known \in S /\ jobs'[v].data \in S
      <4> DEFINE j == [NoJob EXCEPT !.step = "waiting", !.import = TRUE]
      <4>1. j.known \in S /\ j.data \in S
        BY <1>s DEF NoJob
      <4>2. jobs' = jobs \/ jobs' = [jobs EXCEPT !["caller"] = j]
        BY <2>5 DEF OwnEnd, Begin
      <4> HIDE DEF j
      <4> QED
        BY <1>e, <1>j, <4>1, <4>2 DEF Worker
    <3> QED
      BY <1>h, <1>m, <2>5, <3>1, <3>2, <3>3, <3>4 DEF OwnEnd
  <2>6. CASE OwnFail
    BY <1>e, <1>h, <1>m, <1>n, <1>s, <2>6 DEF OwnFail
  <2>7. CASE OwnClaim
    <3>1. row'.data \in S
      BY <1>s, <1>t, <2>7 DEF OwnClaim, Item
    <3> QED
      BY <1>e, <1>h, <1>m, <1>n, <1>s, <2>7, <3>1 DEF OwnClaim
  <2> QED
    BY <1>2, <2>1, <2>2, <2>3, <2>4, <2>5, <2>6, <2>7 DEF OwnStep, Finish
<1>3. ASSUME NEW w \in Worker,
             \/ IndexLook(w) \/ IndexLookAgain(w) \/ MakeWay(w) \/ IndexRead(w)
             \/ IndexClaim(w) \/ IndexLookFails(w) \/ MakeWayFails(w)
             \/ IndexReadFails(w) \/ IndexClaimFails(w) \/ Undo(w)
      PROVE  Handed'
  <2>1. own' = own /\ made' = made
    BY <1>3 DEF IndexLook, IndexLookAgain, MakeWay, IndexRead, IndexClaim, IndexLookFails,
                MakeWayFails, IndexReadFails, IndexClaimFails, Undo
  <2>2. disk' = disk \/ disk' = Nothing \/ disk' = [disk EXCEPT !.unread = FALSE]
    BY <1>3 DEF IndexLook, IndexLookAgain, MakeWay, IndexRead, IndexClaim, IndexLookFails,
                MakeWayFails, IndexReadFails, IndexClaimFails, Undo
  <2>3. disk'.data \in S
    BY <1>n, <1>s, <1>t, <2>2 DEF File
  <2>4. row' = row \/ row'.data \in {jobs[w].known, jobs[w].data}
    BY <1>3 DEF IndexLook, IndexLookAgain, MakeWay, IndexRead, IndexClaim, IndexLookFails,
                MakeWayFails, IndexReadFails, IndexClaimFails, Undo, Put
  <2>5. row'.data \in S
    BY <1>s, <2>4
  <2>6. PICK j : /\ jobs' = [jobs EXCEPT ![w] = j]
                 /\ \/ j = NoJob
                    \/ j = [NoJob EXCEPT !.step = "undo", !.import = TRUE]
                    \/ j = [jobs[w] EXCEPT !.stamp = disk.stamp,
                              !.step = IF row.state = "listed" THEN "rename" ELSE "lookup"]
                    \/ j = [jobs[w] EXCEPT !.step = "read", !.sees = row.state,
                                           !.known = row.data]
                    \/ j = [jobs[w] EXCEPT !.step = "claim", !.data = disk.data]
    BY <1>3 DEF IndexLook, IndexLookAgain, MakeWay, IndexRead, IndexClaim, IndexLookFails,
                MakeWayFails, IndexReadFails, IndexClaimFails, Undo, GivesUp, Becomes
  <2>7. j.known \in S /\ j.data \in S
    <3>1. jobs[w] \in Job /\ jobs[w].known \in S /\ jobs[w].data \in S
      BY <1>s, <1>t
    <3>2. CASE j = NoJob
      BY <1>n, <1>s, <3>2
    <3>6. CASE j = [NoJob EXCEPT !.step = "undo", !.import = TRUE]
      BY <1>s, <3>6 DEF NoJob
    <3>3. CASE j = [jobs[w] EXCEPT !.step = "read", !.sees = row.state, !.known = row.data]
      BY <1>s, <3>1, <3>3 DEF Job
    <3>4. CASE j = [jobs[w] EXCEPT !.step = "claim", !.data = disk.data]
      BY <1>s, <3>1, <3>4 DEF Job
    <3>5. CASE j = [jobs[w] EXCEPT !.stamp = disk.stamp,
                      !.step = IF row.state = "listed" THEN "rename" ELSE "lookup"]
      BY <3>1, <3>5 DEF Job
    <3> QED
      BY <2>6, <3>2, <3>3, <3>4, <3>5, <3>6
  <2> QED
    BY <1>h, <1>j, <1>m, <1>s, <2>1, <2>3, <2>5, <2>6, <2>7
<1>4. CASE Handle \/ Unmark \/ Tick
  <2>1. ASSUME NEW who \in {"person", "engine"}, HearWrite(who)
        PROVE  Handed'
    <3>1. \A v \in Worker : jobs'[v].known \in S /\ jobs'[v].data \in S
      <4>1. CASE Taken
        <5> DEFINE j == [NoJob EXCEPT !.step = "waiting", !.left = Wait]
        <5>1. j.known \in S /\ j.data \in S
          BY <1>s DEF NoJob
        <5>2. PICK w \in Worker : jobs' = [jobs EXCEPT ![w] = j]
          BY <2>1, <4>1 DEF HearWrite, Becomes
        <5> HIDE DEF j
        <5> QED
          BY <1>j, <5>1, <5>2
      <4>2. CASE ~ Taken
        BY <1>e, <2>1, <4>2 DEF HearWrite
      <4> QED
        BY <4>1, <4>2
    <3> QED
      BY <1>h, <1>m, <1>s, <2>1, <3>1 DEF HearWrite
  <2>2. ASSUME NEW who \in {"person", "engine"}, HearRemove(who)
        PROVE  Handed'
    <3>1. row' = row \/ row' = Unlisted \/ row' = [row EXCEPT !.state = "listed"]
      BY <2>2 DEF HearRemove, Forgotten
    <3>2. row'.data \in S
      BY <1>n, <1>s, <1>t, <3>1 DEF Item
    <3> QED
      BY <1>e, <1>h, <1>m, <1>s, <2>2, <3>2 DEF HearRemove
  <2>3. CASE Unmark
    BY <1>e, <1>h, <1>m, <1>s, <2>3 DEF Unmark
  <2>4. CASE Tick
    <3>1. \A w \in Worker : jobs'[w] = IF jobs[w].left > 0
                                       THEN [jobs[w] EXCEPT !.left = jobs[w].left - 1]
                                       ELSE jobs[w]
      BY <2>4 DEF Tick
    <3>2. \A w \in Worker : jobs'[w].known = jobs[w].known /\ jobs'[w].data = jobs[w].data
      BY <1>t, <3>1 DEF Job
    <3> QED
      BY <1>h, <1>m, <1>s, <2>4, <3>2 DEF Tick
  <2> QED
    BY <1>4, <2>1, <2>2, <2>3, <2>4 DEF Handle
<1> QED
  BY <1>1, <1>2, <1>3, <1>4 DEF Next, Index

-----------------------------------------------------------------------------
(* No echo.                                                                *)

\* What Apart speaks of is untouched.
LEMMA ApartUntouched ==
  ASSUME Apart, UNCHANGED <<disk, row, events, age, ignored, timers, jobs, own>>,
         history'.crossed = history.crossed, history'.echoed = history.echoed
  PROVE  Apart'
BY DEF Apart, AllIdle, Recent

\* A part of a file is no version, and the grace time is not over at once, nor before
\* what it was set for is reported.
LEMMA Bounds ==
  /\ Part # 0 /\ Grace # 0 /\ (\A t \in 0 .. Grace : t = Grace => t # 0)
  /\ age \in 0 .. Late => Recent(Grace) /\ ~ Recent(0)
BY FolderAssumption DEF Part, Recent

\* What waits of the engine's waits as long as it did, when nothing new is reported.
LEMMA Waits ==
  ASSUME events' \subseteq events,
         age' = age \/ age' = IF events' \cap ByEngine = {} THEN 0 ELSE age
  PROVE  \A what \in {"write", "remove"} : <<what, "engine">> \in events' =>
           <<what, "engine">> \in events /\ age' = age
BY DEF ByEngine

\* Noting what was missed leaves the rest of the history alone.
LEMMA MissedNoted ==
  ASSUME Types, NEW b, Note("missed", b)
  PROVE  UNCHANGED <<history.crossed, history.echoed>>
BY DEF Note, Types, History

\* Every act of a person keeps Apart: what the engine did before is over, or the act
\* waits for its own turn.
LEMMA PersonApart == Base /\ Base' /\ Apart /\ PersonStep => Apart'
<1> SUFFICES ASSUME Types, Counted, Shapes, Base', Apart, PersonStep
             PROVE  Apart'
  BY DEF Base
<1> USE FolderAssumption
<1>1. CASE Save
  <2>1. UNCHANGED <<history.crossed, history.echoed>>
    BY <1>1, MissedNoted DEF Save
  <2>2. disk'.data # Part
    <3>1. acts < MaxActs /\ disk'.data = made.version + 1
      BY <1>1 DEF Save
    <3>2. acts + owns < MaxActs + MaxOwn
      BY <3>1 DEF Types
    <3> QED
      BY <3>1, <3>2, HandedOut
  <2>3. \A what \in {"write", "remove"} :
          <<what, "engine">> \in events' => <<what, "engine">> \in events
    BY <1>1 DEF Save, Reported
  <2> QED
    BY <1>1, <2>1, <2>2, <2>3 DEF Save, Apart, AllIdle, Recent
<1>2. CASE Delete
  <2>0. PICK how \in {"write", "remove"} :
          /\ events' = Reported(how, "person")
          /\ Note("missed", ~(running /\ Quiet /\ ~ignored /\ how = "remove"))
    BY <1>2 DEF Delete
  <2>1. UNCHANGED <<history.crossed, history.echoed>>
    BY <2>0, MissedNoted
  <2>2. disk'.data # Part
    BY <1>2, Bounds DEF Delete, Nothing
  <2>3. \A what \in {"write", "remove"} :
          <<what, "engine">> \in events' => <<what, "engine">> \in events
    BY <2>0 DEF Reported
  <2> QED
    BY <1>2, <2>1, <2>2, <2>3 DEF Delete, Apart, AllIdle, Recent
<1>3. CASE Scan
  <2>1. /\ history'.echoed = history.echoed
        /\ history'.crossed = (history.crossed \/ own # NoWrite)
    BY <1>3 DEF Scan, Types, History
  <2>2. PICK j : j = [NoJob EXCEPT !.step = "waiting", !.import = FALSE]
    OBVIOUS
  <2>3. jobs' = [jobs EXCEPT !["caller"] = j]
    BY <1>3, <2>2 DEF Scan, Begin
  <2>4. ~ j.import /\ j.known # Part /\ j.data # Part
    BY <2>2, Bounds DEF NoJob
  <2>5. jobs'["caller"] = j /\ \A v \in Worker \ {"caller"} : jobs'[v] = jobs[v]
    BY <2>3 DEF Types, Worker
  <2>6. own = NoWrite => own.step # "writing"
    BY DEF NoWrite
  <2> QED
    BY <1>3, <2>1, <2>4, <2>5, <2>6 DEF Scan, Apart, Recent
<1>4. CASE Start
  BY <1>4, ApartUntouched DEF Start
<1>5. CASE Stop
  <2>1. UNCHANGED <<history.crossed, history.echoed>>
    BY <1>5, MissedNoted DEF Stop
  <2>2. events' \subseteq events
    BY <1>5 DEF Stop
  <2>3. \A what \in {"write", "remove"} : <<what, "engine">> \in events' =>
          <<what, "engine">> \in events /\ age' = age
    BY <1>5, <2>2, Waits DEF Stop
  <2>4. UNCHANGED <<disk, row, ignored, timers, jobs, own>>
    BY <1>5 DEF Stop
  <2> QED
    BY <2>1, <2>2, <2>3, <2>4 DEF Apart, AllIdle, Recent
<1>6. CASE Crash
  <2>1. /\ history'.echoed = history.echoed
        /\ history'.crossed = (history.crossed \/ own # NoWrite)
    BY <1>6 DEF Crash, Types, History
  <2>2. \A w \in Worker : jobs'[w] = NoJob
    BY <1>6 DEF Crash
  <2>3. own = NoWrite => own.step # "writing"
    BY DEF NoWrite
  <2>4. /\ ~ NoJob.import /\ NoJob.known # Part /\ NoJob.data # Part
        /\ NoWrite.data # Part /\ NoWrite.step # "writing"
    BY Bounds DEF NoJob, NoWrite
  <2> QED
    BY <1>6, <2>1, <2>2, <2>3, <2>4 DEF Crash, Apart, Recent
<1> QED
  BY <1>1, <1>2, <1>3, <1>4, <1>5, <1>6 DEF PersonStep

\* What the engine does of its own keeps Apart (SelfWrites in ignore.rs): an act that
\* begins while the one before is still ignored crosses it.
LEMMA OwnApart == Base /\ Base' /\ Apart /\ (OwnStep \/ Finish) => Apart'
<1> SUFFICES ASSUME Types, Counted, Shapes, Base', Apart, OwnStep \/ Finish,
                    ~ history'.crossed
             PROVE  Apart'
  BY DEF Base, Apart
<1> USE FolderAssumption
<1>n. /\ ~ NoJob.import /\ NoJob.known # Part /\ NoJob.data # Part
      /\ NoWrite.data # Part /\ NoWrite.step # "writing"
  BY Bounds DEF NoJob, NoWrite
<1>1. ASSUME NEW kind \in {"pull", "push", "import"}, OwnBegin(kind)
      PROVE  Apart'
  <2>1. /\ history'.echoed = history.echoed
        /\ history'.crossed = (history.crossed \/ Crossing)
    BY <1>1 DEF OwnBegin, Types, History
  <2>2. ~ history.crossed /\ events = {} /\ AllIdle /\ timers = {}
    BY <2>1 DEF Crossing
  <2>3. own'.data # Part /\ own'.step = "writing"
    <3>1. owns < MaxOwn /\ own'.data = IF kind = "import" THEN made.version + 1 ELSE row.data
      BY <1>1 DEF OwnBegin
    <3>2. acts + owns < MaxActs + MaxOwn
      BY <3>1 DEF Types
    <3>3. made.version + 1 # Part /\ row.data # Part
      BY <2>2, <3>2, HandedOut DEF Apart
    <3> QED
      BY <1>1, <3>1, <3>3 DEF OwnBegin
  <2>4. ignored' /\ timers' = {} /\ jobs' = jobs /\ row' = row
    BY <1>1, <2>2 DEF OwnBegin
  <2>5. \A w \in Worker : jobs[w] = NoJob
    BY <2>2 DEF AllIdle
  <2> QED
    BY <1>n, <2>1, <2>2, <2>3, <2>4, <2>5 DEF Apart, AllIdle, Recent
<1>2. CASE OwnGrow
  <2>1. own.step = "writing" => ignored
    BY <1>2 DEF OwnGrow, Apart
  <2> QED
    BY <1>2, <2>1 DEF OwnGrow, Apart, AllIdle, Recent
<1>3. CASE OwnRemove
  <2>1. /\ history'.echoed = history.echoed
        /\ history'.crossed = (history.crossed \/ Crossing \/ own # NoWrite)
    BY <1>3 DEF OwnRemove, Types, History
  <2>2. ~ history.crossed /\ events = {} /\ AllIdle /\ timers = {} /\ own = NoWrite
    BY <2>1 DEF Crossing
  <2>3. \A w \in Worker : jobs[w] = NoJob
    BY <2>2 DEF AllIdle
  <2>4. row'.data # Part
    <3>1. row' = Unlisted \/ row' = [row EXCEPT !.state = "listed"]
      BY <1>3 DEF OwnRemove, Forgotten
    <3>2. row.data # Part /\ Unlisted.data # Part
      BY <2>2, Bounds DEF Apart, Unlisted
    <3> QED
      BY <3>1, <3>2 DEF Types, Item
  <2>5. disk'.data # Part
    BY <1>3, Bounds DEF OwnRemove, Nothing
  <2>6. events' # {} => ignored' /\ \E t \in timers' : Recent(t)'
    <3>1. events' # {} => ignored' /\ Grace \in timers'
      BY <1>3, <2>2 DEF OwnRemove
    <3>2. Recent(Grace)
      BY Bounds DEF Types
    <3>3. age' = age
      BY <1>3 DEF OwnRemove
    <3>4. Recent(Grace)'
      BY <3>2, <3>3 DEF Recent
    <3> QED
      BY <3>1, <3>4
  <2>7. \A t, u \in timers' : t = u
    BY <1>3, <2>2 DEF OwnRemove
  <2> QED
    BY <1>3, <1>n, <2>1, <2>2, <2>3, <2>4, <2>5, <2>6, <2>7 DEF OwnRemove, Apart
<1>4. CASE Learn
  <2>1. row'.data # Part
    <3>1. owns < MaxOwn /\ row'.data = made.version + 1
      BY <1>4 DEF Learn
    <3>2. acts + owns < MaxActs + MaxOwn
      BY <3>1 DEF Types
    <3> QED
      BY <3>1, <3>2, HandedOut
  <2> QED
    BY <1>4, <2>1 DEF Learn, Apart, AllIdle, Recent
<1>5. CASE OwnEnd
  <2>1. ~ history.crossed /\ UNCHANGED history /\ own.step = "writing"
    BY <1>5 DEF OwnEnd
  <2>2. timers = {} /\ ignored /\ AllIdle
    BY <2>1 DEF Apart
  <2>3. timers' = {Grace} /\ ignored' /\ Recent(Grace)'
    <3>1. timers' = {Grace} /\ ignored' /\ age' = age
      BY <1>5, <2>2 DEF OwnEnd
    <3>2. Recent(Grace)
      BY Bounds DEF Types
    <3> QED
      BY <3>1, <3>2 DEF Recent
  <2>4. disk'.data # Part
    <3>1. own.data # Part
      BY <2>1 DEF Apart
    <3> QED
      BY <1>5, <3>1 DEF OwnEnd, Types, File
  <2>5. row'.data # Part
    BY <1>5, <2>1 DEF OwnEnd, Apart, Types, Item
  <2>6. own'.data # Part /\ own'.step # "writing"
    BY <1>5, <1>n, <2>1 DEF OwnEnd, Apart, Types, Write
  <2>7. \A w \in Worker : jobs'[w].known # Part /\ jobs'[w].data # Part
    <3>1. PICK j : j = [NoJob EXCEPT !.step = "waiting", !.import = TRUE]
      OBVIOUS
    <3>2. j.known # Part /\ j.data # Part
      BY <3>1, Bounds DEF NoJob
    <3>3. jobs' = jobs \/ jobs' = [jobs EXCEPT !["caller"] = j]
      BY <1>5, <3>1 DEF OwnEnd, Begin
    <3>4. \A w \in Worker : jobs'[w] \in {jobs[w], j}
      BY <3>3 DEF Types
    <3>5. \A w \in Worker : jobs[w] = NoJob
      BY <2>2 DEF AllIdle
    <3> QED
      BY <1>n, <3>2, <3>4, <3>5
  <2> QED
    BY <2>1, <2>3, <2>4, <2>5, <2>6, <2>7 DEF Apart
<1>6. CASE OwnFail
  <2>1. history'.crossed
    BY <1>6 DEF OwnFail, Types, History
  <2> QED
    BY <2>1
<1>7. CASE OwnClaim
  <2>1. row'.data # Part
    BY <1>7 DEF OwnClaim, Apart, Types, Item
  <2>2. own'.data # Part /\ own'.step # "writing"
    BY <1>7, <1>n DEF OwnClaim
  <2> QED
    BY <1>7, <2>1, <2>2 DEF OwnClaim, Apart, Recent
<1> QED
  BY <1>1, <1>2, <1>3, <1>4, <1>5, <1>6, <1>7 DEF OwnStep, Finish

\* An index keeps Apart: it is none of a file being written, and its own making way
\* crosses whatever is still ignored.
LEMMA IndexApart == Base /\ Base' /\ Apart /\ Index => Apart'
<1> SUFFICES ASSUME Types, Counted, Shapes, Base', Apart, ~ history'.crossed,
                    NEW w \in Worker,
                    \/ IndexLook(w) \/ IndexLookAgain(w) \/ MakeWay(w) \/ IndexRead(w)
                    \/ IndexClaim(w) \/ IndexLookFails(w) \/ MakeWayFails(w)
                    \/ IndexReadFails(w) \/ IndexClaimFails(w) \/ Undo(w)
             PROVE  Apart'
  BY DEF Base, Apart, Index
<1> USE FolderAssumption
<1>n. /\ ~ NoJob.import /\ NoJob.known # Part /\ NoJob.data # Part
  BY Bounds DEF NoJob
<1>j. jobs[w] \in Job
  BY DEF Types
<1>h. /\ history'.echoed = history.echoed /\ ~ history.crossed
      /\ MakeWay(w) \/ MakeWayFails(w) => timers = {} /\ own = NoWrite
  <2>1. CASE MakeWay(w)
    BY <2>1 DEF MakeWay, Note, Types, History
  <2>2. CASE MakeWayFails(w)
    BY <2>2 DEF MakeWayFails, Types, History
  <2>3. CASE IndexLookFails(w) \/ IndexReadFails(w) \/ IndexClaimFails(w)
    <3>1. GivesUp(w)
      BY <2>3 DEF IndexLookFails, IndexReadFails, IndexClaimFails
    <3>2. history'.echoed = history.echoed /\ ~ history.crossed
      BY <3>1 DEF GivesUp, Types, History
    <3> QED
      BY <2>1, <2>2, <3>2
  <2>4. CASE ~ (MakeWay(w) \/ MakeWayFails(w) \/ IndexLookFails(w) \/ IndexReadFails(w)
                \/ IndexClaimFails(w))
    <3>1. history' = history
      BY <2>4 DEF IndexLook, IndexLookAgain, IndexRead, IndexClaim, Undo
    <3> QED
      BY <2>4, <3>1
  <2> QED
    BY <2>1, <2>2, <2>3, <2>4
<1>s. own' = own /\ own.step # "writing" /\ age' = age
  <2>1. jobs[w].step # "idle"
    BY DEF IndexLook, IndexLookAgain, MakeWay, IndexRead, IndexClaim, IndexLookFails,
           MakeWayFails, IndexReadFails, IndexClaimFails, Undo
  <2>2. ~ AllIdle
    BY <2>1 DEF AllIdle, NoJob
  <2>3. own' = own /\ age' = age
    BY DEF IndexLook, IndexLookAgain, MakeWay, IndexRead, IndexClaim, IndexLookFails,
           MakeWayFails, IndexReadFails, IndexClaimFails, Undo
  <2> QED
    BY <1>h, <2>2, <2>3 DEF Apart
<1>p. /\ disk.data # Part /\ row.data # Part
      /\ \A v \in Worker : jobs[v].known # Part /\ jobs[v].data # Part
  BY <1>h, <1>s DEF Apart
<1>1. disk'.data # Part
  <2>1. disk' = disk \/ disk' = Nothing \/ disk' = [disk EXCEPT !.unread = FALSE]
    BY DEF IndexLook, IndexLookAgain, MakeWay, IndexRead, IndexClaim, IndexLookFails,
           MakeWayFails, IndexReadFails, IndexClaimFails, Undo
  <2> QED
    BY <1>p, <2>1, Bounds DEF Nothing, Types, File
<1>2. row'.data # Part
  <2>1. row' = row \/ row'.data \in {jobs[w].known, jobs[w].data}
    BY DEF IndexLook, IndexLookAgain, MakeWay, IndexRead, IndexClaim, IndexLookFails,
           MakeWayFails, IndexReadFails, IndexClaimFails, Undo, Put
  <2> QED
    BY <1>p, <2>1
<1>3. \A v \in Worker : /\ jobs'[v].import => jobs[v].import
                        /\ jobs'[v].known # Part /\ jobs'[v].data # Part
  <2>1. ASSUME NEW j, jobs' = [jobs EXCEPT ![w] = j],
               j.import => jobs[w].import, j.known # Part, j.data # Part
        PROVE  \A v \in Worker : /\ jobs'[v].import => jobs[v].import
                                 /\ jobs'[v].known # Part /\ jobs'[v].data # Part
    <3>1. jobs'[w] = j /\ \A v \in Worker \ {w} : jobs'[v] = jobs[v]
      BY <2>1, OneJob
    <3> QED
      BY <1>p, <2>1, <3>1
  <2>2. CASE jobs' = [jobs EXCEPT ![w] = NoJob]
    BY <1>n, <2>1, <2>2
  <2>3. CASE /\ jobs[w].import
             /\ jobs' = [jobs EXCEPT ![w] = [NoJob EXCEPT !.step = "undo", !.import = TRUE]]
    <3> DEFINE j == [NoJob EXCEPT !.step = "undo", !.import = TRUE]
    <3>1. j.known # Part /\ j.data # Part
      BY Bounds DEF NoJob
    <3>2. jobs' = [jobs EXCEPT ![w] = j]
      BY <2>3
    <3> HIDE DEF j
    <3> QED
      BY <2>1, <2>3, <3>1, <3>2
  <2>4. CASE IndexLook(w)
    <3> DEFINE j == [jobs[w] EXCEPT !.stamp = disk.stamp,
                       !.step = IF row.state = "listed" THEN "rename" ELSE "lookup"]
    <3>1. /\ j.import => jobs[w].import
          /\ j.known # Part /\ j.data # Part
      BY <1>j, <1>p DEF Job
    <3>2. jobs' = [jobs EXCEPT ![w] = j]
      BY <2>4 DEF IndexLook, Becomes
    <3> HIDE DEF j
    <3> QED
      BY <2>1, <3>1, <3>2
  <2>5. CASE IndexLookAgain(w)
    <3> DEFINE j == [jobs[w] EXCEPT !.step = "read", !.sees = row.state, !.known = row.data]
    <3>1. /\ j.import => jobs[w].import
          /\ j.known # Part /\ j.data # Part
      BY <1>j, <1>p DEF Job
    <3>2. jobs' = [jobs EXCEPT ![w] = j]
      BY <2>5 DEF IndexLookAgain, Becomes
    <3> HIDE DEF j
    <3> QED
      BY <2>1, <3>1, <3>2
  <2>6. CASE IndexRead(w) /\ disk.data # jobs[w].known
    <3> DEFINE j == [jobs[w] EXCEPT !.step = "claim", !.data = disk.data]
    <3>1. /\ j.import => jobs[w].import
          /\ j.known # Part /\ j.data # Part
      BY <1>j, <1>p DEF Job
    <3>2. jobs' = [jobs EXCEPT ![w] = j]
      BY <2>6 DEF IndexRead, Becomes
    <3> HIDE DEF j
    <3> QED
      BY <2>1, <3>1, <3>2
  <2> QED
    BY <2>2, <2>3, <2>4, <2>5, <2>6
       DEF IndexRead, MakeWay, IndexClaim, IndexLookFails, MakeWayFails, IndexReadFails,
           IndexClaimFails, Undo, GivesUp, Becomes
<1>4. CASE MakeWay(w) \/ MakeWayFails(w)
  <2>1. ignored' /\ timers' = {Grace}
    BY <1>4, <1>h DEF MakeWay, MakeWayFails, Mark
  <2>2. Recent(Grace)'
    <3>1. Recent(Grace)
      BY Bounds DEF Types
    <3> QED
      BY <1>s, <3>1 DEF Recent
  <2> QED
    BY <1>1, <1>2, <1>3, <1>h, <1>s, <2>1, <2>2 DEF Apart
<1>5. CASE ~ (MakeWay(w) \/ MakeWayFails(w))
  <2>1. UNCHANGED <<ignored, timers>>
    BY <1>5 DEF IndexLook, IndexLookAgain, IndexRead, IndexClaim, IndexLookFails,
                IndexReadFails, IndexClaimFails, Undo
  <2>2. \A what \in {"write", "remove"} : <<what, "engine">> \in events' =>
          <<what, "engine">> \in events \/ jobs[w].import
    <3>1. CASE Undo(w)
      BY <3>1 DEF Undo, Shapes, Shaped
    <3>2. CASE ~ Undo(w)
      BY <1>5, <3>2 DEF IndexLook, IndexLookAgain, IndexRead, IndexClaim, IndexLookFails,
                        IndexReadFails, IndexClaimFails
    <3> QED
      BY <3>1, <3>2
  <2>3. jobs[w].import => ignored /\ \E t \in timers : Recent(t)
    <3>1. jobs[w].import => ignored /\ Grace \in timers
      BY <1>h DEF Apart
    <3>2. Recent(Grace)
      BY Bounds DEF Types
    <3> QED
      BY <3>1, <3>2
  <2>4. \A what \in {"write", "remove"} : <<what, "engine">> \in events' =>
          ignored' /\ \E t \in timers' : Recent(t)
    BY <1>h, <1>s, <2>1, <2>2, <2>3 DEF Apart
  <2>5. \A what \in {"write", "remove"} : <<what, "engine">> \in events' =>
          ignored' /\ \E t \in timers' : Recent(t)'
    BY <1>s, <2>4 DEF Recent
  <2>6. /\ ~ history'.echoed
        /\ \A t, u \in timers' : t = u
        /\ \A v \in Worker : jobs'[v].import => ignored' /\ Grace \in timers'
        /\ own'.step # "writing" /\ own'.data # Part
    BY <1>3, <1>h, <1>s, <2>1 DEF Apart
  <2> QED
    BY <1>1, <1>2, <1>3, <2>5, <2>6 DEF Apart
<1> QED
  BY <1>4, <1>5

\* The handler keeps Apart: it takes nothing the engine did, as that is ignored.
LEMMA HandleApart == Base /\ Base' /\ Apart /\ (Handle \/ Unmark \/ Tick) => Apart'
<1> SUFFICES ASSUME Types, Counted, Shapes, Base', Apart, Handle \/ Unmark \/ Tick
             PROVE  Apart'
  BY DEF Base
<1> USE FolderAssumption
<1>1. ASSUME NEW who \in {"person", "engine"}, HearWrite(who)
      PROVE  Apart'
  <2>0. events' \subseteq events /\ UNCHANGED <<disk, row, ignored, timers, own>>
    BY <1>1 DEF HearWrite
  <2>w. \A what \in {"write", "remove"} : <<what, "engine">> \in events' =>
          <<what, "engine">> \in events /\ age' = age
    BY <1>1, <2>0, Waits DEF HearWrite
  <2>e. ~ history.crossed => \A what \in {"write", "remove"} :
          <<what, "engine">> \in events' =>
            ignored' /\ (own'.step = "writing" \/ \E t \in timers' : Recent(t)')
    BY <2>0, <2>w DEF Apart, Recent
  <2>1. CASE Taken
    <3> DEFINE j == [NoJob EXCEPT !.step = "waiting", !.left = Wait]
    <3>1. ~ j.import /\ j.known # Part /\ j.data # Part
      BY Bounds DEF NoJob
    <3>2. PICK w \in Worker : jobs' = [jobs EXCEPT ![w] = j]
      BY <1>1, <2>1 DEF HearWrite, Becomes
    <3> HIDE DEF j
    <3>3. jobs'[w] = j /\ \A v \in Worker \ {w} : jobs'[v] = jobs[v]
      BY <3>2, OneJob
    <3>4. /\ history'.crossed = history.crossed
          /\ history'.echoed = (history.echoed \/ who = "engine")
      BY <1>1, <2>1 DEF HearWrite, Note, Types, History
    <3>5. ~ ignored
      BY <2>1 DEF Taken
    <3>6. ~ history.crossed => who # "engine" /\ own.step # "writing"
      BY <1>1, <3>5 DEF HearWrite, Apart
    <3>7. ~ history.crossed => \A v \in Worker :
            /\ jobs'[v].import => ignored' /\ Grace \in timers'
            /\ jobs'[v].known # Part /\ jobs'[v].data # Part
      BY <2>0, <3>1, <3>3 DEF Apart
    <3> QED
      BY <2>0, <2>e, <3>4, <3>6, <3>7 DEF Apart
  <2>2. CASE ~ Taken
    <3>1. UNCHANGED <<jobs, history>>
      BY <1>1, <2>2 DEF HearWrite
    <3> QED
      BY <2>0, <2>e, <3>1 DEF Apart, AllIdle
  <2> QED
    BY <2>1, <2>2
<1>2. ASSUME NEW who \in {"person", "engine"}, HearRemove(who)
      PROVE  Apart'
  <2>0. events' \subseteq events /\ UNCHANGED <<disk, ignored, timers, jobs, own>>
    BY <1>2 DEF HearRemove
  <2>w. \A what \in {"write", "remove"} : <<what, "engine">> \in events' =>
          <<what, "engine">> \in events /\ age' = age
    BY <1>2, <2>0, Waits DEF HearRemove
  <2>e. ~ history.crossed => \A what \in {"write", "remove"} :
          <<what, "engine">> \in events' =>
            ignored' /\ (own'.step = "writing" \/ \E t \in timers' : Recent(t)')
    BY <2>0, <2>w DEF Apart, Recent
  <2>1. CASE ignored
    <3>1. UNCHANGED <<row, history>>
      BY <1>2, <2>1 DEF HearRemove
    <3> QED
      BY <2>0, <2>e, <3>1 DEF Apart, AllIdle
  <2>2. CASE ~ ignored
    <3>1. row' = row \/ row' = Unlisted \/ row' = [row EXCEPT !.state = "listed"]
      BY <1>2, <2>2 DEF HearRemove, Forgotten
    <3>2. row.data # Part => row'.data # Part
      BY <3>1, Bounds DEF Unlisted, Types, Item
    <3>3. /\ history'.crossed = history.crossed
          /\ history'.echoed = (history.echoed \/ who = "engine")
      BY <1>2, <2>2 DEF HearRemove, Note, Types, History
    <3>4. ~ history.crossed => who # "engine"
      BY <1>2, <2>2 DEF HearRemove, Apart
    <3> QED
      BY <2>0, <2>e, <3>2, <3>3, <3>4 DEF Apart, AllIdle
  <2> QED
    BY <2>1, <2>2
<1>3. CASE Unmark
  <2>0. 0 \in timers /\ timers' = timers \ {0} /\ age' = age
        /\ UNCHANGED <<disk, row, events, jobs, own, history>>
    BY <1>3 DEF Unmark
  <2>1. ~ history.crossed => \A t \in timers : t = 0
    BY <2>0 DEF Apart
  <2>2. ~ Recent(0) /\ Grace # 0
    BY Bounds DEF Types
  <2>3. ~ history.crossed => (own.step # "writing"
          /\ \A what \in {"write", "remove"} : <<what, "engine">> \notin events)
    BY <2>0, <2>1, <2>2 DEF Apart
  <2>4. ~ history.crossed => \A w \in Worker : ~ jobs[w].import
    BY <2>1, <2>2 DEF Apart
  <2> QED
    BY <2>0, <2>3, <2>4 DEF Apart
<1>4. CASE Tick
  <2>0. /\ timers' = {t - 1 : t \in timers} /\ 0 \notin timers
        /\ \A w \in Worker : jobs[w].step # "idle" => jobs[w].left > 0
        /\ UNCHANGED <<disk, row, events, ignored, own, history>>
    BY <1>4 DEF Tick
  <2>1. \A w \in Worker :
          jobs'[w] = IF jobs[w].left > 0 THEN [jobs[w] EXCEPT !.left = jobs[w].left - 1]
                     ELSE jobs[w]
    BY <1>4 DEF Tick
  <2>2. ASSUME NEW w \in Worker
        PROVE  /\ ~ jobs'[w].import
               /\ jobs'[w].known = jobs[w].known /\ jobs'[w].data = jobs[w].data
               /\ jobs[w] = NoJob => jobs'[w] = NoJob
    <3>1. jobs[w] \in Job /\ Shaped(jobs[w])
      BY DEF Types, Shapes
    <3>2. ~ jobs[w].import
      <4>1. CASE jobs[w].step = "idle"
        <5>1. jobs[w] = NoJob
          BY <3>1, <4>1 DEF Shaped
        <5> QED
          BY <5>1 DEF NoJob
      <4>2. CASE jobs[w].step # "idle"
        <5>1. jobs[w].left # 0
          BY <2>0, <3>1, <4>2 DEF Job
        <5> QED
          BY <3>1, <5>1 DEF Shaped
      <4> QED
        BY <4>1, <4>2
    <3>3. PICK j : j = jobs[w]
      OBVIOUS
    <3>4. PICK k : k = jobs'[w]
      OBVIOUS
    <3>5. j \in Job /\ ~ j.import /\ (j = NoJob => j.left = 0)
      BY <3>1, <3>2, <3>3 DEF NoJob
    <3>6. k = IF j.left > 0 THEN [j EXCEPT !.left = j.left - 1] ELSE j
      BY <2>1, <3>3, <3>4
    <3>7. ~ k.import /\ k.known = j.known /\ k.data = j.data
      BY <3>5, <3>6 DEF Job
    <3>8. j = NoJob => k = NoJob
      BY <3>5, <3>6
    <3> QED
      BY <3>3, <3>4, <3>7, <3>8
  <2>3. ~ history.crossed => \A t, u \in timers' : t = u
    BY <2>0 DEF Apart
  <2>4. timers = {} => timers' = {}
    BY <2>0
  <2>5. AllIdle => AllIdle'
    BY <2>2 DEF AllIdle
  <2>6. ASSUME events \cap ByEngine # {}, NEW t \in timers, Recent(t)
        PROVE  t - 1 \in timers' /\ Recent(t - 1)'
    <3>1. age' = age + 1
      BY <1>4, <2>6 DEF Tick
    <3>2. t \in Nat /\ age \in Nat
      BY DEF Types
    <3>3. (t - 1) + (age + 1) >= Grace
      BY <2>6, <3>2 DEF Recent
    <3>4. Recent(t - 1)'
      BY <3>1, <3>3 DEF Recent
    <3> QED
      BY <2>0, <3>4
  <2>7. ~ history.crossed => \A what \in {"write", "remove"} :
          <<what, "engine">> \in events' =>
            ignored' /\ (own'.step = "writing" \/ \E t \in timers' : Recent(t)')
    <3> DEFINE R == \E t \in timers' : Recent(t)'
    <3>0. events' = events /\ own' = own /\ ignored' = ignored
      BY <2>0
    <3>1. ASSUME ~ history.crossed, NEW what \in {"write", "remove"},
                 <<what, "engine">> \in events, own.step # "writing"
          PROVE  ignored /\ R
      <4>1. PICK t \in timers : Recent(t)
        BY <3>1 DEF Apart
      <4>2. events \cap ByEngine # {}
        BY <3>1 DEF ByEngine
      <4>3. t - 1 \in timers' /\ Recent(t - 1)'
        BY <2>6, <4>1, <4>2
      <4>4. ignored
        BY <3>1 DEF Apart
      <4> QED
        BY <4>3, <4>4
    <3> HIDE DEF R
    <3>2. ASSUME ~ history.crossed, NEW what \in {"write", "remove"},
                 <<what, "engine">> \in events
          PROVE  ignored /\ (own.step = "writing" \/ R)
      <4>1. ignored
        BY <3>2 DEF Apart
      <4> QED
        BY <3>1, <3>2, <4>1
    <3>3. ~ history.crossed => \A what \in {"write", "remove"} :
            <<what, "engine">> \in events' => ignored' /\ (own'.step = "writing" \/ R)
      BY <3>0, <3>2
    <3> QED
      BY <3>3 DEF R
  <2> QED
    BY <2>0, <2>2, <2>3, <2>4, <2>5, <2>7 DEF Apart
<1> QED
  BY <1>1, <1>2, <1>3, <1>4 DEF Handle

\* Every step keeps Apart.
LEMMA ApartStep == Base /\ Base' /\ Apart /\ [Next]_vars => Apart'
<1>1. Apart /\ UNCHANGED vars => Apart'
  BY ApartUntouched DEF vars
<1> QED
  BY <1>1, PersonApart, OwnApart, IndexApart, HandleApart DEF Next

\* The watcher never takes what the engine did in the folder for an act of a person,
\* and no index catalogues a file the engine is still writing, unless the engine
\* touched the path twice within the grace time, or under a scan (ignore.rs).
THEOREM NoEchoUnlessCrossed == Spec => []NoEcho
<1>1. Init => Apart
  BY Bounds DEF Init, Apart, AllIdle, Recent, NoJob, NoWrite, Unlisted, Nothing
<1>2. Apart => NoEcho
  BY DEF Apart, NoEcho
<1> QED
  BY <1>1, <1>2, BaseInit, BaseStep, ApartStep, PTL DEF Spec

-----------------------------------------------------------------------------
(* The catalog follows the folder.                                         *)

\* What the idle are, and that no two reports are the same.
LEMMA Idle ==
  /\ NoWrite.step \notin {"writing", "written"}
  /\ NoJob.step = "idle" /\ NoJob.left = 0
  /\ Nothing.data = 0 /\ ~ Nothing.unread /\ Unlisted.state = "none"
  /\ Own \subseteq {"write", "remove"} \X {"engine"}
  /\ \A what \in {"write", "remove"} : <<what, "person">> \notin Own
  /\ <<"remove", "engine">> \notin Own
  /\ \A what \in {"write", "remove"} :
       <<what, "person">> \notin {"write", "remove"} \X {"engine"}
BY DEF NoWrite, NoJob, Nothing, Unlisted, Own

\* Quiet, and nothing missed so far: folder and catalog agree.
LEMMA QuietAgrees ==
  ASSUME Follows, ~ history.missed, Quiet
  PROVE  InStep /\ ~ disk.unread
BY DEF Follows, Settled, Quiet

\* A job that begins alone.
LEMMA OneBegins ==
  ASSUME Types, AllIdle, NEW w \in Worker, NEW j, jobs' = [jobs EXCEPT ![w] = j],
         j.step = "waiting", own' = NoWrite, disk'.data # 0, events' \subseteq Own,
         j.sees = "none", j.import => row'.state # "held" /\ timers' = {Grace}
  PROVE  OneIndex' /\ ~ AllIdle'
<1>1. jobs'[w] = j /\ \A v \in Worker \ {w} : jobs'[v] = NoJob
  BY DEF Types, AllIdle
<1>2. j # NoJob
  BY Idle
<1>3. Kept(j)'
  BY DEF Kept
<1> QED
  BY <1>1, <1>2, <1>3 DEF OneIndex, AllIdle, Kept

\* Every act of a person is heard where nothing crosses it.
LEMMA PersonFollows == Base /\ Base' /\ Follows /\ PersonStep => Follows'
<1> SUFFICES ASSUME Types, Shapes, Base', Follows, PersonStep, ~ history'.missed
             PROVE  Unheard' /\ OneIndex' /\ OneWrite' /\ Settled'
  BY DEF Base, Follows
<1> USE FolderAssumption
<1>1. CASE Save
  <2>1. running /\ Quiet /\ ~ ignored /\ since = Debounce
    <3>1. PICK b \in BOOLEAN :
            Note("missed", b) /\ b = ~(running /\ Quiet /\ ~ignored /\ since = Debounce)
      BY <1>1 DEF Save
    <3>2. history'.missed = b
      BY <3>1, Noted
    <3> QED
      BY <3>1, <3>2
  <2>2. events' = {<<"write", "person">>}
    BY <1>1, <2>1 DEF Save, Reported, Quiet
  <2>3. disk'.data # 0
    BY <1>1 DEF Save, Types
  <2>4. own' = NoWrite /\ jobs' = jobs /\ ~ ignored' /\ since' = Debounce
    BY <1>1, <2>1 DEF Save, Quiet
  <2>5. AllIdle'
    BY <2>1, <2>4 DEF Quiet, AllIdle
  <2>6. Unheard'
    BY <2>2, <2>3, <2>4, <2>5 DEF Unheard, ByPerson
  <2>7. OneIndex' /\ OneWrite'
    BY <2>4, <2>5, Idle DEF OneIndex, OneWrite, AllIdle
  <2>8. Settled'
    BY <2>2, Idle DEF Settled
  <2> QED
    BY <2>6, <2>7, <2>8
<1>2. CASE Delete
  <2>0. PICK what \in {"write", "remove"} :
          /\ events' = Reported(what, "person")
          /\ Note("missed", ~(running /\ Quiet /\ ~ignored /\ what = "remove"))
    BY <1>2 DEF Delete
  <2>1. running /\ Quiet /\ ~ ignored /\ what = "remove"
    <3>1. PICK b \in BOOLEAN :
            Note("missed", b) /\ b = ~(running /\ Quiet /\ ~ignored /\ what = "remove")
      BY <2>0
    <3>2. history'.missed = b
      BY <3>1, Noted
    <3> QED
      BY <3>1, <3>2
  <2>2. events' = {<<"remove", "person">>}
    BY <2>0, <2>1 DEF Reported, Quiet
  <2>3. disk'.data = 0
    BY <1>2, Idle DEF Delete
  <2>4. own' = NoWrite /\ jobs' = jobs /\ ~ ignored'
    BY <1>2, <2>1 DEF Delete, Quiet
  <2>5. AllIdle'
    BY <2>1, <2>4 DEF Quiet, AllIdle
  <2>6. Unheard'
    BY <2>2, <2>3, <2>4, <2>5 DEF Unheard, ByPerson
  <2>7. OneIndex' /\ OneWrite'
    BY <2>4, <2>5, Idle DEF OneIndex, OneWrite, AllIdle
  <2>8. Settled'
    BY <2>2, Idle DEF Settled
  <2> QED
    BY <2>6, <2>7, <2>8
<1>3. CASE Scan
  <2>1. Quiet
    BY <1>3 DEF Scan, Types, History
  <2>2. PICK j : j = [NoJob EXCEPT !.step = "waiting", !.import = FALSE]
    OBVIOUS
  <2>3. /\ jobs' = [jobs EXCEPT !["caller"] = j]
        /\ j.step = "waiting" /\ j.sees = "none" /\ ~ j.import
    BY <1>3, <2>2 DEF Scan, Begin, NoJob
  <2>4. own' = NoWrite /\ events' = {} /\ disk'.data # 0
    BY <1>3, <2>1 DEF Scan, Quiet
  <2>5. OneIndex' /\ ~ AllIdle'
    BY <2>1, <2>3, <2>4, OneBegins DEF Quiet, Worker
  <2> QED
    BY <2>4, <2>5, Idle DEF Unheard, OneWrite, Settled
<1>4. CASE Start
  <2>1. /\ ~ history.missed /\ (since = Debounce => since' = Debounce)
        /\ UNCHANGED <<disk, row, events, age, ignored, timers, jobs, own>>
    BY <1>4 DEF Start
  <2>2. Unheard'
    BY <2>1 DEF Follows, Unheard, ByPerson, AllIdle, Recent
  <2>3. OneIndex' /\ OneWrite' /\ Settled'
    BY <2>1 DEF Follows, OneIndex, Kept, OneWrite, Settled, AllIdle, InStep
  <2> QED
    BY <2>2, <2>3
<1>5. CASE Stop
  <2>1. ~ history.missed /\ events = {}
    <3>1. PICK b \in BOOLEAN : Note("missed", b) /\ b = (history.missed \/ events # {})
      BY <1>5 DEF Stop, Types, History
    <3>2. history'.missed = b
      BY <3>1, Noted
    <3> QED
      BY <3>1, <3>2
  <2>2. events' = events
    BY <1>5, <2>1 DEF Stop
  <2>3. UNCHANGED <<disk, row, ignored, timers, jobs, own>>
    BY <1>5 DEF Stop
  <2> QED
    BY <2>1, <2>2, <2>3
       DEF Follows, Unheard, OneIndex, Kept, OneWrite, Settled, AllIdle, InStep
<1>6. CASE Crash
  <2>1. ~ history.missed /\ Quiet
    BY <1>6 DEF Crash, Types, History
  <2>2. events' = {} /\ own' = NoWrite /\ UNCHANGED <<disk, row>>
    BY <1>6 DEF Crash
  <2>3. AllIdle'
    BY <1>6 DEF Crash, AllIdle
  <2>4. InStep' /\ ~ disk'.unread
    BY <2>1, <2>2, QuietAgrees DEF InStep
  <2> QED
    BY <2>2, <2>3, <2>4, Idle DEF Unheard, OneIndex, OneWrite, Settled, AllIdle
<1> QED
  BY <1>1, <1>2, <1>3, <1>4, <1>5, <1>6 DEF PersonStep

\* What the engine does in a quiet folder leaves it agreed with the catalog
\* (pull_copy, finalize_file, import_file, delete_local_copy).
LEMMA OwnFollows == Base /\ Base' /\ Handed /\ Follows /\ (OwnStep \/ Finish) => Follows'
<1> SUFFICES ASSUME Types, Counted, Shapes, Base', Handed, Follows, OwnStep \/ Finish,
                    ~ history'.missed
             PROVE  Unheard' /\ OneIndex' /\ OneWrite' /\ Settled'
  BY DEF Base, Follows
<1> USE FolderAssumption
<1>1. ASSUME NEW kind \in {"pull", "push", "import"}, OwnBegin(kind)
      PROVE  Unheard' /\ OneIndex' /\ OneWrite' /\ Settled'
  <2>1. ~ history.missed /\ ~ Crossing
    BY <1>1 DEF OwnBegin, Types, History
  <2>2. events = {} /\ AllIdle /\ timers = {} /\ own = NoWrite
    BY <1>1, <2>1 DEF Crossing, OwnBegin
  <2>3. /\ ignored' /\ timers' = {} /\ jobs' = jobs /\ row' = row
        /\ events' \subseteq Own /\ disk'.data = Part
    BY <1>1, <2>2 DEF OwnBegin, Reported, Own
  <2>4. PICK d : d = IF kind = "import" THEN made.version + 1 ELSE row.data
    OBVIOUS
  <2>5. own' = [kind |-> kind, step |-> "writing", data |-> d]
    BY <1>1, <2>4 DEF OwnBegin
  <2>6. d # 0
    <3>1. made.version + 1 # 0
      BY DEF Types
    <3>2. kind # "import" => row.data # 0
      BY <1>1 DEF OwnBegin
    <3> QED
      BY <2>4, <3>1, <3>2
  <2>7. /\ kind # "import" => row.state # "none"
        /\ kind = "pull" => row.state = "listed"
        /\ kind = "import" => row.state # "held"
    BY <1>1 DEF OwnBegin
  <2>8. own'.step = "writing" /\ own'.kind = kind /\ own'.data = d /\ own' # NoWrite
    BY <2>5 DEF NoWrite
  <2>9. OneWrite'
    BY <2>3, <2>4, <2>6, <2>7, <2>8 DEF OneWrite
  <2>10. OneIndex'
    BY <2>2, <2>3 DEF OneIndex, AllIdle
  <2>11. Unheard' /\ Settled'
    BY <2>3, <2>8, Idle DEF Unheard, Settled
  <2> QED
    BY <2>9, <2>10, <2>11
<1>2. CASE OwnGrow
  <2>1. /\ ~ history.missed /\ own.step = "writing"
        /\ UNCHANGED <<disk, row, since, age, ignored, timers, jobs, own>>
    BY <1>2 DEF OwnGrow
  <2>2. own # NoWrite /\ events \subseteq Own /\ ignored
    BY <2>1, Idle DEF Follows, OneWrite
  <2>3. events' \subseteq Own
    BY <1>2, <2>2 DEF OwnGrow, Reported, Own
  <2>4. OneWrite'
    BY <2>1, <2>3 DEF Follows, OneWrite
  <2>5. OneIndex'
    BY <2>1, <2>2 DEF Follows, OneIndex
  <2>6. Unheard' /\ Settled'
    BY <2>1, <2>2, <2>3, Idle DEF Unheard, Settled
  <2> QED
    BY <2>4, <2>5, <2>6
<1>3. CASE OwnRemove
  <2>1. ~ history.missed /\ ~ Crossing /\ own = NoWrite
    BY <1>3 DEF OwnRemove, Types, History
  <2>2. events = {} /\ AllIdle
    BY <2>1 DEF Crossing
  <2>3. row'.state # "held"
    <3>1. row' = Unlisted \/ row' = [row EXCEPT !.state = "listed"]
      BY <1>3 DEF OwnRemove, Forgotten
    <3> QED
      BY <3>1, Idle DEF Types, Item
  <2>4. /\ own' = NoWrite /\ jobs' = jobs /\ disk'.data = 0 /\ ~ disk'.unread
        /\ events' \subseteq {<<"remove", "engine">>}
    BY <1>3, <2>1, <2>2, Idle DEF OwnRemove, Reported
  <2>5. AllIdle'
    BY <2>2, <2>4 DEF AllIdle
  <2>6. Unheard'
    BY <2>3, <2>4, <2>5 DEF Unheard
  <2>7. OneIndex' /\ OneWrite'
    BY <2>4, <2>5, Idle DEF OneIndex, OneWrite, AllIdle
  <2>8. Settled'
    BY <2>3, <2>4 DEF Settled, InStep
  <2> QED
    BY <2>6, <2>7, <2>8
<1>4. CASE Learn
  <2>1. /\ ~ history.missed /\ row.state = "none" /\ row'.state = "listed"
        /\ row'.data = made.version + 1 /\ owns < MaxOwn
        /\ UNCHANGED <<disk, events, since, age, ignored, timers, jobs, own>>
    BY <1>4 DEF Learn
  <2>2. row'.data # disk.data
    <3>1. disk.data \in Nat /\ (disk.data <= made.version \/ disk.data = Part)
      BY DEF Handed, Contents, Types, File, Data, Part
    <3>2. made.version + 1 # Part /\ made.version \in Nat
      BY <2>1, HandedOut DEF Types
    <3> QED
      BY <2>1, <3>1, <3>2
  <2>3. OneIndex'
    <3>1. ASSUME NEW w \in Worker, jobs[w] # NoJob
          PROVE  /\ \A v \in Worker : jobs[v] # NoJob => v = w
                 /\ own = NoWrite /\ disk.data # 0 /\ events \subseteq Own
                 /\ Kept(jobs[w])
      BY <2>1, <3>1 DEF Follows, OneIndex
    <3>2. ASSUME NEW j, Kept(j)
          PROVE  Kept(j)'
      BY <2>1, <2>2, <3>2 DEF Kept
    <3>3. ASSUME NEW w \in Worker, jobs[w] # NoJob
          PROVE  Kept(jobs[w])'
      <4>1. PICK j : j = jobs[w]
        OBVIOUS
      <4>2. Kept(j)' /\ jobs'[w] = j
        BY <2>1, <3>1, <3>2, <3>3, <4>1
      <4> QED
        BY <4>2 DEF Kept
    <3> QED
      BY <2>1, <3>1, <3>3 DEF OneIndex
  <2>4. OneWrite'
    BY <2>1 DEF Follows, OneWrite
  <2>5. Unheard'
    BY <2>1 DEF Follows, Unheard, ByPerson, AllIdle, Recent
  <2>6. Settled'
    BY <2>1 DEF Follows, Settled, InStep, AllIdle
  <2> QED
    BY <2>3, <2>4, <2>5, <2>6
<1>5. CASE OwnEnd
  <2>1. ~ history.missed /\ own.step = "writing" /\ own # NoWrite
    BY <1>5, Idle DEF OwnEnd
  <2>2. /\ timers = {} /\ ignored /\ events \subseteq Own
        /\ disk.data = Part /\ own.data # 0 /\ own.kind # "none"
        /\ own.kind # "import" => row.data = own.data /\ row.state # "none"
        /\ own.kind = "pull" => row.state = "listed"
        /\ own.kind = "import" => row.state # "held"
    BY <2>1 DEF Follows, OneWrite
  <2>3. AllIdle
    BY <2>1 DEF Follows, OneIndex, AllIdle
  <2>4. timers' = {Grace} /\ ignored' /\ events' \subseteq Own
    BY <1>5, <2>2 DEF OwnEnd, Reported, Own
  <2>5. disk'.data = own.data /\ ~ disk'.unread
    BY <1>5, <2>2 DEF OwnEnd, Types, File, Shapes
  <2>6. Unheard'
    <3>1. Recent(Grace) /\ age' = age
      BY <1>5, Bounds DEF Types, OwnEnd
    <3>2. Recent(Grace)'
      BY <3>1 DEF Recent
    <3> QED
      BY <2>4, <3>2, Idle DEF Unheard
  <2>7. CASE own.kind = "push"
    <3>1. row' = [row EXCEPT !.state = "held"] /\ own' = NoWrite /\ jobs' = jobs
      BY <1>5, <2>7 DEF OwnEnd
    <3>2. row'.state = "held" /\ row'.data = disk'.data
      BY <2>2, <2>5, <2>7, <3>1 DEF Types, Item
    <3>3. AllIdle'
      BY <2>3, <3>1 DEF AllIdle
    <3>4. OneIndex' /\ OneWrite'
      BY <3>1, <3>3, Idle DEF OneIndex, OneWrite, AllIdle
    <3>5. Settled'
      BY <2>2, <2>5, <3>2 DEF Settled, InStep
    <3> QED
      BY <2>6, <3>4, <3>5
  <2>8. CASE own.kind = "pull"
    <3>1. row' = row /\ own' = [own EXCEPT !.step = "written"] /\ jobs' = jobs
      BY <1>5, <2>8 DEF OwnEnd
    <3>2. own'.step = "written" /\ own' # NoWrite
      BY <3>1, Idle DEF Types, Write
    <3>3. OneWrite'
      BY <2>2, <2>4, <2>5, <2>8, <3>1, <3>2 DEF OneWrite
    <3>4. OneIndex' /\ Settled'
      BY <2>3, <3>1, <3>2 DEF OneIndex, Settled, AllIdle
    <3> QED
      BY <2>6, <3>3, <3>4
  <2>9. CASE own.kind = "import"
    <3>1. PICK j : j = [NoJob EXCEPT !.step = "waiting", !.import = TRUE]
      OBVIOUS
    <3>2. /\ jobs' = [jobs EXCEPT !["caller"] = j] /\ own' = NoWrite /\ row' = row
          /\ j.step = "waiting" /\ j.sees = "none"
      BY <1>5, <2>9, <3>1 DEF OwnEnd, Begin, NoJob
    <3>3. OneIndex' /\ ~ AllIdle'
      BY <2>2, <2>3, <2>4, <2>5, <2>9, <3>2, OneBegins DEF Worker
    <3> QED
      BY <2>6, <3>2, <3>3, Idle DEF OneWrite, Settled
  <2> QED
    BY <2>2, <2>7, <2>8, <2>9 DEF Types, Write
<1>6. CASE OwnFail
  <2>1. history'.missed
    BY <1>6 DEF OwnFail, Types, History
  <2> QED
    BY <2>1
<1>7. CASE OwnClaim
  <2>1. /\ ~ history.missed /\ own.step = "written" /\ own # NoWrite /\ own' = NoWrite
        /\ UNCHANGED <<disk, events, since, age, ignored, timers, jobs>>
    BY <1>7, Idle DEF OwnClaim
  <2>2. /\ events \subseteq Own /\ row.state = "listed"
        /\ disk.data # 0 /\ row.data = disk.data /\ ~ disk.unread
    BY <2>1 DEF Follows, OneWrite
  <2>3. AllIdle
    BY <2>1 DEF Follows, OneIndex, AllIdle
  <2>4. row'.state = "held" /\ row'.data = row.data
    BY <1>7, <2>2 DEF OwnClaim, Types, Item
  <2>5. AllIdle'
    BY <2>1, <2>3 DEF AllIdle
  <2>6. OneIndex' /\ OneWrite'
    BY <2>1, <2>5, Idle DEF OneIndex, OneWrite, AllIdle
  <2>7. <<"write", "engine">> \in events =>
          ignored' /\ \E t \in timers' : timers' = {t} /\ Recent(t)'
    BY <2>1, <2>2 DEF Follows, Unheard, Recent
  <2>8. Unheard'
    BY <2>1, <2>2, <2>7, Idle DEF Unheard
  <2>9. Settled'
    BY <2>1, <2>2, <2>4 DEF Settled, InStep
  <2> QED
    BY <2>6, <2>8, <2>9
<1> QED
  BY <1>1, <1>2, <1>3, <1>4, <1>5, <1>6, <1>7 DEF OwnStep, Finish

\* What an index puts in the catalog before it claims the copy is held only where it
\* was, and not for an import.
LEMMA PutKept ==
  ASSUME Types, NEW j \in Job, NEW d, Kept(j), j.step = "read"
  PROVE  /\ CanPut(j)
         /\ j.import => Put(j, d).state # "held"
         /\ Put(j, d).state = "held" <=> row.state = "held"
         /\ j.sees = "listed" => j.known # disk.data
BY DEF Kept, CanPut, Put, Types, Item, Job

\* An index catalogues the file it has read, or gives up: nobody changes the file
\* meanwhile, nor the row but to list another's item (Indexer::index, whose sections
\* let the mutex go in between).
LEMMA IndexFollows == Base /\ Base' /\ Follows /\ Index => Follows'
<1> SUFFICES ASSUME Types, Shapes, Base', Follows, ~ history'.missed,
                    NEW w \in Worker,
                    \/ IndexLook(w) \/ IndexLookAgain(w) \/ MakeWay(w) \/ IndexRead(w)
                    \/ IndexClaim(w) \/ IndexLookFails(w) \/ MakeWayFails(w)
                    \/ IndexReadFails(w) \/ IndexClaimFails(w) \/ Undo(w)
             PROVE  Unheard' /\ OneIndex' /\ OneWrite' /\ Settled'
  BY DEF Base, Follows, Index
<1> USE FolderAssumption
<1>j. jobs[w] \in Job /\ Shaped(jobs[w])
  BY DEF Types, Shapes
<1>0. ~ history.missed /\ jobs[w] # NoJob
  <2>1. jobs[w].step # "idle"
    BY DEF IndexLook, IndexLookAgain, MakeWay, IndexRead, IndexClaim, IndexLookFails,
           MakeWayFails, IndexReadFails, IndexClaimFails, Undo
  <2>2. CASE MakeWay(w)
    BY <2>1, <2>2, Idle DEF MakeWay, Note, Types, History
  <2>3. CASE MakeWayFails(w)
    BY <2>1, <2>3, Idle DEF MakeWayFails, Types, History
  <2>4. CASE IndexLookFails(w) \/ IndexReadFails(w) \/ IndexClaimFails(w)
    <3>1. GivesUp(w)
      BY <2>4 DEF IndexLookFails, IndexReadFails, IndexClaimFails
    <3> QED
      BY <2>1, <3>1, Idle DEF GivesUp, Types, History
  <2>5. CASE ~ (MakeWay(w) \/ MakeWayFails(w) \/ IndexLookFails(w) \/ IndexReadFails(w)
                \/ IndexClaimFails(w))
    <3>1. history' = history
      BY <2>5 DEF IndexLook, IndexLookAgain, IndexRead, IndexClaim, Undo
    <3> QED
      BY <2>1, <3>1, Idle
  <2> QED
    BY <2>2, <2>3, <2>4, <2>5
<1>1. /\ \A v \in Worker : jobs[v] # NoJob => v = w
      /\ own = NoWrite /\ disk.data # 0 /\ events \subseteq Own
      /\ Kept(jobs[w])
  BY <1>0 DEF Follows, OneIndex
<1>2. own' = NoWrite /\ OneWrite' /\ UNCHANGED <<since, age>>
  <2>1. own' = NoWrite /\ UNCHANGED <<since, age>>
    BY <1>1 DEF IndexLook, IndexLookAgain, MakeWay, IndexRead, IndexClaim, IndexLookFails,
                MakeWayFails, IndexReadFails, IndexClaimFails, Undo
  <2> QED
    BY <2>1, Idle DEF OneWrite
<1>3. ASSUME jobs' = [jobs EXCEPT ![w] = NoJob]
      PROVE  AllIdle' /\ OneIndex'
  <2>1. \A v \in Worker : jobs'[v] = NoJob
    BY <1>1, <1>3 DEF Types
  <2> QED
    BY <2>1 DEF AllIdle, OneIndex
<1>4. ASSUME NEW j, jobs' = [jobs EXCEPT ![w] = j], j # NoJob, disk'.data # 0,
             events' \subseteq Own, Kept(j)'
      PROVE  OneIndex' /\ Settled'
  <2>1. jobs'[w] = j /\ \A v \in Worker \ {w} : jobs'[v] = NoJob
    BY <1>1, <1>4 DEF Types
  <2>2. Kept(jobs[w])'
    BY <1>4, <2>1 DEF Kept
  <2>3. ~ AllIdle'
    BY <1>4, <2>1 DEF AllIdle
  <2> QED
    BY <1>2, <1>4, <2>1, <2>2, <2>3 DEF OneIndex, Settled
<1>5. <<"write", "engine">> \in events =>
        ignored /\ \E t \in timers : timers = {t} /\ Recent(t)
  BY <1>0, <1>1, Idle DEF Follows, Unheard
<1>6. ASSUME events' = events, UNCHANGED <<ignored, timers>>
      PROVE  Unheard'
  <2>1. <<"write", "engine">> \in events' =>
          ignored' /\ \E t \in timers' : timers' = {t} /\ Recent(t)'
    BY <1>2, <1>5, <1>6 DEF Recent
  <2> QED
    BY <1>1, <1>6, <2>1, Idle DEF Unheard
<1>7. ASSUME UNCHANGED <<disk, events>>, row'.state # "held", timers' = {Grace},
             jobs' = [jobs EXCEPT ![w] = [NoJob EXCEPT !.step = "undo", !.import = TRUE]]
      PROVE  OneIndex' /\ Settled'
  <2>0. PICK j : j = [NoJob EXCEPT !.step = "undo", !.import = TRUE]
    OBVIOUS
  <2>1. j.step = "undo" /\ j.sees = "none" /\ j.import
    BY <2>0 DEF NoJob
  <2>2. j # NoJob /\ jobs' = [jobs EXCEPT ![w] = j]
    BY <1>7, <2>0, <2>1, Idle
  <2>3. Kept(j)'
    BY <1>7, <2>1 DEF Kept
  <2>4. disk'.data # 0 /\ events' \subseteq Own
    BY <1>1, <1>7
  <2> QED
    BY <1>4, <2>2, <2>3, <2>4
\* An index that gives up with the file there and nothing missed is an import's.
<1>8. ASSUME GivesUp(w) \/ MakeWayFails(w)
      PROVE  /\ jobs[w].import /\ row.state # "held" /\ timers = {Grace}
             /\ jobs' = [jobs EXCEPT ![w] = [NoJob EXCEPT !.step = "undo",
                                                          !.import = TRUE]]
  <2>1. history'.missed = (history.missed \/ (disk.data # 0 /\ ~ jobs[w].import))
    BY <1>8 DEF GivesUp, MakeWayFails, Types, History
  <2>2. jobs[w].import
    BY <1>1, <2>1
  <2>3. jobs' = [jobs EXCEPT ![w] = [NoJob EXCEPT !.step = "undo", !.import = TRUE]]
    BY <1>8, <2>2 DEF GivesUp, MakeWayFails, Becomes
  <2>4. row.state # "held" /\ timers = {Grace}
    BY <1>1, <2>2 DEF Kept
  <2> QED
    BY <2>2, <2>3, <2>4
<1>9. CASE IndexLook(w)
  <2>0. PICK j : j = [jobs[w] EXCEPT !.stamp = disk.stamp,
                        !.step = IF row.state = "listed" THEN "rename" ELSE "lookup"]
    OBVIOUS
  <2>1. /\ j.step = IF row.state = "listed" THEN "rename" ELSE "lookup"
        /\ j.import = jobs[w].import /\ j.sees = jobs[w].sees
    BY <1>j, <2>0 DEF Job
  <2>2. /\ jobs' = [jobs EXCEPT ![w] = j]
        /\ UNCHANGED <<disk, row, events, ignored, timers>>
    BY <1>9, <2>0 DEF IndexLook, Becomes
  <2>3. j # NoJob
    BY <2>1, Idle
  <2>4. Kept(j)'
    BY <1>1, <2>1, <2>2 DEF Kept
  <2>5. disk'.data # 0 /\ events' \subseteq Own
    BY <1>1, <2>2
  <2> QED
    BY <1>2, <1>4, <1>6, <2>2, <2>3, <2>4, <2>5
<1>10. CASE IndexLookAgain(w)
  <2>0. PICK j : j = [jobs[w] EXCEPT !.step = "read", !.sees = row.state,
                                     !.known = row.data]
    OBVIOUS
  <2>1. /\ j.step = "read" /\ j.import = jobs[w].import
        /\ j.sees = row.state /\ j.known = row.data
    BY <1>j, <2>0 DEF Types, Item, Job
  <2>2. /\ jobs' = [jobs EXCEPT ![w] = j] /\ jobs[w].step = "lookup"
        /\ UNCHANGED <<disk, row, events, ignored, timers>>
    BY <1>10, <2>0 DEF IndexLookAgain, Becomes
  <2>3. j # NoJob
    BY <2>1, Idle
  <2>4. Kept(j)'
    BY <1>1, <2>1, <2>2 DEF Kept
  <2>5. disk'.data # 0 /\ events' \subseteq Own
    BY <1>1, <2>2
  <2> QED
    BY <1>2, <1>4, <1>6, <2>2, <2>3, <2>4, <2>5
<1>11. CASE MakeWay(w)
  <2>1. AllIdle' /\ OneIndex'
    BY <1>11, <1>3 DEF MakeWay, Becomes
  <2>2. disk'.data = 0 /\ ~ disk'.unread /\ row' = row /\ jobs[w].step = "rename"
    BY <1>11, Idle DEF MakeWay
  <2>3. row'.state = "listed"
    BY <1>1, <2>2 DEF Kept
  <2>4. events' \subseteq Own
    BY <1>1, <1>11 DEF MakeWay, Reported, Own
  <2>5. Unheard'
    BY <2>2, <2>4, Idle DEF Unheard
  <2>6. Settled'
    BY <2>2, <2>3 DEF Settled, InStep
  <2> QED
    BY <1>2, <2>1, <2>5, <2>6
<1>12. CASE IndexRead(w)
  <2>1. /\ jobs[w].step = "read" /\ row' = Put(jobs[w], jobs[w].known)
        /\ disk' = [disk EXCEPT !.unread = FALSE]
        /\ UNCHANGED <<events, ignored, timers>>
    BY <1>12 DEF IndexRead
  <2>2. disk'.data = disk.data /\ ~ disk'.unread
    BY <2>1 DEF Types, File
  <2>3. /\ jobs[w].import => row'.state # "held"
        /\ row'.state = "held" <=> row.state = "held"
        /\ jobs[w].sees = "listed" => jobs[w].known # disk.data
        /\ row'.data = jobs[w].known
    BY <1>1, <1>j, <2>1, PutKept DEF Put
  <2>4. Unheard'
    BY <1>6, <2>1
  <2>5. CASE disk.data = jobs[w].known
    <3>1. AllIdle' /\ OneIndex'
      BY <1>12, <1>3, <2>5 DEF IndexRead, Becomes
    <3>2. row.state = "held"
      <4>1. jobs[w].sees = "held"
        BY <1>1, <1>j, <2>3, <2>5 DEF Shaped, Job
      <4> QED
        BY <1>1, <2>1, <4>1 DEF Kept
    <3>3. Settled'
      BY <1>1, <2>2, <2>3, <2>5, <3>2 DEF Settled, InStep
    <3> QED
      BY <1>2, <2>4, <3>1, <3>3
  <2>6. CASE disk.data # jobs[w].known
    <3>0. PICK j : j = [jobs[w] EXCEPT !.step = "claim", !.data = disk.data]
      OBVIOUS
    <3>1. /\ j.step = "claim" /\ j.data = disk.data
          /\ j.import = jobs[w].import /\ j.sees = jobs[w].sees
      BY <1>j, <3>0 DEF Job
    <3>2. jobs' = [jobs EXCEPT ![w] = j]
      BY <1>12, <2>6, <3>0 DEF IndexRead, Becomes
    <3>3. j # NoJob
      BY <3>1, Idle
    <3>4. Kept(j)'
      BY <1>1, <2>1, <2>2, <2>3, <3>1 DEF Kept
    <3>5. disk'.data # 0 /\ events' \subseteq Own
      BY <1>1, <2>1, <2>2
    <3> QED
      BY <1>2, <1>4, <2>4, <3>2, <3>3, <3>4, <3>5
  <2> QED
    BY <2>5, <2>6
<1>13. CASE IndexClaim(w)
  <2>1. /\ jobs[w].step = "claim" /\ jobs' = [jobs EXCEPT ![w] = NoJob]
        /\ row'.state = "held" /\ row'.data = jobs[w].data
        /\ UNCHANGED <<disk, events, ignored, timers>>
    BY <1>13 DEF IndexClaim, Becomes
  <2>2. jobs[w].data = disk.data /\ ~ disk.unread
    BY <1>1, <2>1 DEF Kept
  <2>3. AllIdle' /\ OneIndex'
    BY <1>3, <2>1
  <2>4. Unheard'
    BY <1>6, <2>1
  <2>5. Settled'
    BY <1>1, <2>1, <2>2 DEF Settled, InStep
  <2> QED
    BY <1>2, <2>3, <2>4, <2>5
<1>14. CASE IndexLookFails(w)
  <2>1. UNCHANGED <<disk, row, events, ignored, timers>>
    BY <1>14 DEF IndexLookFails
  <2> QED
    BY <1>14, <1>2, <1>6, <1>7, <1>8, <2>1 DEF IndexLookFails
<1>15. CASE MakeWayFails(w)
  <2>1. /\ UNCHANGED <<disk, row, events>>
        /\ ignored' /\ timers' = timers \cup {Grace}
    BY <1>15 DEF MakeWayFails, Mark
  <2>2. timers' = {Grace} /\ timers = {Grace}
    BY <1>15, <1>8, <2>1
  <2>3. OneIndex' /\ Settled'
    BY <1>15, <1>7, <1>8, <2>1, <2>2
  <2>4. <<"write", "engine">> \in events' => ignored' /\ Recent(Grace)'
    BY <1>2, <1>5, <2>1, <2>2 DEF Recent
  <2>5. Unheard'
    BY <1>1, <2>1, <2>2, <2>4, Idle DEF Unheard
  <2> QED
    BY <1>2, <2>3, <2>5
<1>16. CASE IndexReadFails(w)
  <2>1. /\ jobs[w].step = "read" /\ UNCHANGED <<disk, events, ignored, timers>>
        /\ row' \in {row, Put(jobs[w], jobs[w].known)} /\ GivesUp(w)
    BY <1>16 DEF IndexReadFails
  <2>2. row'.state # "held"
    BY <1>1, <1>8, <1>j, <2>1, PutKept
  <2> QED
    BY <1>2, <1>6, <1>7, <1>8, <2>1, <2>2
<1>17. CASE IndexClaimFails(w)
  <2>1. /\ jobs[w].step = "claim" /\ UNCHANGED <<disk, events, ignored, timers>>
        /\ row' \in {row, Put(jobs[w], jobs[w].data)} /\ GivesUp(w)
    BY <1>17 DEF IndexClaimFails
  <2>2. row'.state # "held"
    BY <1>1, <1>8, <2>1 DEF Kept, Put
  <2> QED
    BY <1>2, <1>6, <1>7, <1>8, <2>1, <2>2
<1>18. CASE Undo(w)
  <2>1. AllIdle' /\ OneIndex'
    BY <1>18, <1>3 DEF Undo, Becomes
  <2>2. disk'.data = 0 /\ ~ disk'.unread /\ row' = row /\ jobs[w].import
    BY <1>18, <1>j, Idle DEF Undo, Shaped
  <2>3. row'.state # "held"
    BY <1>1, <2>2 DEF Kept
  <2>4. events' \subseteq Own \cup {<<"remove", "engine">>}
    BY <1>1, <1>18 DEF Undo, Reported
  <2>5. Unheard'
    BY <1>2, <2>1, <2>2, <2>3, <2>4, Idle DEF Unheard
  <2>6. Settled'
    BY <2>2, <2>3 DEF Settled, InStep
  <2> QED
    BY <1>2, <2>1, <2>5, <2>6
<1> QED
  BY <1>9, <1>10, <1>11, <1>12, <1>13, <1>14, <1>15, <1>16, <1>17, <1>18

\* Events are heard and time passes (handle_fs_event).
LEMMA HandleFollows == Base /\ Base' /\ Follows /\ (Handle \/ Unmark \/ Tick) => Follows'
<1> SUFFICES ASSUME Types, Shapes, Base', Follows, Handle \/ Unmark \/ Tick,
                    ~ history'.missed
             PROVE  Unheard' /\ OneIndex' /\ OneWrite' /\ Settled'
  BY DEF Base, Follows
<1> USE FolderAssumption
<1>1. ASSUME NEW who \in {"person", "engine"}, HearWrite(who)
      PROVE  Unheard' /\ OneIndex' /\ OneWrite' /\ Settled'
  <2>0. /\ <<"write", who>> \in events /\ events' = events \ {<<"write", who>>}
        /\ UNCHANGED <<disk, row, ignored, timers, own>>
    BY <1>1 DEF HearWrite
  <2>1. ~ history.missed
    <3>1. CASE Taken
      <4>1. PICK b \in BOOLEAN : Note("echoed", b)
        BY <1>1, <3>1 DEF HearWrite
      <4> QED
        BY <4>1, Noted
    <3>2. CASE ~ Taken
      BY <1>1, <3>2 DEF HearWrite
    <3> QED
      BY <3>1, <3>2
  <2>2. CASE who = "person"
    <3>1. ByPerson("write") /\ since = Debounce /\ disk.data # 0
      BY <2>0, <2>1, <2>2 DEF Follows, Unheard
    <3>2. Taken /\ AllIdle /\ own' = NoWrite /\ events' = {}
      BY <2>0, <2>2, <3>1 DEF Taken, ByPerson
    <3>3. PICK j : j = [NoJob EXCEPT !.step = "waiting", !.left = Wait]
      OBVIOUS
    <3>4. PICK w \in Worker : jobs' = [jobs EXCEPT ![w] = j]
      BY <1>1, <3>2, <3>3 DEF HearWrite, Becomes
    <3>5. j.step = "waiting" /\ j.sees = "none" /\ ~ j.import
      BY <3>3 DEF NoJob
    <3>6. OneIndex' /\ ~ AllIdle'
      BY <2>0, <3>1, <3>2, <3>4, <3>5, OneBegins
    <3> QED
      BY <3>2, <3>6, Idle DEF Unheard, OneWrite, Settled
  <2>3. CASE who = "engine"
    <3>1. ~ Taken
      BY <2>0, <2>1, <2>3 DEF Follows, Unheard, Taken
    <3>2. UNCHANGED <<since, jobs>>
      BY <1>1, <3>1 DEF HearWrite
    <3>3. Unheard'
      BY <2>0, <2>1, <2>3, <3>2 DEF Follows, Unheard, ByPerson, AllIdle
    <3>4. OneIndex' /\ OneWrite'
      BY <2>0, <2>1, <3>2 DEF Follows, OneIndex, Kept, OneWrite
    <3>5. Settled'
      BY <2>0, <2>1, <2>3, <3>2 DEF Follows, Settled, AllIdle, InStep
    <3> QED
      BY <3>3, <3>4, <3>5
  <2> QED
    BY <2>2, <2>3
<1>2. ASSUME NEW who \in {"person", "engine"}, HearRemove(who)
      PROVE  Unheard' /\ OneIndex' /\ OneWrite' /\ Settled'
  <2>0. /\ <<"remove", who>> \in events /\ events' = events \ {<<"remove", who>>}
        /\ UNCHANGED <<disk, since, ignored, timers, jobs, own>>
        /\ <<"write", "engine">> \in events' => age' = age
    BY <1>2 DEF HearRemove, ByEngine
  <2>1. ~ history.missed
    <3>1. CASE ~ ignored
      <4>1. PICK b \in BOOLEAN : Note("echoed", b)
        BY <1>2, <3>1 DEF HearRemove
      <4> QED
        BY <4>1, Noted
    <3>2. CASE ignored
      BY <1>2, <3>2 DEF HearRemove
    <3> QED
      BY <3>1, <3>2
  <2>2. row.state # "held" => row' = row
    BY <1>2 DEF HearRemove
  <2>3. CASE who = "person"
    <3>1. ByPerson("remove") /\ disk.data = 0
      BY <2>0, <2>1, <2>3 DEF Follows, Unheard
    <3>2. AllIdle' /\ own' = NoWrite /\ events' = {}
      BY <2>0, <2>3, <3>1 DEF ByPerson, AllIdle
    <3>3. row'.state # "held"
      <4>1. row.state = "held" =>
              row' = Unlisted \/ row' = [row EXCEPT !.state = "listed"]
        BY <1>2, <3>1 DEF HearRemove, ByPerson, Forgotten
      <4> QED
        BY <2>2, <4>1, Idle DEF Types, Item
    <3>4. Settled'
      BY <2>0, <3>1, <3>3 DEF Settled, InStep, Shapes
    <3> QED
      BY <3>2, <3>4, Idle DEF Unheard, OneIndex, OneWrite, AllIdle
  <2>4. CASE who = "engine"
    <3>1. AllIdle /\ own = NoWrite /\ row' = row
      BY <2>0, <2>1, <2>2, <2>4 DEF Follows, Unheard
    <3>2. Unheard'
      BY <2>0, <2>1, <2>4, <3>1 DEF Follows, Unheard, ByPerson, AllIdle, Recent
    <3>3. OneIndex' /\ OneWrite'
      BY <2>0, <2>1, <3>1 DEF Follows, OneIndex, Kept, OneWrite
    <3>4. Settled'
      BY <2>0, <2>1, <2>4, <3>1 DEF Follows, Settled, AllIdle, InStep
    <3> QED
      BY <3>2, <3>3, <3>4
  <2> QED
    BY <2>3, <2>4
<1>3. CASE Unmark
  <2>0. /\ 0 \in timers /\ timers' = timers \ {0} /\ ~ ignored' /\ ~ history.missed
        /\ UNCHANGED <<disk, row, events, since, age, jobs, own>>
    BY <1>3 DEF Unmark
  <2>1. own.step # "writing" /\ timers # {Grace} /\ ~ Recent(0)
    BY <2>0, Bounds DEF Follows, OneWrite, Types
  <2>2. <<"write", "engine">> \in events => disk.data = 0
    BY <2>0, <2>1 DEF Follows, Unheard
  <2>3. Unheard'
    BY <2>0, <2>2 DEF Follows, Unheard, ByPerson, AllIdle
  <2>4. OneIndex' /\ OneWrite'
    BY <2>0, <2>1 DEF Follows, OneIndex, Kept, OneWrite
  <2>5. Settled'
    BY <2>0 DEF Follows, Settled, AllIdle, InStep
  <2> QED
    BY <2>3, <2>4, <2>5
<1>4. CASE Tick
  <2>0. /\ timers' = {t - 1 : t \in timers} /\ ~ history.missed
        /\ since = Debounce => since' = Debounce
        /\ \A w \in Worker : jobs[w].step # "idle" => jobs[w].left > 0
        /\ UNCHANGED <<disk, row, events, ignored, own>>
    BY <1>4 DEF Tick
  <2>1. \A w \in Worker :
          jobs'[w] = IF jobs[w].left > 0 THEN [jobs[w] EXCEPT !.left = jobs[w].left - 1]
                     ELSE jobs[w]
    BY <1>4 DEF Tick
  <2>2. ASSUME NEW j \in Job, Shaped(j), NEW k,
               k = IF j.left > 0 THEN [j EXCEPT !.left = j.left - 1] ELSE j
        PROVE  /\ k = NoJob <=> j = NoJob
               /\ k.step = j.step /\ k.sees = j.sees /\ k.import = j.import
               /\ k.known = j.known /\ k.data = j.data
    <3>1. /\ k.step = j.step /\ k.sees = j.sees /\ k.import = j.import
          /\ k.known = j.known /\ k.data = j.data
      BY <2>2 DEF Job
    <3>2. k = NoJob => j = NoJob
      BY <2>2, <3>1, Idle DEF Shaped
    <3>3. j = NoJob => k = NoJob
      <4>1. j = NoJob => j.left = 0
        BY Idle
      <4> QED
        BY <2>2, <4>1
    <3> QED
      BY <3>1, <3>2, <3>3
  <2>3. ASSUME NEW w \in Worker
        PROVE  /\ jobs'[w] = NoJob <=> jobs[w] = NoJob
               /\ jobs'[w].step = jobs[w].step /\ jobs'[w].sees = jobs[w].sees
               /\ jobs'[w].import = jobs[w].import
               /\ jobs'[w].known = jobs[w].known /\ jobs'[w].data = jobs[w].data
    <3>1. PICK j : j = jobs[w]
      OBVIOUS
    <3>2. PICK k : k = jobs'[w]
      OBVIOUS
    <3>3. j \in Job /\ Shaped(j)
      BY <3>1 DEF Types, Shapes
    <3>4. k = IF j.left > 0 THEN [j EXCEPT !.left = j.left - 1] ELSE j
      BY <2>1, <3>1, <3>2
    <3> QED
      BY <2>2, <3>1, <3>2, <3>3, <3>4
  <2>4. AllIdle' <=> AllIdle
    BY <2>3 DEF AllIdle
  <2>5. ASSUME NEW w \in Worker, jobs[w] # NoJob
        PROVE  ~ jobs[w].import
    <3>1. jobs[w] \in Job /\ Shaped(jobs[w])
      BY DEF Types, Shapes
    <3>2. jobs[w].left # 0
      BY <2>0, <2>5, <3>1 DEF Shaped, Job
    <3> QED
      BY <3>1, <3>2 DEF Shaped
  <2>6. OneIndex'
    <3>1. ASSUME NEW w \in Worker, jobs'[w] # NoJob
          PROVE  Kept(jobs[w])'
      <4>1. jobs[w] # NoJob /\ ~ jobs[w].import /\ ~ jobs'[w].import
        BY <2>3, <2>5, <3>1
      <4>2. Kept(jobs[w])
        BY <2>0, <4>1 DEF Follows, OneIndex
      <4> QED
        BY <2>0, <2>3, <4>1, <4>2 DEF Kept
    <3>2. ASSUME NEW w \in Worker, jobs'[w] # NoJob
          PROVE  /\ \A v \in Worker : jobs'[v] # NoJob => v = w
                 /\ own' = NoWrite /\ disk'.data # 0 /\ events' \subseteq Own
      BY <2>0, <2>3, <3>2 DEF Follows, OneIndex
    <3> QED
      BY <3>1, <3>2 DEF OneIndex
  <2>7. OneWrite'
    BY <2>0 DEF Follows, OneWrite
  <2>8. Settled'
    BY <2>0, <2>4 DEF Follows, Settled, InStep
  <2>9. ASSUME <<"write", "engine">> \in events, NEW t \in timers, timers = {t}, Recent(t)
        PROVE  t - 1 \in timers' /\ timers' = {t - 1} /\ Recent(t - 1)'
    <3>1. events \cap ByEngine # {}
      BY <2>9 DEF ByEngine
    <3>2. age' = age + 1
      BY <1>4, <3>1 DEF Tick
    <3>3. t \in Nat /\ age \in Nat
      BY DEF Types
    <3>4. (t - 1) + (age + 1) >= Grace
      BY <2>9, <3>3 DEF Recent
    <3>5. Recent(t - 1)'
      BY <3>2, <3>4 DEF Recent
    <3> QED
      BY <2>0, <2>9, <3>5
  <2>10. <<"write", "engine">> \in events /\ disk.data # 0 =>
           ignored /\ (own.step = "writing"
                       \/ \E t \in timers' : timers' = {t} /\ Recent(t)')
    BY <2>0, <2>9 DEF Follows, Unheard
  <2>11. Unheard'
    BY <2>0, <2>4, <2>10 DEF Follows, Unheard, ByPerson
  <2> QED
    BY <2>6, <2>7, <2>8, <2>11
<1> QED
  BY <1>1, <1>2, <1>3, <1>4 DEF Handle

\* Every step keeps Follows.
LEMMA FollowsStep == Base /\ Base' /\ Handed /\ Follows /\ [Next]_vars => Follows'
<1>1. Follows /\ UNCHANGED vars => Follows'
  <2> SUFFICES ASSUME Follows, UNCHANGED vars
               PROVE  Follows'
    OBVIOUS
  <2>1. UNCHANGED <<disk, row, events, since, age, ignored, timers, jobs, own, history>>
    BY DEF vars
  <2>2. ~ history.missed => Unheard'
    BY <2>1 DEF Follows, Unheard, ByPerson, AllIdle, Recent
  <2>3. ~ history.missed => OneIndex' /\ OneWrite' /\ Settled'
    BY <2>1 DEF Follows, OneIndex, Kept, OneWrite, Settled, AllIdle, InStep
  <2> QED
    BY <2>1, <2>2, <2>3 DEF Follows
<1> QED
  BY <1>1, PersonFollows, OwnFollows, IndexFollows, HandleFollows DEF Next

LEMMA HandedInit == Init => Handed
BY DEF Init, Handed, Contents, Nothing, Unlisted, NoWrite, NoJob

LEMMA FollowsInit == Init => Follows
BY Idle DEF Init, Follows, Unheard, OneIndex, OneWrite, Settled, InStep

\* Whatever a person does in a quiet folder is in the catalog once the watcher is
\* through with it, and whatever the engine does leaves folder and catalog agreed,
\* imports that fail half-way too, unless the one crossed the other, a file was moved
\* out of the folder or an index gave up on a person's file (start_watcher, index,
\* import_file, pull_copy, finalize_file).
THEOREM CatalogFollowsFolder == Spec => []InStepUnlessMissed
<1>1. Follows => InStepUnlessMissed
  BY QuietAgrees DEF InStepUnlessMissed
<1> QED
  BY <1>1, BaseInit, BaseStep, HandedInit, HandedStep, FollowsInit,
     FollowsStep, PTL DEF Spec

\* The engine writes over a file no index has read only where the one crossed the
\* other, or an index gave up on the file (assemble_file_from_blocks, which asks
\* nobody what it truncates).
THEOREM UnreadKept == Spec => UnreadIsKept
<1>1. Base /\ Base' /\ Follows /\ [Next]_vars
        => [disk.unread /\ disk'.data = Part => history'.missed]_vars
  <2> SUFFICES ASSUME Types, Counted, Shapes, Follows, Next, disk.unread,
                      disk'.data = Part
               PROVE  history'.missed
    BY DEF Base
  <2>0. disk.data # Part
    BY DEF Shapes
  <2>1. ASSUME NEW kind \in {"pull", "push", "import"}, OwnBegin(kind)
        PROVE  history'.missed
    <3>1. history'.missed = (history.missed \/ Crossing) /\ own = NoWrite
      BY <2>1 DEF OwnBegin, Types, History
    <3>2. CASE ~ history.missed /\ ~ Crossing
      <4>1. Quiet
        BY <3>1, <3>2 DEF Crossing, Quiet
      <4> QED
        BY <3>2, <4>1, QuietAgrees
    <3> QED
      BY <3>1, <3>2
  <2>2. CASE Save
    <3>1. acts < MaxActs /\ disk'.data = made.version + 1
      BY <2>2 DEF Save
    <3>2. acts + owns < MaxActs + MaxOwn
      BY <3>1, FolderAssumption DEF Types
    <3> QED
      BY <3>1, <3>2, HandedOut
  <2>3. CASE Delete \/ OwnRemove
    BY <2>3, Idle, Bounds DEF Delete, OwnRemove
  <2>4. CASE Scan \/ Start \/ Stop \/ Crash \/ OwnGrow \/ Learn \/ OwnFail \/ OwnClaim
             \/ Unmark \/ Tick \/ Handle
    <3>1. disk' = disk
      BY <2>4 DEF Scan, Start, Stop, Crash, OwnGrow, Learn, OwnFail, OwnClaim, Unmark,
                  Tick, Handle, HearWrite, HearRemove
    <3> QED
      BY <2>0, <3>1
  <2>5. CASE OwnEnd
    <3>1. disk' = disk
      BY <2>0, <2>5 DEF OwnEnd
    <3> QED
      BY <2>0, <3>1
  <2>6. ASSUME NEW w \in Worker,
               \/ IndexLook(w) \/ IndexLookAgain(w) \/ MakeWay(w) \/ IndexRead(w)
               \/ IndexClaim(w) \/ IndexLookFails(w) \/ MakeWayFails(w)
               \/ IndexReadFails(w) \/ IndexClaimFails(w) \/ Undo(w)
        PROVE  history'.missed
    <3>1. disk' = disk \/ disk' = Nothing \/ disk' = [disk EXCEPT !.unread = FALSE]
      BY <2>6 DEF IndexLook, IndexLookAgain, MakeWay, IndexRead, IndexClaim,
                  IndexLookFails, MakeWayFails, IndexReadFails, IndexClaimFails, Undo
    <3>2. disk'.data \in {disk.data, 0}
      BY <3>1, Idle DEF Types, File
    <3> QED
      BY <2>0, <3>2, Bounds
  <2> QED
    BY <2>1, <2>2, <2>3, <2>4, <2>5, <2>6
       DEF Next, PersonStep, OwnStep, Finish, Index
<1> QED
  BY <1>1, BaseInit, BaseStep, HandedInit, HandedStep, FollowsInit,
     FollowsStep, PTL DEF Spec, UnreadIsKept
=============================================================================
