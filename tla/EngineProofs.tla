---------------------------- MODULE EngineProofs ----------------------------
(* Theorems about Engine, for any peers and any number of starts.           *)
EXTENDS Engine, TLAPS

Starting == call \in {"discover", "sync", "replace", "watch", "sweep"}

LifeOK ==
  /\ call \in Steps /\ runs \in 0 .. MaxRun
  /\ handle \in [Part -> 0 .. MaxRun] /\ previous \in 0 .. MaxRun

\* How far a start has come says which handles are its own; how far a stop has
\* come, which ones are gone.  The sync task being replaced is of an earlier start.
Progress ==
  /\ Starting => runs # 0 /\ handle["nudge"] = runs /\ handle["server"] = runs
  /\ handle["sync"] <= runs
  /\ call \in {"discover", "sync"} => handle["sync"] # runs
  /\ call \in {"replace", "watch", "sweep"} => handle["sync"] = runs
  /\ call = "replace" => previous # runs
  /\ call = "none" /\ Running /\ ~ failed =>
       handle["nudge"] = handle["sync"] /\ handle["sync"] # 0
  /\ call \in {"unserve", "unsweep", "unsync", "unnudge"} => handle["mdns"] = 0
  /\ call \in {"unsweep", "unsync", "unnudge"} => handle["server"] = 0
  /\ call \in {"unsync", "unnudge"} => handle["sweep"] = 0
  /\ call = "unnudge" => handle["sync"] = 0

\* With no start on top of another, the handles know all there is.
Owned ==
  ~ again =>
    /\ servers \subseteq {handle["server"]} \ {0}
    /\ sweeps \subseteq {handle["sweep"]} \ {0}
    /\ Starting => handle["sweep"] = 0
    /\ call \notin {"none", "discover", "sync", "replace", "watch", "sweep"} => ~ watching
    /\ call = "none" /\ ~ Running => ~ watching /\ \A x \in Part : handle[x] = 0

\* While one sync task replaces another there are these two.
Replacing == call = "replace" => syncs = {runs, previous} \ {0}

LifeInv == LifeOK /\ Progress /\ Owned /\ OneSyncTask /\ Replacing

LEMMA LifecycleIsKept == Spec => []LifeInv
<1> USE EngineAssumption DEF Starting, Running
<1>1. Init => LifeInv
  BY DEF Init, Steps, Part, LifeInv, LifeOK, Progress, Owned, OneSyncTask, Replacing
<1>2. LifeInv /\ [Next]_vars => LifeInv'
  <2> SUFFICES ASSUME LifeInv, [Next]_vars PROVE LifeInv'
    OBVIOUS
  <2>0. /\ handle \in [Part -> 0 .. MaxRun] /\ runs \in 0 .. MaxRun
        /\ previous \in 0 .. MaxRun
        /\ "nudge" \in Part /\ "server" \in Part /\ "mdns" \in Part /\ "sync" \in Part
        /\ "sweep" \in Part
    BY DEF LifeInv, LifeOK, Part
  \* A step that sets handle x and no other.
  <2>1. ASSUME NEW x \in Part, NEW r \in 0 .. MaxRun, handle' = [handle EXCEPT ![x] = r]
        PROVE  /\ handle' \in [Part -> 0 .. MaxRun] /\ handle'[x] = r
               /\ \A y \in Part \ {x} : handle'[y] = handle[y]
    BY <2>0, <2>1
  <2>2. CASE Serve
    <3>1. /\ handle' \in [Part -> 0 .. MaxRun] /\ runs' \in 0 .. MaxRun /\ runs' # 0
          /\ handle'["nudge"] = runs' /\ handle'["server"] = runs'
          /\ \A y \in Part \ {"nudge", "server"} : handle'[y] = handle[y]
      BY <2>0, <2>2 DEF Serve
    <3>2. LifeOK' /\ Progress'
      BY <2>0, <2>2, <3>1 DEF Serve, Steps, LifeInv, LifeOK, Progress
    <3>3. Owned'
      BY <2>0, <2>2, <3>1 DEF Serve, LifeInv, Owned
    <3>4. OneSyncTask' /\ Replacing'
      BY <2>0, <2>2, <3>1 DEF Serve, LifeInv, OneSyncTask, Replacing
    <3> QED
      BY <3>2, <3>3, <3>4 DEF LifeInv
  <2>3. CASE Discover
    <3>1. handle' = [handle EXCEPT !["mdns"] = runs]
      BY <2>3 DEF Discover
    <3>2. /\ handle' \in [Part -> 0 .. MaxRun]
          /\ \A y \in Part \ {"mdns"} : handle'[y] = handle[y]
      BY <2>0, <2>1, <3>1
    <3>3. LifeOK' /\ Progress'
      BY <2>0, <2>3, <3>2 DEF Discover, Steps, LifeInv, LifeOK, Progress
    <3>4. Owned' /\ OneSyncTask' /\ Replacing'
      BY <2>0, <2>3, <3>2 DEF Discover, LifeInv, Owned, OneSyncTask, Replacing
    <3> QED
      BY <3>3, <3>4 DEF LifeInv
  <2>4. CASE Sync
    <3>1. handle' = [handle EXCEPT !["sync"] = runs]
      BY <2>4 DEF Sync
    <3>2. /\ handle' \in [Part -> 0 .. MaxRun] /\ handle'["sync"] = runs
          /\ \A y \in Part \ {"sync"} : handle'[y] = handle[y]
      BY <2>0, <2>1, <3>1
    <3>3. LifeOK' /\ Progress'
      BY <2>0, <2>4, <3>2 DEF Sync, Steps, LifeInv, LifeOK, Progress
    <3>4. Owned'
      BY <2>0, <2>4, <3>2 DEF Sync, LifeInv, Owned
    <3>5. OneSyncTask' /\ Replacing'
      BY <2>0, <2>4, <3>2 DEF Sync, LifeInv, Progress, OneSyncTask, Replacing
    <3> QED
      BY <3>3, <3>4, <3>5 DEF LifeInv
  <2>a. CASE Replace
    <3>1. LifeOK' /\ Progress'
      BY <2>a DEF Replace, Steps, LifeInv, LifeOK, Progress
    <3>2. Owned'
      BY <2>a DEF Replace, LifeInv, Owned
    <3>3. OneSyncTask' /\ Replacing'
      BY <2>0, <2>a DEF Replace, AbortSync, LifeInv, Progress, OneSyncTask, Replacing
    <3> QED
      BY <3>1, <3>2, <3>3 DEF LifeInv
  <2>5. CASE Watch \/ StartFails
    <3>1. LifeOK' /\ Progress'
      BY <2>5 DEF Watch, StartFails, Steps, tasks, LifeInv, LifeOK, Progress
    <3>2. Owned' /\ OneSyncTask' /\ Replacing'
      BY <2>5 DEF Watch, StartFails, tasks, LifeInv, Progress, Owned, OneSyncTask, Replacing
    <3> QED
      BY <3>1, <3>2 DEF LifeInv
  <2>6. CASE Sweep
    <3>1. handle' = [handle EXCEPT !["sweep"] = runs]
      BY <2>6 DEF Sweep
    <3>2. /\ handle' \in [Part -> 0 .. MaxRun] /\ handle'["sweep"] = runs
          /\ \A y \in Part \ {"sweep"} : handle'[y] = handle[y]
      BY <2>0, <2>1, <3>1
    <3>3. LifeOK' /\ Progress'
      BY <2>0, <2>6, <3>2 DEF Sweep, Steps, LifeInv, LifeOK, Progress
    <3>4. Owned' /\ OneSyncTask' /\ Replacing'
      BY <2>0, <2>6, <3>2 DEF Sweep, LifeInv, Progress, Owned, OneSyncTask, Replacing
    <3> QED
      BY <3>3, <3>4 DEF LifeInv
  <2>7. CASE Unwatch
    <3>1. LifeOK' /\ Progress'
      BY <2>7 DEF Unwatch, Steps, LifeInv, LifeOK, Progress
    <3>2. Owned' /\ OneSyncTask' /\ Replacing'
      BY <2>7 DEF Unwatch, LifeInv, Owned, OneSyncTask, Replacing
    <3> QED
      BY <3>1, <3>2 DEF LifeInv
  <2>8. ASSUME Undiscover \/ Unserve \/ Unsweep \/ Unsync \/ Unnudge PROVE LifeInv'
    <3>1. ASSUME NEW x \in Part, Take(x)
          PROVE  /\ handle' \in [Part -> 0 .. MaxRun] /\ handle'[x] = 0
                 /\ \A y \in Part \ {x} : handle'[y] = handle[y]
      BY <2>0, <3>1 DEF Take
    <3>2. CASE Undiscover
      <4>1. /\ handle' \in [Part -> 0 .. MaxRun] /\ handle'["mdns"] = 0
            /\ \A y \in Part \ {"mdns"} : handle'[y] = handle[y]
        BY <2>0, <3>1, <3>2 DEF Undiscover
      <4>2. LifeOK' /\ Progress'
        BY <2>0, <3>2, <4>1 DEF Undiscover, Steps, LifeInv, LifeOK, Progress
      <4>3. Owned' /\ OneSyncTask' /\ Replacing'
        BY <2>0, <3>2, <4>1 DEF Undiscover, tasks, LifeInv, Owned, OneSyncTask, Replacing
      <4> QED
        BY <4>2, <4>3 DEF LifeInv
    <3>3. CASE Unserve
      <4>1. /\ handle' \in [Part -> 0 .. MaxRun] /\ handle'["server"] = 0
            /\ \A y \in Part \ {"server"} : handle'[y] = handle[y]
        BY <2>0, <3>1, <3>3 DEF Unserve
      <4>2. LifeOK' /\ Progress'
        BY <2>0, <3>3, <4>1 DEF Unserve, Steps, LifeInv, LifeOK, Progress
      <4>3. Owned' /\ OneSyncTask' /\ Replacing'
        BY <2>0, <3>3, <4>1 DEF Unserve, LifeInv, Owned, OneSyncTask, Replacing
      <4> QED
        BY <4>2, <4>3 DEF LifeInv
    <3>4. CASE Unsweep
      <4>1. /\ handle' \in [Part -> 0 .. MaxRun] /\ handle'["sweep"] = 0
            /\ \A y \in Part \ {"sweep"} : handle'[y] = handle[y]
        BY <2>0, <3>1, <3>4 DEF Unsweep
      <4>2. LifeOK' /\ Progress'
        BY <2>0, <3>4, <4>1 DEF Unsweep, Steps, LifeInv, LifeOK, Progress
      <4>3. Owned' /\ OneSyncTask' /\ Replacing'
        BY <2>0, <3>4, <4>1 DEF Unsweep, LifeInv, Owned, OneSyncTask, Replacing
      <4> QED
        BY <4>2, <4>3 DEF LifeInv
    <3>5. CASE Unsync
      <4>1. /\ handle' \in [Part -> 0 .. MaxRun] /\ handle'["sync"] = 0
            /\ \A y \in Part \ {"sync"} : handle'[y] = handle[y]
        BY <2>0, <3>1, <3>5 DEF Unsync
      <4>2. LifeOK' /\ Progress'
        BY <2>0, <3>5, <4>1 DEF Unsync, Steps, LifeInv, LifeOK, Progress
      <4>3. Owned' /\ OneSyncTask' /\ Replacing'
        BY <2>0, <3>5, <4>1 DEF Unsync, AbortSync, LifeInv, Owned, OneSyncTask, Replacing
      <4> QED
        BY <4>2, <4>3 DEF LifeInv
    <3>6. CASE Unnudge
      <4>1. /\ handle' \in [Part -> 0 .. MaxRun] /\ handle'["nudge"] = 0
            /\ \A y \in Part \ {"nudge"} : handle'[y] = handle[y]
        BY <2>0, <3>1, <3>6 DEF Unnudge
      <4>2. LifeOK' /\ Progress'
        BY <2>0, <3>6, <4>1 DEF Unnudge, Steps, LifeInv, LifeOK, Progress
      <4>3. Owned' /\ OneSyncTask' /\ Replacing'
        BY <2>0, <3>6, <4>1 DEF Unnudge, tasks, Part, LifeInv, Progress, Owned, OneSyncTask, Replacing
      <4> QED
        BY <4>2, <4>3 DEF LifeInv
    <3> QED
      BY <2>8, <3>2, <3>3, <3>4, <3>5, <3>6
  \* Peers and syncs leave the lifecycle alone; a server may end by itself.
  <2>9. ASSUME Environment \/ (\E r \in Run : SyncStep(r)) \/ UNCHANGED vars PROVE LifeInv'
    <3>1. /\ UNCHANGED <<lifecycle, syncs, sweeps, watching>>
          /\ servers' \subseteq servers
      BY <2>9 DEF Environment, ServerFails, Connect, Disconnect, ThreadEnds, LateServerEnds,
         LateSyncEnds, LateSync, Resolve, PeerChanges, Paired, PeerMoves, SyncStep,
         Interval, TakeNudge, SyncWith, tasks, lifecycle, vars
    <3> QED
      BY <3>1 DEF lifecycle, LifeInv, LifeOK, Progress, Owned, OneSyncTask, Replacing
  <2> QED
    BY <2>2, <2>3, <2>4, <2>a, <2>5, <2>6, <2>7, <2>8, <2>9 DEF Next, Step
<1> QED
  BY <1>1, <1>2, PTL DEF Spec

\* Once a start has put its sync task in place it is the only one that goes on, and
\* it can be stopped.
THEOREM OneTask == Spec => []OneSyncTask
<1>1. LifeInv => OneSyncTask
  BY DEF LifeInv
<1> QED
  BY <1>1, LifecycleIsKept, PTL

\* A stop reaches everything that has a handle, even what a start that failed
\* half-way has left.
THEOREM StopIsHeard == Spec => []StopReachesAll
<1>1. LifeInv => StopReachesAll
  BY DEF LifeInv, Owned, Running, OneSyncTask, Part, StopReachesAll
<1> QED
  BY <1>1, LifecycleIsKept, PTL

\* Whoever asks is heard by the task that runs.
THEOREM NudgesAreHeard == Spec => []NudgeIsHeeded
<1>1. LifeInv => NudgeIsHeeded
  BY DEF LifeInv, Progress, Running, OneSyncTask, Heeded, NudgeIsHeeded
<1> QED
  BY <1>1, LifecycleIsKept, PTL

-----------------------------------------------------------------------------
(* The parts of the type invariant, each disturbed by actions of its own; a  *)
(* start that is under way has a number.                                     *)

Live ==
  /\ servers \subseteq Run /\ threads \subseteq Run /\ syncs \subseteq Run
  /\ sweeps \subseteq Run /\ conns \subseteq Run /\ late \subseteq Run

Asked == channel \in [Run -> SUBSET Peer] /\ due \in [Run -> SUBSET Peer]

Seen ==
  /\ at \in [Peer -> Nat] /\ known \in [Peer -> Nat]
  /\ paired \subseteq Peer /\ fresh \subseteq paired
  /\ changes \in 0 .. MaxChanges

Noted == watching \in BOOLEAN /\ failed \in BOOLEAN /\ again \in BOOLEAN

Typed == Live /\ Asked /\ Seen /\ Noted

\* What the engine keeps and what runs have their types in every state.
THEOREM TypeCorrect == Spec => []TypeOK
<1> USE EngineAssumption
<1>1. Init => Typed
  <2>1. Init => Live /\ Asked
    BY DEF Init, Live, Asked
  <2>2. Init => Seen
    BY DEF Init, Seen
  <2>3. Init => Noted
    BY DEF Init, Noted
  <2> QED
    BY <2>1, <2>2, <2>3 DEF Typed
<1>2. LifeInv /\ Typed /\ [Next]_vars => Typed'
  <2> SUFFICES ASSUME LifeInv, Typed, [Next]_vars PROVE Typed'
    OBVIOUS
  <2>1. runs \in 0 .. MaxRun /\ (call \in {"discover", "sync", "sweep"} => runs \in Run)
    BY DEF LifeInv, LifeOK, Progress, Starting, Run
  <2>2. runs < MaxRun => runs + 1 \in Run
    BY <2>1 DEF Run
  \* A step of a start or a stop.
  <2>3. ASSUME Serve \/ StartFails \/ Unwatch \/ Step PROVE Typed'
    <3>1. UNCHANGED <<due, peers>>
      BY <2>3 DEF Serve, StartFails, Unwatch, Step, Discover, Sync, Replace, Watch,
         Sweep, Undiscover, Unserve, Unsweep, Unsync, Unnudge
    <3>a. channel' \in [Run -> SUBSET Peer]
      <4> USE DEF Typed, Asked
      <4>1. CASE StartFails
        BY <4>1 DEF StartFails
      <4>2. ASSUME NEW r, AbortSync(r) PROVE channel' \in [Run -> SUBSET Peer]
        BY <4>2 DEF AbortSync
      <4>3. CASE Replace \/ Unsync
        BY <4>2, <4>3 DEF Replace, Unsync
      <4>4. CASE ~ (StartFails \/ Replace \/ Unsync)
        BY <2>3, <4>4 DEF Serve, Unwatch, Step, Discover, Sync, Watch, Sweep,
           Undiscover, Unserve, Unsweep, Unnudge
      <4> QED
        BY <4>1, <4>3, <4>4
    <3>2. Asked' /\ Seen'
      BY <3>1, <3>a DEF peers, Typed, Asked, Seen
    <3>3. Live'
      <4>1. CASE Serve
        BY <2>2, <4>1 DEF Serve, Typed, Live
      <4>2. CASE Discover \/ Sync \/ Sweep
        BY <2>1, <4>2 DEF Discover, Sync, Sweep, Typed, Live
      <4>3. CASE StartFails \/ Unwatch \/ Watch \/ Undiscover \/ Unnudge
        BY <4>3 DEF StartFails, Unwatch, Watch, Undiscover, Unnudge, tasks, Typed, Live
      <4>4. CASE Replace \/ Unserve \/ Unsweep \/ Unsync
        BY <4>4 DEF Replace, AbortSync, Unserve, Unsweep, Unsync, Typed, Live
      <4> QED
        BY <2>3, <4>1, <4>2, <4>3, <4>4 DEF Step
    <3>4. watching' \in BOOLEAN
      BY <2>3 DEF Serve, StartFails, Unwatch, Step, Discover, Sync, Replace, Watch,
         Sweep, Undiscover, Unserve, Unsweep, Unsync, Unnudge, tasks, Typed, Noted
    <3>5. failed' \in BOOLEAN
      BY <2>3 DEF Serve, StartFails, Unwatch, Step, Discover, Sync, Replace, Watch,
         Sweep, Undiscover, Unserve, Unsweep, Unsync, Unnudge, Typed, Noted
    <3>6. again' \in BOOLEAN
      BY <2>3 DEF Serve, StartFails, Unwatch, Step, Discover, Sync, Replace, Watch,
         Sweep, Undiscover, Unserve, Unsweep, Unsync, Unnudge, Typed, Noted
    <3> QED
      BY <3>2, <3>3, <3>4, <3>5, <3>6 DEF Typed, Noted
  <2>4. ASSUME NEW r \in Run,
               ServerFails(r) \/ Connect(r) \/ Disconnect(r) \/ ThreadEnds(r)
                 \/ LateServerEnds(r)
        PROVE  Typed'
    <3> USE <2>4 DEF ServerFails, Connect, Disconnect, ThreadEnds, LateServerEnds, Typed
    <3>1. Live'
      BY DEF Live
    <3>2. Asked' /\ Seen'
      BY DEF peers, Asked, Seen
    <3>3. Noted'
      BY DEF lifecycle, Noted
    <3> QED
      BY <3>1, <3>2, <3>3 DEF Typed
  \* What leaves the lifecycle and the tasks alone.
  <2>5. ASSUME UNCHANGED <<lifecycle, tasks>>, Asked', Seen' PROVE Typed'
    BY <2>5 DEF lifecycle, tasks, Typed, Live, Noted
  <2>6. ASSUME NEW r \in Run, NEW p \in Peer, Nudge(r, p)
        PROVE  channel' \in [Run -> SUBSET Peer]
    BY <2>6 DEF Nudge, Typed, Asked
  <2>7. ASSUME NEW r \in Run, NEW p \in Peer, Resolve(r, p) PROVE Typed'
    <3>1. Asked'
      BY <2>6, <2>7 DEF Resolve, Typed, Asked
    <3>2. Seen'
      BY <2>7 DEF Resolve, Typed, Seen
    <3> QED
      BY <2>5, <2>7, <3>1, <3>2 DEF Resolve
  <2>8. ASSUME NEW p \in Peer, NEW a \in 0 .. 2, PeerChanges(p) \/ PeerMoves(p, a)
        PROVE  Typed'
    <3>1. Asked'
      BY <2>8 DEF PeerChanges, PeerMoves, Typed, Asked
    <3>2. at' \in [Peer -> Nat] /\ known' \in [Peer -> Nat]
      BY <2>8 DEF PeerChanges, PeerMoves, Typed, Seen
    <3>3. Seen'
      BY <2>8, <3>2 DEF PeerChanges, PeerMoves, Change, Typed, Seen
    <3> QED
      BY <2>5, <2>8, <3>1, <3>3 DEF PeerChanges, PeerMoves
  <2>9. ASSUME NEW p \in Peer, Paired(p) PROVE Typed'
    <3>1. handle["nudge"] # 0 => handle["nudge"] \in Run
      BY DEF LifeInv, LifeOK, Part, Run
    <3>2. conns \subseteq Run
      BY DEF Typed, Live
    <3>3. channel' \in [Run -> SUBSET Peer]
      BY <2>6, <2>9, <3>1, <3>2 DEF Paired, Typed, Asked
    <3>4. Asked' /\ Seen'
      BY <2>9, <3>3 DEF Paired, Typed, Asked, Seen
    <3> QED
      BY <2>5, <2>9, <3>4 DEF Paired
  <2>10. ASSUME NEW r \in Run, SyncStep(r) PROVE Typed'
    <3>1. CASE Interval(r)
      <4>1. {p \in Peer : known[p] # 0} \in SUBSET Peer
        OBVIOUS
      <4>2. Asked' /\ Seen'
        BY <3>1, <4>1 DEF Interval, peers, Typed, Asked, Seen
      <4> QED
        BY <2>5, <3>1, <4>2 DEF Interval
    <3>2. ASSUME NEW p \in Peer, TakeNudge(r, p) PROVE Typed'
      <4>1. Asked' /\ Seen'
        BY <3>2 DEF TakeNudge, peers, Typed, Asked, Seen
      <4> QED
        BY <2>5, <3>2, <4>1 DEF TakeNudge
    <3>3. ASSUME NEW p \in Peer, SyncWith(r, p) PROVE Typed'
      <4>1. Asked'
        BY <3>3 DEF SyncWith, Typed, Asked
      <4>2. Seen'
        BY <3>3 DEF SyncWith, Typed, Seen
      <4> QED
        BY <2>5, <3>3, <4>1, <4>2 DEF SyncWith
    <3> QED
      BY <2>10, <3>1, <3>2, <3>3 DEF SyncStep
  <2>b. ASSUME NEW r \in Run, LateSyncEnds(r) \/ (\E p \in Peer : LateSync(r, p))
        PROVE  Typed'
    <3>1. Asked'
      BY <2>b DEF LateSyncEnds, LateSync, Typed, Asked
    <3>2. Seen'
      BY <2>b DEF LateSyncEnds, LateSync, peers, Typed, Seen
    <3> QED
      BY <2>5, <2>b, <3>1, <3>2 DEF LateSyncEnds, LateSync
  <2>11. CASE UNCHANGED vars
    BY <2>11 DEF vars, lifecycle, tasks, peers, Typed, Live, Asked, Seen, Noted
  <2> QED
    BY <2>3, <2>4, <2>7, <2>8, <2>9, <2>10, <2>b, <2>11 DEF Next, Environment
<1>3. LifeInv /\ Typed => TypeOK
  BY DEF LifeInv, LifeOK, Typed, Live, Asked, Seen, Noted, TypeOK
<1> QED
  BY <1>1, <1>2, <1>3, LifecycleIsKept, PTL DEF Spec

=============================================================================
