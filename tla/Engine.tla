------------------------------- MODULE Engine -------------------------------
(****************************************************************************)
(* Starting and stopping the engine, what runs in between, and how it keeps *)
(* the catalog in step with the devices it sees.                            *)
(*                                                                          *)
(* A start brings up a server, a thread that listens to mDNS, a task that   *)
(* syncs with peers, a folder watcher and a task that sweeps the trash,     *)
(* each in a step of its own, and keeps a handle to each; a stop goes       *)
(* through the handles.  Start number r makes channel r, by which the       *)
(* thread and the server of that start, and whoever finds its end in        *)
(* sync_nudge, ask the task of that start to sync with a peer at once.      *)
(* One thread starts and stops the engine, as the applications do.          *)
(*                                                                          *)
(* Not everything has a handle, and a handle ends nothing at once.  Each    *)
(* connection a server accepts is served by a task of its own, which a stop *)
(* does not know of; a task that is aborted goes on to its next await (what *)
(* a sweep does until then has no effect here); and the mDNS thread ends    *)
(* when its daemon has been heard to shut down.                             *)
(*                                                                          *)
(* What happens is reported by events (module Events), left out here.       *)
(****************************************************************************)
EXTENDS Naturals

CONSTANTS
  Peer,       \* other devices
  MaxRun,     \* bound: starts
  MaxChanges  \* bound: things that happen to peers

ASSUME EngineAssumption == MaxRun \in Nat /\ MaxChanges \in Nat

VARIABLES
  call,      \* the start or stop in progress: its next step
  runs,      \* starts so far
  servers,   \* starts whose server accepts connections and goes on to
  conns,     \* starts by whose server connections were accepted and are served
  threads,   \* starts whose mDNS thread still hears
  syncs,     \* starts whose sync task is alive and not aborted
  sweeps,    \* starts whose trash sweep is alive and not aborted
  late,      \* starts whose server was aborted and has not come to its next await
  watching,  \* the folder is watched
  handle,    \* the handles the engine keeps: the start each is of, 0 if none
  previous,  \* a start replacing a sync task: the start that one is of, 0 if none
  channel,   \* channel[r]: peers the task of start r has been asked to sync with
  due,       \* due[r]: peers the task of start r is about to sync with; one that is
             \* aborted keeps them until its next await
  at,        \* at[p]: address peer p can be reached at, 0 if nowhere
  known,     \* known_peers: the address each peer was last seen at
  paired,    \* peers that are paired
  fresh,     \* history: peers synced with since they last changed, moved or paired
  changes,   \* how much of MaxChanges is used
  failed,    \* history: the last start has failed
  again      \* history: a start began with another one not stopped

lifecycle == <<call, runs, handle, previous, failed, again>>
tasks == <<servers, conns, threads, syncs, sweeps, late, watching>>
peers == <<at, known, paired, fresh, changes>>
vars == <<lifecycle, tasks, channel, due, peers>>

Run == 1 .. MaxRun
Part == {"nudge", "server", "mdns", "sync", "sweep"}
Steps == {"none", "discover", "sync", "replace", "watch", "sweep",
          "unwatch", "undiscover", "unserve", "unsweep", "unsync", "unnudge"}

TypeOK ==
  /\ call \in Steps /\ runs \in 0 .. MaxRun
  /\ servers \subseteq Run /\ threads \subseteq Run /\ syncs \subseteq Run
  /\ sweeps \subseteq Run /\ watching \in BOOLEAN
  /\ conns \subseteq Run /\ late \subseteq Run
  /\ handle \in [Part -> 0 .. MaxRun] /\ previous \in 0 .. MaxRun
  /\ channel \in [Run -> SUBSET Peer] /\ due \in [Run -> SUBSET Peer]
  /\ at \in [Peer -> Nat] /\ known \in [Peer -> Nat]
  /\ paired \subseteq Peer /\ fresh \subseteq paired
  /\ changes \in 0 .. MaxChanges /\ failed \in BOOLEAN /\ again \in BOOLEAN

Init ==
  /\ call = "none" /\ runs = 0
  /\ servers = {} /\ threads = {} /\ syncs = {} /\ sweeps = {}
  /\ conns = {} /\ late = {} /\ watching = FALSE
  /\ handle = [x \in Part |-> 0] /\ previous = 0
  /\ channel = [r \in Run |-> {}] /\ due = [r \in Run |-> {}]
  /\ at = [p \in Peer |-> 0] /\ known = [p \in Peer |-> 0]
  /\ paired = {} /\ fresh = {} /\ changes = 0
  /\ failed = FALSE /\ again = FALSE

\* Engine::is_running.
Running == handle["server"] # 0

-----------------------------------------------------------------------------
(* Engine::start.  A port that cannot be had changes nothing.            *)

\* Mutant: an end of a channel that is there already is kept.
ServeKeeping ==
  /\ call = "none" /\ runs < MaxRun
  /\ runs' = runs + 1
  /\ servers' = servers \cup {runs + 1}
  /\ handle' = [handle EXCEPT !["nudge"] = IF @ = 0 THEN runs + 1 ELSE @,
                              !["server"] = runs + 1]
  /\ call' = "discover"
  /\ again' = (again \/ Running)
  /\ UNCHANGED <<previous, failed, conns, threads, syncs, sweeps, late, watching,
                 channel, due, peers>>

\* The channel is made and the server spawned.
Serve ==
  /\ call = "none" /\ runs < MaxRun
  /\ runs' = runs + 1
  /\ servers' = servers \cup {runs + 1}
  /\ handle' = [handle EXCEPT !["nudge"] = runs + 1, !["server"] = runs + 1]
  /\ call' = "discover"
  /\ again' = (again \/ Running)
  /\ UNCHANGED <<previous, failed, conns, threads, syncs, sweeps, late, watching,
                 channel, due, peers>>

Discover ==
  /\ call = "discover"
  /\ threads' = threads \cup {runs}
  /\ handle' = [handle EXCEPT !["mdns"] = runs]
  /\ call' = "sync"
  /\ UNCHANGED <<runs, previous, failed, again, servers, conns, syncs, sweeps,
                 late, watching, channel, due, peers>>

\* spawn_catalog_sync: the new task runs before the one whose handle it replaces
\* is looked at.
Sync ==
  /\ call = "sync"
  /\ syncs' = syncs \cup {runs}
  /\ previous' = handle["sync"]
  /\ handle' = [handle EXCEPT !["sync"] = runs]
  /\ call' = "replace"
  /\ UNCHANGED <<runs, failed, again, servers, conns, threads, sweeps, late,
                 watching, channel, due, peers>>

\* The sync task of start r is aborted.  One that waits is gone with the end of its
\* channel; one that syncs goes on to its next await (LateSync, LateSyncEnds).
AbortSync(r) ==
  /\ syncs' = syncs \ {r}
  /\ channel' = [x \in Run |-> IF x = r THEN {} ELSE channel[x]]

\* Mutant: the task of an earlier start is not ended.
ReplaceDetaching ==
  /\ call = "replace"
  /\ previous' = 0
  /\ call' = "watch"
  /\ UNCHANGED <<runs, handle, failed, again, tasks, channel, due, peers>>

\* The task of an earlier start is aborted.
Replace ==
  /\ call = "replace"
  /\ AbortSync(previous)
  /\ previous' = 0
  /\ call' = "watch"
  /\ UNCHANGED <<runs, handle, failed, again, servers, conns, threads, sweeps,
                 late, watching, due, peers>>

Watch ==
  /\ call = "watch"
  /\ watching' = TRUE
  /\ call' = "sweep"
  /\ UNCHANGED <<runs, handle, previous, failed, again, servers, conns, threads,
                 syncs, sweeps, late, channel, due, peers>>

\* mDNS or the watcher cannot be had: start returns there and then, without mDNS
\* before the channel has found a task.
StartFails ==
  /\ call \in {"discover", "watch"}
  /\ call' = "none"
  /\ failed' = TRUE
  /\ channel' = IF call = "discover" THEN [channel EXCEPT ![runs] = {}] ELSE channel
  /\ UNCHANGED <<runs, handle, previous, again, tasks, due, peers>>

Sweep ==
  /\ call = "sweep"
  /\ sweeps' = sweeps \cup {runs}
  /\ handle' = [handle EXCEPT !["sweep"] = runs]
  /\ call' = "none"
  /\ failed' = FALSE
  /\ UNCHANGED <<runs, previous, again, servers, conns, threads, syncs, late,
                 watching, channel, due, peers>>

-----------------------------------------------------------------------------
(* Engine::stop, which takes what it finds, handle by handle.            *)

Take(x) == handle' = [handle EXCEPT ![x] = 0]

Unwatch ==
  /\ call = "none" /\ runs > 0 /\ (Running \/ watching)
  /\ watching' = FALSE
  /\ call' = "undiscover"
  /\ UNCHANGED <<runs, handle, previous, failed, again, servers, conns, threads,
                 syncs, sweeps, late, channel, due, peers>>

\* The daemon is told to shut down; its thread ends when it has heard the last
\* of what the daemon had found (ThreadEnds).
Undiscover ==
  /\ call = "undiscover"
  /\ Take("mdns")
  /\ call' = "unserve"
  /\ UNCHANGED <<runs, previous, failed, again, tasks, channel, due, peers>>

\* Only what accepts is aborted: connections there are go on (conns).
Unserve ==
  /\ call = "unserve"
  /\ servers' = servers \ {handle["server"]}
  /\ late' = late \cup ({handle["server"]} \cap servers)
  /\ Take("server")
  /\ call' = "unsweep"
  /\ UNCHANGED <<runs, previous, failed, again, conns, threads, syncs, sweeps,
                 watching, channel, due, peers>>

\* Mutant: the handle is let go and the task with it.
UnsweepDetaching ==
  /\ call = "unsweep"
  /\ Take("sweep")
  /\ call' = "unsync"
  /\ UNCHANGED <<runs, previous, failed, again, tasks, channel, due, peers>>

Unsweep ==
  /\ call = "unsweep"
  /\ sweeps' = sweeps \ {handle["sweep"]}
  /\ Take("sweep")
  /\ call' = "unsync"
  /\ UNCHANGED <<runs, previous, failed, again, servers, conns, threads, syncs,
                 late, watching, channel, due, peers>>

Unsync ==
  /\ call = "unsync"
  /\ AbortSync(handle["sync"])
  /\ Take("sync")
  /\ call' = "unnudge"
  /\ UNCHANGED <<runs, previous, failed, again, servers, conns, threads, sweeps,
                 late, watching, due, peers>>

Unnudge ==
  /\ call = "unnudge"
  /\ Take("nudge")
  /\ call' = "none"
  /\ UNCHANGED <<runs, previous, failed, again, tasks, channel, due, peers>>

-----------------------------------------------------------------------------
(* What runs in between.                                                 *)

\* accept fails, or the certificate cannot be used: the server ends, and its
\* handle stays.
ServerFails(r) ==
  /\ r \in servers
  /\ servers' = servers \ {r}
  /\ UNCHANGED <<lifecycle, conns, threads, syncs, sweeps, late, watching, channel,
                 due, peers>>

\* start_server: a connection is accepted and handed to a task of its own.
Connect(r) ==
  /\ r \in servers \cup late
  /\ conns' = conns \cup {r}
  /\ UNCHANGED <<lifecycle, servers, threads, syncs, sweeps, late, watching,
                 channel, due, peers>>

\* The last connection accepted by the server of start r is closed, by the other
\* side or for good.
Disconnect(r) ==
  /\ r \in conns
  /\ conns' = conns \ {r}
  /\ UNCHANGED <<lifecycle, servers, threads, syncs, sweeps, late, watching,
                 channel, due, peers>>

\* What was aborted comes to an await and is gone (tokio, external).
LateServerEnds(r) ==
  /\ r \in late
  /\ late' = late \ {r}
  /\ UNCHANGED <<lifecycle, servers, conns, threads, syncs, sweeps, watching,
                 channel, due, peers>>

LateSyncEnds(r) ==
  /\ r \notin syncs /\ due[r] # {}
  /\ due' = [due EXCEPT ![r] = {}]
  /\ UNCHANGED <<lifecycle, tasks, channel, peers>>

\* Channel r has a receiver: a start on its way to the task, or the task.
Heeded(r) == r \in syncs \/ (call \in {"discover", "sync"} /\ r = runs)

\* A nudge into channel r, lost when nobody has its other end.
Nudge(r, p) ==
  channel' = IF Heeded(r) THEN [channel EXCEPT ![r] = @ \cup {p}] ELSE channel

\* start_discovery: mDNS resolves p.  Only what is new or has moved is told.
Resolve(r, p) ==
  /\ r \in threads
  /\ at[p] # 0 /\ known[p] # at[p]
  /\ known' = [known EXCEPT ![p] = at[p]]
  /\ Nudge(r, p)
  /\ UNCHANGED <<lifecycle, tasks, due, at, paired, fresh, changes>>

\* A daemon without a handle may be shut down, or not (mdns-sd, external).
ThreadEnds(r) ==
  /\ r \in threads /\ r # handle["mdns"]
  /\ threads' = threads \ {r}
  /\ UNCHANGED <<lifecycle, servers, conns, syncs, sweeps, late, watching, channel,
                 due, peers>>

\* Things happen to a peer: it comes up somewhere, goes, or its catalog changes.
Change == changes < MaxChanges /\ changes' = changes + 1

PeerMoves(p, a) ==
  /\ a # at[p] /\ Change
  /\ at' = [at EXCEPT ![p] = a]
  /\ fresh' = fresh \ {p}
  /\ UNCHANGED <<lifecycle, tasks, channel, due, known, paired>>

PeerChanges(p) ==
  /\ p \in fresh /\ Change
  /\ fresh' = fresh \ {p}
  /\ UNCHANGED <<lifecycle, tasks, channel, due, at, known, paired>>

\* A pairing with p is pinned, over a connection to the server of start r (handler
\* pair_confirm) or by confirm_pairing, which uses sync_nudge.
Paired(p) ==
  /\ p \notin paired /\ known[p] # 0
  /\ paired' = paired \cup {p}
  /\ \/ \E r \in conns : Nudge(r, p)
     \/ handle["nudge"] # 0 /\ Nudge(handle["nudge"], p)
     \/ handle["nudge"] = 0 /\ UNCHANGED channel
  /\ UNCHANGED <<lifecycle, tasks, due, at, known, fresh, changes>>

\* The sync task: it waits for a nudge or the interval, and then syncs with one
\* device after the other.
TakeNudge(r, p) ==
  /\ r \in syncs /\ due[r] = {} /\ p \in channel[r]
  /\ channel' = [channel EXCEPT ![r] = @ \ {p}]
  /\ due' = [due EXCEPT ![r] = IF known[p] # 0 THEN {p} ELSE {}]
  /\ UNCHANGED <<lifecycle, tasks, peers>>

\* Mutant: the interval is of use only to who has asked.
IntervalAsked(r) ==
  /\ r \in syncs /\ due[r] = {}
  /\ \E p \in Peer : known[p] # 0
  /\ channel[r] # {}
  /\ due' = [due EXCEPT ![r] = {p \in Peer : known[p] # 0}]
  /\ UNCHANGED <<lifecycle, tasks, channel, peers>>

Interval(r) ==
  /\ r \in syncs /\ due[r] = {}
  /\ \E p \in Peer : known[p] # 0
  /\ due' = [due EXCEPT ![r] = {p \in Peer : known[p] # 0}]
  /\ UNCHANGED <<lifecycle, tasks, channel, peers>>

\* Mutant: any device is synced with.
SyncWithAnyone(r, p) ==
  /\ r \in syncs /\ p \in due[r]
  /\ due' = [due EXCEPT ![r] = @ \ {p}]
  /\ fresh' = IF known[p] = at[p] THEN fresh \cup {p} ELSE fresh
  /\ UNCHANGED <<lifecycle, tasks, channel, at, known, paired, changes>>

\* sync_with_peer: only with who is paired, and with effect if p is there.
SyncWith(r, p) ==
  /\ r \in syncs /\ p \in due[r]
  /\ due' = [due EXCEPT ![r] = @ \ {p}]
  /\ fresh' = IF p \in paired /\ known[p] = at[p] THEN fresh \cup {p} ELSE fresh
  /\ UNCHANGED <<lifecycle, tasks, channel, at, known, paired, changes>>

\* A task aborted in the last section of a sync still has its effect.
LateSync(r, p) ==
  /\ r \notin syncs /\ p \in due[r]
  /\ due' = [due EXCEPT ![r] = {}]
  /\ fresh' = IF p \in paired /\ known[p] = at[p] THEN fresh \cup {p} ELSE fresh
  /\ UNCHANGED <<lifecycle, tasks, channel, at, known, paired, changes>>

-----------------------------------------------------------------------------
Step == \/ Discover \/ Sync \/ Replace \/ Watch \/ Sweep
        \/ Undiscover \/ Unserve \/ Unsweep \/ Unsync \/ Unnudge

SyncStep(r) == \/ Interval(r)
               \/ \E p \in Peer : TakeNudge(r, p) \/ SyncWith(r, p)

Environment ==
  \/ \E r \in Run : ServerFails(r) \/ Connect(r) \/ Disconnect(r)
  \/ \E r \in Run : ThreadEnds(r) \/ LateServerEnds(r) \/ LateSyncEnds(r)
  \/ \E r \in Run, p \in Peer : Resolve(r, p) \/ LateSync(r, p)
  \/ \E p \in Peer : PeerChanges(p) \/ Paired(p)
  \/ \E p \in Peer, a \in 0 .. 2 : PeerMoves(p, a)

Next ==
  \/ Serve \/ StartFails \/ Unwatch \/ Step
  \/ \E r \in Run : SyncStep(r)
  \/ Environment

Spec == Init /\ [][Next]_vars

\* Calls of start and stop return and calls to peers are answered or fail; nobody
\* has to start anything, and mDNS may stay silent.
FairSpec ==
  /\ Spec
  /\ WF_vars(Step \/ StartFails)
  /\ \A r \in Run : WF_vars(SyncStep(r))

-----------------------------------------------------------------------------
(* Properties.                                                           *)

\* No two tasks go on syncing once the second is in place, whatever starts came
\* before and however they failed: the others have been told to end, and the one
\* there is can be stopped (the comment on the abort in start).
OneSyncTask == call # "replace" => syncs = {handle["sync"]} \ {0}

\* A stop reaches everything that has a handle, even of a start that failed
\* half-way, as long as each start was stopped before the next: it leaves no
\* server, sync task or sweep that has not been told to end, no watcher and no
\* handle.  It does not say that nothing is left: connections accepted before are
\* served on (conns), and so are mDNS threads and what was aborted until they
\* notice.
StopReachesAll ==
  call = "none" /\ ~ Running /\ ~ again =>
    /\ servers = {} /\ syncs = {} /\ sweeps = {} /\ ~ watching
    /\ \A x \in Part : handle[x] = 0

\* Whoever asks through sync_nudge is heard by the task that runs, unless the
\* last start has failed (the comment on Engine::sync_nudge).
NudgeIsHeeded ==
  call = "none" /\ Running /\ ~ failed =>
    handle["nudge"] = handle["sync"] /\ Heeded(handle["nudge"])

\* A paired device that is known where it is comes in step with this one while
\* the engine runs: nudges into the channel of an earlier start and discoveries
\* that are not news do not keep it out for ever (spawn_catalog_sync).
PeersAreSynced ==
  \A p \in Peer :
    (handle["sync"] # 0 /\ p \in paired /\ at[p] # 0 /\ known[p] = at[p])
      ~> p \in fresh \/ handle["sync"] = 0 \/ known[p] # at[p]
=============================================================================
