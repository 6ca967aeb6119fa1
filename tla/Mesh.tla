-------------------------------- MODULE Mesh --------------------------------
(*****************************************************************************)
(* The shared catalog of a mesh of paired devices.                           *)
(*                                                                           *)
(* Every device keeps one SQLite database behind one mutex: the items it     *)
(* knows (files), which device holds a copy of which item (holders), deletes *)
(* aimed at a device (requests) and destroyed items (tombs).  A device reads *)
(* a peer's whole catalog over HTTP and merges it; nothing orders two        *)
(* catalogs but the moment they were read.  Each action below is one section *)
(* of code between taking the database mutex and releasing it.               *)
(*                                                                           *)
(* Left to other modules: names (items here never share a name), blocks      *)
(* (items here share no content, so a device has an item's bytes exactly     *)
(* when it lists itself as a holder), pairing (all devices are paired) and   *)
(* pull_copy.                                                                *)
(*****************************************************************************)
EXTENDS Naturals, FiniteSets

CONSTANTS
  Device,   \* the paired devices
  Item,     \* item ids, each created at most once
  Handler,  \* bound: request_delete handlers that run at one time on a device
  MaxOps,   \* bound: user operations, sweeps and restarts in one behaviour
  MaxSyncs  \* bound: devices in the middle of a catalog sync at one time

ASSUME BoundsAssumption ==
  MaxOps \in Nat /\ MaxSyncs \in Nat \ {0} /\ "sync" \notin Handler

VARIABLES
  files,     \* files[d][f]: the row of table files at d
  holders,   \* holders[d][f]: the devices d's table file_holders lists for f
  requests,  \* requests[d][f]: the targets d's table delete_requests lists
  tombs,     \* tombs[d]: d's table tombstones
  sync,      \* sync[d]: the local variables of d's catalog sync task
  work,      \* work[d][w][f]: d's progress through f's pending delete, in the
             \* sync task or in one of the request_delete handlers
  purging,   \* purging[d]: items d has decided to destroy and not destroyed yet
  pushes,    \* shares under way: the calls their sender has still to make
  rpcs,      \* request_delete calls under way
  ops,       \* how much of MaxOps is used
  everHeld,  \* history: everHeld[f] is every device that ever held a copy
  asked,     \* history: asked[f] is every device ever asked to drop its copy
  spent      \* history: spent[f] is those that carried out the last such ask

db == <<files, holders, requests, tombs>>
local == <<sync, work, purging>>
calls == <<pushes, rpcs>>
history == <<everHeld, asked, spent>>
vars == <<db, local, calls, ops, history>>

Status == {"absent", "live", "trashed"}
Worker == {"sync"} \cup Handler
Stage == {"idle", "tombstones", "pending", "applying"}
TombStep == {"none", "check", "purge", "insert"}
RequestStep == {"none", "begin", "check", "delete", "clear"}
Push == [to : Device, item : Item, status : Status,
         stage : {"metadata", "finalize"}]
Rpc == [to : Device, item : Item]

Catalog == [files : [Item -> Status], holders : [Item -> SUBSET Device],
            requests : [Item -> SUBSET Device], tombs : SUBSET Item]

SyncTask == [stage : Stage, peer : Device, cat : Catalog,
             marks : [Item -> TombStep]]

NoCatalog == [files |-> [f \in Item |-> "absent"],
              holders |-> [f \in Item |-> {}],
              requests |-> [f \in Item |-> {}], tombs |-> {}]

Idle(d) == [stage |-> "idle", peer |-> d, cat |-> NoCatalog,
            marks |-> [f \in Item |-> "none"]]

NoWork == [f \in Item |-> "none"]

TypeOK ==
  /\ files \in [Device -> [Item -> Status]]
  /\ holders \in [Device -> [Item -> SUBSET Device]]
  /\ requests \in [Device -> [Item -> SUBSET Device]]
  /\ tombs \in [Device -> SUBSET Item]
  /\ sync \in [Device -> SyncTask]
  /\ work \in [Device -> [Worker -> [Item -> RequestStep]]]
  /\ purging \in [Device -> SUBSET Item]
  /\ pushes \subseteq Push
  /\ rpcs \subseteq Rpc
  /\ ops \in Nat
  /\ everHeld \in [Item -> SUBSET Device]
  /\ asked \in [Item -> SUBSET Device]
  /\ spent \in [Item -> SUBSET Device]

Init ==
  /\ files = [d \in Device |-> NoCatalog.files]
  /\ holders = [d \in Device |-> NoCatalog.holders]
  /\ requests = [d \in Device |-> NoCatalog.requests]
  /\ tombs = [d \in Device |-> {}]
  /\ sync = [d \in Device |-> Idle(d)]
  /\ work = [d \in Device |-> [w \in Worker |-> NoWork]]
  /\ purging = [d \in Device |-> {}]
  /\ pushes = {}
  /\ rpcs = {}
  /\ ops = 0
  /\ everHeld = [f \in Item |-> {}]
  /\ asked = [f \in Item |-> {}]
  /\ spent = [f \in Item |-> {}]

\* A person, the clock or the operating system acts, within the bound.
Budget == ops < MaxOps /\ ops' = ops + 1

-----------------------------------------------------------------------------
(* The writes the handlers share.                                        *)

Holds(d, f) == d \in holders[d][f]

\* What device d's catalog would answer GET /catalog with, now.
CatalogOf(d) == [files |-> files[d], holders |-> holders[d],
                 requests |-> requests[d], tombs |-> tombs[d]]

SetFile(d, f, s) == files' = [files EXCEPT ![d][f] = s]

\* Mutant: the two ids of set_holder swapped.
ClaimCopySwapped(d, f) ==
  /\ holders' = [holders EXCEPT ![d][f] = @ \cup {f}]
  /\ everHeld' = [everHeld EXCEPT ![f] = @ \cup {d}]

\* set_holder for the device's own row.
ClaimCopy(d, f) ==
  /\ holders' = [holders EXCEPT ![d][f] = @ \cup {d}]
  /\ everHeld' = [everHeld EXCEPT ![f] = @ \cup {d}]

\* Whether dropping d's copy of f would leave no holder that d knows of.
LastCopy(d, f) == holders[d][f] \subseteq {d}

\* Indexer::delete_local_copy past its checks: the last copy is trashed where it
\* is, any other copy is freed.  Freeing takes the blocks a share to d may have
\* found already stored, so its finalize_file will be refused.
DropCopy(d, f) ==
  IF LastCopy(d, f)
    THEN /\ SetFile(d, f, "trashed")
         /\ UNCHANGED <<holders, pushes>>
    ELSE /\ holders' = [holders EXCEPT ![d][f] = @ \ {d}]
         /\ pushes' = {m \in pushes :
                         ~(m.to = d /\ m.item = f /\ m.stage = "finalize")}
         /\ UNCHANGED files

\* Mutant: purge_file without its DELETE FROM file_holders.
PurgeFileKeepingRows(d, f) ==
  /\ SetFile(d, f, "absent")
  /\ requests' = [requests EXCEPT ![d][f] = {}]
  /\ tombs' = [tombs EXCEPT ![d] = @ \cup {f}]
  /\ UNCHANGED holders

\* Database::purge_file: the item's rows go and a tombstone takes their place.
PurgeFile(d, f) ==
  /\ SetFile(d, f, "absent")
  /\ holders' = [holders EXCEPT ![d][f] = {}]
  /\ requests' = [requests EXCEPT ![d][f] = {}]
  /\ tombs' = [tombs EXCEPT ![d] = @ \cup {f}]

\* Mutant: merge_catalog_file without its look at the tombstones.
MergedBlindly(d, f, s) == IF s = "absent" THEN files[d][f] ELSE s

\* Database::merge_catalog_file for one item described as s, when names do not
\* clash: a destroyed item is refused, anything else is taken as it comes.
Merged(d, f, s) ==
  IF s = "absent" \/ f \in tombs[d] THEN files[d][f] ELSE s

-----------------------------------------------------------------------------
(* What a person does.                                                   *)

\* The last section of index for a new file.  Left out is what its first one shows
\* until then, an item that nobody holds; saving a file again changes no row here.
Import(d, f) ==
  /\ Budget
  /\ everHeld[f] = {}
  /\ SetFile(d, f, "live")
  /\ ClaimCopy(d, f)
  /\ UNCHANGED <<requests, tombs, local, calls, asked, spent>>

\* share_to: the description is read now and sent later.  Only bytes in storage
\* are asked for; a trashed item may be shared.
Share(d, t, f) ==
  /\ Budget
  /\ d # t
  /\ Holds(d, f)
  /\ files[d][f] # "absent"
  /\ pushes' = pushes \cup {[to |-> t, item |-> f, status |-> files[d][f],
                             stage |-> "metadata"]}
  /\ UNCHANGED <<db, local, rpcs, history>>

\* delete_local_copy, or the file removed from the folder (forget).
DeleteLocal(d, f) ==
  /\ Budget
  /\ files[d][f] # "absent"
  /\ Holds(d, f)
  /\ DropCopy(d, f)
  /\ UNCHANGED <<requests, tombs, local, rpcs, history>>

\* delete_copy aimed at t: recorded first, then sent if t is visible.
DeleteCopy(d, t, f) ==
  /\ Budget
  /\ d # t
  /\ t \in holders[d][f]
  /\ requests' = [requests EXCEPT ![d][f] = @ \cup {t}]
  /\ rpcs' \in {rpcs, rpcs \cup {[to |-> t, item |-> f]}}
  /\ asked' = [asked EXCEPT ![f] = @ \cup {t}]
  /\ spent' = [spent EXCEPT ![f] = @ \ {t}]
  /\ UNCHANGED <<files, holders, tombs, local, pushes, everHeld>>

Restore(d, f) ==
  /\ Budget
  /\ files[d][f] = "trashed"
  /\ SetFile(d, f, "live")
  /\ UNCHANGED <<holders, requests, tombs, local, calls, history>>

\* delete_permanently looks at the item and lets the lock go before it purges.
DeletePermanently(d, f) ==
  /\ Budget
  /\ files[d][f] = "trashed"
  /\ purging' = [purging EXCEPT ![d] = @ \cup {f}]
  /\ UNCHANGED <<db, sync, work, calls, history>>

\* sweep_trash lists what has expired and lets the lock go before it purges.
SweepTrash(d) ==
  /\ Budget
  /\ \E expired \in SUBSET {f \in Item : files[d][f] = "trashed"} :
       /\ expired # {}
       /\ purging' = [purging EXCEPT ![d] = @ \cup expired]
  /\ UNCHANGED <<db, sync, work, calls, history>>

\* Indexer::purge.  An item that went meanwhile is an error that changes nothing.
Purge(d, f) ==
  /\ f \in purging[d]
  /\ purging' = [purging EXCEPT ![d] = @ \ {f}]
  /\ IF files[d][f] = "absent" THEN UNCHANGED db ELSE PurgeFile(d, f)
  /\ UNCHANGED <<sync, work, calls, ops, history>>

\* The process ends and starts again: the database stays, tasks do not.
Restart(d) ==
  /\ Budget
  /\ sync' = [sync EXCEPT ![d] = Idle(d)]
  /\ work' = [work EXCEPT ![d] = [w \in Worker |-> NoWork]]
  /\ purging' = [purging EXCEPT ![d] = {}]
  /\ UNCHANGED <<db, calls, history>>

-----------------------------------------------------------------------------
(* Handlers of a device's peer server.                                   *)

\* push_metadata merges the description; the blocks follow.
PushMetadata(m) ==
  /\ m.stage = "metadata"
  /\ pushes' = (pushes \ {m}) \cup {[m EXCEPT !.stage = "finalize"]}
  /\ SetFile(m.to, m.item, Merged(m.to, m.item, m.status))
  /\ UNCHANGED <<holders, requests, tombs, local, rpcs, ops, history>>

\* finalize_file claims the copy, unless the item is not in the catalog.
FinalizeFile(m) ==
  /\ m.stage = "finalize"
  /\ pushes' = pushes \ {m}
  /\ IF files[m.to][m.item] = "absent"
       THEN UNCHANGED <<holders, everHeld>>
       ELSE ClaimCopy(m.to, m.item)
  /\ UNCHANGED <<files, requests, tombs, local, rpcs, ops, asked, spent>>

\* Mutant: the query without WHERE target_device.
PendingForAnyone(d, reqs) ==
  [f \in Item |-> IF reqs[d][f] # {} THEN "check" ELSE "none"]

\* The queue apply_pending_delete_requests reads at d, from these requests.
PendingFor(d, reqs) ==
  [f \in Item |-> IF d \in reqs[d][f] THEN "check" ELSE "none"]

\* request_delete records the request ...
RequestDelete(m, h) ==
  /\ work[m.to][h] = NoWork
  /\ rpcs' = rpcs \ {m}
  /\ requests' = [requests EXCEPT ![m.to][m.item] = @ \cup {m.to}]
  /\ work' = [work EXCEPT ![m.to][h] = [NoWork EXCEPT ![m.item] = "begin"]]
  /\ UNCHANGED <<files, holders, tombs, sync, purging, pushes, ops, history>>

\* ... then carries out all that are pending by now, beside other handlers.
BeginRequests(d, h) ==
  /\ \E f \in Item : work[d][h][f] = "begin"
  /\ work' = [work EXCEPT ![d][h] = PendingFor(d, requests)]
  /\ UNCHANGED <<db, sync, purging, calls, ops, history>>

-----------------------------------------------------------------------------
(* apply_pending_delete_requests, run by worker w of device d.  Requests are *)
(* taken one after the other, each through three lock sections.              *)

Settled(q) == \A f \in Item : q[f] \in {"none", "check"}

SetWork(d, w, f, step) == work' = [work EXCEPT ![d][w][f] = step]

CheckRequest(d, w, f) ==
  /\ work[d][w][f] = "check"
  /\ Settled(work[d][w])
  /\ SetWork(d, w, f, IF Holds(d, f) THEN "delete" ELSE "clear")
  /\ UNCHANGED <<db, sync, purging, calls, ops, history>>

\* delete_local_copy, which looks again.  An error leaves the request standing.
ApplyRequest(d, w, f) ==
  /\ work[d][w][f] = "delete"
  /\ IF files[d][f] # "absent" /\ Holds(d, f)
       THEN /\ DropCopy(d, f)
            /\ SetWork(d, w, f, "clear")
            /\ spent' = [spent EXCEPT ![f] = @ \cup {d}]
       ELSE /\ SetWork(d, w, f, "none")
            /\ UNCHANGED <<files, holders, pushes, spent>>
  /\ UNCHANGED <<requests, tombs, sync, purging, rpcs, ops, everHeld, asked>>

ClearRequest(d, w, f) ==
  /\ work[d][w][f] = "clear"
  /\ SetWork(d, w, f, "none")
  /\ requests' = [requests EXCEPT ![d][f] = @ \ {d}]
  /\ UNCHANGED <<files, holders, tombs, sync, purging, calls, ops, history>>

-----------------------------------------------------------------------------
(* sync_with_peer: one task per device, one peer at a time.              *)

\* GET /catalog: the peer reads its tables under its own lock, once.
FetchCatalog(d, p) ==
  /\ d # p
  /\ sync[d].stage = "idle"
  /\ Cardinality({e \in Device : sync[e].stage # "idle"}) < MaxSyncs
  /\ sync' = [sync EXCEPT ![d] =
       [stage |-> "tombstones", peer |-> p, cat |-> CatalogOf(p),
        marks |-> [f \in Item |-> IF f \in tombs[p] THEN "check" ELSE "none"]]]
  /\ UNCHANGED <<db, work, purging, calls, ops, history>>

Mark(d, f, step) == sync' = [sync EXCEPT ![d].marks[f] = step]

\* Mutant: the tombstone of an item never seen here is not recorded.
CheckTombstoneOfKnown(d, f) ==
  /\ sync[d].marks[f] = "check"
  /\ \A g \in Item : sync[d].marks[g] \in {"none", "check"}
  /\ Mark(d, f, IF f \notin tombs[d] /\ files[d][f] # "absent"
                  THEN "purge" ELSE "none")
  /\ UNCHANGED <<db, work, purging, calls, ops, history>>

\* apply_tombstone, first section: is it news, and is the item here?  The lookup
\* at the start of purge is folded in: the item can only go by being purged,
\* and then its tombstone is in place.
CheckTombstone(d, f) ==
  /\ sync[d].marks[f] = "check"
  /\ \A g \in Item : sync[d].marks[g] \in {"none", "check"}
  /\ Mark(d, f, CASE f \in tombs[d] -> "none"
                   [] f \notin tombs[d] /\ files[d][f] # "absent" -> "purge"
                   [] f \notin tombs[d] /\ files[d][f] = "absent" -> "insert")
  /\ UNCHANGED <<db, work, purging, calls, ops, history>>

\* The purge that follows when the item is here.  insert_tombstone then writes
\* the row that purge_file has just written, so nothing is left to insert.
PurgeTombstoned(d, f) ==
  /\ sync[d].marks[f] = "purge"
  /\ Mark(d, f, "none")
  /\ IF files[d][f] = "absent" THEN UNCHANGED db ELSE PurgeFile(d, f)
  /\ UNCHANGED <<work, purging, calls, ops, history>>

\* The insert that follows when it was not, under a lock taken afresh.
InsertTombstone(d, f) ==
  /\ sync[d].marks[f] = "insert"
  /\ Mark(d, f, "none")
  /\ tombs' = [tombs EXCEPT ![d] = @ \cup {f}]
  /\ UNCHANGED <<files, holders, requests, work, purging, calls, ops, history>>

\* Mutant: the peer is taken to hold whatever it lists.
PeerRowOfListed(d, f) ==
  IF f \in tombs[d] \/ sync[d].cat.files[f] = "absent" THEN {} ELSE {sync[d].peer}

\* What d records of the peer's own copy of f: taken as the peer reports it,
\* dropped when the item is destroyed.
PeerRow(d, f) ==
  IF f \in tombs[d] THEN {} ELSE sync[d].cat.holders[f] \cap {sync[d].peer}

\* Mutant: what the peer says of d itself is believed.
ThirdRowsAndOwn(d, f) ==
  IF f \in tombs[d] THEN {} ELSE sync[d].cat.holders[f] \ {sync[d].peer}

\* What d adds of third devices' copies, its own row excepted.
ThirdRows(d, f) ==
  IF f \in tombs[d] THEN {} ELSE sync[d].cat.holders[f] \ {sync[d].peer, d}

\* Mutant: no row is ever dropped.
MergedRowsGrowing(d, f) == holders[d][f] \cup PeerRow(d, f) \cup ThirdRows(d, f)

\* replace_holders_for_device, then set_holder for each third device's row.
MergedRows(d, f) ==
  (holders[d][f] \ {sync[d].peer}) \cup PeerRow(d, f) \cup ThirdRows(d, f)

\* The merge proper, one lock section from the items to the requests.
MergeCatalog(d) ==
  LET s == sync[d] IN
  /\ s.stage = "tombstones"
  /\ s.marks = Idle(d).marks
  /\ files' = [files EXCEPT ![d] = [f \in Item |-> Merged(d, f, s.cat.files[f])]]
  /\ holders' = [holders EXCEPT ![d] = [f \in Item |-> MergedRows(d, f)]]
  /\ requests' = [requests EXCEPT ![d] = [f \in Item |->
       requests[d][f] \cup s.cat.requests[f]]]
  /\ sync' = [sync EXCEPT ![d] = [Idle(d) EXCEPT !.stage = "pending"]]
  /\ UNCHANGED <<tombs, work, purging, calls, ops, history>>

\* apply_pending_delete_requests begins with the requests as they are now.
StartPending(d) ==
  /\ sync[d].stage = "pending"
  /\ sync' = [sync EXCEPT ![d].stage = "applying"]
  /\ work' = [work EXCEPT ![d]["sync"] = PendingFor(d, requests)]
  /\ UNCHANGED <<db, purging, calls, ops, history>>

\* Mutant: every request counts as satisfied once a sync is over.
PruneAllRequests(d) ==
  /\ sync[d].stage = "applying"
  /\ work[d]["sync"] = NoWork
  /\ requests' = [requests EXCEPT ![d] = [f \in Item |-> {}]]
  /\ sync' = [sync EXCEPT ![d] = Idle(d)]
  /\ UNCHANGED <<files, holders, tombs, work, purging, calls, ops, history>>

\* prune_satisfied_delete_requests: what remains is aimed at a listed holder of a
\* live item.
PruneRequests(d) ==
  /\ sync[d].stage = "applying"
  /\ work[d]["sync"] = NoWork
  /\ requests' = [requests EXCEPT ![d] = [f \in Item |->
       IF files[d][f] = "live" THEN requests[d][f] \cap holders[d][f] ELSE {}]]
  /\ sync' = [sync EXCEPT ![d] = Idle(d)]
  /\ UNCHANGED <<files, holders, tombs, work, purging, calls, ops, history>>

-----------------------------------------------------------------------------
\* A person's acts, the sweep and restarts: nothing makes them happen.
UserStep ==
  \E d \in Device :
    \/ \E f \in Item : \/ Import(d, f)
                       \/ DeleteLocal(d, f)
                       \/ Restore(d, f)
                       \/ DeletePermanently(d, f)
    \/ \E t \in Device, f \in Item : Share(d, t, f) \/ DeleteCopy(d, t, f)
    \/ SweepTrash(d)
    \/ Restart(d)

\* A call reaches its handler.  One that never does is lost.
CallStep ==
  \/ \E m \in pushes : PushMetadata(m)
  \/ \E m \in pushes : FinalizeFile(m)
  \/ \E m \in rpcs, h \in Handler : RequestDelete(m, h)

WorkStep(d) ==
  \/ \E h \in Handler : BeginRequests(d, h)
  \/ \E w \in Worker, f \in Item :
       CheckRequest(d, w, f) \/ ApplyRequest(d, w, f) \/ ClearRequest(d, w, f)

TombstoneStep(d) ==
  \E f \in Item :
    CheckTombstone(d, f) \/ PurgeTombstoned(d, f) \/ InsertTombstone(d, f)

SyncStep(d) ==
  \/ TombstoneStep(d)
  \/ MergeCatalog(d)
  \/ StartPending(d)
  \/ PruneRequests(d)

Next ==
  \/ UserStep
  \/ CallStep
  \/ \E d \in Device :
       \/ \E f \in Item : Purge(d, f)
       \/ \E p \in Device : FetchCatalog(d, p)
       \/ WorkStep(d)
       \/ SyncStep(d)

Spec == Init /\ [][Next]_vars

\* A task that has begun goes on: every step of it is a bounded computation.  Each
\* round of spawn_catalog_sync visits every visible peer, so a device that is
\* idle again and again fetches each peer's catalog again and again.
Fairness ==
  \A d \in Device :
    /\ WF_vars(SyncStep(d))
    /\ WF_vars(WorkStep(d))
    /\ WF_vars(\E f \in Item : Purge(d, f))
    /\ \A p \in Device : SF_vars(FetchCatalog(d, p))

FairSpec == Spec /\ Fairness

-----------------------------------------------------------------------------
(* Properties.                                                           *)

\* file_holders has no foreign key: only the handlers see to it that a holder row
\* never outlives its item, here or in a catalog still to be merged.
NoOrphanRows ==
  \A d \in Device, f \in Item :
    /\ holders[d][f] # {} => files[d][f] # "absent"
    /\ sync[d].cat.holders[f] # {} => sync[d].cat.files[f] # "absent"

\* No catalog lists a holder that never had the item, however stale the answers
\* it was put together from and however shares failed half-way.
NoPhantomHolders ==
  \A d \in Device, f \in Item :
    /\ holders[d][f] \subseteq everHeld[f]
    /\ sync[d].cat.holders[f] \subseteq everHeld[f]

\* No catalog carries a delete nobody asked for, and none is carried out.
DeletesWereAsked ==
  \A d \in Device, f \in Item :
    /\ requests[d][f] \subseteq asked[f]
    /\ sync[d].cat.requests[f] \subseteq asked[f]
    /\ \A w \in Worker : work[d][w][f] # "none" => d \in asked[f]

\* A destroyed item is not handed back: not by a catalog read before it was
\* destroyed, not by a share announced before.
NoResurrection ==
  [][\A d \in Device, f \in Item :
       f \in tombs[d] /\ files[d][f] = "absent" =>
         f \in tombs'[d] /\ files'[d][f] = "absent"]_vars

\* Merging catalogs moves no copy: however they cross, a device becomes a holder by
\* importing or by receiving a share and stops being one because a person deleted
\* here, asked for it from elsewhere, or the item was destroyed; and only what was
\* condemned is destroyed (sync_with_peer, apply_tombstone, finalize_file).
Promise == INSTANCE Copies WITH
  copies <- [d \in Device |-> {f \in Item : Holds(d, f)}],
  had <- everHeld,
  offered <- {<<m.to, m.item>> : m \in pushes},
  condemned <- purging,
  destroyed <- UNION {tombs[d] : d \in Device},
  gone <- [d \in Device |-> {f \in tombs[d] : files[d][f] = "absent"}],
  acts <- ops

CopiesAreKept == Promise!Spec

\* Every device comes to know of a destruction, having known the item or not.
TombstonesSpread ==
  \A f \in Item, d \in Device :
    (f \in tombs[d]) ~> (\A e \in Device : f \in tombs[e])

\* A delete aimed at t is carried out though its call may be lost, unless t has no
\* copy to drop or the item is in somebody's trash.
DeletesArrive ==
  \A f \in Item, d \in Device, t \in Device :
    (t \in requests[d][f]) ~>
      \/ t \in spent[f]
      \/ ~Holds(t, f)
      \/ \E e \in Device : files[e][f] = "trashed" \/ f \in tombs[e]

\* In the end every device lists exactly the copies there are, of the items it
\* does not hold destroyed.  This is so between two devices: of three, two may go
\* on relaying a row of the third that has long been untrue.
RowsSettle ==
  <>[](\A d \in Device, e \in Device, f \in Item :
         f \notin tombs[d] => (e \in holders[d][f] <=> Holds(e, f)))

\* Deleting copies loses nothing: an item nobody destroyed has a holder.
SomeoneKeepsIt ==
  \A f \in Item :
    everHeld[f] # {} /\ (\A d \in Device : f \notin tombs[d]) =>
      \E d \in Device : Holds(d, f)

=============================================================================
