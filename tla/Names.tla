-------------------------------- MODULE Names --------------------------------
(******************************************************************************)
(* The names of items.                                                        *)
(*                                                                            *)
(* A name is meant to belong to one live item across the mesh.  A device      *)
(* enforces that with a unique index on its own table files; devices that     *)
(* were apart settle a clash when one merges the other's catalog, by moving   *)
(* one of the two items to a numbered name, in the catalog and in the folder. *)
(* An action is one section of code under the database mutex, or one step on  *)
(* the folder taken without it; a merge holds the mutex from its first item   *)
(* to its last.                                                               *)
(*                                                                            *)
(* Left to other modules: who else holds a copy (deleting one may or may not  *)
(* find that it is the last), tombstones, the bytes of blocks.  What a person *)
(* puts in a folder is not empty, and no two such files have the same         *)
(* contents.                                                                  *)
(******************************************************************************)
EXTENDS Naturals, Sequences, FiniteSets, SequencesExt

CONSTANTS
  Device,    \* the paired devices
  Doc,       \* what a person puts in a folder, each once
  None,      \* no item, no document, the contents of an empty file
  Acts,      \* what people and the operating system may do
  MaxItem,   \* bound: ids 1..MaxItem may be handed out
  MaxOps,    \* bound: how often people and the operating system act
  MaxFails   \* bound: how many documents cannot be cut into blocks

ActKinds == {"drop", "edit", "share", "delete", "restore", "resolve", "crash"}

\* Ids are compared as strings, and a new id falls anywhere among the others.
Item == 1 .. MaxItem

ASSUME NamesAssumption ==
  /\ MaxItem \in Nat /\ MaxOps \in Nat /\ MaxFails \in Nat /\ Acts \subseteq ActKinds
  /\ None \notin Item \cup Doc

\* A name is the numbers put behind the name a person chose: <<>> for notes.txt,
\* <<1>> for notes 1.txt, <<1, 1>> for notes 1 1.txt.
Name == Seq(Nat \ {0})

\* What a person may call a file.
Chosen == {<<>>, <<1>>}

VARIABLES
  state,     \* state[d][f]: whether d's table files has f, live or in the trash
  name,      \* name[d][f]: its path there
  order,     \* order[d]: the items of that table by rowid, as a catalog lists them
  manifest,  \* manifest[d][f]: what table file_blocks maps f to
  held,      \* held[d]: the items with a holder row for d
  folder,    \* folder[d]: the files in d's sync folder, by name
  job,       \* job[d]: the local variables of Indexer::index
  fetch,     \* fetch[d]: the catalog d has fetched and how far it has merged it
  pushes,    \* shares under way
  queue,     \* queue[d]: the questions waiting in d's CollisionQueue
  kept,      \* history: kept[d]: documents put in d's folder, less those deleted
  ids,       \* history: the ids handed out
  calm,      \* history: people have only added and edited files
  ops,       \* how much of MaxOps is used
  failed     \* history: the documents that once were not

catalog == <<state, name, order, manifest, held>>
history == <<kept, ids, calm, ops, failed>>
vars == <<catalog, folder, job, fetch, pushes, queue, history>>

Entry == [item : Item, name : Name, state : {"live", "trashed"}]
Question == [incoming : Item, existing : Item, requested : Name, current : Name]

Indexing == [stage : {"idle", "lookup", "pick", "rename", "insert", "claim"},
             from : Name, at : Name, item : Item \cup {None},
             existing : Item \cup {None}, known : Doc \cup {None}]

Fetched == [stage : {"idle", "fetched", "merging"}, left : Seq(Entry)]

Push == [to : Device, entry : Entry, doc : Doc, stage : {"metadata", "finalize"}]

NoJob == [stage |-> "idle", from |-> <<>>, at |-> <<>>, item |-> None,
          existing |-> None, known |-> None]
NoFetch == [stage |-> "idle", left |-> <<>>]

NoFiles == [n \in {} |-> None]

Init ==
  /\ state = [d \in Device |-> [f \in Item |-> "absent"]]
  /\ name = [d \in Device |-> [f \in Item |-> <<>>]]
  /\ order = [d \in Device |-> <<>>]
  /\ manifest = [d \in Device |-> [f \in Item |-> None]]
  /\ held = [d \in Device |-> {}]
  /\ folder = [d \in Device |-> NoFiles]
  /\ job = [d \in Device |-> NoJob]
  /\ fetch = [d \in Device |-> NoFetch]
  /\ pushes = {}
  /\ queue = [d \in Device |-> {}]
  /\ kept = [d \in Device |-> {}]
  /\ ids = {}
  /\ calm = TRUE
  /\ ops = 0
  /\ failed = {}

Act(kind) ==
  /\ kind \in Acts
  /\ ops < MaxOps
  /\ ops' = ops + 1
  /\ calm' = (calm /\ kind \in {"drop", "edit"})
  /\ UNCHANGED failed

\* The mutex of d's database is free: no merge is between two items.
Unlocked(d) == fetch[d].stage # "merging"

-----------------------------------------------------------------------------
(* Names, paths and the folder.                                          *)

LiveNames(d) == {name[d][f] : f \in {g \in Item : state[d][g] = "live"}}

\* get_file_by_path: the live item that owns n.
OwnerOf(d, n) ==
  IF n \in LiveNames(d)
    THEN CHOOSE f \in Item : state[d][f] = "live" /\ name[d][f] = n ELSE None

\* suffixed_path.
Suffixed(n, k) == Append(n, k)

\* next_available_path: n, or its first numbered variant that is not taken.  The
\* code gives up at the ten thousandth.
NextAvailable(n, taken) ==
  IF n \notin taken THEN n
  ELSE Suffixed(n, CHOOSE k \in 1 .. Cardinality(taken) :
                     /\ Suffixed(n, k) \notin taken
                     /\ \A j \in 1 .. k - 1 : Suffixed(n, j) \in taken)

Files(d) == DOMAIN folder[d]

With(files, n, doc) ==
  [m \in DOMAIN files \cup {n} |-> IF m = n THEN doc ELSE files[m]]
Without(files, n) == [m \in DOMAIN files \ {n} |-> files[m]]

\* fs::rename, which takes the place of whatever file is at the new name.
Moved(files, from, to) ==
  IF from \in DOMAIN files /\ from # to
    THEN With(Without(files, from), to, files[from]) ELSE files

-----------------------------------------------------------------------------
(* Table files.                                                          *)

\* Mutant: the row that was there stays as well.
ReinsertedTwice(seq, f) == Append(seq, f)

\* INSERT OR REPLACE: a row of f that is there goes and comes back at the end.
Reinserted(seq, f) == Append(RemoveFirst(seq, f), f)

\* ON CONFLICT(id) DO UPDATE: a row of f that is there stays where it is.
Upserted(seq, f) == IF f \in ToSet(seq) THEN seq ELSE Append(seq, f)

\* insert_file of f as a live item at n.  The unique index makes REPLACE take away
\* another live item of that name.  An item with blocks mapped to it cannot be
\* taken away, by the foreign key, and then nothing is inserted.
InTheWay(d, f, n) == IF OwnerOf(d, n) = f THEN None ELSE OwnerOf(d, n)

\* Mutant: without PRAGMA foreign_keys = ON.
CanAlwaysInsert(d, f, n) == n = n

CanInsert(d, f, n) ==
  LET gone == InTheWay(d, f, n) IN gone # None => manifest[d][gone] = None

InsertFile(d, f, n) ==
  LET gone == InTheWay(d, f, n) IN
  /\ state' = [state EXCEPT ![d] = [g \in Item |->
       IF g = f THEN "live" ELSE IF g = gone THEN "absent" ELSE @[g]]]
  /\ name' = [name EXCEPT ![d] = [g \in Item |->
       IF g = f THEN n ELSE IF g = gone THEN <<>> ELSE @[g]]]
  /\ order' = [order EXCEPT ![d] = Reinserted(RemoveFirst(@, gone), f)]

\* upsert_file_from_catalog of e under name n, with item g moved to name m first.
Upsert(d, e, n, g, m) ==
  /\ state' = [state EXCEPT ![d][e.item] = e.state]
  /\ name' = [name EXCEPT ![d] = [f \in Item |->
       CASE f = e.item -> n [] f # e.item /\ f = g -> m [] OTHER -> @[f]]]
  /\ order' = [order EXCEPT ![d] = Upserted(@, e.item)]

\* merge_catalog_file.  What it did comes back as the item moved, where from, where
\* to, and the other item; nothing moved is item None.
Applied == [moved |-> None, from |-> <<>>, to |-> <<>>, other |-> None]

Clash(d, e) == e.state = "live" /\ OwnerOf(d, e.name) \notin {None, e.item}

\* Mutant: the item that comes later yields.
FirstComeWins(d, e) == Clash(d, e)

\* The item with the smaller id keeps the name.
Yields(d, e) == Clash(d, e) /\ OwnerOf(d, e.name) < e.item

\* Where an item that yields goes: it stays where an earlier sync has put it.
PlacedAt(d, e) ==
  IF state[d][e.item] = "live"
    THEN name[d][e.item] ELSE NextAvailable(e.name, LiveNames(d))

Outcome(d, e) ==
  LET owner == OwnerOf(d, e.name) IN
  CASE ~Clash(d, e) -> Applied
    [] Yields(d, e) ->
         [moved |-> e.item, from |-> e.name, to |-> PlacedAt(d, e), other |-> owner]
    [] Clash(d, e) /\ ~Yields(d, e) ->
         [moved |-> owner, from |-> e.name,
          to |-> NextAvailable(e.name, LiveNames(d)), other |-> e.item]

\* Mutant: the item that loses its name is not moved.
MergeFileInPlace(d, e) ==
  LET o == Outcome(d, e) IN
  IF o.moved = e.item THEN Upsert(d, e, o.to, None, <<>>)
                      ELSE Upsert(d, e, e.name, None, <<>>)

MergeFile(d, e) ==
  LET o == Outcome(d, e) IN
  IF o.moved = e.item THEN Upsert(d, e, o.to, None, <<>>)
                      ELSE Upsert(d, e, e.name, o.moved, o.to)

\* CollisionQueue::record: a pair of items is asked about once.
Recorded(q, c) ==
  IF \E x \in q : x.incoming = c.incoming /\ x.existing = c.existing
    THEN q ELSE q \cup {c}

-----------------------------------------------------------------------------
(* The folder and Indexer::index.                                        *)

\* A person puts a new file in the folder.
Drop(d, doc, n) ==
  /\ Act("drop")
  /\ \A e \in Device : doc \notin kept[e]
  /\ n \notin Files(d)
  /\ folder' = [folder EXCEPT ![d] = With(@, n, doc)]
  /\ kept' = [kept EXCEPT ![d] = @ \cup {doc}]
  /\ UNCHANGED <<catalog, job, fetch, pushes, queue, ids>>

Fail(doc) ==
  /\ Cardinality(failed) < MaxFails
  /\ failed' = failed \cup {doc}

Indexed(d, doc) == doc \in failed \/ \E f \in Item : manifest[d][f] = doc

\* index begins with the file at n: a new one, or one a person has saved again.
\* A live item of that name that is not held here is another device's.
StartIndex(d, n) ==
  LET owner == OwnerOf(d, n) IN
  /\ n \in Files(d)
  /\ job[d].stage = "idle"
  /\ Unlocked(d)
  /\ IF Indexed(d, folder[d][n]) THEN Act("edit") ELSE UNCHANGED <<calm, ops, failed>>
  /\ job' = [job EXCEPT ![d] = [NoJob EXCEPT !.from = n, !.at = n,
       !.existing = owner,
       !.stage = IF owner = None \/ owner \in held[d] THEN "lookup" ELSE "pick"]]
  /\ UNCHANGED <<catalog, folder, fetch, pushes, queue, kept, ids>>

\* new_file_id.
NewId(f) == f \in Item \ ids /\ ids' = ids \cup {f}

\* No clash: the item at that name is asked for once more.
Lookup(d) ==
  LET owner == OwnerOf(d, job[d].from) IN
  /\ job[d].stage = "lookup"
  /\ Unlocked(d)
  /\ IF owner = None
       THEN \E f \in Item : NewId(f) /\ job' = [job EXCEPT
              ![d].stage = "insert", ![d].item = f]
       ELSE /\ job' = [job EXCEPT ![d].stage = "insert", ![d].item = owner,
                 ![d].known = manifest[d][owner]]
            /\ UNCHANGED ids
  /\ UNCHANGED <<catalog, folder, fetch, pushes, queue, kept, calm, ops, failed>>

\* A clash: Indexer::free_path looks in the catalog and in the folder ...
PickFreePath(d) ==
  /\ job[d].stage = "pick"
  /\ Unlocked(d)
  /\ job' = [job EXCEPT ![d].stage = "rename",
       ![d].at = NextAvailable(job[d].from, LiveNames(d) \cup Files(d))]
  /\ UNCHANGED <<catalog, folder, fetch, pushes, queue, history>>

\* ... and the file goes there as a new item, with a question for the person.  If it
\* cannot be renamed, index ends with nothing done.
KeepBoth(d) ==
  LET j == job[d] IN
  /\ j.stage = "rename"
  /\ \/ job' = [job EXCEPT ![d] = NoJob] /\ UNCHANGED <<folder, queue, ids>>
     \/ \E f \in Item :
          /\ j.from \in Files(d)
          /\ NewId(f)
          /\ folder' = [folder EXCEPT ![d] = Moved(@, j.from, j.at)]
          /\ queue' = [queue EXCEPT ![d] = Recorded(@,
               [incoming |-> f, existing |-> j.existing,
                requested |-> j.from, current |-> j.at])]
          /\ job' = [job EXCEPT ![d].stage = "insert", ![d].item = f]
  /\ UNCHANGED <<catalog, fetch, pushes, kept, calm, ops, failed>>

\* The long section: the row, and the manifest of the file as it is by now.
\* Contents the catalog knows already end it, and so does a file that has gone or
\* cannot be cut into blocks.
InsertIndexed(d) ==
  LET j == job[d]
      n == j.at
      here == n \in Files(d)
      doc == folder[d][n]
  IN
  /\ j.stage = "insert"
  /\ Unlocked(d)
  /\ IF CanInsert(d, j.item, n)
       THEN /\ InsertFile(d, j.item, n)
            /\ \/ /\ here
                  /\ manifest' = [manifest EXCEPT ![d][j.item] = doc]
                  /\ \/ job' = [job EXCEPT ![d].stage = "claim"]
                     \/ doc = j.known /\ job' = [job EXCEPT ![d] = NoJob]
                  /\ UNCHANGED failed
               \/ /\ IF here THEN Fail(doc) ELSE UNCHANGED failed
                  /\ manifest' = [manifest EXCEPT ![d][j.item] = None]
                  /\ job' = [job EXCEPT ![d] = NoJob]
       ELSE /\ job' = [job EXCEPT ![d] = NoJob]
            /\ UNCHANGED <<state, name, order, manifest, failed>>
  /\ UNCHANGED <<held, folder, fetch, pushes, queue, kept, ids, calm, ops>>

\* The short section: the row once more, and the holder row.
ClaimIndexed(d) ==
  LET j == job[d] IN
  /\ j.stage = "claim"
  /\ Unlocked(d)
  /\ job' = [job EXCEPT ![d] = NoJob]
  /\ IF CanInsert(d, j.item, j.at)
       THEN /\ InsertFile(d, j.item, j.at)
            /\ held' = [held EXCEPT ![d] = @ \cup {j.item}]
       ELSE UNCHANGED <<state, name, order, held>>
  /\ UNCHANGED <<manifest, folder, fetch, pushes, queue, history>>

-----------------------------------------------------------------------------
(* sync_with_peer and shares.                                            *)

EntryOf(d, f) == [item |-> f, name |-> name[d][f], state |-> state[d][f]]

CatalogOf(d) == [i \in DOMAIN order[d] |-> EntryOf(d, order[d][i])]

FetchCatalog(d, p) ==
  /\ d # p
  /\ fetch[d].stage = "idle"
  /\ Unlocked(p)
  /\ fetch' = [fetch EXCEPT ![d] = [stage |-> "fetched", left |-> CatalogOf(p)]]
  /\ UNCHANGED <<catalog, folder, job, pushes, queue, history>>

\* One item of the catalog fetched.  The folder follows an item held here that
\* moved, if there is a file at the name it left.
MergeNext(d) ==
  LET e == Head(fetch[d].left)
      o == Outcome(d, e)
  IN
  /\ fetch[d].left # <<>>
  /\ MergeFile(d, e)
  /\ folder' = [folder EXCEPT ![d] =
       IF o.moved \in held[d] THEN Moved(@, o.from, o.to) ELSE @]
  /\ queue' = [queue EXCEPT ![d] =
       IF o = Applied THEN @
       ELSE Recorded(@, [incoming |-> o.moved, existing |-> o.other,
                         requested |-> o.from, current |-> o.to])]
  /\ fetch' = [fetch EXCEPT ![d] = [stage |-> "merging", left |-> Tail(@.left)]]
  /\ UNCHANGED <<manifest, held, job, pushes, history>>

EndMerge(d) ==
  /\ fetch[d].stage # "idle"
  /\ fetch[d].left = <<>>
  /\ fetch' = [fetch EXCEPT ![d] = NoFetch]
  /\ UNCHANGED <<catalog, folder, job, pushes, queue, history>>

\* share_to: the description is read now and sent later.
Share(d, t, f) ==
  /\ Act("share")
  /\ d # t
  /\ Unlocked(d)
  /\ f \in held[d]
  /\ state[d][f] # "absent" /\ manifest[d][f] # None
  /\ pushes' = pushes \cup {[to |-> t, entry |-> EntryOf(d, f),
                             doc |-> manifest[d][f], stage |-> "metadata"]}
  /\ UNCHANGED <<catalog, folder, job, fetch, queue, kept, ids>>

\* push_metadata merges as a sync does, and looks at no outcome.
PushMetadata(m) ==
  /\ m.stage = "metadata"
  /\ Unlocked(m.to)
  /\ MergeFile(m.to, m.entry)
  /\ manifest' = [manifest EXCEPT ![m.to][m.entry.item] = m.doc]
  /\ pushes' = (pushes \ {m}) \cup {[m EXCEPT !.stage = "finalize"]}
  /\ UNCHANGED <<held, folder, job, fetch, queue, history>>

\* finalize_file puts the contents together under the name the item has by now.  Of
\* an item left without blocks, by an index that failed, all are there: the file is
\* empty.
FinalizeFile(m) ==
  LET d == m.to
      f == m.entry.item
  IN
  /\ m.stage = "finalize"
  /\ Unlocked(d)
  /\ state[d][f] # "absent"
  /\ folder' = [folder EXCEPT ![d] = With(@, name[d][f], manifest[d][f])]
  /\ held' = [held EXCEPT ![d] = @ \cup {f}]
  /\ pushes' = pushes \ {m}
  /\ UNCHANGED <<state, name, order, manifest, job, fetch, queue, history>>

-----------------------------------------------------------------------------
(* What else a person does.                                              *)

\* delete_local_copy: the file at the item's name goes; the item is trashed or the
\* copy dropped.
DeleteLocalCopy(d, f) ==
  /\ Act("delete")
  /\ Unlocked(d)
  /\ state[d][f] # "absent" /\ f \in held[d]
  /\ folder' = [folder EXCEPT ![d] = Without(@, name[d][f])]
  /\ kept' = [kept EXCEPT ![d] = @ \ {manifest[d][f]}]
  /\ \/ /\ state' = [state EXCEPT ![d][f] = "trashed"]
        /\ UNCHANGED <<held, queue>>
     \/ /\ held' = [held EXCEPT ![d] = @ \ {f}]
        /\ queue' = [queue EXCEPT ![d] = {c \in @ : f \notin {c.incoming, c.existing}}]
        /\ UNCHANGED state
  /\ UNCHANGED <<name, order, manifest, job, fetch, pushes, ids>>

RestoreFile(d, f) ==
  /\ Act("restore")
  /\ Unlocked(d)
  /\ state[d][f] = "trashed"
  /\ name[d][f] \notin LiveNames(d)
  /\ state' = [state EXCEPT ![d][f] = "live"]
  /\ UNCHANGED <<name, order, manifest, held, folder, job, fetch, pushes, queue,
                 kept, ids>>

\* resolve_collision with Override: override_file, in one transaction that the
\* unique index may refuse, then the folder.
Override(d, c) ==
  /\ Act("resolve")
  /\ Unlocked(d)
  /\ state[d][c.existing] = "live"
  /\ state[d][c.incoming] = "live" =>
       OwnerOf(d, c.requested) \in {None, c.existing, c.incoming}
  /\ state' = [state EXCEPT ![d][c.existing] = "trashed"]
  /\ name' = [name EXCEPT ![d][c.incoming] =
       IF state[d][c.incoming] = "absent" THEN @ ELSE c.requested]
  /\ folder' = [folder EXCEPT ![d] = Moved(@, c.current, c.requested)]
  /\ queue' = [queue EXCEPT ![d] = @ \ {c}]
  /\ UNCHANGED <<order, manifest, held, job, fetch, pushes, kept, ids>>

\* resolve_collision with KeepBoth confirms what has been done.
Confirm(d, c) ==
  /\ Act("resolve")
  /\ queue' = [queue EXCEPT ![d] = @ \ {c}]
  /\ UNCHANGED <<catalog, folder, job, fetch, pushes, kept, ids>>

\* The process ends: tables and folder stay, questions do not.
Crash(d) ==
  /\ Act("crash")
  /\ job' = [job EXCEPT ![d] = NoJob]
  /\ fetch' = [fetch EXCEPT ![d] = NoFetch]
  /\ queue' = [queue EXCEPT ![d] = {}]
  /\ UNCHANGED <<catalog, folder, pushes, kept, ids>>

-----------------------------------------------------------------------------
IndexStep(d) ==
  \/ Lookup(d)
  \/ PickFreePath(d)
  \/ KeepBoth(d)
  \/ InsertIndexed(d)
  \/ ClaimIndexed(d)

MergeStep(d) == MergeNext(d) \/ EndMerge(d)

UserStep(d) ==
  \/ \E doc \in Doc, n \in Chosen : Drop(d, doc, n)
  \/ \E f \in Item : \/ \E t \in Device : Share(d, t, f)
                     \/ DeleteLocalCopy(d, f)
                     \/ RestoreFile(d, f)
  \/ \E c \in queue[d] : Override(d, c) \/ Confirm(d, c)
  \/ Crash(d)

Next ==
  \/ \E d \in Device :
       \/ UserStep(d)
       \/ \E n \in Files(d) : StartIndex(d, n)
       \/ IndexStep(d)
       \/ \E p \in Device : FetchCatalog(d, p)
       \/ MergeStep(d)
  \/ \E m \in pushes : PushMetadata(m)
  \/ \E m \in pushes : FinalizeFile(m)

Spec == Init /\ [][Next]_vars

\* A job or a merge that has begun goes on, and each round of spawn_catalog_sync
\* visits every visible peer.
Fairness ==
  \A d \in Device :
    /\ WF_vars(IndexStep(d))
    /\ WF_vars(MergeStep(d))
    /\ \A p \in Device : SF_vars(FetchCatalog(d, p))

FairSpec == Spec /\ Fairness

-----------------------------------------------------------------------------
(* Properties.                                                           *)

TypeOK ==
  /\ state \in [Device -> [Item -> {"absent", "live", "trashed"}]]
  /\ name \in [Device -> [Item -> Name]]
  /\ order \in [Device -> Seq(Item)]
  /\ \A d \in Device : /\ ToSet(order[d]) = {f \in Item : state[d][f] # "absent"}
                      /\ IsInjective(order[d])
                      /\ \A n \in Files(d) :
                           n \in Name /\ folder[d][n] \in Doc \cup {None}
  /\ held \in [Device -> SUBSET Item]
  /\ job \in [Device -> Indexing]
  /\ fetch \in [Device -> Fetched]
  /\ queue \in [Device -> SUBSET Question]
  /\ kept \in [Device -> SUBSET Doc]
  /\ manifest \in [Device -> [Item -> Doc \cup {None}]]
  /\ pushes \subseteq Push
  /\ ids \subseteq Item
  /\ calm \in BOOLEAN
  /\ ops \in Nat /\ failed \subseteq Doc \cup {None}

\* Every name a merge, a rename or a restore settles on is free: the unique index has
\* nothing to refuse but an insert of index.
NamesAreUnique ==
  \A d \in Device, f, g \in Item :
    /\ f # g
    /\ state[d][f] = "live" /\ state[d][g] = "live"
    => name[d][f] # name[d][g]

\* An item with blocks stays in the catalog, though index takes names with REPLACE
\* long after it looked whose they were.
MappedItemsStayListed ==
  \A d \in Device, f \in Item : manifest[d][f] # None => state[d][f] # "absent"

\* Nothing but adding and editing files has happened, and of two items at most.  With
\* three, the property below fails.
JustTwo == calm /\ Cardinality(ids) <= 2

\* Two devices that were apart come to call both items the same, and go on doing so:
\* the tie-break of merge_catalog_file needs no agreement, and a loser is not bumped
\* again by later syncs.
NamesConverge ==
  []JustTwo =>
    <>[](\A d, e \in Device, f \in Item :
           state[d][f] = state[e][f] /\ name[d][f] = name[e][f])

\* Keep both cannot lose anything: a document a person put in the folder, and has
\* not deleted, is in the folder or in the store.
NothingIsLost ==
  \A d \in Device : \A doc \in kept[d] :
    \/ \E n \in Files(d) : folder[d][n] = doc
    \/ \E f \in held[d] : manifest[d][f] = doc

=============================================================================
