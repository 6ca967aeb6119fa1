------------------------------- MODULE Store --------------------------------
(***************************************************************************)
(* The block store of one device.                                          *)
(*                                                                         *)
(* A file's contents are cut into blocks named by their hash, and a block  *)
(* may serve several items.  Three things describe one block: the row in   *)
(* table blocks with its is_present flag, the rows of file_blocks that map *)
(* items to it, and the block file on disk.  The database mutex guards the *)
(* first two; block files are written without it by push_block and by      *)
(* fetch_blocks_from_peer, and nothing spans a statement and a disk        *)
(* operation, so the process may end between them.                         *)
(*                                                                         *)
(* A file's contents are a set of blocks: their order and repeats change   *)
(* nothing here.  One indexing and one removal run at a time, with any     *)
(* number of transfers.  Left to other modules: names (an item stands for  *)
(* its own path), what other devices hold, trash (a last copy that is      *)
(* deleted keeps its bytes, so nothing happens here) and the folder.       *)
(***************************************************************************)
EXTENDS Naturals

CONSTANTS
  Item,      \* item ids
  Block,     \* block ids
  Transfer,  \* slots for transfers towards this device
  None,      \* no content hash
  Acts,      \* what people, peers and the operating system may do
  MaxOps     \* bound: how often they may

ActKinds == {"index", "drop", "purge", "learn", "push", "pull", "abandon", "crash"}

ASSUME StoreAssumption ==
  MaxOps \in Nat /\ Acts \subseteq ActKinds

VARIABLES
  rows,      \* the items in table files
  hash,      \* hash[f]: files.content_hash, as the contents it was computed from
  manifest,  \* manifest[f]: the blocks table file_blocks maps f to
  flag,      \* flag[b]: the row of table blocks: none, or its is_present
  disk,      \* the blocks whose file exists in the storage directory
  held,      \* the items with a file_holders row for this device
  tombs,     \* table tombstones
  lock,      \* which section of several steps has the database mutex
  idx,       \* the local variables of Indexer::index
  rem,       \* those of delete_local_copy or purge
  xfer,      \* xfer[t]: a push as this device and its sender see it, or a pull
  stored,    \* history: items put here whole, not described anew or removed since
  ops        \* how much of MaxOps is used

tables == <<rows, hash, manifest, flag, held, tombs>>
vars == <<tables, disk, lock, idx, rem, xfer, stored, ops>>

Content == SUBSET Block
Hash == Content \cup {None}

Indexing == [stage : {"idle", "look", "insert", "chunk", "claim"},
             item : Item \cup {None}, known : Hash, kept : BOOLEAN, content : Content,
             todo : SUBSET Block, old : SUBSET Block]

Removal == [kind : {"idle", "drop", "purge"}, item : Item \cup {None},
            left : SUBSET Block, bare : SUBSET Block]

Moving == [kind : {"push", "pull"}, item : Item \cup {None}, content : Content,
           todo : SUBSET Block, put : SUBSET Block,
           stage : {"idle", "moving", "claim", "stopped"}]

NoIndexing == [stage |-> "idle", item |-> None, known |-> None, kept |-> FALSE,
               content |-> {}, todo |-> {}, old |-> {}]
NoRemoval == [kind |-> "idle", item |-> None, left |-> {}, bare |-> {}]
NoTransfer == [kind |-> "push", item |-> None, content |-> {}, todo |-> {},
               put |-> {}, stage |-> "idle"]

TypeOK ==
  /\ rows \subseteq Item
  /\ hash \in [Item -> Hash]
  /\ manifest \in [Item -> Content]
  /\ flag \in [Block -> {"none", "missing", "present"}]
  /\ disk \subseteq Block
  /\ held \subseteq Item
  /\ tombs \subseteq Item
  /\ lock \in {"free", "index", "remove"}
  /\ idx \in Indexing
  /\ rem \in Removal
  /\ xfer \in [Transfer -> Moving]
  /\ stored \subseteq Item
  /\ ops \in Nat

Init ==
  /\ rows = {} /\ held = {} /\ tombs = {} /\ stored = {} /\ disk = {}
  /\ hash = [f \in Item |-> None]
  /\ manifest = [f \in Item |-> {}]
  /\ flag = [b \in Block |-> "none"]
  /\ lock = "free"
  /\ idx = NoIndexing
  /\ rem = NoRemoval
  /\ xfer = [t \in Transfer |-> NoTransfer]
  /\ ops = 0

Act(kind) == kind \in Acts /\ ops < MaxOps /\ ops' = ops + 1

\* An id that new_file_id may return: no device ever used it.
Unused(f) == f \notin rows \cup held \cup tombs

\* A new item has no holder until it is claimed, so nobody has its bytes to send and
\* nobody can pull, delete or destroy it.
BeingCreated(f) == idx.stage # "look" /\ idx.item = f /\ idx.known = None

Referenced(b) == \E f \in Item : b \in manifest[f]

\* Mutant: the blocks an item uses, shared or not.
BlocksOf(f) == manifest[f]

\* blocks_exclusive_to_file.
Exclusive(f) == {b \in manifest[f] : \A g \in Item \ {f} : b \notin manifest[g]}

-----------------------------------------------------------------------------
(* Indexer::index: two lookups, a long section under the mutex, a short one: *)
(* four sections, with anything in between.                                 *)

Job(g, known, kept) == [NoIndexing EXCEPT
  !.stage = "insert", !.item = g, !.known = known, !.kept = kept]

\* The first lookup.  A path whose item is not held here is another item's, and
\* the file is renamed and recorded as a new item beside it.
StartIndex(f) ==
  /\ Act("index")
  /\ idx.stage = "idle"
  /\ lock = "free"
  /\ IF f \in rows \ held
       THEN \E g \in Item : Unused(g) /\ idx' = Job(g, None, TRUE)
       ELSE idx' = [NoIndexing EXCEPT !.stage = "look", !.item = f]
  /\ UNCHANGED <<tables, disk, lock, rem, xfer, stored>>

\* The second, in a section of its own, looks for the path and not for a holder:
\* an item that came or was dropped in between counts as this file's, one that was
\* destroyed in between is replaced by a new one.
LookAgain ==
  /\ idx.stage = "look"
  /\ lock = "free"
  /\ IF idx.item \in rows
       THEN idx' = Job(idx.item, hash[idx.item], FALSE)
       ELSE \E g \in Item : Unused(g) /\ idx' = Job(g, None, FALSE)
  /\ UNCHANGED <<tables, disk, lock, rem, xfer, stored, ops>>

\* The long section begins: the row is put down, what the last revision alone
\* used is noted, the manifest is emptied.  The file is read as it is by now.
Insert ==
  /\ idx.stage = "insert"
  /\ lock = "free" /\ lock' = "index"
  /\ rows' = rows \cup {idx.item}
  /\ hash' = [hash EXCEPT ![idx.item] = idx.known]
  /\ manifest' = [manifest EXCEPT ![idx.item] = {}]
  /\ stored' = stored \ {idx.item}
  /\ \E c \in Content : idx' = [idx EXCEPT
       !.stage = "chunk", !.content = c, !.todo = c, !.old = Exclusive(idx.item)]
  /\ UNCHANGED <<flag, held, tombs, disk, rem, xfer, ops>>

\* One turn of chunk_and_store_file.  INSERT OR IGNORE leaves a row as it is.
Chunk(b) ==
  /\ idx.stage = "chunk"
  /\ b \in idx.todo
  /\ idx' = [idx EXCEPT !.todo = @ \ {b}]
  /\ disk' = disk \cup {b}
  /\ flag' = [flag EXCEPT ![b] = IF @ = "none" THEN "present" ELSE @]
  /\ manifest' = [manifest EXCEPT ![idx.item] = @ \cup {b}]
  /\ UNCHANGED <<rows, hash, held, tombs, lock, rem, xfer, stored, ops>>

\* The file went or could not be read to its end: index gives up where it is.
ChunkFails ==
  /\ idx.stage = "chunk"
  /\ idx.todo # {}
  /\ idx' = NoIndexing
  /\ lock' = "free"
  /\ UNCHANGED <<tables, disk, rem, xfer, stored, ops>>

\* A block of the last revision: forget_block_if_unreferenced, remove_block.
Sweep(b) ==
  /\ idx.stage = "chunk"
  /\ idx.todo = {}
  /\ b \in idx.old
  /\ idx' = [idx EXCEPT !.old = @ \ {b}]
  /\ IF Referenced(b)
       THEN UNCHANGED <<flag, disk>>
       ELSE flag' = [flag EXCEPT ![b] = "none"] /\ disk' = disk \ {b}
  /\ UNCHANGED <<rows, hash, manifest, held, tombs, lock, rem, xfer, stored, ops>>

\* The section ends.  Contents that are what the catalog knew change nothing more.
EndChunking ==
  /\ idx.stage = "chunk"
  /\ idx.todo = {} /\ idx.old = {}
  /\ lock' = "free"
  /\ idx' = IF idx.content = idx.known /\ ~idx.kept
              THEN NoIndexing ELSE [idx EXCEPT !.stage = "claim"]
  /\ stored' = stored \cup {idx.item}
  /\ UNCHANGED <<tables, disk, rem, xfer, ops>>

\* Mutant: set_holder given the contents where the item goes.
ClaimedByContent == held \cup {idx.content}

\* The own holder row of the item just indexed.
Claimed == held \cup {idx.item}

\* The short section: the row again, with its hash, and the holder row.
ClaimIndexed ==
  /\ idx.stage = "claim"
  /\ lock = "free"
  /\ rows' = rows \cup {idx.item}
  /\ hash' = [hash EXCEPT ![idx.item] = idx.content]
  /\ held' = Claimed
  /\ idx' = NoIndexing
  /\ UNCHANGED <<manifest, flag, tombs, disk, lock, rem, xfer, stored, ops>>

-----------------------------------------------------------------------------
(* delete_local_copy of one copy among several, and purge.               *)

StartRemoval(f, kind) ==
  /\ Act(kind)
  /\ rem.kind = "idle"
  /\ lock = "free" /\ lock' = "remove"
  /\ f \in rows
  /\ ~BeingCreated(f)
  /\ kind = "drop" => f \in held
  /\ rem' = [kind |-> kind, item |-> f, left |-> Exclusive(f), bare |-> {}]
  /\ stored' = stored \ {f}
  /\ UNCHANGED <<tables, disk, idx, xfer>>

\* purge_exclusive_blocks, for one block: remove_block, then set_block_present.
RemoveBytes(b) ==
  /\ b \in rem.left
  /\ rem.bare = {}
  /\ rem' = [rem EXCEPT !.left = @ \ {b}, !.bare = {b}]
  /\ disk' = disk \ {b}
  /\ UNCHANGED <<tables, lock, idx, xfer, stored, ops>>

Unflag(b) ==
  /\ b \in rem.bare
  /\ rem' = [rem EXCEPT !.bare = {}]
  /\ flag' = [flag EXCEPT ![b] = IF @ = "none" THEN @ ELSE "missing"]
  /\ UNCHANGED <<rows, hash, manifest, held, tombs, disk, lock, idx, xfer, stored, ops>>

\* remove_holder, or all of purge_file in one transaction.
EndRemoval ==
  /\ rem.kind # "idle"
  /\ rem.left = {} /\ rem.bare = {}
  /\ held' = held \ {rem.item}
  /\ IF rem.kind = "drop"
       THEN UNCHANGED <<rows, hash, manifest, tombs>>
       ELSE /\ rows' = rows \ {rem.item}
            /\ hash' = [hash EXCEPT ![rem.item] = None]
            /\ manifest' = [manifest EXCEPT ![rem.item] = {}]
            /\ tombs' = tombs \cup {rem.item}
  /\ rem' = NoRemoval
  /\ lock' = "free"
  /\ UNCHANGED <<flag, disk, idx, xfer, stored, ops>>

-----------------------------------------------------------------------------
(* Transfers towards this device.                                        *)

\* The item, or a newer hash of it, arrives with a peer's catalog.
Learn(f, c) ==
  /\ Act("learn")
  /\ lock = "free"
  /\ f \notin tombs /\ ~BeingCreated(f)
  /\ rows' = rows \cup {f}
  /\ hash' = [hash EXCEPT ![f] = c]
  /\ UNCHANGED <<manifest, flag, held, tombs, disk, lock, idx, rem, xfer, stored>>

Free(t) == xfer[t].stage \in {"idle", "stopped"} /\ xfer[t].put = {}

Begin(t, kind, f, c, wanted) == xfer' = [xfer EXCEPT ![t] =
  [kind |-> kind, item |-> f, content |-> c, todo |-> wanted, put |-> {},
   stage |-> "moving"]]

\* Mutant: what the device has never heard of is wanted, and nothing else.
UnheardOf(c) == {b \in c : flag[b] = "none"}

\* What push_metadata asks the sender for: all that is not flagged present.
Wanted(c) == {b \in c : flag[b] # "present"}

\* push_metadata.  A tombstone makes the merge refuse the item; the foreign key
\* then refuses its mappings, unless the row is there, but not its blocks.
Announce(t, f, c) ==
  /\ Act("push")
  /\ Free(t)
  /\ lock = "free"
  /\ c # {} /\ ~BeingCreated(f)
  /\ rows' = IF f \in tombs THEN rows ELSE rows \cup {f}
  /\ hash' = IF f \in tombs THEN hash ELSE [hash EXCEPT ![f] = c]
  /\ manifest' = [manifest EXCEPT ![f] = IF f \in rows' THEN c ELSE {}]
  /\ flag' = [b \in Block |->
       IF b \in c /\ flag[b] = "none" THEN "missing" ELSE flag[b]]
  /\ Begin(t, "push", f, c, Wanted(c))
  /\ stored' = stored \ {f}
  /\ UNCHANGED <<held, tombs, disk, lock, idx, rem>>

\* pull_copy reads the manifest it has and asks holders for what is missing.
StartPull(t, f) ==
  /\ Act("pull")
  /\ Free(t)
  /\ lock = "free"
  /\ f \in rows /\ ~BeingCreated(f)
  /\ manifest[f] # {}
  /\ Begin(t, "pull", f, manifest[f], Wanted(manifest[f]))
  /\ UNCHANGED <<tables, disk, lock, idx, rem, stored>>

\* write_block, in push_block or in a fetch: takes no lock, and is a no-op on a
\* block whose file exists.
PutBytes(t, b) ==
  /\ xfer[t].stage = "moving"
  /\ b \in xfer[t].todo
  /\ xfer' = [xfer EXCEPT ![t].todo = @ \ {b}, ![t].put = @ \cup {b}]
  /\ disk' = disk \cup {b}
  /\ UNCHANGED <<tables, lock, idx, rem, stored, ops>>

\* set_block_present(true), which updates a row there is and inserts none.
FlagBytes(t, b) ==
  /\ b \in xfer[t].put
  /\ lock = "free"
  /\ xfer' = [xfer EXCEPT ![t].put = @ \ {b}]
  /\ flag' = [flag EXCEPT ![b] = IF @ = "none" THEN @ ELSE "present"]
  /\ UNCHANGED <<rows, hash, manifest, held, tombs, disk, lock, idx, rem, stored, ops>>

\* The other side goes away.  Blocks already received are still flagged.
Abandon(t) ==
  /\ Act("abandon")
  /\ xfer[t].stage = "moving"
  /\ xfer' = [xfer EXCEPT ![t].todo = {}, ![t].stage = "stopped"]
  /\ UNCHANGED <<tables, disk, lock, idx, rem, stored>>

Complete(t) == xfer[t].stage = "moving" /\ xfer[t].todo = {} /\ xfer[t].put = {}

\* finalize_file, all under the mutex: what is assembled is what the catalog maps
\* now, when every block is flagged and every block file can be read.
Finalize(t) ==
  LET f == xfer[t].item
      whole == /\ f \in rows
               /\ \A b \in manifest[f] : flag[b] = "present" /\ b \in disk
  IN /\ Complete(t)
     /\ xfer[t].kind = "push"
     /\ lock = "free"
     /\ held' = IF whole THEN held \cup {f} ELSE held
     /\ stored' = IF whole THEN stored \cup {f} ELSE stored
     /\ xfer' = [xfer EXCEPT ![t] = NoTransfer]
     /\ UNCHANGED <<rows, hash, manifest, flag, tombs, disk, lock, idx, rem, ops>>

\* A pull assembles the manifest it read at first, without the mutex.
Assemble(t) ==
  /\ Complete(t)
  /\ xfer[t].kind = "pull"
  /\ xfer' = [xfer EXCEPT ![t] =
       IF xfer[t].content \subseteq disk THEN [@ EXCEPT !.stage = "claim"]
                                         ELSE NoTransfer]
  /\ UNCHANGED <<tables, disk, lock, idx, rem, stored, ops>>

\* ... and then claims the copy, whatever became of the item.
ClaimPulled(t) ==
  LET f == xfer[t].item IN
  /\ xfer[t].stage = "claim"
  /\ lock = "free"
  /\ held' = held \cup {f}
  /\ stored' = IF manifest[f] = xfer[t].content /\ manifest[f] \subseteq disk
                 THEN stored \cup {f} ELSE stored
  /\ xfer' = [xfer EXCEPT ![t] = NoTransfer]
  /\ UNCHANGED <<rows, hash, manifest, flag, tombs, disk, lock, idx, rem, ops>>

-----------------------------------------------------------------------------
\* The process ends: tables and block files stay, with what was half done.
Crash ==
  /\ Act("crash")
  /\ lock' = "free"
  /\ idx' = NoIndexing
  /\ rem' = NoRemoval
  /\ xfer' = [t \in Transfer |-> NoTransfer]
  /\ UNCHANGED <<tables, disk, stored>>

IndexStep ==
  \/ LookAgain
  \/ Insert
  \/ \E b \in Block : Chunk(b) \/ Sweep(b)
  \/ ChunkFails
  \/ EndChunking
  \/ ClaimIndexed

RemovalStep ==
  \/ \E b \in Block : RemoveBytes(b) \/ Unflag(b)
  \/ EndRemoval

TransferStep(t) ==
  \/ \E b \in Block : PutBytes(t, b) \/ FlagBytes(t, b)
  \/ Finalize(t)
  \/ Assemble(t)
  \/ ClaimPulled(t)

Asked ==
  \/ \E f \in Item :
       \/ StartIndex(f)
       \/ \E kind \in {"drop", "purge"} : StartRemoval(f, kind)
       \/ \E c \in Content : Learn(f, c) \/ \E t \in Transfer : Announce(t, f, c)
       \/ \E t \in Transfer : StartPull(t, f)
  \/ \E t \in Transfer : Abandon(t)
  \/ Crash

Next ==
  \/ Asked
  \/ IndexStep
  \/ RemovalStep
  \/ \E t \in Transfer : TransferStep(t)

Spec == Init /\ [][Next]_vars

\* What is begun on this device goes on, and a sender that has not gone away sends.
Fairness ==
  /\ WF_vars(IndexStep)
  /\ WF_vars(RemovalStep)
  /\ \A t \in Transfer : WF_vars(TransferStep(t))

FairSpec == Spec /\ Fairness

-----------------------------------------------------------------------------
(* Properties.                                                           *)

\* An item put here whole keeps all its blocks until it is itself described anew
\* or removed, whatever is done to items that share blocks with it, whatever
\* transfers write meanwhile and wherever the process ends.
StoredIsKept == \A f \in stored : manifest[f] \subseteq disk

\* A push its sender carries through is delivered, though earlier pushes of the
\* same blocks were given up half-way, unless another sender announces the item.
PushIsDelivered ==
  \A t \in Transfer, f \in Item :
    (/\ xfer[t].kind = "push" /\ xfer[t].stage = "moving"
     /\ xfer[t].item = f /\ xfer[t].content = manifest[f]) ~>
      \/ f \in stored
      \/ xfer[t].stage = "stopped"
      \/ \E u \in Transfer \ {t} : xfer[u].item = f

=============================================================================
