----------------------------- MODULE MeshProofs -----------------------------
(* Theorems about Mesh, for any devices and items and any bounds.           *)
EXTENDS Mesh, TLAPS

Tables ==
  /\ files \in [Device -> [Item -> Status]]
  /\ holders \in [Device -> [Item -> SUBSET Device]]
  /\ requests \in [Device -> [Item -> SUBSET Device]]
  /\ tombs \in [Device -> SUBSET Item]

\* What freeing or trashing a copy does: one of two writes.
LEMMA DropCopyCases ==
  ASSUME NEW d \in Device, NEW f \in Item, DropCopy(d, f)
  PROVE  \/ /\ files' = [files EXCEPT ![d][f] = "trashed"]
            /\ holders' = holders
            /\ pushes' = pushes
         \/ /\ files' = files
            /\ holders' = [holders EXCEPT ![d][f] = @ \ {d}]
            /\ pushes' \subseteq pushes
<1>1. CASE LastCopy(d, f)
  BY <1>1 DEF DropCopy, SetFile, LastCopy
<1>2. CASE ~LastCopy(d, f)
  BY <1>2 DEF DropCopy, LastCopy
<1> QED
  BY <1>1, <1>2

\* What it writes has the right type.
LEMMA DropCopyTyped ==
  ASSUME TypeOK, NEW d \in Device, NEW f \in Item, DropCopy(d, f)
  PROVE  /\ files' \in [Device -> [Item -> Status]]
         /\ holders' \in [Device -> [Item -> SUBSET Device]]
         /\ pushes' \subseteq Push
<1>1. CASE /\ files' = [files EXCEPT ![d][f] = "trashed"]
           /\ holders' = holders
           /\ pushes' = pushes
  BY <1>1 DEF TypeOK, Status
<1>2. CASE /\ files' = files
           /\ holders' = [holders EXCEPT ![d][f] = @ \ {d}]
           /\ pushes' \subseteq pushes
  BY <1>2 DEF TypeOK
<1> QED
  BY <1>1, <1>2, DropCopyCases

\* What purging an item writes has the right type.
LEMMA PurgeFileTyped ==
  ASSUME TypeOK, NEW d \in Device, NEW f \in Item,
         PurgeFile(d, f) \/ UNCHANGED db
  PROVE  Tables'
<1>1. CASE PurgeFile(d, f)
  BY <1>1 DEF TypeOK, PurgeFile, SetFile, Status, Tables
<1>2. CASE UNCHANGED db
  BY <1>2 DEF TypeOK, Tables, db
<1> QED
  BY <1>1, <1>2

\* A catalog read from a device's tables is a catalog, and so is an empty one.
LEMMA CatalogsTyped ==
  ASSUME TypeOK, NEW d \in Device
  PROVE  /\ CatalogOf(d) \in Catalog
         /\ NoCatalog \in Catalog
         /\ Idle(d) \in SyncTask
  BY DEF TypeOK, CatalogOf, Catalog, NoCatalog, Idle, SyncTask, Status, Stage, TombStep

\* Marking a tombstone changes the mark and nothing else of the task.
LEMMA MarkTyped ==
  ASSUME TypeOK, NEW d \in Device, NEW f \in Item, NEW step \in TombStep,
         Mark(d, f, step)
  PROVE  sync' \in [Device -> SyncTask]
<1>1. [sync[d].marks EXCEPT ![f] = step] \in [Item -> TombStep]
  BY DEF TypeOK, SyncTask
<1>2. [sync[d] EXCEPT !.marks = [sync[d].marks EXCEPT ![f] = step]] \in SyncTask
  <2>1. sync[d] \in SyncTask
    BY DEF TypeOK
  <2> QED
    BY <1>1, <2>1 DEF SyncTask
<1>3. sync' = [sync EXCEPT ![d] =
                [sync[d] EXCEPT !.marks = [sync[d].marks EXCEPT ![f] = step]]]
  BY DEF Mark
<1> QED
  BY <1>2, <1>3 DEF TypeOK

\* Steps that a person or the system takes keep the types.
LEMMA UserStepTyped ==
  ASSUME TypeOK, UserStep
  PROVE  TypeOK'
<1> USE DEF TypeOK
<1>1. ASSUME NEW d \in Device, NEW f \in Item, Import(d, f) PROVE TypeOK'
  BY <1>1 DEF Import, Budget, SetFile, ClaimCopy, local, calls, Status
<1>2. ASSUME NEW d \in Device, NEW f \in Item, DeleteLocal(d, f) PROVE TypeOK'
  BY <1>2, DropCopyTyped DEF DeleteLocal, Budget, local, history
<1>3. ASSUME NEW d \in Device, NEW f \in Item, Restore(d, f) PROVE TypeOK'
  BY <1>3 DEF Restore, Budget, SetFile, local, calls, history, Status
<1>4. ASSUME NEW d \in Device, NEW f \in Item, DeletePermanently(d, f) PROVE TypeOK'
  BY <1>4 DEF DeletePermanently, Budget, db, calls, history
<1>5. ASSUME NEW d \in Device, NEW t \in Device, NEW f \in Item, Share(d, t, f)
      PROVE TypeOK'
  <2>1. [to |-> t, item |-> f, status |-> files[d][f], stage |-> "metadata"] \in Push
    BY DEF Push
  <2> QED
    BY <1>5, <2>1 DEF Share, Budget, db, local, history
<1>6. ASSUME NEW d \in Device, NEW t \in Device, NEW f \in Item, DeleteCopy(d, t, f)
      PROVE TypeOK'
  <2>1. [to |-> t, item |-> f] \in Rpc
    BY DEF Rpc
  <2> QED
    BY <1>6, <2>1 DEF DeleteCopy, Budget, local
<1>7. ASSUME NEW d \in Device, SweepTrash(d) PROVE TypeOK'
  BY <1>7 DEF SweepTrash, Budget, db, calls, history
<1>8. ASSUME NEW d \in Device, Restart(d) PROVE TypeOK'
  BY <1>8, CatalogsTyped DEF Restart, Budget, db, calls, history, NoWork, RequestStep
<1> QED
  BY <1>1, <1>2, <1>3, <1>4, <1>5, <1>6, <1>7, <1>8 DEF UserStep

\* The state a pushed description leaves its item in is a state.
LEMMA MergedTyped ==
  ASSUME TypeOK, NEW m \in pushes
  PROVE  Merged(m.to, m.item, m.status) \in Status
<1>1. m \in Push
  BY DEF TypeOK
<1>2. m.to \in Device /\ m.item \in Item /\ m.status \in Status
  BY <1>1 DEF Push
<1> QED
  BY <1>2 DEF TypeOK, Merged

\* Handlers of incoming calls keep the types.
LEMMA CallStepTyped ==
  ASSUME TypeOK, CallStep
  PROVE  TypeOK'
<1> USE DEF TypeOK
<1>1. ASSUME NEW m \in pushes, PushMetadata(m) PROVE TypeOK'
  <2>1. m \in Push /\ [m EXCEPT !.stage = "finalize"] \in Push
    BY DEF Push
  <2>2. Merged(m.to, m.item, m.status) \in Status
    BY <2>1 DEF Push, Merged
  <2> QED
    BY <1>1, <2>1, <2>2 DEF PushMetadata, SetFile, local, history, Push
<1>2. ASSUME NEW m \in pushes, FinalizeFile(m) PROVE TypeOK'
  <2>1. m.to \in Device /\ m.item \in Item
    BY DEF Push
  <2>2. CASE files[m.to][m.item] = "absent"
    BY <1>2, <2>2 DEF FinalizeFile, local
  <2>3. CASE files[m.to][m.item] # "absent"
    <3>1. ClaimCopy(m.to, m.item)
      BY <1>2, <2>3 DEF FinalizeFile
    <3>2. /\ holders' \in [Device -> [Item -> SUBSET Device]]
          /\ everHeld' \in [Item -> SUBSET Device]
      BY <2>1, <3>1 DEF ClaimCopy
    <3> QED
      BY <1>2, <3>2 DEF FinalizeFile, local
  <2> QED
    BY <2>2, <2>3
<1>3. ASSUME NEW m \in rpcs, NEW h \in Handler, RequestDelete(m, h) PROVE TypeOK'
  <2>1. requests' \in [Device -> [Item -> SUBSET Device]]
    BY <1>3 DEF RequestDelete, Rpc
  <2>2. [NoWork EXCEPT ![m.item] = "begin"] \in [Item -> RequestStep]
    BY DEF NoWork, RequestStep
  <2> QED
    BY <1>3, <2>1, <2>2 DEF RequestDelete, Rpc, Worker, history
<1> QED
  BY <1>1, <1>2, <1>3 DEF CallStep

\* The tasks of a device keep the types.
LEMMA TaskStepTyped ==
  ASSUME TypeOK, NEW d \in Device, WorkStep(d) \/ TombstoneStep(d)
  PROVE  TypeOK'
<1> USE DEF TypeOK
<1>1. ASSUME NEW w \in Worker, NEW f \in Item, CheckRequest(d, w, f) PROVE TypeOK'
  BY <1>1 DEF CheckRequest, SetWork, db, calls, history, RequestStep
<1>2. ASSUME NEW w \in Worker, NEW f \in Item, ApplyRequest(d, w, f) PROVE TypeOK'
  <2>1. CASE files[d][f] # "absent" /\ Holds(d, f)
    <3>1. /\ DropCopy(d, f)
          /\ SetWork(d, w, f, "clear")
          /\ spent' = [spent EXCEPT ![f] = @ \cup {d}]
      BY <1>2, <2>1 DEF ApplyRequest, Holds
    <3>2. /\ work' \in [Device -> [Worker -> [Item -> RequestStep]]]
          /\ spent' \in [Item -> SUBSET Device]
      BY <3>1 DEF SetWork, RequestStep
    <3>3. UNCHANGED <<requests, tombs, sync, purging, rpcs, ops, everHeld, asked>>
      BY <1>2 DEF ApplyRequest
    <3> QED
      BY <3>1, <3>2, <3>3, DropCopyTyped
  <2>2. CASE ~(files[d][f] # "absent" /\ Holds(d, f))
    <3>1. SetWork(d, w, f, "none")
      BY <1>2, <2>2 DEF ApplyRequest, Holds
    <3>2. /\ UNCHANGED <<files, holders, pushes, spent>>
          /\ UNCHANGED <<requests, tombs, sync, purging, rpcs, ops, everHeld, asked>>
      BY <1>2, <2>2 DEF ApplyRequest, Holds
    <3>3. work' \in [Device -> [Worker -> [Item -> RequestStep]]]
      BY <3>1 DEF SetWork, RequestStep
    <3> QED
      BY <3>2, <3>3
  <2> QED
    BY <2>1, <2>2
<1>3. ASSUME NEW w \in Worker, NEW f \in Item, ClearRequest(d, w, f) PROVE TypeOK'
  BY <1>3 DEF ClearRequest, SetWork, calls, history, RequestStep
<1>7. ASSUME NEW h \in Handler, BeginRequests(d, h) PROVE TypeOK'
  <2>1. PendingFor(d, requests) \in [Item -> RequestStep]
    BY DEF PendingFor, RequestStep
  <2> QED
    BY <1>7, <2>1 DEF BeginRequests, Worker, db, calls, history
<1>4. ASSUME NEW f \in Item, CheckTombstone(d, f) PROVE TypeOK'
  <2>1. PICK step \in TombStep : Mark(d, f, step)
    BY <1>4 DEF CheckTombstone, TombStep
  <2> QED
    BY <1>4, <2>1, MarkTyped DEF CheckTombstone, db, calls, history
<1>5. ASSUME NEW f \in Item, PurgeTombstoned(d, f) PROVE TypeOK'
  <2>1. Tables'
    BY <1>5, PurgeFileTyped DEF PurgeTombstoned
  <2>2. Mark(d, f, "none") /\ UNCHANGED <<work, purging, calls, ops, history>>
    BY <1>5 DEF PurgeTombstoned
  <2>3. sync' \in [Device -> SyncTask]
    BY <2>2, MarkTyped DEF TombStep
  <2> QED
    BY <2>1, <2>2, <2>3 DEF Tables, calls, history
<1>6. ASSUME NEW f \in Item, InsertTombstone(d, f) PROVE TypeOK'
  <2>1. sync' \in [Device -> SyncTask]
    BY <1>6, MarkTyped DEF InsertTombstone, TombStep
  <2> QED
    BY <1>6, <2>1 DEF InsertTombstone, calls, history
<1> QED
  BY <1>1, <1>2, <1>3, <1>4, <1>5, <1>6, <1>7 DEF WorkStep, TombstoneStep

\* Every step keeps the types.
LEMMA TypeStep ==
  ASSUME TypeOK, [Next]_vars
  PROVE  TypeOK'
<1>1. ASSUME NEW d \in Device, NEW f \in Item, Purge(d, f) PROVE TypeOK'
  <2>1. Tables'
    BY <1>1, PurgeFileTyped DEF Purge
  <2> QED
    BY <1>1, <2>1 DEF TypeOK, Purge, Tables, calls, history
<1>2. ASSUME NEW d \in Device, NEW p \in Device, FetchCatalog(d, p) PROVE TypeOK'
  <2>1. [stage |-> "tombstones", peer |-> p, cat |-> CatalogOf(p),
         marks |-> [f \in Item |-> IF f \in tombs[p] THEN "check" ELSE "none"]]
          \in SyncTask
    BY CatalogsTyped DEF SyncTask, Stage, TombStep
  <2> QED
    BY <1>2, <2>1 DEF TypeOK, FetchCatalog, db, calls, history
<1>3. ASSUME NEW d \in Device, MergeCatalog(d) PROVE TypeOK'
  <2>1. sync[d].cat \in Catalog /\ sync[d].peer \in Device
    BY DEF TypeOK, SyncTask
  <2>2. [f \in Item |-> Merged(d, f, sync[d].cat.files[f])] \in [Item -> Status]
    BY <2>1 DEF TypeOK, Merged, Catalog
  <2>3. [f \in Item |-> MergedRows(d, f)] \in [Item -> SUBSET Device]
    BY <2>1 DEF TypeOK, MergedRows, PeerRow, ThirdRows, Catalog
  <2>4. [f \in Item |-> requests[d][f] \cup sync[d].cat.requests[f]]
          \in [Item -> SUBSET Device]
    BY <2>1 DEF TypeOK, Catalog
  <2>5. [Idle(d) EXCEPT !.stage = "pending"] \in SyncTask
    BY CatalogsTyped DEF SyncTask, Stage
  <2> QED
    BY <1>3, <2>2, <2>3, <2>4, <2>5 DEF TypeOK, MergeCatalog, calls, history
<1>4. ASSUME NEW d \in Device, StartPending(d) PROVE TypeOK'
  <2>1. PendingFor(d, requests) \in [Item -> RequestStep]
    BY DEF PendingFor, RequestStep
  <2>2. sync[d] \in SyncTask
    BY DEF TypeOK
  <2>3. [sync[d] EXCEPT !.stage = "applying"] \in SyncTask
    BY <2>2 DEF SyncTask, Stage
  <2>4. sync' \in [Device -> SyncTask]
    BY <1>4, <2>3 DEF TypeOK, StartPending
  <2>5. work' \in [Device -> [Worker -> [Item -> RequestStep]]]
    BY <1>4, <2>1 DEF TypeOK, StartPending, Worker
  <2> QED
    BY <1>4, <2>4, <2>5 DEF TypeOK, StartPending, db, calls, history
<1>5. ASSUME NEW d \in Device, PruneRequests(d) PROVE TypeOK'
  BY <1>5, CatalogsTyped DEF TypeOK, PruneRequests, calls, history
<1>6. CASE UNCHANGED vars
  BY <1>6 DEF TypeOK, vars, db, local, calls, history
<1> QED
  BY <1>1, <1>2, <1>3, <1>4, <1>5, <1>6, UserStepTyped, CallStepTyped,
     TaskStepTyped DEF Next, SyncStep

\* Every table and every task variable keeps its type: the handlers agree on what
\* the columns hold.
THEOREM TypeCorrect == Spec => []TypeOK
<1>1. Init => TypeOK
  BY DEF Init, TypeOK, NoCatalog, NoWork, Idle, Status, Catalog, Stage, TombStep,
         RequestStep, SyncTask
<1>2. TypeOK /\ [Next]_vars => TypeOK'
  BY TypeStep
<1> QED
  BY <1>1, <1>2, PTL DEF Spec

-----------------------------------------------------------------------------
(* What a step of the mesh can do to one device's tables.                   *)

\* A catalog under merge was some device's tables when it was read.
LEMMA CatalogStep ==
  ASSUME TypeOK, [Next]_vars, NEW d \in Device
  PROVE  \/ sync'[d].cat = sync[d].cat
         \/ sync'[d].cat = NoCatalog
         \/ \E p \in Device : sync'[d].cat = CatalogOf(p)
<1> sync \in [Device -> SyncTask]
  BY DEF TypeOK
<1>1. CASE UserStep
  BY <1>1 DEF UserStep, Import, DeleteLocal, Restore, DeletePermanently, Share,
     DeleteCopy, SweepTrash, Restart, Idle, local
<1>2. CASE CallStep
  BY <1>2 DEF CallStep, PushMetadata, FinalizeFile, RequestDelete, local
<1>3. ASSUME NEW e \in Device, NEW f \in Item, Purge(e, f)
      PROVE  sync'[d].cat = sync[d].cat
  BY <1>3 DEF Purge
<1>4. ASSUME NEW e \in Device, NEW p \in Device, FetchCatalog(e, p)
      PROVE  sync'[d].cat = sync[d].cat \/ sync'[d].cat = CatalogOf(p)
  BY <1>4 DEF FetchCatalog
<1>5. ASSUME NEW e \in Device, WorkStep(e)
      PROVE  sync'[d].cat = sync[d].cat
  BY <1>5 DEF WorkStep, BeginRequests, CheckRequest, ApplyRequest, ClearRequest
<1>6. ASSUME NEW e \in Device, TombstoneStep(e)
      PROVE  sync'[d].cat = sync[d].cat
  <2>1. PICK f \in Item, step \in TombStep : Mark(e, f, step)
    BY <1>6 DEF TombstoneStep, CheckTombstone, PurgeTombstoned, InsertTombstone, TombStep
  <2> QED
    BY <2>1 DEF Mark, SyncTask
<1>7. ASSUME NEW e \in Device, MergeCatalog(e) \/ PruneRequests(e)
      PROVE  sync'[d].cat = sync[d].cat \/ sync'[d].cat = NoCatalog
  BY <1>7 DEF MergeCatalog, PruneRequests, Idle
<1>8. ASSUME NEW e \in Device, StartPending(e)
      PROVE  sync'[d].cat = sync[d].cat
  BY <1>8 DEF StartPending, SyncTask
<1>9. CASE UNCHANGED vars
  BY <1>9 DEF vars, local
<1> QED
  BY <1>1, <1>2, <1>3, <1>4, <1>5, <1>6, <1>7, <1>8, <1>9 DEF Next, SyncStep

\* A holder row is new at d only if a catalog under merge has it, or it is d's own
\* and d now has held the item.
LEMMA RowsStep ==
  ASSUME TypeOK, [Next]_vars, NEW d \in Device, NEW f \in Item
  PROVE  /\ everHeld[f] \subseteq everHeld'[f]
         /\ \/ holders'[d][f] \subseteq holders[d][f] \cup sync[d].cat.holders[f]
            \/ /\ holders'[d][f] \subseteq holders[d][f] \cup {d}
               /\ d \in everHeld'[f]
<1> DEFINE Goal == /\ everHeld[f] \subseteq everHeld'[f]
                   /\ \/ holders'[d][f] \subseteq
                           holders[d][f] \cup sync[d].cat.holders[f]
                      \/ /\ holders'[d][f] \subseteq holders[d][f] \cup {d}
                         /\ d \in everHeld'[f]
<1> /\ holders \in [Device -> [Item -> SUBSET Device]]
    /\ everHeld \in [Item -> SUBSET Device]
  BY DEF TypeOK
<1>1. ASSUME NEW e \in Device, NEW g \in Item, ClaimCopy(e, g) PROVE Goal
  BY <1>1 DEF ClaimCopy
<1>2. ASSUME NEW e \in Device, NEW g \in Item, DropCopy(e, g),
             UNCHANGED everHeld
      PROVE  Goal
  <2>1. CASE holders' = holders
    BY <1>2, <2>1
  <2>2. CASE holders' = [holders EXCEPT ![e][g] = @ \ {e}]
    BY <1>2, <2>2
  <2> QED
    BY <1>2, <2>1, <2>2, DropCopyCases
<1>3. ASSUME NEW e \in Device, NEW g \in Item, PurgeFile(e, g),
             UNCHANGED everHeld
      PROVE  Goal
  BY <1>3 DEF PurgeFile
<1>4. CASE UNCHANGED <<holders, everHeld>>
  BY <1>4
<1>5. CASE UserStep
  <2>1. ASSUME NEW e \in Device, NEW g \in Item, Import(e, g) PROVE Goal
    BY <1>1, <2>1 DEF Import
  <2>2. ASSUME NEW e \in Device, NEW g \in Item, DeleteLocal(e, g) PROVE Goal
    BY <1>2, <2>2 DEF DeleteLocal, history
  <2>3. ASSUME NEW e \in Device, NEW g \in Item,
               Restore(e, g) \/ DeletePermanently(e, g)
        PROVE  Goal
    BY <1>4, <2>3 DEF Restore, DeletePermanently, db, history
  <2>4. ASSUME NEW e \in Device, NEW t \in Device, NEW g \in Item,
               Share(e, t, g) \/ DeleteCopy(e, t, g)
        PROVE  Goal
    BY <1>4, <2>4 DEF Share, DeleteCopy, db, history
  <2>5. ASSUME NEW e \in Device, SweepTrash(e) \/ Restart(e) PROVE Goal
    BY <1>4, <2>5 DEF SweepTrash, Restart, db, history
  <2> QED
    BY <1>5, <2>1, <2>2, <2>3, <2>4, <2>5 DEF UserStep
<1>6. CASE CallStep
  <2>1. ASSUME NEW m \in pushes, PushMetadata(m) PROVE Goal
    BY <1>4, <2>1 DEF PushMetadata, history
  <2>2. ASSUME NEW m \in pushes, FinalizeFile(m) PROVE Goal
    <3>1. m.to \in Device /\ m.item \in Item
      BY DEF TypeOK, Push
    <3> QED
      BY <1>1, <1>4, <2>2, <3>1 DEF FinalizeFile
  <2>3. ASSUME NEW m \in rpcs, NEW h \in Handler, RequestDelete(m, h) PROVE Goal
    BY <1>4, <2>3 DEF RequestDelete, history
  <2> QED
    BY <1>6, <2>1, <2>2, <2>3 DEF CallStep
<1>7. ASSUME NEW e \in Device, NEW g \in Item, Purge(e, g) PROVE Goal
  BY <1>3, <1>4, <1>7 DEF Purge, db, history
<1>8. ASSUME NEW e \in Device, NEW p \in Device, FetchCatalog(e, p) PROVE Goal
  BY <1>4, <1>8 DEF FetchCatalog, db, history
<1>9. ASSUME NEW e \in Device, WorkStep(e) PROVE Goal
  <2>1. ASSUME NEW w \in Worker, NEW g \in Item, ApplyRequest(e, w, g) PROVE Goal
    BY <1>2, <1>4, <2>1 DEF ApplyRequest
  <2>2. ASSUME NEW w \in Worker, NEW g \in Item,
               CheckRequest(e, w, g) \/ ClearRequest(e, w, g)
        PROVE  Goal
    BY <1>4, <2>2 DEF CheckRequest, ClearRequest, db, history
  <2>3. ASSUME NEW h \in Handler, BeginRequests(e, h) PROVE Goal
    BY <1>4, <2>3 DEF BeginRequests, db, history
  <2> QED
    BY <1>9, <2>1, <2>2, <2>3 DEF WorkStep
<1>10. ASSUME NEW e \in Device, TombstoneStep(e) PROVE Goal
  BY <1>3, <1>4, <1>10 DEF TombstoneStep, CheckTombstone, PurgeTombstoned,
     InsertTombstone, db, history
<1>11. ASSUME NEW e \in Device, MergeCatalog(e) PROVE Goal
  <2>1. holders'[d][f] \subseteq holders[d][f] \cup sync[d].cat.holders[f]
    BY <1>11 DEF MergeCatalog, MergedRows, PeerRow, ThirdRows
  <2> QED
    BY <1>11, <2>1 DEF MergeCatalog, history
<1>12. ASSUME NEW e \in Device, StartPending(e) \/ PruneRequests(e) PROVE Goal
  BY <1>4, <1>12 DEF StartPending, PruneRequests, db, history
<1>13. CASE UNCHANGED vars
  BY <1>4, <1>13 DEF vars, db, history
<1> QED
  BY <1>5, <1>6, <1>7, <1>8, <1>9, <1>10, <1>11, <1>12, <1>13 DEF Next, SyncStep

\* No catalog lists a holder that never had the item.  The invariant is inductive
\* as it stands: rows come from catalogs, and catalogs from tables.
THEOREM PhantomFree == Spec => []NoPhantomHolders
<1>1. Init => NoPhantomHolders
  BY DEF Init, NoPhantomHolders, NoCatalog, Idle
<1>2. TypeOK /\ NoPhantomHolders /\ [Next]_vars => NoPhantomHolders'
  <2> SUFFICES ASSUME TypeOK, NoPhantomHolders, [Next]_vars,
                      NEW d \in Device, NEW f \in Item
               PROVE  /\ holders'[d][f] \subseteq everHeld'[f]
                      /\ sync'[d].cat.holders[f] \subseteq everHeld'[f]
    BY DEF NoPhantomHolders
  <2>1. holders'[d][f] \subseteq everHeld'[f]
    BY RowsStep DEF NoPhantomHolders
  <2>2. sync'[d].cat.holders[f] \subseteq everHeld'[f]
    <3>1. everHeld[f] \subseteq everHeld'[f]
      BY RowsStep
    <3>2. CASE sync'[d].cat = sync[d].cat
      BY <3>1, <3>2 DEF NoPhantomHolders
    <3>3. CASE sync'[d].cat = NoCatalog
      BY <3>3 DEF NoCatalog
    <3>4. ASSUME NEW p \in Device, sync'[d].cat = CatalogOf(p)
          PROVE  sync'[d].cat.holders[f] \subseteq everHeld'[f]
      BY <3>1, <3>4 DEF NoPhantomHolders, CatalogOf
    <3> QED
      BY <3>2, <3>3, <3>4, CatalogStep
  <2> QED
    BY <2>1, <2>2
<1> QED
  BY <1>1, <1>2, TypeCorrect, PTL DEF Spec

\* A merge takes a row only with its item, so it leaves no row without one.
LEMMA MergeKeepsRows ==
  ASSUME TypeOK, NoOrphanRows, NEW d \in Device, NEW f \in Item,
         Merged(d, f, sync[d].cat.files[f]) = "absent"
  PROVE  MergedRows(d, f) = {}
<1>1. files[d][f] = "absent"
  BY DEF Merged
<1>2. holders[d][f] = {}
  BY <1>1 DEF NoOrphanRows, TypeOK
<1>3. CASE f \in tombs[d]
  BY <1>2, <1>3 DEF MergedRows, PeerRow, ThirdRows
<1>4. CASE f \notin tombs[d]
  <2>1. sync[d].cat.files[f] = "absent"
    BY <1>4 DEF Merged
  <2>2. sync[d].cat.holders[f] = {}
    BY <2>1 DEF NoOrphanRows
  <2> QED
    BY <1>2, <2>2 DEF MergedRows, PeerRow, ThirdRows
<1> QED
  BY <1>3, <1>4

\* No step leaves a holder row without its item in one device's tables.
LEMMA OrphanStep ==
  ASSUME TypeOK, NoOrphanRows, [Next]_vars, NEW d \in Device, NEW f \in Item
  PROVE  holders'[d][f] # {} => files'[d][f] # "absent"
<1> DEFINE Goal == holders'[d][f] # {} => files'[d][f] # "absent"
<1> /\ holders \in [Device -> [Item -> SUBSET Device]]
    /\ files \in [Device -> [Item -> Status]]
    /\ holders[d][f] # {} => files[d][f] # "absent"
  BY DEF TypeOK, NoOrphanRows
<1>1. ASSUME NEW e \in Device, NEW g \in Item, DropCopy(e, g),
             files[e][g] # "absent"
      PROVE  Goal
  <2>1. CASE files' = [files EXCEPT ![e][g] = "trashed"] /\ holders' = holders
    BY <2>1
  <2>2. CASE files' = files /\ holders' = [holders EXCEPT ![e][g] = @ \ {e}]
    BY <2>2
  <2> QED
    BY <1>1, <2>1, <2>2, DropCopyCases
<1>2. ASSUME NEW e \in Device, NEW g \in Item, PurgeFile(e, g) PROVE Goal
  BY <1>2 DEF PurgeFile, SetFile
<1>3. CASE UNCHANGED <<files, holders>>
  BY <1>3
<1>4. CASE UserStep
  <2>1. ASSUME NEW e \in Device, NEW g \in Item, Import(e, g) PROVE Goal
    BY <2>1 DEF Import, SetFile, ClaimCopy
  <2>2. ASSUME NEW e \in Device, NEW g \in Item, DeleteLocal(e, g) PROVE Goal
    BY <1>1, <2>2 DEF DeleteLocal
  <2>3. ASSUME NEW e \in Device, NEW g \in Item, Restore(e, g) PROVE Goal
    BY <2>3 DEF Restore, SetFile
  <2>4. ASSUME NEW e \in Device, NEW g \in Item, DeletePermanently(e, g) PROVE Goal
    BY <1>3, <2>4 DEF DeletePermanently, db
  <2>5. ASSUME NEW e \in Device, NEW t \in Device, NEW g \in Item,
               Share(e, t, g) \/ DeleteCopy(e, t, g)
        PROVE  Goal
    BY <1>3, <2>5 DEF Share, DeleteCopy, db
  <2>6. ASSUME NEW e \in Device, SweepTrash(e) \/ Restart(e) PROVE Goal
    BY <1>3, <2>6 DEF SweepTrash, Restart, db
  <2> QED
    BY <1>4, <2>1, <2>2, <2>3, <2>4, <2>5, <2>6 DEF UserStep
<1>5. CASE CallStep
  <2>1. ASSUME NEW m \in pushes, PushMetadata(m) PROVE Goal
    <3>1. m.to \in Device /\ m.item \in Item
      BY DEF TypeOK, Push
    <3>2. PICK e \in Device, g \in Item, s \in Status :
            /\ e = m.to /\ g = m.item
            /\ s = Merged(m.to, m.item, m.status)
      BY <3>1, MergedTyped
    <3>3. files[e][g] # "absent" => s # "absent"
      BY <3>2 DEF Merged
    <3>4. files' = [files EXCEPT ![e][g] = s] /\ holders' = holders
      BY <2>1, <3>2 DEF PushMetadata, SetFile
    <3> QED
      BY <3>3, <3>4
  <2>2. ASSUME NEW m \in pushes, FinalizeFile(m) PROVE Goal
    <3>1. m.to \in Device /\ m.item \in Item
      BY DEF TypeOK, Push
    <3>2. CASE files[m.to][m.item] = "absent"
      BY <1>3, <2>2, <3>2 DEF FinalizeFile
    <3>3. CASE files[m.to][m.item] # "absent"
      <4>1. files' = files /\ ClaimCopy(m.to, m.item)
        BY <2>2, <3>3 DEF FinalizeFile
      <4> QED
        BY <3>1, <3>3, <4>1 DEF ClaimCopy
    <3> QED
      BY <3>2, <3>3
  <2>3. ASSUME NEW m \in rpcs, NEW h \in Handler, RequestDelete(m, h) PROVE Goal
    BY <1>3, <2>3 DEF RequestDelete
  <2> QED
    BY <1>5, <2>1, <2>2, <2>3 DEF CallStep
<1>6. ASSUME NEW e \in Device, NEW g \in Item, Purge(e, g) PROVE Goal
  BY <1>2, <1>3, <1>6 DEF Purge, db
<1>7. ASSUME NEW e \in Device, NEW p \in Device, FetchCatalog(e, p) PROVE Goal
  BY <1>3, <1>7 DEF FetchCatalog, db
<1>8. ASSUME NEW e \in Device, WorkStep(e) PROVE Goal
  <2>1. ASSUME NEW w \in Worker, NEW g \in Item, ApplyRequest(e, w, g) PROVE Goal
    BY <1>1, <1>3, <2>1 DEF ApplyRequest
  <2>2. ASSUME NEW w \in Worker, NEW g \in Item,
               CheckRequest(e, w, g) \/ ClearRequest(e, w, g)
        PROVE  Goal
    BY <1>3, <2>2 DEF CheckRequest, ClearRequest, db
  <2>3. ASSUME NEW h \in Handler, BeginRequests(e, h) PROVE Goal
    BY <1>3, <2>3 DEF BeginRequests, db
  <2> QED
    BY <1>8, <2>1, <2>2, <2>3 DEF WorkStep
<1>9. ASSUME NEW e \in Device, TombstoneStep(e) PROVE Goal
  BY <1>2, <1>3, <1>9 DEF TombstoneStep, CheckTombstone, PurgeTombstoned,
     InsertTombstone, db
<1>10. ASSUME NEW e \in Device, MergeCatalog(e) PROVE Goal
  <2>1. CASE e = d
    <3>1. /\ files'[d][f] = Merged(d, f, sync[d].cat.files[f])
          /\ holders'[d][f] = MergedRows(d, f)
      BY <1>10, <2>1 DEF MergeCatalog
    <3> QED
      BY <3>1, MergeKeepsRows
  <2>2. CASE e # d
    BY <1>10, <2>2 DEF MergeCatalog
  <2> QED
    BY <2>1, <2>2
<1>11. ASSUME NEW e \in Device, StartPending(e) \/ PruneRequests(e) PROVE Goal
  BY <1>3, <1>11 DEF StartPending, PruneRequests, db
<1>12. CASE UNCHANGED vars
  BY <1>3, <1>12 DEF vars, db
<1> QED
  BY <1>4, <1>5, <1>6, <1>7, <1>8, <1>9, <1>10, <1>11, <1>12 DEF Next, SyncStep

\* No holder row outlives its item, in the tables or in a catalog under merge.
\* The second conjunct is what carries the first over a merge.
THEOREM RowsHaveItems == Spec => []NoOrphanRows
<1>1. Init => NoOrphanRows
  BY DEF Init, NoOrphanRows, NoCatalog, Idle
<1>2. TypeOK /\ NoOrphanRows /\ [Next]_vars => NoOrphanRows'
  <2> SUFFICES ASSUME TypeOK, NoOrphanRows, [Next]_vars,
                      NEW d \in Device, NEW f \in Item
               PROVE  /\ holders'[d][f] # {} => files'[d][f] # "absent"
                      /\ sync'[d].cat.holders[f] # {} =>
                           sync'[d].cat.files[f] # "absent"
    BY DEF NoOrphanRows
  <2>1. holders'[d][f] # {} => files'[d][f] # "absent"
    BY OrphanStep
  <2>2. sync'[d].cat.holders[f] # {} => sync'[d].cat.files[f] # "absent"
    <3>1. CASE sync'[d].cat = sync[d].cat
      BY <3>1 DEF NoOrphanRows
    <3>2. CASE sync'[d].cat = NoCatalog
      BY <3>2 DEF NoCatalog
    <3>3. ASSUME NEW p \in Device, sync'[d].cat = CatalogOf(p)
          PROVE  sync'[d].cat.holders[f] # {} => sync'[d].cat.files[f] # "absent"
      BY <3>3 DEF NoOrphanRows, CatalogOf
    <3> QED
      BY <3>1, <3>2, <3>3, CatalogStep
  <2> QED
    BY <2>1, <2>2
<1> QED
  BY <1>1, <1>2, TypeCorrect, PTL DEF Spec

-----------------------------------------------------------------------------
(* Deletes.                                                                 *)

\* A call in flight was asked for as well: what DeletesWereAsked needs to be
\* inductive, because a handler records a request before it looks at it.
CallsWereAsked == \A m \in rpcs : m.to \in asked[m.item]

AskInv == DeletesWereAsked /\ CallsWereAsked

\* Requests and calls are new only if a person has just asked, if a catalog under
\* merge has them, or if a call brings them.
LEMMA AskedStep ==
  ASSUME TypeOK, CallsWereAsked, [Next]_vars, NEW d \in Device, NEW f \in Item
  PROVE  /\ asked[f] \subseteq asked'[f]
         /\ requests'[d][f] \subseteq
              requests[d][f] \cup sync[d].cat.requests[f] \cup asked'[f]
         /\ \A m \in rpcs' : m \in rpcs \/ m.to \in asked'[m.item]
<1> DEFINE Goal == /\ asked[f] \subseteq asked'[f]
                   /\ requests'[d][f] \subseteq
                        requests[d][f] \cup sync[d].cat.requests[f] \cup asked'[f]
                   /\ \A m \in rpcs' : m \in rpcs \/ m.to \in asked'[m.item]
<1> /\ requests \in [Device -> [Item -> SUBSET Device]]
    /\ asked \in [Item -> SUBSET Device]
  BY DEF TypeOK
<1>1. CASE UNCHANGED <<requests, rpcs, asked>>
  BY <1>1
<1>2. ASSUME NEW e \in Device, NEW g \in Item, PurgeFile(e, g),
             UNCHANGED <<rpcs, asked>>
      PROVE  Goal
  BY <1>2 DEF PurgeFile
<1>3. CASE UserStep
  <2>1. ASSUME NEW e \in Device, NEW g \in Item,
               \/ Import(e, g) \/ DeleteLocal(e, g) \/ Restore(e, g)
               \/ DeletePermanently(e, g) \/ SweepTrash(e) \/ Restart(e)
        PROVE  Goal
    BY <1>1, <2>1 DEF Import, DeleteLocal, Restore, DeletePermanently, SweepTrash,
       Restart, db, calls, history
  <2>2. ASSUME NEW e \in Device, NEW t \in Device, NEW g \in Item, Share(e, t, g)
        PROVE  Goal
    BY <1>1, <2>2 DEF Share, db, history
  <2>3. ASSUME NEW e \in Device, NEW t \in Device, NEW g \in Item,
               DeleteCopy(e, t, g)
        PROVE  Goal
    <3>1. /\ requests' = [requests EXCEPT ![e][g] = @ \cup {t}]
          /\ asked' = [asked EXCEPT ![g] = @ \cup {t}]
          /\ rpcs' \subseteq rpcs \cup {[to |-> t, item |-> g]}
      BY <2>3 DEF DeleteCopy
    <3>2. asked[f] \subseteq asked'[f] /\ t \in asked'[g]
      BY <3>1
    <3>3. requests'[d][f] \subseteq requests[d][f] \cup asked'[f]
      BY <3>1, <3>2
    <3>4. \A m \in rpcs' : m \in rpcs \/ m.to \in asked'[m.item]
      BY <3>1, <3>2
    <3> QED
      BY <3>2, <3>3, <3>4
  <2>4. ASSUME NEW e \in Device, SweepTrash(e) \/ Restart(e) PROVE Goal
    BY <1>1, <2>4 DEF SweepTrash, Restart, db, calls, history
  <2> QED
    BY <1>3, <2>1, <2>2, <2>3, <2>4 DEF UserStep
<1>4. CASE CallStep
  <2>1. ASSUME NEW m \in pushes, PushMetadata(m) \/ FinalizeFile(m) PROVE Goal
    BY <1>1, <2>1 DEF PushMetadata, FinalizeFile, history
  <2>2. ASSUME NEW m \in rpcs, NEW h \in Handler, RequestDelete(m, h) PROVE Goal
    <3>1. /\ requests' = [requests EXCEPT ![m.to][m.item] = @ \cup {m.to}]
          /\ asked' = asked
          /\ rpcs' \subseteq rpcs
      BY <2>2 DEF RequestDelete, history
    <3>2. m.to \in asked[m.item]
      BY DEF CallsWereAsked
    <3> QED
      BY <3>1, <3>2
  <2> QED
    BY <1>4, <2>1, <2>2 DEF CallStep
<1>5. ASSUME NEW e \in Device, NEW g \in Item, Purge(e, g) PROVE Goal
  BY <1>1, <1>2, <1>5 DEF Purge, db, calls, history
<1>6. ASSUME NEW e \in Device, NEW p \in Device, FetchCatalog(e, p) PROVE Goal
  BY <1>1, <1>6 DEF FetchCatalog, db, calls, history
<1>7. ASSUME NEW e \in Device, WorkStep(e) PROVE Goal
  <2>1. ASSUME NEW w \in Worker, NEW g \in Item, ClearRequest(e, w, g) PROVE Goal
    BY <2>1 DEF ClearRequest, calls, history
  <2>2. ASSUME NEW w \in Worker, NEW g \in Item,
               CheckRequest(e, w, g) \/ ApplyRequest(e, w, g)
        PROVE  Goal
    BY <1>1, <2>2 DEF CheckRequest, ApplyRequest, db, calls, history
  <2>3. ASSUME NEW h \in Handler, BeginRequests(e, h) PROVE Goal
    BY <1>1, <2>3 DEF BeginRequests, db, calls, history
  <2> QED
    BY <1>7, <2>1, <2>2, <2>3 DEF WorkStep
<1>8. ASSUME NEW e \in Device, TombstoneStep(e) PROVE Goal
  BY <1>1, <1>2, <1>8 DEF TombstoneStep, CheckTombstone, PurgeTombstoned,
     InsertTombstone, db, calls, history
<1>9. ASSUME NEW e \in Device, MergeCatalog(e) PROVE Goal
  <2>1. /\ requests' = [requests EXCEPT ![e] = [g \in Item |->
                          requests[e][g] \cup sync[e].cat.requests[g]]]
        /\ rpcs' = rpcs /\ asked' = asked
    BY <1>9 DEF MergeCatalog, calls, history
  <2> QED
    BY <2>1
<1>10. ASSUME NEW e \in Device, StartPending(e) PROVE Goal
  BY <1>1, <1>10 DEF StartPending, db, calls, history
<1>11. ASSUME NEW e \in Device, PruneRequests(e) PROVE Goal
  <2>1. /\ requests' = [requests EXCEPT ![e] = [g \in Item |->
             IF files[e][g] = "live" THEN requests[e][g] \cap holders[e][g]
                                     ELSE {}]]
        /\ rpcs' = rpcs /\ asked' = asked
    BY <1>11 DEF PruneRequests, calls, history
  <2> QED
    BY <2>1
<1>12. CASE UNCHANGED vars
  BY <1>1, <1>12 DEF vars, db, calls, history
<1> QED
  BY <1>3, <1>4, <1>5, <1>6, <1>7, <1>8, <1>9, <1>10, <1>11, <1>12
  DEF Next, SyncStep

\* A pending delete is new at d only if d's tables have its request.
LEMMA WorkStepAsked ==
  ASSUME TypeOK, [Next]_vars, NEW d \in Device, NEW f \in Item, NEW w \in Worker,
         work'[d][w][f] # "none"
  PROVE  \/ work[d][w][f] # "none"
         \/ d \in requests[d][f]
         \/ d \in requests'[d][f]
<1> DEFINE Goal == \/ work[d][w][f] # "none"
                   \/ d \in requests[d][f]
                   \/ d \in requests'[d][f]
<1> work \in [Device -> [Worker -> [Item -> RequestStep]]]
  BY DEF TypeOK
<1>1. CASE work' = work
  BY <1>1
<1>2. CASE UserStep
  <2>1. ASSUME NEW e \in Device, Restart(e) PROVE Goal
    <3>1. work' = [work EXCEPT ![e] = [v \in Worker |-> [g \in Item |-> "none"]]]
      BY <2>1 DEF Restart, NoWork
    <3> QED
      BY <3>1
  <2>2. work' = work \/ \E e \in Device : Restart(e)
    BY <1>2 DEF UserStep, Import, DeleteLocal, Restore, DeletePermanently,
       Share, DeleteCopy, SweepTrash, local
  <2> QED
    BY <1>1, <2>1, <2>2
<1>3. CASE CallStep
  <2>1. ASSUME NEW m \in pushes, PushMetadata(m) \/ FinalizeFile(m) PROVE Goal
    BY <1>1, <2>1 DEF PushMetadata, FinalizeFile, local
  <2>2. ASSUME NEW m \in rpcs, NEW h \in Handler, RequestDelete(m, h) PROVE Goal
    <3>1. m.to \in Device /\ m.item \in Item
      BY DEF TypeOK, Rpc
    <3>2. requests'[m.to][m.item] = requests[m.to][m.item] \cup {m.to}
      BY <2>2, <3>1 DEF RequestDelete, TypeOK
    <3>3. PICK q \in [Item -> RequestStep] : q = [NoWork EXCEPT ![m.item] = "begin"]
      BY DEF NoWork, RequestStep
    <3>4. q[f] # "none" => f = m.item
      BY <3>3 DEF NoWork
    <3>5. work' = [work EXCEPT ![m.to][h] = q]
      BY <2>2, <3>3 DEF RequestDelete
    <3>6. CASE d = m.to /\ w = h
      BY <3>1, <3>2, <3>4, <3>5, <3>6
    <3>7. CASE ~ (d = m.to /\ w = h)
      BY <3>5, <3>7
    <3> QED
      BY <3>6, <3>7
  <2> QED
    BY <1>3, <2>1, <2>2 DEF CallStep
<1>4. ASSUME NEW e \in Device, NEW g \in Item, Purge(e, g) PROVE Goal
  BY <1>1, <1>4 DEF Purge
<1>5. ASSUME NEW e \in Device, NEW p \in Device, FetchCatalog(e, p) PROVE Goal
  BY <1>1, <1>5 DEF FetchCatalog
<1>6. ASSUME NEW e \in Device, WorkStep(e) PROVE Goal
  <2>1. ASSUME NEW h \in Handler, BeginRequests(e, h) PROVE Goal
    <3>1. work' = [work EXCEPT ![e][h] = PendingFor(e, requests)]
      BY <2>1 DEF BeginRequests
    <3> QED
      BY <3>1 DEF PendingFor
  <2>2. ASSUME NEW v \in Worker, NEW g \in Item, NEW step \in RequestStep,
               SetWork(e, v, g, step), work[e][v][g] # "none"
        PROVE  Goal
    BY <2>2 DEF SetWork
  <2>3. \/ \E h \in Handler : BeginRequests(e, h)
        \/ \E v \in Worker, g \in Item, step \in RequestStep :
             SetWork(e, v, g, step) /\ work[e][v][g] # "none"
    BY <1>6 DEF WorkStep, CheckRequest, ApplyRequest, ClearRequest, RequestStep
  <2> QED
    BY <2>1, <2>2, <2>3
<1>7. ASSUME NEW e \in Device, TombstoneStep(e) PROVE Goal
  BY <1>1, <1>7 DEF TombstoneStep, CheckTombstone, PurgeTombstoned, InsertTombstone
<1>8. ASSUME NEW e \in Device, MergeCatalog(e) \/ PruneRequests(e) PROVE Goal
  BY <1>1, <1>8 DEF MergeCatalog, PruneRequests
<1>9. ASSUME NEW e \in Device, StartPending(e) PROVE Goal
  BY <1>9 DEF StartPending, PendingFor
<1>10. CASE UNCHANGED vars
  BY <1>1, <1>10 DEF vars, local
<1> QED
  BY <1>2, <1>3, <1>4, <1>5, <1>6, <1>7, <1>8, <1>9, <1>10 DEF Next, SyncStep

\* No device carries out, or passes on, a delete that no person asked for.
THEOREM OnlyAskedDeletes == Spec => []DeletesWereAsked
<1>1. Init => AskInv
  BY DEF Init, AskInv, DeletesWereAsked, CallsWereAsked, NoCatalog, Idle, NoWork
<1>2. TypeOK /\ AskInv /\ [Next]_vars => AskInv'
  <2> SUFFICES ASSUME TypeOK, AskInv, [Next]_vars PROVE AskInv'
    OBVIOUS
  <2> USE DEF AskInv
  <2>1. \A d \in Device, f \in Item :
          asked[f] \subseteq asked'[f] /\ requests'[d][f] \subseteq asked'[f]
    BY AskedStep DEF DeletesWereAsked
  <2>2. ASSUME NEW d \in Device, NEW f \in Item
        PROVE  sync'[d].cat.requests[f] \subseteq asked'[f]
    <3>1. CASE sync'[d].cat = sync[d].cat
      BY <2>1, <3>1 DEF DeletesWereAsked
    <3>2. CASE sync'[d].cat = NoCatalog
      BY <3>2 DEF NoCatalog
    <3>3. ASSUME NEW p \in Device, sync'[d].cat = CatalogOf(p)
          PROVE  sync'[d].cat.requests[f] \subseteq asked'[f]
      BY <2>1, <3>3 DEF DeletesWereAsked, CatalogOf
    <3> QED
      BY <3>1, <3>2, <3>3, CatalogStep
  <2>3. ASSUME NEW d \in Device, NEW f \in Item, NEW w \in Worker,
               work'[d][w][f] # "none"
        PROVE  d \in asked'[f]
    BY <2>1, <2>3, WorkStepAsked DEF DeletesWereAsked
  <2>4. CallsWereAsked'
    <3> SUFFICES ASSUME NEW m \in rpcs' PROVE m.to \in asked'[m.item]
      BY DEF CallsWereAsked
    <3>1. rpcs' \subseteq Rpc
      BY TypeStep DEF TypeOK
    <3>2. m \in rpcs \/ m.to \in asked'[m.item]
      <4>1. m.to \in Device /\ m.item \in Item
        BY <3>1 DEF Rpc
      <4> QED
        BY <4>1, AskedStep
    <3> QED
      BY <2>1, <3>1, <3>2 DEF CallsWereAsked, Rpc
  <2> QED
    BY <2>1, <2>2, <2>3, <2>4 DEF DeletesWereAsked
<1>3. AskInv => DeletesWereAsked
  BY DEF AskInv
<1> QED
  BY <1>1, <1>2, <1>3, TypeCorrect, PTL DEF Spec

-----------------------------------------------------------------------------
(* Destruction.                                                             *)

\* An item nobody ever held is nowhere: in no table, no catalog under merge, no
\* list of tombstones to apply and no share.
Unseen(f) ==
  /\ \A d \in Device : /\ files[d][f] = "absent"
                       /\ f \notin tombs[d]
                       /\ sync[d].cat.files[f] = "absent"
                       /\ sync[d].marks[f] = "none"
  /\ \A m \in pushes : m.item # f

UnseenInv == \A f \in Item : everHeld[f] = {} => Unseen(f)

\* A device comes to know of an item only from a device that does.
LEMMA UnseenStep ==
  ASSUME TypeOK, [Next]_vars, NEW f \in Item, Unseen(f), everHeld'[f] = {}
  PROVE  Unseen(f)'
<1> USE DEF Unseen
<1> /\ files \in [Device -> [Item -> Status]]
    /\ tombs \in [Device -> SUBSET Item]
    /\ sync \in [Device -> SyncTask]
    /\ everHeld \in [Item -> SUBSET Device]
    /\ pushes \subseteq Push
  BY DEF TypeOK
<1>1. CASE UNCHANGED <<files, tombs, sync, pushes>>
  BY <1>1
<1>2. ASSUME NEW e \in Device, NEW g \in Item, g # f, DropCopy(e, g),
             UNCHANGED <<tombs, sync>>
      PROVE  Unseen(f)'
  <2>1. CASE files' = [files EXCEPT ![e][g] = "trashed"] /\ pushes' = pushes
    BY <1>2, <2>1
  <2>2. CASE files' = files /\ pushes' \subseteq pushes
    BY <1>2, <2>2
  <2> QED
    BY <1>2, <2>1, <2>2, DropCopyCases
<1>3. ASSUME NEW e \in Device, NEW g \in Item, g # f, PurgeFile(e, g),
             UNCHANGED <<sync, pushes>>
      PROVE  Unseen(f)'
  BY <1>3 DEF PurgeFile, SetFile
<1>4. ASSUME NEW e \in Device, NEW g \in Item, NEW step, Mark(e, g, step),
             g = f => step = "none"
      PROVE  \A d \in Device : sync'[d].cat.files[f] = "absent"
                               /\ sync'[d].marks[f] = "none"
  <2>1. sync' = [sync EXCEPT ![e] = [sync[e] EXCEPT !.marks =
                   [sync[e].marks EXCEPT ![g] = step]]]
    BY <1>4 DEF Mark
  <2>2. sync[e].marks \in [Item -> TombStep]
    BY DEF SyncTask
  <2>3. sync[e] \in SyncTask
    OBVIOUS
  <2>4. /\ [sync[e] EXCEPT !.marks = [sync[e].marks EXCEPT ![g] = step]].cat
             = sync[e].cat
        /\ [sync[e] EXCEPT !.marks = [sync[e].marks EXCEPT ![g] = step]].marks
             = [sync[e].marks EXCEPT ![g] = step]
    BY <2>3 DEF SyncTask
  <2>5. [sync[e].marks EXCEPT ![g] = step][f] = "none"
    BY <1>4, <2>2
  <2>6. sync'[e].cat = sync[e].cat /\ sync'[e].marks[f] = "none"
    BY <2>1, <2>4, <2>5
  <2>7. \A d \in Device \ {e} : sync'[d] = sync[d]
    BY <2>1
  <2> QED
    BY <2>6, <2>7
<1>5. CASE UserStep
  <2>1. ASSUME NEW e \in Device, NEW g \in Item, Import(e, g) PROVE Unseen(f)'
    <3>1. g # f
      BY <2>1 DEF Import, ClaimCopy
    <3> QED
      BY <2>1, <3>1 DEF Import, SetFile, local, calls
  <2>2. ASSUME NEW e \in Device, NEW g \in Item, DeleteLocal(e, g) PROVE Unseen(f)'
    BY <1>2, <2>2 DEF DeleteLocal, local
  <2>3. ASSUME NEW e \in Device, NEW g \in Item, Restore(e, g) PROVE Unseen(f)'
    BY <2>3 DEF Restore, SetFile, local, calls
  <2>4. ASSUME NEW e \in Device, NEW t \in Device, NEW g \in Item, Share(e, t, g)
        PROVE  Unseen(f)'
    BY <2>4 DEF Share, db, local
  <2>5. ASSUME NEW e \in Device, NEW t \in Device, NEW g \in Item,
               DeletePermanently(e, g) \/ DeleteCopy(e, t, g) \/ SweepTrash(e)
        PROVE  Unseen(f)'
    BY <1>1, <2>5 DEF DeletePermanently, DeleteCopy, SweepTrash, db, local, calls
  <2>6. ASSUME NEW e \in Device, SweepTrash(e) PROVE Unseen(f)'
    BY <1>1, <2>6 DEF SweepTrash, db, calls
  <2>7. ASSUME NEW e \in Device, Restart(e) PROVE Unseen(f)'
    BY <2>7 DEF Restart, Idle, NoCatalog, db, calls
  <2> QED
    BY <1>5, <2>1, <2>2, <2>3, <2>4, <2>5, <2>6, <2>7 DEF UserStep
<1>6. CASE CallStep
  <2>1. ASSUME NEW m \in pushes, PushMetadata(m) PROVE Unseen(f)'
    <3>1. m \in Push /\ m.item # f
      OBVIOUS
    <3>2. PICK g \in Item, s \in Status : g # f /\ SetFile(m.to, g, s)
      BY <2>1, <3>1, MergedTyped DEF PushMetadata, Push
    <3>3. \A n \in pushes' : n.item # f
      BY <2>1, <3>1 DEF PushMetadata, Push
    <3> QED
      BY <2>1, <3>2, <3>3 DEF PushMetadata, SetFile, local
  <2>2. ASSUME NEW m \in pushes, FinalizeFile(m) PROVE Unseen(f)'
    BY <2>2 DEF FinalizeFile, local
  <2>3. ASSUME NEW m \in rpcs, NEW h \in Handler, RequestDelete(m, h) PROVE Unseen(f)'
    BY <1>1, <2>3 DEF RequestDelete
  <2> QED
    BY <1>6, <2>1, <2>2, <2>3 DEF CallStep
<1>7. ASSUME NEW e \in Device, NEW g \in Item, Purge(e, g) PROVE Unseen(f)'
  BY <1>1, <1>3, <1>7 DEF Purge, db, calls
<1>8. ASSUME NEW e \in Device, NEW p \in Device, FetchCatalog(e, p) PROVE Unseen(f)'
  <2>1. sync' = [sync EXCEPT ![e] =
       [stage |-> "tombstones", peer |-> p, cat |-> CatalogOf(p),
        marks |-> [g \in Item |-> IF g \in tombs[p] THEN "check" ELSE "none"]]]
    BY <1>8 DEF FetchCatalog
  <2>2. sync'[e].cat.files[f] = "absent" /\ sync'[e].marks[f] = "none"
    BY <2>1 DEF CatalogOf
  <2> QED
    BY <1>8, <2>1, <2>2 DEF FetchCatalog, db, calls
<1>9. ASSUME NEW e \in Device, WorkStep(e) PROVE Unseen(f)'
  <2>1. ASSUME NEW w \in Worker, NEW g \in Item, ApplyRequest(e, w, g)
        PROVE  Unseen(f)'
    BY <1>1, <1>2, <2>1 DEF ApplyRequest
  <2>2. ASSUME NEW w \in Worker, NEW g \in Item,
               CheckRequest(e, w, g) \/ ClearRequest(e, w, g)
        PROVE  Unseen(f)'
    BY <1>1, <2>2 DEF CheckRequest, ClearRequest, db, calls
  <2>3. ASSUME NEW h \in Handler, BeginRequests(e, h) PROVE Unseen(f)'
    BY <1>1, <2>3 DEF BeginRequests, db, calls
  <2> QED
    BY <1>9, <2>1, <2>2, <2>3 DEF WorkStep
<1>10. ASSUME NEW e \in Device, TombstoneStep(e) PROVE Unseen(f)'
  <2>1. ASSUME NEW g \in Item, CheckTombstone(e, g) PROVE Unseen(f)'
    <3>1. g # f
      BY <2>1 DEF CheckTombstone
    <3>2. PICK step : Mark(e, g, step)
      BY <2>1 DEF CheckTombstone
    <3> QED
      BY <1>4, <2>1, <3>1, <3>2 DEF CheckTombstone, db, calls
  <2>2. ASSUME NEW g \in Item, PurgeTombstoned(e, g) PROVE Unseen(f)'
    <3>1. g # f
      BY <2>2 DEF PurgeTombstoned
    <3>2. /\ \A d \in Device : files'[d][f] = files[d][f]
          /\ \A d \in Device : f \in tombs'[d] => f \in tombs[d]
      <4>1. CASE PurgeFile(e, g)
        BY <3>1, <4>1 DEF PurgeFile, SetFile
      <4>2. CASE UNCHANGED db
        BY <4>2 DEF db
      <4> QED
        BY <2>2, <4>1, <4>2 DEF PurgeTombstoned
    <3> QED
      BY <1>4, <2>2, <3>1, <3>2 DEF PurgeTombstoned, calls
  <2>3. ASSUME NEW g \in Item, InsertTombstone(e, g) PROVE Unseen(f)'
    <3>1. g # f
      BY <2>3 DEF InsertTombstone
    <3> QED
      BY <1>4, <2>3, <3>1 DEF InsertTombstone, calls
  <2> QED
    BY <1>10, <2>1, <2>2, <2>3 DEF TombstoneStep
<1>11. ASSUME NEW e \in Device, MergeCatalog(e) PROVE Unseen(f)'
  <2>1. /\ files' = [files EXCEPT ![e] =
             [g \in Item |-> Merged(e, g, sync[e].cat.files[g])]]
        /\ sync' = [sync EXCEPT ![e] = [Idle(e) EXCEPT !.stage = "pending"]]
        /\ UNCHANGED <<tombs, pushes>>
    BY <1>11 DEF MergeCatalog, calls
  <2>2. files'[e][f] = "absent"
    BY <2>1 DEF Merged
  <2>3. sync'[e].cat.files[f] = "absent" /\ sync'[e].marks[f] = "none"
    BY <2>1 DEF Idle, NoCatalog
  <2> QED
    BY <2>1, <2>2, <2>3
<1>12. ASSUME NEW e \in Device, StartPending(e) PROVE Unseen(f)'
  <2>1. /\ sync' = [sync EXCEPT ![e].stage = "applying"]
        /\ UNCHANGED <<files, tombs, pushes>>
    BY <1>12 DEF StartPending, db, calls
  <2> QED
    BY <2>1 DEF SyncTask
<1>13. ASSUME NEW e \in Device, PruneRequests(e) PROVE Unseen(f)'
  BY <1>13 DEF PruneRequests, Idle, NoCatalog, calls
<1>14. CASE UNCHANGED vars
  BY <1>1, <1>14 DEF vars, db, local, calls
<1> QED
  BY <1>5, <1>6, <1>7, <1>8, <1>9, <1>10, <1>11, <1>12, <1>13, <1>14
  DEF Next, SyncStep

LEMMA UnseenAlways == Spec => []UnseenInv
<1>1. Init => UnseenInv
  BY DEF Init, UnseenInv, Unseen, NoCatalog, Idle
<1>2. TypeOK /\ UnseenInv /\ [Next]_vars => UnseenInv'
  <2> SUFFICES ASSUME TypeOK, UnseenInv, [Next]_vars, NEW f \in Item,
                      everHeld'[f] = {}
               PROVE  Unseen(f)'
    BY DEF UnseenInv
  <2>1. everHeld[f] = {}
    <3>1. \A d \in Device : everHeld[f] \subseteq everHeld'[f]
      BY RowsStep
    <3> QED
      BY <3>1 DEF TypeOK
  <2> QED
    BY <2>1, UnseenStep DEF UnseenInv
<1> QED
  BY <1>1, <1>2, TypeCorrect, PTL DEF Spec

\* A tombstone stays, and an item that is gone behind one stays gone.
LEMMA TombstoneStays ==
  ASSUME TypeOK, UnseenInv, [Next]_vars, NEW d \in Device, NEW f \in Item,
         f \in tombs[d]
  PROVE  /\ f \in tombs'[d]
         /\ files[d][f] = "absent" => files'[d][f] = "absent"
<1> DEFINE Goal == /\ f \in tombs'[d]
                   /\ files[d][f] = "absent" => files'[d][f] = "absent"
<1> /\ files \in [Device -> [Item -> Status]]
    /\ tombs \in [Device -> SUBSET Item]
    /\ pushes \subseteq Push
  BY DEF TypeOK
<1>1. CASE UNCHANGED <<files, tombs>>
  BY <1>1
<1>2. ASSUME NEW e \in Device, NEW g \in Item, DropCopy(e, g),
             files[e][g] # "absent", UNCHANGED tombs
      PROVE  Goal
  <2>1. CASE files' = [files EXCEPT ![e][g] = "trashed"]
    BY <1>2, <2>1
  <2>2. CASE files' = files
    BY <1>2, <2>2
  <2> QED
    BY <1>2, <2>1, <2>2, DropCopyCases
<1>3. ASSUME NEW e \in Device, NEW g \in Item, PurgeFile(e, g) PROVE Goal
  BY <1>3 DEF PurgeFile, SetFile
<1>4. CASE UserStep
  <2>1. ASSUME NEW e \in Device, NEW g \in Item, Import(e, g) PROVE Goal
    <3>1. Unseen(g)
      BY <2>1 DEF Import, UnseenInv
    <3>2. <<e, g>> # <<d, f>>
      BY <3>1 DEF Unseen
    <3> QED
      BY <2>1, <3>2 DEF Import, SetFile
  <2>2. ASSUME NEW e \in Device, NEW g \in Item, DeleteLocal(e, g) PROVE Goal
    BY <1>2, <2>2 DEF DeleteLocal
  <2>3. ASSUME NEW e \in Device, NEW g \in Item, Restore(e, g) PROVE Goal
    BY <2>3 DEF Restore, SetFile
  <2>4. ASSUME NEW e \in Device, NEW g \in Item, DeletePermanently(e, g) PROVE Goal
    BY <1>1, <2>4 DEF DeletePermanently, db
  <2>5. ASSUME NEW e \in Device, NEW t \in Device, NEW g \in Item,
               Share(e, t, g) \/ DeleteCopy(e, t, g)
        PROVE  Goal
    BY <1>1, <2>5 DEF Share, DeleteCopy, db
  <2>6. ASSUME NEW e \in Device, SweepTrash(e) \/ Restart(e) PROVE Goal
    BY <1>1, <2>6 DEF SweepTrash, Restart, db
  <2> QED
    BY <1>4, <2>1, <2>2, <2>3, <2>4, <2>5, <2>6 DEF UserStep
<1>5. CASE CallStep
  <2>1. ASSUME NEW m \in pushes, PushMetadata(m) PROVE Goal
    <3>1. PICK e \in Device, g \in Item, s \in Status :
            /\ e = m.to /\ g = m.item
            /\ s = Merged(m.to, m.item, m.status)
      BY MergedTyped DEF Push
    <3>2. files' = [files EXCEPT ![e][g] = s] /\ tombs' = tombs
      BY <2>1, <3>1 DEF PushMetadata, SetFile
    <3>3. e = d /\ g = f => s = files[d][f]
      BY <3>1 DEF Merged
    <3> QED
      BY <3>2, <3>3
  <2>2. ASSUME NEW m \in pushes, FinalizeFile(m) PROVE Goal
    BY <1>1, <2>2 DEF FinalizeFile
  <2>3. ASSUME NEW m \in rpcs, NEW h \in Handler, RequestDelete(m, h) PROVE Goal
    BY <1>1, <2>3 DEF RequestDelete
  <2> QED
    BY <1>5, <2>1, <2>2, <2>3 DEF CallStep
<1>6. ASSUME NEW e \in Device, NEW g \in Item, Purge(e, g) PROVE Goal
  BY <1>1, <1>3, <1>6 DEF Purge, db
<1>7. ASSUME NEW e \in Device, NEW p \in Device, FetchCatalog(e, p) PROVE Goal
  BY <1>1, <1>7 DEF FetchCatalog, db
<1>8. ASSUME NEW e \in Device, WorkStep(e) PROVE Goal
  <2>1. ASSUME NEW w \in Worker, NEW g \in Item, ApplyRequest(e, w, g) PROVE Goal
    BY <1>1, <1>2, <2>1 DEF ApplyRequest
  <2>2. ASSUME NEW w \in Worker, NEW g \in Item,
               CheckRequest(e, w, g) \/ ClearRequest(e, w, g)
        PROVE  Goal
    BY <1>1, <2>2 DEF CheckRequest, ClearRequest, db
  <2>3. ASSUME NEW h \in Handler, BeginRequests(e, h) PROVE Goal
    BY <1>1, <2>3 DEF BeginRequests, db
  <2> QED
    BY <1>8, <2>1, <2>2, <2>3 DEF WorkStep
<1>9. ASSUME NEW e \in Device, TombstoneStep(e) PROVE Goal
  BY <1>1, <1>3, <1>9 DEF TombstoneStep, CheckTombstone, PurgeTombstoned,
     InsertTombstone, db
<1>10. ASSUME NEW e \in Device, MergeCatalog(e) PROVE Goal
  <2>1. /\ files' = [files EXCEPT ![e] =
             [g \in Item |-> Merged(e, g, sync[e].cat.files[g])]]
        /\ tombs' = tombs
    BY <1>10 DEF MergeCatalog
  <2>2. Merged(d, f, sync[d].cat.files[f]) = files[d][f]
    BY DEF Merged
  <2> QED
    BY <2>1, <2>2
<1>11. ASSUME NEW e \in Device, StartPending(e) \/ PruneRequests(e) PROVE Goal
  BY <1>1, <1>11 DEF StartPending, PruneRequests, db
<1>12. CASE UNCHANGED vars
  BY <1>1, <1>12 DEF vars, db
<1> QED
  BY <1>4, <1>5, <1>6, <1>7, <1>8, <1>9, <1>10, <1>11, <1>12 DEF Next, SyncStep

\* A destroyed item is not handed back to a device that knows it is destroyed.
\* Items are created once (UnseenInv), so an import cannot do it either.
THEOREM DestructionIsFinal == Spec => NoResurrection
<1>1. TypeOK /\ UnseenInv /\ [Next]_vars =>
        [\A d \in Device, f \in Item :
           f \in tombs[d] /\ files[d][f] = "absent" =>
             f \in tombs'[d] /\ files'[d][f] = "absent"]_vars
  BY TombstoneStays
<1> QED
  BY <1>1, TypeCorrect, UnseenAlways, PTL DEF Spec, NoResurrection

-----------------------------------------------------------------------------
(* Copies.                                                                  *)

\* A sync is with another device.
PeerIsOther == \A d \in Device : sync[d].stage = "tombstones" => sync[d].peer # d

LEMMA PeerIsOtherAlways == Spec => []PeerIsOther
<1>1. Init => PeerIsOther
  BY DEF Init, PeerIsOther, Idle
<1>2. TypeOK /\ PeerIsOther /\ [Next]_vars => PeerIsOther'
  <2> SUFFICES ASSUME TypeOK, PeerIsOther, [Next]_vars PROVE PeerIsOther'
    OBVIOUS
  <2> sync \in [Device -> SyncTask]
    BY DEF TypeOK
  <2> USE DEF PeerIsOther
  <2>1. CASE sync' = sync
    BY <2>1
  <2>2. ASSUME NEW e \in Device, Restart(e) PROVE PeerIsOther'
    BY <2>2 DEF Restart, Idle
  <2>3. ASSUME NEW e \in Device, NEW p \in Device, FetchCatalog(e, p)
        PROVE  PeerIsOther'
    BY <2>3 DEF FetchCatalog
  <2>4. ASSUME NEW e \in Device, TombstoneStep(e) PROVE PeerIsOther'
    <3>1. PICK f \in Item, step \in TombStep : Mark(e, f, step)
      BY <2>4 DEF TombstoneStep, CheckTombstone, PurgeTombstoned, InsertTombstone,
         TombStep
    <3> QED
      BY <3>1 DEF Mark, SyncTask
  <2>5. ASSUME NEW e \in Device, MergeCatalog(e) \/ StartPending(e) \/ PruneRequests(e)
        PROVE  PeerIsOther'
    <3>1. PICK task \in {[Idle(e) EXCEPT !.stage = "pending"], Idle(e),
                         [sync[e] EXCEPT !.stage = "applying"]} :
            sync' = [sync EXCEPT ![e] = task]
      BY <2>5 DEF MergeCatalog, StartPending, PruneRequests
    <3>2. task.stage # "tombstones"
      BY DEF Idle, SyncTask
    <3> QED
      BY <3>1, <3>2
  <2>6. UserStep => sync' = sync \/ \E e \in Device : Restart(e)
    BY DEF UserStep, Import, DeleteLocal, Restore, DeletePermanently, Share,
       DeleteCopy, SweepTrash, local
  <2>7. CallStep \/ (\E e \in Device : WorkStep(e)) => sync' = sync
    BY DEF CallStep, WorkStep, PushMetadata, FinalizeFile, RequestDelete,
       BeginRequests, CheckRequest, ApplyRequest, ClearRequest, local
  <2>8. (\E e \in Device, f \in Item : Purge(e, f)) \/ UNCHANGED vars => sync' = sync
    BY DEF Purge, vars, local
  <2> QED
    BY <2>1, <2>2, <2>3, <2>4, <2>5, <2>6, <2>7, <2>8
    DEF Next, SyncStep
<1> QED
  BY <1>1, <1>2, TypeCorrect, PTL DEF Spec

-----------------------------------------------------------------------------
(* Mesh implements Copies: every step of a device, of a call or of a person *)
(* is one of the steps Copies promises, or changes nothing that Copies      *)
(* speaks of.                                                               *)

\* What Mesh puts for the variables of Copies.
Kept == [d \in Device |-> {f \in Item : Holds(d, f)}]
Sent == {<<m.to, m.item>> : m \in pushes}
Dead == UNION {tombs[d] : d \in Device}
Gone == [d \in Device |-> {f \in tombs[d] : files[d][f] = "absent"}]

-----------------------------------------------------------------------------
(* What the writes of Mesh do to the variables of Copies.                  *)

LEMMA KeptClaimed ==
  ASSUME TypeOK, NEW e \in Device, NEW g \in Item, ClaimCopy(e, g)
  PROVE  Kept' = [Kept EXCEPT ![e] = @ \cup {g}]
<1>1. \A d \in Device, f \in Item :
        d \in holders'[d][f] <=> d \in holders[d][f] \/ (d = e /\ f = g)
  BY DEF TypeOK, ClaimCopy
<1>2. \A d \in Device :
        Kept'[d] = IF d = e THEN Kept[d] \cup {g} ELSE Kept[d]
  BY <1>1 DEF Kept, Holds
<1> QED
  BY <1>2 DEF Kept

LEMMA KeptDropped ==
  ASSUME TypeOK, NEW e \in Device, NEW g \in Item,
         \/ holders' = [holders EXCEPT ![e][g] = @ \ {e}]
         \/ holders' = [holders EXCEPT ![e][g] = {}]
  PROVE  Kept' = [Kept EXCEPT ![e] = @ \ {g}]
<1>1. \A d \in Device, f \in Item :
        d \in holders'[d][f] <=> d \in holders[d][f] /\ ~(d = e /\ f = g)
  BY DEF TypeOK
<1>2. \A d \in Device :
        Kept'[d] = IF d = e THEN Kept[d] \ {g} ELSE Kept[d]
  BY <1>1 DEF Kept, Holds
<1> QED
  BY <1>2 DEF Kept

\* An item goes only when it was there.
LEMMA GoneUnlessEmptied ==
  ASSUME tombs' = tombs,
         \A d \in Device : \A f \in tombs[d] :
           files'[d][f] = "absent" <=> files[d][f] = "absent"
  PROVE  Gone' = Gone /\ Dead' = Dead
BY DEF Gone, Dead

LEMMA GoneBuried ==
  ASSUME TypeOK, NEW e \in Device, NEW g \in Item,
         tombs' = [tombs EXCEPT ![e] = @ \cup {g}],
         files'[e][g] = "absent",
         \A d \in Device, f \in Item :
           <<d, f>> # <<e, g>> => files'[d][f] = files[d][f]
  PROVE  /\ Gone' = [Gone EXCEPT ![e] = @ \cup {g}]
         /\ Dead' = Dead \cup {g}
<1>1. \A d \in Device : tombs[d] \subseteq Item
  BY DEF TypeOK
<1>2. \A d \in Device : tombs'[d] = IF d = e THEN tombs[d] \cup {g} ELSE tombs[d]
  BY DEF TypeOK
<1>3. \A d \in Device :
        Gone'[d] = IF d = e THEN Gone[d] \cup {g} ELSE Gone[d]
  <2> SUFFICES ASSUME NEW d \in Device, NEW f \in Item
               PROVE  f \in tombs'[d] /\ files'[d][f] = "absent" <=>
                        \/ f \in tombs[d] /\ files[d][f] = "absent"
                        \/ d = e /\ f = g
    BY <1>1, <1>2 DEF Gone
  <2> QED
    BY <1>2
<1>4. Gone' = [Gone EXCEPT ![e] = @ \cup {g}]
  BY <1>3 DEF Gone
<1>5. Dead' = Dead \cup {g}
  BY <1>2 DEF Dead
<1> QED
  BY <1>4, <1>5

-----------------------------------------------------------------------------
(* Steps, by who takes them.                                               *)

Unmoved == UNCHANGED <<Kept, everHeld, Sent, asked, purging, Dead, Gone, ops>>

LEMMA UnmovedStutters ==
  ASSUME Unmoved PROVE UNCHANGED Promise!vars
BY DEF Unmoved, Promise!vars, Kept, Sent, Dead, Gone

\* Deleting a copy is deleting it, or nothing if it is the last.
LEMMA DropCopyPromised ==
  ASSUME TypeOK, NEW e \in Device, NEW g \in Item, DropCopy(e, g),
         files[e][g] # "absent",
         (ops \in Nat /\ ops' = ops + 1) \/ (e \in asked[g] /\ ops' = ops),
         UNCHANGED <<tombs, purging, everHeld, asked>>
  PROVE  \/ Promise!Delete(e, g)
         \/ Unmoved
         \/ ops' = ops + 1 /\ UNCHANGED <<Kept, everHeld, Sent, asked, purging, Dead, Gone>>
<1>1. CASE /\ files' = [files EXCEPT ![e][g] = "trashed"]
           /\ holders' = holders
           /\ pushes' = pushes
  <2>1. Kept' = Kept /\ Sent' = Sent
    BY <1>1 DEF Kept, Holds, Sent
  <2>2. Gone' = Gone /\ Dead' = Dead
    <3>1. \A d \in Device : \A f \in tombs[d] :
            files'[d][f] = "absent" <=> files[d][f] = "absent"
      BY <1>1 DEF TypeOK
    <3> QED
      BY <3>1, GoneUnlessEmptied
  <2> QED
    BY <2>1, <2>2 DEF Unmoved
<1>2. CASE /\ files' = files
           /\ holders' = [holders EXCEPT ![e][g] = @ \ {e}]
           /\ pushes' \subseteq pushes
  <2>1. Kept' = [Kept EXCEPT ![e] = @ \ {g}]
    BY <1>2, KeptDropped
  <2>2. Gone' = Gone /\ Dead' = Dead
    BY <1>2 DEF Gone, Dead
  <2>3. Sent' \subseteq Sent
    BY <1>2 DEF Sent
  <2> QED
    BY <2>1, <2>2, <2>3 DEF Promise!Delete, Promise!Act, Promise!Lose,
       Kept, Sent, Dead, Gone
<1> QED
  BY <1>1, <1>2, DropCopyCases

\* Purging an item destroys it.
LEMMA PurgeFilePromised ==
  ASSUME TypeOK, NEW e \in Device, NEW g \in Item, PurgeFile(e, g),
         g \in purging[e] \cup Dead,
         NEW F \in SUBSET {g}, purging' = [purging EXCEPT ![e] = @ \ F],
         UNCHANGED <<pushes, everHeld, asked, ops>>
  PROVE  Promise!Destroy(e, g)
<1>1. Kept' = [Kept EXCEPT ![e] = @ \ {g}]
  BY KeptDropped DEF PurgeFile
<1>2. /\ Gone' = [Gone EXCEPT ![e] = @ \cup {g}]
      /\ Dead' = Dead \cup {g}
  <2>1. /\ files'[e][g] = "absent"
        /\ \A d \in Device, f \in Item :
             <<d, f>> # <<e, g>> => files'[d][f] = files[d][f]
    BY DEF TypeOK, PurgeFile, SetFile
  <2> QED
    BY <2>1, GoneBuried DEF PurgeFile
<1>3. Sent' = Sent
  BY DEF Sent
<1> QED
  BY <1>1, <1>2, <1>3 DEF Promise!Destroy, Promise!Lose, Kept, Sent, Dead, Gone

Promised == Promise!Next \/ Unmoved

LEMMA UserStepPromised ==
  ASSUME TypeOK, NoPhantomHolders, UnseenInv, UserStep
  PROVE  Promised
<1> USE DEF Promised, Promise!Next, Promise!Act
<1>1. ASSUME NEW d \in Device, NEW f \in Item, Import(d, f) PROVE Promised
  <2>1. Kept' = [Kept EXCEPT ![d] = @ \cup {f}]
    BY <1>1, KeptClaimed DEF Import
  <2>2. Gone' = Gone /\ Dead' = Dead
    <3>1. \A e \in Device : f \notin tombs[e]
      BY <1>1 DEF Import, UnseenInv, Unseen
    <3>2. \A e \in Device : \A g \in tombs[e] : files'[e][g] = files[e][g]
      BY <1>1, <3>1 DEF Import, SetFile, TypeOK
    <3> QED
      BY <1>1, <3>2, GoneUnlessEmptied DEF Import
  <2>3. Sent' = Sent
    BY <1>1 DEF Import, calls, Sent
  <2>4. Promise!Create(d, f)
    BY <1>1, <2>1, <2>2, <2>3 DEF Promise!Create, Promise!Gain, Import, Budget,
       ClaimCopy, local, Kept, Sent, Dead, Gone
  <2> QED
    BY <2>4
<1>2. ASSUME NEW d \in Device, NEW f \in Item, DeleteLocal(d, f) PROVE Promised
  <2>1. \/ Promise!Delete(d, f)
        \/ Unmoved
        \/ /\ ops' = ops + 1
           /\ UNCHANGED <<Kept, everHeld, Sent, asked, purging, Dead, Gone>>
    BY <1>2, DropCopyPromised DEF DeleteLocal, Budget, TypeOK, local, history
  <2> QED
    BY <2>1 DEF Promise!Other, Kept, Sent, Dead, Gone
<1>3. ASSUME NEW d \in Device, NEW f \in Item, Restore(d, f) PROVE Promised
  <2>1. \A e \in Device : \A g \in tombs[e] :
          files'[e][g] = "absent" <=> files[e][g] = "absent"
    BY <1>3 DEF Restore, SetFile, TypeOK
  <2>2. Gone' = Gone /\ Dead' = Dead
    BY <1>3, <2>1, GoneUnlessEmptied DEF Restore
  <2>3. Kept' = Kept /\ Sent' = Sent
    BY <1>3 DEF Restore, calls, Kept, Holds, Sent
  <2>4. Promise!Other(d)
    BY <1>3, <2>2, <2>3 DEF Promise!Other, Restore, Budget, local, history,
       Kept, Sent, Dead, Gone
  <2> QED
    BY <2>4
<1>4. ASSUME NEW d \in Device, NEW F \in SUBSET Item, Budget,
             purging' = [purging EXCEPT ![d] = @ \cup F],
             UNCHANGED <<db, calls, history>>
      PROVE  Promised
  <2>1. UNCHANGED <<Kept, Sent, Dead, Gone>>
    BY <1>4 DEF db, calls, Kept, Holds, Sent, Dead, Gone
  <2>2. Promise!Condemn(d, F)
    BY <1>4, <2>1 DEF Promise!Condemn, Budget, history, Kept, Sent, Dead, Gone
  <2> QED
    BY <2>2
<1>5. ASSUME NEW d \in Device, NEW f \in Item, DeletePermanently(d, f) PROVE Promised
  <2>1. {f} \in SUBSET Item
    OBVIOUS
  <2> QED
    BY <1>4, <1>5, <2>1 DEF DeletePermanently
<1>6. ASSUME NEW d \in Device, SweepTrash(d) PROVE Promised
  <2>1. PICK F \in SUBSET Item : purging' = [purging EXCEPT ![d] = @ \cup F]
    BY <1>6 DEF SweepTrash
  <2> QED
    BY <1>4, <1>6, <2>1 DEF SweepTrash
<1>7. ASSUME NEW d \in Device, NEW t \in Device, NEW f \in Item, Share(d, t, f)
      PROVE  Promised
  <2>1. Sent' = Sent \cup {<<t, f>>}
    <3> DEFINE x == [to |-> t, item |-> f, status |-> files[d][f],
                     stage |-> "metadata"]
    <3>1. pushes' = pushes \cup {x}
      BY <1>7 DEF Share
    <3>2. x.to = t /\ x.item = f
      OBVIOUS
    <3> HIDE DEF x
    <3> QED
      BY <3>1, <3>2 DEF Sent
  <2>2. UNCHANGED <<Kept, Dead, Gone>>
    BY <1>7 DEF Share, db, Kept, Holds, Dead, Gone
  <2>3. f \in Kept[d]
    BY <1>7 DEF Share, Kept
  <2>4. Promise!Offer(d, t, f)
    BY <1>7, <2>1, <2>2, <2>3 DEF Promise!Offer, Share, Budget, local, history,
       Kept, Sent, Dead, Gone
  <2> QED
    BY <2>4
<1>8. ASSUME NEW d \in Device, NEW t \in Device, NEW f \in Item, DeleteCopy(d, t, f)
      PROVE  Promised
  <2>1. UNCHANGED <<Kept, Sent, Dead, Gone>>
    BY <1>8 DEF DeleteCopy, Kept, Holds, Sent, Dead, Gone
  <2>2. t \in everHeld[f]
    BY <1>8 DEF DeleteCopy, NoPhantomHolders
  <2>3. Promise!Ask(t, f)
    BY <1>8, <2>1, <2>2 DEF Promise!Ask, DeleteCopy, Budget, local,
       Kept, Sent, Dead, Gone
  <2> QED
    BY <2>3
<1>9. ASSUME NEW d \in Device, Restart(d) PROVE Promised
  <2>1. UNCHANGED <<Kept, Sent, Dead, Gone>>
    BY <1>9 DEF Restart, db, calls, Kept, Holds, Sent, Dead, Gone
  <2>2. Promise!Other(d)
    BY <1>9, <2>1 DEF Promise!Other, Restart, Budget, history, Kept, Sent, Dead, Gone
  <2> QED
    BY <2>2
<1> QED
  BY <1>1, <1>2, <1>3, <1>5, <1>6, <1>7, <1>8, <1>9 DEF UserStep

LEMMA CallStepPromised ==
  ASSUME TypeOK, CallStep
  PROVE  Promised
<1> USE DEF Promised, Promise!Next
<1>1. ASSUME NEW m \in pushes, PushMetadata(m) PROVE Promised
  <2>1. m \in Push /\ m.to \in Device /\ m.item \in Item
    BY DEF TypeOK, Push
  <2>2. Sent' = Sent
    <3>1. [m EXCEPT !.stage = "finalize"].to = m.to
          /\ [m EXCEPT !.stage = "finalize"].item = m.item
      BY <2>1 DEF Push
    <3> QED
      BY <1>1, <3>1 DEF PushMetadata, Sent
  <2>3. \A e \in Device : \A g \in tombs[e] : files'[e][g] = files[e][g]
    BY <1>1, <2>1 DEF PushMetadata, SetFile, Merged, TypeOK
  <2>4. Gone' = Gone /\ Dead' = Dead
    BY <1>1, <2>3, GoneUnlessEmptied DEF PushMetadata
  <2>5. Kept' = Kept
    BY <1>1 DEF PushMetadata, Kept, Holds
  <2> QED
    BY <1>1, <2>2, <2>4, <2>5 DEF Unmoved, PushMetadata, local, history
<1>2. ASSUME NEW m \in pushes, FinalizeFile(m) PROVE Promised
  <2>1. m.to \in Device /\ m.item \in Item
    BY DEF TypeOK, Push
  <2>2. Sent' \subseteq Sent /\ <<m.to, m.item>> \in Sent
    BY <1>2 DEF FinalizeFile, Sent
  <2>3. Gone' = Gone /\ Dead' = Dead
    BY <1>2 DEF FinalizeFile, Gone, Dead
  <2>4. CASE files[m.to][m.item] = "absent"
    <3>1. Kept' = Kept
      BY <1>2, <2>4 DEF FinalizeFile, Kept, Holds
    <3>2. Promise!Withdraw
      BY <1>2, <2>2, <2>3, <2>4, <3>1 DEF Promise!Withdraw, FinalizeFile, local,
         Kept, Sent, Dead, Gone
    <3> QED
      BY <3>2
  <2>5. CASE files[m.to][m.item] # "absent"
    <3>1. ClaimCopy(m.to, m.item)
      BY <1>2, <2>5 DEF FinalizeFile
    <3>2. Kept' = [Kept EXCEPT ![m.to] = @ \cup {m.item}]
      BY <2>1, <3>1, KeptClaimed
    <3>3. m.item \notin Gone[m.to]
      BY <2>1, <2>5 DEF Gone
    <3>4. Promise!Receive(m.to, m.item)
      BY <1>2, <2>2, <2>3, <3>1, <3>2, <3>3 DEF Promise!Receive, Promise!Gain,
         FinalizeFile, ClaimCopy, local, Kept, Sent, Dead, Gone
    <3> QED
      BY <2>1, <3>4
  <2> QED
    BY <2>4, <2>5
<1>3. ASSUME NEW m \in rpcs, NEW h \in Handler, RequestDelete(m, h) PROVE Promised
  BY <1>3 DEF RequestDelete, Unmoved, history, Kept, Holds, Sent, Dead, Gone
<1> QED
  BY <1>1, <1>2, <1>3 DEF CallStep

\* A tombstone that is being applied was read from a device that has it.
ToldOfDead ==
  \A d \in Device, f \in Item : sync[d].marks[f] # "none" => f \in Dead

LEMMA ToldOfDeadAlways == Spec => []ToldOfDead
<1>1. Init => ToldOfDead
  BY DEF Init, ToldOfDead, Idle
<1>2. TypeOK /\ UnseenInv /\ ToldOfDead /\ [Next]_vars => ToldOfDead'
  <2> SUFFICES ASSUME TypeOK, UnseenInv, ToldOfDead, [Next]_vars,
                      NEW d \in Device, NEW f \in Item, sync'[d].marks[f] # "none"
               PROVE  f \in Dead'
    BY DEF ToldOfDead
  <2> sync \in [Device -> SyncTask]
    BY DEF TypeOK
  <2>1. f \in Dead => f \in Dead'
    BY TombstoneStays DEF Dead
  <2>2. CASE sync'[d].marks[f] = "none" \/ sync[d].marks[f] # "none"
    BY <2>1, <2>2 DEF ToldOfDead
  <2>3. ASSUME NEW e \in Device, Restart(e) \/ MergeCatalog(e) \/ PruneRequests(e)
        PROVE  f \in Dead'
    BY <2>2, <2>3 DEF Restart, MergeCatalog, PruneRequests, Idle
  <2>4. ASSUME NEW e \in Device, StartPending(e) PROVE f \in Dead'
    BY <2>2, <2>4 DEF StartPending, SyncTask
  <2>5. ASSUME NEW e \in Device, NEW p \in Device, FetchCatalog(e, p)
        PROVE  f \in Dead'
    <3>1. d = e => f \in tombs[p]
      BY <2>5 DEF FetchCatalog
    <3> QED
      BY <2>1, <2>2, <2>5, <3>1 DEF FetchCatalog, Dead
  <2>6. ASSUME NEW e \in Device, TombstoneStep(e) PROVE f \in Dead'
    <3>1. PICK g \in Item, step \in TombStep :
            /\ Mark(e, g, step)
            /\ sync[e].marks[g] # "none"
      BY <2>6 DEF TombstoneStep, CheckTombstone, PurgeTombstoned, InsertTombstone,
         TombStep
    <3>2. sync[e].marks \in [Item -> TombStep]
      BY DEF SyncTask
    <3>3. sync'[d].marks[f] = sync[d].marks[f] \/ (d = e /\ f = g)
      BY <3>1, <3>2 DEF Mark, SyncTask
    <3> QED
      BY <2>2, <3>1, <3>3
  <2>7. UserStep => sync' = sync \/ \E e \in Device : Restart(e)
    BY DEF UserStep, Import, DeleteLocal, Restore, DeletePermanently, Share,
       DeleteCopy, SweepTrash, local
  <2>8. CallStep \/ (\E e \in Device : WorkStep(e)) => sync' = sync
    BY DEF CallStep, WorkStep, PushMetadata, FinalizeFile, RequestDelete,
       BeginRequests, CheckRequest, ApplyRequest, ClearRequest, local
  <2>9. (\E e \in Device, g \in Item : Purge(e, g)) \/ UNCHANGED vars => sync' = sync
    BY DEF Purge, vars, local
  <2>10. CASE sync' = sync
    BY <2>2, <2>10
  <2> QED
    BY <2>3, <2>4, <2>5, <2>6, <2>7, <2>8, <2>9, <2>10 DEF Next, SyncStep
<1> QED
  BY <1>1, <1>2, TypeCorrect, UnseenAlways, PTL DEF Spec

LEMMA DeviceStepPromised ==
  ASSUME TypeOK, NoOrphanRows, DeletesWereAsked, ToldOfDead, PeerIsOther,
         NEW d \in Device,
         \/ \E f \in Item : Purge(d, f)
         \/ \E p \in Device : FetchCatalog(d, p)
         \/ WorkStep(d) \/ SyncStep(d)
  PROVE  Promised
<1> USE DEF Promised, Promise!Next
<1>1. ASSUME UNCHANGED <<files, holders, tombs, purging, calls, ops, everHeld, asked>>
      PROVE  Promised
  BY <1>1 DEF Unmoved, calls, Kept, Holds, Sent, Dead, Gone
<1>2. ASSUME NEW f \in Item, Purge(d, f) PROVE Promised
  <2>1. CASE files[d][f] = "absent"
    <3>1. UNCHANGED <<Kept, Sent, Dead, Gone>>
      BY <1>2, <2>1 DEF Purge, db, calls, Kept, Holds, Sent, Dead, Gone
    <3>2. Promise!Spare(d, {f})
      BY <1>2, <3>1 DEF Promise!Spare, Purge, history, Kept, Sent, Dead, Gone
    <3>3. {f} \in SUBSET Item
      OBVIOUS
    <3> QED
      BY <3>2, <3>3
  <2>2. CASE files[d][f] # "absent"
    <3>1. {f} \in SUBSET {f}
      OBVIOUS
    <3>2. Promise!Destroy(d, f)
      BY <1>2, <2>2, <3>1, PurgeFilePromised DEF Purge, calls, history
    <3> QED
      BY <3>2
  <2> QED
    BY <2>1, <2>2
<1>3. ASSUME NEW p \in Device, FetchCatalog(d, p) PROVE Promised
  BY <1>1, <1>3 DEF FetchCatalog, db, history
<1>4. ASSUME NEW w \in Worker, NEW f \in Item, ApplyRequest(d, w, f) PROVE Promised
  <2>1. CASE files[d][f] # "absent" /\ Holds(d, f)
    <3>1. d \in asked[f]
      BY <1>4 DEF ApplyRequest, DeletesWereAsked
    <3>2. DropCopy(d, f) /\ ops' = ops
          /\ UNCHANGED <<tombs, purging, everHeld, asked>>
      BY <1>4, <2>1 DEF ApplyRequest
    <3>3. ops \in Nat
      BY DEF TypeOK
    <3> QED
      BY <2>1, <3>1, <3>2, <3>3, DropCopyPromised
  <2>2. CASE ~(files[d][f] # "absent" /\ Holds(d, f))
    BY <1>1, <1>4, <2>2 DEF ApplyRequest, calls
  <2> QED
    BY <2>1, <2>2
<1>5. ASSUME NEW w \in Worker, NEW f \in Item,
             CheckRequest(d, w, f) \/ ClearRequest(d, w, f)
      PROVE  Promised
  BY <1>1, <1>5 DEF CheckRequest, ClearRequest, db, history
<1>6. ASSUME NEW f \in Item, CheckTombstone(d, f) PROVE Promised
  BY <1>1, <1>6 DEF CheckTombstone, db, history
<1>7. ASSUME NEW f \in Item, PurgeTombstoned(d, f) PROVE Promised
  <2>1. CASE files[d][f] = "absent"
    BY <1>1, <1>7, <2>1 DEF PurgeTombstoned, db, history
  <2>2. CASE files[d][f] # "absent"
    <3>1. f \in Dead
      BY <1>7 DEF PurgeTombstoned, ToldOfDead
    <3>2. {} \in SUBSET {f} /\ purging' = [purging EXCEPT ![d] = @ \ {}]
      BY <1>7 DEF PurgeTombstoned, TypeOK
    <3>3. Promise!Destroy(d, f)
      BY <1>7, <2>2, <3>1, <3>2, PurgeFilePromised
      DEF PurgeTombstoned, calls, history
    <3> QED
      BY <3>3
  <2> QED
    BY <2>1, <2>2
<1>8. ASSUME NEW f \in Item, InsertTombstone(d, f) PROVE Promised
  <2>1. f \in Dead
    BY <1>8 DEF InsertTombstone, ToldOfDead
  <2>2. UNCHANGED <<Sent, Kept>>
    BY <1>8 DEF InsertTombstone, calls, Sent, Kept, Holds
  <2>3. CASE files[d][f] # "absent"
    <3>1. Gone' = Gone
      BY <1>8, <2>3 DEF InsertTombstone, Gone, TypeOK
    <3>2. Dead' = Dead
      BY <1>8, <2>1 DEF InsertTombstone, Dead, TypeOK
    <3> QED
      BY <1>8, <2>2, <3>1, <3>2 DEF InsertTombstone, Unmoved, history
  <2>4. CASE files[d][f] = "absent"
    <3>1. /\ Gone' = [Gone EXCEPT ![d] = @ \cup {f}]
          /\ Dead' = Dead \cup {f}
      BY <1>8, <2>4, GoneBuried DEF InsertTombstone
    <3>2. Kept' = [Kept EXCEPT ![d] = @ \ {f}]
      <4>1. f \notin Kept[d]
        BY <2>4 DEF NoOrphanRows, Kept, Holds
      <4> QED
        BY <2>2, <4>1 DEF Kept
    <3>3. {} \in SUBSET {f} /\ purging' = [purging EXCEPT ![d] = @ \ {}]
      BY <1>8 DEF InsertTombstone, TypeOK
    <3>4. Promise!Destroy(d, f)
      BY <1>8, <2>1, <2>2, <3>1, <3>2, <3>3
      DEF Promise!Destroy, Promise!Lose, InsertTombstone, history,
          Kept, Sent, Dead, Gone
    <3> QED
      BY <3>4
  <2> QED
    BY <2>3, <2>4
<1>9. CASE MergeCatalog(d)
  <2>1. sync[d].peer # d
    BY <1>9 DEF MergeCatalog, PeerIsOther
  <2>2. \A e \in Device, f \in Item : e \in holders'[e][f] <=> e \in holders[e][f]
    BY <1>9, <2>1 DEF MergeCatalog, MergedRows, PeerRow, ThirdRows, TypeOK
  <2>3. \A e \in Device : \A f \in tombs[e] : files'[e][f] = files[e][f]
    BY <1>9 DEF MergeCatalog, Merged, TypeOK
  \* Only a device's own rows count as its copies.
  <2>4. Kept' = Kept
    BY <2>2 DEF Kept, Holds
  <2>5. Gone' = Gone /\ Dead' = Dead
    BY <1>9, <2>3, GoneUnlessEmptied DEF MergeCatalog
  <2> QED
    BY <1>9, <2>4, <2>5 DEF MergeCatalog, Unmoved, calls, history, Sent
<1>10. CASE StartPending(d) \/ PruneRequests(d)
  BY <1>1, <1>10 DEF StartPending, PruneRequests, db, history
<1>11. ASSUME NEW h \in Handler, BeginRequests(d, h) PROVE Promised
  BY <1>1, <1>11 DEF BeginRequests, db, history
<1> QED
  BY <1>2, <1>3, <1>4, <1>5, <1>6, <1>7, <1>8, <1>9, <1>10, <1>11
  DEF WorkStep, SyncStep, TombstoneStep

\* Mesh implements Copies: exchanging catalogs, applying what they say, calls lost
\* or late and restarts never make, move or take away a copy of their own, nor
\* destroy what nobody condemned, nor hand back what is destroyed.
THEOREM MeshKeepsCopies == Spec => CopiesAreKept
<1>1. Init => Promise!Init
  BY DEF Init, Promise!Init, NoCatalog, Holds
<1>2. /\ TypeOK /\ NoOrphanRows /\ NoPhantomHolders /\ DeletesWereAsked
      /\ UnseenInv /\ PeerIsOther /\ ToldOfDead
      /\ [Next]_vars
      => [Promise!Next]_Promise!vars
  <2> SUFFICES ASSUME TypeOK, NoOrphanRows, NoPhantomHolders, DeletesWereAsked,
                      UnseenInv, PeerIsOther, ToldOfDead, [Next]_vars
               PROVE  Promised
    BY UnmovedStutters DEF Promised
  <2>1. CASE UNCHANGED vars
    BY <2>1 DEF vars, db, local, calls, history, Promised, Unmoved,
       Kept, Holds, Sent, Dead, Gone
  <2> QED
    BY <2>1, UserStepPromised, CallStepPromised, DeviceStepPromised DEF Next
<1> QED
  BY <1>1, <1>2, TypeCorrect, RowsHaveItems, PhantomFree, OnlyAskedDeletes,
     UnseenAlways, PeerIsOtherAlways, ToldOfDeadAlways, PTL
  DEF Spec, CopiesAreKept, Promise!Spec

=============================================================================
