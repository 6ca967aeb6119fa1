----------------------------- MODULE StoreProofs ----------------------------
(* Theorems about Store, for any items, blocks, transfers, acts and bound.   *)
EXTENDS Store, TLAPS

\* The sections of several steps hold the mutex for as long as they last.
Locked ==
  /\ idx.stage = "chunk" => lock = "index"
  /\ rem.kind # "idle" => lock = "remove"
  /\ rem.left # {} => rem.kind # "idle"

\* A job under way is about an item.
Working ==
  /\ idx.stage # "idle" => idx.item \in Item
  /\ rem.kind # "idle" => rem.item \in Item
  /\ \A t \in Transfer : xfer[t].stage # "idle" => xfer[t].item \in Item

\* Every block mapped so far by the indexing under way has been put on disk.
Filling == idx.stage = "chunk" => manifest[idx.item] \subseteq disk

\* What a removal has still to remove serves no other item.
Alone ==
  rem.kind # "idle" =>
    /\ rem.item \notin stored
    /\ \A g \in Item : g # rem.item => rem.left \cap manifest[g] = {}

StoreInv == TypeOK /\ Locked /\ Working /\ Filling /\ Alone /\ StoredIsKept

-----------------------------------------------------------------------------
(* Types.                                                                   *)

\* The records the jobs return to are records of jobs.
LEMMA IdleTyped ==
  /\ NoIndexing \in Indexing
  /\ NoRemoval \in Removal
  /\ NoTransfer \in Moving
BY DEF NoIndexing, Indexing, NoRemoval, Removal, NoTransfer, Moving, Hash, Content

\* So is what a lookup hands over.
LEMMA JobTyped ==
  ASSUME NEW g \in Item, NEW known \in Hash
  PROVE  /\ Job(g, known, TRUE) \in Indexing /\ Job(g, known, TRUE).item = g
         /\ Job(g, known, FALSE) \in Indexing /\ Job(g, known, FALSE).item = g
BY DEF Job, Indexing, NoIndexing, Hash, Content

\* The steps of Indexer::index write values of the right type.
LEMMA IndexTyped ==
  ASSUME TypeOK, Working, IndexStep
  PROVE  TypeOK' /\ Working'
<1> USE IdleTyped DEF TypeOK, Working
<1>0. CASE LookAgain
  <2>1. idx.item \in Item
    BY <1>0 DEF LookAgain
  <2>2. \E g \in Item, known \in Hash : idx' = Job(g, known, FALSE)
    <3>1. hash[idx.item] \in Hash /\ None \in Hash
      BY <2>1 DEF Hash
    <3> QED
      BY <1>0, <2>1, <3>1 DEF LookAgain
  <2>3. PICK g \in Item, known \in Hash : idx' = Job(g, known, FALSE)
    BY <2>2
  <2>4. Job(g, known, FALSE) \in Indexing /\ Job(g, known, FALSE).item = g
    BY JobTyped
  <2>5. idx' \in Indexing /\ idx'.item \in Item
    BY <2>3, <2>4
  <2> QED
    BY <1>0, <2>5 DEF LookAgain, tables
<1>1. CASE Insert
  <2> PICK c \in Content : idx' = [idx EXCEPT
         !.stage = "chunk", !.content = c, !.todo = c, !.old = Exclusive(idx.item)]
    BY <1>1 DEF Insert
  <2>1. Exclusive(idx.item) \subseteq Block
    BY <1>1 DEF Insert, Exclusive, Content
  <2>2. idx' \in Indexing /\ idx'.item = idx.item
    BY <2>1 DEF Indexing, Content
  <2>3. idx.item \in Item /\ idx.known \in Hash
    BY <1>1 DEF Insert, Indexing
  <2> QED
    BY <1>1, <2>2, <2>3 DEF Insert, Content, Hash
<1>2. ASSUME NEW b \in Block, Chunk(b) PROVE TypeOK' /\ Working'
  <2>1. idx' \in Indexing /\ idx'.item = idx.item /\ idx'.stage = idx.stage
    BY <1>2 DEF Chunk, Indexing
  <2>2. manifest' \in [Item -> Content]
    BY <1>2 DEF Chunk, Content, Indexing
  <2> QED
    BY <1>2, <2>1, <2>2 DEF Chunk
<1>3. ASSUME NEW b \in Block, Sweep(b) PROVE TypeOK' /\ Working'
  <2>1. idx' \in Indexing /\ idx'.item = idx.item /\ idx'.stage = idx.stage
    BY <1>3 DEF Sweep, Indexing
  <2> QED
    BY <1>3, <2>1 DEF Sweep
<1>4. CASE ChunkFails
  BY <1>4 DEF ChunkFails, tables, NoIndexing
<1>5. CASE EndChunking
  <2>1. idx' \in Indexing /\ (idx'.stage # "idle" => idx'.item = idx.item)
    BY <1>5 DEF EndChunking, Indexing, NoIndexing
  <2> QED
    BY <1>5, <2>1 DEF EndChunking, tables
<1>6. CASE ClaimIndexed
  <2>1. idx.item \in Item /\ idx.content \in Hash
    BY <1>6 DEF ClaimIndexed, Indexing, Hash
  <2> QED
    BY <1>6, <2>1 DEF ClaimIndexed, Claimed, NoIndexing
<1> QED
  BY <1>0, <1>1, <1>2, <1>3, <1>4, <1>5, <1>6 DEF IndexStep

\* The steps of a removal write values of the right type.
LEMMA RemovalTyped ==
  ASSUME TypeOK, Working, RemovalStep
  PROVE  TypeOK' /\ Working'
<1> USE IdleTyped DEF TypeOK, Working
<1>1. ASSUME NEW b \in Block, RemoveBytes(b) PROVE TypeOK' /\ Working'
  <2>1. rem' \in Removal /\ rem'.item = rem.item /\ rem'.kind = rem.kind
    BY <1>1 DEF RemoveBytes, Removal
  <2> QED
    BY <1>1, <2>1 DEF RemoveBytes, tables
<1>2. ASSUME NEW b \in Block, Unflag(b) PROVE TypeOK' /\ Working'
  <2>1. rem' \in Removal /\ rem'.item = rem.item /\ rem'.kind = rem.kind
    BY <1>2 DEF Unflag, Removal
  <2> QED
    BY <1>2, <2>1 DEF Unflag
<1>3. CASE EndRemoval
  <2>1. rem.item \in Item
    BY <1>3 DEF EndRemoval
  <2>2. hash' \in [Item -> Hash] /\ manifest' \in [Item -> Content]
    BY <1>3 DEF EndRemoval, Hash, Content
  <2> QED
    BY <1>3, <2>1, <2>2 DEF EndRemoval, NoRemoval
<1> QED
  BY <1>1, <1>2, <1>3 DEF RemovalStep

\* The steps of a transfer write values of the right type.
LEMMA TransferTyped ==
  ASSUME TypeOK, Working, NEW t \in Transfer, TransferStep(t)
  PROVE  TypeOK' /\ Working'
<1> USE IdleTyped DEF TypeOK, Working
<1>1. ASSUME NEW b \in Block, PutBytes(t, b) \/ FlagBytes(t, b)
      PROVE  TypeOK' /\ Working'
  <2>1. xfer' \in [Transfer -> Moving]
    BY <1>1 DEF PutBytes, FlagBytes, Moving
  <2>2. \A u \in Transfer : xfer'[u].item = xfer[u].item /\ xfer'[u].stage = xfer[u].stage
    BY <1>1 DEF PutBytes, FlagBytes, Moving
  <2> QED
    BY <1>1, <2>1, <2>2 DEF PutBytes, FlagBytes, tables
<1>2. CASE Finalize(t)
  <2>1. xfer[t].item \in Item
    BY <1>2 DEF Finalize, Complete
  <2> QED
    BY <1>2, <2>1 DEF Finalize, NoTransfer
<1>3. CASE Assemble(t)
  <2>1. xfer' \in [Transfer -> Moving]
    BY <1>3 DEF Assemble, Moving
  <2>2. \A u \in Transfer : xfer'[u].stage # "idle" => xfer'[u].item \in Item
    BY <1>3 DEF Assemble, Moving, NoTransfer, Complete
  <2> QED
    BY <1>3, <2>1, <2>2 DEF Assemble, tables
<1>4. CASE ClaimPulled(t)
  <2>1. xfer[t].item \in Item
    BY <1>4 DEF ClaimPulled
  <2> QED
    BY <1>4, <2>1 DEF ClaimPulled, NoTransfer
<1> QED
  BY <1>1, <1>2, <1>3, <1>4 DEF TransferStep

\* What people, peers and the operating system start has the right type.
LEMMA AskedTyped ==
  ASSUME TypeOK, Working, Asked
  PROVE  TypeOK' /\ Working'
<1> USE IdleTyped, StoreAssumption DEF TypeOK, Working
<1>0. ASSUME NEW k, Act(k) PROVE ops' \in Nat
  BY <1>0 DEF Act
<1>1. ASSUME NEW f \in Item, StartIndex(f) PROVE TypeOK' /\ Working'
  <2>1. idx' \in Indexing /\ idx'.item \in Item
    <3>1. CASE \E g \in Item : idx' = Job(g, None, TRUE)
      <4>1. PICK g \in Item : idx' = Job(g, None, TRUE)
        BY <3>1
      <4>2. None \in Hash
        BY DEF Hash
      <4>3. Job(g, None, TRUE) \in Indexing /\ Job(g, None, TRUE).item = g
        BY <4>2, JobTyped
      <4> QED
        BY <4>1, <4>3
    <3>2. CASE idx' = [NoIndexing EXCEPT !.stage = "look", !.item = f]
      BY <3>2 DEF NoIndexing, Indexing, Hash, Content
    <3> QED
      BY <1>1, <3>1, <3>2 DEF StartIndex
  <2> QED
    BY <1>0, <1>1, <2>1 DEF StartIndex, tables
<1>2. ASSUME NEW f \in Item, NEW k \in {"drop", "purge"}, StartRemoval(f, k)
      PROVE  TypeOK' /\ Working'
  <2>1. Exclusive(f) \subseteq Block
    BY DEF Exclusive, Content
  <2>2. rem' \in Removal /\ rem'.item \in Item
    BY <1>2, <2>1 DEF StartRemoval, Removal
  <2> QED
    BY <1>0, <1>2, <2>2 DEF StartRemoval, tables
<1>3. ASSUME NEW f \in Item, NEW c \in Content, Learn(f, c) PROVE TypeOK' /\ Working'
  BY <1>0, <1>3 DEF Learn, Hash
<1>4. ASSUME NEW f \in Item, NEW c \in Content, NEW t \in Transfer, Announce(t, f, c)
      PROVE  TypeOK' /\ Working'
  <2>1. /\ xfer' \in [Transfer -> Moving]
        /\ \A u \in Transfer : xfer'[u].stage # "idle" => xfer'[u].item \in Item
    BY <1>4 DEF Announce, Begin, Wanted, Moving, Content
  <2>2. /\ hash' \in [Item -> Hash]
        /\ manifest' \in [Item -> Content]
        /\ flag' \in [Block -> {"none", "missing", "present"}]
    BY <1>4 DEF Announce, Hash, Content
  <2> QED
    BY <1>0, <1>4, <2>1, <2>2 DEF Announce
<1>5. ASSUME NEW f \in Item, NEW t \in Transfer, StartPull(t, f)
      PROVE  TypeOK' /\ Working'
  <2>1. /\ xfer' \in [Transfer -> Moving]
        /\ \A u \in Transfer : xfer'[u].stage # "idle" => xfer'[u].item \in Item
    BY <1>5 DEF StartPull, Begin, Wanted, Moving, Content
  <2> QED
    BY <1>0, <1>5, <2>1 DEF StartPull, tables
<1>6. ASSUME NEW t \in Transfer, Abandon(t) PROVE TypeOK' /\ Working'
  <2>1. /\ xfer' \in [Transfer -> Moving]
        /\ \A u \in Transfer : xfer'[u].stage # "idle" => xfer'[u].item \in Item
    BY <1>6 DEF Abandon, Moving
  <2> QED
    BY <1>0, <1>6, <2>1 DEF Abandon, tables
<1>7. CASE Crash
  BY <1>0, <1>7 DEF Crash, tables, NoIndexing, NoRemoval, NoTransfer
<1> QED
  BY <1>1, <1>2, <1>3, <1>4, <1>5, <1>6, <1>7 DEF Asked

\* No step leaves the types.
LEMMA TypeStep ==
  ASSUME TypeOK, Working, [Next]_vars
  PROVE  TypeOK' /\ Working'
<1>1. CASE UNCHANGED vars
  BY <1>1 DEF vars, tables, TypeOK, Working
<1> QED
  BY <1>1, IndexTyped, RemovalTyped, TransferTyped, AskedTyped DEF Next

\* The initial values have the right types.
LEMMA TypeInit == Init => TypeOK /\ Working
BY IdleTyped DEF Init, TypeOK, Working, NoIndexing, NoRemoval, NoTransfer, Hash, Content

\* The tables, the block files and the jobs of Store keep their types.
THEOREM TypeCorrect == Spec => []TypeOK
<1>1. Spec => [](TypeOK /\ Working)
  BY TypeInit, TypeStep, PTL DEF Spec
<1> QED
  BY <1>1, PTL

-----------------------------------------------------------------------------
(* Bytes.                                                                   *)

\* The steps of Indexer::index lose no block that a whole item maps.
LEMMA IndexKeeps ==
  ASSUME StoreInv, IndexStep
  PROVE  Locked' /\ Filling' /\ Alone' /\ StoredIsKept'
<1> USE DEF StoreInv, Locked, Filling, Alone, StoredIsKept
<1>0. CASE LookAgain
  <2>1. idx'.stage = "insert"
    BY <1>0 DEF LookAgain, Job, NoIndexing
  <2> QED
    BY <1>0, <2>1 DEF LookAgain, tables
<1>1. CASE Insert
  <2>1. idx.item \in Item
    BY <1>1 DEF Insert, Working
  <2>2. /\ idx'.item = idx.item /\ idx'.stage = "chunk"
        /\ manifest' = [manifest EXCEPT ![idx.item] = {}]
    BY <1>1 DEF Insert, TypeOK, Indexing
  <2> QED
    BY <1>1, <2>1, <2>2 DEF Insert, TypeOK
<1>2. ASSUME NEW b \in Block, Chunk(b)
      PROVE  Locked' /\ Filling' /\ Alone' /\ StoredIsKept'
  <2>1. idx'.item = idx.item /\ idx'.stage = "chunk" /\ idx.item \in Item
    BY <1>2 DEF Chunk, TypeOK, Indexing, Working
  <2>2. \A g \in Item : manifest'[g] \subseteq manifest[g] \cup {b}
    BY <1>2 DEF Chunk, TypeOK
  <2> QED
    BY <1>2, <2>1, <2>2 DEF Chunk
<1>3. ASSUME NEW b \in Block, Sweep(b)
      PROVE  Locked' /\ Filling' /\ Alone' /\ StoredIsKept'
  <2>1. idx'.item = idx.item /\ idx'.stage = "chunk" /\ idx.item \in Item
    BY <1>3 DEF Sweep, TypeOK, Indexing, Working
  <2>2. \A g \in Item : manifest[g] \subseteq disk => manifest[g] \subseteq disk'
    BY <1>3 DEF Sweep, Referenced
  <2> QED
    BY <1>3, <2>1, <2>2 DEF Sweep, TypeOK
<1>4. CASE ChunkFails
  BY <1>4 DEF ChunkFails, tables, NoIndexing
<1>5. CASE EndChunking
  BY <1>5 DEF EndChunking, tables, NoIndexing, TypeOK, Indexing
<1>6. CASE ClaimIndexed
  BY <1>6 DEF ClaimIndexed, NoIndexing
<1> QED
  BY <1>0, <1>1, <1>2, <1>3, <1>4, <1>5, <1>6 DEF IndexStep

\* Nor do those of a removal: what it removes was exclusive to its item when it
\* began, and the mutex keeps it so.
LEMMA RemovalKeeps ==
  ASSUME StoreInv, RemovalStep
  PROVE  Locked' /\ Filling' /\ Alone' /\ StoredIsKept'
<1> USE DEF StoreInv, Locked, Filling, Alone, StoredIsKept
<1>1. ASSUME NEW b \in Block, RemoveBytes(b)
      PROVE  Locked' /\ Filling' /\ Alone' /\ StoredIsKept'
  <2>1. /\ rem'.item = rem.item /\ rem'.kind = rem.kind
        /\ rem'.left \subseteq rem.left
    BY <1>1 DEF RemoveBytes, TypeOK, Removal
  <2>2. rem.kind # "idle" /\ lock = "remove" /\ idx.stage # "chunk"
    BY <1>1 DEF RemoveBytes
  <2>3. \A g \in stored : b \notin manifest[g]
    BY <1>1, <2>2 DEF RemoveBytes, TypeOK
  <2> QED
    BY <1>1, <2>1, <2>2, <2>3 DEF RemoveBytes, tables
<1>2. ASSUME NEW b \in Block, Unflag(b)
      PROVE  Locked' /\ Filling' /\ Alone' /\ StoredIsKept'
  <2>1. rem'.item = rem.item /\ rem'.kind = rem.kind /\ rem'.left = rem.left
    BY <1>2 DEF Unflag, TypeOK, Removal
  <2> QED
    BY <1>2, <2>1 DEF Unflag
<1>3. CASE EndRemoval
  <2>1. lock = "remove" /\ idx.stage # "chunk" /\ rem'.kind = "idle" /\ rem'.left = {}
    BY <1>3 DEF EndRemoval, NoRemoval
  <2>2. \A g \in Item : manifest'[g] \subseteq manifest[g]
    BY <1>3 DEF EndRemoval, TypeOK
  <2> QED
    BY <1>3, <2>1, <2>2 DEF EndRemoval, TypeOK
<1> QED
  BY <1>1, <1>2, <1>3 DEF RemovalStep

\* Transfers only add block files, and count an item as whole when it is.
LEMMA TransferKeeps ==
  ASSUME StoreInv, NEW t \in Transfer, TransferStep(t)
  PROVE  Locked' /\ Filling' /\ Alone' /\ StoredIsKept'
<1> USE DEF StoreInv, Locked, Filling, Alone, StoredIsKept
<1>1. ASSUME NEW b \in Block, PutBytes(t, b) \/ FlagBytes(t, b)
      PROVE  Locked' /\ Filling' /\ Alone' /\ StoredIsKept'
  BY <1>1 DEF PutBytes, FlagBytes, tables
<1>2. CASE Finalize(t)
  BY <1>2 DEF Finalize
<1>3. CASE Assemble(t)
  BY <1>3 DEF Assemble, tables
<1>4. CASE ClaimPulled(t)
  BY <1>4 DEF ClaimPulled
<1> QED
  BY <1>1, <1>2, <1>3, <1>4 DEF TransferStep

\* What is started from outside changes a manifest only of an item that stops
\* counting as whole, and a removal starts from what is exclusive.
LEMMA AskedKeeps ==
  ASSUME StoreInv, Asked
  PROVE  Locked' /\ Filling' /\ Alone' /\ StoredIsKept'
<1> USE DEF StoreInv, Locked, Filling, Alone, StoredIsKept
<1>1. ASSUME NEW f \in Item, StartIndex(f)
      PROVE  Locked' /\ Filling' /\ Alone' /\ StoredIsKept'
  <2>1. idx'.stage \in {"look", "insert"}
    BY <1>1 DEF StartIndex, Job, NoIndexing
  <2> QED
    BY <1>1, <2>1 DEF StartIndex, tables
<1>2. ASSUME NEW f \in Item, NEW k \in {"drop", "purge"}, StartRemoval(f, k)
      PROVE  Locked' /\ Filling' /\ Alone' /\ StoredIsKept'
  <2>1. /\ rem'.item = f /\ rem'.kind = k /\ rem'.left = Exclusive(f)
        /\ lock' = "remove" /\ idx' = idx /\ idx.stage # "chunk"
        /\ manifest' = manifest /\ disk' = disk /\ stored' = stored \ {f}
    BY <1>2 DEF StartRemoval, tables
  <2>2. \A g \in Item : g # f => Exclusive(f) \cap manifest[g] = {}
    BY DEF Exclusive
  <2> QED
    BY <2>1, <2>2
<1>3. ASSUME NEW f \in Item, NEW c \in Content, Learn(f, c)
      PROVE  Locked' /\ Filling' /\ Alone' /\ StoredIsKept'
  BY <1>3 DEF Learn
<1>4. ASSUME NEW f \in Item, NEW c \in Content, NEW t \in Transfer, Announce(t, f, c)
      PROVE  Locked' /\ Filling' /\ Alone' /\ StoredIsKept'
  <2>1. \A g \in Item : g # f => manifest'[g] = manifest[g]
    BY <1>4 DEF Announce, TypeOK
  <2>2. lock = "free" /\ UNCHANGED <<lock, idx, rem, disk>> /\ stored' = stored \ {f}
    BY <1>4 DEF Announce
  <2> QED
    BY <2>1, <2>2 DEF TypeOK
<1>5. ASSUME NEW f \in Item, NEW t \in Transfer, StartPull(t, f)
      PROVE  Locked' /\ Filling' /\ Alone' /\ StoredIsKept'
  BY <1>5 DEF StartPull, tables
<1>6. ASSUME NEW t \in Transfer, Abandon(t)
      PROVE  Locked' /\ Filling' /\ Alone' /\ StoredIsKept'
  BY <1>6 DEF Abandon, tables
<1>7. CASE Crash
  BY <1>7 DEF Crash, tables, NoIndexing, NoRemoval
<1> QED
  BY <1>1, <1>2, <1>3, <1>4, <1>5, <1>6, <1>7 DEF Asked

\* The inductive invariant.
LEMMA StoreInvAlways == Spec => []StoreInv
<1>1. Init => StoreInv
  BY TypeInit DEF Init, StoreInv, Locked, Filling, Alone, StoredIsKept, NoIndexing,
     NoRemoval
<1>2. StoreInv /\ [Next]_vars => StoreInv'
  <2> SUFFICES ASSUME StoreInv, [Next]_vars PROVE StoreInv'
    OBVIOUS
  <2>1. TypeOK' /\ Working'
    BY TypeStep DEF StoreInv
  <2>2. CASE UNCHANGED vars
    BY <2>2 DEF vars, tables, StoreInv, TypeOK, Locked, Working, Filling, Alone,
       StoredIsKept
  <2>3. CASE Next
    BY <2>1, <2>3, IndexKeeps, RemovalKeeps, TransferKeeps, AskedKeeps
    DEF Next, StoreInv
  <2> QED
    BY <2>2, <2>3
<1> QED
  BY <1>1, <1>2, PTL DEF Spec

\* Deleting, destroying, editing and receiving other items takes no block away from
\* an item that is here whole, and neither does a crash at any point.
THEOREM StoredIsSafe == Spec => []StoredIsKept
<1>1. StoreInv => StoredIsKept
  BY DEF StoreInv
<1> QED
  BY <1>1, StoreInvAlways, PTL

=============================================================================
