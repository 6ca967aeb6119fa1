---------------------------- MODULE NamesProofs ----------------------------
(***************************************************************************)
(* Theorems about Names, for any devices, documents and number of items.   *)
(***************************************************************************)
EXTENDS Names, FiniteSetTheorems, SequenceTheorems, TLAPS

(* The search for a free name, and the table as a list.                    *)

\* A set of natural numbers has a least member.
LEMMA LeastExists ==
  ASSUME NEW S, S \subseteq Nat, S # {}
  PROVE  \E x \in S : \A y \in S : x <= y
<1>1. PICK x \in S : \A y \in S : ~ (<<y, x>> \in OpToRel(<, Nat))
  BY NatLessThanWellFounded, WFMin
<1>2. ASSUME NEW y \in S PROVE x <= y
  <2>1. x \in Nat /\ y \in Nat
    OBVIOUS
  <2>2. ~ (y < x)
    BY <1>1, <2>1 DEF OpToRel
  <2> QED
    BY <2>1, <2>2
<1> QED
  BY <1>2

\* Of as many numbered variants of a taken name as there are names taken, one at
\* least is free (next_available_path).
LEMMA VariantIsFree ==
  ASSUME NEW n \in Name, NEW taken, IsFiniteSet(taken), n \in taken
  PROVE  \E k \in 1 .. Cardinality(taken) : Suffixed(n, k) \notin taken
<1> DEFINE c == Cardinality(taken)
           variant == [k \in 1 .. c |-> Suffixed(n, k)]
<1>1. c \in Nat
  BY FS_CardinalityType
<1> SUFFICES ASSUME \A k \in 1 .. c : Suffixed(n, k) \in taken PROVE FALSE
  OBVIOUS
<1>2. ASSUME NEW k \in 1 .. c
      PROVE  /\ Suffixed(n, k) # n
             /\ Suffixed(n, k)[Len(n) + 1] = k
  <2>1. n \in Seq(Nat) /\ k \in Nat
    BY <1>1 DEF Name
  <2> QED
    BY <2>1, AppendProperties DEF Suffixed
<1>3. variant \in Injection(1 .. c, taken \ {n})
  <2>1. variant \in [1 .. c -> taken \ {n}]
    BY <1>2
  <2>2. ASSUME NEW j \in 1 .. c, NEW k \in 1 .. c, variant[j] = variant[k] PROVE j = k
    BY <1>2, <2>2
  <2> QED
    BY <2>1, <2>2 DEF Injection, IsInjective
<1>4. IsFiniteSet(taken \ {n}) /\ Cardinality(taken \ {n}) = c - 1
  BY FS_RemoveElement
<1>5. Cardinality(1 .. c) = c
  BY <1>1, FS_Interval
<1> HIDE DEF c, variant
<1>6. Cardinality(1 .. c) <= Cardinality(taken \ {n})
  BY <1>3, <1>4, FS_Injection
<1> QED
  BY <1>1, <1>4, <1>5, <1>6

\* next_available_path returns a name, and one that is free.
LEMMA NextIsAvailable ==
  ASSUME NEW n \in Name, NEW taken, IsFiniteSet(taken)
  PROVE  NextAvailable(n, taken) \in Name /\ NextAvailable(n, taken) \notin taken
<1>1. CASE n \notin taken
  BY <1>1 DEF NextAvailable
<1>2. CASE n \in taken
  <2> DEFINE c == Cardinality(taken)
             Free(k) == Suffixed(n, k) \notin taken
             First(k) == Free(k) /\ \A j \in 1 .. k - 1 : ~ Free(j)
  <2>1. c \in Nat
    BY FS_CardinalityType
  <2> DEFINE S == {k \in 1 .. c : Free(k)}
  <2>2. S # {} /\ S \subseteq Nat
    BY <1>2, <2>1, VariantIsFree
  <2> HIDE DEF S
  <2>3. PICK x \in S : \A y \in S : x <= y
    BY <2>2, LeastExists
  <2> USE DEF S
  <2>4. First(x)
    BY <2>1, <2>3
  <2> DEFINE k == CHOOSE k \in 1 .. c : First(k)
  <2>5. k \in 1 .. c /\ First(k)
    BY <2>3, <2>4
  <2>6. NextAvailable(n, taken) = Suffixed(n, k)
    BY <1>2 DEF NextAvailable
  <2> HIDE DEF k
  <2>7. Suffixed(n, k) \in Name
    BY <2>1, <2>5, AppendProperties DEF Suffixed, Name
  <2> QED
    BY <2>5, <2>6, <2>7
<1> QED
  BY <1>1, <1>2

\* The rows of a table: a list of items, none of them twice.
Rows == {s \in Seq(Item) : IsInjective(s)}

\* Taking a row away leaves the others, each once.
LEMMA RowRemoved ==
  ASSUME NEW s \in Rows, NEW f
  PROVE  RemoveFirst(s, f) \in Rows /\ ToSet(RemoveFirst(s, f)) = ToSet(s) \ {f}
<1>1. s \in Seq(Item) /\ IsInjective(s) /\ Len(s) \in Nat /\ DOMAIN s = 1 .. Len(s)
  BY DEF Rows
<1>2. CASE ~ \E i \in 1 .. Len(s) : s[i] = f
  BY <1>1, <1>2 DEF RemoveFirst, ToSet
<1>3. CASE \E i \in 1 .. Len(s) : s[i] = f
  <2> DEFINE I == {i \in 1 .. Len(s) : s[i] = f}
             p == Min(I)
  <2>1. p \in I
    <3>1. I # {} /\ I \subseteq Nat
      BY <1>1, <1>3
    <3> HIDE DEF I
    <3>2. \E x \in I : \A y \in I : x <= y
      BY <3>1, LeastExists
    <3> QED
      BY <3>2 DEF Min
  <2>2. RemoveFirst(s, f) = SubSeq(s, 1, p - 1) \o SubSeq(s, p + 1, Len(s))
    BY <1>3, <2>1 DEF RemoveFirst, RemoveAt, SelectInSeq
  <2>3. p \in 1 .. Len(s) /\ s[p] = f
    BY <2>1
  <2> HIDE DEF p
  <2> DEFINE front == SubSeq(s, 1, p - 1)
             back == SubSeq(s, p + 1, Len(s))
             r == front \o back
  <2>4. /\ front \in Seq(Item) /\ Len(front) = p - 1
        /\ \A i \in 1 .. p - 1 : front[i] = s[i]
    <3>1. \A i \in 1 .. p - 1 : s[i] \in Item
      BY <1>1, <2>3
    <3>2. /\ front \in Seq(Item)
          /\ Len(front) = IF 1 <= p - 1 THEN p - 1 - 1 + 1 ELSE 0
          /\ \A i \in 1 .. p - 1 - 1 + 1 : front[i] = s[1 + i - 1]
      BY <2>3, <3>1, SubSeqProperties
    <3> HIDE DEF front
    <3> QED
      BY <1>1, <2>3, <3>2
  <2>5. /\ back \in Seq(Item) /\ Len(back) = Len(s) - p
        /\ \A i \in 1 .. Len(s) - p : back[i] = s[p + i]
    <3>1. \A i \in p + 1 .. Len(s) : s[i] \in Item
      BY <1>1, <2>3
    <3>2. /\ back \in Seq(Item)
          /\ Len(back) = IF p + 1 <= Len(s) THEN Len(s) - (p + 1) + 1 ELSE 0
          /\ \A i \in 1 .. Len(s) - (p + 1) + 1 : back[i] = s[p + 1 + i - 1]
      BY <1>1, <2>3, <3>1, SubSeqProperties
    <3> HIDE DEF back
    <3>3. \A i \in 1 .. Len(s) - p :
            i \in 1 .. Len(s) - (p + 1) + 1 /\ p + 1 + i - 1 = p + i
      BY <1>1, <2>3
    <3>4. Len(back) = Len(s) - p
      <4>1. Len(s) \in Nat /\ p \in 1 .. Len(s)
        BY <1>1, <2>3
      <4>2. CASE p + 1 <= Len(s)
        <5>1. Len(back) = Len(s) - (p + 1) + 1
          BY <3>2, <4>2
        <5> QED
          BY <4>1, <5>1
      <4>3. CASE ~ (p + 1 <= Len(s))
        <5>1. Len(back) = 0
          BY <3>2, <4>3
        <5> QED
          BY <4>1, <4>3, <5>1
      <4> QED
        BY <4>2, <4>3
    <3> QED
      BY <3>2, <3>3, <3>4
  <2>6. /\ r \in Seq(Item) /\ Len(r) = Len(s) - 1
        /\ \A i \in 1 .. Len(s) - 1 : r[i] = IF i < p THEN s[i] ELSE s[i + 1]
    <3> HIDE DEF front, back
    <3>1. /\ r \in Seq(Item) /\ Len(r) = Len(front) + Len(back)
          /\ \A i \in 1 .. Len(front) + Len(back) :
               r[i] = IF i <= Len(front) THEN front[i] ELSE back[i - Len(front)]
      BY <2>4, <2>5, ConcatProperties DEF front, back
    <3> HIDE DEF r
    <3>2. Len(r) = Len(s) - 1
      BY <1>1, <2>3, <2>4, <2>5, <3>1
    <3>3. ASSUME NEW i \in 1 .. Len(s) - 1 PROVE r[i] = IF i < p THEN s[i] ELSE s[i + 1]
      <4>1. i \in 1 .. Len(front) + Len(back) /\ (i <= Len(front) <=> i < p)
        BY <1>1, <2>3, <2>4, <2>5
      <4>2. CASE i < p
        BY <1>1, <2>3, <2>4, <3>1, <4>1, <4>2
      <4>3. CASE ~ (i < p)
        <5>1. i - Len(front) \in 1 .. Len(s) - p /\ p + (i - Len(front)) = i + 1
          BY <1>1, <2>3, <2>4, <4>3
        <5> QED
          BY <2>5, <3>1, <4>1, <4>3, <5>1
      <4> QED
        BY <4>2, <4>3
    <3> QED
      BY <3>1, <3>2, <3>3
  <2> HIDE DEF r
  <2>7. DOMAIN r = 1 .. Len(s) - 1
    BY <2>6
  <2>8. IsInjective(r)
    <3> SUFFICES ASSUME NEW a \in 1 .. Len(s) - 1, NEW b \in 1 .. Len(s) - 1, r[a] = r[b]
                 PROVE  a = b
      BY <2>7 DEF IsInjective
    <3> DEFINE Old(i) == IF i < p THEN i ELSE i + 1
    <3>1. Old(a) \in 1 .. Len(s) /\ Old(b) \in 1 .. Len(s)
      BY <1>1, <2>3
    <3>2. s[Old(a)] = s[Old(b)]
      BY <2>6
    <3>3. Old(a) = Old(b)
      BY <1>1, <3>1, <3>2 DEF IsInjective
    <3> QED
      BY <1>1, <2>3, <3>3
  <2>9. ASSUME NEW g \in ToSet(s) \ {f} PROVE g \in ToSet(r)
    <3>1. PICK i \in 1 .. Len(s) : s[i] = g
      BY <1>1 DEF ToSet
    <3>2. i # p
      BY <2>3, <3>1
    <3>3. CASE i < p
      BY <1>1, <2>3, <2>6, <2>7, <3>1, <3>3 DEF ToSet
    <3>4. CASE i > p
      <4>1. i - 1 \in 1 .. Len(s) - 1 /\ r[i - 1] = g
        BY <1>1, <2>3, <2>6, <3>1, <3>4
      <4> QED
        BY <2>7, <4>1 DEF ToSet
    <3> QED
      BY <1>1, <2>3, <3>2, <3>3, <3>4
  <2>10. ASSUME NEW i \in 1 .. Len(s) - 1 PROVE r[i] \in ToSet(s) \ {f}
    BY <1>1, <2>3, <2>6 DEF IsInjective, ToSet
  <2>11. ToSet(r) = ToSet(s) \ {f}
    BY <2>7, <2>9, <2>10 DEF ToSet
  <2> QED
    BY <2>2, <2>6, <2>8, <2>11 DEF Rows, r, front, back
<1> QED
  BY <1>2, <1>3

\* A row that was not there can be put at the end.
LEMMA RowAppended ==
  ASSUME NEW s \in Rows, NEW f \in Item, f \notin ToSet(s)
  PROVE  Append(s, f) \in Rows /\ ToSet(Append(s, f)) = ToSet(s) \cup {f}
<1> DEFINE r == Append(s, f)
<1>1. s \in Seq(Item) /\ IsInjective(s) /\ Len(s) \in Nat /\ DOMAIN s = 1 .. Len(s)
  BY DEF Rows
<1>2. /\ r \in Seq(Item) /\ Len(r) = Len(s) + 1
      /\ \A i \in 1 .. Len(s) : r[i] = s[i]
      /\ r[Len(s) + 1] = f
  BY <1>1, AppendProperties
<1> HIDE DEF r
<1>3. DOMAIN r = 1 .. Len(s) + 1
  BY <1>2
<1>4. IsInjective(r)
  BY <1>1, <1>2, <1>3 DEF IsInjective, ToSet
<1>5. ToSet(r) = ToSet(s) \cup {f}
  <2>1. ToSet(r) \subseteq ToSet(s) \cup {f}
    BY <1>1, <1>2, <1>3 DEF ToSet
  <2>2. f \in ToSet(r)
    BY <1>1, <1>2, <1>3 DEF ToSet
  <2>3. ToSet(s) \subseteq ToSet(r)
    BY <1>1, <1>2, <1>3 DEF ToSet
  <2> QED
    BY <2>1, <2>2, <2>3
<1> QED
  BY <1>2, <1>4, <1>5 DEF Rows, r

\* INSERT OR REPLACE and the upsert leave the rows and the one that is written.
LEMMA RowReinserted ==
  ASSUME NEW s \in Rows, NEW f \in Item
  PROVE  Reinserted(s, f) \in Rows /\ ToSet(Reinserted(s, f)) = ToSet(s) \cup {f}
<1>1. PICK r \in Rows : r = RemoveFirst(s, f) /\ ToSet(r) = ToSet(s) \ {f}
  BY RowRemoved
<1>2. Append(r, f) \in Rows /\ ToSet(Append(r, f)) = ToSet(r) \cup {f}
  BY <1>1, RowAppended
<1> QED
  BY <1>1, <1>2 DEF Reinserted

LEMMA RowUpserted ==
  ASSUME NEW s \in Rows, NEW f \in Item
  PROVE  Upserted(s, f) \in Rows /\ ToSet(Upserted(s, f)) = ToSet(s) \cup {f}
BY RowAppended DEF Upserted

-----------------------------------------------------------------------------
(* The table files.                                                        *)

Listed(d) == {f \in Item : state[d][f] # "absent"}

Table ==
  /\ state \in [Device -> [Item -> {"absent", "live", "trashed"}]]
  /\ name \in [Device -> [Item -> Name]]
  /\ order \in [Device -> Rows]
  /\ \A d \in Device : ToSet(order[d]) = Listed(d)

\* get_file_by_path finds a live item of that name if there is one.
LEMMA OwnerIsLive ==
  ASSUME NEW d \in Device, NEW n
  PROVE  /\ OwnerOf(d, n) \in Item \cup {None}
         /\ OwnerOf(d, n) = None => n \notin LiveNames(d)
         /\ OwnerOf(d, n) # None =>
              /\ state[d][OwnerOf(d, n)] = "live" /\ name[d][OwnerOf(d, n)] = n
              /\ n \in LiveNames(d)
<1>1. None \notin Item
  BY NamesAssumption
<1>2. CASE n \in LiveNames(d)
  <2>1. \E f \in Item : state[d][f] = "live" /\ name[d][f] = n
    BY <1>2 DEF LiveNames
  <2>2. OwnerOf(d, n) = CHOOSE f \in Item : state[d][f] = "live" /\ name[d][f] = n
    BY <1>2 DEF OwnerOf
  <2>3. /\ OwnerOf(d, n) \in Item
        /\ state[d][OwnerOf(d, n)] = "live" /\ name[d][OwnerOf(d, n)] = n
    BY <2>1, <2>2
  <2> QED
    BY <1>1, <1>2, <2>3
<1>3. CASE n \notin LiveNames(d)
  BY <1>3 DEF OwnerOf
<1> QED
  BY <1>2, <1>3

\* The names a free one is looked for among are finitely many.
LEMMA LiveNamesFinite ==
  ASSUME Table, NEW d \in Device
  PROVE  IsFiniteSet(LiveNames(d)) /\ LiveNames(d) \subseteq Name
<1> DEFINE L == {g \in Item : state[d][g] = "live"}
           called == [g \in L |-> name[d][g]]
<1>1. IsFiniteSet(Item)
  BY NamesAssumption, FS_Interval DEF Item
<1>2. IsFiniteSet(L)
  BY <1>1, FS_Subset
<1>3. LiveNames(d) = {name[d][g] : g \in L}
  BY DEF LiveNames
<1>4. called \in Surjection(L, LiveNames(d))
  BY <1>3 DEF Surjection
<1> HIDE DEF L, called
<1>5. IsFiniteSet(LiveNames(d))
  BY <1>2, <1>4, FS_Surjection
<1> QED
  BY <1>3, <1>5 DEF Table, L

\* What a write to the table leaves: every item listed, but for one perhaps.
Lists(d, f, gone) ==
  \A e \in Device, g \in Item :
    state[e][g] # "absent" => state'[e][g] # "absent" \/ (e = d /\ g = gone /\ g # f)

\* insert_file, with what REPLACE takes away.
LEMMA InsertIsSafe ==
  ASSUME Table, NamesAreUnique, NEW d \in Device, NEW f \in Item, NEW n \in Name,
         InsertFile(d, f, n)
  PROVE  /\ Table' /\ NamesAreUnique'
         /\ state'[d][f] = "live" /\ Lists(d, f, InTheWay(d, f, n))
<1>1. PICK gone \in Item \cup {None} : gone = InTheWay(d, f, n)
  BY OwnerIsLive DEF InTheWay
<1>2. gone # f
  BY <1>1, NamesAssumption, OwnerIsLive DEF InTheWay
<1>3. \A g \in Item \ {f} : state[d][g] = "live" /\ name[d][g] = n => g = gone
  <2> SUFFICES ASSUME NEW g \in Item \ {f}, state[d][g] = "live", name[d][g] = n
               PROVE  g = gone
    OBVIOUS
  <2>1. n \in LiveNames(d)
    BY DEF LiveNames
  <2>2. OwnerOf(d, n) # None
    BY <2>1, OwnerIsLive
  <2>3. OwnerOf(d, n) \in Item /\ state[d][OwnerOf(d, n)] = "live"
        /\ name[d][OwnerOf(d, n)] = n
    BY <2>2, OwnerIsLive
  <2>4. OwnerOf(d, n) = g
    BY <2>3 DEF NamesAreUnique
  <2> QED
    BY <1>1, <2>4 DEF InTheWay
<1>4. /\ state' = [state EXCEPT ![d] = [g \in Item |->
            IF g = f THEN "live" ELSE IF g = gone THEN "absent" ELSE state[d][g]]]
      /\ name' = [name EXCEPT ![d] = [g \in Item |->
            IF g = f THEN n ELSE IF g = gone THEN <<>> ELSE name[d][g]]]
      /\ order' = [order EXCEPT ![d] = Reinserted(RemoveFirst(order[d], gone), f)]
  BY <1>1 DEF InsertFile
<1>5. /\ state' \in [Device -> [Item -> {"absent", "live", "trashed"}]]
      /\ \A e \in Device \ {d} : state'[e] = state[e]
      /\ \A g \in Item : state'[d][g] =
            IF g = f THEN "live" ELSE IF g = gone THEN "absent" ELSE state[d][g]
  BY <1>4 DEF Table
<1>6. /\ name' \in [Device -> [Item -> Name]]
      /\ \A e \in Device \ {d} : name'[e] = name[e]
      /\ \A g \in Item : name'[d][g] =
            IF g = f THEN n ELSE IF g = gone THEN <<>> ELSE name[d][g]
  <2>1. <<>> \in Name
    BY DEF Name
  <2> QED
    BY <1>4, <2>1 DEF Table
<1>7. PICK s \in Rows : s = RemoveFirst(order[d], gone) /\ ToSet(s) = ToSet(order[d]) \ {gone}
  BY RowRemoved DEF Table
<1>8. Reinserted(s, f) \in Rows /\ ToSet(Reinserted(s, f)) = ToSet(s) \cup {f}
  BY RowReinserted
<1>9. /\ order' \in [Device -> Rows]
      /\ order'[d] = Reinserted(s, f)
      /\ \A e \in Device \ {d} : order'[e] = order[e]
  BY <1>4, <1>7, <1>8 DEF Table
<1>10. ASSUME NEW e \in Device PROVE ToSet(order'[e]) = Listed(e)'
  <2>1. CASE e = d
    <3>1. ToSet(order'[d]) = (Listed(d) \ {gone}) \cup {f}
      BY <1>7, <1>8, <1>9 DEF Table
    <3>2. {g \in Item : state'[d][g] # "absent"} = (Listed(d) \ {gone}) \cup {f}
      BY <1>2, <1>5 DEF Listed
    <3> QED
      BY <2>1, <3>1, <3>2 DEF Listed
  <2>2. CASE e # d
    BY <1>5, <1>9, <2>2 DEF Table, Listed
  <2> QED
    BY <2>1, <2>2
<1>11. Table'
  BY <1>5, <1>6, <1>9, <1>10 DEF Table
<1>12. NamesAreUnique'
  <2> SUFFICES ASSUME NEW e \in Device, NEW a \in Item, NEW b \in Item, a # b,
                      state'[e][a] = "live", state'[e][b] = "live"
               PROVE  name'[e][a] # name'[e][b]
    BY DEF NamesAreUnique
  <2>1. CASE e # d
    BY <1>5, <1>6, <2>1 DEF NamesAreUnique
  <2>2. CASE e = d
    BY <1>3, <1>5, <1>6, <2>2 DEF NamesAreUnique
  <2> QED
    BY <2>1, <2>2
<1>13. state'[d][f] = "live" /\ Lists(d, f, gone)
  BY <1>5 DEF Lists
<1> QED
  BY <1>1, <1>11, <1>12, <1>13

-----------------------------------------------------------------------------
(* Merging one item of a catalog.                                          *)

\* What merge_catalog_file decides, in cases.
LEMMA OutcomeCases ==
  ASSUME Table, NEW d \in Device, NEW e \in Entry
  PROVE  \/ ~ Clash(d, e) /\ Outcome(d, e) = Applied
         \/ /\ Clash(d, e) /\ Yields(d, e)
            /\ Outcome(d, e).moved = e.item /\ Outcome(d, e).from = e.name
            /\ Outcome(d, e).to = PlacedAt(d, e)
            /\ Outcome(d, e).other = OwnerOf(d, e.name)
         \/ /\ Clash(d, e) /\ ~ Yields(d, e)
            /\ Outcome(d, e).moved = OwnerOf(d, e.name) /\ Outcome(d, e).from = e.name
            /\ Outcome(d, e).to = NextAvailable(e.name, LiveNames(d))
            /\ Outcome(d, e).other = e.item
<1>1. CASE ~ Clash(d, e)
  BY <1>1 DEF Outcome, Yields
<1>2. CASE Clash(d, e) /\ Yields(d, e)
  BY <1>2 DEF Outcome
<1>3. CASE Clash(d, e) /\ ~ Yields(d, e)
  BY <1>3 DEF Outcome
<1> QED
  BY <1>1, <1>2, <1>3

\* The name an item is placed at is its own or free.
LEMMA PlaceIsFree ==
  ASSUME Table, NEW d \in Device, NEW e \in Entry
  PROVE  /\ PlacedAt(d, e) \in Name
         /\ NextAvailable(e.name, LiveNames(d)) \in Name \ LiveNames(d)
         /\ \/ state[d][e.item] = "live" /\ PlacedAt(d, e) = name[d][e.item]
            \/ PlacedAt(d, e) \notin LiveNames(d)
<1>1. e.name \in Name /\ e.item \in Item
  BY DEF Entry
<1>2. NextAvailable(e.name, LiveNames(d)) \in Name \ LiveNames(d)
  BY <1>1, LiveNamesFinite, NextIsAvailable
<1> QED
  BY <1>1, <1>2 DEF PlacedAt, Table

\* Whatever it decides, one item gets a name and at most one other is moved, each
\* to a name that no third one has.
LEMMA MergeIsUpsert ==
  ASSUME Table, NamesAreUnique, NEW d \in Device, NEW e \in Entry, MergeFile(d, e)
  PROVE  \E n \in Name, g \in Item \cup {None}, m \in Name :
           /\ Upsert(d, e, n, g, m)
           /\ g # e.item
           /\ e.state = "live" => \A h \in Item \ {e.item, g} :
                                    state[d][h] = "live" => name[d][h] # n
           /\ g # None => m # n /\ m \notin LiveNames(d)
<1> DEFINE o == Outcome(d, e)
           owner == OwnerOf(d, e.name)
<1>1. e.name \in Name /\ e.item \in Item /\ <<>> \in Name
  BY DEF Entry, Name
<1>2. None \notin Item
  BY NamesAssumption
<1>3. CASE ~ Clash(d, e)
  <2>1. Upsert(d, e, e.name, None, <<>>)
    BY <1>1, <1>2, <1>3, OutcomeCases DEF MergeFile, Applied
  <2>2. ASSUME e.state = "live", NEW h \in Item \ {e.item}, state[d][h] = "live"
        PROVE  name[d][h] # e.name
    <3>1. CASE owner = None
      BY <2>2, <3>1, OwnerIsLive DEF LiveNames
    <3>2. CASE owner = e.item
      <4>1. state[d][e.item] = "live" /\ name[d][e.item] = e.name
        BY <1>1, <1>2, <3>2, OwnerIsLive
      <4> QED
        BY <1>1, <2>2, <4>1 DEF NamesAreUnique
    <3> QED
      BY <1>3, <2>2, <3>1, <3>2 DEF Clash
  <2> QED
    BY <1>1, <1>2, <2>1, <2>2
<1>4. CASE Clash(d, e) /\ Yields(d, e)
  <2>1. Upsert(d, e, PlacedAt(d, e), None, <<>>)
    BY <1>4, OutcomeCases DEF MergeFile
  <2>2. ASSUME NEW h \in Item \ {e.item}, state[d][h] = "live"
        PROVE  name[d][h] # PlacedAt(d, e)
    <3>1. CASE PlacedAt(d, e) \notin LiveNames(d)
      BY <2>2, <3>1 DEF LiveNames
    <3>2. CASE state[d][e.item] = "live" /\ PlacedAt(d, e) = name[d][e.item]
      BY <1>1, <2>2, <3>2 DEF NamesAreUnique
    <3> QED
      BY <3>1, <3>2, PlaceIsFree
  <2>3. PlacedAt(d, e) \in Name
    BY PlaceIsFree
  <2> QED
    BY <1>1, <1>2, <2>1, <2>2, <2>3
<1>5. CASE Clash(d, e) /\ ~ Yields(d, e)
  <2> DEFINE m == NextAvailable(e.name, LiveNames(d))
  <2>1. owner \notin {None, e.item} /\ owner \in Item
    BY <1>5, OwnerIsLive DEF Clash
  <2>2. Upsert(d, e, e.name, owner, m)
    BY <1>5, <2>1, OutcomeCases DEF MergeFile
  <2>3. state[d][owner] = "live" /\ name[d][owner] = e.name /\ e.name \in LiveNames(d)
    BY <2>1, OwnerIsLive
  <2>4. m \in Name /\ m \notin LiveNames(d) /\ m # e.name
    BY <2>3, PlaceIsFree
  <2>5. \A h \in Item \ {e.item, owner} : state[d][h] = "live" => name[d][h] # e.name
    BY <2>1, <2>3 DEF NamesAreUnique
  <2> HIDE DEF m, owner
  <2> QED
    BY <1>1, <2>1, <2>2, <2>4, <2>5
<1> QED
  BY <1>3, <1>4, <1>5

\* merge_catalog_file takes no row away and gives nobody a name that is taken.
LEMMA MergeIsSafe ==
  ASSUME Table, NamesAreUnique, NEW d \in Device, NEW e \in Entry, MergeFile(d, e)
  PROVE  /\ Table' /\ NamesAreUnique'
         /\ state'[d][e.item] # "absent" /\ Lists(d, e.item, e.item)
<1>1. PICK n \in Name, g \in Item \cup {None}, m \in Name :
        /\ Upsert(d, e, n, g, m)
        /\ g # e.item
        /\ e.state = "live" => \A h \in Item \ {e.item, g} :
                                 state[d][h] = "live" => name[d][h] # n
        /\ g # None => m # n /\ m \notin LiveNames(d)
  BY MergeIsUpsert
<1>2. e.item \in Item /\ e.state \in {"live", "trashed"} /\ None \notin Item
  BY NamesAssumption DEF Entry
<1>3. /\ state' \in [Device -> [Item -> {"absent", "live", "trashed"}]]
      /\ \A c \in Device \ {d} : state'[c] = state[c]
      /\ \A h \in Item : state'[d][h] = IF h = e.item THEN e.state ELSE state[d][h]
  BY <1>1, <1>2 DEF Upsert, Table
<1>4. name' = [name EXCEPT ![d] = [f \in Item |->
                IF f = e.item THEN n ELSE IF f = g THEN m ELSE name[d][f]]]
  <2>1. [f \in Item |-> CASE f = e.item -> n [] f # e.item /\ f = g -> m
                          [] OTHER -> name[d][f]]
        = [f \in Item |-> IF f = e.item THEN n ELSE IF f = g THEN m ELSE name[d][f]]
    OBVIOUS
  <2> QED
    BY <1>1, <2>1 DEF Upsert
<1>5. /\ name' \in [Device -> [Item -> Name]]
      /\ \A c \in Device \ {d} : name'[c] = name[c]
      /\ \A h \in Item : name'[d][h] =
           IF h = e.item THEN n ELSE IF h = g THEN m ELSE name[d][h]
  BY <1>4 DEF Table
<1>6. Upserted(order[d], e.item) \in Rows
      /\ ToSet(Upserted(order[d], e.item)) = ToSet(order[d]) \cup {e.item}
  BY <1>2, RowUpserted DEF Table
<1>7. /\ order' \in [Device -> Rows]
      /\ order'[d] = Upserted(order[d], e.item)
      /\ \A c \in Device \ {d} : order'[c] = order[c]
  BY <1>1, <1>6 DEF Upsert, Table
<1>8. ASSUME NEW c \in Device PROVE ToSet(order'[c]) = Listed(c)'
  <2>1. CASE c = d
    <3>1. ToSet(order'[d]) = Listed(d) \cup {e.item}
      BY <1>6, <1>7 DEF Table
    <3>2. {h \in Item : state'[d][h] # "absent"} = Listed(d) \cup {e.item}
      BY <1>2, <1>3 DEF Listed
    <3> QED
      BY <2>1, <3>1, <3>2 DEF Listed
  <2>2. CASE c # d
    BY <1>3, <1>7, <2>2 DEF Table, Listed
  <2> QED
    BY <2>1, <2>2
<1>9. Table'
  BY <1>3, <1>5, <1>7, <1>8 DEF Table
<1>10. NamesAreUnique'
  <2> SUFFICES ASSUME NEW c \in Device, NEW a \in Item, NEW b \in Item, a # b,
                      state'[c][a] = "live", state'[c][b] = "live"
               PROVE  name'[c][a] # name'[c][b]
    BY DEF NamesAreUnique
  <2>1. CASE c # d
    BY <1>3, <1>5, <2>1 DEF NamesAreUnique
  <2>2. CASE c = d
    <3>1. \A h \in Item : state[d][h] = "live" => name[d][h] \in LiveNames(d)
      BY DEF LiveNames
    <3>2. ASSUME NEW h \in Item \ {e.item}, state'[d][h] = "live", e.state = "live"
          PROVE  name'[d][h] # n
      BY <1>1, <1>2, <1>3, <1>5, <3>2
    <3>3. CASE a = e.item \/ b = e.item
      BY <1>2, <1>3, <1>5, <2>2, <3>2, <3>3
    <3>4. CASE a # e.item /\ b # e.item
      <4>1. state[d][a] = "live" /\ state[d][b] = "live"
        BY <1>3, <2>2, <3>4
      <4> QED
        BY <1>1, <1>2, <1>5, <2>2, <3>1, <3>4, <4>1 DEF NamesAreUnique
    <3> QED
      BY <3>3, <3>4
  <2> QED
    BY <2>1, <2>2
<1>11. state'[d][e.item] # "absent" /\ Lists(d, e.item, e.item)
  BY <1>2, <1>3 DEF Lists
<1> QED
  BY <1>9, <1>10, <1>11

-----------------------------------------------------------------------------
(* The invariant.                                                          *)

\* What a file has in it; an empty one is that of an item without blocks.
Contents == Doc \cup {None}

\* The files of a folder.
FileSets == UNION {[S -> Contents] : S \in {T \in SUBSET Name : IsFiniteSet(T)}}

\* What Indexer::index has in its local variables by the time it needs it.
Jobs ==
  {j \in Indexing : /\ j.stage \in {"pick", "rename"} => j.existing \in Item
                    /\ j.stage \in {"insert", "claim"} => j.item \in Item}

Base ==
  /\ folder \in [Device -> FileSets]
  /\ job \in [Device -> Jobs]
  /\ fetch \in [Device -> Fetched]
  /\ queue \in [Device -> SUBSET Question]
  /\ pushes \subseteq Push
  /\ manifest \in [Device -> [Item -> Contents]]
  /\ held \in [Device -> SUBSET Item]
  /\ kept \in [Device -> SUBSET Doc]
  /\ ids \subseteq Item
  /\ ops \in Nat /\ failed \subseteq Contents

\* TypeOK in the form a step keeps, and the two properties.  Each needs the others: a
\* merge keeps names apart only where they are apart, and REPLACE takes one row away
\* only because one item at most has the name.
IInv == Table /\ NamesAreUnique /\ MappedItemsStayListed /\ Base /\ calm \in BOOLEAN

\* What putting, removing and renaming a file leaves is a folder.
LEMMA FilesAreNamed ==
  ASSUME NEW F \in FileSets
  PROVE  /\ IsFiniteSet(DOMAIN F) /\ DOMAIN F \subseteq Name
         /\ \A n \in DOMAIN F : F[n] \in Contents
BY DEF FileSets

LEMMA FilesWith ==
  ASSUME NEW F \in FileSets, NEW n \in Name, NEW doc \in Contents
  PROVE  With(F, n, doc) \in FileSets
<1> DEFINE S == DOMAIN F \cup {n}
<1>1. /\ IsFiniteSet(DOMAIN F) /\ DOMAIN F \subseteq Name
      /\ \A m \in DOMAIN F : F[m] \in Contents
  BY FilesAreNamed
<1>2. IsFiniteSet(S) /\ S \in SUBSET Name
  BY <1>1, FS_AddElement
<1>3. With(F, n, doc) \in [S -> Contents]
  BY <1>1 DEF With
<1> HIDE DEF S
<1> QED
  BY <1>2, <1>3 DEF FileSets

LEMMA FilesWithout ==
  ASSUME NEW F \in FileSets, NEW n
  PROVE  Without(F, n) \in FileSets
<1> DEFINE S == DOMAIN F \ {n}
<1>1. /\ IsFiniteSet(DOMAIN F) /\ DOMAIN F \subseteq Name
      /\ \A m \in DOMAIN F : F[m] \in Contents
  BY FilesAreNamed
<1>2. IsFiniteSet(S) /\ S \in SUBSET Name
  BY <1>1, FS_Subset
<1>3. Without(F, n) \in [S -> Contents]
  BY <1>1 DEF Without
<1> HIDE DEF S
<1> QED
  BY <1>2, <1>3 DEF FileSets

LEMMA FilesMoved ==
  ASSUME NEW F \in FileSets, NEW from, NEW to \in Name
  PROVE  Moved(F, from, to) \in FileSets
<1>1. CASE from \in DOMAIN F
  <2>1. F[from] \in Contents
    BY <1>1, FilesAreNamed
  <2>2. Without(F, from) \in FileSets
    BY FilesWithout
  <2>3. With(Without(F, from), to, F[from]) \in FileSets
    BY <2>1, <2>2, FilesWith
  <2> QED
    BY <2>3 DEF Moved
<1>2. CASE from \notin DOMAIN F
  BY <1>2 DEF Moved
<1> QED
  BY <1>1, <1>2

\* A catalog fetched is a list of entries.
LEMMA CatalogIsListed ==
  ASSUME Table, NEW d \in Device
  PROVE  CatalogOf(d) \in Seq(Entry)
<1>1. order[d] \in Seq(Item) /\ Len(order[d]) \in Nat
      /\ DOMAIN order[d] = 1 .. Len(order[d])
  BY DEF Table, Rows
<1>2. ASSUME NEW i \in 1 .. Len(order[d]) PROVE EntryOf(d, order[d][i]) \in Entry
  <2>1. PICK f \in Item : f = order[d][i]
    BY <1>1
  <2>2. f \in Listed(d)
    BY <1>1, <2>1 DEF Table, ToSet
  <2>3. state[d][f] \in {"live", "trashed"} /\ name[d][f] \in Name
    BY <2>2 DEF Table, Listed
  <2> QED
    BY <2>1, <2>3 DEF EntryOf, Entry
<1>3. CatalogOf(d) = [i \in 1 .. Len(order[d]) |-> EntryOf(d, order[d][i])]
  BY <1>1 DEF CatalogOf
<1> QED
  BY <1>1, <1>2, <1>3

LEMMA InitIsSafe == Init => IInv
<1> SUFFICES ASSUME Init PROVE IInv
  OBVIOUS
<1>1. <<>> \in Rows /\ ToSet(<<>>) = {} /\ <<>> \in Name
  BY DEF Rows, IsInjective, ToSet, Name
<1>2. Table
  BY <1>1 DEF Init, Table, Listed
<1>3. NoFiles \in FileSets
  <2>1. IsFiniteSet({})
    BY FS_EmptySet
  <2>2. NoFiles \in [{} -> Contents]
    BY DEF NoFiles
  <2> QED
    BY <2>1, <2>2 DEF FileSets
<1>4. NoJob \in Jobs /\ NoFetch \in Fetched
  BY <1>1 DEF NoJob, NoFetch, Jobs, Indexing, Fetched
<1>5. Base
  BY <1>3, <1>4 DEF Init, Base, Contents
<1> QED
  BY <1>2, <1>5 DEF Init, IInv, NamesAreUnique, MappedItemsStayListed

\* An action that leaves the rows of the tables alone.
LEMMA RowsKept ==
  ASSUME Table, NamesAreUnique, UNCHANGED <<state, name, order>>
  PROVE  Table' /\ NamesAreUnique'
BY DEF Table, Listed, NamesAreUnique

LEMMA TablesKept ==
  ASSUME Table, NamesAreUnique, MappedItemsStayListed, UNCHANGED catalog
  PROVE  Table' /\ NamesAreUnique' /\ MappedItemsStayListed'
BY RowsKept DEF catalog, MappedItemsStayListed

-----------------------------------------------------------------------------
(* Every step keeps the invariant, one lemma for each action.  First those *)
(* of the folder and of Indexer::index.                                    *)

LEMMA DropIsSafe ==
  ASSUME IInv, NEW d \in Device, NEW doc \in Doc, NEW n \in Chosen, Drop(d, doc, n)
  PROVE  IInv'
<1>1. Table' /\ NamesAreUnique' /\ MappedItemsStayListed'
  BY TablesKept DEF IInv, Drop
<1>2. n \in Name
  <2>1. 1 \in Nat \ {0}
    OBVIOUS
  <2>2. <<>> \in Name /\ <<1>> \in Name
    BY <2>1 DEF Name
  <2> QED
    BY <2>2 DEF Chosen
<1>3. With(folder[d], n, doc) \in FileSets
  BY <1>2, FilesWith DEF IInv, Base, Contents
<1>4. Base'
  BY <1>3 DEF IInv, Base, Drop, Act, catalog
<1>5. calm' \in BOOLEAN
  BY DEF IInv, Drop, Act
<1> QED
  BY <1>1, <1>4, <1>5 DEF IInv

LEMMA StartIndexIsSafe ==
  ASSUME IInv, NEW d \in Device, NEW n \in Files(d), StartIndex(d, n)
  PROVE  IInv'
<1> DEFINE owner == OwnerOf(d, n)
           j == [NoJob EXCEPT !.from = n, !.at = n, !.existing = owner,
                   !.stage = IF owner = None \/ owner \in held[d] THEN "lookup" ELSE "pick"]
<1>1. Table' /\ NamesAreUnique' /\ MappedItemsStayListed'
  BY TablesKept DEF IInv, StartIndex
<1>2. n \in Name
  BY FilesAreNamed DEF IInv, Base, Files
<1>3. j \in Jobs
  BY <1>2, OwnerIsLive DEF NoJob, Jobs, Indexing
<1>4. job' = [job EXCEPT ![d] = j]
  BY DEF StartIndex
<1> HIDE DEF j
<1>5. ops' \in Nat /\ UNCHANGED failed
  BY DEF IInv, Base, StartIndex, Act
<1>6. Base'
  BY <1>3, <1>4, <1>5 DEF IInv, Base, StartIndex, catalog
<1>7. calm' \in BOOLEAN
  BY DEF IInv, StartIndex, Act
<1> QED
  BY <1>1, <1>6, <1>7 DEF IInv

LEMMA LookupIsSafe ==
  ASSUME IInv, NEW d \in Device, Lookup(d)
  PROVE  IInv'
<1> DEFINE owner == OwnerOf(d, job[d].from)
<1>1. Table' /\ NamesAreUnique' /\ MappedItemsStayListed'
  BY TablesKept DEF IInv, Lookup
<1>2. job' \in [Device -> Jobs] /\ ids' \subseteq Item
  <2>1. job[d] \in Jobs
    BY DEF IInv, Base
  <2>2. CASE owner = None
    <3>1. PICK f \in Item : NewId(f) /\ job' = [job EXCEPT
              ![d].stage = "insert", ![d].item = f]
      BY <2>2 DEF Lookup
    <3>2. [job[d] EXCEPT !.stage = "insert", !.item = f] \in Jobs
      BY <2>1 DEF Jobs, Indexing
    <3> QED
      BY <3>1, <3>2 DEF IInv, Base, NewId
  <2>3. CASE owner # None
    <3>1. PICK g \in Item : g = owner
      BY <2>3, OwnerIsLive
    <3>2. job' = [job EXCEPT ![d].stage = "insert", ![d].item = g,
                              ![d].known = manifest[d][g]] /\ ids' = ids
      BY <2>3, <3>1 DEF Lookup
    <3>3. manifest[d][g] \in Doc \cup {None}
      BY DEF IInv, Base, Contents
    <3>4. [job[d] EXCEPT !.stage = "insert", !.item = g, !.known = manifest[d][g]] \in Jobs
      BY <2>1, <3>3 DEF Jobs, Indexing
    <3> QED
      BY <3>2, <3>4 DEF IInv, Base
  <2> QED
    BY <2>2, <2>3
<1>3. Base'
  BY <1>2 DEF IInv, Base, Lookup, catalog
<1> QED
  BY <1>1, <1>3 DEF IInv, Lookup

LEMMA PickIsSafe ==
  ASSUME IInv, NEW d \in Device, PickFreePath(d)
  PROVE  IInv'
<1> DEFINE taken == LiveNames(d) \cup Files(d)
           n == NextAvailable(job[d].from, taken)
<1>1. Table' /\ NamesAreUnique' /\ MappedItemsStayListed'
  BY TablesKept DEF IInv, PickFreePath
<1>2. IsFiniteSet(taken)
  <2>1. IsFiniteSet(LiveNames(d))
    BY LiveNamesFinite DEF IInv
  <2>2. IsFiniteSet(Files(d))
    BY FilesAreNamed DEF IInv, Base, Files
  <2> QED
    BY <2>1, <2>2, FS_Union
<1>3. job[d] \in Jobs
  BY DEF IInv, Base
<1>4. n \in Name
  <2>1. job[d].from \in Name
    BY <1>3 DEF Jobs, Indexing
  <2> HIDE DEF taken
  <2> QED
    BY <1>2, <2>1, NextIsAvailable
<1>5. job' = [job EXCEPT ![d].stage = "rename", ![d].at = n]
  BY DEF PickFreePath
<1> HIDE DEF n
<1>6. [job[d] EXCEPT !.stage = "rename", !.at = n] \in Jobs
  BY <1>3, <1>4 DEF Jobs, Indexing, PickFreePath
<1>7. job' \in [Device -> Jobs]
  BY <1>5, <1>6 DEF IInv, Base
<1>8. Base'
  BY <1>7 DEF IInv, Base, PickFreePath, catalog, history
<1> QED
  BY <1>1, <1>8 DEF IInv, PickFreePath, history

\* CollisionQueue::record adds a question.
LEMMA QuestionRecorded ==
  ASSUME NEW q \in SUBSET Question, NEW a \in Item, NEW b \in Item,
         NEW n \in Name, NEW m \in Name
  PROVE  Recorded(q, [incoming |-> a, existing |-> b, requested |-> n, current |-> m])
           \in SUBSET Question
<1>1. [incoming |-> a, existing |-> b, requested |-> n, current |-> m] \in Question
  BY DEF Question
<1> QED
  BY <1>1 DEF Recorded

LEMMA KeepBothIsSafe ==
  ASSUME IInv, NEW d \in Device, KeepBoth(d)
  PROVE  IInv'
<1> DEFINE j == job[d]
<1>1. Table' /\ NamesAreUnique' /\ MappedItemsStayListed'
  BY TablesKept DEF IInv, KeepBoth
<1>2. /\ j \in Jobs /\ j.from \in Name /\ j.at \in Name /\ j.existing \in Item
      /\ folder[d] \in FileSets /\ queue[d] \in SUBSET Question
  <2>1. j \in Jobs
    BY DEF IInv, Base
  <2>2. j \in Indexing /\ j.existing \in Item
    BY <2>1 DEF Jobs, KeepBoth
  <2> QED
    BY <2>1, <2>2 DEF IInv, Base, Indexing
<1> DEFINE Failing == job' = [job EXCEPT ![d] = NoJob] /\ UNCHANGED <<folder, queue, ids>>
<1>3. CASE Failing
  <2>1. NoJob \in Jobs
    BY DEF NoJob, Jobs, Indexing, Name
  <2> QED
    BY <1>1, <1>3, <2>1 DEF IInv, Base, KeepBoth, catalog
<1>4. CASE ~ Failing
  <2>1. PICK f \in Item :
          /\ NewId(f)
          /\ folder' = [folder EXCEPT ![d] = Moved(folder[d], j.from, j.at)]
          /\ queue' = [queue EXCEPT ![d] = Recorded(queue[d],
               [incoming |-> f, existing |-> j.existing,
                requested |-> j.from, current |-> j.at])]
          /\ job' = [job EXCEPT ![d].stage = "insert", ![d].item = f]
    BY <1>4 DEF KeepBoth
  <2>2. folder' \in [Device -> FileSets]
    <3>1. Moved(folder[d], j.from, j.at) \in FileSets
      BY <1>2, FilesMoved
    <3> QED
      BY <2>1, <3>1 DEF IInv, Base
  <2>3. queue' \in [Device -> SUBSET Question]
    <3>1. Recorded(queue[d], [incoming |-> f, existing |-> j.existing,
                requested |-> j.from, current |-> j.at]) \in SUBSET Question
      BY <1>2, QuestionRecorded
    <3> QED
      BY <2>1, <3>1 DEF IInv, Base
  <2>4. job' \in [Device -> Jobs]
    <3>1. [j EXCEPT !.stage = "insert", !.item = f] \in Jobs
      BY <1>2 DEF Jobs, Indexing
    <3> QED
      BY <2>1, <3>1 DEF IInv, Base
  <2>5. ids' \subseteq Item
    BY <2>1 DEF NewId, IInv, Base
  <2>6. Base'
    BY <2>2, <2>3, <2>4, <2>5 DEF IInv, Base, KeepBoth, catalog
  <2> QED
    BY <1>1, <2>6 DEF IInv, KeepBoth
<1> QED
  BY <1>3, <1>4

\* An item that insert_file takes away has no blocks mapped to it.
LEMMA InsertKeepsMapped ==
  ASSUME Table, NamesAreUnique, MappedItemsStayListed, NEW d \in Device, NEW f \in Item,
         NEW n \in Name, CanInsert(d, f, n), InsertFile(d, f, n)
  PROVE  \A e \in Device, g \in Item : manifest[e][g] # None => state'[e][g] # "absent"
<1>1. Lists(d, f, InTheWay(d, f, n)) /\ state'[d][f] = "live"
  BY InsertIsSafe
<1> SUFFICES ASSUME NEW e \in Device, NEW g \in Item, manifest[e][g] # None
             PROVE  state'[e][g] # "absent"
  OBVIOUS
<1>2. state[e][g] # "absent"
  BY DEF MappedItemsStayListed
<1>3. ~ (e = d /\ g = InTheWay(d, f, n))
  <2>1. None \notin Item
    BY NamesAssumption
  <2>2. ASSUME e = d, g = InTheWay(d, f, n) PROVE FALSE
    BY <2>1, <2>2 DEF CanInsert
  <2> QED
    BY <2>2
<1> QED
  BY <1>1, <1>2, <1>3 DEF Lists

LEMMA InsertIndexedIsSafe ==
  ASSUME IInv, NEW d \in Device, InsertIndexed(d)
  PROVE  IInv'
<1> DEFINE j == job[d]
           here == j.at \in Files(d)
           doc == folder[d][j.at]
<1>1. j \in Jobs /\ j.at \in Name /\ j.item \in Item
  <2>1. j \in Jobs
    BY DEF IInv, Base
  <2> QED
    BY <2>1 DEF InsertIndexed, Jobs, Indexing
<1>2. job' \in [Device -> Jobs]
  <2>1. [j EXCEPT !.stage = "claim"] \in Jobs
    BY <1>1 DEF Jobs, Indexing
  <2>2. NoJob \in Jobs
    BY DEF NoJob, Jobs, Indexing, Name
  <2>3. \/ job' = [job EXCEPT ![d] = NoJob]
        \/ job' = [job EXCEPT ![d].stage = "claim"]
    BY DEF InsertIndexed
  <2> QED
    BY <2>1, <2>2, <2>3 DEF IInv, Base
<1>3. CASE CanInsert(d, j.item, j.at)
  <2>1. InsertFile(d, j.item, j.at)
    BY <1>3 DEF InsertIndexed
  <2>2. Table' /\ NamesAreUnique' /\ state'[d][j.item] = "live"
    BY <1>1, <2>1, InsertIsSafe DEF IInv
  <2>3. here => doc \in Contents
    BY FilesAreNamed DEF IInv, Base, Files
  <2>c. failed' \subseteq Contents
    <3>1. UNCHANGED failed \/ (here /\ Fail(doc))
      BY <1>3 DEF InsertIndexed
    <3> QED
      BY <2>3, <3>1 DEF IInv, Base, Fail
  <2>m. PICK b \in Contents : manifest' = [manifest EXCEPT ![d][j.item] = b]
    BY <1>3, <2>3 DEF InsertIndexed, Contents
  <2> HIDE DEF doc
  <2>4. /\ manifest' \in [Device -> [Item -> Contents]]
        /\ \A e \in Device, g \in Item :
             e # d \/ g # j.item => manifest'[e][g] = manifest[e][g]
    BY <2>m DEF IInv, Base
  <2>5. \A e \in Device, g \in Item : manifest[e][g] # None => state'[e][g] # "absent"
    BY <1>1, <1>3, <2>1, InsertKeepsMapped DEF IInv
  <2>6. MappedItemsStayListed'
    BY <2>2, <2>4, <2>5 DEF MappedItemsStayListed
  <2>7. Base'
    BY <1>2, <2>4, <2>c DEF IInv, Base, InsertIndexed
  <2> QED
    BY <2>2, <2>6, <2>7 DEF IInv, InsertIndexed, history
<1>4. CASE ~ CanInsert(d, j.item, j.at)
  <2>1. UNCHANGED catalog /\ UNCHANGED failed
    BY <1>4 DEF InsertIndexed, catalog
  <2>2. Table' /\ NamesAreUnique' /\ MappedItemsStayListed'
    BY <2>1, TablesKept DEF IInv
  <2>3. Base'
    BY <1>2, <2>1 DEF IInv, Base, InsertIndexed, catalog
  <2> QED
    BY <2>2, <2>3 DEF IInv, InsertIndexed, history
<1> QED
  BY <1>3, <1>4

LEMMA ClaimIndexedIsSafe ==
  ASSUME IInv, NEW d \in Device, ClaimIndexed(d)
  PROVE  IInv'
<1> DEFINE j == job[d]
<1>1. j.at \in Name /\ j.item \in Item
  <2>1. j \in Jobs
    BY DEF IInv, Base
  <2> QED
    BY <2>1 DEF ClaimIndexed, Jobs, Indexing
<1>2. job' \in [Device -> Jobs]
  <2>1. NoJob \in Jobs
    BY DEF NoJob, Jobs, Indexing, Name
  <2> QED
    BY <2>1 DEF IInv, Base, ClaimIndexed
<1>3. CASE CanInsert(d, j.item, j.at)
  <2>1. /\ InsertFile(d, j.item, j.at)
        /\ held' = [held EXCEPT ![d] = held[d] \cup {j.item}]
    BY <1>3 DEF ClaimIndexed
  <2>2. Table' /\ NamesAreUnique'
    BY <1>1, <2>1, InsertIsSafe DEF IInv
  <2>3. \A e \in Device, g \in Item : manifest[e][g] # None => state'[e][g] # "absent"
    BY <1>1, <1>3, <2>1, InsertKeepsMapped DEF IInv
  <2>4. MappedItemsStayListed'
    BY <2>3 DEF MappedItemsStayListed, ClaimIndexed
  <2>5. held' \in [Device -> SUBSET Item]
    BY <1>1, <2>1 DEF IInv, Base
  <2>6. Base'
    BY <1>2, <2>5 DEF IInv, Base, ClaimIndexed, history
  <2> QED
    BY <2>2, <2>4, <2>6 DEF IInv, ClaimIndexed, history
<1>4. CASE ~ CanInsert(d, j.item, j.at)
  <2>1. UNCHANGED catalog
    BY <1>4 DEF ClaimIndexed, catalog
  <2>2. Table' /\ NamesAreUnique' /\ MappedItemsStayListed'
    BY <2>1, TablesKept DEF IInv
  <2>3. Base'
    BY <1>2, <2>1 DEF IInv, Base, ClaimIndexed, history, catalog
  <2> QED
    BY <2>2, <2>3 DEF IInv, ClaimIndexed, history
<1> QED
  BY <1>3, <1>4

-----------------------------------------------------------------------------
(* The steps of sync_with_peer and of shares.                              *)

LEMMA FetchIsSafe ==
  ASSUME IInv, NEW d \in Device, NEW p \in Device, FetchCatalog(d, p)
  PROVE  IInv'
<1>1. Table' /\ NamesAreUnique' /\ MappedItemsStayListed'
  BY TablesKept DEF IInv, FetchCatalog
<1>2. [stage |-> "fetched", left |-> CatalogOf(p)] \in Fetched
  BY CatalogIsListed DEF IInv, Fetched
<1>3. Base'
  BY <1>2 DEF IInv, Base, FetchCatalog, catalog, history
<1> QED
  BY <1>1, <1>3 DEF IInv, FetchCatalog, history

LEMMA MergeNextIsSafe ==
  ASSUME IInv, NEW d \in Device, MergeNext(d)
  PROVE  IInv'
<1> DEFINE e == Head(fetch[d].left)
           o == Outcome(d, e)
           c == [incoming |-> o.moved, existing |-> o.other,
                 requested |-> o.from, current |-> o.to]
<1>1. fetch[d].left \in Seq(Entry) /\ fetch[d].left # <<>>
  BY DEF IInv, Base, Fetched, MergeNext
<1>2. e \in Entry /\ Tail(fetch[d].left) \in Seq(Entry)
  BY <1>1, HeadTailProperties
<1>3. MergeFile(d, e)
  BY DEF MergeNext
<1> HIDE DEF e
<1>4. Table' /\ NamesAreUnique' /\ Lists(d, e.item, e.item)
  BY <1>2, <1>3, MergeIsSafe DEF IInv
<1>5. MappedItemsStayListed'
  BY <1>4 DEF IInv, MappedItemsStayListed, Lists, MergeNext
<1>6. \/ o = Applied
      \/ o.moved \in Item /\ o.other \in Item /\ o.from \in Name /\ o.to \in Name
  <2>1. e.item \in Item /\ e.name \in Name
    BY <1>2 DEF Entry
  <2>2. Clash(d, e) => OwnerOf(d, e.name) \in Item
    BY OwnerIsLive DEF Clash
  <2>3. PlacedAt(d, e) \in Name /\ NextAvailable(e.name, LiveNames(d)) \in Name
    BY <1>2, PlaceIsFree DEF IInv
  <2> QED
    BY <1>2, <2>1, <2>2, <2>3, OutcomeCases DEF IInv
<1>7. /\ folder' = [folder EXCEPT ![d] =
           IF o.moved \in held[d] THEN Moved(folder[d], o.from, o.to) ELSE folder[d]]
      /\ queue' = [queue EXCEPT ![d] =
           IF o = Applied THEN queue[d] ELSE Recorded(queue[d], c)]
      /\ fetch' = [fetch EXCEPT ![d] = [stage |-> "merging", left |-> Tail(fetch[d].left)]]
  BY DEF MergeNext, e
<1> HIDE DEF o
<1>8. folder' \in [Device -> FileSets]
  <2>1. CASE o = Applied
    <3>1. o.moved \notin held[d]
      BY <2>1, NamesAssumption DEF Applied, IInv, Base
    <3> QED
      BY <1>7, <3>1 DEF IInv, Base
  <2>2. CASE o.to \in Name
    <3>1. Moved(folder[d], o.from, o.to) \in FileSets
      BY <2>2, FilesMoved DEF IInv, Base
    <3> QED
      BY <1>7, <3>1 DEF IInv, Base
  <2> QED
    BY <1>6, <2>1, <2>2
<1>9. queue' \in [Device -> SUBSET Question]
  <2>1. CASE o = Applied
    BY <1>7, <2>1 DEF IInv, Base
  <2>2. CASE o # Applied
    <3>1. Recorded(queue[d], c) \in SUBSET Question
      BY <1>6, <2>2, QuestionRecorded DEF IInv, Base
    <3> QED
      BY <1>7, <3>1 DEF IInv, Base
  <2> QED
    BY <2>1, <2>2
<1>10. fetch' \in [Device -> Fetched]
  BY <1>2, <1>7 DEF IInv, Base, Fetched
<1>11. Base'
  BY <1>8, <1>9, <1>10 DEF IInv, Base, MergeNext, history
<1> QED
  BY <1>4, <1>5, <1>11 DEF IInv, MergeNext, history

LEMMA EndMergeIsSafe ==
  ASSUME IInv, NEW d \in Device, EndMerge(d)
  PROVE  IInv'
<1>1. Table' /\ NamesAreUnique' /\ MappedItemsStayListed'
  BY TablesKept DEF IInv, EndMerge
<1>2. NoFetch \in Fetched
  BY DEF NoFetch, Fetched
<1>3. Base'
  BY <1>2 DEF IInv, Base, EndMerge, catalog, history
<1> QED
  BY <1>1, <1>3 DEF IInv, EndMerge, history

LEMMA ShareIsSafe ==
  ASSUME IInv, NEW d \in Device, NEW t \in Device, NEW f \in Item, Share(d, t, f)
  PROVE  IInv'
<1>1. Table' /\ NamesAreUnique' /\ MappedItemsStayListed'
  BY TablesKept DEF IInv, Share
<1>2. manifest[d][f] \in Doc
  BY DEF IInv, Base, Share, Contents
<1>3. EntryOf(d, f) \in Entry
  BY DEF IInv, Table, Share, EntryOf, Entry
<1>4. [to |-> t, entry |-> EntryOf(d, f), doc |-> manifest[d][f], stage |-> "metadata"]
        \in Push
  BY <1>2, <1>3 DEF Push
<1>5. Base'
  BY <1>4 DEF IInv, Base, Share, Act, catalog
<1>6. calm' \in BOOLEAN
  BY DEF IInv, Share, Act
<1> QED
  BY <1>1, <1>5, <1>6 DEF IInv

LEMMA PushMetadataIsSafe ==
  ASSUME IInv, NEW m \in pushes, PushMetadata(m)
  PROVE  IInv'
<1>1. m \in Push /\ m.to \in Device /\ m.entry \in Entry /\ m.entry.item \in Item
      /\ m.doc \in Doc
  BY DEF IInv, Base, Push, Entry
<1>2. MergeFile(m.to, m.entry)
  BY DEF PushMetadata
<1>3. /\ Table' /\ NamesAreUnique'
      /\ state'[m.to][m.entry.item] # "absent" /\ Lists(m.to, m.entry.item, m.entry.item)
  BY <1>1, <1>2, MergeIsSafe DEF IInv
<1>4. manifest' = [manifest EXCEPT ![m.to][m.entry.item] = m.doc]
  BY DEF PushMetadata
<1>5. /\ manifest' \in [Device -> [Item -> Contents]]
      /\ \A e \in Device, g \in Item :
           e # m.to \/ g # m.entry.item => manifest'[e][g] = manifest[e][g]
  BY <1>1, <1>4 DEF IInv, Base, Contents
<1>6. MappedItemsStayListed'
  BY <1>3, <1>5 DEF IInv, MappedItemsStayListed, Lists
<1>7. [m EXCEPT !.stage = "finalize"] \in Push
  BY <1>1 DEF Push
<1>8. pushes' \subseteq Push
  BY <1>7 DEF PushMetadata, IInv, Base
<1>9. Base'
  BY <1>5, <1>8 DEF IInv, Base, PushMetadata, history
<1> QED
  BY <1>3, <1>6, <1>9 DEF IInv, PushMetadata, history

LEMMA FinalizeIsSafe ==
  ASSUME IInv, NEW m \in pushes, FinalizeFile(m)
  PROVE  IInv'
<1> DEFINE d == m.to
           f == m.entry.item
<1>1. d \in Device /\ f \in Item
  BY DEF IInv, Base, Push, Entry
<1>2. Table' /\ NamesAreUnique' /\ MappedItemsStayListed'
  BY RowsKept DEF IInv, MappedItemsStayListed, FinalizeFile
<1>3. /\ folder' = [folder EXCEPT ![d] = With(folder[d], name[d][f], manifest[d][f])]
      /\ held' = [held EXCEPT ![d] = held[d] \cup {f}]
  BY DEF FinalizeFile
<1> HIDE DEF d, f
<1>4. folder' \in [Device -> FileSets]
  <2>1. name[d][f] \in Name /\ manifest[d][f] \in Contents /\ folder[d] \in FileSets
    BY <1>1, <1>3 DEF IInv, Base, Table
  <2>2. With(folder[d], name[d][f], manifest[d][f]) \in FileSets
    BY <2>1, FilesWith
  <2> QED
    BY <1>3, <2>2 DEF IInv, Base
<1>5. held' \in [Device -> SUBSET Item]
  BY <1>1, <1>3 DEF IInv, Base
<1>6. Base'
  BY <1>4, <1>5 DEF IInv, Base, FinalizeFile, history
<1> QED
  BY <1>2, <1>6 DEF IInv, FinalizeFile, history

-----------------------------------------------------------------------------
(* The steps of a person.                                                  *)

LEMMA DeleteIsSafe ==
  ASSUME IInv, NEW d \in Device, NEW f \in Item, DeleteLocalCopy(d, f)
  PROVE  IInv'
<1>1. /\ state' \in [Device -> [Item -> {"absent", "live", "trashed"}]]
      /\ \A e \in Device, g \in Item : /\ state'[e][g] = "live" => state[e][g] = "live"
                                      /\ state'[e][g] = "absent" <=> state[e][g] = "absent"
  <2>1. state[d][f] # "absent"
    BY DEF DeleteLocalCopy
  <2>2. CASE state' = [state EXCEPT ![d][f] = "trashed"]
    BY <2>1, <2>2 DEF IInv, Table
  <2>3. CASE state' = state
    BY <2>3 DEF IInv, Table
  <2> QED
    BY <2>2, <2>3 DEF DeleteLocalCopy
<1>2. Table'
  BY <1>1 DEF IInv, Table, Listed, DeleteLocalCopy
<1>3. NamesAreUnique' /\ MappedItemsStayListed'
  BY <1>1 DEF IInv, NamesAreUnique, MappedItemsStayListed, DeleteLocalCopy
<1>4. folder' \in [Device -> FileSets]
  <2>1. Without(folder[d], name[d][f]) \in FileSets
    BY FilesWithout DEF IInv, Base
  <2> QED
    BY <2>1 DEF IInv, Base, DeleteLocalCopy
<1>5. held' \in [Device -> SUBSET Item] /\ queue' \in [Device -> SUBSET Question]
  BY DEF IInv, Base, DeleteLocalCopy
<1>6. kept' \in [Device -> SUBSET Doc]
  BY DEF IInv, Base, DeleteLocalCopy
<1>7. Base'
  BY <1>4, <1>5, <1>6 DEF IInv, Base, DeleteLocalCopy, Act
<1>8. calm' \in BOOLEAN
  BY DEF IInv, DeleteLocalCopy, Act
<1> QED
  BY <1>2, <1>3, <1>7, <1>8 DEF IInv

LEMMA RestoreIsSafe ==
  ASSUME IInv, NEW d \in Device, NEW f \in Item, RestoreFile(d, f)
  PROVE  IInv'
<1>1. /\ state' \in [Device -> [Item -> {"absent", "live", "trashed"}]]
      /\ \A e \in Device, g \in Item :
           /\ e # d \/ g # f => state'[e][g] = state[e][g]
           /\ state'[e][g] = "absent" <=> state[e][g] = "absent"
  BY DEF IInv, Table, RestoreFile
<1>2. Table' /\ MappedItemsStayListed'
  BY <1>1 DEF IInv, Table, Listed, MappedItemsStayListed, RestoreFile
<1>3. NamesAreUnique'
  <2>1. \A g \in Item : state[d][g] = "live" => name[d][g] # name[d][f]
    BY DEF RestoreFile, LiveNames
  <2> QED
    BY <1>1, <2>1 DEF IInv, NamesAreUnique, RestoreFile
<1>4. Base'
  BY DEF IInv, Base, RestoreFile, Act
<1>5. calm' \in BOOLEAN
  BY DEF IInv, RestoreFile, Act
<1> QED
  BY <1>2, <1>3, <1>4, <1>5 DEF IInv

\* override_file: the item that had the name goes to the trash, so that the one that
\* comes to it is alone there.
LEMMA OverrideIsSafe ==
  ASSUME IInv, NEW d \in Device, NEW c \in queue[d], Override(d, c)
  PROVE  IInv'
<1> DEFINE old == c.existing
           new == c.incoming
           n == c.requested
<1>1. old \in Item /\ new \in Item /\ n \in Name
  BY DEF IInv, Base, Question
<1>2. /\ state[d][old] = "live"
      /\ state[d][new] = "live" => OwnerOf(d, n) \in {None, old, new}
      /\ state' = [state EXCEPT ![d][old] = "trashed"]
      /\ name' = [name EXCEPT ![d][new] =
           IF state[d][new] = "absent" THEN name[d][new] ELSE n]
  BY DEF Override
<1> HIDE DEF old, new, n
<1>3. /\ state' \in [Device -> [Item -> {"absent", "live", "trashed"}]]
      /\ \A e \in Device, g \in Item :
           /\ state'[e][g] = IF e = d /\ g = old THEN "trashed" ELSE state[e][g]
           /\ state'[e][g] = "absent" <=> state[e][g] = "absent"
  BY <1>1, <1>2 DEF IInv, Table
<1>4. /\ name' \in [Device -> [Item -> Name]]
      /\ \A e \in Device, g \in Item :
           /\ e # d \/ g # new => name'[e][g] = name[e][g]
           /\ e = d /\ g = new /\ state[d][g] = "live" => name'[e][g] = n
  BY <1>1, <1>2 DEF IInv, Table
<1>5. Table' /\ MappedItemsStayListed'
  BY <1>3, <1>4 DEF IInv, Table, Listed, MappedItemsStayListed, Override
<1>6. NamesAreUnique'
  <2>1. ASSUME state[d][new] = "live", NEW g \in Item \ {old, new}, state[d][g] = "live"
        PROVE  name[d][g] # n
    <3> SUFFICES ASSUME name[d][g] = n PROVE FALSE
      OBVIOUS
    <3>1. n \in LiveNames(d)
      BY <2>1 DEF LiveNames
    <3>2. OwnerOf(d, n) \in {old, new} /\ OwnerOf(d, n) # None
      BY <1>2, <2>1, <3>1, OwnerIsLive
    <3>3. state[d][OwnerOf(d, n)] = "live" /\ name[d][OwnerOf(d, n)] = n
          /\ OwnerOf(d, n) \in Item
      BY <3>2, OwnerIsLive
    <3> QED
      BY <2>1, <3>2, <3>3 DEF IInv, NamesAreUnique
  <2> SUFFICES ASSUME NEW e \in Device, NEW a \in Item, NEW b \in Item, a # b,
                      state'[e][a] = "live", state'[e][b] = "live"
               PROVE  name'[e][a] # name'[e][b]
    BY DEF NamesAreUnique
  <2>2. state[e][a] = "live" /\ state[e][b] = "live" /\ (e = d => a # old /\ b # old)
    BY <1>3
  <2>3. name[e][a] # name[e][b]
    BY <2>2 DEF IInv, NamesAreUnique
  <2> QED
    BY <1>4, <2>1, <2>2, <2>3
<1>7. folder' \in [Device -> FileSets]
  <2>1. Moved(folder[d], c.current, n) \in FileSets
    BY <1>1, FilesMoved DEF IInv, Base
  <2> QED
    BY <2>1 DEF IInv, Base, Override, n
<1>8. queue' \in [Device -> SUBSET Question]
  BY DEF IInv, Base, Override
<1>9. Base'
  BY <1>7, <1>8 DEF IInv, Base, Override, Act
<1>10. calm' \in BOOLEAN
  BY DEF IInv, Override, Act
<1> QED
  BY <1>5, <1>6, <1>9, <1>10 DEF IInv

LEMMA ConfirmIsSafe ==
  ASSUME IInv, NEW d \in Device, NEW c \in queue[d], Confirm(d, c)
  PROVE  IInv'
<1>1. Table' /\ NamesAreUnique' /\ MappedItemsStayListed'
  BY TablesKept DEF IInv, Confirm
<1>2. queue' \in [Device -> SUBSET Question]
  BY DEF IInv, Base, Confirm
<1>3. Base'
  BY <1>2 DEF IInv, Base, Confirm, Act, catalog
<1>4. calm' \in BOOLEAN
  BY DEF IInv, Confirm, Act
<1> QED
  BY <1>1, <1>3, <1>4 DEF IInv

LEMMA CrashIsSafe ==
  ASSUME IInv, NEW d \in Device, Crash(d)
  PROVE  IInv'
<1>1. Table' /\ NamesAreUnique' /\ MappedItemsStayListed'
  BY TablesKept DEF IInv, Crash
<1>2. NoJob \in Jobs /\ NoFetch \in Fetched
  BY DEF NoJob, NoFetch, Jobs, Indexing, Fetched, Name
<1>3. Base'
  BY <1>2 DEF IInv, Base, Crash, Act, catalog
<1>4. calm' \in BOOLEAN
  BY DEF IInv, Crash, Act
<1> QED
  BY <1>1, <1>3, <1>4 DEF IInv

-----------------------------------------------------------------------------
(* The theorems.                                                           *)

LEMMA NextIsSafe == IInv /\ [Next]_vars => IInv'
<1> SUFFICES ASSUME IInv, [Next]_vars PROVE IInv'
  OBVIOUS
<1>1. CASE UNCHANGED vars
  BY <1>1 DEF IInv, Table, Listed, NamesAreUnique, MappedItemsStayListed, Base, vars,
     catalog, history
<1>2. ASSUME NEW d \in Device, UserStep(d) PROVE IInv'
  <2>1. CASE \E doc \in Doc, n \in Chosen : Drop(d, doc, n)
    BY <2>1, DropIsSafe
  <2>2. CASE \E f \in Item, t \in Device : Share(d, t, f)
    BY <2>2, ShareIsSafe
  <2>3. CASE \E f \in Item : DeleteLocalCopy(d, f)
    BY <2>3, DeleteIsSafe
  <2>4. CASE \E f \in Item : RestoreFile(d, f)
    BY <2>4, RestoreIsSafe
  <2>5. CASE \E c \in queue[d] : Override(d, c) \/ Confirm(d, c)
    BY <2>5, OverrideIsSafe, ConfirmIsSafe
  <2>6. CASE Crash(d)
    BY <2>6, CrashIsSafe
  <2> QED
    BY <1>2, <2>1, <2>2, <2>3, <2>4, <2>5, <2>6 DEF UserStep
<1>3. ASSUME NEW d \in Device, IndexStep(d) PROVE IInv'
  BY <1>3, LookupIsSafe, PickIsSafe, KeepBothIsSafe, InsertIndexedIsSafe,
     ClaimIndexedIsSafe DEF IndexStep
<1>4. ASSUME NEW d \in Device, MergeStep(d) PROVE IInv'
  BY <1>4, MergeNextIsSafe, EndMergeIsSafe DEF MergeStep
<1>5. ASSUME NEW d \in Device, NEW n \in Files(d), StartIndex(d, n) PROVE IInv'
  BY <1>5, StartIndexIsSafe
<1>6. ASSUME NEW d \in Device, NEW p \in Device, FetchCatalog(d, p) PROVE IInv'
  BY <1>6, FetchIsSafe
<1>7. ASSUME NEW m \in pushes, PushMetadata(m) \/ FinalizeFile(m) PROVE IInv'
  BY <1>7, PushMetadataIsSafe, FinalizeIsSafe
<1> QED
  BY <1>1, <1>2, <1>3, <1>4, <1>5, <1>6, <1>7 DEF Next

LEMMA AlwaysSafe == Spec => []IInv
<1>1. Init => IInv
  BY InitIsSafe
<1>2. IInv /\ [Next]_vars => IInv'
  BY NextIsSafe
<1> QED
  BY <1>1, <1>2, PTL DEF Spec

\* The rows of table files, each once, the folder, the local variables of index and
\* the catalogs, shares and questions under way keep their types; a device lists
\* exactly the items it has rows of.
THEOREM TypeCorrect == Spec => []TypeOK
<1>1. IInv => TypeOK
  <2> SUFFICES ASSUME IInv PROVE TypeOK
    OBVIOUS
  <2>1. order \in [Device -> Seq(Item)] /\ \A d \in Device : IsInjective(order[d])
    BY DEF IInv, Table, Rows
  <2>2. job \in [Device -> Indexing]
    BY DEF IInv, Base, Jobs
  <2>3. \A d \in Device : \A n \in Files(d) : n \in Name /\ folder[d][n] \in Contents
    BY FilesAreNamed DEF IInv, Base, Files
  <2>4. \A d \in Device : ToSet(order[d]) = {f \in Item : state[d][f] # "absent"}
    BY DEF IInv, Table, Listed
  <2> QED
    BY <2>1, <2>2, <2>3, <2>4 DEF TypeOK, IInv, Base, Table, Contents
<1> QED
  BY <1>1, AlwaysSafe, PTL

\* No two live items of a table have one name, whatever merges, renames and restores
\* run between the sections of index: the unique index has nothing to refuse.
THEOREM UniqueNames == Spec => []NamesAreUnique
<1>1. IInv => NamesAreUnique
  BY DEF IInv
<1> QED
  BY <1>1, AlwaysSafe, PTL

\* An item with blocks stays listed, though index takes its name with REPLACE long
\* after it looked whose the name was.
THEOREM MappedStayListed == Spec => []MappedItemsStayListed
<1>1. IInv => MappedItemsStayListed
  BY DEF IInv
<1> QED
  BY <1>1, AlwaysSafe, PTL

=============================================================================
