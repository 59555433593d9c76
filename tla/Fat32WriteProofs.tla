-------------------------- MODULE Fat32WriteProofs --------------------------
(***************************************************************************)
(* What a write leaves of a volume, on every way out of it, for volumes of *)
(* any size.                                                               *)
(***************************************************************************)
EXTENDS Fat32Mut, Fat32ReadProofs, SequenceTheorems

(* A volume with another table or other contents is a volume.              *)
LEMMA TableWritten ==
    ASSUME NEW d, IsVolume(d), NEW changes
    PROVE  IsVolume(write_fat_entry_all(d, changes))
<1> DEFINE t == [i \in 1 .. NumFats |-> [c \in DOMAIN d.fat[i] |->
                    IF c \in DOMAIN changes THEN changes[c] ELSE d.fat[i][c]]]
<1>1. write_fat_entry_all(d, changes) = [fat |-> t, data |-> d.data]
  <2>1. ASSUME NEW x
        PROVE  [d EXCEPT !.fat = x] = [fat |-> x, data |-> d.data]
        BY DEF IsVolume
  <2>2. write_fat_entry_all(d, changes) = [d EXCEPT !.fat = t]
        BY DEF write_fat_entry_all
  <2> HIDE DEF t
  <2> QED BY <2>1, <2>2
<1>2. 1 \in 1 .. NumFats
      BY FatAssumption
<1>3. /\ \A i \in 1 .. NumFats : DOMAIN t[i] = 0 .. MaxCluster
      /\ \A i \in 1 .. NumFats, c \in 0 .. MaxCluster : t[i][c] = t[1][c]
      BY <1>2 DEF IsVolume
<1>4. DOMAIN t = 1 .. NumFats
      OBVIOUS
<1> HIDE DEF t
<1> QED BY <1>1, <1>3, <1>4 DEF IsVolume

LEMMA DataWritten ==
    ASSUME NEW d, IsVolume(d), NEW data
    PROVE  IsVolume([d EXCEPT !.data = data])
    BY DEF IsVolume
-----------------------------------------------------------------------------
(* Allocation.  The numbers of a set below one of them, and one more for   *)
(* the next.                                                               *)
Below(S, c) == {b \in S : b < c}

LEMMA BelowLeast ==
    ASSUME NEW S \in SUBSET Nat, S # {}
    PROVE  \E c \in S : Cardinality(Below(S, c)) = 0
<1>1. PICK c \in S : \A b \in S : c <= b
      BY Least
<1>2. \A b \in S : ~ (b < c)
      BY <1>1
<1>3. Below(S, c) = {}
      BY <1>2 DEF Below
<1> QED BY <1>3, FS_EmptySet

LEMMA BelowNext ==
    ASSUME NEW S \in SUBSET Nat, IsFiniteSet(S), NEW n \in Nat, NEW p \in S,
           Cardinality(Below(S, p)) = n, n + 1 < Cardinality(S)
    PROVE  \E c \in S : Cardinality(Below(S, c)) = n + 1
<1> DEFINE low   == Below(S, p) \cup {p}
           above == {b \in S : b > p}
<1>1. IsFiniteSet(Below(S, p)) /\ p \notin Below(S, p)
  <2>1. Below(S, p) \subseteq S /\ p \notin Below(S, p)
        BY DEF Below
  <2> QED BY <2>1, FS_Subset
<1>2. Cardinality(low) = n + 1
      BY <1>1, FS_AddElement
<1>3. above # {}
  <2> SUFFICES ASSUME above = {} PROVE FALSE
      OBVIOUS
  <2>1. \A b \in S : b < p \/ b = p
        OBVIOUS
  <2>2. S = low
        BY <2>1 DEF Below
  <2> HIDE DEF low, above
  <2>3. Cardinality(S) = n + 1
        BY <1>2, <2>2
  <2> QED BY <2>3
<1>4. PICK c \in above : \A b \in above : c <= b
  <2>1. above \in SUBSET Nat
        OBVIOUS
  <2> HIDE DEF above
  <2> QED BY <1>3, <2>1, Least
<1>5. \A b \in S : b < c <=> b < p \/ b = p
      BY <1>4
<1>6. Below(S, c) = low
      BY <1>5 DEF Below
<1>7. c \in S
      OBVIOUS
<1> HIDE DEF low, above
<1> QED BY <1>2, <1>6, <1>7

(* The k-th number of a finite set is one of it, with k - 1 below.  The    *)
(* least k for which there is none would have a number before it.          *)
LEMMA NthOf ==
    ASSUME NEW S \in SUBSET Nat, IsFiniteSet(S), NEW k \in 1 .. Cardinality(S)
    PROVE  Nth(S, k) \in S /\ Cardinality(Below(S, Nth(S, k))) = k - 1
<1> DEFINE Is(n) == \E c \in S : Cardinality(Below(S, c)) = n
           T == {n \in 0 .. Cardinality(S) - 1 : ~ Is(n)}
<1>1. Cardinality(S) \in Nat /\ T \in SUBSET Nat
      BY FS_CardinalityType
<1>2. \A n \in T : n \in 0 .. Cardinality(S) - 1 /\ ~ Is(n)
      OBVIOUS
<1>3. \A n \in 0 .. Cardinality(S) - 1 : n \notin T => Is(n)
      OBVIOUS
<1>4. T = {}
  <2> SUFFICES ASSUME T # {} PROVE FALSE
      OBVIOUS
  <2> HIDE DEF T, Is
  <2>1. PICK j \in T : \A i \in T : j <= i
        BY <1>1, Least
  <2>2. j \in 0 .. Cardinality(S) - 1 /\ ~ Is(j)
        BY <1>2
  <2>3. CASE j = 0
    <3>1. S # {}
          BY <1>1, <2>2, FS_EmptySet
    <3> QED BY <2>2, <2>3, <3>1, BelowLeast DEF Is
  <2>4. CASE j # 0
    <3>1. j - 1 \in 0 .. Cardinality(S) - 1 /\ j - 1 \notin T
          BY <1>1, <2>1, <2>2, <2>4
    <3>2. Is(j - 1)
          BY <1>3, <3>1
    <3>3. PICK p \in S : Cardinality(Below(S, p)) = j - 1
          BY <3>2 DEF Is
    <3>4. j - 1 \in Nat /\ (j - 1) + 1 < Cardinality(S) /\ (j - 1) + 1 = j
          BY <1>1, <2>2, <3>1
    <3>5. Is((j - 1) + 1)
          BY <3>3, <3>4, BelowNext DEF Is
    <3> QED BY <2>2, <3>4, <3>5
  <2> QED BY <2>3, <2>4
<1>5. k - 1 \in 0 .. Cardinality(S) - 1
      BY <1>1
<1>6. \E c \in S : Cardinality(Below(S, c)) = k - 1
  <2> HIDE DEF T
  <2> QED BY <1>3, <1>4, <1>5
<1>7. Nth(S, k) = CHOOSE c \in S : Cardinality(Below(S, c)) = k - 1
      BY DEF Nth, Below
<1> QED BY <1>6, <1>7

(* The clusters that alloc_chain returns were free, and are not the same.  *)
LEMMA Allocated ==
    ASSUME NEW d, NEW n \in Nat, CanAlloc(d, n), NEW k \in 1 .. n
    PROVE  /\ alloc_chain(d, n)[k] \in FreeClusters(d)
           /\ \A l \in 1 .. n : alloc_chain(d, n)[l] = alloc_chain(d, n)[k] => l = k
<1> DEFINE S == FreeClusters(d)
<1>1. S \in SUBSET Nat /\ S \subseteq 2 .. MaxCluster
      BY FatAssumption DEF FreeClusters, Clusters
<1>2. IsFiniteSet(S)
  <2>1. MaxCluster \in Int
        BY FatAssumption
  <2>2. IsFiniteSet(2 .. MaxCluster)
        BY <2>1, FS_Interval
  <2> QED BY <1>1, <2>2, FS_Subset
<1>3. Cardinality(S) >= n /\ Cardinality(S) \in Nat
      BY <1>2, FS_CardinalityType DEF CanAlloc
<1> HIDE DEF S
<1>4. \A l \in 1 .. n : l \in 1 .. Cardinality(S)
      BY <1>3
<1>5. \A l \in 1 .. n : Nth(S, l) \in S /\ Cardinality(Below(S, Nth(S, l))) = l - 1
      BY <1>1, <1>2, <1>4, NthOf
<1>6. \A l \in 1 .. n : Nth(S, l) = Nth(S, k) => l = k
  <2> SUFFICES ASSUME NEW l \in 1 .. n, Nth(S, l) = Nth(S, k) PROVE l = k
      OBVIOUS
  <2>1. l - 1 = k - 1
        BY <1>5
  <2> QED BY <2>1
<1> QED BY <1>5, <1>6 DEF alloc_chain, S
-----------------------------------------------------------------------------
(* What a step of a write changes: the table at most at the clusters T,    *)
(* the contents at most at D, and no value becomes anything but a link.    *)
Differs(d, e, T, D) ==
    /\ \A c \in Clusters \ T : read_fat_entry(e, c) = read_fat_entry(d, c)
    /\ \A c \in Clusters \ D : e.data[c] = d.data[c]
Changed(d, e, T, D) ==
    IsVolume(d) /\ InRange(d) => IsVolume(e) /\ InRange(e) /\ Differs(d, e, T, D)

LEMMA ChangedTwice ==
    ASSUME NEW d, NEW e, NEW f, NEW T, NEW U, NEW D, NEW E,
           Changed(d, e, T, D), Changed(e, f, U, E)
    PROVE  Changed(d, f, T \cup U, D \cup E)
    BY DEF Changed, Differs

LEMMA LinksAreValues ==
    FREE \in FatValue /\ EOC \in FatValue /\ Clusters \subseteq FatValue
<1>1. EOC \in EOC_MIN .. EOC
      BY SMT DEF EOC, EOC_MIN
<1> QED BY <1>1 DEF FatValue

LEMMA TableChanged ==
    ASSUME NEW d, NEW changes, \A c \in DOMAIN changes : changes[c] \in FatValue
    PROVE  Changed(d, write_fat_entry_all(d, changes), DOMAIN changes, {})
<1> DEFINE e == write_fat_entry_all(d, changes)
<1> SUFFICES ASSUME IsVolume(d), InRange(d)
             PROVE  IsVolume(e) /\ InRange(e) /\ Differs(d, e, DOMAIN changes, {})
    BY DEF Changed
<1>1. IsVolume(e)
      BY TableWritten
<1>2. d = [fat |-> d.fat, data |-> d.data] /\ 1 \in 1 .. NumFats
      BY FatAssumption DEF IsVolume
<1>3. /\ e.data = d.data
      /\ e.fat = [i \in 1 .. NumFats |-> [c \in DOMAIN d.fat[i] |->
                    IF c \in DOMAIN changes THEN changes[c] ELSE d.fat[i][c]]]
      BY <1>2 DEF write_fat_entry_all
<1> HIDE DEF e
<1>4. \A i \in 1 .. NumFats, c \in Clusters : c \in DOMAIN d.fat[i]
      BY FatAssumption DEF IsVolume, Clusters
<1>5. \A i \in 1 .. NumFats, c \in Clusters :
         e.fat[i][c] = IF c \in DOMAIN changes THEN changes[c] ELSE d.fat[i][c]
      BY <1>3, <1>4
<1>6. InRange(e)
      BY <1>3, <1>5 DEF InRange
<1>7. Differs(d, e, DOMAIN changes, {})
      BY <1>2, <1>3, <1>5 DEF Differs, read_fat_entry
<1> QED BY <1>1, <1>6, <1>7

LEMMA DataChanged ==
    ASSUME NEW d, NEW data, NEW D,
           DOMAIN data = DOMAIN d.data,
           \A c \in DOMAIN d.data : DOMAIN data[c] \in {DOMAIN d.data[c], 1 .. ClusterUnits},
           \A c \in DOMAIN d.data : c \notin D => data[c] = d.data[c]
    PROVE  Changed(d, [d EXCEPT !.data = data], {}, D)
<1> DEFINE e == [d EXCEPT !.data = data]
<1> SUFFICES ASSUME IsVolume(d), InRange(d)
             PROVE  IsVolume(e) /\ InRange(e) /\ Differs(d, e, {}, D)
    BY DEF Changed
<1>1. IsVolume(e)
      BY DataWritten
<1>2. e.data = data /\ e.fat = d.fat
      BY DEF IsVolume
<1> HIDE DEF e
<1>3. InRange(e)
      BY <1>2 DEF InRange
<1>4. Differs(d, e, {}, D)
      BY <1>2 DEF Differs, InRange, read_fat_entry
<1> QED BY <1>1, <1>3, <1>4

(* free_chain takes the links of the chain.                                *)
LEMMA FreeChanges ==
    ASSUME NEW d, NEW start
    PROVE  Changed(d, free_chain(d, start), ToSet(Chain(d, start)), {})
<1>1. CASE start < 2
      BY <1>1 DEF free_chain, Changed, Differs
<1>2. CASE ~ (start < 2)
  <2> DEFINE changes == [c \in ToSet(Chain(d, start)) |-> FREE]
  <2>1. free_chain(d, start) = write_fat_entry_all(d, changes)
        BY <1>2 DEF free_chain
  <2>2. DOMAIN changes = ToSet(Chain(d, start)) /\ \A c \in DOMAIN changes : changes[c] \in FatValue
        BY LinksAreValues
  <2> HIDE DEF changes
  <2>3. Changed(d, write_fat_entry_all(d, changes), DOMAIN changes, {})
        BY <2>2, TableChanged
  <2> QED BY <2>1, <2>2, <2>3
<1> QED BY <1>1, <1>2

(* A content goes to clusters that were free.                              *)
LEMMA StoreChanges ==
    ASSUME NEW d, NEW content, Len(content) \in Nat, CanAlloc(d, needed(content))
    PROVE  Changed(d, Stored(d, content), FreeClusters(d), FreeClusters(d))
<1> DEFINE n     == needed(content)
           chain == alloc_chain(d, n)
           F     == FreeClusters(d)
           changes == [c \in ToSet(chain) |->
                        LET k == CHOOSE k \in 1 .. Len(chain) : chain[k] = c
                        IN  IF k < Len(chain) THEN chain[k + 1] ELSE EOC]
           l     == Linked(d, chain)
           data  == [c \in DOMAIN l.data |->
                       IF \E k \in 1 .. Len(chain) : chain[k] = c
                       THEN Piece(content, CHOOSE k \in 1 .. Len(chain) : chain[k] = c)
                       ELSE l.data[c]]
<1>1. n \in Nat
  <2>1. ClusterUnits \in Nat \ {0}
        BY FatAssumption
  <2>2. Len(content) + ClusterUnits - 1 \in Nat
        BY <2>1
  <2> QED BY <2>1, <2>2, Quotient DEF needed, div_ceil
<1>2. chain = [k \in 1 .. n |-> Nth(F, k)]
      BY DEF alloc_chain
<1>3. \A k \in 1 .. n : chain[k] \in F
      BY <1>1, Allocated
<1>4. F \subseteq Clusters
      BY DEF FreeClusters
<1> HIDE DEF n, chain, F
<1>5. Len(chain) = n /\ DOMAIN chain = 1 .. n
      BY <1>1, <1>2, FunctionIsSeq
<1>6. ToSet(chain) \subseteq F
      BY <1>3, <1>5 DEF ToSet
<1>7. \A c \in ToSet(chain) : changes[c] \in FatValue
  <2> SUFFICES ASSUME NEW c \in ToSet(chain) PROVE changes[c] \in FatValue
      OBVIOUS
  <2> DEFINE k == CHOOSE k \in 1 .. Len(chain) : chain[k] = c
  <2>1. k \in 1 .. n
        BY <1>5 DEF ToSet
  <2>2. changes[c] = IF k < n THEN chain[k + 1] ELSE EOC
        BY <1>5
  <2> HIDE DEF k, changes
  <2>3. k < n => k + 1 \in 1 .. n
        BY <1>1, <2>1
  <2> QED BY <1>3, <1>4, <2>2, <2>3, LinksAreValues
<1>8. Changed(d, l, ToSet(chain), {})
  <2>1. l = write_fat_entry_all(d, changes) /\ DOMAIN changes = ToSet(chain)
        BY DEF Linked
  <2> HIDE DEF changes, l
  <2> QED BY <1>7, <2>1, TableChanged
<1>9. Changed(l, [l EXCEPT !.data = data], {}, ToSet(chain))
  <2>1. \A c \in DOMAIN l.data : DOMAIN data[c] \in {DOMAIN l.data[c], 1 .. ClusterUnits}
        BY DEF Piece
  <2>2. \A c \in DOMAIN l.data : c \notin ToSet(chain) => data[c] = l.data[c]
        BY <1>5 DEF ToSet
  <2>3. DOMAIN data = DOMAIN l.data
        OBVIOUS
  <2> HIDE DEF data, l
  <2> QED BY <2>1, <2>2, <2>3, DataChanged
<1>10. write_chain_data(l, chain, content) = [l EXCEPT !.data = data]
      BY DEF write_chain_data
<1> HIDE DEF l, data, changes
<1>11. Changed(d, write_chain_data(l, chain, content), ToSet(chain) \cup {}, {} \cup ToSet(chain))
      BY <1>8, <1>9, <1>10, ChangedTwice
<1>12. Changed(d, write_chain_data(l, chain, content), F, F)
      BY <1>6, <1>11 DEF Changed, Differs
<1>13. Changed(d, d, F, F)
      BY DEF Changed, Differs
<1>14. Stored(d, content) = IF content = <<>> THEN d ELSE write_chain_data(l, chain, content)
      BY DEF Stored, l, chain, n
<1> QED BY <1>12, <1>13, <1>14 DEF F
-----------------------------------------------------------------------------
(* What the searches find is a slot of the directory; an entry found has   *)
(* the name, and lies before the end of the directory.                     *)
LEMMA FreeSlotFound ==
    ASSUME NEW d, NEW chain, Len(chain) \in Nat,
           NEW free, free = find_free_dir_entry_slot(d, chain), free # 0
    PROVE  free \in 1 .. Len(chain) * ClusterUnits
<1> DEFINE units == Units(d, chain)
           I == {i \in 1 .. Len(units) : units[i] \in {END, DEL}}
<1>1. Len(units) = Len(chain) * ClusterUnits
      BY UnitsAreSeq
<1>2. find_free_dir_entry_slot(d, chain) = IF I # {} THEN Min(I) ELSE 0
      BY DEF find_free_dir_entry_slot, SelectInSeq
<1>3. I \in SUBSET Nat
      OBVIOUS
<1>4. free \in I
  <2> HIDE DEF I
  <2> QED BY <1>2, <1>3, MinIsOne
<1> QED BY <1>1, <1>4

LEMMA EntryFound ==
    ASSUME NEW d, NEW chain, Len(chain) \in Nat, NEW name,
           NEW slot, slot = find_dir_entry(d, chain, name), slot # 0
    PROVE  /\ slot \in 1 .. Len(chain) * ClusterUnits
           /\ Units(d, chain)[slot] \in ToSet(BeforeEnd(Units(d, chain)))
           /\ Units(d, chain)[slot].name = name
<1> DEFINE units  == Units(d, chain)
           before == BeforeEnd(units)
           I == {i \in 1 .. Len(before) : before[i].tag = "entry" /\ before[i].name = name}
<1>1. Len(units) = Len(chain) * ClusterUnits /\ Len(units) \in Nat
      BY UnitsAreSeq
<1>2. PICK S : units \in Seq(S)
      BY UnitsAreSeq
<1>3. /\ before \in Seq(S) /\ Len(before) <= Len(units)
      /\ \A n \in 1 .. Len(before) : before[n] = units[n]
  <2> HIDE DEF units
  <2> QED BY <1>2, BeforeEndOf
<1>4. find_dir_entry(d, chain, name) = IF I # {} THEN Min(I) ELSE 0
      BY DEF find_dir_entry, SelectInSeq
<1>5. I \in SUBSET Nat
      OBVIOUS
<1>6. slot \in I
  <2> HIDE DEF I
  <2> QED BY <1>4, <1>5, MinIsOne
<1>7. slot \in 1 .. Len(before) /\ before[slot].name = name
      BY <1>6
<1> HIDE DEF I, units, before
<1>8. slot \in 1 .. Len(units) /\ units[slot] = before[slot] /\ Len(before) \in Nat
      BY <1>1, <1>3, <1>7
<1>9. before[slot] \in ToSet(before)
      BY <1>3, <1>7 DEF ToSet
<1> QED BY <1>1, <1>7, <1>8, <1>9 DEF units, before
-----------------------------------------------------------------------------
(* The writes to a directory change its clusters only, and no link.        *)
LEMMA SlotChanges ==
    ASSUME NEW d, NEW chain, Len(chain) \in Nat, DOMAIN chain = 1 .. Len(chain),
           NEW n \in 1 .. Len(chain) * ClusterUnits, NEW u
    PROVE  Changed(d, SetSlot(d, chain, n, u), {}, ToSet(chain))
<1> DEFINE c    == SlotCluster(chain, n)
           i    == SlotIndex(n)
           data == [d.data EXCEPT ![c] = [@ EXCEPT ![i] = u]]
<1>1. c \in ToSet(chain)
      BY SlotInChain
<1>2. SetSlot(d, chain, n, u) = [d EXCEPT !.data = data]
      BY DEF SetSlot
<1> HIDE DEF c, i
<1>3. DOMAIN data = DOMAIN d.data
      OBVIOUS
<1>4. \A b \in DOMAIN d.data : DOMAIN data[b] \in {DOMAIN d.data[b], 1 .. ClusterUnits}
      OBVIOUS
<1>5. \A b \in DOMAIN d.data : b \notin ToSet(chain) => data[b] = d.data[b]
      BY <1>1
<1> HIDE DEF data
<1>6. Changed(d, [d EXCEPT !.data = data], {}, ToSet(chain))
      BY <1>3, <1>4, <1>5, DataChanged
<1> QED BY <1>2, <1>6

LEMMA EntryChanges ==
    ASSUME NEW d, NEW chain, Len(chain) \in Nat, DOMAIN chain = 1 .. Len(chain),
           NEW n \in 1 .. Len(chain) * ClusterUnits, NEW name, NEW first, NEW content
    PROVE  Changed(d, write_dir_entry(d, chain, n, name, first, content), {}, ToSet(chain))
    BY SlotChanges DEF write_dir_entry

LEMMA EndChanges ==
    ASSUME NEW d, NEW chain, Len(chain) \in Nat, DOMAIN chain = 1 .. Len(chain),
           NEW n \in 1 .. Len(chain) * ClusterUnits, NEW was_end
    PROVE  Changed(d, MoveEnd(d, chain, n, was_end), {}, ToSet(chain))
<1>1. CASE was_end /\ SlotIndex(n) < ClusterUnits
  <2>1. n + 1 \in 1 .. Len(chain) * ClusterUnits
        BY <1>1, NextSlot
  <2>2. Changed(d, SetSlot(d, chain, n + 1, END), {}, ToSet(chain))
        BY <2>1, SlotChanges
  <2> QED BY <1>1, <2>2 DEF MoveEnd
<1>2. CASE ~ (was_end /\ SlotIndex(n) < ClusterUnits)
      BY <1>2 DEF MoveEnd, Changed, Differs
<1> QED BY <1>1, <1>2

(* A new file takes free clusters, and a slot of the directory.            *)
LEMMA AddChanges ==
    ASSUME NEW d, NEW after, NEW r, NEW name, NEW content, Len(content) \in Nat,
           NEW chain, Len(chain) \in Nat, DOMAIN chain = 1 .. Len(chain),
           AddFile(d, after, r, chain, name, content)
    PROVE  Changed(d, after, FreeClusters(d), FreeClusters(d) \cup ToSet(chain))
<1> DEFINE F    == FreeClusters(d)
           full == Stored(d, content)
           free == find_free_dir_entry_slot(full, chain)
           first == FirstCluster(d, content)
<1>1. CASE NoClusters(d, after, r)
      BY <1>1 DEF NoClusters, Changed, Differs
<1>2. CASE /\ CanAlloc(d, needed(content))
           /\ AddEntry(full, after, r, chain, free, name, first, content)
  <2>1. Changed(d, full, F, F)
        BY <1>2, StoreChanges
  <2>2. CASE NoSlot(full, after, r)
        BY <2>1, <2>2 DEF NoSlot, Changed, Differs
  <2>3. CASE free # 0 /\ Create(full, after, r, chain, free, name, first, content)
    <3> DEFINE entered == write_dir_entry(full, chain, free, name, first, content)
               was_end == Units(full, chain)[free] = END
    <3>1. free \in 1 .. Len(chain) * ClusterUnits
          BY <2>3, FreeSlotFound
    <3>2. after = MoveEnd(entered, chain, free, was_end)
          BY <2>3 DEF Create
    <3> HIDE DEF free, full, F, first, was_end
    <3>3. Changed(full, entered, {}, ToSet(chain))
          BY <3>1, EntryChanges
    <3> HIDE DEF entered
    <3>4. Changed(entered, after, {}, ToSet(chain))
          BY <3>1, <3>2, EndChanges
    <3>5. Changed(d, entered, F \cup {}, F \cup ToSet(chain))
          BY <2>1, <3>3, ChangedTwice
    <3>6. Changed(d, after, (F \cup {}) \cup {}, (F \cup ToSet(chain)) \cup ToSet(chain))
          BY <3>4, <3>5, ChangedTwice
    <3> QED BY <3>6 DEF F, Changed, Differs
  <2> QED BY <1>2, <2>2, <2>3 DEF AddEntry
<1> QED BY <1>1, <1>2 DEF AddFile

(* A replacement gives up the chain that its entry heads, and takes from   *)
(* what is free then.                                                      *)
LEMMA FreedAreFree ==
    ASSUME NEW d, NEW e, NEW T, NEW D, Differs(d, e, T, D)
    PROVE  FreeClusters(e) \subseteq FreeClusters(d) \cup T
    BY DEF FreeClusters, Differs

LEMMA OverwriteChanges ==
    ASSUME NEW d, NEW after, NEW r, NEW name, NEW content, Len(content) \in Nat,
           NEW chain, Len(chain) \in Nat, DOMAIN chain = 1 .. Len(chain),
           NEW slot \in 1 .. Len(chain) * ClusterUnits,
           NEW freed, NEW T, Changed(d, freed, T, {}),
           Overwrite(freed, after, r, chain, slot, name, content)
    PROVE  LET F == FreeClusters(d) \cup T
           IN  Changed(d, after, F, F \cup ToSet(chain))
<1> DEFINE F == FreeClusters(d) \cup T
           G == FreeClusters(freed)
<1>1. CASE TornOverwrite(freed, after, r)
      BY <1>1 DEF TornOverwrite, Changed, Differs
<1>2. CASE /\ CanAlloc(freed, needed(content))
           /\ after = write_dir_entry(Stored(freed, content), chain, slot, name,
                                      FirstCluster(freed, content), content)
  <2> DEFINE full == Stored(freed, content)
  <2>1. Changed(freed, full, G, G)
        BY <1>2, StoreChanges
  <2>2. Changed(full, after, {}, ToSet(chain))
        BY <1>2, EntryChanges
  <2> HIDE DEF full
  <2>3. IsVolume(d) /\ InRange(d) => G \subseteq F
        BY FreedAreFree DEF Changed
  <2> HIDE DEF F, G
  <2>4. Changed(d, full, T \cup G, {} \cup G)
        BY <2>1, ChangedTwice
  <2>5. Changed(d, after, (T \cup G) \cup {}, ({} \cup G) \cup ToSet(chain))
        BY <2>2, <2>4, ChangedTwice
  <2>6. T \subseteq F
        BY DEF F
  <2> QED BY <2>3, <2>5, <2>6 DEF F, Changed, Differs
<1> QED BY <1>1, <1>2 DEF Overwrite
-----------------------------------------------------------------------------
(* The volume after each step of a write, unit by unit.                    *)
LEMMA TableIs ==
    ASSUME NEW d, IsVolume(d), NEW changes
    PROVE  /\ write_fat_entry_all(d, changes).data = d.data
           /\ \A c \in Clusters :
                 read_fat_entry(write_fat_entry_all(d, changes), c)
                     = IF c \in DOMAIN changes THEN changes[c] ELSE read_fat_entry(d, c)
<1> DEFINE e == write_fat_entry_all(d, changes)
<1>1. d = [fat |-> d.fat, data |-> d.data] /\ 1 \in 1 .. NumFats
      BY FatAssumption DEF IsVolume
<1>2. /\ e.data = d.data
      /\ e.fat = [i \in 1 .. NumFats |-> [c \in DOMAIN d.fat[i] |->
                    IF c \in DOMAIN changes THEN changes[c] ELSE d.fat[i][c]]]
      BY <1>1 DEF write_fat_entry_all
<1> HIDE DEF e
<1>3. \A c \in Clusters : c \in DOMAIN d.fat[1]
      BY <1>1, FatAssumption DEF IsVolume, Clusters
<1>4. \A c \in Clusters :
         e.fat[1][c] = IF c \in DOMAIN changes THEN changes[c] ELSE d.fat[1][c]
      BY <1>1, <1>2, <1>3
<1> QED BY <1>2, <1>4 DEF read_fat_entry, e

LEMMA FreedIs ==
    ASSUME NEW d, IsVolume(d), NEW start, ~ (start < 2)
    PROVE  /\ free_chain(d, start).data = d.data
           /\ \A c \in Clusters : read_fat_entry(free_chain(d, start), c)
                  = IF c \in ToSet(Chain(d, start)) THEN FREE ELSE read_fat_entry(d, c)
<1> DEFINE changes == [c \in ToSet(Chain(d, start)) |-> FREE]
<1>1. free_chain(d, start) = write_fat_entry_all(d, changes)
      BY DEF free_chain
<1>2. DOMAIN changes = ToSet(Chain(d, start)) /\ \A c \in ToSet(Chain(d, start)) : changes[c] = FREE
      OBVIOUS
<1> HIDE DEF changes
<1> QED BY <1>1, <1>2, TableIs

LEMMA NeededIs ==
    ASSUME NEW content, IsSequence(content)
    PROVE  /\ needed(content) \in Nat /\ Len(content) \in Nat
           /\ content # <<>> => needed(content) >= 1
<1> DEFINE q == (Len(content) + ClusterUnits - 1) \div ClusterUnits
<1>1. ClusterUnits \in Nat \ {0} /\ Len(content) \in Nat
      BY FatAssumption DEF IsSequence
<1>2. Len(content) + ClusterUnits - 1 \in Nat
      BY <1>1
<1>3. q \in Nat /\ (Len(content) + ClusterUnits - 1) % ClusterUnits \in 0 .. ClusterUnits - 1
      /\ Len(content) + ClusterUnits - 1
            = ClusterUnits * q + ((Len(content) + ClusterUnits - 1) % ClusterUnits)
      BY <1>1, <1>2, Quotient
<1>4. needed(content) = q
      BY DEF needed, div_ceil
<1> HIDE DEF q
<1>5. content # <<>> => Len(content) >= 1
      BY <1>1 DEF IsSequence
<1>6. q = 0 => ClusterUnits * q = 0
      BY <1>1
<1>7. Len(content) >= 1 => q # 0
      BY <1>1, <1>3, <1>6
<1> QED BY <1>1, <1>3, <1>4, <1>5, <1>7

(* A content that is stored: its clusters were free, and are linked in     *)
(* their order.                                                            *)
LEMMA StoredIs ==
    ASSUME NEW d, IsVolume(d), InRange(d), NEW content, IsSequence(content),
           content # <<>>, CanAlloc(d, needed(content)),
           NEW n, n = needed(content), NEW chain, chain = alloc_chain(d, n),
           NEW e, e = Stored(d, content)
    PROVE  /\ n \in Nat /\ n >= 1 /\ Len(chain) = n /\ DOMAIN chain = 1 .. n
           /\ \A k \in 1 .. n : chain[k] \in FreeClusters(d)
           /\ \A k, l \in 1 .. n : chain[k] = chain[l] => k = l
           /\ \A k \in 1 .. n : read_fat_entry(e, chain[k]) = IF k < n THEN chain[k + 1] ELSE EOC
           /\ \A k \in 1 .. n : e.data[chain[k]] = Piece(content, k)
           /\ \A c \in Clusters \ ToSet(chain) :
                 read_fat_entry(e, c) = read_fat_entry(d, c) /\ e.data[c] = d.data[c]
<1>1. n \in Nat /\ n >= 1
      BY NeededIs
<1>2. \A k \in 1 .. n : chain[k] \in FreeClusters(d)
      BY <1>1, Allocated
<1>3. \A k, l \in 1 .. n : chain[k] = chain[l] => k = l
      BY <1>1, Allocated
<1>4. Len(chain) = n /\ DOMAIN chain = 1 .. n
  <2>1. chain = [k \in 1 .. n |-> Nth(FreeClusters(d), k)]
        BY DEF alloc_chain
  <2>2. chain = [k \in 1 .. n |-> chain[k]]
        BY <2>1
  <2> QED BY <1>1, <2>2, FunctionIsSeq
<1>5. \A k \in 1 .. n : chain[k] \in Clusters
      BY <1>2 DEF FreeClusters
<1> DEFINE Place(c) == CHOOSE k \in 1 .. Len(chain) : chain[k] = c
           changes  == [c \in ToSet(chain) |->
                            IF Place(c) < Len(chain) THEN chain[Place(c) + 1] ELSE EOC]
           l == write_fat_entry_all(d, changes)
<1>6. \A k \in 1 .. n : Place(chain[k]) = k
      BY <1>3, <1>4
<1>7. DOMAIN changes = ToSet(chain)
      OBVIOUS
<1>8. \A k \in 1 .. n : chain[k] \in ToSet(chain)
      BY <1>4 DEF ToSet
<1>9. \A k \in 1 .. n : changes[chain[k]] = IF k < n THEN chain[k + 1] ELSE EOC
  <2> HIDE DEF Place
  <2> QED BY <1>4, <1>6, <1>8
<1>10. Linked(d, chain) = l
      BY DEF Linked
<1> HIDE DEF changes
<1>11. l.data = d.data /\ \A c \in Clusters :
          read_fat_entry(l, c) = IF c \in ToSet(chain) THEN changes[c] ELSE read_fat_entry(d, c)
      BY <1>7, TableIs
<1>12. IsVolume(l)
      BY TableWritten
<1> HIDE DEF l
<1> DEFINE data == [c \in DOMAIN l.data |->
                IF \E k \in 1 .. Len(chain) : chain[k] = c
                THEN Piece(content, Place(c)) ELSE l.data[c]]
<1>13. e = [l EXCEPT !.data = data]
      BY <1>10 DEF Stored, write_chain_data
<1>14. \A c \in Clusters : data[c] = IF \E k \in 1 .. Len(chain) : chain[k] = c
                THEN Piece(content, Place(c)) ELSE d.data[c]
      BY <1>11 DEF InRange
<1> HIDE DEF data, Place
<1>15. e.data = data /\ e.fat = l.fat
      BY <1>12, <1>13 DEF IsVolume
<1>16. \A c : read_fat_entry(e, c) = read_fat_entry(l, c)
      BY <1>15 DEF read_fat_entry
<1>17. \A k \in 1 .. n : read_fat_entry(e, chain[k]) = IF k < n THEN chain[k + 1] ELSE EOC
      BY <1>5, <1>8, <1>9, <1>11, <1>16
<1>18. \A k \in 1 .. n : e.data[chain[k]] = Piece(content, k)
      BY <1>4, <1>5, <1>6, <1>14, <1>15
<1>19. \A c \in Clusters \ ToSet(chain) :
          read_fat_entry(e, c) = read_fat_entry(d, c) /\ e.data[c] = d.data[c]
  <2> SUFFICES ASSUME NEW c \in Clusters \ ToSet(chain)
               PROVE  read_fat_entry(e, c) = read_fat_entry(d, c) /\ e.data[c] = d.data[c]
      OBVIOUS
  <2>1. ~ \E k \in 1 .. Len(chain) : chain[k] = c
        BY <1>4 DEF ToSet
  <2> QED BY <1>11, <1>14, <1>15, <1>16, <2>1
<1> QED BY <1>1, <1>2, <1>3, <1>4, <1>17, <1>18, <1>19

(* A slot that is written: one unit of one cluster.                        *)
LEMMA SlotIs ==
    ASSUME NEW d, IsVolume(d), InRange(d), NEW chain, Len(chain) \in Nat,
           NEW k \in 1 .. Len(chain), chain[k] \in Clusters, NEW i \in 1 .. ClusterUnits, NEW u,
           NEW e, e = SetSlot(d, chain, Pos(k, i), u)
    PROVE  /\ e.fat = d.fat
           /\ \A b \in Clusters, j \in 1 .. ClusterUnits :
                 e.data[b][j] = IF b = chain[k] /\ j = i THEN u ELSE d.data[b][j]
<1>1. SlotCluster(chain, Pos(k, i)) = chain[k] /\ SlotIndex(Pos(k, i)) = i
      BY PosIsSlot
<1> DEFINE data == [d.data EXCEPT ![chain[k]] = [@ EXCEPT ![i] = u]]
<1>2. e = [d EXCEPT !.data = data]
      BY <1>1 DEF SetSlot
<1>3. \A b \in Clusters : b \in DOMAIN d.data /\ DOMAIN d.data[b] = 1 .. ClusterUnits
      BY DEF InRange
<1>4. \A b \in Clusters, j \in 1 .. ClusterUnits :
         data[b][j] = IF b = chain[k] /\ j = i THEN u ELSE d.data[b][j]
      BY <1>3
<1> HIDE DEF data
<1>5. e.data = data /\ e.fat = d.fat
      BY <1>2 DEF IsVolume
<1> QED BY <1>4, <1>5
-----------------------------------------------------------------------------
(* The directories of a volume, step by step.  What happens outside their  *)
(* clusters leaves them as they are.                                       *)
OutsideStep(d, e, D) ==
    /\ \A c \in D : read_fat_entry(e, c) = read_fat_entry(d, c) /\ e.data[c] = d.data[c]
    /\ \A c \in Clusters \ D : read_fat_entry(e, c) \notin D
    /\ FilesPlain(e, D)

LEMMA OutsideKeeps ==
    ASSUME NEW d, IsVolume(d), InRange(d), NEW e, IsVolume(e), InRange(e),
           NEW D, DirsSound(d, D), OutsideStep(d, e, D)
    PROVE  DirsSound(e, D) /\ DirsKept(d, e, D)
<1>1. \A c \in D : read_fat_entry(e, c) = read_fat_entry(d, c) /\ e.data[c] = d.data[c]
      BY DEF OutsideStep
<1>2. \A c \in D, i \in 1 .. ClusterUnits :
         /\ Shown(e, c, i) <=> Shown(d, c, i)
         /\ EntryIn(e, c, i) <=> EntryIn(d, c, i)
         /\ ListedIn(e, c, i) <=> ListedIn(d, c, i)
      BY <1>1 DEF Shown, EntryIn, ListedIn
<1>3. DirsKept(d, e, D)
      BY <1>1, <1>2 DEF DirsKept, DirAt
<1>4. Starts(e, D) = Starts(d, D)
      BY <1>1 DEF Starts
<1>5. TableSound(e, D)
      BY <1>1, <1>4 DEF TableSound, Apart, OutsideStep, DirsSound
<1>6. EntriesSound(e, D)
      BY <1>1, <1>2, <1>4 DEF EntriesSound, FirstSound, DirsSound
<1>7. EndsSound(e, D)
  <2> SUFFICES ASSUME NEW c \in D, read_fat_entry(e, c) \in D,
                      NEW i \in 1 .. ClusterUnits, e.data[c][i] = END
               PROVE  e.data[read_fat_entry(e, c)][1] = END
      BY DEF EndsSound
  <2>1. d.data[c][i] = END /\ read_fat_entry(d, c) \in D
        BY <1>1
  <2>2. d.data[read_fat_entry(d, c)][1] = END
        BY <2>1 DEF EndsSound, DirsSound
  <2> QED BY <1>1, <2>1, <2>2
<1>8. NamesSound(e, D)
  <2> SUFFICES ASSUME NEW h \in Starts(e, D) PROVE UniqueIn(e, h)
      BY DEF NamesSound
  <2>1. h \in Starts(d, D) /\ TableSound(d, D)
        BY <1>4 DEF DirsSound
  <2>2. h \in D
        BY <2>1, StartsInRange DEF TableSound
  <2>3. \A g \in {0, 1} \cup D : Chain(e, g) = Chain(d, g)
        BY <1>3, <2>1, KeptChains
  <2>4. Chain(e, h) = Chain(d, h)
        BY <2>2, <2>3
  <2> DEFINE S == ToSet(Chain(d, h))
  <2>5. \A c \in S : c \in D
        BY <2>1, DirChain
  <2>6. UniqueIn(d, h)
        BY <2>1 DEF DirsSound, NamesSound
  <2>7. \A a, b \in S, i, j \in 1 .. ClusterUnits :
           /\ EntryIn(d, a, i) /\ EntryIn(d, b, j)
           /\ d.data[a][i].name = d.data[b][j].name
           => a = b /\ i = j
        BY <2>6 DEF UniqueIn
  <2>8. ToSet(Chain(e, h)) = S
        BY <2>4
  <2> HIDE DEF S
  <2> QED BY <1>1, <1>2, <2>5, <2>7, <2>8 DEF UniqueIn
<1> QED BY <1>3, <1>5, <1>6, <1>7, <1>8 DEF DirsSound, OutsideStep

(* The chain of a file is outside.                                         *)
LEMMA FileChain ==
    ASSUME NEW d, IsVolume(d), InRange(d), NEW D, TableSound(d, D),
           NEW start \in Clusters \ D
    PROVE  /\ IsChain(d, start, MaxChain, Chain(d, start))
           /\ \A c \in ToSet(Chain(d, start)) : c \in Clusters \ D
<1> DEFINE chain == Chain(d, start)
<1>1. Closed(d, Clusters \ D)
      BY DEF Closed, TableSound
<1>2. MaxChain \in Nat \ {0} /\ MaxChain \in Nat /\ start \in 0 .. MaxCluster
      BY FatAssumption DEF Clusters
<1>3. IsChain(d, start, MaxChain, chain)
      BY <1>2, LinksAreChain DEF Chain
<1> HIDE DEF chain
<1>4. \A k \in 1 .. Len(chain) : chain[k] \in Clusters \ D
      BY <1>1, <1>2, <1>3, ChainInside
<1>5. DOMAIN chain = 1 .. Len(chain)
      BY <1>3 DEF IsChain
<1>6. \A c \in ToSet(chain) : c \in Clusters \ D
      BY <1>4, <1>5 DEF ToSet
<1> QED BY <1>3, <1>6 DEF chain

LEMMA FreeInRange ==
    ASSUME NEW d, IsVolume(d), InRange(d), NEW start
    PROVE  IsVolume(free_chain(d, start)) /\ InRange(free_chain(d, start))
    BY FreeChanges DEF Changed

LEMMA DirsUsed ==
    ASSUME NEW d, NEW D, TableSound(d, D)
    PROVE  FREE \notin D /\ EOC \notin D /\ FreeClusters(d) \subseteq Clusters \ D
<1>1. FREE \notin Clusters /\ EOC \notin Clusters /\ FREE \notin EOC_MIN .. EOC
      BY FatAssumption, MarkAssumption, SMT DEF FREE, EOC, EOC_MIN, Clusters
<1> QED BY <1>1 DEF TableSound, FreeClusters

LEMMA FreeKeeps ==
    ASSUME NEW d, IsVolume(d), InRange(d), NEW D, DirsSound(d, D),
           NEW start \in {0, 1} \cup (Clusters \ D), NEW e, e = free_chain(d, start)
    PROVE  DirsSound(e, D) /\ DirsKept(d, e, D)
<1>1. CASE start < 2
  <2>1. e = d
        BY <1>1 DEF free_chain
  <2> QED BY <2>1 DEF DirsKept
<1>2. CASE ~ (start < 2)
  <2>1. start \in Clusters \ D /\ TableSound(d, D)
        BY <1>2 DEF DirsSound
  <2>2. \A c \in ToSet(Chain(d, start)) : c \in Clusters \ D
        BY <2>1, FileChain
  <2>3. e.data = d.data /\ \A c \in Clusters :
           read_fat_entry(e, c) = IF c \in ToSet(Chain(d, start)) THEN FREE ELSE read_fat_entry(d, c)
        BY <1>2, FreedIs
  <2>4. FREE \notin D /\ D \subseteq Clusters
        BY <2>1, DirsUsed DEF TableSound
  <2>5. \A c \in D : read_fat_entry(e, c) = read_fat_entry(d, c) /\ e.data[c] = d.data[c]
        BY <2>2, <2>3, <2>4
  <2>6. \A c \in Clusters \ D : read_fat_entry(e, c) \notin D
        BY <2>1, <2>3, <2>4 DEF TableSound
  <2>7. FilesPlain(e, D)
        BY <2>3 DEF FilesPlain, DirsSound
  <2>8. OutsideStep(d, e, D)
        BY <2>5, <2>6, <2>7 DEF OutsideStep
  <2> QED BY <2>8, OutsideKeeps, FreeInRange
<1> QED BY <1>1, <1>2

LEMMA StoreKeeps ==
    ASSUME NEW d, IsVolume(d), InRange(d), NEW D, DirsSound(d, D),
           NEW content, IsSequence(content), Plain(content),
           CanAlloc(d, needed(content)), NEW e, e = Stored(d, content)
    PROVE  /\ DirsSound(e, D) /\ DirsKept(d, e, D)
           /\ \A c \in D : e.data[c] = d.data[c]
<1>1. CASE content = <<>>
  <2>1. e = d
        BY <1>1 DEF Stored
  <2> QED BY <2>1 DEF DirsKept
<1>2. CASE content # <<>>
  <2>1. PICK n : n = needed(content)
        OBVIOUS
  <2>2. PICK chain : chain = alloc_chain(d, n)
        OBVIOUS
  <2>3. /\ n \in Nat /\ n >= 1 /\ Len(chain) = n /\ DOMAIN chain = 1 .. n
        /\ \A k \in 1 .. n : chain[k] \in FreeClusters(d)
        /\ \A k \in 1 .. n : read_fat_entry(e, chain[k]) = IF k < n THEN chain[k + 1] ELSE EOC
        /\ \A k \in 1 .. n : e.data[chain[k]] = Piece(content, k)
        /\ \A c \in Clusters \ ToSet(chain) :
              read_fat_entry(e, c) = read_fat_entry(d, c) /\ e.data[c] = d.data[c]
        BY <1>2, <2>1, <2>2, StoredIs
  <2>4. TableSound(d, D) /\ D \subseteq Clusters
        BY DEF DirsSound, TableSound
  <2>5. FREE \notin D /\ EOC \notin D /\ FreeClusters(d) \subseteq Clusters \ D
        BY <2>4, DirsUsed
  <2>6. \A c \in ToSet(chain) : c \in Clusters \ D /\ \E k \in 1 .. n : c = chain[k]
        BY <2>3, <2>5 DEF ToSet
  <2>7. \A c \in D : read_fat_entry(e, c) = read_fat_entry(d, c) /\ e.data[c] = d.data[c]
        BY <2>3, <2>4, <2>6
  <2>8. \A c \in Clusters \ D : read_fat_entry(e, c) \notin D
    <3> SUFFICES ASSUME NEW c \in Clusters \ D PROVE read_fat_entry(e, c) \notin D
        OBVIOUS
    <3>1. CASE c \notin ToSet(chain)
          BY <2>3, <2>4, <3>1 DEF TableSound
    <3>2. CASE c \in ToSet(chain)
      <4>1. PICK k \in 1 .. n : c = chain[k]
            BY <2>6, <3>2
      <4>2. CASE k < n
        <5>1. k + 1 \in 1 .. n
              BY <2>3, <4>2
        <5> QED BY <2>3, <2>5, <4>1, <4>2, <5>1
      <4>3. CASE ~ (k < n)
            BY <2>3, <2>5, <4>1, <4>3
      <4> QED BY <4>2, <4>3
    <3> QED BY <3>1, <3>2
  <2>9. FilesPlain(e, D)
    <3> SUFFICES ASSUME NEW c \in Clusters \ D, NEW i \in 1 .. ClusterUnits,
                        read_fat_entry(e, c) # FREE
                 PROVE  ~ Parsed(e.data[c][i])
        BY DEF FilesPlain
    <3>1. CASE c \notin ToSet(chain)
          BY <2>3, <3>1 DEF DirsSound, FilesPlain
    <3>2. CASE c \in ToSet(chain)
      <4>1. PICK k \in 1 .. n : c = chain[k]
            BY <2>6, <3>2
      <4>2. PICK m \in Int : m = (k - 1) * ClusterUnits + i /\ m >= 1
        <5>1. k - 1 \in Nat /\ ClusterUnits \in Nat
              BY <2>3, FatAssumption
        <5>2. (k - 1) * ClusterUnits \in Nat
              BY <5>1
        <5> QED BY <5>2
      <4>3. e.data[c][i] = IF m <= Len(content) THEN content[m] ELSE END
        <5>1. e.data[c] = Piece(content, k)
              BY <2>3, <4>1
        <5> QED BY <4>2, <5>1 DEF Piece
      <4>4. ~ Parsed(END)
            BY DEF Parsed, END
      <4>5. m <= Len(content) => m \in 1 .. Len(content)
            BY <4>2 DEF IsSequence
      <4> QED BY <4>3, <4>4, <4>5 DEF Plain
    <3> QED BY <3>1, <3>2
  <2>10. IsVolume(e) /\ InRange(e)
    <3>1. Len(content) \in Nat
          BY DEF IsSequence
    <3> QED BY <3>1, StoreChanges DEF Changed
  <2>11. OutsideStep(d, e, D)
        BY <2>7, <2>8, <2>9 DEF OutsideStep
  <2> QED BY <2>7, <2>10, <2>11, OutsideKeeps
<1> QED BY <1>1, <1>2
-----------------------------------------------------------------------------
(* An entry put at a slot; if that was the end of its directory, the mark  *)
(* is behind it then, as far as the cluster reaches.                       *)
Entered(d, e, c, i, u) ==
    /\ e.fat = d.fat
    /\ \A b \in Clusters, j \in 1 .. ClusterUnits :
          e.data[b][j] = IF b = c /\ j = i THEN u
                         ELSE IF b = c /\ j = i + 1 /\ d.data[c][i] = END THEN END
                         ELSE d.data[b][j]

(* The search for a slot has passed no end mark in the slot's cluster.     *)
NoEndBefore(d, c, i) == \A j \in 1 .. ClusterUnits : j < i => d.data[c][j] # END

(* Nothing but the entry is shown that was not, and nothing is hidden.     *)
ShowsToo(d, e, c, i) ==
    \A b \in Clusters, j \in 1 .. ClusterUnits :
       /\ Shown(e, b, j) <=> Shown(d, b, j) \/ (b = c /\ j = i)
       /\ Shown(d, b, j) /\ ~ (b = c /\ j = i) => e.data[b][j] = d.data[b][j]

LEMMA EnteredShown ==
    ASSUME NEW d, NEW e, NEW c \in Clusters, NEW i \in 1 .. ClusterUnits, NEW u,
           Entered(d, e, c, i, u), u # END,
           NoEndBefore(d, c, i)
    PROVE  ShowsToo(d, e, c, i)
<1> SUFFICES ASSUME NEW b \in Clusters, NEW j \in 1 .. ClusterUnits
             PROVE  /\ Shown(e, b, j) <=> Shown(d, b, j) \/ (b = c /\ j = i)
                    /\ Shown(d, b, j) /\ ~ (b = c /\ j = i) => e.data[b][j] = d.data[b][j]
    BY DEF ShowsToo
<1>1. ClusterUnits \in Nat
      BY FatAssumption
<1>2. \A m \in 1 .. j : m \in 1 .. ClusterUnits
      BY <1>1
<1>3. CASE b # c
  <2>1. \A m \in 1 .. ClusterUnits : e.data[b][m] = d.data[b][m]
        BY <1>3 DEF Entered
  <2> QED BY <1>2, <1>3, <2>1 DEF Shown
<1>4. CASE b = c /\ d.data[c][i] # END
  <2>1. \A m \in 1 .. ClusterUnits : e.data[b][m] = IF m = i THEN u ELSE d.data[b][m]
        BY <1>4 DEF Entered
  <2>2. \A m \in 1 .. ClusterUnits : e.data[b][m] = END <=> d.data[b][m] = END
        BY <1>4, <2>1
  <2>3. Shown(e, b, j) <=> Shown(d, b, j)
        BY <1>2, <2>2 DEF Shown
  <2>4. j = i => Shown(d, b, j)
    <3> SUFFICES ASSUME j = i, NEW m \in 1 .. j PROVE d.data[c][m] # END
        BY <1>4 DEF Shown
    <3>1. m = i \/ m < i
          BY <1>1
    <3> QED BY <1>2, <1>4, <3>1 DEF NoEndBefore
  <2> QED BY <1>4, <2>1, <2>3, <2>4
<1>5. CASE b = c /\ d.data[c][i] = END
  <2>1. \A m \in 1 .. ClusterUnits :
           e.data[b][m] = IF m = i THEN u ELSE IF m = i + 1 THEN END ELSE d.data[b][m]
        BY <1>5 DEF Entered
  <2>2. CASE j <= i
    <3>1. \A m \in 1 .. j : m = i \/ (m < i /\ m # i + 1 /\ d.data[b][m] # END)
          BY <1>1, <1>2, <1>5, <2>2 DEF NoEndBefore
    <3>2. \A m \in 1 .. j : e.data[b][m] # END
          BY <1>2, <2>1, <3>1
    <3>3. j # i => Shown(d, b, j)
      <4> SUFFICES ASSUME j # i, NEW m \in 1 .. j PROVE d.data[b][m] # END
          BY DEF Shown
      <4>1. m # i
            BY <1>1, <2>2
      <4> QED BY <3>1, <4>1
    <3>4. j # i => e.data[b][j] = d.data[b][j]
          BY <1>1, <2>1, <2>2
    <3>5. j = i => ~ Shown(d, b, j)
          BY <1>1, <1>5 DEF Shown
    <3> QED BY <1>5, <3>2, <3>3, <3>4, <3>5 DEF Shown
  <2>3. CASE j > i
    <3>1. i \in 1 .. j /\ i + 1 \in 1 .. j /\ i + 1 # i
          BY <1>1, <2>3
    <3>2. ~ Shown(d, b, j)
          BY <1>5, <3>1 DEF Shown
    <3>3. e.data[b][i + 1] = END
          BY <1>2, <2>1, <3>1
    <3>4. ~ Shown(e, b, j)
          BY <3>1, <3>3 DEF Shown
    <3> QED BY <1>1, <2>3, <3>2, <3>4
  <2> QED BY <1>1, <2>2, <2>3
<1> QED BY <1>3, <1>4, <1>5

(* The slot of a directory where an entry may go: the search has passed no *)
(* end mark before it, and the directory has no other entry of the name.   *)
MayEnter(d, h, k, i, u) ==
    LET chain == Chain(d, h)
        c     == chain[k]
    IN  /\ NoEndBefore(d, c, i)
        /\ d.data[c][i] = END =>
              \A l \in 1 .. Len(chain), j \in 1 .. ClusterUnits :
                  l < k => d.data[chain[l]][j] # END
        /\ ~ DirAt(d, c, i)
        /\ \A b \in ToSet(chain), j \in 1 .. ClusterUnits :
              EntryIn(d, b, j) /\ d.data[b][j].name = u.name => b = c /\ j = i
FileEntry(D, u) == Parsed(u) /\ is_file(u) /\ u.first_cluster \in {0, 1} \cup (Clusters \ D)

(* The end of the directory stays one.                                     *)
LEMMA EntryEnds ==
    ASSUME NEW d, IsVolume(d), InRange(d), NEW D, DirsSound(d, D),
           NEW h \in Starts(d, D), NEW s, s = Chain(d, h), NEW k \in 1 .. Len(s),
           NEW i \in 1 .. ClusterUnits, NEW u, MayEnter(d, h, k, i, u), u # END,
           NEW e, Entered(d, e, s[k], i, u)
    PROVE  EndsSound(e, D)
<1> DEFINE c == s[k]
<1>1. TableSound(d, D) /\ D \subseteq Clusters /\ Closed(d, D) /\ Apart(d, D) /\ EndsSound(d, D)
      BY SoundIsClosed DEF DirsSound, TableSound
<1>2. IsChain(d, h, MaxChain, s) /\ \A b \in ToSet(s) : b \in D
      BY <1>1, DirChain
<1>3. DOMAIN s = 1 .. Len(s) /\ Len(s) \in Nat
      BY <1>2 DEF IsChain
<1>4. c \in D /\ c \in Clusters
      BY <1>1, <1>2, <1>3 DEF ToSet
<1>5. ClusterUnits \in Nat /\ 1 \in 1 .. ClusterUnits /\ MaxChain \in Nat
      BY FatAssumption
<1>6. \A b, a \in D : read_fat_entry(d, b) = a =>
         \/ a # c
         \/ k > 1 /\ k - 1 \in 1 .. Len(s) /\ b = s[k - 1]
  <2> SUFFICES ASSUME NEW b \in D, read_fat_entry(d, b) = c
               PROVE  k > 1 /\ k - 1 \in 1 .. Len(s) /\ b = s[k - 1]
      OBVIOUS
  <2>1. c # h
        BY DEF Starts
  <2>2. h >= 2
        BY <1>1, StartsInRange
  <2>3. k > 1
        BY <1>2, <1>3, <2>1, <2>2 DEF IsChain
  <2>4. k - 1 \in 1 .. Len(s) /\ (k - 1) + 1 = k
        BY <1>3, <2>3
  <2>5. read_fat_entry(d, s[k - 1]) = c
        BY <1>2, <1>3, <2>4 DEF IsChain
  <2>6. s[k - 1] \in D
        BY <1>2, <1>3, <2>4 DEF ToSet
  <2>7. b = s[k - 1]
        BY <1>1, <1>4, <2>5, <2>6 DEF Apart
  <2> QED BY <2>3, <2>4, <2>7
<1>7. read_fat_entry(d, c) # c
  <2> SUFFICES ASSUME read_fat_entry(d, c) = c PROVE FALSE
      OBVIOUS
  <2>1. k > 1 /\ k - 1 \in 1 .. Len(s) /\ s[k] = s[k - 1]
        BY <1>4, <1>6
  <2>2. k = k - 1
        BY <1>1, <1>2, <1>5, <2>1, ChainsApart
  <2> QED BY <1>3, <2>2
<1> HIDE DEF c
<1>8. \A b \in Clusters, j \in 1 .. ClusterUnits :
         e.data[b][j] = IF b = c /\ j = i THEN u
                        ELSE IF b = c /\ j = i + 1 /\ d.data[c][i] = END THEN END
                        ELSE d.data[b][j]
      BY DEF Entered, c
<1>9. \A b : read_fat_entry(e, b) = read_fat_entry(d, b)
      BY DEF Entered, read_fat_entry
<1> SUFFICES ASSUME NEW b \in D, read_fat_entry(d, b) \in D,
                    NEW j \in 1 .. ClusterUnits, e.data[b][j] = END
             PROVE  e.data[read_fat_entry(d, b)][1] = END
    BY <1>9 DEF EndsSound
<1>10. PICK a \in D : a = read_fat_entry(d, b)
       OBVIOUS
<1>11. \E m \in 1 .. ClusterUnits : d.data[b][m] = END
  <2>1. CASE b = c /\ d.data[c][i] = END
        BY <2>1
  <2>2. CASE ~ (b = c /\ d.data[c][i] = END)
    <3>1. b \in Clusters /\ ~ (b = c /\ j = i)
          BY <1>1, <1>8
    <3>2. e.data[b][j] = d.data[b][j]
          BY <1>8, <2>2, <3>1
    <3> QED BY <3>2
  <2> QED BY <2>1, <2>2
<1>12. d.data[a][1] = END
       BY <1>1, <1>10, <1>11 DEF EndsSound
<1>13. a \in Clusters
       BY <1>1
<1>14. CASE a # c
       BY <1>5, <1>8, <1>10, <1>12, <1>13, <1>14
<1>15. CASE a = c
  <2>1. k > 1 /\ k - 1 \in 1 .. Len(s) /\ b = s[k - 1]
        BY <1>6, <1>10, <1>15
  <2>2. b # c
        BY <1>7, <1>10, <1>15
  <2>3. i # 1
    <3> SUFFICES ASSUME i = 1 PROVE FALSE
        OBVIOUS
    <3>1. d.data[c][i] = END
          BY <1>12, <1>15
    <3>2. \A l \in 1 .. Len(s), m \in 1 .. ClusterUnits : l < k => d.data[s[l]][m] # END
          BY <3>1 DEF MayEnter, c
    <3>3. k - 1 < k
          BY <1>3
    <3> QED BY <1>11, <2>1, <3>2, <3>3
  <2>4. 1 # i + 1
        BY <1>5
  <2> QED BY <1>5, <1>8, <1>10, <1>12, <1>13, <1>15, <2>3, <2>4
<1> QED BY <1>14, <1>15

(* A file's entry at such a slot leaves the directories what they were.    *)
LEMMA EntryKeeps ==
    ASSUME NEW d, IsVolume(d), InRange(d), NEW D, DirsSound(d, D),
           NEW h \in Starts(d, D), NEW k \in 1 .. Len(Chain(d, h)),
           NEW i \in 1 .. ClusterUnits, NEW u, MayEnter(d, h, k, i, u), FileEntry(D, u),
           NEW e, IsVolume(e), InRange(e), Entered(d, e, Chain(d, h)[k], i, u)
    PROVE  DirsSound(e, D) /\ DirsKept(d, e, D)
<1>1. PICK s : s = Chain(d, h)
      OBVIOUS
<1>2. PICK c : c = s[k]
      OBVIOUS
<1>3. TableSound(d, D) /\ D \subseteq Clusters /\ Closed(d, D) /\ Apart(d, D)
      BY SoundIsClosed DEF DirsSound, TableSound
<1>4. IsChain(d, h, MaxChain, s) /\ \A b \in ToSet(s) : b \in D
      BY <1>1, <1>3, DirChain
<1>5. DOMAIN s = 1 .. Len(s) /\ k \in 1 .. Len(s)
      BY <1>1, <1>4 DEF IsChain
<1>6. c \in D /\ c \in ToSet(s)
      BY <1>2, <1>4, <1>5 DEF ToSet
<1>7. Parsed(u) /\ ~ is_dir(u) /\ u # END
      BY DEF FileEntry, Parsed, END, is_dir, is_file
<1>8. Entered(d, e, c, i, u)
      BY <1>1, <1>2
<1>9. /\ NoEndBefore(d, c, i)
      /\ ~ DirAt(d, c, i)
      /\ \A b \in ToSet(s), j \in 1 .. ClusterUnits :
            EntryIn(d, b, j) /\ d.data[b][j].name = u.name => b = c /\ j = i
      BY <1>1, <1>2 DEF MayEnter
<1>10. \A b \in Clusters, j \in 1 .. ClusterUnits :
          /\ Shown(e, b, j) <=> Shown(d, b, j) \/ (b = c /\ j = i)
          /\ Shown(d, b, j) /\ ~ (b = c /\ j = i) => e.data[b][j] = d.data[b][j]
  <2>1. c \in Clusters /\ u # END
        BY <1>3, <1>6, <1>7
  <2>2. ShowsToo(d, e, c, i)
        BY <1>8, <1>9, <2>1, EnteredShown
  <2> QED BY <2>2 DEF ShowsToo
<1>11. Shown(e, c, i) /\ e.data[c][i] = u
       BY <1>3, <1>6, <1>8, <1>10 DEF Entered
<1>12. \A b \in Clusters, j \in 1 .. ClusterUnits : ~ (b = c /\ j = i) =>
          /\ EntryIn(e, b, j) <=> EntryIn(d, b, j)
          /\ ListedIn(e, b, j) <=> ListedIn(d, b, j)
          /\ EntryIn(d, b, j) => e.data[b][j] = d.data[b][j]
          /\ ListedIn(d, b, j) => e.data[b][j] = d.data[b][j]
       BY <1>10 DEF EntryIn, ListedIn
<1>13. \A b : read_fat_entry(e, b) = read_fat_entry(d, b)
       BY DEF Entered, read_fat_entry
<1>14. Starts(e, D) = Starts(d, D)
       BY <1>13 DEF Starts
<1>15. DirsKept(d, e, D)
  <2>1. ~ DirAt(e, c, i)
        BY <1>7, <1>11 DEF DirAt
  <2> QED BY <1>3, <1>9, <1>12, <1>13, <2>1 DEF DirsKept, DirAt
<1>16. TableSound(e, D)
       BY <1>3, <1>13, <1>14 DEF TableSound, Apart
<1>17. EntriesSound(e, D)
  <2> SUFFICES ASSUME NEW b \in D, NEW j \in 1 .. ClusterUnits, ListedIn(e, b, j)
               PROVE  FirstSound(e, D, e.data[b][j])
      BY DEF EntriesSound
  <2>1. CASE b = c /\ j = i
        BY <1>7, <1>11, <2>1 DEF FirstSound, FileEntry
  <2>2. CASE ~ (b = c /\ j = i)
    <3>1. ListedIn(d, b, j) /\ e.data[b][j] = d.data[b][j]
          BY <1>3, <1>12, <2>2
    <3>2. FirstSound(d, D, d.data[b][j])
          BY <3>1 DEF DirsSound, EntriesSound
    <3> QED BY <1>14, <3>1, <3>2 DEF FirstSound
  <2> QED BY <2>1, <2>2
<1>18. EndsSound(e, D)
       BY <1>1, <1>2, <1>5, <1>7, <1>8, EntryEnds
<1>19. FilesPlain(e, D)
  <2>1. \A b \in Clusters \ D, j \in 1 .. ClusterUnits : e.data[b][j] = d.data[b][j]
        BY <1>6, <1>8 DEF Entered
  <2> QED BY <1>13, <2>1 DEF FilesPlain, DirsSound
<1>20. NamesSound(e, D)
  <2> SUFFICES ASSUME NEW g \in Starts(d, D) PROVE UniqueIn(e, g)
      BY <1>14 DEF NamesSound
  <2>1. PICK t : t = Chain(d, g)
        OBVIOUS
  <2>2. g \in D
        BY <1>3, StartsInRange
  <2>3. \A f \in {0, 1} \cup D : Chain(e, f) = Chain(d, f)
        BY <1>3, <1>15, KeptChains
  <2>4. Chain(e, g) = t
        BY <2>1, <2>2, <2>3
  <2>5. IsChain(d, g, MaxChain, t) /\ \A b \in ToSet(t) : b \in D
        BY <1>3, <2>1, DirChain
  <2>6. DOMAIN t = 1 .. Len(t)
        BY <2>5 DEF IsChain
  <2>7. c \in ToSet(t) => g = h
    <3> SUFFICES ASSUME c \in ToSet(t) PROVE g = h
        OBVIOUS
    <3>1. PICK l \in 1 .. Len(t) : t[l] = c
          BY <2>6 DEF ToSet
    <3>2. MaxChain \in Nat
          BY FatAssumption
    <3> QED BY <1>2, <1>3, <1>4, <1>5, <2>5, <3>1, <3>2, ChainsApart
  <2>8. \A a, b \in ToSet(t), x, y \in 1 .. ClusterUnits :
           /\ EntryIn(d, a, x) /\ EntryIn(d, b, y)
           /\ d.data[a][x].name = d.data[b][y].name
           => a = b /\ x = y
        BY <2>1 DEF DirsSound, NamesSound, UniqueIn
  <2>9. ASSUME NEW b \in ToSet(t), NEW y \in 1 .. ClusterUnits, c \in ToSet(t),
               EntryIn(e, b, y), e.data[b][y].name = u.name
        PROVE  b = c /\ y = i
    <3> SUFFICES ASSUME ~ (b = c /\ y = i) PROVE FALSE
        OBVIOUS
    <3>1. b \in Clusters /\ b \in ToSet(s)
          BY <1>1, <1>3, <2>1, <2>5, <2>7, <2>9
    <3>2. EntryIn(d, b, y) /\ d.data[b][y].name = u.name
          BY <1>12, <2>9, <3>1
    <3> QED BY <1>9, <3>1, <3>2
  <2> SUFFICES ASSUME NEW a \in ToSet(t), NEW b \in ToSet(t),
                      NEW x \in 1 .. ClusterUnits, NEW y \in 1 .. ClusterUnits,
                      EntryIn(e, a, x), EntryIn(e, b, y),
                      e.data[a][x].name = e.data[b][y].name
               PROVE  a = b /\ x = y
      BY <2>4 DEF UniqueIn
  <2>10. CASE a = c /\ x = i
        BY <1>11, <2>9, <2>10
  <2>11. CASE b = c /\ y = i
        BY <1>11, <2>9, <2>11
  <2>12. CASE ~ (a = c /\ x = i) /\ ~ (b = c /\ y = i)
        BY <1>3, <1>12, <2>5, <2>8, <2>12
  <2> QED BY <2>10, <2>11, <2>12
<1> QED BY <1>15, <1>16, <1>17, <1>18, <1>19, <1>20 DEF DirsSound
-----------------------------------------------------------------------------
(* The searches of a directory, by cluster and index: the first slot that  *)
(* is free, ...                                                            *)
LEMMA FreeSlotIs ==
    ASSUME NEW d, NEW s, Len(s) \in Nat,
           NEW free, free = find_free_dir_entry_slot(d, s), free # 0
    PROVE  \E k \in 1 .. Len(s), i \in 1 .. ClusterUnits :
              /\ free = Pos(k, i) /\ Units(d, s)[free] = d.data[s[k]][i]
              /\ d.data[s[k]][i] \in {END, DEL}
              /\ NoEndBefore(d, s[k], i)
              /\ \A l \in 1 .. Len(s), j \in 1 .. ClusterUnits :
                    l < k => d.data[s[l]][j] # END
<1> DEFINE units == Units(d, s)
           I == {m \in 1 .. Len(units) : units[m] \in {END, DEL}}
<1>1. Len(units) = Len(s) * ClusterUnits
      BY UnitsAreSeq
<1>2. find_free_dir_entry_slot(d, s) = IF I # {} THEN Min(I) ELSE 0
      BY DEF find_free_dir_entry_slot, SelectInSeq
<1>3. I \in SUBSET Nat
      OBVIOUS
<1>4. free \in I /\ \A n \in I : free <= n
  <2> HIDE DEF I
  <2> QED BY <1>2, <1>3, MinIsOne, MinIsLeast
<1>5. free \in 1 .. Len(s) * ClusterUnits /\ units[free] \in {END, DEL}
      BY <1>1, <1>4
<1>6. \A n \in 1 .. Len(s) * ClusterUnits : n < free => units[n] # END
      BY <1>1, <1>4, <1>5
<1> HIDE DEF I
<1>7. PICK k \in 1 .. Len(s), i \in 1 .. ClusterUnits : free = Pos(k, i)
      BY <1>5, SlotIsPos
<1>8. units[free] = d.data[s[k]][i]
      BY <1>7, UnitAt
<1>9. \A l \in 1 .. Len(s), j \in 1 .. ClusterUnits :
         l < k \/ (l = k /\ j < i) => d.data[s[l]][j] # END
  <2> SUFFICES ASSUME NEW l \in 1 .. Len(s), NEW j \in 1 .. ClusterUnits,
                      l < k \/ (l = k /\ j < i)
               PROVE  d.data[s[l]][j] # END
      OBVIOUS
  <2>1. PICK n : n = Pos(l, j)
        OBVIOUS
  <2>2. n \in 1 .. Len(s) * ClusterUnits /\ units[n] = d.data[s[l]][j]
        BY <2>1, PosIsSlot, UnitAt
  <2>3. ~ (k < l \/ (k = l /\ i <= j))
        BY FatAssumption
  <2>4. ~ (free <= n)
        BY <1>7, <2>1, <2>3, PosOrder
  <2>5. n < free
        BY <1>5, <2>2, <2>4
  <2> QED BY <1>6, <2>2, <2>5
<1> HIDE DEF units
<1>10. NoEndBefore(d, s[k], i)
       BY <1>9 DEF NoEndBefore
<1> QED BY <1>5, <1>7, <1>8, <1>9, <1>10 DEF units

(* ... and the entry with a name, or that there is none.                   *)
LEMMA NameFoundIs ==
    ASSUME NEW d, NEW D, EndsSound(d, D), Closed(d, D),
           NEW h \in D, NEW s, IsChain(d, h, MaxChain, s), NEW name,
           NEW slot, slot = find_dir_entry(d, s, name), slot # 0
    PROVE  \E k \in 1 .. Len(s), i \in 1 .. ClusterUnits :
              /\ slot = Pos(k, i) /\ Units(d, s)[slot] = d.data[s[k]][i]
              /\ EntryIn(d, s[k], i) /\ d.data[s[k]][i].name = name
<1>1. Len(s) \in Nat /\ MaxChain \in Nat
      BY FatAssumption DEF IsChain
<1> DEFINE units == Units(d, s)
           before == BeforeEnd(units)
           I == {m \in 1 .. Len(before) : before[m].tag = "entry" /\ before[m].name = name}
<1>2. PICK S : units \in Seq(S)
      BY <1>1, UnitsAreSeq
<1>3. /\ before \in Seq(S) /\ Len(before) <= Len(units)
      /\ \A n \in 1 .. Len(before) : before[n] = units[n]
  <2> HIDE DEF units
  <2> QED BY <1>2, BeforeEndOf
<1>4. find_dir_entry(d, s, name) = IF I # {} THEN Min(I) ELSE 0
      BY DEF find_dir_entry, SelectInSeq
<1>5. I \in SUBSET Nat
      OBVIOUS
<1>6. slot \in I
  <2> HIDE DEF I
  <2> QED BY <1>4, <1>5, MinIsOne
<1>7. /\ slot \in 1 .. Len(before)
      /\ before[slot].tag = "entry" /\ before[slot].name = name
      BY <1>6
<1> HIDE DEF I
<1>8. Len(units) = Len(s) * ClusterUnits
      BY <1>1, UnitsAreSeq
<1> HIDE DEF before, units
<1>9. slot \in 1 .. Len(units) /\ units[slot] = before[slot] /\ slot <= Len(before)
      BY <1>2, <1>3, <1>7
<1>10. PICK k \in 1 .. Len(s), i \in 1 .. ClusterUnits : slot = Pos(k, i)
       BY <1>1, <1>8, <1>9, SlotIsPos
<1>11. units[slot] = d.data[s[k]][i]
       BY <1>1, <1>10, UnitAt DEF units
<1>12. Shown(d, s[k], i)
       BY <1>1, <1>9, <1>10, SeenIsShown DEF before, units
<1> QED BY <1>7, <1>9, <1>10, <1>11, <1>12 DEF EntryIn, units

LEMMA NameNotFound ==
    ASSUME NEW d, NEW D, EndsSound(d, D), Closed(d, D),
           NEW h \in D, NEW s, IsChain(d, h, MaxChain, s), NEW name,
           find_dir_entry(d, s, name) = 0
    PROVE  \A b \in ToSet(s), j \in 1 .. ClusterUnits :
              EntryIn(d, b, j) => d.data[b][j].name # name
<1>1. Len(s) \in Nat /\ DOMAIN s = 1 .. Len(s) /\ MaxChain \in Nat
      BY FatAssumption DEF IsChain
<1> SUFFICES ASSUME NEW b \in ToSet(s), NEW j \in 1 .. ClusterUnits,
                    EntryIn(d, b, j), d.data[b][j].name = name
             PROVE  FALSE
    OBVIOUS
<1> DEFINE units == Units(d, s)
           before == BeforeEnd(units)
           I == {m \in 1 .. Len(before) : before[m].tag = "entry" /\ before[m].name = name}
<1>2. PICK S : units \in Seq(S)
      BY <1>1, UnitsAreSeq
<1>3. /\ before \in Seq(S) /\ Len(before) <= Len(units)
      /\ \A n \in 1 .. Len(before) : before[n] = units[n]
  <2> HIDE DEF units
  <2> QED BY <1>2, BeforeEndOf
<1>4. find_dir_entry(d, s, name) = IF I # {} THEN Min(I) ELSE 0
      BY DEF find_dir_entry, SelectInSeq
<1>5. PICK l \in 1 .. Len(s) : s[l] = b
      BY <1>1 DEF ToSet
<1>6. PICK n : n = Pos(l, j)
      OBVIOUS
<1>7. n \in 1 .. Len(s) * ClusterUnits /\ units[n] = d.data[b][j]
      BY <1>1, <1>5, <1>6, PosIsSlot, UnitAt
<1>8. n <= Len(before)
      BY <1>1, <1>5, <1>6, SeenIsShown DEF EntryIn
<1> HIDE DEF before, units
<1>9. Len(before) \in Nat /\ n \in Nat /\ n >= 1
      BY <1>1, <1>3, <1>7, FatAssumption
<1>10. n \in 1 .. Len(before)
       BY <1>8, <1>9
<1>11. before[n] = d.data[b][j]
       BY <1>3, <1>7, <1>10
<1>12. n \in I
       BY <1>10, <1>11 DEF EntryIn
<1>13. I \in SUBSET Nat
       BY <1>9
<1>14. Min(I) \in I
  <2> HIDE DEF I
  <2> QED BY <1>12, <1>13, MinIsOne
<1> QED BY <1>4, <1>12, <1>14
-----------------------------------------------------------------------------
(* The writes to a slot, with the move of the end mark, enter an entry.    *)
LEMMA CreateEnters ==
    ASSUME NEW d, IsVolume(d), InRange(d),
           NEW s, Len(s) \in Nat, DOMAIN s = 1 .. Len(s),
           NEW k \in 1 .. Len(s), s[k] \in Clusters, NEW i \in 1 .. ClusterUnits, NEW u,
           NEW was_end, was_end <=> d.data[s[k]][i] = END,
           NEW e, e = MoveEnd(SetSlot(d, s, Pos(k, i), u), s, Pos(k, i), was_end)
    PROVE  IsVolume(e) /\ InRange(e) /\ Entered(d, e, s[k], i, u)
<1>1. PICK n : n = Pos(k, i)
      OBVIOUS
<1>2. n \in 1 .. Len(s) * ClusterUnits /\ SlotIndex(n) = i /\ ClusterUnits \in Nat
      BY <1>1, PosIsSlot, FatAssumption
<1>3. PICK f : f = SetSlot(d, s, n, u)
      OBVIOUS
<1>4. IsVolume(f) /\ InRange(f)
      BY <1>2, <1>3, SlotChanges DEF Changed
<1>5. /\ f.fat = d.fat
      /\ \A b \in Clusters, j \in 1 .. ClusterUnits :
            f.data[b][j] = IF b = s[k] /\ j = i THEN u ELSE d.data[b][j]
      BY <1>1, <1>3, SlotIs
<1>6. e = MoveEnd(f, s, n, was_end)
      BY <1>1, <1>3
<1>7. CASE was_end /\ i < ClusterUnits
  <2>1. PICK m : m = i + 1
        OBVIOUS
  <2>2. m \in 1 .. ClusterUnits /\ m # i
        BY <1>2, <1>7, <2>1
  <2>3. n + 1 = Pos(k, m)
    <3>1. (k - 1) * ClusterUnits \in Int
          BY <1>2
    <3> QED BY <1>1, <2>1, <3>1 DEF Pos
  <2>4. e = SetSlot(f, s, Pos(k, m), END)
        BY <1>2, <1>6, <1>7, <2>3 DEF MoveEnd
  <2>5. Pos(k, m) \in 1 .. Len(s) * ClusterUnits
        BY <2>2, PosIsSlot
  <2>6. IsVolume(e) /\ InRange(e)
        BY <1>4, <2>4, <2>5, SlotChanges DEF Changed
  <2>7. /\ e.fat = f.fat
        /\ \A b \in Clusters, j \in 1 .. ClusterUnits :
              e.data[b][j] = IF b = s[k] /\ j = m THEN END ELSE f.data[b][j]
    <3>1. IsVolume(f) /\ InRange(f) /\ Len(s) \in Nat /\ s[k] \in Clusters
          /\ k \in 1 .. Len(s) /\ m \in 1 .. ClusterUnits
          BY <1>4, <2>2
    <3> QED BY ONLY <2>4, <3>1, SlotIs
  <2>8. d.data[s[k]][i] = END
        BY <1>7
  <2>9. \A b \in Clusters, j \in 1 .. ClusterUnits :
           e.data[b][j] = IF b = s[k] /\ j = i THEN u
                          ELSE IF b = s[k] /\ j = i + 1 /\ d.data[s[k]][i] = END THEN END
                          ELSE d.data[b][j]
    <3> SUFFICES ASSUME NEW b \in Clusters, NEW j \in 1 .. ClusterUnits
                 PROVE  e.data[b][j] = IF b = s[k] /\ j = i THEN u
                                       ELSE IF b = s[k] /\ j = m THEN END
                                       ELSE d.data[b][j]
        BY <2>1, <2>8
    <3>1. f.data[b][j] = IF b = s[k] /\ j = i THEN u ELSE d.data[b][j]
          BY <1>5
    <3>2. e.data[b][j] = IF b = s[k] /\ j = m THEN END ELSE f.data[b][j]
          BY <2>7
    <3> QED BY <2>2, <3>1, <3>2
  <2> QED BY <1>5, <2>6, <2>7, <2>9 DEF Entered
<1>8. CASE ~ (was_end /\ i < ClusterUnits)
  <2>1. e = f
        BY <1>2, <1>6, <1>8 DEF MoveEnd
  <2>2. \A j \in 1 .. ClusterUnits : ~ (j = i + 1 /\ d.data[s[k]][i] = END)
        BY <1>2, <1>8
  <2>3. \A b \in Clusters, j \in 1 .. ClusterUnits :
           e.data[b][j] = IF b = s[k] /\ j = i THEN u
                          ELSE IF b = s[k] /\ j = i + 1 /\ d.data[s[k]][i] = END THEN END
                          ELSE d.data[b][j]
        BY <1>5, <2>1, <2>2
  <2> QED BY <1>4, <1>5, <2>1, <2>3 DEF Entered
<1> QED BY <1>7, <1>8

LEMMA ReplaceEnters ==
    ASSUME NEW d, IsVolume(d), InRange(d),
           NEW s, Len(s) \in Nat, DOMAIN s = 1 .. Len(s),
           NEW k \in 1 .. Len(s), s[k] \in Clusters, NEW i \in 1 .. ClusterUnits, NEW u,
           d.data[s[k]][i] # END, NEW e, e = SetSlot(d, s, Pos(k, i), u)
    PROVE  IsVolume(e) /\ InRange(e) /\ Entered(d, e, s[k], i, u)
<1>1. e = MoveEnd(SetSlot(d, s, Pos(k, i), u), s, Pos(k, i), FALSE)
      BY DEF MoveEnd
<1> QED BY <1>1, CreateEnters

(* The entry that is written names clusters outside the directories.       *)
LEMMA NewEntry ==
    ASSUME NEW d, IsVolume(d), InRange(d), NEW D, TableSound(d, D),
           NEW content, IsSequence(content), CanAlloc(d, needed(content)),
           NEW name, NEW size,
           NEW u, u = Entry(name, "file", FirstCluster(d, content), size)
    PROVE  FileEntry(D, u) /\ u.name = name
<1>1. FirstCluster(d, content) \in {0, 1} \cup (Clusters \ D)
  <2>1. CASE content = <<>>
        BY <2>1 DEF FirstCluster
  <2>2. CASE content # <<>>
    <3>1. PICK n : n = needed(content)
          OBVIOUS
    <3>2. n \in Nat /\ n >= 1
          BY <2>2, <3>1, NeededIs
    <3>3. 1 \in 1 .. n
          BY <3>2
    <3>4. alloc_chain(d, n)[1] \in FreeClusters(d)
          BY <3>1, <3>2, <3>3, Allocated
    <3>5. FreeClusters(d) \subseteq Clusters \ D
          BY DirsUsed
    <3> QED BY <2>2, <3>1, <3>4, <3>5 DEF FirstCluster
  <2> QED BY <2>1, <2>2
<1>2. u.tag = "entry" /\ u.attr = "file" /\ u.name = name /\ u.first_cluster = FirstCluster(d, content)
      BY DEF Entry
<1> QED BY <1>1, <1>2 DEF FileEntry, Parsed, is_file
-----------------------------------------------------------------------------
(* The files of a volume, step by step.  A cluster that no file and no     *)
(* link has is ready to head a file.                                       *)
Ready(d, D, X, first) ==
    first >= 2 =>
       /\ first \in Starts(d, Clusters \ D) /\ read_fat_entry(d, first) # FREE
       /\ \A x \in FilesIn(d, D) \ X : First(d, x) # first

(* Fresh clusters make a chain apart from all others.                      *)
LEMMA StoreFiles ==
    ASSUME NEW d, IsVolume(d), InRange(d), NEW D, TableSound(d, D),
           NEW X, FilesSoundBut(d, D, X),
           NEW content, IsSequence(content), CanAlloc(d, needed(content)),
           NEW e, e = Stored(d, content), \A c \in D : e.data[c] = d.data[c]
    PROVE  FilesSoundBut(e, D, X) /\ Ready(e, D, X, FirstCluster(d, content))
<1>1. CASE content = <<>>
  <2>1. e = d /\ FirstCluster(d, content) = 0
        BY <1>1 DEF Stored, FirstCluster
  <2> QED BY <2>1 DEF Ready
<1>2. CASE content # <<>>
  <2>1. PICK n : n = needed(content)
        OBVIOUS
  <2>2. PICK s : s = alloc_chain(d, n)
        OBVIOUS
  <2>3. /\ n \in Nat /\ n >= 1 /\ Len(s) = n /\ DOMAIN s = 1 .. n
        /\ \A k \in 1 .. n : s[k] \in FreeClusters(d)
        /\ \A k, l \in 1 .. n : s[k] = s[l] => k = l
        /\ \A k \in 1 .. n : read_fat_entry(e, s[k]) = IF k < n THEN s[k + 1] ELSE EOC
        /\ \A c \in Clusters \ ToSet(s) : read_fat_entry(e, c) = read_fat_entry(d, c)
        BY <1>2, <2>1, <2>2, StoredIs
  <2>4. D \subseteq Clusters /\ FREE \notin Clusters /\ EOC \notin Clusters /\ FREE # EOC
        BY FatAssumption, MarkAssumption, SMT DEF TableSound, FREE, EOC, EOC_MIN, Clusters
  <2>5. FreeClusters(d) \subseteq Clusters \ D
        BY DirsUsed
  <2>6. \A c \in Clusters : c \in ToSet(s) <=> \E k \in 1 .. n : c = s[k]
        BY <2>3 DEF ToSet
  <2>7. \A c \in ToSet(s) : c \in Clusters \ D /\ read_fat_entry(d, c) = FREE
    <3>1. \A k \in 1 .. n : s[k] \in Clusters \ D /\ read_fat_entry(d, s[k]) = FREE
          BY <2>3, <2>5 DEF FreeClusters
    <3> QED BY <2>3, <3>1 DEF ToSet
  <2>8. PICK U : U = Clusters \ D
        OBVIOUS
  <2>9. \A c \in U : read_fat_entry(d, c) \in Clusters =>
              read_fat_entry(d, read_fat_entry(d, c)) # FREE
        BY <2>8 DEF FilesSoundBut
  (* Where a link of the new volume leads. *)
  <2>10. ASSUME NEW c \in U, read_fat_entry(e, c) \in Clusters
         PROVE  \/ /\ c \notin ToSet(s) /\ read_fat_entry(e, c) = read_fat_entry(d, c)
                   /\ read_fat_entry(e, c) \notin ToSet(s)
                \/ \E k \in 1 .. n : c = s[k] /\ k + 1 \in 1 .. n /\ read_fat_entry(e, c) = s[k + 1]
    <3>1. CASE c \notin ToSet(s)
      <4>1. read_fat_entry(e, c) = read_fat_entry(d, c)
            BY <2>3, <2>8, <3>1
      <4>2. read_fat_entry(d, read_fat_entry(d, c)) # FREE
            BY <2>9, <2>10, <4>1
      <4> QED BY <2>7, <3>1, <4>1, <4>2
    <3>2. CASE c \in ToSet(s)
      <4>1. PICK k \in 1 .. n : c = s[k]
            BY <2>6, <2>8, <3>2
      <4>2. k < n
            BY <2>3, <2>4, <2>10, <4>1
      <4>3. k + 1 \in 1 .. n
            BY <2>3, <4>2
      <4> QED BY <2>3, <4>1, <4>2, <4>3
    <3> QED BY <3>1, <3>2
  <2>11. \A k \in 1 .. n : read_fat_entry(e, s[k]) # FREE
    <3> SUFFICES ASSUME NEW k \in 1 .. n PROVE read_fat_entry(e, s[k]) # FREE
        OBVIOUS
    <3>1. CASE k < n
      <4>1. k + 1 \in 1 .. n
            BY <2>3, <3>1
      <4>2. s[k + 1] \in Clusters
            BY <2>3, <2>5, <4>1
      <4> QED BY <2>3, <2>4, <3>1, <4>2
    <3>2. CASE ~ (k < n)
          BY <2>3, <2>4, <3>2
    <3> QED BY <3>1, <3>2
  <2>12. Apart(e, U)
    <3> SUFFICES ASSUME NEW a \in U, NEW b \in U, read_fat_entry(e, a) \in Clusters,
                        read_fat_entry(e, a) = read_fat_entry(e, b)
                 PROVE  a = b
        BY DEF Apart
    <3>1. CASE a \notin ToSet(s) /\ b \notin ToSet(s)
      <4>1. read_fat_entry(d, a) \in Clusters /\ read_fat_entry(d, a) = read_fat_entry(d, b)
            BY <2>3, <2>8, <3>1
      <4> QED BY <2>8, <4>1 DEF FilesSoundBut, Apart
    <3>2. CASE a \in ToSet(s) /\ b \in ToSet(s)
      <4>1. PICK k \in 1 .. n : a = s[k] /\ k + 1 \in 1 .. n /\ read_fat_entry(e, a) = s[k + 1]
            BY <2>10, <3>2
      <4>2. PICK l \in 1 .. n : b = s[l] /\ l + 1 \in 1 .. n /\ read_fat_entry(e, b) = s[l + 1]
            BY <2>10, <3>2
      <4>3. k + 1 = l + 1
            BY <2>3, <4>1, <4>2
      <4>4. k = l
            BY <4>3
      <4> QED BY <4>1, <4>2, <4>4
    <3>3. ASSUME NEW x \in U, NEW y \in U, x \notin ToSet(s), y \in ToSet(s),
                 read_fat_entry(e, x) \in Clusters, read_fat_entry(e, x) = read_fat_entry(e, y)
          PROVE  FALSE
      <4>1. read_fat_entry(e, x) \notin ToSet(s)
            BY <2>6, <2>8, <2>10, <3>3
      <4>2. PICK k \in 1 .. n : k + 1 \in 1 .. n /\ read_fat_entry(e, y) = s[k + 1]
            BY <2>10, <3>3
      <4>3. s[k + 1] \in ToSet(s)
            BY <2>3, <4>2 DEF ToSet
      <4> QED BY <3>3, <4>1, <4>2, <4>3
    <3> QED BY <3>1, <3>2, <3>3
  <2>13. \A c \in U : read_fat_entry(e, c) \in Clusters =>
              read_fat_entry(e, read_fat_entry(e, c)) # FREE
    <3> SUFFICES ASSUME NEW c \in U, read_fat_entry(e, c) \in Clusters
                 PROVE  read_fat_entry(e, read_fat_entry(e, c)) # FREE
        OBVIOUS
    <3>1. PICK b \in Clusters : b = read_fat_entry(e, c)
          OBVIOUS
    <3>2. CASE c \notin ToSet(s)
      <4>1. b = read_fat_entry(d, c) /\ b \notin ToSet(s)
            BY <2>10, <3>1, <3>2, <2>6, <2>8
      <4>2. read_fat_entry(d, b) # FREE
            BY <2>9, <4>1
      <4> QED BY <2>3, <3>1, <4>1, <4>2
    <3>3. CASE c \in ToSet(s)
      <4>1. PICK k \in 1 .. n : k + 1 \in 1 .. n /\ b = s[k + 1]
            BY <2>10, <3>1, <3>3
      <4> QED BY <2>11, <3>1, <4>1
    <3> QED BY <3>2, <3>3
  (* Heads of chains stay that, and those of files are not the new one. *)
  <2>14. ASSUME NEW h \in U, h \in Starts(d, U), read_fat_entry(d, h) # FREE
         PROVE  h \in Starts(e, U) /\ read_fat_entry(e, h) # FREE /\ h # s[1]
    <3>1. h \in Clusters /\ h \notin ToSet(s)
          BY <2>7, <2>8, <2>14
    <3>2. read_fat_entry(e, h) # FREE
          BY <2>3, <2>14, <3>1
    <3>3. 1 \in 1 .. n
          BY <2>3
    <3>4. h # s[1]
          BY <2>6, <3>1, <3>3
    <3>5. ASSUME NEW c \in U, read_fat_entry(e, c) = h PROVE FALSE
      <4>1. CASE c \notin ToSet(s)
            BY <2>3, <2>8, <2>14, <3>5, <4>1 DEF Starts
      <4>2. CASE c \in ToSet(s)
        <5>1. PICK k \in 1 .. n : k + 1 \in 1 .. n /\ h = s[k + 1]
              BY <2>10, <3>1, <3>5, <4>2
        <5> QED BY <2>6, <3>1, <5>1
      <4> QED BY <4>1, <4>2
    <3> QED BY <3>2, <3>4, <3>5 DEF Starts
  <2>15. FilesIn(e, D) = FilesIn(d, D) /\ \A x \in FilesIn(d, D) : First(e, x) = First(d, x)
        BY DEF FilesIn, First, ListedIn, Shown
  <2>16. \A x \in FilesIn(d, D) \ X : First(d, x) >= 2 =>
            /\ First(d, x) \in Starts(d, U) /\ First(d, x) \in U
            /\ read_fat_entry(d, First(d, x)) # FREE
            /\ \A y \in FilesIn(d, D) \ X : First(d, y) = First(d, x) => y = x
         BY <2>8 DEF FilesSoundBut, Starts
  <2>17. FilesSoundBut(e, D, X)
    <3>1. \A x \in FilesIn(e, D) \ X : First(e, x) >= 2 =>
            /\ First(e, x) \in Starts(e, U)
            /\ read_fat_entry(e, First(e, x)) # FREE
            /\ \A y \in FilesIn(e, D) \ X : First(e, y) = First(e, x) => y = x
          BY <2>14, <2>15, <2>16
    <3> QED BY <2>8, <2>12, <2>13, <3>1 DEF FilesSoundBut
  <2>18. FirstCluster(d, content) = s[1] /\ 1 \in 1 .. n
         BY <1>2, <2>1, <2>2, <2>3 DEF FirstCluster
  <2>19. s[1] \in Starts(e, U)
    <3>1. s[1] \in U
          BY <2>3, <2>5, <2>8, <2>18
    <3>2. ASSUME NEW c \in U, read_fat_entry(e, c) = s[1] PROVE FALSE
      <4>1. s[1] \in ToSet(s) /\ s[1] \in Clusters
            BY <2>3, <2>7, <2>18 DEF ToSet
      <4>2. PICK k \in 1 .. n : k + 1 \in 1 .. n /\ s[1] = s[k + 1]
            BY <2>10, <3>2, <4>1
      <4>3. 1 = k + 1
            BY <2>3, <2>18, <4>2
      <4> QED BY <4>3
    <3> QED BY <3>1, <3>2 DEF Starts
  <2>20. \A x \in FilesIn(e, D) \ X : First(e, x) # s[1]
    <3> SUFFICES ASSUME NEW x \in FilesIn(d, D) \ X, First(d, x) = s[1] PROVE FALSE
        BY <2>15
    <3>1. s[1] >= 2
          BY <2>3, <2>5, <2>18 DEF Clusters
    <3> QED BY <2>14, <2>16, <3>1
  <2>21. Ready(e, D, X, FirstCluster(d, content))
         BY <2>8, <2>11, <2>18, <2>19, <2>20 DEF Ready
  <2> QED BY <2>17, <2>21
<1> QED BY <1>1, <1>2

(* A chain that is freed leaves no other that is cut short.                *)
LEMMA FreeFiles ==
    ASSUME NEW d, IsVolume(d), InRange(d), NEW D, DirsSound(d, D), FilesSound(d, D),
           NEW x \in FilesIn(d, D), NEW start, start = First(d, x), start >= 2,
           NEW e, e = free_chain(d, start)
    PROVE  FilesSoundBut(e, D, {x})
<1>1. PICK U : U = Clusters \ D
      OBVIOUS
<1>2. TableSound(d, D) /\ D \subseteq Clusters /\ FREE \notin Clusters
  <2>1. TableSound(d, D) /\ D \subseteq Clusters
        BY DEF DirsSound, TableSound
  <2>2. FREE \notin Clusters
        BY FatAssumption DEF FREE, Clusters
  <2> QED BY <2>1, <2>2
<1>3. /\ start \in Starts(d, U) /\ read_fat_entry(d, start) # FREE
      /\ \A y \in FilesIn(d, D) : First(d, y) = start => y = x
  <2>1. x \in FilesIn(d, D) \ {}
        OBVIOUS
  <2> QED BY <1>1, <2>1 DEF FilesSound, FilesSoundBut
<1>4. start \in U /\ start \in Clusters \ D
      BY <1>1, <1>3 DEF Starts
<1>5. PICK s : s = Chain(d, start)
      OBVIOUS
<1>6. IsChain(d, start, MaxChain, s) /\ \A c \in ToSet(s) : c \in Clusters \ D
      BY <1>2, <1>4, <1>5, FileChain
<1>7. DOMAIN s = 1 .. Len(s) /\ Len(s) \in Nat
      BY <1>6 DEF IsChain
<1>8. /\ e.data = d.data
      /\ \A c \in Clusters : read_fat_entry(e, c) = IF c \in ToSet(s) THEN FREE ELSE read_fat_entry(d, c)
  <2>1. ~ (start < 2)
    <3>1. start \in Int
          BY <1>4 DEF Clusters
    <3> QED BY <3>1
  <2> QED BY <1>5, <2>1, FreedIs
<1>9. Apart(d, U)
      BY <1>1 DEF FilesSound, FilesSoundBut
(* What links into the chain is in it, its first cluster aside. *)
<1>10. ASSUME NEW c \in U, read_fat_entry(d, c) \in ToSet(s)
       PROVE  c \in ToSet(s)
  <2>1. PICK k \in 1 .. Len(s) : read_fat_entry(d, c) = s[k]
        BY <1>7, <1>10 DEF ToSet
  <2>2. k # 1
    <3>1. s[1] = start
          BY <1>6 DEF IsChain
    <3>2. read_fat_entry(d, c) # start
          BY <1>3, <1>10 DEF Starts
    <3> QED BY <2>1, <3>1, <3>2
  <2>3. k - 1 \in 1 .. Len(s) /\ (k - 1) + 1 = k
        BY <1>7, <2>2
  <2>4. read_fat_entry(d, s[k - 1]) = s[k]
        BY <1>6, <1>7, <2>3 DEF IsChain
  <2>5. s[k - 1] \in ToSet(s) /\ s[k] \in ToSet(s)
        BY <1>7, <2>3 DEF ToSet
  <2>6. s[k - 1] \in U /\ s[k] \in Clusters
        BY <1>1, <1>6, <2>5
  <2>7. c = s[k - 1]
        BY <1>9, <1>10, <2>1, <2>4, <2>6 DEF Apart
  <2> QED BY <2>5, <2>7
<1>11. Apart(e, U)
  <2> SUFFICES ASSUME NEW a \in U, NEW b \in U, read_fat_entry(e, a) \in Clusters,
                      read_fat_entry(e, a) = read_fat_entry(e, b)
               PROVE  a = b
      BY DEF Apart
  <2>1. read_fat_entry(e, a) = read_fat_entry(d, a) /\ read_fat_entry(e, b) = read_fat_entry(d, b)
        BY <1>1, <1>2, <1>8
  <2> QED BY <1>9, <2>1 DEF Apart
<1>12. ASSUME NEW c \in U, read_fat_entry(e, c) \in Clusters
       PROVE  read_fat_entry(e, read_fat_entry(e, c)) # FREE
  <2>1. PICK b \in Clusters : b = read_fat_entry(e, c)
        BY <1>12
  <2>2. c \in Clusters /\ c \notin ToSet(s) /\ b = read_fat_entry(d, c)
        BY <1>1, <1>2, <1>8, <2>1
  <2>3. b \notin ToSet(s)
        BY <1>10, <2>2
  <2>4. read_fat_entry(d, b) # FREE
        BY <1>1, <2>2 DEF FilesSound, FilesSoundBut
  <2> QED BY <1>8, <2>1, <2>3, <2>4
<1>13. FilesIn(e, D) = FilesIn(d, D) /\ \A y \in FilesIn(d, D) : First(e, y) = First(d, y)
       BY <1>8 DEF FilesIn, First, ListedIn, Shown
<1>14. ASSUME NEW y \in FilesIn(d, D) \ {x}, First(d, y) >= 2
       PROVE  /\ First(d, y) \in Starts(e, U) /\ read_fat_entry(e, First(d, y)) # FREE
              /\ \A z \in FilesIn(d, D) \ {x} : First(d, z) = First(d, y) => z = y
  <2>1. PICK h : h = First(d, y)
        OBVIOUS
  <2>2. /\ h \in Starts(d, U) /\ read_fat_entry(d, h) # FREE
        /\ \A z \in FilesIn(d, D) : First(d, z) = h => z = y
        BY <1>1, <1>14, <2>1 DEF FilesSound, FilesSoundBut
  <2>3. h # start /\ h \in U /\ h \in Clusters
        BY <1>1, <1>3, <1>14, <2>1, <2>2 DEF Starts
  <2>4. h \notin ToSet(s)
    <3> SUFFICES ASSUME NEW k \in 1 .. Len(s), h = s[k] PROVE FALSE
        BY <1>7 DEF ToSet
    <3>1. s[1] = start /\ k # 1
          BY <1>6, <2>3 DEF IsChain
    <3>2. k - 1 \in 1 .. Len(s) /\ (k - 1) + 1 = k
          BY <1>7, <3>1
    <3>3. read_fat_entry(d, s[k - 1]) = h
          BY <1>6, <1>7, <3>2 DEF IsChain
    <3>4. s[k - 1] \in U
          BY <1>1, <1>6, <1>7, <3>2 DEF ToSet
    <3> QED BY <2>2, <3>3, <3>4 DEF Starts
  <2>5. read_fat_entry(e, h) # FREE
        BY <1>8, <2>2, <2>3, <2>4
  <2>6. \A c \in U : read_fat_entry(e, c) # h
        BY <1>1, <1>2, <1>8, <2>2, <2>3 DEF Starts
  <2>7. h \in Starts(e, U)
        BY <2>3, <2>6 DEF Starts
  <2> QED BY <2>1, <2>2, <2>5, <2>7
<1> QED BY <1>1, <1>11, <1>12, <1>13, <1>14 DEF FilesSoundBut

(* An entry whose first cluster is ready makes its slot a file like the    *)
(* others.                                                                 *)
LEMMA EntryFiles ==
    ASSUME NEW d, NEW D, D \subseteq Clusters, NEW c \in D, NEW i \in 1 .. ClusterUnits,
           NEW u, u # END, NoEndBefore(d, c, i),
           FilesSoundBut(d, D, {<<c, i>>}), Ready(d, D, {<<c, i>>}, u.first_cluster),
           NEW e, Entered(d, e, c, i, u)
    PROVE  FilesSound(e, D)
<1>1. PICK p : p = <<c, i>>
      OBVIOUS
<1>2. \A b : read_fat_entry(e, b) = read_fat_entry(d, b)
      BY DEF Entered, read_fat_entry
<1>3. ShowsToo(d, e, c, i) /\ c \in Clusters
      BY EnteredShown
<1>4. ASSUME NEW x \in FilesIn(e, D), x # p
      PROVE  x \in FilesIn(d, D) \ {p} /\ First(e, x) = First(d, x)
  <2>1. PICK b \in D, j \in 1 .. ClusterUnits : x = <<b, j>>
        BY DEF FilesIn
  <2>2. ~ (b = c /\ j = i) /\ x[1] = b /\ x[2] = j /\ b \in Clusters
        BY <1>1, <1>4, <2>1
  <2>3. /\ ListedIn(e, b, j) /\ is_file(e.data[b][j])
        BY <2>2 DEF FilesIn
  <2>4. Shown(d, b, j) /\ e.data[b][j] = d.data[b][j]
        BY <1>3, <2>2, <2>3 DEF ShowsToo, ListedIn
  <2>5. ListedIn(d, b, j) /\ is_file(d.data[b][j])
        BY <2>3, <2>4 DEF ListedIn
  <2>6. x \in FilesIn(d, D)
        BY <2>1, <2>2, <2>5 DEF FilesIn
  <2>7. First(e, x) = First(d, x)
        BY <2>2, <2>4 DEF First
  <2> QED BY <1>4, <2>6, <2>7
<1>5. First(e, p) = u.first_cluster
      BY <1>1, <1>3 DEF First, Entered
<1>6. \A U : Starts(e, U) = Starts(d, U)
      BY <1>2 DEF Starts
<1>7. ASSUME NEW x \in FilesIn(e, D), First(e, x) >= 2
      PROVE  /\ First(e, x) \in Starts(e, Clusters \ D) /\ read_fat_entry(e, First(e, x)) # FREE
             /\ \A y \in FilesIn(e, D) : First(e, y) = First(e, x) => y = x
  <2>1. CASE x = p
    <3>1. /\ First(e, x) \in Starts(d, Clusters \ D) /\ read_fat_entry(d, First(e, x)) # FREE
          /\ \A y \in FilesIn(d, D) \ {p} : First(d, y) # First(e, x)
          BY <1>1, <1>5, <1>7, <2>1 DEF Ready
    <3> QED BY <1>2, <1>4, <1>6, <2>1, <3>1
  <2>2. CASE x # p
    <3>1. PICK h : h = First(d, x) /\ h = First(e, x) /\ h >= 2 /\ x \in FilesIn(d, D) \ {p}
          BY <1>4, <1>7, <2>2
    <3>2. /\ h \in Starts(d, Clusters \ D) /\ read_fat_entry(d, h) # FREE
          /\ \A y \in FilesIn(d, D) \ {p} : First(d, y) = h => y = x
          BY <1>1, <3>1 DEF FilesSoundBut
    <3>3. u.first_cluster # h
          BY <1>1, <3>1 DEF Ready
    <3>4. \A y \in FilesIn(e, D) : First(e, y) = h => y = x
          BY <1>4, <1>5, <3>2, <3>3
    <3> QED BY <1>2, <1>6, <3>1, <3>2, <3>4
  <2> QED BY <2>1, <2>2
<1>8. Apart(e, Clusters \ D)
      BY <1>2 DEF Apart, FilesSoundBut
<1>9. \A b \in Clusters \ D : read_fat_entry(e, b) \in Clusters =>
              read_fat_entry(e, read_fat_entry(e, b)) # FREE
      BY <1>2 DEF FilesSoundBut
<1>10. FilesIn(e, D) \ {} = FilesIn(e, D)
       OBVIOUS
<1> QED BY <1>7, <1>8, <1>9, <1>10 DEF FilesSound, FilesSoundBut

(* Fewer slots to look at.                                                 *)
LEMMA FilesBut ==
    ASSUME NEW d, NEW D, FilesSound(d, D), NEW X
    PROVE  FilesSoundBut(d, D, X)
    BY DEF FilesSound, FilesSoundBut
-----------------------------------------------------------------------------
(* What is read after a write.  The clusters that files have: no chain     *)
(* leaves them, and none but its own those without the chain of one file.  *)
UsedOutside(d, D) == {c \in Clusters \ D : read_fat_entry(d, c) # FREE}

LEMMA UsedClosed ==
    ASSUME NEW d, NEW D, DirsSound(d, D), FilesSound(d, D)
    PROVE  /\ Closed(d, UsedOutside(d, D))
           /\ \A x \in FilesIn(d, D) : First(d, x) \in {0, 1} \cup UsedOutside(d, D)
<1>1. ASSUME NEW c \in UsedOutside(d, D), read_fat_entry(d, c) \in Clusters
      PROVE  read_fat_entry(d, c) \in UsedOutside(d, D)
  <2>1. c \in Clusters \ D /\ read_fat_entry(d, c) \notin D
        BY DEF UsedOutside, DirsSound, TableSound
  <2>2. read_fat_entry(d, read_fat_entry(d, c)) # FREE
        BY <1>1, <2>1 DEF FilesSound, FilesSoundBut
  <2> QED BY <1>1, <2>1, <2>2 DEF UsedOutside
<1>2. ASSUME NEW x \in FilesIn(d, D)
      PROVE  First(d, x) \in {0, 1} \cup UsedOutside(d, D)
  <2>1. PICK c \in D, i \in 1 .. ClusterUnits :
              /\ x[1] = c /\ x[2] = i
              /\ ListedIn(d, c, i) /\ is_file(d.data[c][i])
        BY DEF FilesIn
  <2>2. FirstSound(d, D, d.data[c][i])
        BY <2>1 DEF DirsSound, EntriesSound
  <2>3. First(d, x) \in {0, 1} \cup (Clusters \ D)
        BY <2>1, <2>2 DEF FirstSound, First, is_file, is_dir
  <2>4. x \in FilesIn(d, D) \ {}
        OBVIOUS
  <2>5. CASE First(d, x) >= 2
    <3>1. read_fat_entry(d, First(d, x)) # FREE
          BY <2>4, <2>5 DEF FilesSound, FilesSoundBut
    <3> QED BY <2>3, <3>1 DEF UsedOutside
  <2>6. CASE ~ (First(d, x) >= 2)
    <3>1. First(d, x) \notin Clusters
          BY <2>6 DEF Clusters
    <3> QED BY <2>3, <3>1
  <2> QED BY <2>5, <2>6
<1>3. UsedOutside(d, D) \subseteq Clusters
      BY DEF UsedOutside
<1> QED BY <1>1, <1>2, <1>3 DEF Closed

LEMMA UsedWithout ==
    ASSUME NEW d, IsVolume(d), InRange(d), NEW D, DirsSound(d, D), FilesSound(d, D),
           NEW x \in FilesIn(d, D), NEW start, start = First(d, x), start >= 2,
           NEW T, T = ToSet(Chain(d, start)), NEW E, E = UsedOutside(d, D) \ T
    PROVE  /\ Closed(d, E)
           /\ \A y \in FilesIn(d, D) : y # x => First(d, y) \in {0, 1} \cup E
<1>1. PICK U : U = UsedOutside(d, D)
      OBVIOUS
<1>2. Closed(d, U) /\ \A y \in FilesIn(d, D) : First(d, y) \in {0, 1} \cup U
      BY <1>1, UsedClosed
<1>3. U \subseteq Clusters \ D /\ TableSound(d, D)
      BY <1>1 DEF UsedOutside, DirsSound
<1>4. start \in U
      BY <1>2
<1>5. PICK t : t = Chain(d, start)
      OBVIOUS
<1>6. IsChain(d, start, MaxChain, t) /\ \A c \in ToSet(t) : c \in Clusters \ D
      BY <1>3, <1>4, <1>5, FileChain
<1>7. /\ Len(t) \in Nat /\ DOMAIN t = 1 .. Len(t) /\ t[1] = start
      /\ \A c : c \in T <=> \E k \in 1 .. Len(t) : c = t[k]
      BY <1>5, <1>6 DEF IsChain, ToSet
<1>8. ASSUME NEW c \in Clusters \ D, read_fat_entry(d, c) \in T, c \notin T
      PROVE  read_fat_entry(d, c) = start
  <2>1. PICK k \in 1 .. Len(t) : read_fat_entry(d, c) = t[k]
        BY <1>7, <1>8
  <2>2. CASE k = 1
        BY <1>7, <2>1, <2>2
  <2>3. CASE k # 1
    <3>1. k - 1 \in 1 .. Len(t) /\ (k - 1) + 1 = k /\ (k - 1) + 1 <= Len(t)
          BY <1>7, <2>1, <2>3
    <3>2. t[k] = read_fat_entry(d, t[k - 1]) /\ t[k] \in Clusters
          BY <1>6, <3>1 DEF IsChain
    <3>3. t[k - 1] \in T /\ t[k - 1] \in Clusters \ D
          BY <1>5, <1>6, <1>7, <3>1 DEF ToSet
    <3>4. c = t[k - 1]
          BY <2>1, <3>2, <3>3 DEF Apart, FilesSound, FilesSoundBut
    <3> QED BY <1>8, <3>3, <3>4
  <2> QED BY <2>2, <2>3
<1>9. /\ start \in Starts(d, Clusters \ D)
      /\ \A y \in FilesIn(d, D) : First(d, y) = start => y = x
      /\ \A y \in FilesIn(d, D) : First(d, y) >= 2 => First(d, y) \in Starts(d, Clusters \ D)
  <2>1. \A y \in FilesIn(d, D) : y \in FilesIn(d, D) \ {}
        OBVIOUS
  <2> QED BY <2>1 DEF FilesSound, FilesSoundBut
<1>10. ASSUME NEW c \in E, read_fat_entry(d, c) \in Clusters
       PROVE  read_fat_entry(d, c) \in E
  <2>1. c \in U /\ c \in Clusters \ D /\ c \notin T
        BY <1>1, <1>3
  <2>2. read_fat_entry(d, c) \in U
        BY <1>2, <1>10, <2>1 DEF Closed
  <2>3. read_fat_entry(d, c) # start
        BY <1>9, <2>1 DEF Starts
  <2> QED BY <1>1, <1>8, <2>1, <2>2, <2>3
<1>11. ASSUME NEW y \in FilesIn(d, D), y # x
       PROVE  First(d, y) \in {0, 1} \cup E
  <2>1. CASE First(d, y) \in T
    <3>1. PICK k \in 1 .. Len(t) : First(d, y) = t[k]
          BY <1>7, <2>1
    <3>2. k # 1
          BY <1>7, <1>9, <1>11, <3>1
    <3>3. k - 1 \in 1 .. Len(t) /\ (k - 1) + 1 = k /\ (k - 1) + 1 <= Len(t)
          BY <1>7, <3>1, <3>2
    <3>4. t[k] = read_fat_entry(d, t[k - 1]) /\ t[k] \in Clusters /\ t[k - 1] \in Clusters \ D
          BY <1>6, <1>7, <3>3 DEF IsChain, ToSet
    <3>5. First(d, y) >= 2
          BY <3>1, <3>4 DEF Clusters
    <3>6. First(d, y) \in Starts(d, Clusters \ D)
          BY <1>9, <3>5
    <3> QED BY <3>1, <3>4, <3>6 DEF Starts
  <2>2. CASE First(d, y) \notin T
        BY <1>1, <1>2, <2>2
  <2> QED BY <2>1, <2>2
<1>12. E \subseteq Clusters
       BY <1>1, <1>3
<1> QED BY <1>10, <1>11, <1>12 DEF Closed

(* Freeing and storing do not change them.                                 *)
LEMMA FreedSame ==
    ASSUME NEW d, IsVolume(d), NEW start, ~ (start < 2), NEW E \in SUBSET Clusters,
           E \cap ToSet(Chain(d, start)) = {}
    PROVE  SameIn(d, free_chain(d, start), E)
<1>1. PICK e : e = free_chain(d, start)
      OBVIOUS
<1>2. e.data = d.data /\ \A c \in Clusters : read_fat_entry(e, c)
                  = IF c \in ToSet(Chain(d, start)) THEN FREE ELSE read_fat_entry(d, c)
      BY <1>1, FreedIs
<1>3. \A c \in E : c \in Clusters /\ c \notin ToSet(Chain(d, start))
      OBVIOUS
<1> QED BY <1>1, <1>2, <1>3 DEF SameIn

LEMMA StoredSame ==
    ASSUME NEW d, IsVolume(d), InRange(d), NEW content, IsSequence(content),
           CanAlloc(d, needed(content)), NEW E \in SUBSET Clusters,
           \A c \in E : read_fat_entry(d, c) # FREE
    PROVE  SameIn(d, Stored(d, content), E)
<1>1. CASE content = <<>>
      BY <1>1 DEF Stored, SameIn
<1>2. CASE content # <<>>
  <2>1. PICK n : n = needed(content)
        OBVIOUS
  <2>2. PICK chain : chain = alloc_chain(d, n)
        OBVIOUS
  <2>3. PICK e : e = Stored(d, content)
        OBVIOUS
  <2>4. /\ DOMAIN chain = 1 .. n /\ \A k \in 1 .. n : chain[k] \in FreeClusters(d)
        /\ \A c \in Clusters \ ToSet(chain) :
              read_fat_entry(e, c) = read_fat_entry(d, c) /\ e.data[c] = d.data[c]
        BY <1>2, <2>1, <2>2, <2>3, StoredIs
  <2>5. \A c \in E : c \in Clusters \ ToSet(chain)
        BY <2>4 DEF ToSet, FreeClusters
  <2> QED BY <2>3, <2>4, <2>5 DEF SameIn
<1> QED BY <1>1, <1>2

LEMMA SameTwice ==
    ASSUME NEW d, NEW e, NEW f, NEW E, SameIn(d, e, E), SameIn(e, f, E)
    PROVE  SameIn(d, f, E)
    BY DEF SameIn

(* An entry that is written changes what its own slot lists, and no file.  *)
ReadsBut(d, e, D, c, i) ==
    /\ \A b \in D, j \in 1 .. ClusterUnits : <<b, j>> # <<c, i>> => SlotKept(d, e, b, j)
    /\ \A v : v.first_cluster \in {0, 1} \cup (Clusters \ D) => SameFile(d, e, v)
    /\ Used(e) = Used(d)

LEMMA EnteredReads ==
    ASSUME NEW d, IsVolume(d), InRange(d), NEW D, TableSound(d, D), NEW c \in D,
           NEW i \in 1 .. ClusterUnits, NEW u, u # END, NoEndBefore(d, c, i),
           NEW e, IsVolume(e), InRange(e), Entered(d, e, c, i, u)
    PROVE  ReadsBut(d, e, D, c, i) /\ Shown(e, c, i) /\ e.data[c][i] = u
<1>1. D \subseteq Clusters /\ c \in Clusters
      BY DEF TableSound
<1>2. ShowsToo(d, e, c, i)
      BY <1>1, EnteredShown
<1>3. ASSUME NEW b \in D, NEW j \in 1 .. ClusterUnits, <<b, j>> # <<c, i>>
      PROVE  SlotKept(d, e, b, j)
  <2>1. ~ (b = c /\ j = i) /\ b \in Clusters
        BY <1>1, <1>3
  <2>2. Shown(e, b, j) <=> Shown(d, b, j)
        BY <1>2, <2>1 DEF ShowsToo
  <2>3. Shown(d, b, j) => e.data[b][j] = d.data[b][j]
        BY <1>2, <2>1 DEF ShowsToo
  <2> QED BY <2>2, <2>3 DEF SlotKept, ListedIn
<1>4. Closed(d, Clusters \ D)
      BY DEF Closed, TableSound
<1>5. SameIn(d, e, Clusters \ D)
      BY DEF SameIn, Entered, read_fat_entry
<1>6. \A v : v.first_cluster \in {0, 1} \cup (Clusters \ D) => SameFile(d, e, v)
      BY <1>4, <1>5, SameRead
<1>7. Shown(e, c, i) /\ e.data[c][i] = u
      BY <1>1, <1>2 DEF ShowsToo, Entered
<1>8. Used(e) = Used(d)
      BY DEF Used, Entered, read_fat_entry
<1> QED BY <1>3, <1>6, <1>7, <1>8 DEF ReadsBut

(* The clusters that a content needs are enough for it.                    *)
LEMMA NeededHolds ==
    ASSUME NEW content, IsSequence(content)
    PROVE  Len(content) <= needed(content) * ClusterUnits
<1>1. PICK c : c = ClusterUnits
      OBVIOUS
<1>2. PICK l : l = Len(content)
      OBVIOUS
<1>3. c \in Nat \ {0} /\ l \in Nat
      BY <1>1, <1>2, NeededIs, FatAssumption
<1>4. PICK m \in Nat : m = l + c - 1
      BY <1>3
<1>5. PICK q \in Nat : q = m \div c
      BY <1>3, <1>4, Quotient
<1>6. needed(content) = q
      BY <1>1, <1>2, <1>4, <1>5 DEF needed, div_ceil
<1>7. m % c \in 0 .. c - 1 /\ m = c * q + (m % c)
      BY <1>3, <1>4, <1>5, Quotient
<1>8. c * q \in Nat /\ c * q = q * c
      BY <1>3, <1>5
<1>9. l <= q * c
      BY <1>3, <1>4, <1>7, <1>8
<1> QED BY <1>1, <1>2, <1>6, <1>9

(* What is read of units that begin with a content, at its size.           *)
LEMMA CutIs ==
    ASSUME NEW content, IsSequence(content), NEW units, Len(units) \in Nat,
           Len(content) <= Len(units),
           \A n \in 1 .. Len(content) : units[n] = content[n]
    PROVE  Cut(units, Len(content)) = content
<1>1. PICK S : content \in Seq(S)
      BY DEF IsSequence
<1>2. PICK l \in Nat : l = Len(content)
      BY <1>1
<1>3. Cut(units, l) = SubSeq(units, 1, l)
  <2>1. (IF l < Len(units) THEN l ELSE Len(units)) = l
        BY <1>2
  <2> QED BY <2>1 DEF Cut
<1>4. \A n \in 1 .. l : units[n] \in S
      BY <1>1, <1>2
<1>5. /\ SubSeq(units, 1, l) \in Seq(S)
      /\ Len(SubSeq(units, 1, l)) = IF 1 <= l THEN l - 1 + 1 ELSE 0
      /\ \A n \in 1 .. l - 1 + 1 : SubSeq(units, 1, l)[n] = units[1 + n - 1]
      BY <1>4, SubSeqProperties
<1>6. PICK f : f = SubSeq(units, 1, l)
      OBVIOUS
<1>7. f \in Seq(S) /\ Len(f) = l /\ \A n \in 1 .. l : f[n] = content[n]
  <2>1. Len(f) = l
        BY <1>2, <1>5, <1>6
  <2>2. \A n \in 1 .. l : n \in 1 .. l - 1 + 1 /\ 1 + n - 1 = n
        BY <1>2
  <2>3. \A n \in 1 .. l : f[n] = units[n]
        BY <1>5, <1>6, <2>2
  <2> QED BY <1>2, <1>5, <1>6, <2>1, <2>3
<1>8. f = content
      BY <1>1, <1>2, <1>7, SeqEqual
<1> QED BY <1>2, <1>3, <1>6, <1>8

(* A content that is stored, as its first cluster is followed.             *)
LEMMA StoredFollowed ==
    ASSUME NEW d, IsVolume(d), InRange(d), NEW content, IsSequence(content),
           content # <<>>, CanAlloc(d, needed(content)),
           NEW n, n = needed(content), NEW s, s = alloc_chain(d, n),
           NEW e, e = Stored(d, content), NEW h, h = FirstCluster(d, content),
           NEW max \in Nat \ {0}, n <= max
    PROVE  LET t == Links(e, h, max)
           IN  h \in Clusters /\ Len(t) = n /\ DOMAIN t = 1 .. n /\ \A k \in 1 .. n : t[k] = s[k]
<1>1. /\ n \in Nat /\ n >= 1 /\ Len(s) = n /\ DOMAIN s = 1 .. n
      /\ \A k \in 1 .. n : s[k] \in FreeClusters(d)
      /\ \A k \in 1 .. n : read_fat_entry(e, s[k]) = IF k < n THEN s[k + 1] ELSE EOC
      BY StoredIs
<1>2. IsVolume(e) /\ InRange(e)
  <2>1. Len(content) \in Nat
        BY NeededIs
  <2> QED BY <2>1, StoreChanges DEF Changed
<1>3. EOC \notin Clusters
      BY FatAssumption, MarkAssumption, SMT DEF EOC, EOC_MIN, Clusters
<1>4. \A k \in 1 .. n : s[k] \in Clusters
      BY <1>1 DEF FreeClusters
<1>5. 1 \in 1 .. n /\ n \in 1 .. n
      BY <1>1
<1>6. h = s[1] /\ h \in Clusters
      BY <1>4, <1>5 DEF FirstCluster
<1>7. max \in Nat /\ h \in 0 .. MaxCluster /\ h >= 2 /\ ~ (h < 2)
  <2>1. MaxCluster \in Nat
        BY FatAssumption
  <2> QED BY ONLY <1>6, <2>1, max \in Nat \ {0} DEF Clusters
<1>8. PICK A : A = {s[k] : k \in 1 .. n}
      OBVIOUS
<1>9. Closed(e, A) /\ h \in A
  <2>1. ASSUME NEW k \in 1 .. n, read_fat_entry(e, s[k]) \in Clusters
        PROVE  read_fat_entry(e, s[k]) \in A
    <3>1. k < n
          BY <1>1, <1>3, <2>1
    <3>2. k + 1 \in 1 .. n /\ read_fat_entry(e, s[k]) = s[k + 1]
          BY <1>1, <3>1
    <3> QED BY <1>8, <3>2
  <2> QED BY <1>4, <1>5, <1>6, <1>8, <2>1 DEF Closed
<1>10. IsChain(e, h, max, s)
  <2>1. Len(s) \in 0 .. max /\ DOMAIN s = 1 .. Len(s) /\ Len(s) >= 1
        BY <1>1, <1>7
  <2>2. \A k \in 1 .. Len(s) : k + 1 <= Len(s) => s[k + 1] = read_fat_entry(e, s[k])
        BY <1>1
  <2>3. read_fat_entry(e, s[Len(s)]) = EOC
        BY <1>1, <1>5
  <2> QED BY <1>1, <1>3, <1>4, <1>6, <1>7, <2>1, <2>2, <2>3 DEF IsChain
<1>11. PICK t : t = Links(e, h, max)
       OBVIOUS
<1>12. IsChain(e, h, max, t)
       BY <1>2, <1>7, <1>11, LinksAreChain
<1>13. Agree(s, t)
  <2>1. \A c \in A : read_fat_entry(e, c) = read_fat_entry(e, c)
        OBVIOUS
  <2> QED BY <1>7, <1>9, <1>10, <1>12, <2>1, SameChain
<1>14. Len(t) = n /\ DOMAIN t = 1 .. n /\ \A k \in 1 .. n : t[k] = s[k]
       BY <1>1, <1>12, <1>13 DEF Agree, IsChain
<1> QED BY <1>6, <1>11, <1>14

(* As many clusters can be allocated as there are free ones.               *)
LEMMA NeededIsThere ==
    ASSUME NEW d, NEW n \in Nat, CanAlloc(d, n)
    PROVE  n <= MaxCluster /\ MaxCluster \in Nat \ {0}
<1>1. MaxCluster \in Nat /\ MaxCluster >= 2
      BY FatAssumption
<1>2. IsFiniteSet(2 .. MaxCluster) /\ Cardinality(2 .. MaxCluster) = MaxCluster - 1
  <2>1. 2 \in Int /\ MaxCluster \in Int /\ ~ (2 > MaxCluster)
        BY <1>1
  <2>2. Cardinality(2 .. MaxCluster) = MaxCluster - 2 + 1
        BY <2>1, FS_Interval
  <2> QED BY <1>1, <2>1, <2>2, FS_Interval
<1>3. FreeClusters(d) \in SUBSET (2 .. MaxCluster)
      BY DEF FreeClusters, Clusters
<1>4. Cardinality(FreeClusters(d)) <= MaxCluster - 1 /\ Cardinality(FreeClusters(d)) \in Nat
      BY <1>2, <1>3, FS_Subset, FS_CardinalityType
<1>5. Cardinality(FreeClusters(d)) >= n
      BY DEF CanAlloc
<1> QED BY <1>1, <1>4, <1>5

(* A sequence with no cluster twice has as many clusters.                  *)
LEMMA CountOf ==
    ASSUME NEW n \in Nat, NEW s, DOMAIN s = 1 .. n,
           \A k, l \in 1 .. n : s[k] = s[l] => k = l
    PROVE  Cardinality(ToSet(s)) = n
<1>1. ToSet(s) = {s[k] : k \in 1 .. n}
      BY DEF ToSet
<1> DEFINE f == [k \in 1 .. n |-> s[k]]
<1>2. f \in [1 .. n -> ToSet(s)]
      BY <1>1
<1>3. f \in Injection(1 .. n, ToSet(s)) /\ f \in Surjection(1 .. n, ToSet(s))
      BY <1>1, <1>2 DEF Injection, IsInjective, Surjection
<1>4. ExistsBijection(1 .. n, ToSet(s))
      BY <1>3 DEF ExistsBijection, Bijection
<1> QED BY <1>4, FS_CountingElements

(* The clusters a content takes: as many as it needs, free before, and all *)
(* of them are followed when the content is not too long.                  *)
Takes(d, e, first, content) ==
    /\ Used(e) = Used(d) \cup WholeChain(e, first)
    /\ Used(d) \cap WholeChain(e, first) = {}
    /\ Cardinality(WholeChain(e, first)) = needed(content)
    /\ needed(content) <= MaxChain => WholeChain(e, first) = ToSet(Chain(e, first))

LEMMA StoredTakes ==
    ASSUME NEW d, IsVolume(d), InRange(d), NEW content, IsSequence(content),
           CanAlloc(d, needed(content)),
           NEW e, e = Stored(d, content), NEW h, h = FirstCluster(d, content)
    PROVE  Takes(d, e, h, content)
<1>1. CASE content = <<>>
  <2>1. e = d /\ h = 0
        BY <1>1 DEF Stored, FirstCluster
  <2>2. WholeChain(e, h) = {} /\ ToSet(Chain(e, h)) = {}
    <3>1. MaxCluster \in Nat \ {0} /\ MaxChain \in Nat \ {0} /\ h \in 0 .. MaxCluster /\ h < 2
      <4>1. MaxCluster \in Nat /\ MaxCluster >= 2
            BY FatAssumption
      <4> QED BY <2>1, <4>1, FatAssumption
    <3>2. \A max \in Nat \ {0} : ToSet(Links(e, h, max)) = {}
      <4> SUFFICES ASSUME NEW max \in Nat \ {0} PROVE ToSet(Links(e, h, max)) = {}
          OBVIOUS
      <4>1. IsChain(e, h, max, Links(e, h, max))
            BY <2>1, <3>1, LinksAreChain
      <4>2. DOMAIN Links(e, h, max) = 1 .. 0
            BY <3>1, <4>1 DEF IsChain
      <4> QED BY <4>2 DEF ToSet
    <3> QED BY <3>1, <3>2 DEF WholeChain, Chain
  <2>3. needed(content) = 0
    <3>1. ClusterUnits \in Nat \ {0} /\ Len(content) = 0
          BY <1>1, FatAssumption
    <3>2. (0 + ClusterUnits - 1) \div ClusterUnits = 0
          BY <3>1, SMT
    <3> QED BY <3>1, <3>2 DEF needed, div_ceil
  <2> QED BY <2>1, <2>2, <2>3, FS_EmptySet DEF Takes
<1>2. CASE content # <<>>
  <2>1. PICK n : n = needed(content)
        OBVIOUS
  <2>2. PICK s : s = alloc_chain(d, n)
        OBVIOUS
  <2>3. /\ n \in Nat /\ n >= 1 /\ Len(s) = n /\ DOMAIN s = 1 .. n
        /\ \A k \in 1 .. n : s[k] \in FreeClusters(d)
        /\ \A k, l \in 1 .. n : s[k] = s[l] => k = l
        /\ \A k \in 1 .. n : read_fat_entry(e, s[k]) = IF k < n THEN s[k + 1] ELSE EOC
        /\ \A c \in Clusters \ ToSet(s) : read_fat_entry(e, c) = read_fat_entry(d, c)
        BY <1>2, <2>1, <2>2, StoredIs
  <2>4. ASSUME NEW max \in Nat \ {0}, n <= max
        PROVE  ToSet(Links(e, h, max)) = ToSet(s)
    <3>1. PICK t : t = Links(e, h, max)
          OBVIOUS
    <3>2. DOMAIN t = 1 .. n /\ \A k \in 1 .. n : t[k] = s[k]
          BY <1>2, <2>1, <2>2, <2>4, <3>1, StoredFollowed
    <3> QED BY <2>3, <3>1, <3>2 DEF ToSet
  <2>5. n <= MaxCluster /\ MaxCluster \in Nat \ {0} /\ MaxChain \in Nat \ {0}
        BY <2>1, <2>3, NeededIsThere, FatAssumption
  <2>6. WholeChain(e, h) = ToSet(s)
        BY <2>4, <2>5 DEF WholeChain
  <2>7. n <= MaxChain => ToSet(Chain(e, h)) = ToSet(s)
        BY <2>4, <2>5 DEF Chain
  <2>8. Cardinality(ToSet(s)) = n
        BY <2>3, CountOf
  <2>9. \A k \in 1 .. n : read_fat_entry(e, s[k]) # FREE
    <3>1. FREE # EOC /\ FREE \notin Clusters
          BY SMT DEF FREE, EOC, Clusters
    <3>2. \A k \in 1 .. n : k < n => k + 1 \in 1 .. n
          BY <2>3
    <3> QED BY <2>3, <3>1, <3>2 DEF FreeClusters
  <2>10. \A c \in ToSet(s) : c \in Clusters /\ read_fat_entry(d, c) = FREE
                             /\ read_fat_entry(e, c) # FREE
         BY <2>3, <2>9 DEF ToSet, FreeClusters
  <2>11. Used(e) = Used(d) \cup ToSet(s) /\ Used(d) \cap ToSet(s) = {}
         BY <2>3, <2>10 DEF Used
  <2> QED BY <2>1, <2>6, <2>7, <2>8, <2>11 DEF Takes
<1> QED BY <1>1, <1>2

(* A content that is stored is read back.                                  *)
LEMMA StoredReads ==
    ASSUME NEW d, IsVolume(d), InRange(d), NEW content, IsSequence(content),
           CanAlloc(d, needed(content)), needed(content) <= MaxChain,
           NEW e, e = Stored(d, content),
           NEW v, is_file(v), v.first_cluster = FirstCluster(d, content),
           v.size = Len(content)
    PROVE  read_file(e, v) = Ok(content)
<1>1. CASE content = <<>>
  <2>1. Len(content) = 0
        BY <1>1
  <2> QED BY <1>1, <2>1 DEF read_file
<1>2. CASE content # <<>>
  <2>1. PICK n : n = needed(content)
        OBVIOUS
  <2>2. PICK s : s = alloc_chain(d, n)
        OBVIOUS
  <2>3. /\ n \in Nat /\ n >= 1
        /\ \A k \in 1 .. n : read_fat_entry(e, s[k]) = IF k < n THEN s[k + 1] ELSE EOC
        /\ \A k \in 1 .. n : e.data[s[k]] = Piece(content, k)
        BY <1>2, <2>1, <2>2, StoredIs
  <2>4. EOC \notin Clusters /\ ~ (EOC < 2)
        BY FatAssumption, MarkAssumption, SMT DEF EOC, EOC_MIN, Clusters
  <2>5. PICK h : h = FirstCluster(d, content)
        OBVIOUS
  <2>6. PICK t : t = Chain(e, h)
        OBVIOUS
  <2>7. h \in Clusters /\ Len(t) = n /\ \A k \in 1 .. n : t[k] = s[k]
    <3>1. MaxChain \in Nat \ {0} /\ n <= MaxChain
          BY <2>1, FatAssumption
    <3> QED BY <1>2, <2>1, <2>2, <2>5, <2>6, <3>1, StoredFollowed DEF Chain
  <2>8. n \in 1 .. n /\ ~ (h < 2)
    <3>1. h >= 2 /\ h \in Nat
          BY <2>7, FatAssumption DEF Clusters
    <3> QED BY <2>3, <3>1
  <2>9. follow_chain(e, h) = Ok(t)
    <3>1. Last(t) = s[n]
          BY <2>7, <2>8 DEF Last
    <3>2. read_fat_entry(e, s[n]) = EOC
          BY <2>3, <2>8
    <3>3. CheckEnd(e, t) = Ok(t)
          BY <2>4, <3>1, <3>2 DEF CheckEnd
    <3> QED BY <2>6, <2>8, <3>3 DEF follow_chain
  <2>10. PICK units : units = Units(e, t)
         OBVIOUS
  <2>11. Len(units) = n * ClusterUnits /\ Len(units) \in Nat
         BY <2>3, <2>7, <2>10, UnitsAreSeq
  <2>12. Len(content) <= Len(units) /\ Len(content) \in Nat
         BY <2>1, <2>11, NeededHolds, NeededIs
  <2>13. \A m \in 1 .. Len(content) : units[m] = content[m]
    <3> SUFFICES ASSUME NEW m \in 1 .. Len(content) PROVE units[m] = content[m]
        OBVIOUS
    <3>1. m \in 1 .. Len(t) * ClusterUnits
          BY <2>7, <2>11, <2>12
    <3>2. PICK k \in 1 .. Len(t), i \in 1 .. ClusterUnits : m = Pos(k, i)
          BY <2>3, <2>7, <3>1, SlotIsPos
    <3>3. units[m] = e.data[t[k]][i]
      <4>1. Len(t) \in Nat
            BY <2>3, <2>7
      <4>2. Units(e, t)[Pos(k, i)] = e.data[t[k]][i]
            BY <4>1, UnitAt
      <4> QED BY <2>10, <3>2, <4>2
    <3>4. e.data[t[k]] = Piece(content, k)
          BY <2>3, <2>7, <3>2
    <3>5. Piece(content, k)[i] = IF m <= Len(content) THEN content[m] ELSE END
          BY <3>2 DEF Piece, Pos
    <3> QED BY <3>3, <3>4, <3>5
  <2>14. Cut(units, Len(content)) = content
         BY <2>11, <2>12, <2>13, CutIs
  <2>15. v.first_cluster = h /\ v.size # 0
    <3>1. Len(content) # 0
      <4>1. PICK S : content \in Seq(S)
            BY DEF IsSequence
      <4> QED BY ONLY <1>2, <4>1
    <3> QED BY <2>5, <3>1
  <2>16. \A x : Ok(x).ok /\ Ok(x).val = x
         BY DEF Ok
  <2>17. read_file(e, v) = Try(Ok(t), LAMBDA chain : Ok(Cut(Units(e, chain), v.size)))
         BY <2>9, <2>15 DEF read_file
  <2>18. read_file(e, v) = Ok(Cut(Units(e, t), v.size))
         BY <2>16, <2>17 DEF Try
  <2> QED BY <2>10, <2>14, <2>18
<1> QED BY <1>1, <1>2

(* What a write that returns Ok leaves: the directory lists the name at    *)
(* one slot, where the content is read, and at the others what it did.     *)
Fits(content) == Len(content) < SizeMod /\ needed(content) <= MaxChain
NewFile(e, c, i, name, content) ==
    /\ ListedIn(e, c, i)
    /\ \E first \in 0 .. MaxCluster :
          e.data[c][i] = Entry(name, "file", first, Len(content))
    /\ read_file(e, e.data[c][i]) = Ok(content)
Holds(d, e, h, name, content) ==
    \E c \in ToSet(Chain(d, h)), i \in 1 .. ClusterUnits : NewFile(e, c, i, name, content)

(* The clusters of the file at a slot are given back, others taken.        *)
FreedAt(d, c, i) == IF ListedIn(d, c, i) THEN ToSet(Chain(d, d.data[c][i].first_cluster)) ELSE {}
TakenAt(e, c, i) == WholeChain(e, e.data[c][i].first_cluster)
Took(d, e, c, i, content) ==
    /\ Used(e) = (Used(d) \ FreedAt(d, c, i)) \cup TakenAt(e, c, i)
    /\ (Used(d) \ FreedAt(d, c, i)) \cap TakenAt(e, c, i) = {}
    /\ Cardinality(TakenAt(e, c, i)) = needed(content)
    /\ TakenAt(e, c, i) = ToSet(Chain(e, e.data[c][i].first_cluster))
Writes(d, e, D, h, name, content) ==
    \E c \in ToSet(Chain(d, h)), i \in 1 .. ClusterUnits :
        /\ ReadsKept(d, e, D, {<<c, i>>})
        /\ ListedIn(d, c, i) => d.data[c][i].name = name
        /\ NewFile(e, c, i, name, content)
        /\ Took(d, e, c, i, content)

LEMMA SizeIs ==
    ASSUME NEW content, IsSequence(content), Fits(content)
    PROVE  Len(content) % SizeMod = Len(content)
<1>1. Len(content) \in Nat /\ Len(content) < SizeMod
      BY NeededIs DEF Fits
<1>2. SizeMod \in Nat \ {0}
      BY FatAssumption
<1> QED BY ONLY <1>1, <1>2

(* Clusters that are kept keep what their files read.                      *)
LEMMA SameKept ==
    ASSUME NEW d, IsVolume(d), InRange(d), NEW e, IsVolume(e), InRange(e),
           NEW D, DirsSound(d, D), \A c \in D : e.data[c] = d.data[c],
           NEW E, Closed(d, E), SameIn(d, e, E), NEW X,
           \A x \in FilesIn(d, D) : x \in X \/ First(d, x) \in {0, 1} \cup E
    PROVE  ReadsKept(d, e, D, X)
<1> SUFFICES ASSUME NEW c \in D, NEW i \in 1 .. ClusterUnits, <<c, i>> \notin X
             PROVE  /\ SlotKept(d, e, c, i)
                    /\ ListedIn(d, c, i) /\ is_file(d.data[c][i])
                       => SameFile(d, e, d.data[c][i])
    BY DEF ReadsKept
<1>1. e.data[c] = d.data[c]
      OBVIOUS
<1>2. SlotKept(d, e, c, i)
      BY <1>1 DEF SlotKept, ListedIn, Shown
<1>3. ASSUME ListedIn(d, c, i), is_file(d.data[c][i])
      PROVE  SameFile(d, e, d.data[c][i])
  <2>1. PICK x : x = <<c, i>>
        OBVIOUS
  <2>2. x \in FilesIn(d, D) /\ First(d, x) = d.data[c][i].first_cluster
        BY <1>3, <2>1 DEF FilesIn, First
  <2>3. d.data[c][i].first_cluster \in {0, 1} \cup E
        BY <2>1, <2>2
  <2> QED BY <2>3, SameRead
<1> QED BY <1>2, <1>3

(* The entry of a file whose content is stored.                            *)
LEMMA EntryFile ==
    ASSUME NEW full, IsVolume(full), InRange(full),
           NEW after, IsVolume(after), InRange(after), NEW D, TableSound(full, D),
           NEW c \in D, NEW i \in 1 .. ClusterUnits,
           NEW name, NEW content, NEW first, first \in {0, 1} \cup (Clusters \ D),
           NEW u, u = Entry(name, "file", first, Len(content)),
           read_file(full, u) = Ok(content),
           NoEndBefore(full, c, i), Entered(full, after, c, i, u)
    PROVE  ReadsBut(full, after, D, c, i) /\ NewFile(after, c, i, name, content)
<1>1. /\ u # END /\ Parsed(u) /\ u.first_cluster = first
      BY DEF Entry, END, Parsed
<1>2. ReadsBut(full, after, D, c, i) /\ Shown(after, c, i) /\ after.data[c][i] = u
      BY <1>1, EnteredReads
<1>3. ListedIn(after, c, i)
      BY <1>1, <1>2 DEF ListedIn
<1>4. read_file(after, after.data[c][i]) = Ok(content)
      BY <1>1, <1>2 DEF ReadsBut, SameFile
<1>5. first \in 0 .. MaxCluster
  <2>1. MaxCluster \in Nat /\ MaxCluster >= 2
        BY FatAssumption
  <2> QED BY <2>1 DEF Clusters
<1> QED BY <1>2, <1>3, <1>4, <1>5 DEF NewFile

(* The others read as they did before the content was stored.              *)
LEMMA EntryReads ==
    ASSUME NEW d, NEW full, NEW after, NEW D, DirsSound(d, D),
           NEW c \in D, NEW i \in 1 .. ClusterUnits,
           ReadsKept(d, full, D, {<<c, i>>}), ReadsBut(full, after, D, c, i)
    PROVE  ReadsKept(d, after, D, {<<c, i>>})
<1> SUFFICES ASSUME NEW b \in D, NEW j \in 1 .. ClusterUnits, <<b, j>> \notin {<<c, i>>}
             PROVE  /\ SlotKept(d, after, b, j)
                    /\ ListedIn(d, b, j) /\ is_file(d.data[b][j])
                       => SameFile(d, after, d.data[b][j])
    BY DEF ReadsKept
<1>1. SlotKept(full, after, b, j)
      BY DEF ReadsBut
<1>2. SlotKept(d, full, b, j)
      BY DEF ReadsKept
<1>3. SlotKept(d, after, b, j)
      BY <1>1, <1>2 DEF SlotKept
<1>4. ASSUME ListedIn(d, b, j), is_file(d.data[b][j])
      PROVE  SameFile(d, after, d.data[b][j])
  <2>1. PICK v : v = d.data[b][j]
        OBVIOUS
  <2>2. SameFile(d, full, v)
        BY <1>4, <2>1 DEF ReadsKept
  <2>3. FirstSound(d, D, v)
        BY <1>4, <2>1 DEF DirsSound, EntriesSound
  <2>4. v.first_cluster \in {0, 1} \cup (Clusters \ D)
        BY <1>4, <2>1, <2>3 DEF FirstSound, is_file, is_dir
  <2>5. SameFile(full, after, v)
        BY <2>4 DEF ReadsBut
  <2> QED BY <2>1, <2>2, <2>5 DEF SameFile
<1> QED BY <1>3, <1>4

(* What is given back and taken, from freeing to the entry.                *)
LEMMA UsedFreed ==
    ASSUME NEW d, IsVolume(d), InRange(d), NEW start \in 0 .. MaxCluster,
           NEW freed, freed = free_chain(d, start)
    PROVE  Used(freed) = Used(d) \ ToSet(Chain(d, start))
<1>1. CASE start < 2
  <2>1. freed = d
        BY <1>1 DEF free_chain
  <2>2. MaxChain \in Nat \ {0}
        BY FatAssumption
  <2>3. IsChain(d, start, MaxChain, Chain(d, start))
        BY <2>2, LinksAreChain DEF Chain
  <2>4. DOMAIN Chain(d, start) = 1 .. 0
        BY <1>1, <2>3 DEF IsChain
  <2>5. ToSet(Chain(d, start)) = {}
        BY <2>4 DEF ToSet
  <2> QED BY <2>1, <2>5
<1>2. CASE ~ (start < 2)
      BY <1>2, FreedIs DEF Used
<1> QED BY <1>1, <1>2

LEMMA EntryTakes ==
    ASSUME NEW d, NEW freed, NEW full, NEW after, NEW D, NEW c, NEW i, NEW name, NEW content,
           needed(content) <= MaxChain,
           NEW first, first \in {0, 1} \cup (Clusters \ D),
           NEW u, u = Entry(name, "file", first, Len(content)), after.data[c][i] = u,
           Used(freed) = Used(d) \ FreedAt(d, c, i),
           Takes(freed, full, first, content), ReadsBut(full, after, D, c, i)
    PROVE  Took(d, after, c, i, content)
<1>1. u.first_cluster = first
      BY DEF Entry
<1>2. SameFile(full, after, u) /\ Used(after) = Used(full)
      BY <1>1 DEF ReadsBut
<1>3. TakenAt(after, c, i) = WholeChain(full, first) /\ Chain(after, first) = Chain(full, first)
      BY <1>1, <1>2 DEF TakenAt, SameFile
<1> QED BY <1>1, <1>2, <1>3 DEF Takes, Took

(* The other ways out leave every path what it holds.                      *)
Reads(d, e, r, D, h, name, content) ==
    IF r = "Ok" THEN Writes(d, e, D, h, name, content) ELSE ReadsKept(d, e, D, {})

LEMMA NothingRead ==
    ASSUME NEW d, NEW D
    PROVE  ReadsKept(d, d, D, {})
    BY DEF ReadsKept, SlotKept, SameFile

LEMMA FewerKept ==
    ASSUME NEW d, NEW e, NEW D, ReadsKept(d, e, D, {}), NEW X
    PROVE  ReadsKept(d, e, D, X)
<1>1. \A x : x \notin {}
      OBVIOUS
<1> QED BY <1>1 DEF ReadsKept

(* A content in fresh clusters.                                            *)
LEMMA StoreReads ==
    ASSUME NEW d, IsVolume(d), InRange(d), NEW D, DirsSound(d, D), FilesSound(d, D),
           NEW content, IsSequence(content), CanAlloc(d, needed(content)),
           NEW e, IsVolume(e), InRange(e), e = Stored(d, content),
           \A c \in D : e.data[c] = d.data[c]
    PROVE  ReadsKept(d, e, D, {})
<1>1. PICK E : E = UsedOutside(d, D)
      OBVIOUS
<1>2. Closed(d, E) /\ \A x \in FilesIn(d, D) : First(d, x) \in {0, 1} \cup E
      BY <1>1, UsedClosed
<1>3. E \in SUBSET Clusters /\ \A c \in E : read_fat_entry(d, c) # FREE
      BY <1>1 DEF UsedOutside
<1>4. SameIn(d, e, E)
      BY <1>3, StoredSame
<1>5. \A x \in FilesIn(d, D) : x \in {} \/ First(d, x) \in {0, 1} \cup E
      BY <1>2
<1> QED BY <1>2, <1>4, <1>5, SameKept

(* The clusters of the files but the one whose chain is freed.             *)
OthersIn(d, freed, D, x, E) ==
    /\ Closed(d, E) /\ SameIn(d, freed, E)
    /\ \A c \in E : read_fat_entry(d, c) # FREE
    /\ \A y \in FilesIn(d, D) : y \in {x} \/ First(d, y) \in {0, 1} \cup E

LEMMA FreeReads ==
    ASSUME NEW d, IsVolume(d), InRange(d), NEW D, DirsSound(d, D), FilesSound(d, D),
           NEW x, NEW start, start \in {0, 1} \/ (x \in FilesIn(d, D) /\ start = First(d, x)),
           NEW freed, freed = free_chain(d, start)
    PROVE  \E E \in SUBSET Clusters : OthersIn(d, freed, D, x, E)
<1>1. PICK U : U = UsedOutside(d, D)
      OBVIOUS
<1>2. /\ Closed(d, U) /\ \A y \in FilesIn(d, D) : First(d, y) \in {0, 1} \cup U
      /\ U \in SUBSET Clusters /\ \A c \in U : read_fat_entry(d, c) # FREE
      BY <1>1, UsedClosed DEF UsedOutside
<1>3. CASE start \in {0, 1}
  <2>1. freed = d
        BY <1>3 DEF free_chain
  <2>2. SameIn(d, freed, U)
        BY <2>1 DEF SameIn
  <2>3. OthersIn(d, freed, D, x, U)
        BY <1>2, <2>2 DEF OthersIn
  <2> QED BY <1>2, <2>3
<1>4. CASE start \notin {0, 1}
  <2>1. x \in FilesIn(d, D) /\ start = First(d, x) /\ start \in Clusters
        BY <1>2, <1>4
  <2>2. start >= 2 /\ ~ (start < 2)
        BY <2>1 DEF Clusters
  <2>3. PICK T : T = ToSet(Chain(d, start))
        OBVIOUS
  <2>4. PICK E : E = U \ T
        OBVIOUS
  <2>5. /\ Closed(d, E)
        /\ \A y \in FilesIn(d, D) : y # x => First(d, y) \in {0, 1} \cup E
        BY <1>1, <2>1, <2>2, <2>3, <2>4, UsedWithout
  <2>6. E \in SUBSET Clusters /\ E \cap ToSet(Chain(d, start)) = {}
        BY <1>2, <2>3, <2>4
  <2>7. SameIn(d, freed, E)
        BY <2>2, <2>6, FreedSame
  <2>8. \A c \in E : read_fat_entry(d, c) # FREE
        BY <1>2, <2>4
  <2>9. OthersIn(d, freed, D, x, E)
        BY <2>5, <2>7, <2>8 DEF OthersIn
  <2> QED BY <2>6, <2>9
<1> QED BY <1>3, <1>4

(* A content in fresh clusters, and in those freed.                        *)
LEMMA StoreFreed ==
    ASSUME NEW d, IsVolume(d), InRange(d), NEW D, DirsSound(d, D),
           NEW freed, IsVolume(freed), InRange(freed), freed.data = d.data,
           NEW x, NEW E, E \in SUBSET Clusters, OthersIn(d, freed, D, x, E),
           NEW content, IsSequence(content), CanAlloc(freed, needed(content)),
           NEW e, IsVolume(e), InRange(e), e = Stored(freed, content),
           \A c \in D : e.data[c] = freed.data[c]
    PROVE  ReadsKept(d, e, D, {x})
<1>1. /\ Closed(d, E) /\ SameIn(d, freed, E)
      /\ \A y \in FilesIn(d, D) : y \in {x} \/ First(d, y) \in {0, 1} \cup E
      BY DEF OthersIn
<1>2. \A c \in E : read_fat_entry(freed, c) # FREE
      BY DEF OthersIn, SameIn
<1>3. SameIn(freed, e, E)
      BY <1>2, StoredSame
<1>4. SameIn(d, e, E)
      BY <1>1, <1>3, SameTwice
<1>5. \A c \in D : e.data[c] = d.data[c]
      OBVIOUS
<1> QED BY <1>1, <1>4, <1>5, SameKept
-----------------------------------------------------------------------------
(* A file that is added, on every way out: the volume is as sound as it    *)
(* was, and its directories lead where they led.                           *)
LEMMA AddKeeps ==
    ASSUME NEW d, NEW after, NEW r, IsVolume(d), InRange(d), NEW D, DirsSound(d, D),
           NEW name, NEW content, IsSequence(content), Plain(content),
           NEW h \in Starts(d, D), NEW s, s = Chain(d, h),
           find_dir_entry(d, s, name) = 0, AddFile(d, after, r, s, name, content)
    PROVE  /\ IsVolume(after) /\ InRange(after)
           /\ DirsSound(after, D) /\ DirsKept(d, after, D)
           /\ FilesSound(d, D) => FilesSound(after, D)
           /\ FilesSound(d, D) /\ Fits(content) => Reads(d, after, r, D, h, name, content)
           /\ r = "Ok" /\ Fits(content) => Holds(d, after, h, name, content)
<1>1. TableSound(d, D) /\ EndsSound(d, D) /\ Closed(d, D) /\ D \subseteq Clusters
      BY SoundIsClosed DEF DirsSound, TableSound
<1>2. IsChain(d, h, MaxChain, s) /\ (\A b \in ToSet(s) : b \in D) /\ h \in D
      BY <1>1, DirChain, StartsInRange
<1>3. DOMAIN s = 1 .. Len(s) /\ Len(s) \in Nat
      BY <1>2 DEF IsChain
<1>4. CASE NoClusters(d, after, r)
  <2>1. after = d /\ r # "Ok"
        BY <1>4 DEF NoClusters
  <2>2. ReadsKept(d, after, D, {})
        BY <2>1, NothingRead
  <2> QED BY <2>1, <2>2 DEF DirsKept, Reads
<1>5. CASE CanAlloc(d, needed(content)) /\ ~ NoClusters(d, after, r)
  <2>1. PICK full : full = Stored(d, content)
        OBVIOUS
  <2>2. /\ DirsSound(full, D) /\ DirsKept(d, full, D)
        /\ \A c \in D : full.data[c] = d.data[c]
        BY <1>5, <2>1, StoreKeeps
  <2>3. Len(content) \in Nat
        BY NeededIs
  <2>4. IsVolume(full) /\ InRange(full)
        BY <1>5, <2>1, <2>3, StoreChanges DEF Changed
  <2>5. PICK free, first : /\ free = find_free_dir_entry_slot(full, s)
                           /\ first = FirstCluster(d, content)
        OBVIOUS
  <2>6. AddEntry(full, after, r, s, free, name, first, content)
        BY <1>5, <2>1, <2>5 DEF AddFile
  <2>7. ASSUME FilesSound(d, D), NEW X
        PROVE  FilesSoundBut(full, D, X) /\ Ready(full, D, X, FirstCluster(d, content))
    <3>1. FilesSoundBut(d, D, X)
          BY <2>7, FilesBut
    <3> QED BY <1>1, <1>5, <2>1, <2>2, <3>1, StoreFiles
  <2>8. CASE NoSlot(full, after, r)
    <3>1. after = full /\ r # "Ok"
          BY <2>8 DEF NoSlot
    <3>2. FilesSound(d, D) => ReadsKept(d, full, D, {})
          BY <1>5, <2>1, <2>2, <2>4, StoreReads
    <3> QED BY <2>2, <2>4, <2>7, <3>1, <3>2 DEF FilesSound, Reads
  <2>9. CASE free # 0 /\ Create(full, after, r, s, free, name, first, content)
    <3>1. PICK k \in 1 .. Len(s), i \in 1 .. ClusterUnits :
              /\ free = Pos(k, i) /\ Units(full, s)[free] = full.data[s[k]][i]
              /\ full.data[s[k]][i] \in {END, DEL}
              /\ NoEndBefore(full, s[k], i)
              /\ \A l \in 1 .. Len(s), j \in 1 .. ClusterUnits :
                    l < k => full.data[s[l]][j] # END
          BY <1>3, <2>5, <2>9, FreeSlotIs
    <3>2. s[k] \in ToSet(s) /\ s[k] \in D /\ s[k] \in Clusters
          BY <1>1, <1>2, <1>3 DEF ToSet
    <3>3. PICK u : u = Entry(name, "file", FirstCluster(d, content),
                             Len(content) % SizeMod)
          OBVIOUS
    <3>4. FileEntry(D, u) /\ u.name = name
          BY <1>1, <1>5, <3>3, NewEntry
    <3>5. PICK was_end : was_end = (Units(full, s)[free] = END)
          OBVIOUS
    <3>6. after = MoveEnd(SetSlot(full, s, Pos(k, i), u), s, Pos(k, i), was_end)
          BY <2>5, <2>9, <3>1, <3>3, <3>5 DEF Create, write_dir_entry
    <3>7. was_end <=> full.data[s[k]][i] = END
          BY <3>1, <3>5
    <3>8. IsVolume(after) /\ InRange(after) /\ Entered(full, after, s[k], i, u)
          BY <1>3, <2>4, <3>2, <3>6, <3>7, CreateEnters
    <3>9. TableSound(d, D) /\ IsVolume(full) /\ InRange(full) /\ DirsKept(d, full, D)
           BY <1>1, <2>2, <2>4
    <3>10. \A g \in {0, 1} \cup D : Chain(full, g) = Chain(d, g)
          BY <3>9, KeptChains
    <3>11. Chain(full, h) = s /\ Starts(full, D) = Starts(d, D)
           BY <1>1, <1>2, <2>2, <2>4, <3>10, KeptChains
    <3>12. \A b \in ToSet(s), j \in 1 .. ClusterUnits :
              EntryIn(full, b, j) => full.data[b][j].name # name
      <4>1. \A b \in ToSet(s), j \in 1 .. ClusterUnits :
               EntryIn(d, b, j) => d.data[b][j].name # name
            BY <1>1, <1>2, NameNotFound
      <4>2. \A b \in D, j \in 1 .. ClusterUnits : EntryIn(full, b, j) <=> EntryIn(d, b, j)
            BY <2>2 DEF EntryIn, Shown
      <4> QED BY <1>2, <2>2, <4>1, <4>2
    <3>13. ~ DirAt(full, s[k], i)
           BY <3>1 DEF DirAt, ListedIn, Parsed, END, DEL
    <3>14. MayEnter(full, h, k, i, u)
           BY <3>1, <3>4, <3>11, <3>12, <3>13 DEF MayEnter
    <3>15. DirsSound(after, D) /\ DirsKept(full, after, D)
           BY <2>2, <2>4, <3>4, <3>8, <3>11, <3>14, EntryKeeps
    <3>16. ASSUME FilesSound(d, D) PROVE FilesSound(after, D)
      <4>1. PICK c \in D : c = s[k]
            BY <3>2
      <4>2. u.first_cluster = FirstCluster(d, content) /\ u # END
            BY <3>3 DEF Entry, END
      <4>3. FilesSoundBut(full, D, {<<c, i>>}) /\ Ready(full, D, {<<c, i>>}, u.first_cluster)
            BY <2>7, <3>16, <4>2
      <4> QED BY <1>1, <3>1, <3>8, <4>1, <4>2, <4>3, EntryFiles
    <3>17. DirsKept(d, after, D)
           BY <2>2, <3>15, KeptTwice
    <3>18. PICK c \in D : c = s[k]
           BY <3>2
    <3>19. ASSUME Fits(content)
           PROVE  /\ ReadsBut(full, after, D, c, i) /\ NewFile(after, c, i, name, content)
                  /\ Took(d, after, c, i, content)
      <4>1. PICK first_cluster : first_cluster = FirstCluster(d, content)
            OBVIOUS
      <4>2. u = Entry(name, "file", first_cluster, Len(content))
            BY <3>3, <3>19, <4>1, SizeIs
      <4>3. is_file(u) /\ u.first_cluster = first_cluster /\ u.size = Len(content)
            BY <4>2 DEF Entry, is_file
      <4>4. read_file(full, u) = Ok(content)
            BY <1>5, <2>1, <3>19, <4>1, <4>3, StoredReads DEF Fits
      <4>5. first_cluster \in {0, 1} \cup (Clusters \ D) /\ TableSound(full, D)
            BY <2>2, <3>4, <4>3 DEF FileEntry, DirsSound
      <4>6. NoEndBefore(full, c, i) /\ Entered(full, after, c, i, u)
            BY <3>1, <3>8, <3>18
      <4>7. ReadsBut(full, after, D, c, i) /\ NewFile(after, c, i, name, content)
            BY <2>4, <3>8, <4>2, <4>4, <4>5, <4>6, EntryFile
      <4>8. ~ ListedIn(d, c, i)
            BY <2>2, <3>1, <3>18 DEF ListedIn, Parsed, END, DEL
      <4>9. Used(d) = Used(d) \ FreedAt(d, c, i)
            BY <4>8 DEF FreedAt
      <4>10. Takes(d, full, first_cluster, content)
            BY <1>5, <2>1, <4>1, StoredTakes
      <4>11. after.data[c][i] = u /\ needed(content) <= MaxChain
            BY <1>1, <3>19, <4>6 DEF Entered, Fits
      <4> QED BY <4>2, <4>5, <4>7, <4>9, <4>10, <4>11, EntryTakes
    <3>20. ASSUME FilesSound(d, D), Fits(content) PROVE Writes(d, after, D, h, name, content)
      <4>1. ReadsKept(d, full, D, {<<c, i>>})
            BY <1>5, <2>1, <2>2, <2>4, <3>20, StoreReads, FewerKept
      <4>2. ReadsKept(d, after, D, {<<c, i>>})
            BY <3>19, <3>20, <4>1, EntryReads
      <4>3. ~ ListedIn(d, c, i)
            BY <2>2, <3>1, <3>18 DEF ListedIn, Parsed, END, DEL
      <4> QED BY <3>2, <3>18, <3>19, <3>20, <4>2, <4>3 DEF Writes
    <3>21. r = "Ok"
           BY <2>9 DEF Create
    <3>22. Fits(content) => Holds(d, after, h, name, content)
           BY <3>2, <3>18, <3>19 DEF Holds
    <3> QED BY <3>8, <3>15, <3>16, <3>17, <3>20, <3>21, <3>22 DEF Reads
  <2> QED BY <2>6, <2>8, <2>9 DEF AddEntry
<1> QED BY <1>4, <1>5 DEF AddFile

(* A file that is replaced, on every way out: all the same, unless the     *)
(* write fails with the file's chain freed.                                *)
Frees(d, e) == \E c \in Clusters : read_fat_entry(d, c) # FREE /\ read_fat_entry(e, c) = FREE

LEMMA ReplaceKeeps ==
    ASSUME NEW d, NEW after, NEW r, IsVolume(d), InRange(d), NEW D, DirsSound(d, D),
           NEW name, NEW content, IsSequence(content), Plain(content),
           NEW h \in Starts(d, D), NEW s, s = Chain(d, h),
           NEW slot, slot = find_dir_entry(d, s, name), slot # 0,
           NEW e, e = Units(d, s)[slot],
           ReplaceFile(d, after, r, s, slot, name, content)
    PROVE  /\ IsVolume(after) /\ InRange(after)
           /\ DirsSound(after, D) /\ DirsKept(d, after, D)
           /\ FilesSound(d, D) =>
                 FilesSound(after, D) \/ (r # "Ok" /\ Frees(d, after))
           /\ FilesSound(d, D) /\ Fits(content) =>
                 \/ Reads(d, after, r, D, h, name, content)
                 \/ r # "Ok" /\ Frees(d, after)
           /\ r = "Ok" /\ Fits(content) => Holds(d, after, h, name, content)
<1>1. TableSound(d, D) /\ EndsSound(d, D) /\ Closed(d, D) /\ D \subseteq Clusters
      BY SoundIsClosed DEF DirsSound, TableSound
<1>2. IsChain(d, h, MaxChain, s) /\ (\A b \in ToSet(s) : b \in D) /\ h \in D
      BY <1>1, DirChain, StartsInRange
<1>3. DOMAIN s = 1 .. Len(s) /\ Len(s) \in Nat
      BY <1>2 DEF IsChain
<1>4. PICK k \in 1 .. Len(s), i \in 1 .. ClusterUnits :
              /\ slot = Pos(k, i) /\ e = d.data[s[k]][i]
              /\ EntryIn(d, s[k], i) /\ d.data[s[k]][i].name = name
      BY <1>1, <1>2, NameFoundIs
<1>5. PICK c : c = s[k]
      OBVIOUS
<1>6. c \in ToSet(s) /\ c \in D /\ c \in Clusters
      BY <1>1, <1>2, <1>3, <1>5 DEF ToSet
<1>7. CASE \E error \in Refusal(d, e) : Refused(d, after, r, error)
  <2>1. \A error \in Refusal(d, e) : error # "Ok"
        BY DEF Refusal
  <2>2. after = d /\ r # "Ok"
        BY <1>7, <2>1 DEF Refused
  <2>3. ReadsKept(d, after, D, {})
        BY <2>2, NothingRead
  <2> QED BY <2>2, <2>3 DEF DirsKept, Reads
<1>8. CASE /\ Refusal(d, e) = {}
           /\ Overwrite(free_chain(d, OldFirst(e)), after, r, s, slot, name, content)
  <2>1. ~ is_dir(e)
        BY <1>8 DEF Refusal
  <2>2. OldFirst(e) \in {0, 1} \cup (Clusters \ D)
    <3>1. CASE Parsed(e)
      <4>1. ListedIn(d, c, i)
            BY <1>4, <1>5, <3>1 DEF ListedIn, EntryIn
      <4>2. FirstSound(d, D, e)
            BY <1>4, <1>5, <1>6, <4>1 DEF DirsSound, EntriesSound
      <4> QED BY <2>1, <3>1, <4>2 DEF FirstSound, OldFirst
    <3>2. CASE ~ Parsed(e)
          BY <3>2 DEF OldFirst
    <3> QED BY <3>1, <3>2
  <2>3. PICK freed : freed = free_chain(d, OldFirst(e))
        OBVIOUS
  <2>4. IsVolume(freed) /\ InRange(freed) /\ DirsSound(freed, D) /\ DirsKept(d, freed, D)
        BY <2>2, <2>3, FreeKeeps, FreeInRange
  <2>5. freed.data = d.data
        BY <2>3, TableIs DEF free_chain
  <2>6. ASSUME FilesSound(d, D)
        PROVE  /\ FilesSoundBut(freed, D, {<<c, i>>})
               /\ freed = d \/ Frees(d, freed)
    <3>1. CASE OldFirst(e) \in {0, 1}
      <4>1. freed = d
            BY <2>3, <3>1 DEF free_chain
      <4> QED BY <2>6, <4>1, FilesBut
    <3>2. CASE OldFirst(e) \in Clusters \ D
      <4>1. OldFirst(e) >= 2 /\ OldFirst(e) # 0
            BY <3>2 DEF Clusters
      <4>2. Parsed(e) /\ OldFirst(e) = e.first_cluster
            BY <4>1 DEF OldFirst
      <4>3. ListedIn(d, c, i) /\ is_file(d.data[c][i])
            BY <1>4, <1>5, <2>1, <4>2 DEF ListedIn, EntryIn, is_dir, is_file
      <4>4. PICK x : x = <<c, i>>
            OBVIOUS
      <4>5. x \in FilesIn(d, D) /\ First(d, x) = OldFirst(e)
            BY <1>4, <1>5, <1>6, <4>2, <4>3, <4>4 DEF FilesIn, First
      <4>6. FilesSoundBut(freed, D, {x})
            BY <2>3, <2>6, <4>1, <4>5, FreeFiles
      <4>7. x \in FilesIn(d, D) \ {}
            BY <4>5
      <4>8. read_fat_entry(d, OldFirst(e)) # FREE
            BY <2>6, <4>1, <4>5, <4>7 DEF FilesSound, FilesSoundBut
      <4>9. PICK t : t = Chain(d, OldFirst(e))
            OBVIOUS
      <4>10. IsChain(d, OldFirst(e), MaxChain, t)
             BY <1>1, <3>2, <4>9, FileChain
      <4>11. DOMAIN t = 1 .. Len(t) /\ Len(t) \in Nat /\ Len(t) >= 1 /\ t[1] = OldFirst(e)
             BY <4>1, <4>10 DEF IsChain
      <4>12. OldFirst(e) \in ToSet(t) /\ OldFirst(e) \in Clusters
             BY <3>2, <4>11 DEF ToSet
      <4>13. ~ (OldFirst(e) < 2)
             BY <3>2 DEF Clusters
      <4>14. read_fat_entry(freed, OldFirst(e)) = FREE
             BY <2>3, <4>9, <4>12, <4>13, FreedIs
      <4> QED BY <4>4, <4>6, <4>8, <4>12, <4>14 DEF Frees
    <3> QED BY <2>2, <3>1, <3>2
  <2>7. CASE TornOverwrite(freed, after, r)
    <3>1. after = freed /\ r # "Ok"
          BY <2>7 DEF TornOverwrite
    <3>2. ReadsKept(d, d, D, {})
          BY NothingRead
    <3> QED BY <2>4, <2>6, <3>1, <3>2 DEF Reads
  <2>8. CASE CanAlloc(freed, needed(content)) /\ ~ TornOverwrite(freed, after, r)
    <3>1. PICK full : full = Stored(freed, content)
          OBVIOUS
    <3>2. /\ DirsSound(full, D) /\ DirsKept(freed, full, D)
          /\ \A b \in D : full.data[b] = freed.data[b]
          BY <2>4, <2>8, <3>1, StoreKeeps
    <3>3. Len(content) \in Nat
          BY NeededIs
    <3>4. IsVolume(full) /\ InRange(full)
          BY <2>4, <2>8, <3>1, <3>3, StoreChanges DEF Changed
    <3>5. PICK u : u = Entry(name, "file", FirstCluster(freed, content),
                             Len(content) % SizeMod)
          OBVIOUS
    <3>6. FileEntry(D, u) /\ u.name = name
      <4>1. TableSound(freed, D)
            BY <2>4 DEF DirsSound
      <4> QED BY <2>4, <2>8, <3>5, <4>1, NewEntry
    <3>7. after = SetSlot(full, s, Pos(k, i), u)
          BY <1>4, <1>8, <2>3, <2>8, <3>1, <3>5 DEF Overwrite, write_dir_entry
    <3>8. full.data[c][i] = e
          BY <1>4, <1>5, <1>6, <2>5, <3>2
    <3>9. full.data[s[k]][i] # END
          BY <1>4, <1>5, <3>8 DEF EntryIn, END
    <3>10. IsVolume(after) /\ InRange(after) /\ Entered(full, after, s[k], i, u)
           BY <1>3, <1>5, <1>6, <3>4, <3>7, <3>9, ReplaceEnters
    <3>11. DirsKept(d, full, D)
           BY <2>4, <3>2, KeptTwice
    <3>12. \A g \in {0, 1} \cup D : Chain(full, g) = Chain(d, g)
           BY <1>1, <3>4, <3>11, KeptChains
    <3>13. Chain(full, h) = s /\ Starts(full, D) = Starts(d, D)
           BY <1>1, <1>2, <3>4, <3>11, <3>12, KeptChains
    <3>14. EntryIn(full, c, i)
           BY <1>4, <1>5, <1>6, <2>5, <3>2 DEF EntryIn, Shown
    <3>15. NoEndBefore(full, c, i)
      <4>1. \A j \in 1 .. ClusterUnits : j < i => j \in 1 .. i
            BY FatAssumption
      <4> QED BY <3>14, <4>1 DEF NoEndBefore, EntryIn, Shown
    <3>16. ~ DirAt(full, c, i)
           BY <2>1, <3>8 DEF DirAt
    <3>17. \A b \in ToSet(s), j \in 1 .. ClusterUnits :
              EntryIn(full, b, j) /\ full.data[b][j].name = u.name => b = c /\ j = i
      <4>1. UniqueIn(full, h)
            BY <3>2, <3>13 DEF DirsSound, NamesSound
      <4>2. full.data[c][i].name = u.name
            BY <1>4, <3>6, <3>8
      <4> QED BY <1>6, <3>13, <3>14, <4>1, <4>2 DEF UniqueIn
    <3>18. MayEnter(full, h, k, i, u)
           BY <1>5, <3>9, <3>13, <3>15, <3>16, <3>17 DEF MayEnter
    <3>19. DirsSound(after, D) /\ DirsKept(full, after, D)
           BY <3>2, <3>4, <3>6, <3>10, <3>13, <3>18, EntryKeeps
    <3>20. ASSUME FilesSound(d, D) PROVE FilesSound(after, D)
      <4>1. u.first_cluster = FirstCluster(freed, content) /\ u # END
            BY <3>5 DEF Entry, END
      <4>2. TableSound(freed, D) /\ FilesSoundBut(freed, D, {<<c, i>>})
            BY <2>4, <2>6, <3>20 DEF DirsSound
      <4>3. FilesSoundBut(full, D, {<<c, i>>}) /\ Ready(full, D, {<<c, i>>}, u.first_cluster)
            BY <2>4, <2>8, <3>1, <3>2, <4>1, <4>2, StoreFiles
      <4> QED BY <1>1, <1>5, <1>6, <3>10, <3>15, <4>1, <4>3, EntryFiles
    <3>21. DirsKept(d, after, D)
           BY <3>11, <3>19, KeptTwice
    <3>22. ASSUME Fits(content)
           PROVE  /\ ReadsBut(full, after, D, c, i) /\ NewFile(after, c, i, name, content)
                  /\ Took(d, after, c, i, content)
      <4>1. PICK first_cluster : first_cluster = FirstCluster(freed, content)
            OBVIOUS
      <4>2. u = Entry(name, "file", first_cluster, Len(content))
            BY <3>5, <3>22, <4>1, SizeIs
      <4>3. is_file(u) /\ u.first_cluster = first_cluster /\ u.size = Len(content)
            BY <4>2 DEF Entry, is_file
      <4>4. read_file(full, u) = Ok(content)
            BY <2>4, <2>8, <3>1, <3>22, <4>1, <4>3, StoredReads DEF Fits
      <4>5. first_cluster \in {0, 1} \cup (Clusters \ D) /\ TableSound(full, D)
            BY <3>2, <3>6, <4>3 DEF FileEntry, DirsSound
      <4>6. NoEndBefore(full, c, i) /\ Entered(full, after, c, i, u)
            BY <1>5, <3>10, <3>15
      <4>7. ReadsBut(full, after, D, c, i) /\ NewFile(after, c, i, name, content)
            BY <1>6, <3>4, <3>10, <4>2, <4>4, <4>5, <4>6, EntryFile
      <4>8. Used(freed) = Used(d) \ FreedAt(d, c, i)
        <5>1. OldFirst(e) \in 0 .. MaxCluster
          <6>1. MaxCluster \in Nat /\ MaxCluster >= 2
                BY FatAssumption
          <6> QED BY <2>2, <6>1 DEF Clusters
        <5>2. Used(freed) = Used(d) \ ToSet(Chain(d, OldFirst(e)))
              BY <2>3, <5>1, UsedFreed
        <5>3. CASE Parsed(e)
          <6>1. ListedIn(d, c, i)
                BY <1>4, <1>5, <5>3 DEF ListedIn, EntryIn
          <6> QED BY <1>4, <1>5, <5>2, <5>3, <6>1 DEF FreedAt, OldFirst
        <5>4. CASE ~ Parsed(e)
          <6>1. ~ ListedIn(d, c, i) /\ freed = d
                BY <1>4, <1>5, <2>3, <5>4 DEF ListedIn, OldFirst, free_chain
          <6> QED BY <6>1 DEF FreedAt
        <5> QED BY <5>3, <5>4
      <4>9. Takes(freed, full, first_cluster, content)
            BY <2>4, <2>8, <3>1, <4>1, StoredTakes
      <4>10. after.data[c][i] = u /\ needed(content) <= MaxChain
            BY <1>6, <3>22, <4>6 DEF Entered, Fits
      <4> QED BY <4>2, <4>5, <4>7, <4>8, <4>9, <4>10, EntryTakes
    <3>23. ASSUME FilesSound(d, D), Fits(content) PROVE Writes(d, after, D, h, name, content)
      <4>1. PICK x : x = <<c, i>>
            OBVIOUS
      <4>2. OldFirst(e) \in {0, 1} \/ (x \in FilesIn(d, D) /\ OldFirst(e) = First(d, x))
        <5>1. CASE Parsed(e)
          <6>1. ListedIn(d, c, i) /\ is_file(d.data[c][i])
                BY <1>4, <1>5, <2>1, <5>1 DEF ListedIn, EntryIn, is_dir, is_file
          <6> QED BY <1>4, <1>5, <1>6, <4>1, <5>1, <6>1 DEF FilesIn, First, OldFirst
        <5>2. CASE ~ Parsed(e)
              BY <5>2 DEF OldFirst
        <5> QED BY <5>1, <5>2
      <4>3. PICK E \in SUBSET Clusters : OthersIn(d, freed, D, x, E)
            BY <2>3, <3>23, <4>2, FreeReads
      <4>4. ReadsKept(d, full, D, {x})
            BY <2>4, <2>5, <2>8, <3>1, <3>2, <3>4, <4>3, StoreFreed
      <4>5. ReadsKept(d, after, D, {<<c, i>>})
            BY <1>6, <3>22, <3>23, <4>1, <4>4, EntryReads
      <4>6. d.data[c][i].name = name
            BY <1>4, <1>5
      <4> QED BY <1>6, <3>22, <3>23, <4>5, <4>6 DEF Writes
    <3>24. r = "Ok"
           BY <1>8, <2>3, <2>8 DEF Overwrite
    <3>25. Fits(content) => Holds(d, after, h, name, content)
           BY <1>6, <3>22 DEF Holds
    <3> QED BY <3>10, <3>19, <3>20, <3>21, <3>23, <3>24, <3>25 DEF Reads
  <2> QED BY <1>8, <2>3, <2>7, <2>8 DEF Overwrite
<1> QED BY <1>7, <1>8 DEF ReplaceFile

(* The path of the directory that a path is in.                            *)
LEMMA ParentLength ==
    ASSUME NEW path, IsSequence(path)
    PROVE  Len(Parent(path)) \in Nat
<1>1. path \in Seq(ToSet(path)) /\ Len(path) \in Nat
      BY DEF IsSequence
<1>2. CASE Len(path) = 0
      BY <1>1, <1>2 DEF Parent
<1>3. CASE Len(path) # 0
      BY <1>1, <1>3 DEF Parent
<1> QED BY <1>2, <1>3

(* A write to a path, on every way out.                                    *)
Wrote(d, e, D, path, content) ==
    /\ path # <<>> /\ DirCluster(d, Parent(path)).ok
    /\ DirCluster(d, Parent(path)).val \in Starts(d, D)
    /\ follow_chain(d, DirCluster(d, Parent(path)).val).ok
    /\ Writes(d, e, D, DirCluster(d, Parent(path)).val, FileName(path), content)
PathHolds(d, e, path, content) ==
    /\ path # <<>> /\ DirCluster(d, Parent(path)).ok
    /\ follow_chain(d, DirCluster(d, Parent(path)).val).ok
    /\ Holds(d, e, DirCluster(d, Parent(path)).val, FileName(path), content)
PathsRead(d, e, r, D, path, content) ==
    IF r = "Ok" THEN Wrote(d, e, D, path, content) ELSE ReadsKept(d, e, D, {})

LEMMA WriteKeeps ==
    ASSUME NEW d, NEW after, NEW r, IsVolume(d), InRange(d), NEW D, DirsSound(d, D),
           NEW path, IsSequence(path), NEW content, IsSequence(content), Plain(content),
           write_file_by_path(d, after, r, path, content)
    PROVE  /\ IsVolume(after) /\ InRange(after)
           /\ DirsSound(after, D) /\ DirsKept(d, after, D)
           /\ FilesSound(d, D) =>
                 FilesSound(after, D) \/ (r # "Ok" /\ Frees(d, after))
           /\ FilesSound(d, D) /\ Fits(content) =>
                 \/ PathsRead(d, after, r, D, path, content)
                 \/ r # "Ok" /\ Frees(d, after)
           /\ r = "Ok" /\ Fits(content) => PathHolds(d, after, path, content)
<1> DEFINE dir == DirCluster(d, Parent(path))
           chain == Try(dir, LAMBDA start : follow_chain(d, start))
<1>1. CASE \/ Refused(d, after, r, "Other")
           \/ path # <<>> /\ ~ chain.ok /\ Refused(d, after, r, chain.err)
  <2>1. after = d /\ r # "Ok"
    <3>1. Len(Parent(path)) \in Nat
          BY ParentLength
    <3>2. chain = IF dir.ok THEN follow_chain(d, dir.val) ELSE dir
          BY DEF Try
    <3>3. Fails(chain)
          BY <3>1, <3>2, DirFails, FollowFails
    <3> HIDE DEF chain
    <3> QED BY <1>1, <3>3 DEF Refused, Fails
  <2>2. ReadsKept(d, after, D, {})
        BY <2>1, NothingRead
  <2> QED BY <2>1, <2>2 DEF DirsKept, PathsRead
<1>2. CASE path # <<>> /\ chain.ok /\ WriteAt(d, after, r, chain.val,
                           find_dir_entry(d, chain.val, FileName(path)), FileName(path), content)
  <2>1. dir.ok /\ follow_chain(d, dir.val).ok /\ chain = follow_chain(d, dir.val)
        BY <1>2 DEF Try
  <2>2. chain.val = Chain(d, dir.val)
        BY <2>1, Followable
  <2>3. Len(Parent(path)) \in Nat
        BY <1>2 DEF Parent, IsSequence
  <2>4. dir.val \in {0, 1} \cup Starts(d, D)
        BY <2>1, <2>3, DirLeads
  <2>5. dir.val \in Starts(d, D)
    <3>1. PICK v : v = dir.val
          OBVIOUS
    <3>2. follow_chain(d, v).ok
          BY <2>1, <3>1
    <3> HIDE DEF dir
    <3>3. v \notin {0, 1}
      <4> SUFFICES ASSUME v \in {0, 1} PROVE FALSE
          OBVIOUS
      <4>1. v < 2
            OBVIOUS
      <4>2. follow_chain(d, v) = Err("InvalidCluster")
            BY <4>1 DEF follow_chain
      <4>3. Err("InvalidCluster").ok = FALSE
            BY DEF Err
      <4> QED BY <3>2, <4>2, <4>3
    <3> QED BY <2>4, <3>1, <3>3
  <2> HIDE DEF dir
  <2>6. PICK s : s = Chain(d, dir.val)
        OBVIOUS
  <2>7. WriteAt(d, after, r, s, find_dir_entry(d, s, FileName(path)), FileName(path), content)
        BY <1>2, <2>2, <2>6
  <2>8. PICK slot : slot = find_dir_entry(d, s, FileName(path))
        OBVIOUS
  <2>9. Reads(d, after, r, D, dir.val, FileName(path), content)
            => PathsRead(d, after, r, D, path, content)
         BY <1>2, <2>1, <2>5 DEF Reads, PathsRead, Wrote, dir
  <2>12. Holds(d, after, dir.val, FileName(path), content) => PathHolds(d, after, path, content)
         BY <1>2, <2>1 DEF PathHolds, dir
  <2>10. CASE slot = 0
    <3>1. AddFile(d, after, r, s, FileName(path), content)
          BY <2>7, <2>8, <2>10 DEF WriteAt
    <3> QED BY <2>5, <2>6, <2>8, <2>10, <3>1, <2>9, <2>12, AddKeeps
  <2>11. CASE slot # 0
    <3>1. PICK e : e = Units(d, s)[slot]
          OBVIOUS
    <3>2. ReplaceFile(d, after, r, s, slot, FileName(path), content)
          BY <2>7, <2>8, <2>11, <3>1 DEF WriteAt
    <3> QED BY <2>5, <2>6, <2>8, <2>11, <3>1, <3>2, <2>9, <2>12, ReplaceKeeps
  <2> QED BY <2>10, <2>11
<1> QED BY <1>1, <1>2 DEF write_file_by_path, WriteIn
-----------------------------------------------------------------------------
(* A path is told by its directory and its name.                           *)
LEMMA PathIsParts ==
    ASSUME NEW p, IsSequence(p), p # <<>>, NEW q, IsSequence(q), q # <<>>,
           Parent(p) = Parent(q), FileName(p) = FileName(q)
    PROVE  p = q
<1>1. /\ Len(p) \in Nat /\ Len(p) >= 1 /\ Len(Parent(p)) = Len(p) - 1
      /\ \A k \in 1 .. Len(Parent(p)) : Parent(p)[k] = p[k]
      BY FrontIs DEF Parent
<1>2. /\ Len(q) \in Nat /\ Len(q) >= 1 /\ Len(Parent(q)) = Len(q) - 1
      /\ \A k \in 1 .. Len(Parent(q)) : Parent(q)[k] = q[k]
      BY FrontIs DEF Parent
<1>3. PICK m : m = Len(p)
      OBVIOUS
<1>4. PICK l : l = Len(Parent(p))
      OBVIOUS
<1>5. m \in Nat /\ m >= 1 /\ l = m - 1 /\ Len(q) = m
      BY <1>1, <1>2, <1>3, <1>4
<1>6. \A k \in 1 .. l : p[k] = q[k]
      BY <1>1, <1>2, <1>4
<1>7. p[m] = q[m]
      BY <1>3, <1>5 DEF FileName
<1>8. \A k \in 1 .. m : k = m \/ k \in 1 .. l
      BY <1>5
<1>9. \A k \in 1 .. m : p[k] = q[k]
      BY <1>6, <1>7, <1>8
<1>10. PICK S : S = ToSet(p) \cup ToSet(q)
       OBVIOUS
<1>11. p \in Seq(S) /\ q \in Seq(S)
  <2>1. ToSet(p) \subseteq S /\ ToSet(q) \subseteq S
        BY <1>10
  <2>2. p \in Seq(ToSet(p)) /\ q \in Seq(ToSet(q))
        BY DEF IsSequence
  <2> QED BY ONLY <2>1, <2>2
<1> QED BY <1>3, <1>5, <1>9, <1>11, SeqEqual

(* What a path reads is found in its directory.                            *)
LEMMA InParent ==
    ASSUME NEW d, NEW path, IsSequence(path), path # <<>>,
           DirCluster(d, Parent(path)).ok, None # RootEntry
    PROVE  read_file_by_path(d, path)
               = ReadIn(d, DirCluster(d, Parent(path)).val, FileName(path))
<1>1. PICK p : p = Parent(path)
      OBVIOUS
<1>2. /\ Len(path) \in Nat /\ Len(path) >= 1 /\ Len(p) = Len(path) - 1
      /\ \A k \in 1 .. Len(p) : p[k] = path[k]
      BY <1>1, FrontIs DEF Parent
<1> QED BY <1>1, <1>2, PathReads DEF FileName

(* A path whose name is not at the slots that changed.                     *)
LEMMA OtherPath ==
    ASSUME NEW d, IsVolume(d), InRange(d), NEW e, IsVolume(e), InRange(e),
           NEW D, DirsSound(d, D), DirsSound(e, D), DirsKept(d, e, D),
           NEW X, ReadsKept(d, e, D, X), None # RootEntry,
           NEW q, IsSequence(q), q # <<>>, NEW h,
           DirCluster(d, Parent(q)).ok, h = DirCluster(d, Parent(q)).val,
           Elsewhere(d, e, X, h, FileName(q))
    PROVE  read_file_by_path(e, q) = read_file_by_path(d, q)
<1>1. Len(Parent(q)) \in Nat
      BY ParentLength
<1>2. DirCluster(e, Parent(q)) = DirCluster(d, Parent(q))
      BY <1>1, KeptDir
<1>3. h \in {0, 1} \cup Starts(d, D)
      BY <1>1, DirLeads
<1>4. ReadIn(e, h, FileName(q)) = ReadIn(d, h, FileName(q))
  <2>1. PICK name : name = FileName(q)
        OBVIOUS
  <2>2. Elsewhere(d, e, X, h, name)
        BY <2>1
  <2>3. ReadIn(e, h, name) = ReadIn(d, h, name)
        BY ONLY <1>3, <2>2, IsVolume(d), InRange(d), IsVolume(e), InRange(e),
                DirsSound(d, D), DirsSound(e, D), DirsKept(d, e, D), ReadsKept(d, e, D, X),
                SameReadIn
  <2> QED BY <2>1, <2>3
<1>5. read_file_by_path(d, q) = ReadIn(d, h, FileName(q))
      BY InParent
<1>6. read_file_by_path(e, q) = ReadIn(e, h, FileName(q))
      BY <1>2, InParent
<1> QED BY <1>4, <1>5, <1>6

(* Directories that begin elsewhere have other clusters.                   *)
LEMMA OtherDir ==
    ASSUME NEW d, IsVolume(d), InRange(d), NEW D, TableSound(d, D), NEW g \in Starts(d, D),
           NEW h \in {0, 1} \cup Starts(d, D), h # g,
           NEW c \in ToSet(Chain(d, g))
    PROVE  c \notin ToSet(Chain(d, h))
<1>1. PICK s : s = Chain(d, g)
      OBVIOUS
<1>2. PICK t : t = Chain(d, h)
      OBVIOUS
<1>3. IsChain(d, g, MaxChain, s) /\ DOMAIN s = 1 .. Len(s)
      BY <1>1, DirChain DEF IsChain
<1>4. CASE h \in {0, 1}
  <2>1. h \in 0 .. MaxCluster
        BY <1>4, FatAssumption
  <2>2. MaxChain \in Nat \ {0}
        BY FatAssumption
  <2>3. IsChain(d, h, MaxChain, t)
        BY <1>2, <2>1, <2>2, LinksAreChain DEF Chain
  <2>4. DOMAIN t = 1 .. 0
        BY <1>4, <2>3 DEF IsChain
  <2>5. ToSet(t) = {}
        BY <2>4 DEF ToSet
  <2> QED BY <1>2, <2>5
<1>5. CASE h \in Starts(d, D)
  <2>1. IsChain(d, h, MaxChain, t) /\ DOMAIN t = 1 .. Len(t)
        BY <1>2, <1>5, DirChain DEF IsChain
  <2>2. Closed(d, D) /\ Apart(d, D)
        BY SoundIsClosed
  <2>3. MaxChain \in Nat
        BY FatAssumption
  <2>4. \A k \in 1 .. Len(s), l \in 1 .. Len(t) : s[k] # t[l]
        BY <1>3, <1>5, <2>1, <2>2, <2>3, ChainsApart
  <2> QED BY <1>1, <1>2, <1>3, <2>1, <2>4 DEF ToSet
<1> QED BY <1>4, <1>5
-----------------------------------------------------------------------------
(* What a path holds after a write to it, and after one to another.        *)
LEMMA NoneFollowed ==
    ASSUME NEW d, NEW h \in {0, 1}
    PROVE  ~ follow_chain(d, h).ok
<1>1. follow_chain(d, h) = Err("InvalidCluster")
      BY DEF follow_chain
<1>2. ~ Err("InvalidCluster").ok
      BY DEF Err
<1> QED BY <1>1, <1>2

LEMMA ReadsOwn ==
    ASSUME NEW d, IsVolume(d), InRange(d), NEW e, IsVolume(e), InRange(e),
           NEW D, DirsSound(d, D), DirsSound(e, D), DirsKept(d, e, D),
           NEW path, IsSequence(path), NEW content, PathHolds(d, e, path, content),
           None # RootEntry,
           \A first \in 0 .. MaxCluster :
               None # Entry(FileName(path), "file", first, Len(content))
    PROVE  read_file_by_path(e, path) = Ok(content)
<1>1. PICK h : h = DirCluster(d, Parent(path)).val
      OBVIOUS
<1>2. PICK name : name = FileName(path)
      OBVIOUS
<1>3. /\ path # <<>> /\ DirCluster(d, Parent(path)).ok /\ h \in Starts(d, D)
      /\ follow_chain(d, h).ok /\ Holds(d, e, h, name, content)
  <2>1. /\ path # <<>> /\ DirCluster(d, Parent(path)).ok
        /\ follow_chain(d, h).ok /\ Holds(d, e, h, name, content)
        BY <1>1, <1>2 DEF PathHolds
  <2>2. h \in {0, 1} \cup Starts(d, D)
        BY <1>1, <2>1, ParentLength, DirLeads
  <2>3. h \notin {0, 1}
        BY <2>1, NoneFollowed
  <2> QED BY <2>1, <2>2, <2>3
<1>4. PICK c \in ToSet(Chain(d, h)), i \in 1 .. ClusterUnits :
              NewFile(e, c, i, name, content)
      BY <1>3 DEF Holds
<1>5. PICK u : u = e.data[c][i]
      OBVIOUS
<1>6. PICK first \in 0 .. MaxCluster : u = Entry(name, "file", first, Len(content))
      BY <1>4, <1>5 DEF NewFile
<1>7. u # None /\ ListedIn(e, c, i) /\ read_file(e, u) = Ok(content)
      BY <1>2, <1>4, <1>5, <1>6 DEF NewFile
<1>8. u.name = name
      BY <1>6 DEF Entry
<1>9. TableSound(d, D)
      BY DEF DirsSound
<1>10. h \in Starts(e, D) /\ h \in {0, 1} \cup D
  <2>1. Starts(e, D) = Starts(d, D)
        BY <1>9, KeptChains
  <2> QED BY <1>3, <2>1 DEF Starts
<1>11. Chain(e, h) = Chain(d, h)
  <2>1. \A g \in {0, 1} \cup D : Chain(e, g) = Chain(d, g)
        BY <1>9, KeptChains
  <2> QED BY <1>10, <2>1
<1>12. Found(e, h, name) = u
  <2>1. FindsListed(e, h)
    <3>1. h \in Starts(e, D)
          BY <1>10
    <3> QED BY ONLY <3>1, IsVolume(e), InRange(e), DirsSound(e, D), FoundIs
  <2> QED BY <1>4, <1>5, <1>7, <1>8, <1>11, <2>1 DEF FindsListed
<1>13. follow_chain(e, h).ok
  <2>1. follow_chain(e, h) = follow_chain(d, h)
    <3>1. h \in {0, 1} \cup Starts(d, D)
          BY <1>3
    <3> QED BY ONLY <1>9, <3>1, IsVolume(d), InRange(d), IsVolume(e), InRange(e),
                    DirsKept(d, e, D), KeptFollowed
  <2> QED BY <1>3, <2>1
<1>14. ReadIn(e, h, name) = Ok(content)
       BY <1>7, <1>12, <1>13 DEF ReadIn
<1>15. DirCluster(e, Parent(path)) = DirCluster(d, Parent(path))
       BY <1>3, ParentLength, KeptDir
<1> QED BY <1>1, <1>2, <1>3, <1>14, <1>15, InParent

(* No directory is reached by two of the paths that files are in.          *)
OneDir(d, p, q) ==
    /\ DirCluster(d, p).ok /\ DirCluster(d, q).ok
    /\ DirCluster(d, p).val = DirCluster(d, q).val
    /\ follow_chain(d, DirCluster(d, p).val).ok
    => p = q

(* Directories that stay are reached by the paths that reached them.       *)
LEMMA OneDirKept ==
    ASSUME NEW d, IsVolume(d), InRange(d), NEW e, IsVolume(e), InRange(e),
           NEW D, DirsSound(d, D), DirsSound(e, D), DirsKept(d, e, D),
           NEW p, Len(p) \in Nat, NEW q, Len(q) \in Nat, OneDir(d, p, q)
    PROVE  OneDir(e, p, q)
<1> SUFFICES ASSUME DirCluster(e, p).ok, DirCluster(e, q).ok,
                    DirCluster(e, p).val = DirCluster(e, q).val,
                    follow_chain(e, DirCluster(e, p).val).ok
             PROVE  p = q
    BY DEF OneDir
<1>1. DirsKept(e, d, D)
      BY KeptBack
<1>2. DirCluster(d, p) = DirCluster(e, p) /\ DirCluster(d, q) = DirCluster(e, q)
      BY <1>1, KeptDir
<1>3. PICK h : h = DirCluster(e, p).val
      OBVIOUS
<1>4. h \in {0, 1} \cup Starts(e, D) /\ TableSound(e, D)
      BY <1>3, DirLeads DEF DirsSound
<1>5. follow_chain(d, h) = follow_chain(e, h)
      BY ONLY <1>1, <1>4, IsVolume(d), InRange(d), IsVolume(e), InRange(e), KeptFollowed
<1> QED BY <1>2, <1>3, <1>5 DEF OneDir

LEMMA ReadsOther ==
    ASSUME NEW d, IsVolume(d), InRange(d), NEW e, IsVolume(e), InRange(e),
           NEW D, DirsSound(d, D), DirsSound(e, D), DirsKept(d, e, D),
           NEW path, IsSequence(path), NEW content, Wrote(d, e, D, path, content),
           None # RootEntry,
           NEW q, IsSequence(q), q # path, DirCluster(d, Parent(q)).ok,
           OneDir(d, Parent(path), Parent(q))
    PROVE  read_file_by_path(e, q) = read_file_by_path(d, q)
<1>1. PICK g : g = DirCluster(d, Parent(path)).val
      OBVIOUS
<1>2. /\ path # <<>> /\ DirCluster(d, Parent(path)).ok /\ g \in Starts(d, D)
      /\ follow_chain(d, g).ok /\ Writes(d, e, D, g, FileName(path), content)
      BY <1>1 DEF Wrote
<1>3. PICK c \in ToSet(Chain(d, g)), i \in 1 .. ClusterUnits :
              /\ ReadsKept(d, e, D, {<<c, i>>})
              /\ ListedIn(d, c, i) => d.data[c][i].name = FileName(path)
              /\ NewFile(e, c, i, FileName(path), content)
      BY <1>2 DEF Writes
<1>4. e.data[c][i].name = FileName(path)
      BY <1>3 DEF NewFile, Entry
<1>5. CASE q = <<>>
      BY <1>5 DEF read_file_by_path, open_path, TrySome, Ok
<1>6. CASE q # <<>>
  <2>1. PICK h : h = DirCluster(d, Parent(q)).val
        OBVIOUS
  <2>2. h \in {0, 1} \cup Starts(d, D)
        BY <2>1, ParentLength, DirLeads
  <2>3. CASE h = g
    <3>1. Parent(path) = Parent(q)
          BY <1>1, <1>2, <2>1, <2>3 DEF OneDir
    <3>2. FileName(path) # FileName(q)
          BY <1>2, <1>6, <3>1, PathIsParts
    <3>3. NotNamed(d, c, i, FileName(q)) /\ NotNamed(e, c, i, FileName(q))
          BY <1>3, <1>4, <3>2 DEF NotNamed
    <3>4. Elsewhere(d, e, {<<c, i>>}, h, FileName(q))
      <4>1. \A b, j : <<b, j>> \in {<<c, i>>} => b = c /\ j = i
            OBVIOUS
      <4> QED BY <3>3, <4>1 DEF Elsewhere
    <3> QED BY <1>3, <1>6, <2>1, <3>4, OtherPath
  <2>4. CASE h # g
    <3>1. c \notin ToSet(Chain(d, h))
          BY <1>2, <2>2, <2>4, OtherDir DEF DirsSound
    <3>2. Elsewhere(d, e, {<<c, i>>}, h, FileName(q))
      <4>1. \A b, j : <<b, j>> \in {<<c, i>>} => b = c
            OBVIOUS
      <4> QED BY <3>1, <4>1 DEF Elsewhere
    <3> QED BY <1>3, <1>6, <2>1, <3>2, OtherPath
  <2> QED BY <2>3, <2>4
<1> QED BY <1>5, <1>6

LEMMA ReadsAll ==
    ASSUME NEW d, IsVolume(d), InRange(d), NEW e, IsVolume(e), InRange(e),
           NEW D, DirsSound(d, D), DirsSound(e, D), DirsKept(d, e, D),
           ReadsKept(d, e, D, {}), None # RootEntry,
           NEW q, IsSequence(q), DirCluster(d, Parent(q)).ok
    PROVE  read_file_by_path(e, q) = read_file_by_path(d, q)
<1>1. CASE q = <<>>
      BY <1>1 DEF read_file_by_path, open_path, TrySome, Ok
<1>2. CASE q # <<>>
  <2>1. PICK h : h = DirCluster(d, Parent(q)).val
        OBVIOUS
  <2>2. Elsewhere(d, e, {}, h, FileName(q))
        BY DEF Elsewhere
  <2> QED BY <1>2, <2>1, <2>2, OtherPath
<1> QED BY <1>1, <1>2
=============================================================================
