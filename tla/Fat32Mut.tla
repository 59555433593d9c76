------------------------------ MODULE Fat32Mut ------------------------------
(***************************************************************************)
(* fat32/src/lib.rs, the write side: write_file_by_path creates a file or  *)
(* replaces its contents.  It works in place on the buffer of the volume,  *)
(* step by step, and returns at the first error, so the steps already done *)
(* stay done: each way out of the function is an alternative of its own in *)
(* a relation between the volume before and after and what is returned.    *)
(* Fat32History says what should come of it, FatShell which programs do    *)
(* it, each to its own buffer.                                             *)
(***************************************************************************)
EXTENDS Fat32, FiniteSets
-----------------------------------------------------------------------------
(* write_fat_entry_all: the same new table in every copy, for the clusters *)
(* that change.                                                            *)
write_fat_first(d, changes) ==
    [d EXCEPT !.fat[1] =
        [c \in DOMAIN @ |-> IF c \in DOMAIN changes THEN changes[c] ELSE @[c]]]
write_fat_entry_all(d, changes) ==
    [d EXCEPT !.fat = [i \in 1 .. NumFats |->
        [c \in DOMAIN d.fat[i] |->
            IF c \in DOMAIN changes THEN changes[c] ELSE d.fat[i][c]]]]

(* free_chain of a chain that can be followed.                             *)
free_head(d, start) == write_fat_entry_all(d, [c \in {start} |-> FREE])
free_chain(d, start) ==
    IF start < 2 THEN d
    ELSE write_fat_entry_all(d, [c \in ToSet(Chain(d, start)) |-> FREE])

(* alloc_chain: the first free clusters in increasing order, linked.       *)
FreeOrLast(d)   == {c \in Clusters : read_fat_entry(d, c) \in {FREE, EOC}}
FreeClusters(d) == {c \in Clusters : read_fat_entry(d, c) = FREE}
div_ceil(a, b) == (a + b - 1) \div b
needed_floor(content) ==
    IF Len(content) < ClusterUnits THEN 1 ELSE Len(content) \div ClusterUnits
needed(content) == div_ceil(Len(content), ClusterUnits)
CanAlloc(d, n) == Cardinality(FreeClusters(d)) >= n
Nth(S, k) == CHOOSE c \in S : Cardinality({b \in S : b < c}) = k - 1
alloc_chain(d, n) == [k \in 1 .. n |-> Nth(FreeClusters(d), k)]
LinkedNot(d, chain) == d
LinkedUnmasked(d, chain) ==
    write_fat_entry_all(d, [c \in ToSet(chain) |->
        LET k == CHOOSE k \in 1 .. Len(chain) : chain[k] = c
        IN  IF k < Len(chain) THEN chain[k + 1] ELSE EOC + 1])
Linked(d, chain) ==
    write_fat_entry_all(d, [c \in ToSet(chain) |->
        LET k == CHOOSE k \in 1 .. Len(chain) : chain[k] = c
        IN  IF k < Len(chain) THEN chain[k + 1] ELSE EOC])

(* write_chain_data: the content over the clusters, the rest of the last   *)
(* one cleared.                                                            *)
Piece(content, k) ==
    [j \in 1 .. ClusterUnits |->
        LET n == (k - 1) * ClusterUnits + j
        IN  IF n <= Len(content) THEN content[n] ELSE END]
write_chain_data(d, chain, content) ==
    [d EXCEPT !.data = [c \in DOMAIN @ |->
        IF \E k \in 1 .. Len(chain) : chain[k] = c
        THEN Piece(content, CHOOSE k \in 1 .. Len(chain) : chain[k] = c)
        ELSE @[c]]]

(* The volume with the content in fresh clusters, and their first.         *)
Stored(d, content) ==
    LET chain == alloc_chain(d, needed(content))
    IN  IF content = <<>> THEN d
        ELSE write_chain_data(Linked(d, chain), chain, content)
FirstCluster(d, content) ==
    IF content = <<>> THEN 0 ELSE alloc_chain(d, needed(content))[1]
-----------------------------------------------------------------------------
(* Directories are searched over the units of their chain of clusters; a   *)
(* slot is the number of a unit, 0 for none.                               *)
SetSlot(d, chain, n, u) == [d EXCEPT !.data[SlotCluster(chain, n)][SlotIndex(n)] = u]

(* find_dir_entry_offset_by_short_name: the first entry with the name, the *)
(* volume label included, before the end of the directory.                 *)
find_in_first_cluster(d, chain, name) ==
    SelectInSeq(BeforeEnd(Units(d, SubSeq(chain, 1, 1))),
                LAMBDA u : u.tag = "entry" /\ u.name = name)
find_dir_entry(d, chain, name) ==
    SelectInSeq(BeforeEnd(Units(d, chain)),
                LAMBDA u : u.tag = "entry" /\ u.name = name)

(* find_free_dir_entry_slot: the first deleted or unused slot.             *)
find_free_dir_entry_slot(d, chain) ==
    SelectInSeq(Units(d, chain), LAMBDA u : u \in {END, DEL})

(* write_dir_entry_at_offset.                                              *)
write_dir_entry(d, chain, n, name, first_cluster, content) ==
    SetSlot(d, chain, n, Entry(name, "file", first_cluster, Len(content) % SizeMod))

(* A slot that was the end of the directory: the mark moves to the next    *)
(* one, if that is in the same cluster.                                    *)
EndStays(d, chain, n, was_end) == d
MoveEnd(d, chain, n, was_end) ==
    IF was_end /\ SlotIndex(n) < ClusterUnits THEN SetSlot(d, chain, n + 1, END) ELSE d
-----------------------------------------------------------------------------
Parent(path)   == SubSeq(path, 1, Len(path) - 1)
FileName(path) == path[Len(path)]
-----------------------------------------------------------------------------
(* The ways out of a write.  It finds the volume d, leaves the volume      *)
(* after and returns r.  It may stop before it changes anything.           *)
Refused(d, after, r, error) == after = d /\ r = error

(* NoSpaceLeft in alloc_chain: a new file is not created ...               *)
NoClusters(d, after, r) == after = d /\ r = "NoSpaceLeft"
(* ... while the chain of a file to be replaced is free already, and its   *)
(* entry still names it.                                                   *)
TornOverwrite(freed, after, r) == after = freed /\ r = "NoSpaceLeft"

(* NoSpaceLeft in find_free_dir_entry_slot: directories do not grow.  The  *)
(* clusters of the content are allocated and written by then, in full.     *)
NoSlot(full, after, r) == after = full /\ r = "NoSpaceLeft"

(* A new entry in a free slot.                                             *)
Create(full, after, r, chain, free, name, first, content) ==
    /\ after = MoveEnd(write_dir_entry(full, chain, free, name, first, content),
                       chain, free, Units(full, chain)[free] = END)
    /\ r = "Ok"
AddEntry(full, after, r, chain, free, name, first, content) ==
    \/ free = 0 /\ NoSlot(full, after, r)
    \/ free # 0 /\ Create(full, after, r, chain, free, name, first, content)
AddFile(d, after, r, chain, name, content) ==
    \/ ~ CanAlloc(d, needed(content)) /\ NoClusters(d, after, r)
    \/ /\ CanAlloc(d, needed(content))
       /\ LET full == Stored(d, content)
          IN  AddEntry(full, after, r, chain, find_free_dir_entry_slot(full, chain),
                       name, FirstCluster(d, content), content)

(* The first cluster to be freed; a volume label does not parse.           *)
OldFirst(e) == IF Parsed(e) THEN e.first_cluster ELSE 0

(* What stops the replacement of an entry before anything is freed.        *)
RefusalButNotAFile(d, e) == {}
Refusal(d, e) ==
    IF is_dir(e) THEN {"NotAFile"}
    ELSE IF OldFirst(e) >= 2 /\ ~ follow_chain(d, OldFirst(e)).ok
    THEN {"InvalidCluster"} ELSE {}

(* An entry in use gets the new chain and size.  Its old chain, if any, is *)
(* free by then.                                                           *)
Overwrite(freed, after, r, chain, slot, name, content) ==
    \/ ~ CanAlloc(freed, needed(content)) /\ TornOverwrite(freed, after, r)
    \/ /\ CanAlloc(freed, needed(content))
       /\ after = write_dir_entry(Stored(freed, content), chain, slot, name,
                                  FirstCluster(freed, content), content)
       /\ r = "Ok"
ReplaceFile(d, after, r, chain, slot, name, content) ==
    LET e == Units(d, chain)[slot]
    IN  \/ \E error \in Refusal(d, e) : Refused(d, after, r, error)
        \/ /\ Refusal(d, e) = {}
           /\ Overwrite(free_chain(d, OldFirst(e)), after, r, chain, slot, name, content)

(* chain are the clusters of the directory, slot the place of the entry    *)
(* with the name.                                                          *)
WriteAt(d, after, r, chain, slot, name, content) ==
    \/ slot = 0 /\ AddFile(d, after, r, chain, name, content)
    \/ slot # 0 /\ ReplaceFile(d, after, r, chain, slot, name, content)
WriteIn(d, after, r, chain, name, content) ==
    \/ ~ chain.ok /\ Refused(d, after, r, chain.err)
    \/ chain.ok /\ WriteAt(d, after, r, chain.val,
                           find_dir_entry(d, chain.val, name), name, content)
write_file_by_path(d, after, r, path, content) ==
    \/ path = <<>> /\ Refused(d, after, r, "Other")
    \/ /\ path # <<>>
       /\ WriteIn(d, after, r,
                  Try(DirCluster(d, Parent(path)), LAMBDA start : follow_chain(d, start)),
                  FileName(path), content)
=============================================================================
