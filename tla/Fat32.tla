------------------------------- MODULE Fat32 --------------------------------
(***************************************************************************)
(* fat32/src/lib.rs and dir_entry.rs, the read side: following chains in   *)
(* the FAT, listing directories, resolving paths and reading files.        *)
(*                                                                         *)
(* A volume is a record d: d.fat holds the copies of the allocation table, *)
(* d.data the clusters.  A cluster is a sequence of units of 32 bytes, the *)
(* size of a directory entry, because the code reads the same bytes as     *)
(* file contents and as directory entries.  Sizes count units.             *)
(*                                                                         *)
(* Names are the 8.3 names already in upper case, paths the sequences of   *)
(* their parts.                                                            *)
(***************************************************************************)
EXTENDS Integers, Sequences, FiniteSets, SequencesExt

CONSTANTS MaxCluster,     \* max_cluster_number: the last cluster
          ClusterUnits,   \* units in a cluster
          NumFats,        \* copies of the table
          RootCluster,
          MaxChain,       \* 4096, the bound on the chains followed
          SizeMod,        \* sizes are stored modulo 2^32
          None            \* Option::None, no value of another type

ASSUME FatAssumption ==
    /\ MaxCluster \in Nat /\ RootCluster \in 2 .. MaxCluster
    /\ {ClusterUnits, NumFats, MaxChain, SizeMod} \subseteq Nat \ {0}

FREE     == 0
EOC      == 268435455      \* 0x0FFF_FFFF, what alloc_chain writes
EOC_MIN  == 268435448      \* 0x0FFF_FFF8, what ends a chain
Clusters == 2 .. MaxCluster

(* The numbers of clusters stay below the marks.                           *)
ASSUME MarkAssumption == MaxCluster < EOC_MIN

(* A unit: the end of a directory (a first byte of 0, also an empty unit   *)
(* of a file), a deleted entry, an entry, or text that is no entry of any  *)
(* name in use.                                                            *)
END     == [tag |-> "end"]
DEL     == [tag |-> "del"]
Text(v) == [tag |-> "text", v |-> v]
Entry(name, attr, first_cluster, size) ==
    [tag |-> "entry", name |-> name, attr |-> attr,
     first_cluster |-> first_cluster, size |-> size]

is_dir(e)  == e.attr = "dir"
is_file(e) == e.attr # "dir"

(* Result<_, FatError>: a value, or an error.  Try is the operator ? of    *)
(* Rust with what follows it, TrySome the same for a Result of an Option.  *)
Ok(v)           == [ok |-> TRUE, val |-> v]
Err(e)          == [ok |-> FALSE, err |-> e]
Try(r, Op(_))   == IF r.ok THEN Op(r.val) ELSE r
TrySome(r, Op(_)) == IF r.ok /\ r.val # None THEN Op(r.val) ELSE r
ok_or(r, e)     == IF r.ok /\ r.val = None THEN Err(e) ELSE r

read_fat_entry(d, c) == d.fat[1][c]

(* A volume: a table with an entry for every cluster, in copies that agree *)
(* (what a formatting program leaves), and the clusters.                   *)
IsVolume(d) ==
    /\ d = [fat |-> d.fat, data |-> d.data]
    /\ DOMAIN d.fat = 1 .. NumFats
    /\ \A i \in 1 .. NumFats : DOMAIN d.fat[i] = 0 .. MaxCluster
    /\ \A i \in 1 .. NumFats, c \in 0 .. MaxCluster : d.fat[i][c] = d.fat[1][c]

(* The links are free, clusters or ends of chains, the clusters full.      *)
FatValue == {FREE} \cup Clusters \cup EOC_MIN .. EOC
InRange(d) ==
    /\ \A i \in 1 .. NumFats, c \in Clusters : d.fat[i][c] \in FatValue
    /\ DOMAIN d.data = Clusters
    /\ \A c \in Clusters : DOMAIN d.data[c] = 1 .. ClusterUnits
-----------------------------------------------------------------------------
(* The links of the table are followed from start; behind the last cluster *)
(* all are 0.  The clusters before make the chain, at most max of them.    *)
Followed(d, start, max) ==
    LET link == [c \in 0 .. MaxCluster |->
                    IF c < 2 THEN 0
                    ELSE IF read_fat_entry(d, c) >= EOC_MIN THEN 0
                    ELSE read_fat_entry(d, c)]
        at[n \in 1 .. max] == IF n = 1 THEN start ELSE link[at[n - 1]]
    IN  at
Links(d, start, max) ==
    LET at == Followed(d, start, max)
    IN  [n \in 1 .. Cardinality({k \in 1 .. max : at[k] >= 2}) |-> at[n]]
Chain(d, start) == Links(d, start, MaxChain)

(* Following a chain fails when its last link is free or reserved, not an  *)
(* end of chain; it does not when MaxChain clusters did not reach the end. *)
CheckEnd(d, chain) ==
    IF read_fat_entry(d, Last(chain)) < 2 THEN Err("InvalidCluster") ELSE Ok(chain)
follow_chain(d, start) ==
    IF start < 2 THEN Err("InvalidCluster") ELSE CheckEnd(d, Chain(d, start))

(* The units of a chain of clusters, one after the other.                  *)
SlotCluster(chain, n) == chain[((n - 1) \div ClusterUnits) + 1]
SlotIndex(n)          == ((n - 1) % ClusterUnits) + 1
Units(d, chain) ==
    [n \in 1 .. Len(chain) * ClusterUnits |->
        d.data[SlotCluster(chain, n)][SlotIndex(n)]]

(* DirEntry::parse of the units before the end marker: free and deleted    *)
(* entries and the volume label are left out.  A listing is a function     *)
(* from the slots of its entries.                                          *)
Parsed(u) == u.tag = "entry" /\ u.attr # "label"
Before(units, n) == IF n = 0 THEN units ELSE SubSeq(units, 1, n - 1)
BeforeEnd(units) == Before(units, SelectInSeq(units, LAMBDA u : u = END))
Entries(units) ==
    [n \in {n \in DOMAIN units : Parsed(units[n])} |-> units[n]]
list_dir_cluster(d, start) ==
    Try(follow_chain(d, start),
        LAMBDA chain : Ok(Entries(BeforeEnd(Units(d, chain)))))

(* The first entry with a name.                                            *)
Lookup(entries, name) ==
    LET found == {n \in DOMAIN entries : entries[n].name = name}
    IN  IF found = {} THEN None ELSE entries[Min(found)]

(* One part of the path after another, from the root, which has no entry   *)
(* of its own.  Only the last entry is tested by callers: on the way a     *)
(* file is read as a directory.                                            *)
RootEntry == Entry("", "dir", RootCluster, 0)
open_part(d, r, part) ==
    TrySome(r, LAMBDA e :
        Try(list_dir_cluster(d, e.first_cluster),
            LAMBDA entries : Ok(Lookup(entries, part))))
Walk(d, path) ==
    LET at[k \in 0 .. Len(path)] ==
          IF k = 0 THEN Ok(RootEntry)
          ELSE open_part(d, at[k - 1], path[k])
    IN  at
open_path(d, path) == IF path = <<>> THEN Ok(None) ELSE Walk(d, path)[Len(path)]

(* The first cluster of the directory at a path.                           *)
DirCluster(d, path) ==
    IF path = <<>> THEN Ok(RootCluster)
    ELSE Try(ok_or(open_path(d, path), "PathNotFound"), LAMBDA e :
            IF is_dir(e) THEN Ok(e.first_cluster) ELSE Err("NotADirectory"))

list_dir_path(d, path) ==
    Try(DirCluster(d, path), LAMBDA start : list_dir_cluster(d, start))

(* The contents of the clusters of the chain, cut at the entry's size.     *)
ReadUncut(units, size) == units
Cut(units, size) == SubSeq(units, 1, IF size < Len(units) THEN size ELSE Len(units))
read_file(d, e) ==
    IF ~ is_file(e) THEN Err("NotAFile")
    ELSE IF e.size = 0 THEN Ok(<<>>)
    ELSE Try(follow_chain(d, e.first_cluster),
             LAMBDA chain : Ok(Cut(Units(d, chain), e.size)))

read_file_by_path(d, path) ==
    TrySome(open_path(d, path), LAMBDA e : read_file(d, e))
=============================================================================
