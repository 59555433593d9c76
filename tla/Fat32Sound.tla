----------------------------- MODULE Fat32Sound -----------------------------
(***************************************************************************)
(* What the write side takes for granted of a volume and must leave so:    *)
(* the clusters of the directories are a set D that files stay out of,     *)
(* chains do not run into each other, every directory has one end and      *)
(* lists no name twice.  Nothing here follows a chain but UniqueIn.        *)
(***************************************************************************)
EXTENDS Fat32

(* Clusters in use, and those of a chain to its very end.                  *)
Used(d) == {c \in Clusters : read_fat_entry(d, c) # FREE}
WholeChain(d, start) == ToSet(Links(d, start, MaxCluster))

(* The clusters of D that no link of D leads to: the chains begin there.   *)
Starts(d, D) == {h \in D : \A c \in D : read_fat_entry(d, c) # h}

(* No two links of D lead to the same cluster.                             *)
Apart(d, D) ==
    \A a, b \in D : /\ read_fat_entry(d, a) \in Clusters
                    /\ read_fat_entry(d, a) = read_fat_entry(d, b)
                    => a = b

(* A unit of a directory that no end mark of its cluster hides; an entry   *)
(* there, which the search for a name finds; and one that is listed.       *)
Shown(d, c, i)   == \A j \in 1 .. i : d.data[c][j] # END
EntryIn(d, c, i) == Shown(d, c, i) /\ d.data[c][i].tag = "entry"
ListedIn(d, c, i) == Shown(d, c, i) /\ Parsed(d.data[c][i])

(* The chains of D stay in D, the others outside.                          *)
TableSound(d, D) ==
    /\ RootCluster \in Starts(d, D) /\ D \subseteq Clusters
    /\ \A c \in D : read_fat_entry(d, c) \in D \cup EOC_MIN .. EOC
    /\ \A c \in Clusters \ D : read_fat_entry(d, c) \notin D
    /\ Apart(d, D)

(* Directories begin in D, files outside, or have no cluster.              *)
FirstSound(d, D, e) ==
    e.first_cluster \in {0, 1} \cup IF is_dir(e) THEN Starts(d, D) ELSE Clusters \ D
EntriesSound(d, D) ==
    \A c \in D, i \in 1 .. ClusterUnits :
        ListedIn(d, c, i) => FirstSound(d, D, d.data[c][i])

(* Behind the cluster with the end mark, every cluster begins with one.    *)
EndsSound(d, D) ==
    \A c \in D : /\ read_fat_entry(d, c) \in D
                 /\ \E i \in 1 .. ClusterUnits : d.data[c][i] = END
                 => d.data[read_fat_entry(d, c)][1] = END

(* Clusters in use outside D hold no entries.                              *)
FilesPlain(d, D) ==
    \A c \in Clusters \ D, i \in 1 .. ClusterUnits :
        read_fat_entry(d, c) # FREE => ~ Parsed(d.data[c][i])

(* No directory has two entries with one name, a volume label included.    *)
UniqueIn(d, h) ==
    \A a, b \in ToSet(Chain(d, h)), i, j \in 1 .. ClusterUnits :
        /\ EntryIn(d, a, i) /\ EntryIn(d, b, j)
        /\ d.data[a][i].name = d.data[b][j].name
        => a = b /\ i = j
NamesSound(d, D) == \A h \in Starts(d, D) : UniqueIn(d, h)

DirsSound(d, D) ==
    TableSound(d, D) /\ EntriesSound(d, D) /\ EndsSound(d, D)
    /\ FilesPlain(d, D) /\ NamesSound(d, D)

(* An entry of a directory, and directories that have a cluster: all but   *)
(* the parents of those in the root, which the parts of a path never name. *)
DirAt(d, c, i) == ListedIn(d, c, i) /\ is_dir(d.data[c][i])
Headed(d, D) ==
    \A c \in D, i \in 1 .. ClusterUnits :
        DirAt(d, c, i) /\ d.data[c][i].name \notin {".", ".."}
        => d.data[c][i].first_cluster >= 2
-----------------------------------------------------------------------------
(* The files of the directories, by slot (cluster and index).              *)
FilesIn(d, D) ==
    {x \in D \X (1 .. ClusterUnits) :
        ListedIn(d, x[1], x[2]) /\ is_file(d.data[x[1]][x[2]])}
First(d, x) == d.data[x[1]][x[2]].first_cluster

(* No two files begin in the same cluster, none begins inside a chain, no  *)
(* chain runs into another or into a free cluster.  The slots X are left   *)
(* out: a write takes the clusters of its file before it has others.       *)
FilesSoundBut(d, D, X) ==
    /\ \A x \in FilesIn(d, D) \ X : First(d, x) >= 2 =>
          /\ First(d, x) \in Starts(d, Clusters \ D)
          /\ read_fat_entry(d, First(d, x)) # FREE
          /\ \A y \in FilesIn(d, D) \ X : First(d, y) = First(d, x) => y = x
    /\ \A c \in Clusters \ D :
          read_fat_entry(d, c) \in Clusters =>
              read_fat_entry(d, read_fat_entry(d, c)) # FREE
    /\ Apart(d, Clusters \ D)
FilesSound(d, D) == FilesSoundBut(d, D, {})

(* Paths and contents are sequences; contents that are not taken for       *)
(* directories when a path goes through a file hold no entries.            *)
IsSequence(s)  == s \in Seq(ToSet(s))
Plain(content) == \A n \in 1 .. Len(content) : ~ Parsed(content[n])
=============================================================================
