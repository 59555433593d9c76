---------------------------- MODULE Fat32History ----------------------------
(***************************************************************************)
(* Any sequence of writes to a volume, and what should come of it: history *)
(* variables record what each path should hold and what failed writes left *)
(* behind, and the properties compare the volume with them.                *)
(***************************************************************************)
EXTENDS Fat32Mut, Fat32Sound

CONSTANTS Images,      \* the volumes to start from
          Paths,       \* the paths written and read
          Contents,    \* the contents written, sequences of units
          MaxTorn      \* bound: no more writes when more files are torn

ASSUME ImagesAssumption   == \A d \in Images : IsVolume(d)
ASSUME RangeAssumption    == \A d \in Images : InRange(d)
ASSUME SequenceAssumption ==
    (\A p \in Paths : IsSequence(p)) /\ (\A content \in Contents : IsSequence(content))

(* No entry that is written is taken for None.                             *)
ASSUME NoneAssumption ==
    /\ None # RootEntry
    /\ \A path \in Paths \ {<<>>}, first \in 0 .. MaxCluster, size \in 0 .. SizeMod - 1 :
          None # Entry(FileName(path), "file", first, size)

VARIABLES disk,        \* the buffer
          result,      \* what the last write returned
          written,     \* the path it was given, None before the first
          files,       \* what each path should hold
          torn,        \* files whose overwrite failed half way
          leaked       \* clusters a failed creation left allocated

vars == <<disk, result, written, files, torn, leaked>>

(* What the paths whose directory exists hold, as a caller sees it.        *)
Contained(d) == [p \in {q \in Paths : DirCluster(d, Parent(q)).ok} |->
                    read_file_by_path(d, p)]

(* Fat32Mut::new: a view of the buffer the caller has.  As an action, the  *)
(* caller turns to another buffer, a volume as it was loaded.              *)
Init ==
    /\ disk \in Images /\ result = "none" /\ written = None
    /\ files = Contained(disk) /\ torn = {} /\ leaked = {}
new ==
    /\ \E d \in Images : disk' = d /\ files' = Contained(d)
    /\ result' = "none" /\ written' = None /\ torn' = {} /\ leaked' = {}

(* What a write adds to the history.  One that fails after it has freed    *)
(* clusters has torn its file, one that fails with clusters allocated has  *)
(* leaked them; once a file is torn nothing is expected of the others.     *)
Record(path, content, freed, taken) ==
    /\ written' = path
    /\ IF result' = "Ok"
       THEN /\ files' = IF torn = {} THEN [files EXCEPT ![path] = Ok(content)] ELSE files
            /\ UNCHANGED <<torn, leaked>>
       ELSE /\ torn' = IF freed = {} THEN torn ELSE torn \cup {path}
            /\ files' = IF freed = {} THEN files ELSE <<>>
            /\ leaked' = leaked \cup taken

Next == \/ new
        \/ /\ Cardinality(torn) <= MaxTorn
           /\ \E path \in Paths, content \in Contents :
                 /\ write_file_by_path(disk, disk', result', path, content)
                 /\ Record(path, content, Used(disk) \ Used(disk'),
                           Used(disk') \ Used(disk))

Spec == Init /\ [][Next]_vars
-----------------------------------------------------------------------------
(* Properties.                                                             *)

TypeOK ==
    /\ InRange(disk) /\ written \in Paths \cup {None}
    /\ torn \subseteq Paths /\ leaked \subseteq Clusters

(* The copies of the allocation table agree after every write, whichever   *)
(* way it ended (write_fat_entry_all).                                     *)
MirrorsAgree ==
    \A i \in 1 .. NumFats : \A c \in Clusters : disk.fat[i][c] = disk.fat[1][c]

(* The directories of a volume that paths go through, the slots of their  *)
(* entries (cluster and index), and the chains the entries head.           *)
DirPaths(d) == {p \in {Parent(q) : q \in Paths} : DirCluster(d, p).ok}
SlotsOf(d, p) ==
    LET l == list_dir_path(d, p)
        chain == Chain(d, DirCluster(d, p).val)
    IN  IF l.ok THEN {<<SlotCluster(chain, n), SlotIndex(n)>> : n \in DOMAIN l.val} ELSE {}
Places(d) == UNION {SlotsOf(d, p) : p \in DirPaths(d)}
EntryAt(d, x) == d.data[x[1]][x[2]]
ChainOf(d, x) == WholeChain(d, EntryAt(d, x).first_cluster)
RootChain(d)  == WholeChain(d, RootCluster)
FilePlaces(d) == {x \in Places(d) : is_file(EntryAt(d, x))}

(* What the writes rely on: directories whose clusters files stay out of,  *)
(* with one end each and no name twice, and, as long as no file is torn,   *)
(* chains that do not run into each other.                                 *)
Sound == \E D \in SUBSET Clusters :
            DirsSound(disk, D) /\ (torn = {} => FilesSound(disk, D))

(* No two files, and no file and directory, share a cluster.               *)
NoCrossLinks ==
    torn = {} =>
       \A x \in FilePlaces(disk) :
          /\ \A y \in Places(disk) : y # x => ChainOf(disk, x) \cap ChainOf(disk, y) = {}
          /\ ChainOf(disk, x) \cap RootChain(disk) = {}

(* Every cluster in use belongs to the root, to a file or to a directory,  *)
(* except what failed creations left behind.                               *)
NoLostClusters ==
    torn = {} =>
       Used(disk) = RootChain(disk) \cup leaked
                       \cup UNION {ChainOf(disk, x) : x \in Places(disk)}

(* Every entry heads a chain as long as its size asks for, or is empty and *)
(* heads none ("0 si fichier vide").                                       *)
SizesFit ==
    torn = {} => \A x \in FilePlaces(disk) :
        Cardinality(ChainOf(disk, x)) = div_ceil(EntryAt(disk, x).size, ClusterUnits)

(* No directory lists a name twice.                                        *)
UniqueNames ==
    \A p \in DirPaths(disk) : LET l == list_dir_path(disk, p) IN
        l.ok => \A i, j \in DOMAIN l.val : l.val[i].name = l.val[j].name => i = j

(* Reading gives back what was written: after any sequence of writes, as   *)
(* long as none was torn, every path holds the content of the last write   *)
(* to it that returned Ok, whole, and what it held at the start if none    *)
(* did.  Failed writes and writes to other paths leave it alone.           *)
ReadsBack == torn = {} => Contained(disk) = files

(* No write, torn or not, moves a directory, frees one of its clusters or  *)
(* hides one from a path.                                                  *)
DirChains(d) ==
    [p \in DirPaths(d) |-> Chain(d, DirCluster(d, p).val)]
DirsStay == [][result' # "none" => DirChains(disk') = DirChains(disk)]_vars

(* Of the clusters in use, a write changes those of the directory of the   *)
(* path it was given, and those of no other file than the one it replaces: *)
(* it takes the links of the chain that the entry with the path's name     *)
(* heads, and rewrites contents there and in the directory only.           *)
DirOf(d, path) ==
    Try(DirCluster(d, Parent(path)), LAMBDA start : follow_chain(d, start))
OwnEntries(d, path) ==
    {e \in ToSet(BeforeEnd(Units(d, DirOf(d, path).val))) :
        Parsed(e) /\ e.name = FileName(path)}
OwnClusters(d, path) ==
    UNION {ToSet(Chain(d, e.first_cluster)) : e \in OwnEntries(d, path)}
Relinked(d, e) == {c \in Used(d) : read_fat_entry(e, c) # read_fat_entry(d, c)}
Rewritten(d, e) == {c \in Used(d) : e.data[c] # d.data[c]}
ChangesOwn(d, e, path) ==
    IF DirOf(d, path).ok
    THEN /\ Relinked(d, e) \subseteq OwnClusters(d, path)
         /\ Rewritten(d, e) \subseteq OwnClusters(d, path) \cup ToSet(DirOf(d, path).val)
    ELSE Relinked(d, e) = {} /\ Rewritten(d, e) = {}
OthersUntouched ==
    [][result' # "none" => ChangesOwn(disk, disk', written')]_vars

(* "je m'arrête exactement à la taille indiquée par l'entrée": a read that *)
(* succeeds gives as many units as the entry says.                         *)
ReadsWholeSize ==
    \A p \in Paths : LET r == read_file_by_path(disk, p)
                     IN  (r.ok /\ r.val # None) =>
                            Len(r.val) = open_path(disk, p).val.size

(* "à partir de là, tout est libre": what lies behind the end mark of a    *)
(* directory stays out of sight.  A write lists no other name than its     *)
(* own, so a directory gains at most one.                                  *)
NothingReappears ==
    [][result' = "Ok" => \A p \in DirPaths(disk) :
          Cardinality(DOMAIN list_dir_path(disk', p).val)
             <= Cardinality(DOMAIN list_dir_path(disk, p).val) + 1]_vars
=============================================================================
