---------------------------- MODULE Fat32Proofs -----------------------------
(***************************************************************************)
(* What a write leaves of a volume, on every way out of it, for volumes of *)
(* any size: the copies of the allocation table agree, its links are in    *)
(* range, other files keep their clusters, directories and names stay,     *)
(* chains stay apart and as long as their sizes say, no cluster is lost,   *)
(* and what was written reads back.                                        *)
(***************************************************************************)
EXTENDS Fat32History, Fat32WriteProofs

(* Of the clusters in use, what lies outside the free ones.                *)
LEMMA InUse ==
    ASSUME NEW d, NEW e, NEW T, NEW F, F = FreeClusters(d) \cup T, NEW D,
           Differs(d, e, F, F \cup D)
    PROVE  Relinked(d, e) \subseteq T /\ Rewritten(d, e) \subseteq T \cup D
    BY DEF Differs, FreeClusters, Used, Relinked, Rewritten

LEMMA NothingChanged ==
    ASSUME IsVolume(disk), InRange(disk), disk' = disk, NEW path
    PROVE  IsVolume(disk') /\ InRange(disk') /\ ChangesOwn(disk, disk', path)
<1>1. Relinked(disk, disk') = {} /\ Rewritten(disk, disk') = {}
      BY DEF Relinked, Rewritten
<1> QED BY <1>1 DEF ChangesOwn

LEMMA DirIsChain ==
    ASSUME NEW d, NEW path, DirOf(d, path).ok
    PROVE  LET chain == DirOf(d, path).val
           IN  Len(chain) \in Nat /\ DOMAIN chain = 1 .. Len(chain)
<1> DEFINE r == DirCluster(d, Parent(path))
<1>1. DirOf(d, path) = IF r.ok THEN follow_chain(d, r.val) ELSE r
      BY DEF DirOf, Try
<1>2. DirOf(d, path).val = Chain(d, r.val)
      BY <1>1, Followable
<1> QED BY <1>2, ChainIsSeq

(* What becomes of the entry found at a slot, with the name of the path.   *)
LEMMA ReplaceChanges ==
    ASSUME IsVolume(disk), InRange(disk), NEW path, NEW content, Len(content) \in Nat,
           DirOf(disk, path).ok,
           NEW chain, chain = DirOf(disk, path).val,
           NEW slot, slot = find_dir_entry(disk, chain, FileName(path)), slot # 0,
           ReplaceFile(disk, disk', result', chain, slot, FileName(path), content)
    PROVE  IsVolume(disk') /\ InRange(disk') /\ ChangesOwn(disk, disk', path)
<1>0. PICK e : e = Units(disk, chain)[slot]
      OBVIOUS
<1> DEFINE T == IF Parsed(e) THEN ToSet(Chain(disk, e.first_cluster)) ELSE {}
           F == FreeClusters(disk) \cup T
           d == free_chain(disk, OldFirst(e))
<1>1. Len(chain) \in Nat /\ DOMAIN chain = 1 .. Len(chain)
      BY DirIsChain
<1>2. /\ slot \in 1 .. Len(chain) * ClusterUnits
      /\ e \in ToSet(BeforeEnd(Units(disk, chain))) /\ e.name = FileName(path)
      BY <1>0, <1>1, EntryFound
<1>3. T \subseteq OwnClusters(disk, path)
      BY <1>2 DEF OwnClusters, OwnEntries
<1>4. CASE disk' = disk
      BY <1>4, NothingChanged
<1>5. CASE Overwrite(d, disk', result', chain, slot, FileName(path), content)
  <2>1. Changed(disk, d, T, {})
    <3>1. CASE Parsed(e)
          BY <3>1, FreeChanges DEF OldFirst
    <3>2. CASE ~ Parsed(e)
      <4>1. OldFirst(e) = 0 /\ d = disk
            BY <3>2 DEF OldFirst, free_chain
      <4> QED BY <4>1 DEF Changed, Differs
    <3> QED BY <3>1, <3>2
  <2> HIDE DEF d, T
  <2>2. Changed(disk, disk', F, F \cup ToSet(chain))
        BY <1>1, <1>2, <1>5, <2>1, OverwriteChanges
  <2>3. IsVolume(disk') /\ InRange(disk') /\ Differs(disk, disk', F, F \cup ToSet(chain))
        BY <2>2 DEF Changed
  <2>4. Relinked(disk, disk') \subseteq T /\ Rewritten(disk, disk') \subseteq T \cup ToSet(chain)
        BY <2>3, InUse
  <2> QED BY <1>3, <2>3, <2>4 DEF ChangesOwn
<1> QED BY <1>0, <1>4, <1>5 DEF ReplaceFile, Refused

LEMMA WriteChanges ==
    ASSUME IsVolume(disk), InRange(disk), NEW path, NEW content, Len(content) \in Nat,
           write_file_by_path(disk, disk', result', path, content)
    PROVE  IsVolume(disk') /\ InRange(disk') /\ ChangesOwn(disk, disk', path)
<1> DEFINE dir   == DirOf(disk, path)
           chain == dir.val
           slot  == find_dir_entry(disk, chain, FileName(path))
<1>1. CASE disk' = disk
      BY <1>1, NothingChanged
<1>2. CASE dir.ok /\ slot = 0 /\ AddFile(disk, disk', result', chain, FileName(path), content)
  <2> DEFINE F == FreeClusters(disk)
  <2>1. Changed(disk, disk', F, F \cup ToSet(chain))
        BY <1>2, DirIsChain, AddChanges
  <2>2. IsVolume(disk') /\ InRange(disk') /\ Differs(disk, disk', F, F \cup ToSet(chain))
        BY <2>1 DEF Changed
  <2> DEFINE T == {}
  <2>3. F = FreeClusters(disk) \cup T
        OBVIOUS
  <2> HIDE DEF F, T
  <2>4. Relinked(disk, disk') \subseteq T /\ Rewritten(disk, disk') \subseteq T \cup ToSet(chain)
        BY <2>2, <2>3, InUse
  <2> QED BY <1>2, <2>2, <2>4 DEF ChangesOwn, T
<1>3. CASE /\ dir.ok /\ slot # 0
           /\ ReplaceFile(disk, disk', result', chain, slot, FileName(path), content)
      BY <1>3, ReplaceChanges
<1>4. \/ disk' = disk
      \/ dir.ok /\ WriteAt(disk, disk', result', chain, slot, FileName(path), content)
      BY DEF write_file_by_path, WriteIn, Refused, DirOf
<1> QED BY <1>1, <1>2, <1>3, <1>4 DEF WriteAt
-----------------------------------------------------------------------------
LEMMA IsSequenceOf ==
    /\ \A content \in Contents : IsSequence(content) /\ Len(content) \in Nat
    /\ \A path \in Paths : IsSequence(path)
    BY SequenceAssumption DEF IsSequence

(* The clusters that a write took or gave back, and the files it tore.     *)
LEMMA HistoryTyped ==
    ASSUME NEW path \in Paths, NEW content,
           torn \subseteq Paths, leaked \subseteq Clusters,
           Record(path, content, Used(disk) \ Used(disk'), Used(disk') \ Used(disk))
    PROVE  written' = path /\ torn' \subseteq Paths /\ leaked' \subseteq Clusters
<1>1. Used(disk') \subseteq Clusters
      BY DEF Used
<1> QED BY <1>1 DEF Record

(* The volume stays one, step by step.                                     *)
FatInv == IsVolume(disk) /\ TypeOK

LEMMA FatInvStep == FatInv /\ [Next]_vars => FatInv'
<1> SUFFICES ASSUME FatInv, [Next]_vars PROVE FatInv'
    OBVIOUS
<1>1. CASE new
  <2>1. PICK d \in Images : disk' = d /\ written' = None /\ torn' = {} /\ leaked' = {}
        BY <1>1 DEF new
  <2> QED BY <2>1, ImagesAssumption, RangeAssumption DEF FatInv, TypeOK
<1>2. ASSUME NEW path \in Paths, NEW content \in Contents,
             write_file_by_path(disk, disk', result', path, content),
             Record(path, content, Used(disk) \ Used(disk'), Used(disk') \ Used(disk))
      PROVE  FatInv'
  <2>1. IsVolume(disk') /\ InRange(disk')
        BY <1>2, IsSequenceOf, WriteChanges DEF FatInv, TypeOK
  <2>2. written' = path /\ torn' \subseteq Paths /\ leaked' \subseteq Clusters
        BY <1>2, HistoryTyped DEF FatInv, TypeOK
  <2> QED BY <2>1, <2>2 DEF FatInv, TypeOK
<1>3. CASE UNCHANGED vars
      BY <1>3 DEF vars, FatInv, TypeOK
<1> QED BY <1>1, <1>2, <1>3 DEF Next

LEMMA FatInvInit == Init => FatInv
    BY ImagesAssumption, RangeAssumption DEF Init, FatInv, TypeOK

(* write_fat_entry_all (lib.rs:684) keeps the copies of the table equal:   *)
(* they agree after every sequence of writes, on every way out of each.    *)
THEOREM MirrorsStayEqual == Spec => []MirrorsAgree
<1>1. FatInv => MirrorsAgree
      BY DEF FatInv, IsVolume, MirrorsAgree, Clusters
<1> QED BY <1>1, FatInvInit, FatInvStep, PTL DEF Spec

(* After any sequence of writes every link of the table is free, a cluster *)
(* or an end of chain (write_fat_entry_all, alloc_chain), and no cluster   *)
(* has grown or shrunk (write_chain_data, write_dir_entry_at_offset).      *)
THEOREM Fat32Typed == Spec => []TypeOK
<1>1. FatInv => TypeOK
      BY DEF FatInv
<1> QED BY <1>1, FatInvInit, FatInvStep, PTL DEF Spec

(* write_file_by_path leaves the other files alone, on every way out of    *)
(* it: of the clusters in use it relinks and rewrites those of the chain   *)
(* it replaces, and writes to the directory of the path.                   *)
THEOREM WritesKeepOthers == Spec => OthersUntouched
<1> DEFINE Keeps == result' # "none" => ChangesOwn(disk, disk', written')
<1>1. FatInv /\ [Next]_vars => [Keeps]_vars
  <2> SUFFICES ASSUME FatInv, [Next]_vars PROVE [Keeps]_vars
      OBVIOUS
  <2>1. CASE new
        BY <2>1 DEF new
  <2>2. ASSUME NEW path \in Paths, NEW content \in Contents,
               write_file_by_path(disk, disk', result', path, content),
               Record(path, content, Used(disk) \ Used(disk'), Used(disk') \ Used(disk))
        PROVE  Keeps
    <3>1. ChangesOwn(disk, disk', path) /\ written' = path
          BY <2>2, IsSequenceOf, WriteChanges DEF FatInv, TypeOK, Record
    <3> QED BY <3>1
  <2> QED BY <2>1, <2>2 DEF Next
<1>2. OthersUntouched <=> [][Keeps]_vars
      BY DEF OthersUntouched
<1> QED BY <1>1, <1>2, FatInvInit, FatInvStep, PTL DEF Spec
-----------------------------------------------------------------------------
(* Directories.  The volumes to start from are as a formatting program and *)
(* other writers leave them, and no content passes for directory entries.  *)
SoundImages ==
    \A d \in Images : \E D \in SUBSET Clusters : DirsSound(d, D) /\ FilesSound(d, D)
PlainContents == \A content \in Contents : Plain(content)

(* The inductive invariant: some set of clusters is that of the            *)
(* directories.  It stays the same until another volume is loaded.         *)
DirsInv == FatInv /\ \E D \in SUBSET Clusters : DirsSound(disk, D)

LEMMA DirsInvInit ==
    ASSUME SoundImages
    PROVE  Init => DirsInv
    BY FatInvInit DEF Init, SoundImages, DirsInv

LEMMA DirsInvStep ==
    ASSUME SoundImages, PlainContents
    PROVE  DirsInv /\ [Next]_vars => DirsInv'
<1> SUFFICES ASSUME DirsInv, [Next]_vars PROVE DirsInv'
    OBVIOUS
<1>1. FatInv'
      BY FatInvStep DEF DirsInv
<1>2. CASE new
      BY <1>1, <1>2 DEF new, SoundImages, DirsInv
<1>3. ASSUME NEW path \in Paths, NEW content \in Contents,
             write_file_by_path(disk, disk', result', path, content)
      PROVE  DirsInv'
  <2>1. PICK D \in SUBSET Clusters : DirsSound(disk, D)
        BY DEF DirsInv
  <2>2. DirsSound(disk', D)
        BY <1>3, <2>1, IsSequenceOf, WriteKeeps DEF DirsInv, FatInv, TypeOK, PlainContents
  <2> QED BY <1>1, <2>2 DEF DirsInv
<1>4. CASE UNCHANGED vars
      BY <1>1, <1>4 DEF vars, DirsInv
<1> QED BY <1>2, <1>3, <1>4 DEF Next

(* Two volumes with the same directories.                                  *)
LEMMA ParentIs ==
    ASSUME NEW p \in {Parent(q) : q \in Paths}
    PROVE  Len(p) \in Nat
    BY IsSequenceOf, ParentLength

LEMMA DirsThere ==
    ASSUME NEW d, IsVolume(d), InRange(d), NEW e, IsVolume(e), InRange(e),
           NEW D, DirsSound(d, D), DirsSound(e, D), DirsKept(d, e, D)
    PROVE  DirChains(e) = DirChains(d)
<1>1. \A p \in {Parent(q) : q \in Paths} : SameDir(d, e, p)
      BY ParentIs, KeptDirChain
<1>2. DirPaths(e) = DirPaths(d)
      BY <1>1 DEF DirPaths, SameDir
<1>3. \A p \in DirPaths(d) : Chain(e, DirCluster(e, p).val) = Chain(d, DirCluster(d, p).val)
      BY <1>1 DEF DirPaths, SameDir
<1> QED BY <1>2, <1>3 DEF DirChains

(* write_file_by_path leaves every directory where it is: no write, torn   *)
(* or not, moves one, frees one of its clusters or hides it from a path.   *)
THEOREM DirectoriesStay ==
    ASSUME SoundImages, PlainContents
    PROVE  Spec => DirsStay
<1> DEFINE Stays == result' # "none" => DirChains(disk') = DirChains(disk)
<1>1. DirsInv /\ [Next]_vars => [Stays]_vars
  <2> SUFFICES ASSUME DirsInv, [Next]_vars PROVE [Stays]_vars
      OBVIOUS
  <2>1. CASE new
        BY <2>1 DEF new
  <2>2. ASSUME NEW path \in Paths, NEW content \in Contents,
               write_file_by_path(disk, disk', result', path, content)
        PROVE  Stays
    <3>1. PICK D \in SUBSET Clusters : DirsSound(disk, D)
          BY DEF DirsInv
    <3>2. IsVolume(disk) /\ InRange(disk)
          BY DEF DirsInv, FatInv, TypeOK
    <3>3. IsVolume(disk') /\ InRange(disk')
          BY <2>2, <3>2, IsSequenceOf, WriteChanges
    <3>4. DirsSound(disk', D) /\ DirsKept(disk, disk', D)
          BY <2>2, <3>1, <3>2, IsSequenceOf, WriteKeeps DEF PlainContents
    <3> QED BY <3>1, <3>2, <3>3, <3>4, DirsThere
  <2> QED BY <2>1, <2>2 DEF Next
<1>2. DirsStay <=> [][Stays]_vars
      BY DEF DirsStay
<1> QED BY <1>1, <1>2, DirsInvInit, DirsInvStep, PTL DEF Spec

(* No directory ever lists a name twice: find_dir_entry_offset_by_short_   *)
(* name finds the entry there is, before find_free_dir_entry_slot takes    *)
(* another slot for the name.                                              *)
THEOREM NamesStayUnique ==
    ASSUME SoundImages, PlainContents
    PROVE  Spec => []UniqueNames
<1>1. DirsInv => UniqueNames
  <2> SUFFICES ASSUME DirsInv, NEW p \in DirPaths(disk), list_dir_path(disk, p).ok,
                      NEW i \in DOMAIN list_dir_path(disk, p).val,
                      NEW j \in DOMAIN list_dir_path(disk, p).val,
                      list_dir_path(disk, p).val[i].name = list_dir_path(disk, p).val[j].name
               PROVE  i = j
      BY DEF UniqueNames
  <2>1. PICK D \in SUBSET Clusters : DirsSound(disk, D)
        BY DEF DirsInv
  <2>2. IsVolume(disk) /\ InRange(disk)
        BY DEF DirsInv, FatInv, TypeOK
  <2>3. Lists(disk, Chain(disk, DirCluster(disk, p).val), list_dir_path(disk, p).val)
        BY <2>1, <2>2, PathLists
  <2> QED BY <2>3 DEF Lists
<1> QED BY <1>1, DirsInvInit, DirsInvStep, PTL DEF Spec
-----------------------------------------------------------------------------
(* Files.  The volume stays sound: a write that fails with the chain of    *)
(* its file freed has torn it.                                             *)
SoundInv == FatInv /\ Sound

LEMMA SoundInvStep ==
    ASSUME SoundImages, PlainContents
    PROVE  SoundInv /\ [Next]_vars => SoundInv'
<1> SUFFICES ASSUME SoundInv, [Next]_vars PROVE SoundInv'
    OBVIOUS
<1>1. FatInv'
      BY FatInvStep DEF SoundInv
<1>2. CASE new
  <2>1. PICK d \in Images : disk' = d
        BY <1>2 DEF new
  <2>2. PICK D \in SUBSET Clusters : DirsSound(d, D) /\ FilesSound(d, D)
        BY DEF SoundImages
  <2> QED BY <1>1, <2>1, <2>2 DEF SoundInv, Sound
<1>3. ASSUME NEW path \in Paths, NEW content \in Contents,
             write_file_by_path(disk, disk', result', path, content),
             Record(path, content, Used(disk) \ Used(disk'), Used(disk') \ Used(disk))
      PROVE  SoundInv'
  <2>1. PICK D \in SUBSET Clusters : DirsSound(disk, D) /\ (torn = {} => FilesSound(disk, D))
        BY DEF SoundInv, Sound
  <2>2. /\ DirsSound(disk', D)
        /\ FilesSound(disk, D) =>
              FilesSound(disk', D) \/ (result' # "Ok" /\ Frees(disk, disk'))
        BY <1>3, <2>1, IsSequenceOf, WriteKeeps DEF SoundInv, FatInv, TypeOK, PlainContents
  <2>3. ASSUME torn' = {} PROVE torn = {} /\ ~ (result' # "Ok" /\ Frees(disk, disk'))
    <3>1. Frees(disk, disk') => Used(disk) \ Used(disk') # {}
          BY DEF Frees, Used
    <3> QED BY <1>3, <2>3, <3>1 DEF Record
  <2>4. torn' = {} => FilesSound(disk', D)
        BY <2>1, <2>2, <2>3
  <2> QED BY <1>1, <2>2, <2>4 DEF SoundInv, Sound
<1>4. CASE UNCHANGED vars
      BY <1>1, <1>4 DEF vars, SoundInv, Sound
<1> QED BY <1>2, <1>3, <1>4 DEF Next

LEMMA SoundInvInit ==
    ASSUME SoundImages
    PROVE  Init => SoundInv
    BY FatInvInit DEF Init, SoundImages, SoundInv, Sound

(* After any sequence of writes the directories are what the next write    *)
(* relies on, and as long as no file is torn the chains of the files are   *)
(* apart (alloc_chain, free_chain, write_dir_entry_at_offset and the move  *)
(* of the end mark in write_file_by_path).                                 *)
THEOREM VolumeStaysSound ==
    ASSUME SoundImages, PlainContents
    PROVE  Spec => []Sound
<1>1. SoundInv => Sound
      BY DEF SoundInv
<1> QED BY <1>1, SoundInvInit, SoundInvStep, PTL DEF Spec

(* The places of entries are slots that directories list.                  *)
LEMMA PlaceIs ==
    ASSUME NEW d, IsVolume(d), InRange(d), NEW D, DirsSound(d, D), NEW x \in Places(d)
    PROVE  /\ x \in D \X (1 .. ClusterUnits) /\ ListedIn(d, x[1], x[2])
           /\ FirstSound(d, D, EntryAt(d, x))
<1>1. PICK p \in DirPaths(d) : x \in SlotsOf(d, p)
      BY DEF Places
<1>2. PICK s : s = Chain(d, DirCluster(d, p).val)
      OBVIOUS
<1>3. list_dir_path(d, p).ok
      BY <1>1 DEF SlotsOf
<1>4. PICK n \in DOMAIN list_dir_path(d, p).val : x = <<SlotCluster(s, n), SlotIndex(n)>>
      BY <1>1, <1>2, <1>3 DEF SlotsOf
<1>5. DirCluster(d, p).val \in Starts(d, D) /\ Lists(d, s, list_dir_path(d, p).val)
      BY <1>2, <1>3, PathLists
<1>6. /\ SlotCluster(s, n) \in ToSet(s) /\ SlotIndex(n) \in 1 .. ClusterUnits
      /\ ListedIn(d, SlotCluster(s, n), SlotIndex(n))
      BY <1>5 DEF Lists
<1>7. SlotCluster(s, n) \in D
      BY <1>2, <1>5, <1>6, DirChain DEF DirsSound
<1>8. x[1] = SlotCluster(s, n) /\ x[2] = SlotIndex(n)
      BY <1>4
<1>9. FirstSound(d, D, EntryAt(d, x))
      BY <1>6, <1>7, <1>8 DEF DirsSound, EntriesSound, EntryAt
<1> QED BY <1>4, <1>6, <1>7, <1>8, <1>9

(* As long as no file is torn, no cluster belongs to two files, or to a    *)
(* file and a directory: alloc_chain takes clusters that are free, and     *)
(* free_chain those of one file.                                           *)
THEOREM ChainsStayApart ==
    ASSUME SoundImages, PlainContents
    PROVE  Spec => []NoCrossLinks
<1>1. SoundInv => NoCrossLinks
  <2> SUFFICES ASSUME SoundInv, torn = {}, NEW x \in FilePlaces(disk)
               PROVE  /\ \A y \in Places(disk) :
                            y # x => ChainOf(disk, x) \cap ChainOf(disk, y) = {}
                      /\ ChainOf(disk, x) \cap RootChain(disk) = {}
      BY DEF NoCrossLinks
  <2>1. PICK D \in SUBSET Clusters : DirsSound(disk, D) /\ FilesSound(disk, D)
        BY DEF SoundInv, Sound
  <2>2. IsVolume(disk) /\ InRange(disk)
        BY DEF SoundInv, FatInv, TypeOK
  <2>3. PICK U : U = Clusters \ D
        OBVIOUS
  <2>4. /\ TableSound(disk, D) /\ Closed(disk, D) /\ RootCluster \in D
        /\ Closed(disk, U) /\ Apart(disk, U)
    <3>1. TableSound(disk, D) /\ Closed(disk, D) /\ RootCluster \in D
          BY <2>1, SoundIsClosed DEF DirsSound, Starts
    <3>2. Closed(disk, U)
          BY <2>3, <3>1 DEF TableSound, Closed
    <3> QED BY <2>1, <2>3, <3>1, <3>2 DEF FilesSound, FilesSoundBut
  <2>5. PICK g : g = First(disk, x)
        OBVIOUS
  <2>6. x \in Places(disk) /\ is_file(EntryAt(disk, x)) /\ ChainOf(disk, x) = WholeChain(disk, g)
        BY <2>5 DEF FilePlaces, ChainOf, EntryAt, First
  <2>7. x \in FilesIn(disk, D) /\ g \in {0, 1} \cup U
    <3>1. /\ x \in D \X (1 .. ClusterUnits) /\ ListedIn(disk, x[1], x[2])
          /\ FirstSound(disk, D, EntryAt(disk, x))
          BY <2>1, <2>2, <2>6, PlaceIs
    <3>2. ~ is_dir(EntryAt(disk, x))
          BY <2>6 DEF is_dir, is_file
    <3> QED BY <2>3, <2>5, <2>6, <3>1, <3>2 DEF FilesIn, EntryAt, FirstSound, First
  <2>8. WholeChain(disk, g) \subseteq U /\ (g \in {0, 1} => WholeChain(disk, g) = {})
        BY <2>2, <2>4, <2>7, WholeInside
  <2>9. \A c \in {0, 1} \cup D : WholeChain(disk, c) \subseteq D
        BY <2>2, <2>4, WholeInside
  <2>10. ChainOf(disk, x) \cap RootChain(disk) = {}
         BY <2>3, <2>4, <2>6, <2>8, <2>9 DEF RootChain
  <2>11. ASSUME NEW y \in Places(disk), y # x
         PROVE  ChainOf(disk, x) \cap ChainOf(disk, y) = {}
    <3>1. PICK h : h = First(disk, y)
          OBVIOUS
    <3>2. ChainOf(disk, y) = WholeChain(disk, h)
          BY <3>1 DEF ChainOf, EntryAt, First
    <3>3. /\ y \in D \X (1 .. ClusterUnits) /\ ListedIn(disk, y[1], y[2])
          /\ FirstSound(disk, D, EntryAt(disk, y))
          BY <2>1, <2>2, PlaceIs
    <3>4. CASE is_dir(EntryAt(disk, y))
      <4>1. h \in {0, 1} \cup D
            BY <3>1, <3>3, <3>4 DEF FirstSound, EntryAt, First, Starts
      <4> QED BY <2>3, <2>6, <2>8, <2>9, <3>2, <4>1
    <3>5. CASE ~ is_dir(EntryAt(disk, y))
      <4>1. y \in FilesIn(disk, D) /\ h \in {0, 1} \cup U
            BY <2>3, <3>1, <3>3, <3>5 DEF FilesIn, EntryAt, FirstSound, First, is_dir, is_file
      <4>2. WholeChain(disk, h) \subseteq U /\ (h \in {0, 1} => WholeChain(disk, h) = {})
            BY <2>2, <2>4, <4>1, WholeInside
      <4>3. CASE g \in U /\ h \in U
        <5>1. g >= 2 /\ h >= 2
              BY <2>3, <4>3 DEF Clusters
        <5>2. x \in FilesIn(disk, D) \ {} /\ y \in FilesIn(disk, D) \ {}
              BY <2>7, <4>1
        <5>3. g \in Starts(disk, U) /\ h \in Starts(disk, U) /\ g # h
              BY <2>1, <2>3, <2>5, <2>11, <3>1, <5>1, <5>2 DEF FilesSound, FilesSoundBut
        <5>4. WholeChain(disk, g) \cap WholeChain(disk, h) = {}
              BY <2>2, <2>4, <5>3, WholeApart
        <5> QED BY <2>6, <3>2, <5>4
      <4> QED BY <2>6, <2>7, <2>8, <3>2, <4>1, <4>2, <4>3
    <3> QED BY <3>4, <3>5
  <2> QED BY <2>10, <2>11
<1> QED BY <1>1, SoundInvInit, SoundInvStep, PTL DEF Spec
-----------------------------------------------------------------------------
(* Contents.  Each directory is reached by one of the paths at most ("."   *)
(* and ".." would be others), and contents are as short as the code says   *)
(* it handles: the chains it follows hold them, the sizes fit 32 bits.     *)
OnePath(d)  == \A p, q \in {Parent(x) : x \in Paths} : OneDir(d, p, q)
OnePathEach == \A d \in Images : OnePath(d)
ContentsFit == \A content \in Contents : Fits(content)

LEMMA OnePathKept ==
    ASSUME NEW d, IsVolume(d), InRange(d), NEW e, IsVolume(e), InRange(e),
           NEW D, DirsSound(d, D), DirsSound(e, D), DirsKept(d, e, D), OnePath(d)
    PROVE  OnePath(e)
    BY ParentIs, OneDirKept DEF OnePath

(* What a write makes of what the paths hold.                              *)
LEMMA ContainedAfter ==
    ASSUME NEW d, IsVolume(d), InRange(d), NEW e, IsVolume(e), InRange(e),
           NEW D, DirsSound(d, D), DirsSound(e, D), DirsKept(d, e, D), OnePath(d),
           NEW path \in Paths, NEW content \in Contents, Fits(content),
           NEW r, PathsRead(d, e, r, D, path, content)
    PROVE  Contained(e) = IF r = "Ok" THEN [Contained(d) EXCEPT ![path] = Ok(content)]
                          ELSE Contained(d)
<1>1. PICK P : P = {q \in Paths : DirCluster(d, Parent(q)).ok}
      OBVIOUS
<1>2. {q \in Paths : DirCluster(e, Parent(q)).ok} = P
  <2>1. DirsKept(e, d, D)
        BY KeptBack
  <2>2. ASSUME NEW q \in Paths
        PROVE  DirCluster(e, Parent(q)).ok <=> DirCluster(d, Parent(q)).ok
    <3>1. Len(Parent(q)) \in Nat
          BY IsSequenceOf, ParentLength
    <3> QED BY <2>1, <3>1, KeptDir
  <2> QED BY <1>1, <2>2
<1>3. /\ Contained(d) = [q \in P |-> read_file_by_path(d, q)]
      /\ Contained(e) = [q \in P |-> read_file_by_path(e, q)]
      BY <1>1, <1>2 DEF Contained
<1>4. None # RootEntry
      BY NoneAssumption
<1>5. CASE r = "Ok"
  <2>1. Wrote(d, e, D, path, content)
        BY <1>5 DEF PathsRead
  <2>2. path \in P /\ path # <<>>
        BY <1>1, <2>1 DEF Wrote
  <2>3. \A first \in 0 .. MaxCluster : None # Entry(FileName(path), "file", first, Len(content))
    <3>1. Len(content) \in 0 .. SizeMod - 1
          BY IsSequenceOf, FatAssumption DEF Fits
    <3> QED BY <2>2, <3>1, NoneAssumption
  <2>4. IsSequence(path)
        BY IsSequenceOf
  <2>5. read_file_by_path(e, path) = Ok(content)
    <3>1. PathHolds(d, e, path, content)
          BY <2>1 DEF Wrote, Writes, Holds, PathHolds
    <3> QED BY <1>4, <2>3, <2>4, <3>1, ReadsOwn
  <2>6. ASSUME NEW q \in P, q # path
        PROVE  read_file_by_path(e, q) = read_file_by_path(d, q)
    <3>1. q \in Paths /\ DirCluster(d, Parent(q)).ok
          BY <1>1
    <3>2. IsSequence(q) /\ OneDir(d, Parent(path), Parent(q))
          BY <3>1, IsSequenceOf DEF OnePath
    <3> QED BY <1>4, <2>1, <2>4, <2>6, <3>1, <3>2, ReadsOther
  <2> QED BY <1>3, <1>5, <2>2, <2>5, <2>6
<1>6. CASE r # "Ok"
  <2>1. ReadsKept(d, e, D, {})
        BY <1>6 DEF PathsRead
  <2>2. ASSUME NEW q \in P PROVE read_file_by_path(e, q) = read_file_by_path(d, q)
    <3>1. IsSequence(q) /\ DirCluster(d, Parent(q)).ok
          BY <1>1, IsSequenceOf
    <3> QED BY <1>4, <2>1, <3>1, ReadsAll
  <2> QED BY <1>3, <1>6, <2>2
<1> QED BY <1>5, <1>6

(* The inductive invariant: as long as no file is torn, the paths hold     *)
(* what the history says, each directory under its one path.               *)
ReadsInv == SoundInv /\ OnePath(disk) /\ ReadsBack

LEMMA ReadsInvInit ==
    ASSUME SoundImages, OnePathEach
    PROVE  Init => ReadsInv
    BY SoundInvInit DEF Init, OnePathEach, ReadsInv, ReadsBack

LEMMA ReadsInvStep ==
    ASSUME SoundImages, PlainContents, OnePathEach, ContentsFit
    PROVE  ReadsInv /\ [Next]_vars => ReadsInv'
<1> SUFFICES ASSUME ReadsInv, [Next]_vars PROVE ReadsInv'
    OBVIOUS
<1>1. SoundInv'
      BY SoundInvStep DEF ReadsInv
<1>2. CASE new
      BY <1>1, <1>2 DEF new, OnePathEach, ReadsInv, ReadsBack
<1>3. ASSUME NEW path \in Paths, NEW content \in Contents,
             write_file_by_path(disk, disk', result', path, content),
             Record(path, content, Used(disk) \ Used(disk'), Used(disk') \ Used(disk))
      PROVE  ReadsInv'
  <2>1. PICK D \in SUBSET Clusters : DirsSound(disk, D) /\ (torn = {} => FilesSound(disk, D))
        BY DEF ReadsInv, SoundInv, Sound
  <2>2. IsVolume(disk) /\ InRange(disk) /\ IsVolume(disk') /\ InRange(disk')
        BY <1>1 DEF ReadsInv, SoundInv, FatInv, TypeOK
  <2>3. Fits(content)
        BY DEF ContentsFit
  <2>4. /\ DirsSound(disk', D) /\ DirsKept(disk, disk', D)
        /\ FilesSound(disk, D) /\ Fits(content) =>
              \/ PathsRead(disk, disk', result', D, path, content)
              \/ result' # "Ok" /\ Frees(disk, disk')
        BY <1>3, <2>1, <2>2, IsSequenceOf, WriteKeeps DEF PlainContents
  <2>5. OnePath(disk')
        BY <2>1, <2>2, <2>4, OnePathKept DEF ReadsInv
  <2>6. ASSUME torn' = {} PROVE Contained(disk') = files'
    <3>1. Frees(disk, disk') => Used(disk) \ Used(disk') # {}
          BY DEF Frees, Used
    <3>2. torn = {} /\ ~ (result' # "Ok" /\ Frees(disk, disk'))
          BY <1>3, <2>6, <3>1 DEF Record
    <3>3. PathsRead(disk, disk', result', D, path, content)
          BY <2>1, <2>3, <2>4, <3>2
    <3>4. Contained(disk') = IF result' = "Ok"
                             THEN [Contained(disk) EXCEPT ![path] = Ok(content)]
                             ELSE Contained(disk)
          BY <2>1, <2>2, <2>3, <2>4, <3>3, ContainedAfter DEF ReadsInv
    <3>5. Contained(disk) = files
          BY <3>2 DEF ReadsInv, ReadsBack
    <3>6. files' = IF result' = "Ok" THEN [files EXCEPT ![path] = Ok(content)] ELSE files
          BY <1>3, <2>6, <3>2 DEF Record
    <3> QED BY <3>4, <3>5, <3>6
  <2> QED BY <1>1, <2>5, <2>6 DEF ReadsInv, ReadsBack
<1>4. CASE UNCHANGED vars
      BY <1>1, <1>4 DEF vars, ReadsInv, ReadsBack
<1> QED BY <1>2, <1>3, <1>4 DEF Next

(* write_file_by_path and read_file_by_path agree: after any sequence of   *)
(* writes, as long as none was torn, every path holds the content of the   *)
(* last write to it that returned Ok, whole, and what it held at the start *)
(* if none did.                                                            *)
THEOREM WritesReadBack ==
    ASSUME SoundImages, PlainContents, OnePathEach, ContentsFit
    PROVE  Spec => []ReadsBack
<1>1. ReadsInv => ReadsBack
      BY DEF ReadsInv
<1> QED BY <1>1, ReadsInvInit, ReadsInvStep, PTL DEF Spec
-----------------------------------------------------------------------------
(* A write that leaves no file torn: the slot of its file and the clusters *)
(* of it change if it returns Ok, no file does if not.                     *)
WriteDone(d, e, r, D, content) ==
    IF r = "Ok"
    THEN \E c \in D, i \in 1 .. ClusterUnits :
            /\ ReadsKept(d, e, D, {<<c, i>>})
            /\ \E name : NewFile(e, c, i, name, content)
            /\ Took(d, e, c, i, content)
    ELSE ReadsKept(d, e, D, {}) /\ Used(d) \subseteq Used(e)

LEMMA Untorn ==
    ASSUME SoundInv, NEW path \in Paths, NEW content \in Contents, Plain(content), Fits(content),
           write_file_by_path(disk, disk', result', path, content),
           Record(path, content, Used(disk) \ Used(disk'), Used(disk') \ Used(disk)),
           NEW D \in SUBSET Clusters, DirsSound(disk, D), torn = {} => FilesSound(disk, D)
    PROVE  /\ DirsSound(disk', D) /\ DirsKept(disk, disk', D)
           /\ torn' = {} => /\ torn = {} /\ FilesSound(disk, D) /\ FilesSound(disk', D)
                            /\ WriteDone(disk, disk', result', D, content)
<1>1. IsVolume(disk) /\ InRange(disk) /\ IsSequence(path) /\ IsSequence(content)
      BY IsSequenceOf DEF SoundInv, FatInv, TypeOK
<1>2. /\ DirsSound(disk', D) /\ DirsKept(disk, disk', D)
      /\ FilesSound(disk, D) => FilesSound(disk', D) \/ (result' # "Ok" /\ Frees(disk, disk'))
      /\ FilesSound(disk, D) /\ Fits(content) =>
            \/ PathsRead(disk, disk', result', D, path, content)
            \/ result' # "Ok" /\ Frees(disk, disk')
      BY <1>1, WriteKeeps
<1>3. ASSUME torn' = {}
      PROVE  /\ torn = {} /\ FilesSound(disk, D) /\ FilesSound(disk', D)
             /\ WriteDone(disk, disk', result', D, content)
  <2>1. Frees(disk, disk') => Used(disk) \ Used(disk') # {}
        BY DEF Frees, Used
  <2>2. torn = {} /\ (result' # "Ok" => Used(disk) \ Used(disk') = {})
        BY <1>3 DEF Record
  <2>3. /\ FilesSound(disk, D) /\ FilesSound(disk', D)
        /\ PathsRead(disk, disk', result', D, path, content)
        BY <1>2, <2>1, <2>2
  <2>4. CASE result' = "Ok"
    <3>1. PICK h : h = DirCluster(disk, Parent(path)).val
          OBVIOUS
    <3>2. h \in Starts(disk, D) /\ Writes(disk, disk', D, h, FileName(path), content)
          BY <2>3, <2>4, <3>1 DEF PathsRead, Wrote
    <3>3. PICK c \in ToSet(Chain(disk, h)), i \in 1 .. ClusterUnits :
              /\ ReadsKept(disk, disk', D, {<<c, i>>})
              /\ NewFile(disk', c, i, FileName(path), content)
              /\ Took(disk, disk', c, i, content)
          BY <3>2 DEF Writes
    <3>4. TableSound(disk, D)
          BY DEF DirsSound
    <3>5. c \in D
          BY <1>1, <3>2, <3>4, DirChain
    <3> QED BY <2>2, <2>3, <2>4, <3>3, <3>5 DEF WriteDone
  <2>5. CASE result' # "Ok"
        BY <2>2, <2>3, <2>5 DEF PathsRead, WriteDone
  <2> QED BY <2>2, <2>3, <2>4, <2>5
<1> QED BY <1>2, <1>3
-----------------------------------------------------------------------------
(* Sizes.  The chains of the files are as long as the sizes ask for.       *)
Sized(d, D) == \A x \in FilesIn(d, D) :
    Cardinality(WholeChain(d, First(d, x))) = div_ceil(d.data[x[1]][x[2]].size, ClusterUnits)
SizedImages == \A d \in Images : \E D \in SUBSET Clusters :
    DirsSound(d, D) /\ FilesSound(d, D) /\ Sized(d, D)

(* A file but that of the write stays what it is, with its clusters.       *)
LEMMA FileStays ==
    ASSUME NEW d, NEW e, NEW D, NEW X, ReadsKept(d, e, D, X), NEW x \in D \X (1 .. ClusterUnits), x \notin X
    PROVE  /\ x \in FilesIn(e, D) <=> x \in FilesIn(d, D)
           /\ x \in FilesIn(d, D) => /\ e.data[x[1]][x[2]] = d.data[x[1]][x[2]]
                                     /\ First(e, x) = First(d, x)
                                     /\ WholeChain(e, First(e, x)) = WholeChain(d, First(d, x))
                                     /\ Chain(e, First(e, x)) = Chain(d, First(d, x))
<1>1. PICK c \in D, i \in 1 .. ClusterUnits : x = <<c, i>>
      OBVIOUS
<1>2. x[1] = c /\ x[2] = i
      BY <1>1
<1>3. /\ SlotKept(d, e, c, i)
      /\ ListedIn(d, c, i) /\ is_file(d.data[c][i]) => SameFile(d, e, d.data[c][i])
      BY <1>1 DEF ReadsKept
<1>4. x \in FilesIn(d, D) <=> ListedIn(d, c, i) /\ is_file(d.data[c][i])
      BY <1>2 DEF FilesIn
<1>5. x \in FilesIn(e, D) <=> ListedIn(e, c, i) /\ is_file(e.data[c][i])
      BY <1>2 DEF FilesIn
<1>6. x \in FilesIn(e, D) <=> x \in FilesIn(d, D)
      BY <1>3, <1>4, <1>5 DEF SlotKept
<1>7. ASSUME x \in FilesIn(d, D)
      PROVE  /\ e.data[c][i] = d.data[c][i] /\ First(e, x) = First(d, x)
             /\ WholeChain(e, First(e, x)) = WholeChain(d, First(d, x))
             /\ Chain(e, First(e, x)) = Chain(d, First(d, x))
  <2>1. e.data[c][i] = d.data[c][i] /\ SameFile(d, e, d.data[c][i])
        BY <1>3, <1>4, <1>7 DEF SlotKept
  <2> QED BY <1>2, <2>1 DEF SameFile, First
<1> QED BY <1>2, <1>6, <1>7

LEMMA SizedAfter ==
    ASSUME NEW d, NEW e, NEW r, NEW D, NEW content, WriteDone(d, e, r, D, content), Sized(d, D)
    PROVE  Sized(e, D)
<1> SUFFICES ASSUME NEW x \in FilesIn(e, D)
             PROVE  Cardinality(WholeChain(e, First(e, x)))
                    = div_ceil(e.data[x[1]][x[2]].size, ClusterUnits)
    BY DEF Sized
<1>1. x \in D \X (1 .. ClusterUnits)
      BY DEF FilesIn
<1>2. ASSUME NEW X, ReadsKept(d, e, D, X), x \notin X
      PROVE  Cardinality(WholeChain(e, First(e, x)))
             = div_ceil(e.data[x[1]][x[2]].size, ClusterUnits)
      BY <1>1, <1>2, FileStays DEF Sized
<1>3. CASE r = "Ok"
  <2>1. PICK c \in D, i \in 1 .. ClusterUnits :
            /\ ReadsKept(d, e, D, {<<c, i>>})
            /\ \E name : NewFile(e, c, i, name, content)
            /\ Took(d, e, c, i, content)
        BY <1>3 DEF WriteDone
  <2>2. CASE x = <<c, i>>
    <3>1. x[1] = c /\ x[2] = i
          BY <2>2
    <3>2. e.data[c][i].size = Len(content)
          BY <2>1 DEF NewFile, Entry
    <3>3. Cardinality(WholeChain(e, First(e, x))) = needed(content)
          BY <2>1, <3>1 DEF Took, TakenAt, First
    <3> QED BY <3>1, <3>2, <3>3 DEF needed
  <2>3. CASE x \notin {<<c, i>>}
        BY <1>2, <2>1, <2>3
  <2> QED BY <2>2, <2>3
<1>4. CASE r # "Ok"
      BY <1>2, <1>4 DEF WriteDone
<1> QED BY <1>3, <1>4

(* The inductive invariant: a write that leaves no file torn leaves all    *)
(* but its own as they are.                                                *)
SizesInv ==
    /\ SoundInv
    /\ \E D \in SUBSET Clusters :
          DirsSound(disk, D) /\ (torn = {} => FilesSound(disk, D) /\ Sized(disk, D))

LEMMA SizedImagesAreSound ==
    ASSUME SizedImages
    PROVE  SoundImages
    BY DEF SizedImages, SoundImages

LEMMA SizesInvInit ==
    ASSUME SizedImages
    PROVE  Init => SizesInv
    BY SoundInvInit, SizedImagesAreSound DEF Init, SizedImages, SizesInv

LEMMA SizesInvStep ==
    ASSUME SizedImages, PlainContents, ContentsFit
    PROVE  SizesInv /\ [Next]_vars => SizesInv'
<1> SUFFICES ASSUME SizesInv, [Next]_vars PROVE SizesInv'
    OBVIOUS
<1>1. SoundInv /\ SoundInv'
      BY SizedImagesAreSound, SoundInvStep DEF SizesInv
<1>2. CASE new
  <2>1. PICK d \in Images : disk' = d
        BY <1>2 DEF new
  <2> QED BY <1>1, <2>1 DEF SizedImages, SizesInv
<1>3. ASSUME NEW path \in Paths, NEW content \in Contents,
             write_file_by_path(disk, disk', result', path, content),
             Record(path, content, Used(disk) \ Used(disk'), Used(disk') \ Used(disk))
      PROVE  SizesInv'
  <2>1. PICK D \in SUBSET Clusters :
              DirsSound(disk, D) /\ (torn = {} => FilesSound(disk, D) /\ Sized(disk, D))
        BY DEF SizesInv
  <2>2. /\ DirsSound(disk', D)
        /\ torn' = {} => /\ torn = {} /\ FilesSound(disk, D) /\ FilesSound(disk', D)
                         /\ WriteDone(disk, disk', result', D, content)
        BY <1>1, <1>3, <2>1, Untorn DEF PlainContents, ContentsFit
  <2>3. torn' = {} => FilesSound(disk', D) /\ Sized(disk', D)
        BY <2>1, <2>2, SizedAfter
  <2> QED BY <1>1, <2>2, <2>3 DEF SizesInv
<1>4. CASE UNCHANGED vars
      BY <1>1, <1>4 DEF vars, SizesInv
<1> QED BY <1>2, <1>3, <1>4 DEF Next

LEMMA PlaceIsFile ==
    ASSUME NEW d, IsVolume(d), InRange(d), NEW D, DirsSound(d, D), NEW x \in FilePlaces(d)
    PROVE  x \in FilesIn(d, D)
<1>1. x \in Places(d) /\ is_file(EntryAt(d, x))
      BY DEF FilePlaces
<1> QED BY <1>1, PlaceIs DEF FilesIn, EntryAt

(* alloc_chain is asked for as many clusters as the size written to the    *)
(* entry fills (write_file_by_path), and no later write takes or adds one: *)
(* as long as no file is torn, every chain is as long as its size says.    *)
THEOREM SizesStayTrue ==
    ASSUME SizedImages, PlainContents, ContentsFit
    PROVE  Spec => []SizesFit
<1>1. SizesInv => SizesFit
  <2> SUFFICES ASSUME SizesInv, torn = {}, NEW x \in FilePlaces(disk)
               PROVE  Cardinality(ChainOf(disk, x)) = div_ceil(EntryAt(disk, x).size, ClusterUnits)
      BY DEF SizesFit
  <2>1. PICK D \in SUBSET Clusters : DirsSound(disk, D) /\ Sized(disk, D)
        BY DEF SizesInv
  <2>2. IsVolume(disk) /\ InRange(disk)
        BY DEF SizesInv, SoundInv, FatInv, TypeOK
  <2>3. x \in FilesIn(disk, D)
        BY <2>1, <2>2, PlaceIsFile
  <2> QED BY <2>1, <2>3 DEF Sized, ChainOf, EntryAt, First
<1> QED BY <1>1, SizesInvInit, SizesInvStep, PTL DEF Spec
-----------------------------------------------------------------------------
(* Lost clusters.  Every directory is reached by a path, every cluster in  *)
(* use belongs to a directory, to a file or to what was left behind, and   *)
(* the files have no more clusters than read_file follows.                 *)
DirsIn(d, D) == {x \in D \X (1 .. ClusterUnits) : DirAt(d, x[1], x[2])}
Listed(d, D) == \A c \in D : \E p \in DirPaths(d) :
    list_dir_path(d, p).ok /\ c \in ToSet(Chain(d, DirCluster(d, p).val))
Covered(d, D) ==
    D = RootChain(d) \cup UNION {WholeChain(d, First(d, x)) : x \in DirsIn(d, D)}
FileClusters(d, D) == UNION {WholeChain(d, First(d, x)) : x \in FilesIn(d, D)}
AllFollowed(d, D) == \A x \in FilesIn(d, D) :
    WholeChain(d, First(d, x)) = ToSet(Chain(d, First(d, x)))
Accounted(d, D, lost) ==
    /\ Used(d) = D \cup FileClusters(d, D) \cup lost
    /\ lost \cap FileClusters(d, D) = {}
WholeImages == \A d \in Images : \E D \in SUBSET Clusters :
    /\ DirsSound(d, D) /\ FilesSound(d, D)
    /\ Listed(d, D) /\ Covered(d, D) /\ AllFollowed(d, D) /\ Accounted(d, D, {})

(* Of directories that stay, the paths list all the entries.               *)
LEMMA PlacesAre ==
    ASSUME NEW d, IsVolume(d), InRange(d), NEW D, DirsSound(d, D), Listed(d, D),
           NEW c \in D, NEW i \in 1 .. ClusterUnits, ListedIn(d, c, i)
    PROVE  <<c, i>> \in Places(d)
<1>1. PICK p \in DirPaths(d) : list_dir_path(d, p).ok /\ c \in ToSet(Chain(d, DirCluster(d, p).val))
      BY DEF Listed
<1>2. PICK h : h = DirCluster(d, p).val
      OBVIOUS
<1>3. PICK s : s = Chain(d, h)
      OBVIOUS
<1>4. PICK l : l = list_dir_path(d, p).val
      OBVIOUS
<1>5. Len(p) \in Nat
      BY ParentIs DEF DirPaths
<1>6. h \in Starts(d, D) /\ Lists(d, s, l)
      BY <1>1, <1>2, <1>3, <1>4, <1>5, PathLists
<1>7. PICK n \in DOMAIN l : l[n] = d.data[c][i]
      BY <1>1, <1>2, <1>3, <1>6 DEF Lists
<1>8. PICK b : b = SlotCluster(s, n)
      OBVIOUS
<1>9. PICK j : j = SlotIndex(n)
      OBVIOUS
<1>10. /\ b \in ToSet(s) /\ j \in 1 .. ClusterUnits
       /\ ListedIn(d, b, j) /\ l[n] = d.data[b][j]
       BY <1>6, <1>7, <1>8, <1>9 DEF Lists
<1>11. EntryIn(d, b, j) /\ EntryIn(d, c, i) /\ d.data[b][j].name = d.data[c][i].name
       BY <1>7, <1>10 DEF ListedIn, EntryIn, Parsed
<1>12. b = c /\ j = i
       BY <1>1, <1>2, <1>3, <1>6, <1>10, <1>11 DEF DirsSound, NamesSound, UniqueIn
<1>13. <<c, i>> \in SlotsOf(d, p)
       BY <1>1, <1>2, <1>3, <1>4, <1>7, <1>8, <1>9, <1>12 DEF SlotsOf
<1> QED BY <1>13 DEF Places

LEMMA DirsInStay ==
    ASSUME NEW d, IsVolume(d), InRange(d), NEW e, IsVolume(e), InRange(e),
           NEW D, DirsSound(d, D), DirsSound(e, D), DirsKept(d, e, D), Listed(d, D), Covered(d, D)
    PROVE  Listed(e, D) /\ Covered(e, D)
<1>1. TableSound(d, D) /\ RootCluster \in D
      BY DEF DirsSound, TableSound, Starts
<1>2. ASSUME NEW h \in {0, 1} \cup D PROVE WholeChain(e, h) = WholeChain(d, h)
  <2>1. MaxCluster \in Nat \ {0}
    <3>1. MaxCluster \in Nat /\ MaxCluster >= 2
          BY FatAssumption
    <3> QED BY ONLY <3>1
  <2>2. Links(e, h, MaxCluster) = Links(d, h, MaxCluster)
        BY <1>1, <2>1, KeptChains
  <2> QED BY <2>2 DEF WholeChain
<1>3. Covered(e, D)
  <2>1. DirsIn(e, D) = DirsIn(d, D)
        BY DEF DirsKept, DirsIn
  <2>2. ASSUME NEW x \in DirsIn(d, D)
        PROVE  WholeChain(e, First(e, x)) = WholeChain(d, First(d, x))
    <3>1. PICK c \in D, i \in 1 .. ClusterUnits : x = <<c, i>> /\ DirAt(d, c, i)
          BY DEF DirsIn
    <3>2. PICK h : h = d.data[c][i].first_cluster
          OBVIOUS
    <3>3. e.data[c][i] = d.data[c][i]
          BY <3>1 DEF DirsKept
    <3>4. h \in {0, 1} \cup D
          BY <3>1, <3>2 DEF DirsSound, EntriesSound, FirstSound, DirAt, Starts
    <3>5. First(d, x) = h /\ First(e, x) = h
          BY <3>1, <3>2, <3>3 DEF First
    <3> QED BY <1>2, <3>4, <3>5
  <2>3. RootChain(e) = RootChain(d)
        BY <1>1, <1>2 DEF RootChain
  <2> QED BY <2>1, <2>2, <2>3 DEF Covered
<1>4. Listed(e, D)
  <2> SUFFICES ASSUME NEW c \in D
               PROVE  \E p \in DirPaths(e) : list_dir_path(e, p).ok
                         /\ c \in ToSet(Chain(e, DirCluster(e, p).val))
      BY DEF Listed
  <2>1. PICK p \in DirPaths(d) : list_dir_path(d, p).ok
                         /\ c \in ToSet(Chain(d, DirCluster(d, p).val))
        BY DEF Listed
  <2>2. Len(p) \in Nat /\ DirCluster(d, p).ok
        BY ParentIs DEF DirPaths
  <2>3. DirCluster(e, p) = DirCluster(d, p)
        BY <2>2, KeptDir
  <2>4. PICK h : h = DirCluster(d, p).val
        OBVIOUS
  <2>5. h \in Starts(d, D)
        BY <2>1, <2>2, <2>4, PathLists
  <2>6. h \in D /\ h \in {0, 1} \cup Starts(d, D)
        BY <2>5 DEF Starts
  <2>7. follow_chain(e, h) = follow_chain(d, h)
        BY <1>1, <2>6, KeptFollowed
  <2>8. Chain(e, h) = Chain(d, h)
        BY <1>1, <2>6, KeptChains
  <2>9. list_dir_path(d, p) = list_dir_cluster(d, h) /\ list_dir_path(e, p) = list_dir_cluster(e, h)
        BY <2>2, <2>3, <2>4 DEF list_dir_path, Try
  <2>10. list_dir_cluster(e, h).ok
    <3>1. follow_chain(d, h).ok
          BY <2>1, <2>9, ListIs
    <3>2. list_dir_cluster(e, h) = Ok(Entries(BeforeEnd(Units(e, Chain(e, h)))))
          BY <2>7, <3>1, ListIs
    <3> QED BY <3>2 DEF Ok
  <2>11. p \in DirPaths(e)
         BY <2>2, <2>3 DEF DirPaths
  <2> QED BY <2>1, <2>3, <2>4, <2>8, <2>9, <2>10, <2>11
<1> QED BY <1>3, <1>4

(* The clusters of files are apart.                                        *)
LEMMA FilesApart ==
    ASSUME NEW d, IsVolume(d), InRange(d), NEW D, DirsSound(d, D), FilesSound(d, D),
           NEW x \in FilesIn(d, D)
    PROVE  /\ WholeChain(d, First(d, x)) \subseteq Clusters \ D
           /\ \A y \in FilesIn(d, D) :
                 y # x => WholeChain(d, First(d, x)) \cap WholeChain(d, First(d, y)) = {}
<1>1. PICK U : U = Clusters \ D
      OBVIOUS
<1>2. Closed(d, U) /\ Apart(d, U)
  <2>1. TableSound(d, D)
        BY DEF DirsSound
  <2>2. Closed(d, U)
        BY <1>1, <2>1 DEF TableSound, Closed
  <2> QED BY <1>1, <2>2 DEF FilesSound, FilesSoundBut
<1>3. ASSUME NEW y \in FilesIn(d, D)
      PROVE  /\ First(d, y) \in {0, 1} \cup U /\ WholeChain(d, First(d, y)) \subseteq U
             /\ First(d, y) \in {0, 1} => WholeChain(d, First(d, y)) = {}
  <2>1. PICK g : g = First(d, y)
        OBVIOUS
  <2>2. PICK c \in D, i \in 1 .. ClusterUnits :
            y = <<c, i>> /\ ListedIn(d, c, i) /\ is_file(d.data[c][i])
        BY DEF FilesIn
  <2>3. FirstSound(d, D, d.data[c][i]) /\ ~ is_dir(d.data[c][i])
        BY <2>2 DEF DirsSound, EntriesSound, is_dir, is_file
  <2>4. g \in {0, 1} \cup U
        BY <1>1, <2>1, <2>2, <2>3 DEF FirstSound, First
  <2>5. WholeChain(d, g) \subseteq U /\ (g \in {0, 1} => WholeChain(d, g) = {})
        BY <1>2, <2>4, WholeInside
  <2> QED BY <2>1, <2>4, <2>5
<1>4. ASSUME NEW y \in FilesIn(d, D), y # x
      PROVE  WholeChain(d, First(d, x)) \cap WholeChain(d, First(d, y)) = {}
  <2>1. PICK g : g = First(d, x)
        OBVIOUS
  <2>2. PICK h : h = First(d, y)
        OBVIOUS
  <2>3. CASE g \in {0, 1} \/ h \in {0, 1}
        BY <1>3, <2>1, <2>2, <2>3
  <2>4. CASE g \in U /\ h \in U
    <3>1. g >= 2 /\ h >= 2
          BY <1>1, <2>4 DEF Clusters
    <3>2. x \in FilesIn(d, D) \ {} /\ y \in FilesIn(d, D) \ {}
          OBVIOUS
    <3>3. g \in Starts(d, U) /\ h \in Starts(d, U) /\ g # h
          BY <1>1, <1>4, <2>1, <2>2, <3>1, <3>2 DEF FilesSound, FilesSoundBut
    <3>4. WholeChain(d, g) \cap WholeChain(d, h) = {}
          BY <1>2, <3>3, WholeApart
    <3> QED BY <2>1, <2>2, <3>4
  <2> QED BY <1>3, <2>1, <2>2, <2>3, <2>4
<1> QED BY <1>1, <1>3, <1>4
(* The other files keep their clusters, a write that returns Ok gives back *)
(* those of its file and takes others.                                     *)
LEMMA AccountedWhenDone ==
    ASSUME NEW d, IsVolume(d), InRange(d), NEW e, NEW D,
           DirsSound(d, D), FilesSound(d, D), DirsKept(d, e, D), NEW content,
           NEW c \in D, NEW i \in 1 .. ClusterUnits, ReadsKept(d, e, D, {<<c, i>>}),
           \E name : NewFile(e, c, i, name, content), Took(d, e, c, i, content),
           AllFollowed(d, D), NEW lost, Accounted(d, D, lost)
    PROVE  AllFollowed(e, D) /\ Accounted(e, D, lost)
<1>1. PICK x : x = <<c, i>>
      OBVIOUS
<1>2. x \in D \X (1 .. ClusterUnits) /\ x[1] = c /\ x[2] = i
      BY <1>1
<1>3. ListedIn(e, c, i) /\ is_file(e.data[c][i]) /\ ~ is_dir(e.data[c][i])
      BY DEF NewFile, Entry, is_file, is_dir
<1>4. x \in FilesIn(e, D)
      BY <1>2, <1>3 DEF FilesIn
<1>5. PICK F : F = FilesIn(d, D) \ {x}
      OBVIOUS
<1>6. /\ FilesIn(e, D) = F \cup {x}
      /\ \A y \in F : /\ WholeChain(e, First(e, y)) = WholeChain(d, First(d, y))
                      /\ Chain(e, First(e, y)) = Chain(d, First(d, y))
  <2>1. ASSUME NEW y \in D \X (1 .. ClusterUnits), y # x
        PROVE  /\ y \in FilesIn(e, D) <=> y \in FilesIn(d, D)
               /\ y \in FilesIn(d, D) => /\ WholeChain(e, First(e, y)) = WholeChain(d, First(d, y))
                                         /\ Chain(e, First(e, y)) = Chain(d, First(d, y))
        BY <1>1, <2>1, FileStays
  <2>2. \A y \in FilesIn(d, D) \cup FilesIn(e, D) : y \in D \X (1 .. ClusterUnits)
        BY DEF FilesIn
  <2> QED BY <1>4, <1>5, <2>1, <2>2
<1>7. PICK freed : freed = FreedAt(d, c, i)
      OBVIOUS
<1>8. PICK taken : taken = TakenAt(e, c, i)
      OBVIOUS
<1>9. PICK rest : rest = UNION {WholeChain(d, First(d, y)) : y \in F}
      OBVIOUS
<1>10. /\ FileClusters(d, D) = rest \cup freed
       /\ rest \cap freed = {} /\ freed \cap D = {}
  <2>1. CASE ListedIn(d, c, i)
    <3>1. ~ DirAt(d, c, i)
          BY <1>3 DEF DirsKept, DirAt
    <3>2. x \in FilesIn(d, D)
          BY <1>2, <2>1, <3>1 DEF FilesIn, DirAt, is_dir, is_file
    <3>3. freed = WholeChain(d, First(d, x))
          BY <1>2, <1>7, <2>1, <3>2 DEF FreedAt, First, AllFollowed
    <3>4. FilesIn(d, D) = F \cup {x}
          BY <1>5, <3>2
    <3>5. FileClusters(d, D) = rest \cup freed
          BY <1>9, <3>3, <3>4 DEF FileClusters
    <3>6. /\ freed \subseteq Clusters \ D
          /\ \A y \in F : freed \cap WholeChain(d, First(d, y)) = {}
          BY <1>5, <3>2, <3>3, FilesApart
    <3> QED BY <1>9, <3>5, <3>6
  <2>2. CASE ~ ListedIn(d, c, i)
    <3>1. freed = {}
          BY <1>7, <2>2 DEF FreedAt
    <3>2. F = FilesIn(d, D)
          BY <1>2, <1>5, <2>2 DEF FilesIn
    <3> QED BY <1>9, <3>1, <3>2 DEF FileClusters
  <2> QED BY <2>1, <2>2
<1>11. FileClusters(e, D) = rest \cup taken
  <2>1. taken = WholeChain(e, First(e, x))
        BY <1>2, <1>8 DEF TakenAt, First
  <2>2. rest = UNION {WholeChain(e, First(e, y)) : y \in F}
        BY <1>6, <1>9
  <2> QED BY <1>6, <2>1, <2>2 DEF FileClusters
<1>12. /\ Used(e) = (Used(d) \ freed) \cup taken
       /\ (Used(d) \ freed) \cap taken = {}
       /\ taken = ToSet(Chain(e, First(e, x)))
       BY <1>2, <1>7, <1>8 DEF Took, First
<1>13. Used(d) = D \cup FileClusters(d, D) \cup lost /\ lost \cap FileClusters(d, D) = {}
       BY DEF Accounted
<1>14. Accounted(e, D, lost)
  <2>1. Used(e) = D \cup rest \cup taken \cup lost
        BY <1>10, <1>12, <1>13
  <2>2. lost \cap rest = {} /\ lost \cap taken = {}
        BY <1>10, <1>12, <1>13
  <2> QED BY <1>11, <2>1, <2>2 DEF Accounted
<1>15. AllFollowed(e, D)
  <2>1. WholeChain(e, First(e, x)) = ToSet(Chain(e, First(e, x)))
        BY <1>2, <1>8, <1>12 DEF TakenAt, First
  <2>2. \A y \in F : WholeChain(e, First(e, y)) = ToSet(Chain(e, First(e, y)))
        BY <1>5, <1>6 DEF AllFollowed
  <2> QED BY <1>6, <2>1, <2>2 DEF AllFollowed
<1> QED BY <1>14, <1>15

LEMMA AccountedAfter ==
    ASSUME NEW d, IsVolume(d), InRange(d), NEW e, NEW D,
           DirsSound(d, D), FilesSound(d, D), DirsKept(d, e, D),
           NEW content, NEW r, WriteDone(d, e, r, D, content),
           AllFollowed(d, D), NEW lost, Accounted(d, D, lost),
           NEW left, left = IF r = "Ok" THEN lost ELSE lost \cup (Used(e) \ Used(d))
    PROVE  AllFollowed(e, D) /\ Accounted(e, D, left)
<1>1. CASE r = "Ok"
  <2>1. PICK c \in D, i \in 1 .. ClusterUnits :
            /\ ReadsKept(d, e, D, {<<c, i>>})
            /\ \E name : NewFile(e, c, i, name, content)
            /\ Took(d, e, c, i, content)
        BY <1>1 DEF WriteDone
  <2> QED BY <1>1, <2>1, AccountedWhenDone
<1>2. CASE r # "Ok"
  <2>1. ReadsKept(d, e, D, {}) /\ Used(d) \subseteq Used(e)
        BY <1>2 DEF WriteDone
  <2>2. ASSUME NEW y \in D \X (1 .. ClusterUnits)
        PROVE  /\ y \in FilesIn(e, D) <=> y \in FilesIn(d, D)
               /\ y \in FilesIn(d, D) => /\ WholeChain(e, First(e, y)) = WholeChain(d, First(d, y))
                                         /\ Chain(e, First(e, y)) = Chain(d, First(d, y))
        BY <2>1, FileStays
  <2>3. \A y \in FilesIn(d, D) \cup FilesIn(e, D) : y \in D \X (1 .. ClusterUnits)
        BY DEF FilesIn
  <2>4. /\ FilesIn(e, D) = FilesIn(d, D)
        /\ \A y \in FilesIn(d, D) : /\ WholeChain(e, First(e, y)) = WholeChain(d, First(d, y))
                                    /\ Chain(e, First(e, y)) = Chain(d, First(d, y))
        BY <2>2, <2>3
  <2>5. FileClusters(e, D) = FileClusters(d, D) /\ AllFollowed(e, D)
        BY <2>4 DEF FileClusters, AllFollowed
  <2>6. Used(d) = D \cup FileClusters(d, D) \cup lost /\ lost \cap FileClusters(d, D) = {}
        BY DEF Accounted
  <2>7. Used(e) = D \cup FileClusters(d, D) \cup left /\ left \cap FileClusters(d, D) = {}
        BY <1>2, <2>1, <2>6
  <2> QED BY <2>5, <2>7 DEF Accounted
<1> QED BY <1>1, <1>2

(* The inductive invariant: the clusters of the directories, of the files  *)
(* and those left behind are all that are in use, and the files, which     *)
(* free_chain follows to their end, have none of those left behind.        *)
LostInv ==
    /\ SoundInv
    /\ \E D \in SUBSET Clusters :
          /\ DirsSound(disk, D) /\ Listed(disk, D) /\ Covered(disk, D)
          /\ torn = {} => /\ FilesSound(disk, D)
                          /\ AllFollowed(disk, D) /\ Accounted(disk, D, leaked)

LEMMA WholeImagesAreSound ==
    ASSUME WholeImages
    PROVE  SoundImages
    BY DEF WholeImages, SoundImages

LEMMA LostInvInit ==
    ASSUME WholeImages
    PROVE  Init => LostInv
    BY SoundInvInit, WholeImagesAreSound DEF Init, WholeImages, LostInv

LEMMA LostInvStep ==
    ASSUME WholeImages, PlainContents, ContentsFit
    PROVE  LostInv /\ [Next]_vars => LostInv'
<1> SUFFICES ASSUME LostInv, [Next]_vars PROVE LostInv'
    OBVIOUS
<1>1. SoundInv /\ SoundInv'
      BY WholeImagesAreSound, SoundInvStep DEF LostInv
<1>2. CASE new
  <2>1. PICK d \in Images : disk' = d /\ leaked' = {}
        BY <1>2 DEF new
  <2> QED BY <1>1, <2>1 DEF WholeImages, LostInv
<1>3. ASSUME NEW path \in Paths, NEW content \in Contents,
             write_file_by_path(disk, disk', result', path, content),
             Record(path, content, Used(disk) \ Used(disk'), Used(disk') \ Used(disk))
      PROVE  LostInv'
  <2>1. PICK D \in SUBSET Clusters :
              /\ DirsSound(disk, D) /\ Listed(disk, D) /\ Covered(disk, D)
              /\ torn = {} => /\ FilesSound(disk, D)
                              /\ AllFollowed(disk, D) /\ Accounted(disk, D, leaked)
        BY DEF LostInv
  <2>2. /\ DirsSound(disk', D) /\ DirsKept(disk, disk', D)
        /\ torn' = {} => /\ torn = {} /\ FilesSound(disk, D) /\ FilesSound(disk', D)
                         /\ WriteDone(disk, disk', result', D, content)
        BY <1>1, <1>3, <2>1, Untorn DEF PlainContents, ContentsFit
  <2>3. IsVolume(disk) /\ InRange(disk) /\ IsVolume(disk') /\ InRange(disk')
        BY <1>1 DEF SoundInv, FatInv, TypeOK
  <2>4. Listed(disk', D) /\ Covered(disk', D)
        BY <2>1, <2>2, <2>3, DirsInStay
  <2>5. leaked' = IF result' = "Ok" THEN leaked ELSE leaked \cup (Used(disk') \ Used(disk))
        BY <1>3 DEF Record
  <2>6. ASSUME torn' = {}
        PROVE  FilesSound(disk', D) /\ AllFollowed(disk', D) /\ Accounted(disk', D, leaked')
    <3>1. AllFollowed(disk', D) /\ Accounted(disk', D, leaked')
          BY <2>1, <2>2, <2>3, <2>5, <2>6, AccountedAfter
    <3> QED BY <2>2, <2>6, <3>1
  <2> QED BY <1>1, <2>2, <2>4, <2>6 DEF LostInv
<1>4. CASE UNCHANGED vars
      BY <1>1, <1>4 DEF vars, LostInv
<1> QED BY <1>2, <1>3, <1>4 DEF Next

(* free_chain gives back the chain of the file that is replaced, and only  *)
(* it, alloc_chain takes what the new entry heads: as long as no file is   *)
(* torn, every cluster in use belongs to the root, to a file or to a       *)
(* directory, but those that failed creations left behind.                 *)
THEOREM ClustersStayHeld ==
    ASSUME WholeImages, PlainContents, ContentsFit
    PROVE  Spec => []NoLostClusters
<1>1. LostInv => NoLostClusters
  <2> SUFFICES ASSUME LostInv, torn = {}
               PROVE  Used(disk) = RootChain(disk) \cup leaked
                                      \cup UNION {ChainOf(disk, x) : x \in Places(disk)}
      BY DEF NoLostClusters
  <2>1. PICK D \in SUBSET Clusters :
              /\ DirsSound(disk, D) /\ Listed(disk, D) /\ Covered(disk, D)
              /\ Accounted(disk, D, leaked)
        BY DEF LostInv
  <2>2. IsVolume(disk) /\ InRange(disk)
        BY DEF LostInv, SoundInv, FatInv, TypeOK
  <2>3. Places(disk) = DirsIn(disk, D) \cup FilesIn(disk, D)
    <3>1. ASSUME NEW x \in DirsIn(disk, D) \cup FilesIn(disk, D) PROVE x \in Places(disk)
      <4>1. PICK c \in D, i \in 1 .. ClusterUnits : x = <<c, i>> /\ ListedIn(disk, c, i)
            BY DEF DirsIn, FilesIn, DirAt
      <4> QED BY <2>1, <2>2, <4>1, PlacesAre
    <3>2. ASSUME NEW x \in Places(disk) PROVE x \in DirsIn(disk, D) \cup FilesIn(disk, D)
          BY <2>1, <2>2, PlaceIs DEF DirsIn, FilesIn, DirAt, is_dir, is_file
    <3> QED BY <3>1, <3>2
  <2>4. \A x : ChainOf(disk, x) = WholeChain(disk, First(disk, x))
        BY DEF ChainOf, EntryAt, First
  <2>5. PICK A : A = UNION {WholeChain(disk, First(disk, x)) : x \in DirsIn(disk, D)}
        OBVIOUS
  <2>6. UNION {ChainOf(disk, x) : x \in Places(disk)} = A \cup FileClusters(disk, D)
        BY <2>3, <2>4, <2>5 DEF FileClusters
  <2>7. D = RootChain(disk) \cup A /\ Used(disk) = D \cup FileClusters(disk, D) \cup leaked
        BY <2>1, <2>5 DEF Covered, Accounted
  <2> QED BY <2>6, <2>7
<1> QED BY <1>1, LostInvInit, LostInvStep, PTL DEF Spec
=============================================================================
