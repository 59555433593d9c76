--------------------------- MODULE FatShellProofs ---------------------------
(***************************************************************************)
(* What two programs on one image file keep whatever fails, for images,    *)
(* paths and contents of any size: every copy of the volume has the        *)
(* directories of the image that was loaded first and the shell's current  *)
(* directory is one of them; a save leaves in the file what was put; the   *)
(* file implements the abstract store as long as no half-done put and no   *)
(* old buffer is saved and no program ends that left the file empty or in  *)
(* part written.                                                           *)
(***************************************************************************)
EXTENDS FatShell, Fat32WriteProofs, SequenceTheorems

(* Words.  The paths they stand for are made of parts that name something. *)
Parts == (UNION {ToSet(word.parts) : word \in Words}) \ {"", ".", ".."}

LEMMA SeqOfItself ==
    ASSUME NEW S, NEW s \in Seq(S)
    PROVE  IsSequence(s)
<1>1. s = [n \in 1 .. Len(s) |-> s[n]] /\ Len(s) \in Nat /\ DOMAIN s = 1 .. Len(s)
      OBVIOUS
<1>2. s \in Seq({s[n] : n \in 1 .. Len(s)})
      BY <1>1, FunctionIsSeq
<1>3. ToSet(s) = {s[n] : n \in 1 .. Len(s)}
      BY <1>1 DEF ToSet
<1> QED BY <1>2, <1>3 DEF IsSequence

LEMMA Pushed ==
    ASSUME NEW word \in Words, NEW part \in ToSet(word.parts), NEW s \in Seq(Parts)
    PROVE  push_component(s, part) \in Seq(Parts)
<1>1. CASE part \in {"", "."}
      BY <1>1 DEF push_component
<1>2. CASE part = ".."
  <2>1. part \notin {"", "."}
        BY <1>2
  <2>2. PICK n \in Int : n = Len(s) - 1
        OBVIOUS
  <2>3. \A k \in 1 .. n : s[k] \in Parts
        BY <2>2
  <2>4. SubSeq(s, 1, n) \in Seq(Parts)
        BY <2>3, SubSeqProperties
  <2> QED BY <1>2, <2>1, <2>2, <2>4 DEF push_component, Front
<1>3. CASE part \notin {"", ".", ".."}
  <2>1. part \in Parts
        BY <1>3 DEF Parts
  <2>2. Append(s, part) \in Seq(Parts)
        BY <2>1
  <2> QED BY <1>3, <2>2 DEF push_component
<1> QED BY <1>1, <1>2, <1>3

(* The recursion of Resolved has a function.                               *)
Resolves(f, current, word, m) ==
    f = [k \in 0 .. m |-> IF k = 0 THEN IF word.absolute THEN <<>> ELSE current
                          ELSE push_component(f[k - 1], word.parts[k])]

LEMMA WordResolved ==
    ASSUME NEW current, NEW word, NEW max \in Nat
    PROVE  \E f : Resolves(f, current, word, max)
<1> DEFINE T == {m \in Nat : ~ \E f : Resolves(f, current, word, m)}
<1>1. SUFFICES ASSUME T # {} PROVE FALSE
      OBVIOUS
<1>2. PICK m \in T : \A k \in T : m <= k
  <2>1. T \in SUBSET Nat
        OBVIOUS
  <2> HIDE DEF T
  <2> QED BY <1>1, <2>1, Least
<1>3. m \in Nat /\ ~ \E f : Resolves(f, current, word, m)
      OBVIOUS
<1> DEFINE base == IF word.absolute THEN <<>> ELSE current
<1> HIDE DEF base
<1>4. CASE m = 0
  <2> DEFINE g == [k \in 0 .. m |-> base]
             h == [k \in 0 .. m |-> IF k = 0 THEN base
                                    ELSE push_component(g[k - 1], word.parts[k])]
  <2>1. \A k \in 0 .. m : k = 0
        BY <1>4
  <2>2. g = h
        BY <2>1
  <2>3. Resolves(g, current, word, m)
        BY <2>2 DEF Resolves, base
  <2> QED BY <1>3, <2>3
<1>5. CASE m # 0
  <2>1. m - 1 \in Nat /\ m - 1 \notin T
        BY <1>2, <1>3, <1>5
  <2>2. PICK f : Resolves(f, current, word, m - 1)
        BY <2>1
  <2> DEFINE g == [k \in 0 .. m |-> IF k = 0 THEN base
                                    ELSE push_component(f[k - 1], word.parts[k])]
             h == [k \in 0 .. m |-> IF k = 0 THEN base
                                    ELSE push_component(g[k - 1], word.parts[k])]
  <2>3. f = [k \in 0 .. m - 1 |-> IF k = 0 THEN base
                                  ELSE push_component(f[k - 1], word.parts[k])]
        BY <2>2 DEF Resolves, base
  <2>4. \A k \in 0 .. m - 1 : g[k] = f[k]
        BY <1>3, <2>1, <2>3
  <2>5. \A k \in 0 .. m : k # 0 => k - 1 \in 0 .. m - 1
        BY <1>3
  <2>6. g = h
        BY <2>4, <2>5
  <2>7. Resolves(g, current, word, m)
        BY <2>6 DEF Resolves, base
  <2> QED BY <1>3, <2>7
<1> QED BY <1>4, <1>5

LEMMA ResolvedIsPath ==
    ASSUME NEW current \in Seq(Parts), NEW word \in Words
    PROVE  resolve_path(current, word) \in Seq(Parts)
<1> DEFINE n == Len(word.parts)
           r == Resolved(current, word)
           T == {k \in 0 .. n : r[k] \notin Seq(Parts)}
<1>1. /\ n \in Nat
      /\ \A k \in 1 .. n : word.parts[k] \in ToSet(word.parts)
  <2>1. word.parts \in Seq(ToSet(word.parts))
        BY PathsAssumption DEF IsSequence
  <2> QED BY <2>1
<1>2. r = CHOOSE f : Resolves(f, current, word, n)
      BY DEF Resolved, Resolves
<1>3. Resolves(r, current, word, n)
      BY <1>1, <1>2, WordResolved
<1> HIDE DEF r
<1>4. r = [k \in 0 .. n |-> IF k = 0 THEN IF word.absolute THEN <<>> ELSE current
                            ELSE push_component(r[k - 1], word.parts[k])]
      BY <1>3 DEF Resolves
<1>5. SUFFICES ASSUME T # {} PROVE FALSE
  <2>1. n \in 0 .. n
        BY <1>1
  <2> QED BY <2>1 DEF resolve_path, r
<1>6. PICK k \in T : \A j \in T : k <= j
  <2>1. T \in SUBSET Nat
        BY <1>1
  <2> HIDE DEF T
  <2> QED BY <1>5, <2>1, Least
<1>7. k \in 0 .. n /\ r[k] \notin Seq(Parts)
      OBVIOUS
<1>8. CASE k = 0
  <2>1. r[k] = IF word.absolute THEN <<>> ELSE current
        BY <1>4, <1>7, <1>8
  <2>2. <<>> \in Seq(Parts)
        OBVIOUS
  <2> QED BY <1>7, <2>1, <2>2
<1>9. CASE k # 0
  <2>1. k \in 1 .. n /\ k - 1 \in 0 .. n /\ k - 1 \notin T
        BY <1>1, <1>6, <1>7, <1>9
  <2>2. r[k] = push_component(r[k - 1], word.parts[k])
        BY <1>4, <1>7, <1>9
  <2>3. r[k - 1] \in Seq(Parts)
        BY <2>1
  <2> QED BY <1>1, <1>7, <2>1, <2>2, <2>3, Pushed
<1> QED BY <1>8, <1>9
-----------------------------------------------------------------------------
(* Volumes.  d has the directories of the image i, in the clusters D.      *)
SameDirs(i, d, D) ==
    /\ IsVolume(i) /\ InRange(i) /\ DirsSound(i, D)
    /\ IsVolume(d) /\ InRange(d) /\ DirsSound(d, D) /\ Headed(d, D)
    /\ DirsKept(i, d, D)
Kept(d) == \E i \in Images, D \in SUBSET Clusters : SameDirs(i, d, D)

LEMMA ImageKept ==
    ASSUME NEW i \in Images
    PROVE  Kept(i)
<1>1. PICK D \in SUBSET Clusters : DirsSound(i, D) /\ Headed(i, D)
      BY ImagesAssumption
<1>2. IsVolume(i) /\ InRange(i)
      BY ImagesAssumption
<1>3. DirsKept(i, i, D)
      BY DEF DirsKept
<1> QED BY <1>1, <1>2, <1>3 DEF Kept, SameDirs

LEMMA KeptHeaded ==
    ASSUME NEW d, NEW e, NEW D, DirsKept(d, e, D), Headed(d, D)
    PROVE  Headed(e, D)
<1> SUFFICES ASSUME NEW c \in D, NEW i \in 1 .. ClusterUnits, DirAt(e, c, i),
                    e.data[c][i].name \notin {".", ".."}
             PROVE  e.data[c][i].first_cluster >= 2
    BY DEF Headed
<1>1. DirAt(d, c, i) /\ e.data[c][i] = d.data[c][i]
      BY DEF DirsKept
<1> QED BY <1>1 DEF Headed

LEMMA WriteKept ==
    ASSUME NEW i, NEW d, NEW D, SameDirs(i, d, D), NEW after, NEW r,
           NEW path, IsSequence(path), NEW content \in Contents,
           write_file_by_path(d, after, r, path, content)
    PROVE  SameDirs(i, after, D) /\ DirsKept(d, after, D)
<1>1. IsVolume(d) /\ InRange(d) /\ DirsSound(d, D) /\ Headed(d, D) /\ DirsKept(i, d, D)
      BY DEF SameDirs
<1>2. IsSequence(content) /\ Plain(content)
      BY ContentsAssumption
<1>3. /\ IsVolume(after) /\ InRange(after)
      /\ DirsSound(after, D) /\ DirsKept(d, after, D)
      BY <1>1, <1>2, WriteKeeps
<1>4. Headed(after, D) /\ DirsKept(i, after, D)
      BY <1>1, <1>3, KeptHeaded, KeptTwice
<1> QED BY <1>3, <1>4 DEF SameDirs

(* A chain that begins in D does not end in a free or a reserved cluster.  *)
LEMMA StartsList ==
    ASSUME NEW d, IsVolume(d), InRange(d), NEW D, DirsSound(d, D), NEW h \in Starts(d, D)
    PROVE  list_dir_cluster(d, h).ok
<1>1. PICK s : s = Chain(d, h)
      OBVIOUS
<1>2. TableSound(d, D) /\ D \subseteq Clusters
      BY DEF DirsSound, TableSound
<1>3. IsChain(d, h, MaxChain, s) /\ (\A c \in ToSet(s) : c \in D) /\ h >= 2
      BY <1>1, <1>2, DirChain, StartsInRange
<1>4. Last(s) \in ToSet(s)
  <2>1. DOMAIN s = 1 .. Len(s) /\ Len(s) \in Nat /\ Len(s) >= 1
        BY <1>3 DEF IsChain
  <2> QED BY <2>1 DEF Last, ToSet
<1>5. ~ (read_fat_entry(d, Last(s)) < 2)
  <2>1. read_fat_entry(d, Last(s)) \in D \cup EOC_MIN .. EOC
        BY <1>2, <1>3, <1>4 DEF TableSound
  <2>2. \A c \in Clusters \cup EOC_MIN .. EOC : ~ (c < 2)
    <3>1. \A c \in EOC_MIN .. EOC : ~ (c < 2)
          BY SMT DEF EOC_MIN, EOC
    <3>2. \A c \in Clusters : ~ (c < 2)
          BY DEF Clusters
    <3> QED BY <3>1, <3>2
  <2> QED BY <1>2, <2>1, <2>2
<1>6. ~ (h < 2) /\ h \in Clusters
      BY <1>2 DEF Starts, Clusters
<1>7. follow_chain(d, h) = Ok(s)
      BY <1>1, <1>5, <1>6 DEF follow_chain, CheckEnd
<1>8. follow_chain(d, h).ok /\ \A l : Ok(l).ok
      BY <1>7 DEF Ok
<1> QED BY <1>8, ListIs

(* A directory that cd enters can be listed.                               *)
LEMMA PartHeaded ==
    ASSUME NEW d, IsVolume(d), InRange(d), NEW D, DirsSound(d, D), Headed(d, D),
           NEW r, LeadsSound(d, D, r), NEW part, part \notin {".", ".."},
           AtDir(open_part(d, r, part))
    PROVE  open_part(d, r, part).val.first_cluster \in Starts(d, D)
<1>1. PICK h : h = r.val.first_cluster
      OBVIOUS
<1>2. PICK l : l = Entries(BeforeEnd(Units(d, Chain(d, h))))
      OBVIOUS
<1>3. AtDir(r)
      BY PartLeads
<1>4. open_part(d, r, part) = IF list_dir_cluster(d, h).ok
                              THEN Ok(Lookup(list_dir_cluster(d, h).val, part))
                              ELSE list_dir_cluster(d, h)
      BY <1>1, <1>3 DEF open_part, TrySome, Try, AtDir
<1>5. list_dir_cluster(d, h).ok
      BY <1>4 DEF AtDir
<1>6. \A v : Ok(v).val = v /\ Ok(v).ok
      BY DEF Ok
<1>7. follow_chain(d, h).ok /\ list_dir_cluster(d, h).val = l
      BY <1>2, <1>5, <1>6, ListIs
<1>8. open_part(d, r, part).val = Lookup(l, part)
      BY <1>4, <1>5, <1>6, <1>7
<1>9. h \in Starts(d, D)
  <2>1. FirstSound(d, D, r.val) /\ is_dir(r.val)
        BY <1>3 DEF LeadsSound, AtDir
  <2>2. h \notin {0, 1}
        BY <1>5, NoClusterNoList
  <2> QED BY <1>1, <2>1, <2>2 DEF FirstSound
<1>10. Lists(d, Chain(d, h), l)
       BY <1>2, <1>9, Listing
<1>11. PICK n \in DOMAIN l : l[n].name = part /\ Lookup(l, part) = l[n]
       BY <1>8, <1>10, LookupIs DEF AtDir
<1>12. PICK c \in ToSet(Chain(d, h)), i \in 1 .. ClusterUnits :
              ListedIn(d, c, i) /\ l[n] = d.data[c][i]
       BY <1>10, <1>11 DEF Lists
<1>13. c \in D
       BY <1>9, <1>12, DirChain DEF DirsSound
<1>14. is_dir(d.data[c][i]) /\ d.data[c][i].name = part
       BY <1>8, <1>11, <1>12 DEF AtDir
<1>15. d.data[c][i].first_cluster >= 2
       BY <1>12, <1>13, <1>14 DEF Headed, DirAt
<1>16. FirstSound(d, D, d.data[c][i])
       BY <1>12, <1>13 DEF DirsSound, EntriesSound
<1> QED BY <1>8, <1>11, <1>12, <1>14, <1>15, <1>16 DEF FirstSound

LEMMA EnteredLists ==
    ASSUME NEW i, NEW d, NEW D, SameDirs(i, d, D), NEW path \in Seq(Parts), Enters(d, path)
    PROVE  run_ls(d, path).ok
<1>1. IsVolume(d) /\ InRange(d) /\ DirsSound(d, D) /\ Headed(d, D)
      BY DEF SameDirs
<1>2. path # <<>>
      BY DEF Enters, open_path, Ok
<1>3. PICK n : n = Len(path)
      OBVIOUS
<1>4. n \in 1 .. Len(path) /\ n - 1 \in 0 .. Len(path) /\ Len(path) \in Nat
      BY <1>2, <1>3
<1>5. path[n] \notin {".", ".."}
  <2>1. path[n] \in Parts
        BY <1>3, <1>4
  <2> QED BY <2>1 DEF Parts
<1>6. PICK v, w : v = Walk(d, path)[n - 1] /\ w = Walk(d, path)[n]
      OBVIOUS
<1>7. w = open_part(d, v, path[n]) /\ LeadsSound(d, D, v)
      BY <1>1, <1>4, <1>6, WalkIs, WalkLeads
<1>8. open_path(d, path) = w
      BY <1>2, <1>3, <1>6 DEF open_path
<1>9. AtDir(w)
      BY <1>8 DEF Enters, AtDir
<1>10. w.val.first_cluster \in Starts(d, D)
       BY <1>1, <1>5, <1>7, <1>9, PartHeaded
<1>11. DirCluster(d, path) = Ok(w.val.first_cluster)
       BY <1>2, <1>8, <1>9 DEF DirCluster, ok_or, Try, AtDir, Ok
<1>12. list_dir_path(d, path) = list_dir_cluster(d, w.val.first_cluster)
       BY <1>11 DEF list_dir_path, Try, Ok
<1> QED BY <1>1, <1>10, <1>12, StartsList DEF run_ls

(* What can be listed can be listed after a write.                         *)
LEMMA StillLists ==
    ASSUME NEW i, NEW d, NEW e, NEW D, SameDirs(i, d, D), SameDirs(i, e, D),
           DirsKept(d, e, D), NEW path, Len(path) \in Nat, run_ls(d, path).ok
    PROVE  run_ls(e, path).ok
<1>1. /\ IsVolume(d) /\ InRange(d) /\ DirsSound(d, D)
      /\ IsVolume(e) /\ InRange(e) /\ DirsSound(e, D)
      BY DEF SameDirs
<1>2. DirCluster(d, path).ok
      BY DEF run_ls, list_dir_path, Try
<1>3. PICK h : h = DirCluster(d, path).val
      OBVIOUS
<1>4. DirCluster(e, path) = DirCluster(d, path)
      BY <1>1, <1>2, KeptDir
<1>5. /\ list_dir_path(d, path) = list_dir_cluster(d, h)
      /\ list_dir_path(e, path) = list_dir_cluster(e, h)
      BY <1>2, <1>3, <1>4 DEF list_dir_path, Try
<1>6. h \in {0, 1} \cup Starts(d, D)
      BY <1>1, <1>2, <1>3, DirLeads
<1>7. h \in Starts(d, D)
      BY <1>5, <1>6, NoClusterNoList DEF run_ls
<1>8. h \in Starts(e, D)
  <2>1. TableSound(d, D)
        BY <1>1 DEF DirsSound
  <2> QED BY <1>1, <1>7, <2>1, KeptChains
<1> QED BY <1>1, <1>5, <1>8, StartsList DEF run_ls

LEMMA RootLists ==
    ASSUME NEW d, Kept(d)
    PROVE  run_ls(d, <<>>).ok
<1>1. PICK i \in Images, D \in SUBSET Clusters : SameDirs(i, d, D)
      BY DEF Kept
<1>2. IsVolume(d) /\ InRange(d) /\ DirsSound(d, D)
      BY <1>1 DEF SameDirs
<1>3. RootCluster \in Starts(d, D)
      BY <1>2 DEF DirsSound, TableSound
<1>4. list_dir_path(d, <<>>) = list_dir_cluster(d, RootCluster)
      BY DEF list_dir_path, DirCluster, Try, Ok
<1> QED BY <1>2, <1>3, <1>4, StartsList DEF run_ls
-----------------------------------------------------------------------------
(* The inductive invariant.  Every copy of the volume has the directories  *)
(* of an image; the current directory is a path that the shell's buffer    *)
(* lists, and the root before the shell is started.                        *)
Copies  == {image, data, cli_data} \ {None}
ShellOff == "shell" \in Programs => at["shell"] = "off"
ShellInv ==
    /\ \A d \in Copies : Kept(d)
    /\ DOMAIN at = Programs /\ (ShellOff => current_dir = <<>>)
    /\ current_dir \in Seq(Parts)
    /\ data # None => run_ls(data, current_dir).ok

LEMMA ShellInit == Init => ShellInv
<1> SUFFICES ASSUME Init PROVE ShellInv
    OBVIOUS
<1>1. image \in Images /\ data = None /\ cli_data = None /\ current_dir = <<>>
      BY DEF Init
<1>2. \A d \in Copies : Kept(d)
      BY <1>1, ImageKept DEF Copies
<1>3. DOMAIN at = Programs
      BY DEF Init
<1>4. <<>> \in Seq(Parts)
      OBVIOUS
<1> QED BY <1>1, <1>2, <1>3, <1>4 DEF ShellInv

LEMMA LoadedKept ==
    ASSUME ShellInv, Loaded # None
    PROVE  Kept(Loaded)
    BY DEF ShellInv, Loaded, Copies

(* A program that goes on is not off.                                      *)
LEMMA StillOff ==
    ASSUME DOMAIN at = Programs, NEW x \in Programs, NEW l, l # "off", Goto(x, l)
    PROVE  DOMAIN at' = Programs /\ (ShellOff' => ShellOff)
<1>1. at' = [at EXCEPT ![x] = l]
      BY DEF Goto
<1>2. DOMAIN at' = Programs /\ at'[x] = l
      BY <1>1
<1>3. ASSUME "shell" \in Programs, x # "shell" PROVE at'["shell"] = at["shell"]
      BY <1>1, <1>3
<1> QED BY <1>2, <1>3 DEF ShellOff

(* The steps that write to no buffer: they leave the copies there are, or  *)
(* fewer, and start no shell.                                              *)
LEMMA EndKeeps ==
    ASSUME ShellInv, NEW x \in Programs, End(x), image' \in {image, data, cli_data}
    PROVE  ShellInv'
<1>1. DOMAIN at = Programs /\ at' = [at EXCEPT ![x] = "off"]
      BY DEF ShellInv, End, Goto
<1>2. CASE x = "shell"
  <2>1. data' = None /\ current_dir' = <<>> /\ cli_data' = cli_data
        BY <1>2 DEF End
  <2>2. \A d \in Copies' : Kept(d)
        BY <2>1 DEF ShellInv, Copies
  <2>3. <<>> \in Seq(Parts) /\ DOMAIN at' = Programs
        BY <1>1
  <2> QED BY <2>1, <2>2, <2>3 DEF ShellInv
<1>3. CASE x # "shell"
  <2>1. cli_data' = None /\ data' = data /\ current_dir' = current_dir
        BY <1>3 DEF End
  <2>2. \A d \in Copies' : Kept(d)
        BY <2>1 DEF ShellInv, Copies
  <2>3. DOMAIN at' = Programs /\ (ShellOff' => ShellOff)
        BY <1>1, <1>3 DEF ShellOff
  <2> QED BY <2>1, <2>2, <2>3 DEF ShellInv
<1> QED BY <1>2, <1>3

LEMMA GoesOn ==
    ASSUME ShellInv, NEW x \in Programs, NEW l, l # "off", Goto(x, l),
           UNCHANGED <<buffers, current_dir>>, image' \in {image, data, cli_data}
    PROVE  ShellInv'
<1>1. data' = data /\ cli_data' = cli_data /\ current_dir' = current_dir
      BY DEF buffers
<1>2. \A d \in Copies' : Kept(d)
      BY <1>1 DEF ShellInv, Copies
<1>3. DOMAIN at' = Programs /\ (ShellOff' => ShellOff)
      BY StillOff DEF ShellInv
<1> QED BY <1>1, <1>2, <1>3 DEF ShellInv

LEMMA BackKeeps ==
    ASSUME ShellInv, NEW x \in Programs, NEW j, Back(x, j), image' \in {image, data, cli_data}
    PROVE  ShellInv'
<1>1. CASE x = "shell"
      BY <1>1, GoesOn DEF Back
<1>2. CASE x # "shell"
      BY <1>2, EndKeeps DEF Back
<1> QED BY <1>1, <1>2

(* The steps that load the file.                                           *)
LEMMA RunShellKeeps ==
    ASSUME ShellInv, run_shell
    PROVE  ShellInv'
<1>1. /\ "shell" \in Programs /\ ~ Running("shell") /\ data' = Loaded /\ Goto("shell", "prompt")
      /\ image' = image /\ cli_data' = cli_data /\ current_dir' = current_dir
      BY DEF run_shell
<1>2. \A d \in Copies' : Kept(d)
      BY <1>1, LoadedKept DEF ShellInv, Copies
<1>3. DOMAIN at' = Programs /\ (ShellOff' => ShellOff)
      BY <1>1, StillOff DEF ShellInv
<1>4. current_dir = <<>>
      BY <1>1 DEF ShellInv, ShellOff, Running
<1>5. data' # None => run_ls(data', current_dir').ok
      BY <1>1, <1>4, LoadedKept, RootLists
<1> QED BY <1>1, <1>2, <1>3, <1>5 DEF ShellInv

LEMMA MainPutKeeps ==
    ASSUME ShellInv, main_put
    PROVE  ShellInv'
<1>1. /\ "cli" \in Programs /\ cli_data' = Loaded /\ Goto("cli", "write")
      /\ image' = image /\ data' = data /\ current_dir' = current_dir
      BY DEF main_put
<1>2. \A d \in Copies' : Kept(d)
      BY <1>1, LoadedKept DEF ShellInv, Copies
<1>3. DOMAIN at' = Programs /\ (ShellOff' => ShellOff)
      BY <1>1, StillOff DEF ShellInv
<1> QED BY <1>1, <1>2, <1>3 DEF ShellInv

(* The steps that write to a buffer.                                       *)
LEMMA CliWriteKeeps ==
    ASSUME ShellInv, NEW path \in Paths, NEW content \in Contents, cli_write(path, content)
    PROVE  ShellInv'
<1>1. /\ "cli" \in Programs /\ cli_data # None
      /\ write_file_by_path(cli_data, cli_data', cli_said', path, content)
      /\ Goto("cli", "save")
      /\ image' = image /\ data' = data /\ current_dir' = current_dir
      BY DEF cli_write
<1>2. PICK i \in Images, D \in SUBSET Clusters : SameDirs(i, cli_data, D)
      BY <1>1 DEF ShellInv, Copies, Kept
<1>3. SameDirs(i, cli_data', D)
      BY <1>1, <1>2, PathsAssumption, WriteKept
<1>4. Kept(cli_data')
      BY <1>2, <1>3 DEF Kept
<1>5. \A d \in Copies' : Kept(d)
      BY <1>1, <1>4 DEF ShellInv, Copies
<1>6. DOMAIN at' = Programs /\ (ShellOff' => ShellOff)
      BY <1>1, StillOff DEF ShellInv
<1> QED BY <1>1, <1>5, <1>6 DEF ShellInv

LEMMA PutKeeps ==
    ASSUME ShellInv, NEW path \in Seq(Parts), NEW content \in Contents, put(path, content)
    PROVE  ShellInv'
<1>1. /\ "shell" \in Programs /\ at["shell"] = "prompt" /\ data # None
      /\ write_file_by_path(data, data', said', path, content)
      /\ AfterPut(path, content)
      /\ image' = image /\ cli_data' = cli_data /\ current_dir' = current_dir
      BY DEF put
<1>2. PICK i \in Images, D \in SUBSET Clusters : SameDirs(i, data, D)
      BY <1>1 DEF ShellInv, Copies, Kept
<1>3. SameDirs(i, data', D) /\ DirsKept(data, data', D)
      BY <1>1, <1>2, SeqOfItself, WriteKept
<1>4. Kept(data')
      BY <1>2, <1>3 DEF Kept
<1>5. \A d \in Copies' : Kept(d)
      BY <1>1, <1>4 DEF ShellInv, Copies
<1>6. DOMAIN at' = Programs /\ (ShellOff' => ShellOff)
  <2>1. CASE Goto("shell", "save")
        BY <1>1, <2>1, StillOff DEF ShellInv
  <2>2. CASE at' = at
        BY <2>2 DEF ShellInv, ShellOff
  <2> QED BY <1>1, <2>1, <2>2 DEF AfterPut
<1>7. run_ls(data', current_dir').ok
  <2>1. Len(current_dir) \in Nat /\ run_ls(data, current_dir).ok
        BY <1>1 DEF ShellInv
  <2> QED BY <1>1, <1>2, <1>3, <2>1, StillLists
<1> QED BY <1>1, <1>5, <1>6, <1>7 DEF ShellInv

LEMMA CdKeeps ==
    ASSUME ShellInv, NEW path \in Seq(Parts), cd(path)
    PROVE  ShellInv'
<1>1. /\ "shell" \in Programs /\ at["shell"] = "prompt" /\ data # None
      /\ Enters(data, path) /\ current_dir' = path
      /\ image' = image /\ data' = data /\ cli_data' = cli_data /\ at' = at
      BY DEF cd, buffers
<1>2. PICK i \in Images, D \in SUBSET Clusters : SameDirs(i, data, D)
      BY <1>1 DEF ShellInv, Copies, Kept
<1>3. run_ls(data, path).ok
      BY <1>1, <1>2, EnteredLists
<1>4. ~ ShellOff'
      BY <1>1 DEF ShellOff
<1>5. \A d \in Copies' : Kept(d)
      BY <1>1 DEF ShellInv, Copies
<1> QED BY <1>1, <1>3, <1>4, <1>5 DEF ShellInv

LEMMA TargetsArePaths ==
    ASSUME ShellInv, NEW path \in Targets
    PROVE  path \in Seq(Parts)
    BY ResolvedIsPath DEF ShellInv, Targets

LEMMA ShellStep == ShellInv /\ [Next]_vars => ShellInv'
<1> SUFFICES ASSUME ShellInv, [Next]_vars PROVE ShellInv'
    OBVIOUS
<1>1. ASSUME NEW path \in Targets, NEW content \in Contents, put(path, content)
      PROVE  ShellInv'
      BY <1>1, TargetsArePaths, PutKeeps
<1>2. ASSUME NEW path \in Paths, NEW content \in Contents, cli_write(path, content)
      PROVE  ShellInv'
      BY <1>2, CliWriteKeeps
<1>3. CASE run_shell
      BY <1>3, RunShellKeeps
<1>4. CASE main_put
      BY <1>4, MainPutKeeps
<1>5. ASSUME NEW path \in Targets, cd(path) PROVE ShellInv'
      BY <1>5, TargetsArePaths, CdKeeps
<1>6. ASSUME NEW x \in Programs, Truncate(x) PROVE ShellInv'
      BY <1>6, GoesOn DEF Truncate
<1>7. ASSUME NEW x \in Programs, WriteAll(x) PROVE ShellInv'
      BY <1>7, BackKeeps DEF WriteAll, Buffer
<1>8. ASSUME NEW x \in Programs, OpenFails(x) PROVE ShellInv'
      BY <1>8, BackKeeps DEF OpenFails
<1>9. ASSUME NEW x \in Programs, WriteFails(x) PROVE ShellInv'
      BY <1>9, BackKeeps DEF WriteFails
<1>10. ASSUME NEW x \in Programs, Crash(x) PROVE ShellInv'
       BY <1>10, EndKeeps DEF Crash
<1>11. CASE UNCHANGED vars
  <2>1. /\ image' = image /\ data' = data /\ cli_data' = cli_data
        /\ at' = at /\ current_dir' = current_dir
        BY <1>11 DEF vars, buffers
  <2> QED BY <2>1 DEF ShellInv, Copies, ShellOff
<1> QED BY <1>1, <1>2, <1>3, <1>4, <1>5, <1>6, <1>7, <1>8, <1>9, <1>10, <1>11 DEF Next

(* current_dir is tested once, when cd enters it (main.rs:344), and used   *)
(* by every later command: whatever is put in between, and whichever way   *)
(* the puts end, it is still a directory that ls lists.                    *)
THEOREM CurrentDirIsListed == Spec => []CurrentDirStays
<1>1. ShellInv => CurrentDirStays
      BY DEF ShellInv, CurrentDirStays
<1> QED BY <1>1, ShellInit, ShellStep, PTL DEF Spec

(* A volume with the directories of an image has its paths of directories, *)
(* with the same clusters, and lists no name twice.                        *)
LEMMA KeptTree ==
    ASSUME NEW d, NEW i, NEW D, SameDirs(i, d, D)
    PROVE  NamesOnce(d) /\ Tree(d) = Tree(i)
<1>1. /\ IsVolume(d) /\ InRange(d) /\ DirsSound(d, D)
      /\ IsVolume(i) /\ InRange(i) /\ DirsSound(i, D) /\ DirsKept(i, d, D)
      BY DEF SameDirs
<1>2. \A p \in Dirs : Len(p) \in Nat
      BY PathsAssumption, ParentLength DEF Dirs
<1>3. \A p \in Dirs : SameDir(i, d, p)
      BY <1>1, <1>2, KeptDirChain
<1>4. Tree(d) = Tree(i)
      BY <1>3 DEF Tree, SameDir
<1>5. ASSUME NEW p \in Dirs, list_dir_path(d, p).ok,
             NEW m \in DOMAIN list_dir_path(d, p).val,
             NEW n \in DOMAIN list_dir_path(d, p).val,
             list_dir_path(d, p).val[m].name = list_dir_path(d, p).val[n].name
      PROVE  m = n
  <2>1. Lists(d, Chain(d, DirCluster(d, p).val), list_dir_path(d, p).val)
        BY <1>1, <1>2, <1>5, PathLists
  <2> QED BY <1>5, <2>1 DEF Lists
<1>6. NamesOnce(d)
      BY <1>5 DEF NamesOnce
<1> QED BY <1>4, <1>6

(* Whatever fails, is saved half done (fs::write, main.rs:389) or is       *)
(* overwritten by an old buffer, and wherever a program crashes: in the    *)
(* file and in every buffer no directory is moved, cut or hidden, and none *)
(* lists a name twice.                                                     *)
THEOREM TreeIsKept == Spec => []TreeKept
<1>1. ShellInv => TreeKept
  <2> SUFFICES ASSUME ShellInv, NEW d \in Copies
               PROVE  NamesOnce(d) /\ \E i \in Images : Tree(d) = Tree(i)
      BY DEF TreeKept, Copies
  <2>1. PICK i \in Images, D \in SUBSET Clusters : SameDirs(i, d, D)
        BY DEF ShellInv, Kept
  <2> QED BY <2>1, KeptTree
<1> QED BY <1>1, ShellInit, ShellStep, PTL DEF Spec
-----------------------------------------------------------------------------
(* Puts.  What a program has put and not saved, and where it is when it    *)
(* has; every step moves one program at most.                              *)
Known  == Paths \cup Seq(Parts)
Puts   == Known \X {Ok(content) : content \in Contents}
Saving == {"save", "saving"}
Jobs ==
    /\ at \in [Programs -> {"off", "prompt", "write"} \cup Saving]
    /\ job \in [Programs -> Seq(Puts)]
    /\ \A x \in Programs : at[x] \in Saving => job[x] # <<>>

Turn(x, l, j) ==
    /\ at' = [at EXCEPT ![x] = l] /\ job' = [job EXCEPT ![x] = j]
    /\ \A y \in Programs \ {x} : Buffer(y)' = Buffer(y)
Rests ==
    /\ at' = at /\ job' = job
    /\ \A y \in Programs : at[y] \in Saving => Buffer(y)' = Buffer(y)
Leaves(x) == \E l \in {"off", "prompt", "write"}, j \in Seq(Puts) : Turn(x, l, j)
Begins(x) == at[x] = "save" /\ Turn(x, "saving", job[x]) /\ Buffer(x)' = Buffer(x)
Notes(x)  == \E path \in Known, content \in Contents :
    /\ Buffer(x) # None /\ Buffer(x) \in Copies
    /\ write_file_by_path(Buffer(x), Buffer(x)', "Ok", path, content)
    /\ Turn(x, "save", Append(job[x], <<path, Ok(content)>>))

LEMMA BackMoves ==
    ASSUME Jobs, NEW x \in Programs, NEW j \in Seq(Puts), Back(x, j)
    PROVE  Leaves(x)
<1>1. \A y \in Programs : y = "shell" \/ y = "cli"
      BY ProgramsAssumption
<1>2. <<>> \in Seq(Puts)
      OBVIOUS
<1>3. CASE x = "shell"
  <2>1. Goto(x, "prompt") /\ job' = [job EXCEPT ![x] = j] /\ cli_data' = cli_data
        BY <1>3 DEF Back, buffers
  <2>2. Turn(x, "prompt", j)
        BY <1>3, <2>1 DEF Turn, Goto, Buffer
  <2> QED BY <2>2 DEF Leaves
<1>4. CASE x # "shell"
  <2>1. /\ Goto(x, "off") /\ job' = [job EXCEPT ![x] = <<>>] /\ data' = data
        BY <1>4 DEF Back, End
  <2>2. Turn(x, "off", <<>>)
        BY <1>1, <1>4, <2>1 DEF Turn, Goto, Buffer
  <2> QED BY <1>2, <2>2 DEF Leaves
<1> QED BY <1>3, <1>4

LEMMA EndMoves ==
    ASSUME Jobs, NEW x \in Programs, End(x)
    PROVE  Leaves(x)
<1>1. \A y \in Programs : y = "shell" \/ y = "cli"
      BY ProgramsAssumption
<1>2. <<>> \in Seq(Puts)
      OBVIOUS
<1>3. Goto(x, "off") /\ job' = [job EXCEPT ![x] = <<>>]
      BY DEF End
<1>4. x = "shell" => cli_data' = cli_data
      BY DEF End
<1>5. x # "shell" => data' = data
      BY DEF End
<1>6. Turn(x, "off", <<>>)
      BY <1>1, <1>3, <1>4, <1>5 DEF Turn, Goto, Buffer
<1> QED BY <1>2, <1>6 DEF Leaves

LEMMA JobStays ==
    ASSUME Jobs, NEW x \in Programs
    PROVE  job[x] \in Seq(Puts) /\ job = [job EXCEPT ![x] = job[x]]
    BY DEF Jobs

LEMMA StepMoves ==
    ASSUME Jobs, ShellInv, [Next]_vars
    PROVE  Rests \/ \E x \in Programs : Leaves(x) \/ Begins(x) \/ Notes(x)
<1>1. ASSUME NEW path \in Targets, NEW content \in Contents, put(path, content)
      PROVE  Rests \/ \E x \in Programs : Notes(x)
  <2>1. /\ "shell" \in Programs /\ at["shell"] = "prompt" /\ data # None
        /\ write_file_by_path(data, data', said', path, content)
        /\ AfterPut(path, content) /\ cli_data' = cli_data
        BY <1>1 DEF put
  <2>2. path \in Known
        BY TargetsArePaths DEF Known
  <2>3. CASE said' = "Ok"
    <3>1. Turn("shell", "save", Append(job["shell"], <<path, Ok(content)>>))
          BY <2>1, <2>3 DEF AfterPut, Goto, Note, Turn, Buffer
    <3>2. data \in Copies
          BY <2>1 DEF Copies
    <3>3. Notes("shell")
          BY <2>1, <2>2, <2>3, <3>1, <3>2 DEF Notes, Buffer
    <3> QED BY <2>1, <3>3
  <2>4. CASE said' # "Ok"
    <3>1. at' = at /\ job' = job
          BY <2>1, <2>4 DEF AfterPut
    <3>2. \A y \in Programs : at[y] \in Saving => Buffer(y)' = Buffer(y)
          BY <2>1 DEF Saving, Buffer
    <3> QED BY <3>1, <3>2 DEF Rests
  <2> QED BY <2>3, <2>4
<1>2. ASSUME NEW path \in Paths, NEW content \in Contents, cli_write(path, content)
      PROVE  \E x \in Programs : Notes(x)
  <2>1. /\ "cli" \in Programs /\ cli_data # None
        /\ write_file_by_path(cli_data, cli_data', "Ok", path, content)
        /\ Goto("cli", "save") /\ Note("cli", path, content) /\ data' = data
        BY <1>2 DEF cli_write
  <2>2. Turn("cli", "save", Append(job["cli"], <<path, Ok(content)>>))
        BY <2>1, ProgramsAssumption DEF Goto, Note, Turn, Buffer
  <2>3. cli_data \in Copies /\ path \in Known
        BY <2>1 DEF Copies, Known
  <2>4. Notes("cli")
        BY <2>1, <2>2, <2>3 DEF Notes, Buffer
  <2> QED BY <2>1, <2>4
<1>3. CASE run_shell
  <2>1. /\ "shell" \in Programs /\ Goto("shell", "prompt") /\ job' = job /\ cli_data' = cli_data
        BY <1>3 DEF run_shell
  <2>2. Turn("shell", "prompt", job["shell"]) /\ job["shell"] \in Seq(Puts)
        BY <2>1, JobStays DEF Goto, Turn, Buffer
  <2> QED BY <2>1, <2>2 DEF Leaves
<1>4. CASE main_put
  <2>1. /\ "cli" \in Programs /\ Goto("cli", "write") /\ job' = job /\ data' = data
        BY <1>4 DEF main_put
  <2>2. Turn("cli", "write", job["cli"]) /\ job["cli"] \in Seq(Puts)
        BY <2>1, JobStays, ProgramsAssumption DEF Goto, Turn, Buffer
  <2> QED BY <2>1, <2>2 DEF Leaves
<1>5. ASSUME NEW path \in Targets, cd(path) PROVE Rests
      BY <1>5 DEF cd, buffers, Rests, Buffer
<1>6. ASSUME NEW x \in Programs, Truncate(x) PROVE Begins(x)
  <2>1. at[x] = "save" /\ Goto(x, "saving") /\ job' = job /\ data' = data /\ cli_data' = cli_data
        BY <1>6 DEF Truncate, buffers
  <2> QED BY <2>1, JobStays DEF Begins, Turn, Goto, Buffer
<1>7. ASSUME NEW x \in Programs, WriteAll(x) PROVE Leaves(x)
  <2>1. Back(x, <<>>) /\ <<>> \in Seq(Puts)
        BY <1>7 DEF WriteAll
  <2> QED BY <2>1, BackMoves
<1>8. ASSUME NEW x \in Programs, OpenFails(x) PROVE Leaves(x)
      BY <1>8, JobStays, BackMoves DEF OpenFails
<1>9. ASSUME NEW x \in Programs, WriteFails(x) PROVE Leaves(x)
      BY <1>9, JobStays, BackMoves DEF WriteFails
<1>10. ASSUME NEW x \in Programs, Crash(x) PROVE Leaves(x)
       BY <1>10, EndMoves DEF Crash
<1>11. CASE UNCHANGED vars
       BY <1>11 DEF vars, buffers, Rests, Buffer
<1> QED BY <1>1, <1>2, <1>3, <1>4, <1>5, <1>6, <1>7, <1>8, <1>9, <1>10, <1>11 DEF Next

LEMMA Turned ==
    ASSUME Jobs, NEW x \in Programs, NEW l, NEW j, Turn(x, l, j)
    PROVE  /\ at'[x] = l /\ job'[x] = j
           /\ \A y \in Programs \ {x} :
                 at'[y] = at[y] /\ job'[y] = job[y] /\ Buffer(y)' = Buffer(y)
    BY DEF Jobs, Turn

LEMMA JobsAfter ==
    ASSUME Jobs, NEW x \in Programs,
           NEW l \in {"off", "prompt", "write"} \cup Saving, NEW j \in Seq(Puts),
           l \in Saving => j # <<>>, Turn(x, l, j)
    PROVE  Jobs'
<1>1. /\ at' \in [Programs -> {"off", "prompt", "write"} \cup Saving]
      /\ job' \in [Programs -> Seq(Puts)]
      BY DEF Jobs, Turn
<1>2. \A y \in Programs : at'[y] \in Saving => job'[y] # <<>>
      BY Turned DEF Jobs
<1> QED BY <1>1, <1>2 DEF Jobs

LEMMA Appended ==
    ASSUME NEW S, NEW s \in Seq(S), NEW v \in S
    PROVE  /\ Append(s, v) \in Seq(S) /\ Append(s, v) # <<>> /\ Last(Append(s, v)) = v
           /\ ToSet(Append(s, v)) = ToSet(s) \cup {v}
<1>1. PICK t : t = Append(s, v)
      OBVIOUS
<1>2. /\ t \in Seq(S) /\ Len(t) = Len(s) + 1 /\ Len(s) \in Nat
      /\ DOMAIN t = 1 .. Len(s) + 1 /\ DOMAIN s = 1 .. Len(s)
      /\ t[Len(s) + 1] = v /\ \A k \in 1 .. Len(s) : t[k] = s[k]
      BY <1>1
<1>3. t # <<>>
      BY <1>2
<1>4. Last(t) = v
      BY <1>2 DEF Last
<1>5. ToSet(t) = ToSet(s) \cup {v}
  <2>1. \A k \in DOMAIN t : k \in DOMAIN s \/ k = Len(s) + 1
        BY <1>2
  <2>2. DOMAIN s \subseteq DOMAIN t /\ Len(s) + 1 \in DOMAIN t
        BY <1>2
  <2> QED BY <1>2, <2>1, <2>2 DEF ToSet
<1> QED BY <1>1, <1>2, <1>3, <1>4, <1>5

LEMMA PutIsPut ==
    ASSUME NEW path \in Known, NEW content \in Contents
    PROVE  <<path, Ok(content)>> \in Puts
    BY DEF Puts

LEMMA JobsStep ==
    ASSUME Jobs, ShellInv, [Next]_vars
    PROVE  Jobs'
<1>1. CASE Rests
      BY <1>1 DEF Rests, Jobs
<1>2. ASSUME NEW x \in Programs, Leaves(x) PROVE Jobs'
  <2>1. PICK l \in {"off", "prompt", "write"}, j \in Seq(Puts) : Turn(x, l, j)
        BY <1>2 DEF Leaves
  <2> QED BY <2>1, JobsAfter DEF Saving
<1>3. ASSUME NEW x \in Programs, Begins(x) PROVE Jobs'
  <2>1. at[x] = "save" /\ Turn(x, "saving", job[x]) /\ job[x] \in Seq(Puts) /\ job[x] # <<>>
        BY <1>3, JobStays DEF Begins, Jobs, Saving
  <2> QED BY <2>1, JobsAfter DEF Saving
<1>4. ASSUME NEW x \in Programs, Notes(x) PROVE Jobs'
  <2>1. PICK path \in Known, content \in Contents :
            Turn(x, "save", Append(job[x], <<path, Ok(content)>>))
        BY <1>4 DEF Notes
  <2>2. job[x] \in Seq(Puts) /\ <<path, Ok(content)>> \in Puts
        BY JobStays, PutIsPut
  <2>3. /\ Append(job[x], <<path, Ok(content)>>) \in Seq(Puts)
        /\ Append(job[x], <<path, Ok(content)>>) # <<>>
        BY <2>2, Appended
  <2> QED BY <2>1, <2>3, JobsAfter DEF Saving
<1> QED BY <1>1, <1>2, <1>3, <1>4, StepMoves
-----------------------------------------------------------------------------
JobsInv == ShellInv /\ Jobs

LEMMA JobsInvInit == Init => JobsInv
<1> SUFFICES ASSUME Init PROVE JobsInv
    OBVIOUS
<1>1. at = [x \in Programs |-> "off"] /\ job = [x \in Programs |-> <<>>]
      BY DEF Init
<1>2. <<>> \in Seq(Puts)
      OBVIOUS
<1>3. Jobs
      BY <1>1, <1>2 DEF Jobs, Saving
<1> QED BY <1>3, ShellInit DEF JobsInv

LEMMA JobsInvStep == JobsInv /\ [Next]_vars => JobsInv'
    BY ShellStep, JobsStep DEF JobsInv

(* A write that returns Ok to a copy of the volume.                        *)
LEMMA CopyWritten ==
    ASSUME NEW d, Kept(d), NEW path \in Known, NEW content \in Contents, NEW e,
           write_file_by_path(d, e, "Ok", path, content)
    PROVE  /\ IsVolume(e)
           /\ Fits(content) => read_file_by_path(e, path) = Ok(content)
<1>1. PICK i \in Images, D \in SUBSET Clusters : SameDirs(i, d, D)
      BY DEF Kept
<1>2. IsVolume(d) /\ InRange(d) /\ DirsSound(d, D)
      BY <1>1 DEF SameDirs
<1>3. IsSequence(path) /\ IsSequence(content) /\ Plain(content)
      BY PathsAssumption, ContentsAssumption, SeqOfItself DEF Known
<1>4. /\ IsVolume(e) /\ InRange(e) /\ DirsSound(e, D) /\ DirsKept(d, e, D)
      /\ Fits(content) => PathHolds(d, e, path, content)
      BY <1>2, <1>3, WriteKeeps
<1>5. ASSUME Fits(content) PROVE read_file_by_path(e, path) = Ok(content)
  <2>1. PathHolds(d, e, path, content)
        BY <1>4, <1>5
  <2>2. path # <<>>
        BY <2>1 DEF PathHolds
  <2>3. FileName(path) \in Names
    <3>1. CASE path \in Paths
          BY <2>2, <3>1 DEF Names
    <3>2. CASE path \in Seq(Parts)
      <4>1. path[Len(path)] \in Parts
            BY <2>2, <3>2
      <4> QED BY <4>1 DEF Parts, Names, FileName
    <3> QED BY <3>1, <3>2 DEF Known
  <2>4. Len(content) \in 0 .. SizeMod - 1
        BY <1>3, <1>5, FatAssumption DEF Fits, IsSequence
  <2>5. /\ None # RootEntry
        /\ \A first \in 0 .. MaxCluster :
               None # Entry(FileName(path), "file", first, Len(content))
        BY <2>3, <2>4, NoneAssumption
  <2> QED BY <1>2, <1>3, <1>4, <2>1, <2>5, ReadsOwn
<1> QED BY <1>4, <1>5
-----------------------------------------------------------------------------
(* Types.  None is not a volume: a buffer that is written to is one.       *)
TypeInv ==
    /\ JobsInv /\ image # None /\ cut \in Programs \cup {None}
    /\ stale \subseteq Programs /\ torn \in BOOLEAN /\ suspect \in BOOLEAN
    /\ \A x \in Programs : at[x] \in Saving => Buffer(x) # None

LEMMA TypeInvInit ==
    ASSUME None \notin Images
    PROVE  Init => TypeInv
<1> SUFFICES ASSUME Init PROVE TypeInv
    OBVIOUS
<1>1. JobsInv
      BY JobsInvInit
<1>2. \A x \in Programs : at[x] \notin Saving
      BY DEF Init, Saving
<1> QED BY <1>1, <1>2 DEF Init, TypeInv

LEMMA BuffersStep ==
    ASSUME ~ IsVolume(None), TypeInv, [Next]_vars
    PROVE  \A x \in Programs : at'[x] \in Saving => Buffer(x)' # None
<1>0. Jobs /\ ShellInv
      BY DEF TypeInv, JobsInv
<1>1. CASE Rests
      BY <1>1 DEF Rests, TypeInv
<1>2. ASSUME NEW x \in Programs, NEW l, NEW j, Turn(x, l, j),
             l \in Saving => Buffer(x)' # None
      PROVE  \A y \in Programs : at'[y] \in Saving => Buffer(y)' # None
  <2>1. /\ at'[x] = l
        /\ \A y \in Programs \ {x} : at'[y] = at[y] /\ Buffer(y)' = Buffer(y)
        BY <1>0, <1>2, Turned
  <2> QED BY <1>2, <2>1 DEF TypeInv
<1>3. ASSUME NEW x \in Programs, Leaves(x)
      PROVE  \A y \in Programs : at'[y] \in Saving => Buffer(y)' # None
      BY <1>2, <1>3 DEF Leaves, Saving
<1>4. ASSUME NEW x \in Programs, Begins(x)
      PROVE  \A y \in Programs : at'[y] \in Saving => Buffer(y)' # None
      BY <1>2, <1>4 DEF Begins, Saving, TypeInv
<1>5. ASSUME NEW x \in Programs, Notes(x)
      PROVE  \A y \in Programs : at'[y] \in Saving => Buffer(y)' # None
  <2>1. PICK path \in Known, content \in Contents :
            /\ Buffer(x) \in Copies
            /\ write_file_by_path(Buffer(x), Buffer(x)', "Ok", path, content)
            /\ Turn(x, "save", Append(job[x], <<path, Ok(content)>>))
        BY <1>5 DEF Notes
  <2>2. Kept(Buffer(x))
        BY <1>0, <2>1 DEF ShellInv
  <2>3. IsVolume(Buffer(x)')
        BY <2>1, <2>2, CopyWritten
  <2> QED BY <1>2, <2>1, <2>3
<1> QED BY <1>0, <1>1, <1>3, <1>4, <1>5, StepMoves

LEMMA TypeInvStep ==
    ASSUME ~ IsVolume(None), None \notin Images
    PROVE  TypeInv /\ [Next]_vars => TypeInv'
<1> SUFFICES ASSUME TypeInv, [Next]_vars PROVE TypeInv'
    OBVIOUS
<1>1. JobsInv' /\ \A x \in Programs : at'[x] \in Saving => Buffer(x)' # None
      BY JobsInvStep, BuffersStep DEF TypeInv
<1>2. image' # None /\ cut' \in Programs \cup {None} /\ stale' \subseteq Programs
  <2>1. ASSUME NEW x \in Programs, WriteAll(x) PROVE image' # None
    <3>1. at[x] \in Saving /\ image' = Buffer(x)
          BY <2>1 DEF WriteAll, Saving
    <3> QED BY <3>1 DEF TypeInv
  <2>2. \/ image' = image
        \/ \E x \in Programs : WriteAll(x)
        BY DEF Next, put, cli_write, run_shell, main_put, cd, Truncate, OpenFails, WriteFails,
               Crash, vars
  <2>3. cut' \in {cut, None} \cup Programs
        BY DEF Next, put, cli_write, run_shell, main_put, cd, Truncate, WriteAll, OpenFails,
               WriteFails, Crash, vars
  <2>4. stale' \subseteq stale \cup Programs
        BY DEF Next, put, cli_write, run_shell, main_put, cd, Truncate, WriteAll, OpenFails,
               WriteFails, Crash, vars, history
  <2> QED BY <2>1, <2>2, <2>3, <2>4 DEF TypeInv
<1>3. torn' \in BOOLEAN /\ suspect' \in BOOLEAN
  <2>1. torn' = torn \/ torn' \in BOOLEAN
        BY DEF Next, put, cli_write, run_shell, main_put, cd, Truncate, WriteAll, OpenFails,
               WriteFails, Crash, vars, history, Back, End
  <2>2. suspect' = suspect \/ suspect' \in BOOLEAN
        BY DEF Next, put, cli_write, run_shell, main_put, cd, Truncate, WriteAll, OpenFails,
               WriteFails, Crash, vars, history
  <2> QED BY <2>1, <2>2 DEF TypeInv
<1> QED BY <1>1, <1>2, <1>3 DEF TypeInv

(* Each program is in one of its places and saves only what it has put, a  *)
(* file that is left empty has a program to blame (main.rs: run_shell,     *)
(* main for --put and fs::write).                                          *)
THEOREM ShellTyped ==
    ASSUME ~ IsVolume(None), None \notin Images
    PROVE  Spec => []TypeOK
<1>1. TypeInv => TypeOK
      BY DEF TypeInv, TypeOK, JobsInv, Jobs, Saving
<1> QED BY <1>1, TypeInvInit, TypeInvStep, PTL DEF Spec
-----------------------------------------------------------------------------
(* Saves.  Where a program saves, its buffer holds its last put.           *)
ContentsFit == \A content \in Contents : Fits(content)
ReadsLast(x) == read_file_by_path(Buffer(x), Last(job[x])[1]) = Last(job[x])[2]
SaveInv == JobsInv /\ \A x \in Programs : at[x] \in Saving => ReadsLast(x)

LEMMA SaveInvInit == Init => SaveInv
<1> SUFFICES ASSUME Init PROVE SaveInv
    OBVIOUS
<1>1. \A x \in Programs : at[x] \notin Saving
      BY DEF Init, Saving
<1> QED BY <1>1, JobsInvInit DEF SaveInv

LEMMA SaveInvStep ==
    ASSUME ContentsFit
    PROVE  SaveInv /\ [Next]_vars => SaveInv'
<1> SUFFICES ASSUME SaveInv, [Next]_vars PROVE SaveInv'
    OBVIOUS
<1>1. Jobs /\ ShellInv /\ JobsInv'
      BY JobsInvStep DEF SaveInv, JobsInv
<1>2. CASE Rests
  <2>1. \A x \in Programs : at[x] \in Saving => ReadsLast(x)'
        BY <1>2 DEF Rests, SaveInv, ReadsLast
  <2>2. at' = at
        BY <1>2 DEF Rests
  <2> QED BY <1>1, <2>1, <2>2 DEF SaveInv
<1>3. ASSUME NEW x \in Programs, NEW l, NEW j, Turn(x, l, j),
             l \in Saving => read_file_by_path(Buffer(x)', Last(j)[1]) = Last(j)[2]
      PROVE  SaveInv'
  <2>1. /\ at'[x] = l /\ job'[x] = j
        /\ \A y \in Programs \ {x} :
              at'[y] = at[y] /\ job'[y] = job[y] /\ Buffer(y)' = Buffer(y)
        BY <1>1, <1>3, Turned
  <2>2. ASSUME NEW y \in Programs, at'[y] \in Saving PROVE ReadsLast(y)'
    <3>1. CASE y = x
      <4>1. ReadsLast(x)' <=> read_file_by_path(Buffer(x)', Last(job'[x])[1]) = Last(job'[x])[2]
            BY DEF ReadsLast
      <4>2. read_file_by_path(Buffer(x)', Last(j)[1]) = Last(j)[2]
            BY <1>3, <2>1, <2>2, <3>1
      <4> QED BY <2>1, <3>1, <4>1, <4>2
    <3>2. CASE y # x
      <4>1. at'[y] = at[y] /\ job'[y] = job[y] /\ Buffer(y)' = Buffer(y)
            BY <2>1, <3>2
      <4>2. ReadsLast(y)
            BY <2>2, <4>1 DEF SaveInv
      <4> QED BY <4>1, <4>2 DEF ReadsLast
    <3> QED BY <3>1, <3>2
  <2> QED BY <1>1, <2>2 DEF SaveInv
<1>4. ASSUME NEW x \in Programs, Leaves(x) PROVE SaveInv'
      BY <1>3, <1>4 DEF Leaves, Saving
<1>5. ASSUME NEW x \in Programs, Begins(x) PROVE SaveInv'
  <2>1. at[x] = "save" /\ Turn(x, "saving", job[x]) /\ Buffer(x)' = Buffer(x)
        BY <1>5 DEF Begins
  <2>2. ReadsLast(x)
        BY <2>1 DEF SaveInv, Saving
  <2>3. read_file_by_path(Buffer(x)', Last(job[x])[1]) = Last(job[x])[2]
        BY <2>1, <2>2 DEF ReadsLast
  <2> QED BY <1>3, <2>1, <2>3
<1>6. ASSUME NEW x \in Programs, Notes(x) PROVE SaveInv'
  <2>1. PICK path \in Known, content \in Contents :
            /\ Buffer(x) \in Copies
            /\ write_file_by_path(Buffer(x), Buffer(x)', "Ok", path, content)
            /\ Turn(x, "save", Append(job[x], <<path, Ok(content)>>))
        BY <1>6 DEF Notes
  <2>2. PICK j : j = Append(job[x], <<path, Ok(content)>>)
        OBVIOUS
  <2>3. Last(j) = <<path, Ok(content)>>
        BY <1>1, <2>2, JobStays, PutIsPut, Appended
  <2>4. Kept(Buffer(x)) /\ Fits(content)
        BY <1>1, <2>1 DEF ShellInv, ContentsFit
  <2>5. read_file_by_path(Buffer(x)', path) = Ok(content)
        BY <2>1, <2>4, CopyWritten
  <2>6. read_file_by_path(Buffer(x)', Last(j)[1]) = Last(j)[2]
        BY <2>3, <2>5
  <2> QED BY <1>3, <2>1, <2>2, <2>6
<1> QED BY <1>1, <1>2, <1>4, <1>5, <1>6, StepMoves

LEMMA OnlySavesChange ==
    ASSUME Jobs, [Next]_vars, image' # image, NEW x \in Programs,
           at[x] = "saving", at'[x] # "saving"
    PROVE  held' = Held(Buffer(x))
<1>1. PICK y \in Programs : WriteAll(y)
      BY DEF Next, put, cli_write, run_shell, main_put, cd, Truncate, OpenFails, WriteFails,
             Crash, vars
<1>2. held' = Held(Buffer(y)) /\ Back(y, <<>>)
      BY <1>1 DEF WriteAll
<1>3. Leaves(y)
  <2>1. <<>> \in Seq(Puts)
        OBVIOUS
  <2> QED BY <1>2, <2>1, BackMoves
<1>4. y = x
  <2>1. PICK l \in {"off", "prompt", "write"}, j \in Seq(Puts) : Turn(y, l, j)
        BY <1>3 DEF Leaves
  <2>2. \A z \in Programs \ {y} : at'[z] = at[z]
        BY <2>1, Turned
  <2> QED BY <2>2
<1> QED BY <1>2, <1>4

(* A save that is done (fs::write, main.rs:389 and the shell's put) leaves *)
(* the content that was put last under its path in the file, also when the *)
(* buffer has half-done writes in it or is older than the file.            *)
THEOREM SavesReadBack ==
    ASSUME ContentsFit
    PROVE  Spec => SavedReadsBack
<1> DEFINE Told == \A x \in Programs :
               at[x] = "saving" /\ at'[x] # "saving" /\ image' # image =>
                   \A p \in Paths : p = Last(job[x])[1] => held'[p] = Last(job[x])[2]
<1>1. SaveInv /\ [Next]_vars => [Told]_vars
  <2> SUFFICES ASSUME SaveInv, [Next]_vars, NEW x \in Programs, NEW p \in Paths,
                      at[x] = "saving", at'[x] # "saving", image' # image,
                      p = Last(job[x])[1]
               PROVE  held'[p] = Last(job[x])[2]
      OBVIOUS
  <2>1. held' = Held(Buffer(x)) /\ ReadsLast(x)
        BY OnlySavesChange DEF SaveInv, JobsInv, Saving
  <2> QED BY <2>1 DEF Held, run_cat, ReadsLast
<1>2. SavedReadsBack <=> [][Told]_vars
      BY DEF SavedReadsBack
<1> HIDE DEF Told
<1> QED BY <1>1, <1>2, SaveInvInit, SaveInvStep, PTL DEF Spec
-----------------------------------------------------------------------------
(* The store.  In the images every path looked at has a directory, which   *)
(* no other path reaches, and the chains of the files are apart.           *)
PathsFit(d) ==
    /\ \A q \in Paths : DirCluster(d, Parent(q)).ok
    /\ \A p \in Known, q \in Paths : OneDir(d, Parent(p), Parent(q))
IntactImages ==
    \A i \in Images : PathsFit(i) /\ \E D \in SUBSET Clusters :
        DirsSound(i, D) /\ Headed(i, D) /\ FilesSound(i, D)
Intact(d) == PathsFit(d) /\ \E i \in Images, D \in SUBSET Clusters :
    SameDirs(i, d, D) /\ FilesSound(d, D)

LEMMA KnownIs ==
    ASSUME NEW p \in Known
    PROVE  IsSequence(p) /\ Len(Parent(p)) \in Nat
<1>1. IsSequence(p)
      BY PathsAssumption, SeqOfItself DEF Known
<1> QED BY <1>1, ParentLength

LEMMA ImageIntact ==
    ASSUME IntactImages, NEW i \in Images
    PROVE  Intact(i)
<1>1. PICK D \in SUBSET Clusters : DirsSound(i, D) /\ Headed(i, D) /\ FilesSound(i, D)
      BY DEF IntactImages
<1>2. IsVolume(i) /\ InRange(i)
      BY ImagesAssumption
<1>3. DirsKept(i, i, D)
      BY DEF DirsKept
<1>4. PathsFit(i)
      BY DEF IntactImages
<1> QED BY <1>1, <1>2, <1>3, <1>4 DEF Intact, SameDirs

LEMMA PathsStillFit ==
    ASSUME NEW d, IsVolume(d), InRange(d), NEW e, IsVolume(e), InRange(e),
           NEW D, DirsSound(d, D), DirsSound(e, D), DirsKept(d, e, D), PathsFit(d)
    PROVE  PathsFit(e)
<1>1. ASSUME NEW q \in Paths PROVE DirCluster(e, Parent(q)).ok
  <2>1. Len(Parent(q)) \in Nat /\ DirCluster(d, Parent(q)).ok
        BY KnownIs DEF PathsFit, Known
  <2> QED BY <2>1, KeptDir
<1>2. ASSUME NEW p \in Known, NEW q \in Paths PROVE OneDir(e, Parent(p), Parent(q))
  <2>1. Len(Parent(p)) \in Nat /\ Len(Parent(q)) \in Nat /\ OneDir(d, Parent(p), Parent(q))
        BY KnownIs DEF PathsFit, Known
  <2> QED BY <2>1, OneDirKept
<1> QED BY <1>1, <1>2 DEF PathsFit

(* A write that tears no file, to a buffer: the other paths hold what they *)
(* held.                                                                   *)
LEMMA WriteIntact ==
    ASSUME NEW d, Intact(d), NEW path \in Known, NEW content \in Contents, Fits(content),
           NEW e, NEW r, write_file_by_path(d, e, r, path, content),
           ~ (r # "Ok" /\ Frees(d, e))
    PROVE  /\ Intact(e)
           /\ r = "Ok" => read_file_by_path(e, path) = Ok(content)
           /\ \A q \in Paths : \/ r = "Ok" /\ q = path
                               \/ read_file_by_path(e, q) = read_file_by_path(d, q)
<1>1. PICK i \in Images, D \in SUBSET Clusters : SameDirs(i, d, D) /\ FilesSound(d, D)
      BY DEF Intact
<1>2. IsSequence(path) /\ IsSequence(content) /\ Plain(content)
      BY KnownIs, ContentsAssumption
<1>3. /\ IsVolume(d) /\ InRange(d) /\ DirsSound(d, D)
      BY <1>1 DEF SameDirs
<1>4. /\ IsVolume(e) /\ InRange(e) /\ DirsSound(e, D) /\ DirsKept(d, e, D)
      /\ FilesSound(e, D) /\ PathsRead(d, e, r, D, path, content)
      BY <1>1, <1>2, <1>3, WriteKeeps
<1>5. Intact(e)
  <2>1. SameDirs(i, e, D)
        BY <1>1, <1>2, WriteKept
  <2>2. PathsFit(e)
        BY <1>3, <1>4, PathsStillFit DEF Intact
  <2> QED BY <1>4, <2>1, <2>2 DEF Intact
<1>6. ASSUME r = "Ok" PROVE read_file_by_path(e, path) = Ok(content)
  <2>1. Kept(d)
        BY <1>1 DEF Kept
  <2> QED BY <1>6, <2>1, CopyWritten
<1>7. ASSUME NEW q \in Paths, ~ (r = "Ok" /\ q = path)
      PROVE  read_file_by_path(e, q) = read_file_by_path(d, q)
  <2>1. IsSequence(q) /\ DirCluster(d, Parent(q)).ok /\ OneDir(d, Parent(path), Parent(q))
        BY KnownIs DEF Intact, PathsFit, Known
  <2>2. None # RootEntry
        BY NoneAssumption
  <2>3. CASE r = "Ok"
    <3>1. Wrote(d, e, D, path, content) /\ q # path
          BY <1>4, <1>7, <2>3 DEF PathsRead
    <3> QED BY <1>2, <1>3, <1>4, <2>1, <2>2, <3>1, ReadsOther
  <2>4. CASE r # "Ok"
    <3>1. ReadsKept(d, e, D, {})
          BY <1>4, <2>4 DEF PathsRead
    <3> QED BY <1>3, <1>4, <2>1, <2>2, <3>1, ReadsAll
  <2> QED BY <2>3, <2>4
<1> QED BY <1>5, <1>6, <1>7
-----------------------------------------------------------------------------
(* The inductive invariant.  As long as the file is not suspect it is      *)
(* intact, and a buffer that is neither torn nor older than the file       *)
(* differs from it by the puts of its program only.                        *)
Ahead(x) == \A p \in Paths :
    \/ read_file_by_path(Buffer(x), p) = held[p]
    \/ <<p, read_file_by_path(Buffer(x), p)>> \in ToSet(job[x])
Relied(x) == Running(x) /\ Buffer(x) # None /\ x \notin stale /\ ~ (x = "shell" /\ torn)
Current(x) == Relied(x) => Intact(Buffer(x)) /\ Ahead(x)
StoreSound == Intact(image) /\ \A x \in Programs : Current(x)
StoreInv == TypeInv /\ held = Held(image) /\ (~ suspect => StoreSound)

LEMMA HeldIs ==
    ASSUME NEW d, NEW p \in Paths
    PROVE  Held(d)[p] = read_file_by_path(d, p) /\ DOMAIN Held(d) = Paths
    BY DEF Held, run_cat

(* A step of the program x that leaves the file alone.                     *)
LEMMA OthersCurrent ==
    ASSUME Jobs, StoreSound, NEW x \in Programs, NEW l, NEW j, Turn(x, l, j),
           held' = held, image' = image, stale \ {x} \subseteq stale',
           x # "shell" => torn' = torn, Current(x)'
    PROVE  StoreSound'
<1>1. /\ \A y \in Programs \ {x} :
            at'[y] = at[y] /\ job'[y] = job[y] /\ Buffer(y)' = Buffer(y)
      BY Turned
<1>2. ASSUME NEW y \in Programs, y # x PROVE Current(y)'
  <2>1. at'[y] = at[y] /\ job'[y] = job[y] /\ Buffer(y)' = Buffer(y)
        BY <1>1, <1>2
  <2>2. Relied(y)' => Relied(y)
        BY <1>2, <2>1 DEF Relied, Running
  <2>3. Ahead(y) => Ahead(y)'
        BY <2>1 DEF Ahead
  <2>4. Intact(Buffer(y)) => Intact(Buffer(y)')
        BY <2>1
  <2> QED BY <2>2, <2>3, <2>4 DEF Current, StoreSound
<1> QED BY <1>2 DEF StoreSound

LEMMA LoadSound ==
    ASSUME Jobs, StoreSound, held = Held(image), NEW x \in Programs, NEW l, NEW j, Turn(x, l, j),
           held' = held, image' = image, stale' = stale \ {x}, torn' = torn,
           Buffer(x)' = Loaded
    PROVE  StoreSound'
<1>1. Relied(x)' => Buffer(x)' = image
      BY DEF Relied, Loaded
<1>2. ASSUME Relied(x)' PROVE Intact(Buffer(x)') /\ Ahead(x)'
  <2>1. Buffer(x)' = image /\ Intact(image)
        BY <1>1, <1>2 DEF StoreSound
  <2>2. \A p \in Paths : read_file_by_path(Buffer(x)', p) = held'[p]
        BY <2>1, HeldIs
  <2> QED BY <2>1, <2>2 DEF Ahead
<1>3. Current(x)'
      BY <1>2 DEF Current
<1> QED BY <1>3, OthersCurrent

LEMMA WriteSound ==
    ASSUME Jobs, StoreSound, NEW x \in Programs, NEW l, NEW j, Turn(x, l, j),
           held' = held, image' = image, stale' = stale, x # "shell" => torn' = torn,
           NEW path \in Known, NEW content \in Contents, Fits(content), NEW r,
           write_file_by_path(Buffer(x), Buffer(x)', r, path, content),
           Running(x), Buffer(x) # None,
           Relied(x)' => ~ (x = "shell" /\ torn) /\ ~ (r # "Ok" /\ Frees(Buffer(x), Buffer(x)')),
           ToSet(j) = IF r = "Ok" THEN ToSet(job[x]) \cup {<<path, Ok(content)>>}
                      ELSE ToSet(job[x])
    PROVE  StoreSound'
<1>1. ASSUME Relied(x)' PROVE Intact(Buffer(x)') /\ Ahead(x)'
  <2>1. Relied(x)
        BY <1>1 DEF Relied
  <2>2. Intact(Buffer(x)) /\ Ahead(x)
        BY <2>1 DEF StoreSound, Current
  <2>3. ~ (r # "Ok" /\ Frees(Buffer(x), Buffer(x)'))
        BY <1>1
  <2>4. PICK d : d = Buffer(x)
        OBVIOUS
  <2>5. PICK e : e = Buffer(x)'
        OBVIOUS
  <2>6. /\ Intact(e)
        /\ r = "Ok" => read_file_by_path(e, path) = Ok(content)
        /\ \A q \in Paths : \/ r = "Ok" /\ q = path
                            \/ read_file_by_path(e, q) = read_file_by_path(d, q)
        BY <2>2, <2>3, <2>4, <2>5, WriteIntact
  <2>7. job'[x] = j
        BY Turned
  <2>8. ASSUME NEW q \in Paths
        PROVE  \/ read_file_by_path(e, q) = held[q]
               \/ <<q, read_file_by_path(e, q)>> \in ToSet(j)
    <3>1. CASE r = "Ok" /\ q = path
          BY <2>6, <3>1
    <3>2. CASE ~ (r = "Ok" /\ q = path)
      <4>1. read_file_by_path(e, q) = read_file_by_path(d, q)
            BY <2>6, <3>2
      <4>2. \/ read_file_by_path(d, q) = held[q]
            \/ <<q, read_file_by_path(d, q)>> \in ToSet(job[x])
            BY <2>2, <2>4 DEF Ahead
      <4> QED BY <4>1, <4>2
    <3> QED BY <3>1, <3>2
  <2>9. Ahead(x)' <=> \A p \in Paths :
            \/ read_file_by_path(Buffer(x)', p) = held'[p]
            \/ <<p, read_file_by_path(Buffer(x)', p)>> \in ToSet(job'[x])
        BY DEF Ahead
  <2> QED BY <2>5, <2>6, <2>7, <2>8, <2>9
<1>2. Current(x)'
      BY <1>1 DEF Current
<1> QED BY <1>2, OthersCurrent
-----------------------------------------------------------------------------
LEMMA EndSound ==
    ASSUME Jobs, StoreSound, NEW x \in Programs, End(x),
           held' = held, image' = image, stale' = stale
    PROVE  StoreSound'
<1>1. at' = [at EXCEPT ![x] = "off"] /\ job' = [job EXCEPT ![x] = <<>>]
      BY DEF End, Goto
<1>2. /\ x = "shell" => cli_data' = cli_data
      /\ x # "shell" => data' = data /\ torn' = torn
      BY DEF End
<1>3. Turn(x, "off", <<>>)
      BY <1>1, <1>2, ProgramsAssumption DEF Turn, Buffer
<1>4. at'[x] = "off"
      BY <1>3, Turned
<1>5. Current(x)'
      BY <1>4 DEF Current, Relied, Running
<1> QED BY <1>2, <1>3, <1>5, OthersCurrent

(* A program that goes on with the buffer it has.                          *)
LEMMA SameSound ==
    ASSUME Jobs, StoreSound, NEW x \in Programs, Running(x), NEW l, Turn(x, l, job[x]),
           held' = held, image' = image, stale' = stale, torn' = torn, Buffer(x)' = Buffer(x)
    PROVE  StoreSound'
<1>1. job'[x] = job[x]
      BY Turned
<1>2. Relied(x)' => Relied(x)
      BY DEF Relied
<1>3. Ahead(x) => Ahead(x)'
      BY <1>1 DEF Ahead
<1>4. Current(x)'
      BY <1>2, <1>3 DEF StoreSound, Current
<1> QED BY <1>4, OthersCurrent

LEMMA BackSound ==
    ASSUME Jobs, StoreSound, NEW x \in Programs, Running(x), Back(x, job[x]),
           held' = held, image' = image, stale' = stale
    PROVE  StoreSound'
<1>1. CASE x = "shell"
  <2>1. /\ Goto(x, "prompt") /\ job' = [job EXCEPT ![x] = job[x]]
        /\ data' = data /\ cli_data' = cli_data /\ torn' = torn
        BY <1>1 DEF Back, buffers
  <2>2. Turn(x, "prompt", job[x]) /\ Buffer(x)' = Buffer(x)
        BY <2>1 DEF Turn, Goto, Buffer
  <2> QED BY <2>1, <2>2, SameSound
<1>2. CASE x # "shell"
      BY <1>2, EndSound DEF Back
<1> QED BY <1>1, <1>2

(* A save: the file gets the buffer, what other programs have is old.      *)
LEMMA SaveSound ==
    ASSUME Jobs, StoreSound, NEW x \in Programs, Buffer(x) # None, WriteAll(x), ~ suspect'
    PROVE  StoreSound' /\ Relied(x)
<1>1. /\ at[x] = "saving" /\ image' = Buffer(x) /\ held' = Held(Buffer(x)) /\ Back(x, <<>>)
      /\ stale' = stale \cup {y \in Programs \ {x} : Running(y)}
      /\ x \notin stale /\ ~ (x = "shell" /\ torn)
      BY DEF WriteAll
<1>2. Relied(x) /\ Intact(Buffer(x))
      BY <1>1 DEF Relied, Running, StoreSound, Current
<1>3. ASSUME NEW l, NEW j, Turn(x, l, j), l # "off" => Buffer(x)' = Buffer(x)
      PROVE  StoreSound'
  <2>1. /\ at'[x] = l
        /\ \A y \in Programs \ {x} : at'[y] = at[y]
        BY <1>3, Turned
  <2>2. ASSUME NEW y \in Programs, y # x PROVE Current(y)'
        BY <1>1, <2>1, <2>2 DEF Current, Relied, Running
  <2>3. ASSUME Relied(x)' PROVE Intact(Buffer(x)') /\ Ahead(x)'
    <3>1. Buffer(x)' = Buffer(x)
          BY <1>3, <2>1, <2>3 DEF Relied, Running
    <3>2. \A p \in Paths : read_file_by_path(Buffer(x)', p) = held'[p]
          BY <1>1, <3>1, HeldIs
    <3> QED BY <1>2, <3>1, <3>2 DEF Ahead
  <2>4. Current(x)'
        BY <2>3 DEF Current
  <2> QED BY <1>1, <1>2, <2>2, <2>4 DEF StoreSound
<1>4. CASE x = "shell"
  <2>1. /\ Goto(x, "prompt") /\ job' = [job EXCEPT ![x] = <<>>]
        /\ data' = data /\ cli_data' = cli_data
        BY <1>1, <1>4 DEF Back, buffers
  <2>2. Turn(x, "prompt", <<>>) /\ Buffer(x)' = Buffer(x)
        BY <1>4, <2>1 DEF Turn, Goto, Buffer
  <2> QED BY <1>2, <1>3, <2>2
<1>5. CASE x # "shell"
  <2>1. /\ Goto(x, "off") /\ job' = [job EXCEPT ![x] = <<>>] /\ data' = data
        BY <1>1, <1>5 DEF Back, End
  <2>2. Turn(x, "off", <<>>)
        BY <1>5, <2>1, ProgramsAssumption DEF Turn, Goto, Buffer
  <2> QED BY <1>2, <1>3, <2>2
<1> QED BY <1>4, <1>5

LEMMA CliWriteSound ==
    ASSUME ContentsFit, Jobs, StoreSound, NEW path \in Paths, NEW content \in Contents,
           cli_write(path, content)
    PROVE  StoreSound'
<1>1. /\ "cli" \in Programs /\ at["cli"] = "write" /\ cli_data # None
      /\ write_file_by_path(cli_data, cli_data', "Ok", path, content)
      /\ Goto("cli", "save") /\ Note("cli", path, content)
      /\ image' = image /\ held' = held /\ data' = data /\ torn' = torn /\ stale' = stale
      BY DEF cli_write, history
<1>2. PICK j : j = Append(job["cli"], <<path, Ok(content)>>)
      OBVIOUS
<1>3. Turn("cli", "save", j)
      BY <1>1, <1>2, ProgramsAssumption DEF Goto, Note, Turn, Buffer
<1>4. path \in Known /\ Fits(content)
      BY DEF Known, ContentsFit
<1>5. ToSet(j) = ToSet(job["cli"]) \cup {<<path, Ok(content)>>}
      BY <1>1, <1>2, <1>4, JobStays, PutIsPut, Appended
<1>6. Buffer("cli") = cli_data /\ Buffer("cli")' = cli_data' /\ Running("cli")
      BY <1>1 DEF Buffer, Running
<1> QED BY <1>1, <1>3, <1>4, <1>5, <1>6, WriteSound

LEMMA PutSound ==
    ASSUME ContentsFit, Jobs, StoreSound, NEW path \in Known, NEW content \in Contents,
           put(path, content)
    PROVE  StoreSound'
<1>1. /\ "shell" \in Programs /\ at["shell"] = "prompt" /\ data # None
      /\ write_file_by_path(data, data', said', path, content)
      /\ AfterPut(path, content) /\ torn' = (torn \/ FailedHalfWay)
      /\ image' = image /\ held' = held /\ cli_data' = cli_data /\ stale' = stale
      BY DEF put
<1>2. Fits(content) /\ Buffer("shell") = data /\ Buffer("shell")' = data' /\ Running("shell")
      BY <1>1 DEF ContentsFit, Buffer, Running
<1>3. Relied("shell")' => ~ torn /\ ~ (said' # "Ok" /\ Frees(data, data'))
      BY <1>1 DEF Relied, FailedHalfWay, Frees
<1>4. CASE said' = "Ok"
  <2>1. PICK j : j = Append(job["shell"], <<path, Ok(content)>>)
        OBVIOUS
  <2>2. Turn("shell", "save", j)
        BY <1>1, <1>4, <2>1 DEF AfterPut, Goto, Note, Turn, Buffer
  <2>3. ToSet(j) = ToSet(job["shell"]) \cup {<<path, Ok(content)>>}
        BY <1>1, <2>1, JobStays, PutIsPut, Appended
  <2> QED BY <1>1, <1>2, <1>3, <1>4, <2>2, <2>3, WriteSound
<1>5. CASE said' # "Ok"
  <2>1. at' = at /\ job' = job
        BY <1>1, <1>5 DEF AfterPut
  <2>2. Turn("shell", at["shell"], job["shell"])
    <3>1. at = [at EXCEPT !["shell"] = at["shell"]]
          BY DEF Jobs
    <3> QED BY <1>1, <2>1, <3>1, JobStays DEF Turn, Buffer
  <2> QED BY <1>1, <1>2, <1>3, <1>5, <2>2, WriteSound
<1> QED BY <1>4, <1>5

StoreFits == /\ IntactImages /\ ContentsFit
             /\ ~ IsVolume(None) /\ None \notin Images /\ \A d : Held(d) # None

LEMMA StoreInvInit ==
    ASSUME StoreFits
    PROVE  Init => StoreInv
<1> SUFFICES ASSUME Init PROVE StoreInv
    OBVIOUS
<1>1. TypeInv
      BY TypeInvInit DEF StoreFits
<1>2. Intact(image)
      BY ImageIntact DEF Init, StoreFits
<1>3. \A x \in Programs : ~ Running(x)
      BY DEF Init, Running
<1>4. StoreSound
      BY <1>2, <1>3 DEF StoreSound, Current, Relied
<1> QED BY <1>1, <1>4 DEF Init, StoreInv

LEMMA StoreSoundStep ==
    ASSUME ContentsFit, TypeInv, held = Held(image), StoreSound, ~ suspect', [Next]_vars
    PROVE  StoreSound'
<1>0. Jobs /\ ShellInv
      BY DEF TypeInv, JobsInv
<1>1. ASSUME NEW path \in Targets, NEW content \in Contents, put(path, content)
      PROVE  StoreSound'
  <2>1. path \in Known
        BY <1>0, TargetsArePaths DEF Known
  <2> QED BY <1>0, <1>1, <2>1, PutSound
<1>2. ASSUME NEW path \in Paths, NEW content \in Contents, cli_write(path, content)
      PROVE  StoreSound'
      BY <1>0, <1>2, CliWriteSound
<1>3. CASE run_shell
  <2>1. /\ "shell" \in Programs /\ Goto("shell", "prompt") /\ job' = job /\ cli_data' = cli_data
        /\ data' = Loaded /\ stale' = stale \ {"shell"}
        /\ image' = image /\ held' = held /\ torn' = torn
        BY <1>3 DEF run_shell
  <2>2. Turn("shell", "prompt", job["shell"]) /\ Buffer("shell")' = Loaded
        BY <1>0, <2>1, JobStays DEF Goto, Turn, Buffer
  <2> QED BY <1>0, <2>1, <2>2, LoadSound
<1>4. CASE main_put
  <2>1. /\ "cli" \in Programs /\ Goto("cli", "write") /\ job' = job /\ data' = data
        /\ cli_data' = Loaded /\ stale' = stale \ {"cli"}
        /\ image' = image /\ held' = held /\ torn' = torn
        BY <1>4 DEF main_put
  <2>2. Turn("cli", "write", job["cli"]) /\ Buffer("cli")' = Loaded
        BY <1>0, <2>1, JobStays, ProgramsAssumption DEF Goto, Turn, Buffer
  <2> QED BY <1>0, <2>1, <2>2, LoadSound
<1>5. ASSUME /\ image' = image /\ held' = held /\ at' = at /\ job' = job
             /\ data' = data /\ cli_data' = cli_data /\ torn' = torn /\ stale' = stale
      PROVE  StoreSound'
      BY <1>5 DEF StoreSound, Current, Relied, Running, Ahead, Buffer
<1>6. ASSUME NEW path \in Targets, cd(path) PROVE StoreSound'
      BY <1>5, <1>6 DEF cd, buffers, history
<1>7. ASSUME NEW x \in Programs, Truncate(x) PROVE StoreSound'
  <2>1. /\ at[x] = "save" /\ Goto(x, "saving") /\ job' = job
        /\ data' = data /\ cli_data' = cli_data
        /\ image' = image /\ held' = held /\ torn' = torn /\ stale' = stale
        BY <1>7 DEF Truncate, buffers, history
  <2>2. Turn(x, "saving", job[x]) /\ Buffer(x)' = Buffer(x) /\ Running(x)
        BY <1>0, <2>1, JobStays DEF Turn, Goto, Buffer, Running
  <2> QED BY <1>0, <2>1, <2>2, SameSound
<1>8. ASSUME NEW x \in Programs, WriteAll(x) PROVE StoreSound'
  <2>1. Buffer(x) # None
        BY <1>8 DEF WriteAll, TypeInv, Saving
  <2> QED BY <1>0, <1>8, <2>1, SaveSound
<1>9. ASSUME NEW x \in Programs, OpenFails(x) PROVE StoreSound'
      BY <1>0, <1>9, BackSound DEF OpenFails, Running
<1>10. ASSUME NEW x \in Programs, WriteFails(x) PROVE StoreSound'
       BY <1>0, <1>10, BackSound DEF WriteFails, Running
<1>11. ASSUME NEW x \in Programs, Crash(x) PROVE StoreSound'
       BY <1>0, <1>11, EndSound DEF Crash
<1>12. CASE UNCHANGED vars
       BY <1>5, <1>12 DEF vars, buffers, history
<1> QED BY <1>1, <1>2, <1>3, <1>4, <1>6, <1>7, <1>8, <1>9, <1>10, <1>11, <1>12 DEF Next

LEMMA StoreInvStep ==
    ASSUME StoreFits
    PROVE  StoreInv /\ [Next]_vars => StoreInv'
<1> SUFFICES ASSUME StoreInv, [Next]_vars PROVE StoreInv'
    OBVIOUS
<1>1. TypeInv /\ TypeInv'
      BY TypeInvStep DEF StoreInv, StoreFits
<1>2. held' = Held(image')
  <2>1. \/ held' = held /\ image' = image
        \/ \E x \in Programs : WriteAll(x)
        BY DEF Next, put, cli_write, run_shell, main_put, cd, Truncate, OpenFails, WriteFails,
               Crash, vars
  <2>2. ASSUME NEW x \in Programs, WriteAll(x) PROVE held' = Held(image')
        BY <2>2 DEF WriteAll
  <2>3. CASE held' = held /\ image' = image
        BY <2>3 DEF StoreInv, Held
  <2> QED BY <2>1, <2>2, <2>3
<1>3. ASSUME ~ suspect' PROVE StoreSound'
  <2>1. ~ suspect
        BY <1>3 DEF Next, put, cli_write, run_shell, main_put, cd, Truncate, WriteAll, OpenFails,
                    WriteFails, Crash, vars, history
  <2> QED BY <1>1, <1>3, <2>1, StoreSoundStep DEF StoreInv, StoreFits
<1> QED BY <1>1, <1>2, <1>3 DEF StoreInv
-----------------------------------------------------------------------------
(* Refinement.  What the steps make of the puts that are pending.          *)
Pending == {p \in UNION {ToSet(job[x]) : x \in Programs} : p[1] \in Paths}
StoreIs   == IF suspect THEN None ELSE held
PendingIs == IF suspect THEN {} ELSE Pending

LEMMA FewerPending ==
    ASSUME \A x \in Programs : ToSet(job'[x]) \subseteq ToSet(job[x])
    PROVE  Pending' \subseteq Pending
<1> SUFFICES ASSUME NEW p \in Pending' PROVE p \in Pending
    OBVIOUS
<1>1. p[1] \in Paths /\ \E x \in Programs : p \in ToSet(job'[x])
      BY DEF Pending
<1> QED BY <1>1 DEF Pending

LEMMA EmptiedJob ==
    ASSUME Jobs, NEW x \in Programs, job' = [job EXCEPT ![x] = <<>>]
    PROVE  \A y \in Programs : ToSet(job'[y]) \subseteq ToSet(job[y])
<1>1. job'[x] = <<>> /\ \A y \in Programs \ {x} : job'[y] = job[y]
      BY DEF Jobs
<1>2. ToSet(<<>>) = {}
      BY DEF ToSet
<1> QED BY <1>1, <1>2

LEMMA KeptJob ==
    ASSUME Jobs, NEW x \in Programs, job' = [job EXCEPT ![x] = job[x]]
    PROVE  \A y \in Programs : ToSet(job'[y]) \subseteq ToSet(job[y])
    BY JobStays

LEMMA BackJob ==
    ASSUME Jobs, NEW x \in Programs, Back(x, job[x])
    PROVE  \A y \in Programs : ToSet(job'[y]) \subseteq ToSet(job[y])
<1>1. job' = [job EXCEPT ![x] = job[x]] \/ job' = [job EXCEPT ![x] = <<>>]
      BY DEF Back, End
<1> QED BY <1>1, KeptJob, EmptiedJob

LEMMA SavedJob ==
    ASSUME Jobs, NEW x \in Programs, Back(x, <<>>)
    PROVE  \A y \in Programs : ToSet(job'[y]) \subseteq ToSet(job[y])
<1>1. job' = [job EXCEPT ![x] = <<>>]
      BY DEF Back, End
<1> QED BY <1>1, EmptiedJob

(* A put is noted.                                                         *)
LEMMA PutPends ==
    ASSUME Jobs, NEW x \in Programs, NEW path \in Known, NEW content \in Contents,
           Note(x, path, content), DOMAIN held = Paths, held # None,
           held' = held, ~ suspect, ~ suspect'
    PROVE  Store!Put \/ (StoreIs' = StoreIs /\ PendingIs' = PendingIs)
<1>1. PICK v : v = <<path, Ok(content)>>
      OBVIOUS
<1>2. PICK j : j = Append(job[x], v)
      OBVIOUS
<1>3. job'[x] = j /\ \A y \in Programs \ {x} : job'[y] = job[y]
      BY <1>1, <1>2 DEF Jobs, Note
<1>4. ToSet(j) = ToSet(job[x]) \cup {v}
      BY <1>1, <1>2, JobStays, PutIsPut, Appended
<1>5. ASSUME NEW p
      PROVE  (\E y \in Programs : p \in ToSet(job'[y]))
                 <=> ((\E y \in Programs : p \in ToSet(job[y])) \/ p = v)
  <2>1. p \in ToSet(job'[x]) <=> (p \in ToSet(job[x]) \/ p = v)
        BY <1>3, <1>4
  <2>2. \A y \in Programs \ {x} : p \in ToSet(job'[y]) <=> p \in ToSet(job[y])
        BY <1>3
  <2> QED BY <2>1, <2>2
<1>6. v[1] = path
      BY <1>1
<1>a. \A p : p \in Pending <=> (p[1] \in Paths /\ \E y \in Programs : p \in ToSet(job[y]))
      BY DEF Pending
<1>b. \A p : p \in Pending' <=> (p[1] \in Paths /\ \E y \in Programs : p \in ToSet(job'[y]))
      BY DEF Pending
<1>7. CASE path \in Paths
  <2>1. \A p : p \in Pending' <=> (p \in Pending \/ p = v)
        BY <1>5, <1>6, <1>7, <1>a, <1>b
  <2>2. Pending' = Pending \cup {<<path, Ok(content)>>}
        BY <2>1, <1>1
  <2>3. PICK w \in {Ok(c) : c \in Contents} : w = Ok(content)
        OBVIOUS
  <2>4. Store!Put
        BY <1>7, <2>2, <2>3 DEF Store!Put, Pending
  <2> QED BY <2>4
<1>8. CASE path \notin Paths
  <2>1. \A p : p \in Pending' <=> p \in Pending
        BY <1>5, <1>6, <1>8, <1>a, <1>b
  <2>2. Pending' = Pending
        BY <2>1
  <2> QED BY <2>2 DEF StoreIs, PendingIs
<1> QED BY <1>7, <1>8

LEMMA FewerDrop ==
    ASSUME \A x \in Programs : ToSet(job'[x]) \subseteq ToSet(job[x]), held' = held,
           ~ suspect, ~ suspect'
    PROVE  Store!Drop
    BY FewerPending DEF Store!Drop, Pending

LEMMA SaveCommits ==
    ASSUME StoreInv, StoreFits, NEW x \in Programs, WriteAll(x), ~ suspect, ~ suspect'
    PROVE  Store!Commit
<1>1. Jobs /\ StoreSound /\ Buffer(x) # None
      BY DEF StoreInv, TypeInv, JobsInv, WriteAll, Saving
<1>2. Relied(x)
      BY <1>1, SaveSound
<1>3. Ahead(x) /\ held' = Held(Buffer(x)) /\ held = Held(image) /\ Back(x, <<>>)
      BY <1>1, <1>2 DEF StoreSound, Current, WriteAll, StoreInv
<1>4. /\ DOMAIN held' = Paths /\ DOMAIN held = Paths /\ held # None /\ held' # None
      BY <1>3 DEF Held, StoreFits
<1>5. ASSUME NEW p \in Paths
      PROVE  held'[p] = held[p] \/ <<p, held'[p]>> \in Pending
  <2>1. held'[p] = read_file_by_path(Buffer(x), p)
        BY <1>3, HeldIs
  <2>2. held'[p] = held[p] \/ <<p, held'[p]>> \in ToSet(job[x])
        BY <1>3, <2>1 DEF Ahead
  <2> QED BY <2>2 DEF Pending
<1>6. Pending' \subseteq Pending
      BY <1>1, <1>3, SavedJob, FewerPending
<1> QED BY <1>4, <1>5, <1>6 DEF Store!Commit, Pending

LEMMA StoreStep ==
    ASSUME StoreFits, StoreInv, [Next]_vars
    PROVE  Store!Next \/ (StoreIs' = StoreIs /\ PendingIs' = PendingIs)
<1>0. Jobs /\ ShellInv /\ DOMAIN held = Paths /\ held # None
      BY DEF StoreInv, TypeInv, JobsInv, Held, StoreFits
<1>1. CASE suspect'
  <2>1. CASE suspect
        BY <1>1, <2>1 DEF StoreIs, PendingIs
  <2>2. CASE ~ suspect
    <3>1. Store!Lose
          BY <1>1 DEF Store!Lose
    <3> QED BY <3>1 DEF Store!Next
  <2> QED BY <2>1, <2>2
<1>2. CASE ~ suspect'
  <2>0. ~ suspect
        BY <1>2 DEF Next, put, cli_write, run_shell, main_put, cd, Truncate, WriteAll, OpenFails,
                    WriteFails, Crash, vars, history
  <2>1. ASSUME held' = held, \A x \in Programs : ToSet(job'[x]) \subseteq ToSet(job[x])
        PROVE  Store!Next
    <3>1. Store!Drop
          BY <1>2, <2>0, <2>1, FewerDrop
    <3> QED BY <3>1 DEF Store!Next
  <2>2. ASSUME held' = held, job' = job PROVE Store!Next
        BY <2>1, <2>2
  <2>3. ASSUME NEW x \in Programs, NEW path \in Known, NEW content \in Contents,
               Note(x, path, content), held' = held
        PROVE  Store!Next \/ (StoreIs' = StoreIs /\ PendingIs' = PendingIs)
    <3>1. Store!Put \/ (StoreIs' = StoreIs /\ PendingIs' = PendingIs)
          BY <1>0, <1>2, <2>0, <2>3, PutPends
    <3> QED BY <3>1 DEF Store!Next
  <2>4. ASSUME NEW path \in Targets, NEW content \in Contents, put(path, content)
        PROVE  Store!Next \/ (StoreIs' = StoreIs /\ PendingIs' = PendingIs)
    <3>1. "shell" \in Programs /\ held' = held /\ AfterPut(path, content)
          BY <2>4 DEF put
    <3>2. path \in Known
          BY <1>0, TargetsArePaths DEF Known
    <3>3. job' = job \/ Note("shell", path, content)
          BY <3>1 DEF AfterPut
    <3> QED BY <2>2, <2>3, <3>1, <3>2, <3>3
  <2>5. ASSUME NEW path \in Paths, NEW content \in Contents, cli_write(path, content)
        PROVE  Store!Next \/ (StoreIs' = StoreIs /\ PendingIs' = PendingIs)
    <3>1. "cli" \in Programs /\ held' = held /\ Note("cli", path, content) /\ path \in Known
          BY <2>5 DEF cli_write, Known
    <3> QED BY <2>3, <3>1
  <2>6. ASSUME run_shell \/ main_put \/ (\E path \in Targets : cd(path))
               \/ (\E x \in Programs : Truncate(x)) \/ UNCHANGED vars
        PROVE  Store!Next
        BY <2>2, <2>6 DEF run_shell, main_put, cd, Truncate, vars
  <2>7. ASSUME NEW x \in Programs, WriteAll(x) PROVE Store!Next
    <3>1. Store!Commit
          BY <1>2, <2>0, <2>7, SaveCommits
    <3> QED BY <3>1 DEF Store!Next
  <2>8. ASSUME NEW x \in Programs, OpenFails(x) \/ WriteFails(x) PROVE Store!Next
    <3>1. held' = held /\ Back(x, job[x])
          BY <2>8 DEF OpenFails, WriteFails
    <3> QED BY <1>0, <2>1, <3>1, BackJob
  <2>9. ASSUME NEW x \in Programs, Crash(x) PROVE Store!Next
    <3>1. held' = held /\ job' = [job EXCEPT ![x] = <<>>]
          BY <2>9 DEF Crash, End
    <3> QED BY <1>0, <2>1, <3>1, EmptiedJob
  <2> QED BY <2>4, <2>5, <2>6, <2>7, <2>8, <2>9 DEF Next
<1> QED BY <1>1, <1>2

(* "put - écrire un fichier dans l'image (persistant)": whatever is put    *)
(* by two programs that load, change and save the whole image, a put       *)
(* reaches the file whole or not at all and nothing else changes what the  *)
(* paths hold, until a program ends that left the file empty or in part    *)
(* written, a half-done put is saved or an old buffer is (fs::write,       *)
(* main.rs:389).                                                           *)
THEOREM ShellImplementsStore ==
    ASSUME StoreFits
    PROVE  Spec => ImplementsStore
<1>1. Init => Store!Init
  <2> SUFFICES ASSUME Init PROVE Store!Init
      OBVIOUS
  <2>1. held # None /\ ~ suspect
        BY DEF Init, StoreFits
  <2>2. \A x \in Programs : ToSet(job[x]) = {}
        BY DEF Init, ToSet
  <2>3. Pending = {}
        BY <2>2 DEF Pending
  <2> QED BY <2>1, <2>3 DEF Store!Init, Pending
<1>2. StoreInv /\ [Next]_vars => [Store!Next]_<<StoreIs, PendingIs>>
      BY StoreStep
<1> QED BY <1>1, <1>2, StoreInvInit, StoreInvStep, PTL
     DEF Spec, ImplementsStore, Store!Spec, StoreIs, PendingIs, Pending
-----------------------------------------------------------------------------
(* An empty file.  --put leaves it empty only while it saves: if its save  *)
(* fails it ends.  The shell goes on with its buffer.                      *)
Saves(x) == Running(x) /\ Buffer(x) # None /\ (x = "cli" => at[x] = "saving")
CutInv   == cut # None /\ ~ suspect => Saves(cut)

(* One of two programs moves.                                              *)
LEMMA OtherSaves ==
    ASSUME Jobs, NEW x \in Programs, NEW l, NEW j, Turn(x, l, j),
           NEW y \in Programs, y # x, Saves(y)
    PROVE  Saves(y)'
<1>1. at'[y] = at[y] /\ Buffer(y)' = Buffer(y)
      BY Turned
<1> QED BY <1>1 DEF Saves, Running

LEMMA OneSaves ==
    ASSUME Jobs, NEW x \in Programs, NEW y \in Programs, Saves(y),
           (x = y /\ x = "shell" /\ Back(x, job[x])) \/ (x # y /\ Leaves(x))
    PROVE  Saves(y)'
<1>1. CASE x # y
  <2>1. PICK l, j : Turn(x, l, j)
        BY <1>1 DEF Leaves
  <2> QED BY <1>1, <2>1, OtherSaves
<1>2. CASE x = y /\ x = "shell" /\ Back(x, job[x])
  <2>1. Goto(x, "prompt") /\ data' = data
        BY <1>2 DEF Back, buffers
  <2>2. at'[y] = "prompt" /\ Buffer(y)' = Buffer(y)
        BY <1>2, <2>1 DEF Goto, Jobs, Buffer
  <2> QED BY <1>2, <2>2 DEF Saves, Running
<1> QED BY <1>1, <1>2

LEMMA WriterSaves ==
    ASSUME ~ IsVolume(None), TypeInv, NEW y \in Programs, Saves(y),
           \/ \E path \in Targets, content \in Contents : put(path, content)
           \/ \E path \in Paths, content \in Contents : cli_write(path, content)
    PROVE  Saves(y)'
<1>0. Jobs /\ ShellInv
      BY DEF TypeInv, JobsInv
<1>1. ASSUME NEW path \in Targets, NEW content \in Contents, put(path, content)
      PROVE  Saves(y)'
  <2>1. /\ at["shell"] = "prompt" /\ data # None
        /\ write_file_by_path(data, data', said', path, content)
        /\ AfterPut(path, content) /\ cli_data' = cli_data
        BY <1>1 DEF put
  <2>2. at' = at \/ Goto("shell", "save")
        BY <2>1 DEF AfterPut
  <2>3. CASE y = "shell"
    <3>1. PICK i \in Images, D \in SUBSET Clusters : SameDirs(i, data, D)
          BY <1>0, <2>1 DEF ShellInv, Copies, Kept
    <3>2. IsSequence(path)
          BY <1>0, TargetsArePaths, SeqOfItself
    <3>3. IsVolume(data')
          BY <2>1, <3>1, <3>2, WriteKept DEF SameDirs
    <3>4. at'[y] \in {"prompt", "save"} /\ Buffer(y)' # None
          BY <1>0, <2>1, <2>2, <2>3, <3>3 DEF Goto, Jobs, Buffer
    <3> QED BY <2>3, <3>4 DEF Saves, Running
  <2>4. CASE y # "shell"
    <3>1. at'[y] = at[y] /\ Buffer(y)' = Buffer(y)
          BY <1>0, <2>1, <2>2, <2>4 DEF Goto, Jobs, Buffer
    <3> QED BY <3>1 DEF Saves, Running
  <2> QED BY <2>3, <2>4
<1>2. ASSUME NEW path \in Paths, NEW content \in Contents, cli_write(path, content)
      PROVE  Saves(y)'
  <2>1. at["cli"] = "write" /\ Goto("cli", "save") /\ data' = data
        BY <1>2 DEF cli_write
  <2>2. y # "cli"
        BY <2>1 DEF Saves
  <2>3. at'[y] = at[y] /\ Buffer(y)' = Buffer(y)
        BY <1>0, <2>1, <2>2, ProgramsAssumption DEF Goto, Jobs, Buffer
  <2> QED BY <2>3 DEF Saves, Running
<1> QED BY <1>1, <1>2

LEMMA CutInvStep ==
    ASSUME StoreFits, StoreInv, CutInv, [Next]_vars
    PROVE  CutInv'
<1> SUFFICES ASSUME cut' # None, ~ suspect', NEW y, y = cut'
             PROVE  Saves(y)'
    BY DEF CutInv, Saves, Running, Buffer
<1>0. Jobs /\ TypeInv /\ y \in Programs
  <2>1. cut' \in Programs \cup {None}
        BY TypeInvStep DEF StoreInv, StoreFits, TypeInv
  <2> QED BY <2>1 DEF StoreInv, TypeInv, JobsInv
<1>1. ~ suspect
      BY DEF Next, put, cli_write, run_shell, main_put, cd, Truncate, WriteAll, OpenFails,
             WriteFails, Crash, vars, history
<1>2. cut = y => Saves(y)
      BY <1>1 DEF CutInv
<1>3. ASSUME \/ \E path \in Targets, content \in Contents : put(path, content)
             \/ \E path \in Paths, content \in Contents : cli_write(path, content)
      PROVE  Saves(y)'
  <2>1. cut' = cut
        BY <1>3 DEF put, cli_write
  <2> QED BY <1>0, <1>2, <1>3, <2>1, WriterSaves DEF StoreFits
<1>4. CASE run_shell
  <2>1. cut' = cut /\ at["shell"] = "off" /\ Goto("shell", "prompt") /\ cli_data' = cli_data
        BY <1>4 DEF run_shell, Running
  <2>2. y # "shell"
        BY <1>2, <2>1 DEF Saves, Running
  <2>3. at'[y] = at[y] /\ Buffer(y)' = Buffer(y)
        BY <1>0, <2>1, <2>2 DEF Goto, Jobs, Buffer
  <2> QED BY <1>2, <2>1, <2>3 DEF Saves, Running
<1>5. CASE main_put
  <2>1. cut' = cut /\ at["cli"] = "off" /\ Goto("cli", "write") /\ data' = data
        BY <1>5 DEF main_put, Running
  <2>2. y # "cli"
        BY <1>2, <2>1 DEF Saves
  <2>3. at'[y] = at[y] /\ Buffer(y)' = Buffer(y)
        BY <1>0, <2>1, <2>2, ProgramsAssumption DEF Goto, Jobs, Buffer
  <2> QED BY <1>2, <2>1, <2>3 DEF Saves, Running
<1>6. ASSUME (\E path \in Targets : cd(path)) \/ UNCHANGED vars PROVE Saves(y)'
  <2>1. cut' = cut /\ at' = at /\ data' = data /\ cli_data' = cli_data
        BY <1>6 DEF cd, vars, buffers
  <2> QED BY <1>2, <2>1 DEF Saves, Running, Buffer
<1>7. ASSUME NEW x \in Programs, Truncate(x) PROVE Saves(y)'
  <2>1. /\ at[x] = "save" /\ y = x /\ Goto(x, "saving")
        /\ data' = data /\ cli_data' = cli_data
        BY <1>7 DEF Truncate, buffers
  <2>2. at'[y] = "saving" /\ Buffer(y)' = Buffer(y) /\ Buffer(y) # None
        BY <1>0, <2>1 DEF Goto, Jobs, Buffer, TypeInv, Saving
  <2> QED BY <2>2 DEF Saves, Running
<1>8. ASSUME NEW x \in Programs, WriteAll(x) PROVE Saves(y)'
      BY <1>8 DEF WriteAll
<1>9. ASSUME NEW x \in Programs, OpenFails(x) PROVE Saves(y)'
  <2>1. at[x] = "save" /\ cut = y /\ Back(x, job[x])
        BY <1>9 DEF OpenFails
  <2>2. x = y => x = "shell"
        BY <1>0, <1>2, <2>1, ProgramsAssumption DEF Saves
  <2>3. Leaves(x)
        BY <1>0, <2>1, JobStays, BackMoves
  <2> QED BY <1>0, <1>2, <2>1, <2>2, <2>3, OneSaves
<1>10. ASSUME NEW x \in Programs, WriteFails(x) PROVE Saves(y)'
  <2>1. /\ at[x] = "saving" /\ y \in {cut, x} /\ Back(x, job[x])
        /\ ~ (x = "cli" /\ y = x)
        BY <1>10 DEF WriteFails
  <2>2. Leaves(x)
        BY <1>0, <2>1, JobStays, BackMoves
  <2>3. CASE x = y
    <3>1. x = "shell" /\ Buffer(x) # None
          BY <1>0, <2>1, <2>3, ProgramsAssumption DEF TypeInv, Saving
    <3>2. Saves(y)
          BY <2>1, <2>3, <3>1 DEF Saves, Running
    <3> QED BY <1>0, <2>1, <2>3, <3>1, <3>2, OneSaves
  <2>4. CASE x # y
        BY <1>0, <1>2, <2>1, <2>2, <2>4, OneSaves
  <2> QED BY <2>3, <2>4
<1>11. ASSUME NEW x \in Programs, Crash(x) PROVE Saves(y)'
  <2>1. y \in {cut, x} /\ y # x /\ End(x)
        BY <1>11 DEF Crash
  <2>2. Leaves(x)
        BY <1>0, <2>1, EndMoves
  <2> QED BY <1>0, <1>2, <2>1, <2>2, OneSaves
<1> QED BY <1>3, <1>4, <1>5, <1>6, <1>7, <1>8, <1>9, <1>10, <1>11 DEF Next

(* "Impossible d'écrire" (main.rs:390) leaves a file that is empty or in   *)
(* part written, and the shell goes on: what the file held and what was    *)
(* put is in the buffer of the program that left it so, unless that buffer *)
(* is older than the file or has a half-done put, until the program ends.  *)
THEOREM CutFileIsHeld ==
    ASSUME StoreFits
    PROVE  Spec => []CutIsHeld
<1> DEFINE Inv == StoreInv /\ CutInv
<1>1. Init => Inv
  <2> SUFFICES ASSUME Init PROVE Inv
      OBVIOUS
  <2>1. CutInv
        BY DEF Init, CutInv
  <2> QED BY <2>1, StoreInvInit
<1>2. Inv /\ [Next]_vars => Inv'
      BY StoreInvStep, CutInvStep
<1>3. Inv => CutIsHeld
  <2> SUFFICES ASSUME Inv, cut # None, ~ suspect
               PROVE  /\ Running(cut) /\ Buffer(cut) # None
                      /\ cut \notin stale /\ ~ (cut = "shell" /\ torn) =>
                            \A p \in Paths : LET r == run_cat(Buffer(cut), p) IN
                               r = held[p] \/ <<p, r>> \in ToSet(job[cut])
      BY DEF CutIsHeld
  <2>1. Running(cut) /\ Buffer(cut) # None
        BY DEF CutInv, Saves
  <2>2. cut \in Programs /\ Current(cut)
        BY DEF StoreInv, TypeInv, StoreSound
  <2>3. ASSUME cut \notin stale, ~ (cut = "shell" /\ torn) PROVE Ahead(cut)
        BY <2>1, <2>2, <2>3 DEF Current, Relied
  <2> QED BY <2>1, <2>3 DEF Ahead, run_cat
<1> QED BY <1>1, <1>2, <1>3, PTL DEF Spec
=============================================================================
