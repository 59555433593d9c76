# A TLA+ model of The_Heap

The_Heap is a `no_std` kernel demo with two libraries of its own: a slab
allocator that serves as the kernel's global allocator, and a FAT32 reader and
writer that works on a volume held in memory, with a command line around it.
This directory holds TLA+ models of them, the TLC runs that check the models on
small instances, and TLAPS proofs about the allocator, alone and shared by
threads, the layout of a volume, its directories, the chains and the contents of
its files under any sequence of writes, the names in it, and the command line.

## 1. The system

| part | source | state | operations |
|---|---|---|---|
| bit helpers | `slaballoc/src/util.rs` | none | `align_up`, `is_power_of_two` |
| slab allocator | `slaballoc/src/allocator.rs` | heap bounds, bump pointer, one free-list head per size class, and the links of the lists in the free blocks themselves | `new`, `init`, `alloc` (pop, refill, large, null), `dealloc` |
| locked allocator | `slaballoc/src/lib.rs` | the lock word around a slab allocator | `SpinLock::lock`, guard `drop`, `init`, `alloc`, `dealloc` |
| FAT32, reading | `fat32/src/lib.rs`, `dir_entry.rs` | none: a view of a buffer | `list_root`, `list_dir_path`, `open_path`, `read_file`, `read_file_by_path` |
| FAT32, writing | `fat32/src/lib.rs` | the buffer: copies of the table, clusters | `Fat32Mut::new`, `write_file_by_path` |
| volume geometry | `fat32/src/lib.rs` | fields of the BPB | `parse_bpb`, `cluster_to_offset`, `max_cluster_number`, the writes to bytes |
| names and paths | `fat32/src/lib.rs`, `dir_entry.rs` | none | `encode_short_name_8_3`, `normalize_name`, `split_parent`, `decode_ascii_trim` |
| command line | `fat32/src/main.rs` | the shell's buffer and current directory, the buffer of `--put`, the image file | `ls`, `cat`, `cd`, `put`, `pwd`, `exit`, `--put` |
| kernel | `kernel/src/main.rs` | none of its own | one demo that calls the libraries |
| VGA writer | `kernel/src/vga.rs` | not compiled: no file declares the module | |

How they interact: the kernel installs `LockedAlloc` as `#[global_allocator]`;
every `Vec` and `String` of the FAT32 library goes through it. `LockedAlloc`
calls `SlabAllocator` under the spinlock. `Fat32Mut` calls the read side
through `as_read` on the same buffer. The command line loads a file into a
buffer, calls both sides, and writes the whole buffer back with `fs::write`.
The shell keeps its buffer from start to end; `--put` may be run on the same
file meanwhile, and nothing keeps the two apart.

What is hard:

* **free lists in client memory** - a link is a word of a block that a caller
  owned until it freed it; callers overwrite links while they hold a block;
* **one bump pointer for everything** - chunks and large layouts share it, with
  different alignments, and the end of the heap is tested after rounding up;
* **concurrency** - only the spinlock keeps calls apart, and it is not fair;
* **writes that stop half way** - `write_file_by_path` changes the buffer in
  place and returns at the first error, with what it did before left done;
* **directories with a past** - end marks, deleted entries, a volume label and
  old entries behind the end mark are all in the clusters that are searched;
* **one file, several buffers** - every save is a whole buffer, which may hold a
  write that failed half way or may be older than the file; the file is emptied
  before it is rewritten;
* **two ways to a name** - writing compares encoded bytes, reading compares
  decoded names;
* **offsets from a boot sector** that is hardly checked, with casts to 32 bits;
* **limits** - 4096 clusters per chain, 32 bits per size, directories that do
  not grow.

What makes each part correct: allocations are aligned, inside the heap and
disjoint, and no block is lost (allocator); the same with threads, mutual
exclusion and progress (lock); after any sequence of writes the volume is
consistent and every path reads back its last content (FAT32); each part of the
volume has bytes of its own inside the buffer (geometry); a path means the same
file for reading and for writing (names); what is saved is what was put, and
what can be lost is known (command line).

`PROJECT.json` lists the hazards with the lines where they bite and the
properties that cover them.

## 2. Modules

| module | models | extends / instantiates |
|---|---|---|
| `AddressRounding` | `align_up`, in arithmetic form, modulo the word size | |
| `UtilBits` | `util.rs` as written, on bits | `AddressRounding` |
| `GlobalAlloc` | abstract: what an allocator owes its callers | |
| `SlabAllocator` | `allocator.rs`, whole calls of one owner | `AddressRounding`; `Abstract == INSTANCE GlobalAlloc` |
| `SlabAllocatorProofs` | theorems about `SlabAllocator` | `SlabAllocator`, TLAPS |
| `LockedAlloc` | `slaballoc/src/lib.rs`, threads store by store | `SlabAllocator`; `Callers == INSTANCE GlobalAlloc WITH live <- held` |
| `LockedAllocProofs` | theorems about `LockedAlloc` | `LockedAlloc`, `SlabAllocatorProofs` |
| `Fat32` | the read side, operators on a volume | |
| `Fat32Mut` | the write side: a write as a relation between a volume before, after, and what is returned | `Fat32` |
| `Fat32Sound` | what the write side takes for granted of a volume: where directories are, that chains are apart | `Fat32` |
| `Fat32History` | any sequence of writes, with history variables and the properties | `Fat32Mut`, `Fat32Sound` |
| `Fat32ReadProofs` | lemmas about the read side: chains, walks along paths, listings | `Fat32Sound`, TLAPS |
| `Fat32WriteProofs` | lemmas about one write to one volume | `Fat32Mut`, `Fat32ReadProofs` |
| `Fat32Proofs` | theorems about `Fat32History` | `Fat32History`, `Fat32WriteProofs` |
| `VolumeParts` | abstract: entries and clusters that change one at a time | |
| `Geometry` | the bytes of a volume: boot sector, offsets, writes | `Volume == INSTANCE VolumeParts WITH ...` |
| `GeometryProofs` | theorems about `Geometry` | `Geometry`, TLAPS |
| `ShortNames` | names and paths by characters | |
| `ShortNamesProofs` | theorems about `ShortNames` | `ShortNames`, TLAPS |
| `ImageStore` | abstract: a store of files that puts change | |
| `FatShell` | `main.rs`: the shell and `--put` on one file | `Fat32Mut`, `Fat32Sound`; `Store == INSTANCE ImageStore WITH ...` |
| `FatShellProofs` | theorems about `FatShell` | `FatShell`, `Fat32WriteProofs` |
| `MC...` | small instances | |

Definitions have the names of the functions they model; operators whose name
describes a mistake (`AllocKeepsHead`, `free_head`, ...) stand right before the
definition they are a variation of and are used by no specification.

### Allocator

`SlabAllocator` has one variable per field (`heap_start`, `heap_end`, `bump`,
`head` for `caches[i].head`, `initialized`) and `mem`, the memory as a function
from addresses to words. One unit of address space is the eight bytes of a
`FreeNode`, the smallest block, so every address can hold a link. `None` in an
`Option<NonNull<_>>` is 0, as it is in memory. Two more variables are not in
the code: `live`, the allocations that callers hold, which says which calls of
`dealloc` are legal and what callers may write to, and `carved`, a history
variable with the blocks each class was ever given.

`alloc` is the disjunction of its four outcomes. `AllocRefill` contains the
whole of `refill_cache` - chunk from the bump pointer, zero fill, all blocks
pushed - and the pop that follows it. `Store` is the environment: a caller
writes in memory it holds, over a former link too.

`LockedAlloc` splits the same calls into steps with at most one store each
(`pc` says what a thread does next, `reg` is its local variable) and adds the
lock word. Failed compare-exchanges change nothing and are stuttering. It works
on the variables of `SlabAllocator`: a block enters and leaves `live` at the
store that takes it from the free memory or puts it back, so that the
properties of `SlabAllocator` can be asked at every single store. What callers
know is `held`: the caller of `dealloc` gives its memory up when it makes the
call, the caller of `alloc` gets its memory when the call returns, and only what
is in `held` may be freed or written to.

### FAT32

A volume is a record of the copies of the table and the clusters. A cluster is
a sequence of units of 32 bytes, because the code reads the same bytes as file
data and as directory entries: an entry, a deleted entry, the end mark (first
byte 0) or text. Sizes count units. Names are 8.3 names already encoded, paths
are sequences of names. `Fat32` has the read functions as operators that return
`Ok(value)` or `Err(error)`, like the code; `Try` is its `?`. A listing is a
function from the slots of the directory's chain that are listed to entries: the
slots keep the order of the code's vector, and where an entry lies is what the
write side is about. `RootEntry` is what a path of no parts leads to, and has
the root's cluster.

`Fat32Mut.write_file_by_path` is a relation between the volume a call finds, the
one it leaves and what it returns, with one alternative for each way out: `Refused`
and `NoClusters` (nothing changed), `TornOverwrite` (old chain freed, entry not
updated), `Overwrite`, `Create` (with the new end mark), `NoSlot` (clusters
allocated and written, no entry). Inside a way out nothing can interleave - the writer owns
the buffer - so the order of the code's writes shows in which of them are done.
`Fat32History` runs it with history variables: `written`, the path of the last
write; `files`, what each path should hold; `torn`, the paths whose overwrite failed half way; `leaked`, the clusters
of failed creations. Its action `new` turns to another freshly loaded volume.

`Fat32Sound` says in parts what a volume must be like for writes to be safe on
it. `DirsSound(d, D)`: the clusters `D` of the directories are linked among
themselves, each by one link; a directory begins in one that no link of `D` leads
to; behind the cluster with the end mark every cluster begins with one; no name is
twice in a directory. `FilesSound(d, D)`: each file has a first cluster of its
own that no link leads to, and no chain of files runs into another or into a
free cluster. Only names are said of whole chains; the rest is about single
clusters and links, which is what makes it possible to prove that a write keeps
it.

### Geometry

`Geometry` is what lies below: `disk` is a function from offsets to bytes, and
`g` the record of the fields of the boot sector with the length of the buffer.
Offsets and sizes are the formulas of the code; `usize` is unbounded (the
products stay below 2^64 for the widths of the fields), the casts to `u32` in
`max_cluster_number` are `% U32`. The actions are the four writes to bytes:
`write_fat_entry_all` (copy after copy, up to one that is outside of the
buffer), one cluster of `write_chain_data`, `write_dir_entry_at_offset` in a
slot that a search can return, and the end mark behind it. A directory entry
is one repeated byte: where it goes matters here, what it says does not.
`VolumeParts` is the view that `Fat32` and `Fat32Mut` have, and
`ImplementsVolume` justifies it: the reserved bytes, `Tables` and `DataArea` are
its variables as functions of `disk`.

### Names

`ShortNames` has characters: a letter in both cases, the dot, the space, NUL, a
letter that is not ASCII, the slash. The state is a root directory of empty
files. `write_file_by_path` goes through `split_parent`, `Encodable` and
`encode_short_name_8_3`; `open_path` through `split`, `parse` and
`normalize_name`. `split` is given by where the parts start (`Starts`) and how far
they go (`PartFrom`). The invariants compare the two on every path of the instance
in every directory that can be reached.

### Command line

`FatShell` has the file (`image`, and `cut` when it was emptied or in part
written and not made whole since), and for each of the two programs where it is (`at`), its buffer and
its puts that are in the buffer and not in the file (`job`). `put` and
`cli_write` are the whole of `Fat32Mut.write_file_by_path` on that buffer.
`Resolved` (`resolve_path`) is a recursive function of how many parts are done, so
that it can be reasoned about. `TreeKept` compares what all paths that lead to a
directory list with what they listed in an image of `Images`, of which an
instance has one.
`fs::write` is two steps, `Truncate` and `WriteAll`, and may fail at each
(`OpenFails`, `WriteFails`); `Crash` ends a program anywhere, and stands for
`exit` at a prompt. Both programs may be between the two steps at once. One that
fails or crashes there may have written in part: over the file it emptied, over
one the other has emptied since, or over one the other has saved since. In each
case the file is no image any more and `cut` is the program that wrote last; or
it has written nothing, and `cut` stays. `held` (what each path holds in the file), `torn`, `stale`
and `suspect` are history variables. `ImageStore` is the promise: the file
changes by puts only, each whole or not at all. `ImplementsStore` shows it with
`Lost` allowed in three cases, which `suspect` records: a program ends that left
the file empty or in part written, the shell saves after a put that failed half
way, a program saves a buffer that is older than the file. `CutIsHeld` is what makes
the first of them a loss only then: until it happens, the contents that are not in
the file are in the buffer of the program that `cut` names.

## 3. Runs

| run | instance | shows |
|---|---|---|
| `util_bits` | all pairs of 5-bit words | the mask of `align_up` is the arithmetic form, also when the sum wraps; `is_power_of_two` is right; the result is the least multiple while the sum fits |
| `slab` | classes 2 and 4, chunks of 4, heaps of 9 and 12 units off any chunk boundary, four layouts, one junk value; 13 063 states | `NoOverlap`, `WellPlaced`, `NoLostBlock`, the inductive invariant, and that `GlobalAlloc` is implemented |
| `locked` | two threads (symmetric), classes 1 and 2, chunks of 2, a heap of 6; 218 017 states | `MutualExclusion`, `NoOverlap` and `NoLostBlock` at every store, the inductive invariant `LockedInv`, and that callers see `GlobalAlloc` |
| `locked_live` | three threads, one chunk and one large allocation; 5 877 states | `HolderLeaves`, `WaiterServed` |
| `fat32_write` | two volumes of five clusters of two units, two free; 8 paths, 3 contents; 20 500 states | table copies agree, no cluster shared, none lost, sizes fit chains, names unique, everything reads back, directories stay, no write touches a cluster in use that is not of the path it was given (`OthersUntouched`), what writes rely on stays so (`Sound`) |
| `geometry` | sectors of 4 and 6 bytes, 1 to 3 copies, the data area or the table as the limit, no reserved sectors, no clusters, a refused boot sector; 12 847 states | sizes the code divides by are not 0, `EverythingInPlace`, `EntriesReadBack`, `ImplementsVolume` |
| `names` | bases of 2, extensions of 1, a directory of 2 entries, 299 paths; 1 026 states | `OneNamePerFile`, `ReadsWhatItWrites`, `WrittenIsFound` |
| `shell` | both programs, one volume of five clusters with two free, a file and a directory; words with `.`, `..` and slashes; at most 4 puts; 185 876 states | `CurrentDirStays`, `TreeKept`, `CutIsHeld`, `SavedReadsBack`, `ImplementsStore` |

What the properties of `names` say about the code: a file is found again under
the name it was written under unless that name ends in a dot, has a space before
the dot or at the end, or starts with NUL (it is stored without them; with NUL
the entry is an end mark). A file can be read and not written where the base is
blank (`.B` for ` .B`) or three slashes or more come before the name (`///B`).

Runs that end in a violation, each a disagreement between the code and its own
documentation (the quotes are in `PROJECT.json`):

| run | what happens |
|---|---|
| `fat32_long_read` | a file of more than 4096 clusters can be written, and is read short without an error (`free_chain` has the same limit: overwriting such a file frees its first 4096 clusters only) |
| `fat32_end_mark` | creating a file in the last slot of a directory cluster writes no end mark although the directory goes on; old entries of the next cluster are listed again |
| `shell_persist` | overwriting a file with more than fits frees its chain, then fails; the shell goes on with that buffer, and the next put that succeeds saves it. The first file cannot be read any more, although its put was reported as failed |
| `shell_cd` | `cd` to the root is always refused, by any path: `open_path` has no entry for it |

Three more that no run exhibits, because they can be read off the model:
`align_up` wraps for addresses in the last `align - 1` bytes (`RoundsUp` has the
precondition that `util.rs` does not state); contents of 2^32 bytes and more are
stored under a truncated size (`SizeMod` in `write_dir_entry`); reading `/H/X`
with an empty file `H` is `Err(InvalidCluster)` and not `Ok(None)`.

### Bounds

* Allocator: two classes are the least that can overlap each other; a chunk of
  each class has several blocks or exactly one; the heaps hold two chunks, or a
  large allocation and a chunk, and start unaligned, so exhaustion, waste
  before a chunk and every path of `alloc` occur. Larger instances are covered
  by the proofs, not by TLC.
* `locked`: two threads suffice for every race on a pair of stores; three in
  the liveness run, so that a waiter can be overtaken.
* FAT32: with two free clusters a two-cluster content fills the volume, so
  every failure happens within a few writes; directories of one and of two
  clusters, full and with free, deleted and hidden slots. `MaxChain` stands for
  the 4096 of the code: 2 in `fat32_write`, where the longest chain has exactly
  that length, and in `fat32_long_read`, where it has one more. `SizeMod` stands
  for 2^32. `MaxTorn` bounds how many torn files a behaviour may have before it
  stops writing; what comes after is the subject of `shell` (`TreeKept`).
  The copies of the table change in one step here, so `MirrorsAgree` cannot see
  a return between two copies (`lib.rs:691`). That there is none is `ImplementsVolume`
  of `geometry`, where `write_fat_entry_all` goes copy after copy.
* `geometry`: `BOOT`, `SLOT` and `U32` are scaled from 512, 32 and 2^32; no
  volume of the instance is large enough for a cast to cut anything. The proofs
  are about all values. `EntriesReadBack` says that an entry reads as a value
  that was written to the table; which one, is `ImplementsVolume`.
* `names`: all names of up to 3 characters, and those without letters in lower
  case up to 4, reach one more than each limit; all paths of slashes and a
  letter up to 5.
* `shell`: `MaxPuts` is 4: a failed put, a put of each program in between and
  one after it. Two programs are all that `main.rs` has; a second `--put` is the
  same program again. A file that is in part written is taken as empty: of what
  is there the code may read more, and nothing is claimed about it. A save that
  succeeds is one step, `WriteAll`: `fs::write` hands the whole buffer to one
  write. That two saves both succeed after short writes and mix is not modelled;
  the one that ends last is then older than the file, which `suspect` records.

### Fairness

`locked_live` assumes weak fairness of each thread's own steps and of its
compare-exchange on the lock: a thread that can run is scheduled eventually,
and one that spins keeps trying. The lock is documented as unfair, so nothing
stronger is assumed: `WaiterServed` only promises an answer once the other
threads stop calling. All other runs are about safety and assume no fairness.

## 4. Proofs

Every theorem holds for all values of the constants that meet the assumptions
named below; TLC evaluates the assumptions on the instances of the runs.

### Slab allocator

`SlabAllocatorProofs`:

* `InductiveInvariant` : `Spec => []IInv`
* `AllocationsDisjoint` : `Spec => []NoOverlap`
* `AllocationsWellPlaced` : `Spec => []WellPlaced`
* `NothingLost` : `Spec => []NoLostBlock`
* `Refinement` : `Spec => ImplementsGlobalAlloc`

Assumptions: class sizes are positive and divide the chunk size; layouts have a
positive size and alignment, and an alignment not above a class size divides it
(both are powers of two in the code); a heap does not start at 0, and ends at
least one chunk and one alignment below the end of the address space, so that
`align_up` does not wrap on it.

The argument. `NoOverlap` is not inductive: nothing in it keeps a free-list
head from naming a block somebody holds. `IInv` says of single blocks and
single links what is needed, without talking about whole lists:

* `RegionInv` - the bump pointer is in the heap, the heap below the wrap;
* `BlocksInv` - blocks are aligned to their class, below the bump pointer, and
  pairwise apart across all classes;
* `LiveInv` - an allocation is a block of its class or a large one apart from
  every block; no address is held twice;
* `ListsInv` - heads and links are null or free blocks of their class, no link
  leads to the head, no two links to one block. This is what a pop needs: after
  it, nothing leads to the block that was handed out;
* `CompleteInv` - a set of free blocks that has the head, and the target of
  each of its links, has all free blocks. This is what `NoLostBlock` needs, and
  it says so without following the list: the list is the least such set.

The lemmas go action by action (`InitStep`, `PopStep`, `RefillStep`,
`LargeStep`, `DeallocStep`, `StoreStep`); `Tiling` says that the blocks of a
chunk lie in it and apart, `AlignUp` that rounding is right when it does not
wrap, both from small facts on multiples and remainders. `WholePop`,
`WholePush` and `WholeEmpty` say what a pop, a push and a chunk cut into blocks
do to a complete list. `Refinement` maps each successful `alloc` to `Grant`
with the disjointness the invariant gives. `NothingLost` needs one more fact:
`Reached` follows the links for as many rounds as there are addresses, and each
round but the last finds a new block (`VisitsFindAll`), so it ends with a set
that `CompleteInv` speaks of.

### Locked allocator

`LockedAllocProofs`, for any number of threads and the same assumptions:

* `LockedInvariant` : `LockedSpec => []LockedInv`
* `ThreadsTyped` : `LockedSpec => []ThreadsTypeOK`
* `LockExcludes` : `LockedSpec => []MutualExclusion`
* `LockedDisjoint` : `LockedSpec => []NoOverlap`
* `LockedNothingLost` : `LockedSpec => []NoLostBlock`
* `CallersRefinement` : `LockedSpec => CallersSeeGlobalAlloc`

The invariant of the slab allocator holds at every single store, but it is not
inductive over them: the step that pushes a block relies on the link stored one
step before, the step that pops one on the head read one step before, and in
between other threads call, return and write to their memory. `LockedInv` adds
to `IInv` and `MutualExclusion`:

* `CallInv` - which program counters go with which call and argument;
* `HandsInv` - an allocation is held by a caller, or on its way back in one
  call of `dealloc`, or on its way out in one call of `alloc`, and never two of
  these;
* `ReadInv` - what the thread in the critical section has read is still so: the
  start of the new memory is still the bump pointer's, the rest of the chunk it
  is cutting is apart from everything (`Uncut`), the link of the node it is
  about to push is the head, the head it is about to pop is still the head.

There is one lemma per step (`SetRegionKeeps` to `CallerStoreKeeps`);
`InnerFrame` and `OuterFrame` say what a step leaves alone that has the lock, or
does not. That a caller's store misses the node somebody is linking is
`StoreMissesNode`: the node is free, or on its way back and so no longer held.

### Volume geometry

`GeometryProofs`, for every boot sector and buffer that `parse_bpb` accepts,
whatever the fields (assumed only to be natural numbers; the bytes written to
directory slots are bytes):

* `OffsetsInPlace` : `Spec => []EverythingInPlace`
* `GeometryTyped` : `Spec => []TypeOK`
* `TableReadsBack` : `Spec => []EntriesReadBack`
* `BytesImplementVolume` : `Spec => ImplementsVolume`

`ClustersInRange` takes `max_cluster_number` apart: the casts only make numbers
smaller, so the last cluster is not beyond the data area nor its entry beyond
the table. `EntryPlace`, `ClusterPlace`, `EntriesApart` and `ClustersApart` are
the geometry, from `TimesMonotone` and `DivTimes`. The refinement has one lemma
for writes to the table (`EntryStep`: every copy is reached, and no byte belongs
to two entries) and one for writes inside a cluster (`ClusterStep`), which the
three others reduce to. The invariant is `Shape`: the fields do not change and
the buffer keeps its length. For what is read back it is `Stored`: the four
bytes of each entry are those of one masked value. `BytesOfValue` says that the
bytes of a value that `to_le_bytes` gives add up to it again, and a write to a
cluster reaches none of them.

### Writes to a volume

`Fat32Proofs`, for volumes of any size, any number of copies of the table, any
paths and contents:

* `MirrorsStayEqual` : `Spec => []MirrorsAgree`
* `Fat32Typed` : `Spec => []TypeOK`
* `WritesKeepOthers` : `Spec => OthersUntouched`, for the path that was written
* `VolumeStaysSound` : `SoundImages /\ PlainContents => (Spec => []Sound)`
* `DirectoriesStay` : `SoundImages /\ PlainContents => (Spec => DirsStay)`
* `NamesStayUnique` : `SoundImages /\ PlainContents => (Spec => []UniqueNames)`
* `ChainsStayApart` : `SoundImages /\ PlainContents => (Spec => []NoCrossLinks)`
* `WritesReadBack` : `SoundImages /\ PlainContents /\ OnePathEach /\ ContentsFit
  => (Spec => []ReadsBack)`
* `SizesStayTrue` : `SizedImages /\ PlainContents /\ ContentsFit
  => (Spec => []SizesFit)`
* `ClustersStayHeld` : `WholeImages /\ PlainContents /\ ContentsFit
  => (Spec => []NoLostClusters)`

Assumptions on the volumes to start from: the copies of the table agree
(`ImagesAssumption`), and every link is free, a cluster of the volume or an end
of chain (`RangeAssumption`; the code reports anything else as an error or goes
out of bounds). Paths and contents are sequences (`SequenceAssumption`), the model
value `None` is no entry that a write makes (`NoneAssumption`), and numbers of
clusters are below those of end marks (`MarkAssumption`). For the first three
theorems nothing is assumed about chains: they may be shared, cyclic or longer
than what is followed.

The others need hypotheses, which stand in the theorems because one run
(`fat32_end_mark`) is about a volume that breaks them:

* `SoundImages` - the volumes meet `DirsSound` and `FilesSound`; `fat32_write`
  checks it of its own as the initial case of `Sound`;
* `PlainContents` - no unit of a content parses as a directory entry (a path
  through a file would list it, `lib.rs:246`);
* `OnePathEach` - a directory is reached by one of the paths written only. `.`
  and `..` of subdirectories give others, and then a file has two paths, of
  which history knows one;
* `ContentsFit` - a content needs no more clusters than a chain is followed for
  and its size fits the field. Without the first it is read short, which is what
  `fat32_long_read` shows; without the second the size wraps;
* `SizedImages` - `SoundImages`, and the chain of each file is as long as its
  size asks for;
* `WholeImages` - `SoundImages`, and besides the clusters of the directories and
  the files nothing is in use, every directory is listed by a path, and the
  chain of each file is followed to its end.

TLC finds all of them true on the volumes of `fat32_write`.

For `OthersUntouched` the invariant is `FatInv`: the disk is a volume
(`IsVolume`) and `TypeOK`. `OthersUntouched` is a statement about a whole write,
which is up to five changes of the volume in a row, so the proof has a frame:
`Changed(d, e, T, D)` says that `e` is a volume if `d` is, and that they differ
in the links of `T` and the contents of `D` at most. `TableChanged` and
`DataChanged` are the two ways to change a volume, `ChangedTwice` composes them,
and `FreeChanges`, `StoreChanges`, `EntryChanges` and `EndChanges` give the sets
for each function. What remains is that the sets are the right ones: that
`alloc_chain` returns free clusters (`Allocated`, over `NthOf`: the k-th number of
a finite set is one of it), that the slots the searches return are slots of the
directory's chain, and that the chain that is freed is that of an entry with the
path's name before the end of the directory (`EntryFound`).

For directories and names the invariant is `DirsInv`: there is a set `D` of
clusters with `DirsSound(disk, D)`. `DirsKept` is the step: a write changes no
link of `D`, and contents there in one slot and the end mark behind it. That a
file's new entry lists no name twice rests on the search that found none,
whatever lies behind the end mark; that the directories are the same for every
path is an argument along the path (`Walk`: the clusters after each part, a
recursive function).

For chains it is `SoundInv`, with `FilesSound` besides as long as no write was
torn: after `TornOverwrite` an entry names free clusters, and the next
allocation gives them to another file. `NoCrossLinks` follows by `ChainsApart`,
which goes back along two chains that meet to where they begin. The steps are
`FreeFiles` (the old chain), `StoreFiles` (the new one, linked as it was
allocated) and `EntryFiles` (the entry that names it), put together in
`AddKeeps`, `ReplaceKeeps` and `WriteKeeps`. Between freeing and writing the
entry `FilesSound` is false of the one file that is written; `FilesSoundBut` leaves
its slot out.

For contents it is `ReadsInv`: `SoundInv`, `OnePath` and `ReadsBack` itself. A
write keeps what every other slot reads (`ReadsKept`: the clusters of other files
are closed under links and unchanged, so the same chain is followed), and its
own slot reads the new content (`StoredReads`: the pieces in the clusters of
the new chain, in order, cut at the size, are the content). Other paths
lead to another slot: they have another name, or another directory, whose
chain is apart.

For sizes it is `SizesInv`, which adds `Sized` to `SoundInv`: the clusters of a new
chain are as many as `needed` asked for (`Took`), and those of another file are
the same set as before (`FileStays`). For lost clusters it is `LostInv`:
`Accounted` says that the clusters in use are those of the directories, of the
files and of `leaked`, and that the files have none of `leaked`. Both halves are
needed: what is freed with a file must not be accounted for otherwise. `AllFollowed`
is there because `free_chain` frees what `follow_chain` returns, the first
`MaxChain` clusters of a chain: what lies behind them would be lost.

### Names

`ShortNamesProofs`, for all widths of base and extension, directories of any
size and any paths (sequences of characters):

* `NamesTyped` : `Spec => []TypeOK`
* `NamesUnique` : `Spec => []OneNamePerFile`
* `WrittenIsFoundAgain` : `Spec => []WrittenIsFound`
* `ReadsWhatIsWritten` : `Spec => []ReadsWhatItWrites`

`OneNamePerFile` compares decoded names in upper case, while `Create` only
tests that no entry has the same encoded bytes. The invariant `NamesInv` is that
every entry is an encoded name (two parts as wide as their fields, in upper
case and ASCII, without dots), that no two entries are equal, and that no entry
but the last starts with NUL. The lemmas then say that decoding tells encoded
names apart: trimming two parts of one width to one text means they were equal
(`TrimInjective`), and the dot that `parse` puts between base and extension can
be found again (`NamesTell`).

The other two compare the ways of writing and reading to a name. `Answers` says
which names an entry answers to: those that `Base` and `Ext` cut into the texts
of its fields, and that do not end in the dot. `PaddedTrims` says when padding
and trimming give the text back: when it does not end in a space. For paths,
`NameOfPart` says that `split` and `split_parent` find the same name in a path
with one part; `WrittenPath` and `FoundPath`, that a path which is accepted for
writing, or finds something, is such a path.

### Command line

`FatShellProofs`, for images that meet `DirsSound` and `Headed` (every directory
that is named has a cluster), plain contents, words and contents that are
sequences, and no programs but the two of `main.rs` (`ProgramsAssumption`; the
model value `None` is no entry that is written, `NoneAssumption`):

* `TreeIsKept` : `Spec => []TreeKept`
* `CurrentDirIsListed` : `Spec => []CurrentDirStays`
* `ShellTyped` : `~ IsVolume(None) /\ None \notin Images => (Spec => []TypeOK)`
* `SavesReadBack` : `ContentsFit => (Spec => SavedReadsBack)`
* `ShellImplementsStore` : `StoreFits => (Spec => ImplementsStore)`
* `CutFileIsHeld` : `StoreFits => (Spec => []CutIsHeld)`

The invariant `ShellInv` says that the file and both buffers list what the same
image listed at the start: every path that leads to a directory leads to the
same cluster. It survives torn writes, stale saves and crashes, because
`DirsSound` does: `WriteKeeps` gives it for every way out of a write. It needs no
`FilesSound`, so it also holds where the contents of files are lost.

`SavesReadBack` needs no `FilesSound` either: what a write that returns `Ok` stored
it reads back in any buffer whose directories are sound (`CopyWritten`), and a
program that is saving has changed nothing since (`SaveInv`).

For the refinement the hypothesis `StoreFits` says that contents fit, that the
model value `None` is none of the values it stands apart from, and that the
images are intact: `FilesSound`, every path looked at has a directory, and no
other path reaches that one. The invariant `StoreInv` is about the programs that
can be relied on (`Relied`: running, loaded, not older than the file, no write
torn): their buffer is intact and `Ahead` of the file by their own pending puts
only, path by path. While `suspect` is false the file is intact and every such
program is `Current`; a save of any other buffer makes it suspect, which is the
abstract store being lost. The steps are `WriteSound`, `SaveSound`, `LoadSound`
and `EndSound`; `OthersCurrent` says that a program's own step leaves the other's
buffer and puts alone, and a save puts the other among the stale. `StoreStep`
then maps each step: a save to `Commit`, a put to `Put`, the end of a program to
`Drop`, whatever makes the file suspect to `Lose`. A put to a path that nobody
looks at is a stutter: `pending` has the puts to `Paths` only, as `store` does.

For `CutIsHeld` the invariant adds `CutInv`: the program that left the file empty
runs, has a buffer, and if it is `--put` it is still saving, because it ends when
its save fails. That the buffer has what the file held is `StoreInv`.

TLC finds `StoreFits` (without its clauses about `None`, and with `Known` up to
paths of three parts) and the conditions of `StoreInv` true on the instance of
`shell`, with up to three puts.

### How the proofs work around induction

The installed provers cannot use an induction rule with an operator as
parameter. Where a proof needs one (`Least`, `NthOf`, `VisitsFindAll`,
`LastPlace`, `Walk`) it takes the least counterexample instead: the set of those
numbers for which the claim fails has a least element (`WFMin` of the library,
with `NatLessThanWellFounded`), and the step refutes it. What the code does in a
loop and the proofs follow is a recursive function with a bound for its domain
(`Followed` for `follow_chain`, `Walk` along a path, `Resolved` for
`resolve_path`), whose equation at one number is all that the step needs.

### Only model-checked

* liveness (`HolderLeaves`, `WaiterServed`), out of the provers' reach;
* `UtilBits`: `Bitwise` is defined with `RECURSIVE` operators.

## 5. What is left

Every invariant and action property of the runs that pass is the statement of a
theorem, but for those of `UtilBits`; the two liveness properties are checked
only.

Not modelled:

* the kernel demo (`kernel/src/main.rs`): straight-line calls of the two
  libraries, with no choice, failure or second actor of its own;
* serial port and VGA output: pure I/O; `vga.rs` is not compiled;
* the parsing of the command line's arguments and what is printed;
* boot sectors without reserved sectors, as far as the boot sector itself goes:
  the table then lies over it, and a later load reads other parameters;
* contents that look like directory entries (a path through a file reads them).
