------------------------------ MODULE Geometry ------------------------------
(***************************************************************************)
(* fat32/src/lib.rs, the bytes below Fat32 and Fat32Mut: where the boot    *)
(* sector says that the copies of the table and the clusters are, how far  *)
(* cluster numbers go, and the writes to the buffer.                       *)
(*                                                                         *)
(* g is the record of the fields of the boot sector (BpbParams), with the  *)
(* length of the buffer as len.                                            *)
(***************************************************************************)
EXTENDS Integers

CONSTANTS Geometries,    \* the boot sectors and buffer lengths
          Values,        \* the values stored in the table
          Bytes,         \* the bytes stored in clusters
          BOOT,          \* 512, what parse_bpb asks a buffer to hold
          SLOT,          \* 32, the size of a directory entry
          U32            \* 2^32

ASSUME GeometryAssumption ==
    /\ BOOT \in Nat \ {0} /\ SLOT \in Nat \ {0} /\ U32 \in Nat \ {0}
    /\ Values \subseteq Nat /\ Bytes \subseteq 0 .. 255
    /\ \A g \in Geometries :
          {g.bytes_per_sector, g.sectors_per_cluster, g.reserved_sectors,
           g.num_fats, g.sectors_per_fat, g.len} \subseteq Nat

VARIABLES g, disk

vars == <<g, disk>>
-----------------------------------------------------------------------------
(* parse_bpb accepts the boot sector.                                      *)
parse_bpb_any_cluster(h) ==
    h.len >= BOOT /\ h.bytes_per_sector # 0 /\ h.num_fats # 0 /\ h.sectors_per_fat # 0
parse_bpb(h) ==
    /\ h.len >= BOOT
    /\ h.bytes_per_sector # 0 /\ h.sectors_per_cluster # 0 /\ h.num_fats # 0
    /\ h.sectors_per_fat # 0

cluster_size(h)   == h.bytes_per_sector * h.sectors_per_cluster
fat_start_byte(h) == h.reserved_sectors * h.bytes_per_sector
fat_bytes_len(h)  == h.sectors_per_fat * h.bytes_per_sector
data_start_behind_one(h) == fat_start_byte(h) + h.sectors_per_fat * h.bytes_per_sector
data_start_byte(h) ==
    fat_start_byte(h) + h.num_fats * h.sectors_per_fat * h.bytes_per_sector

(* max_cluster_number: the last cluster that the data area has room for    *)
(* and the table an entry.  The casts to u32 keep the low bits.  Here it   *)
(* is 0, no cluster at all, where the code returns an error.               *)
data_clusters(h) == ((h.len - data_start_byte(h)) \div cluster_size(h)) % U32
fat_entries(h)   == (fat_bytes_len(h) \div 4) % U32
last_by_data_rounded_up(h) == (2 + data_clusters(h)) % U32
last_by_data(h)  == (2 + data_clusters(h) - 1) % U32
last_by_fat_off(h) == fat_entries(h)
last_by_fat(h)   == fat_entries(h) - 1
max_cluster_number(h) ==
    IF \/ data_start_byte(h) >= h.len
       \/ data_clusters(h) = 0
       \/ fat_entries(h) < 3
    THEN 0
    ELSE IF last_by_data(h) < last_by_fat(h) THEN last_by_data(h) ELSE last_by_fat(h)
Clusters(h) == 2 .. max_cluster_number(h)
Copies(h)   == 0 .. h.num_fats - 1

(* cluster_to_offset and the test that the whole cluster is in the buffer, *)
(* of read_cluster and of the writes; entry_offset in copy i of the table. *)
cluster_to_offset(h, c) == data_start_byte(h) + (c - 2) * cluster_size(h)
InBuffer(h, from, size) == from + size <= h.len
entry_offset(h, i, c)   == fat_start_byte(h) + i * fat_bytes_len(h) + c * 4

Range(from, size) == from .. from + size - 1
Overwritten(from, size, Byte(_)) ==
    [o \in DOMAIN disk |-> IF o \in Range(from, size) THEN Byte(o - from) ELSE disk[o]]
-----------------------------------------------------------------------------
Init ==
    /\ g \in {h \in Geometries : parse_bpb(h)}
    /\ disk = [o \in 0 .. g.len - 1 |-> 0]

(* The mask 0x0FFF_FFFF, to_le_bytes of a value and from_le_bytes.         *)
Masked(v) == v % 268435456
Place == <<1, 256, 65536, 16777216>>
be_byte(v, k) == (Masked(v) \div Place[4 - k]) % 256
le_byte(v, k) == (Masked(v) \div Place[k + 1]) % 256
read_fat_entry(c) ==
    LET o == entry_offset(g, 0, c)
    IN  Masked(disk[o] + 256 * disk[o + 1] + 65536 * disk[o + 2] + 16777216 * disk[o + 3])

(* write_fat_entry_all: one copy after another, up to one that is outside. *)
Reached(c) == {i \in Copies(g) : \A j \in 0 .. i : InBuffer(g, entry_offset(g, j, c), 4)}
write_fat_entry_all(c, v) ==
    /\ disk' = [o \in DOMAIN disk |->
                  IF \E i \in Reached(c) : o \in Range(entry_offset(g, i, c), 4)
                  THEN le_byte(v, o - entry_offset(g,
                          CHOOSE i \in Reached(c) : o \in Range(entry_offset(g, i, c), 4), c))
                  ELSE disk[o]]
    /\ UNCHANGED g

(* write_chain_data, one cluster: n bytes b, the rest cleared.             *)
write_cluster(c, n, b) ==
    /\ InBuffer(g, cluster_to_offset(g, c), cluster_size(g))
    /\ disk' = Overwritten(cluster_to_offset(g, c), cluster_size(g),
                           LAMBDA k : IF k < n THEN b ELSE 0)
    /\ UNCHANGED g

(* write_dir_entry_at_offset in a slot of a cluster that find_... returned *)
(* (chunks(32), the short last one left out), and the end mark behind it.  *)
slots(h) == cluster_size(h) \div SLOT
write_dir_entry_at_offset(c, s, b) ==
    /\ InBuffer(g, cluster_to_offset(g, c), cluster_size(g))
    /\ disk' = Overwritten(cluster_to_offset(g, c) + s * SLOT, SLOT, LAMBDA k : b)
    /\ UNCHANGED g
end_mark(c, s) ==
    LET next == cluster_to_offset(g, c) + (s + 1) * SLOT
    IN  /\ next < cluster_to_offset(g, c) + cluster_size(g)
        /\ disk' = Overwritten(next, 1, LAMBDA k : 0)
        /\ UNCHANGED g

Next ==
    \E c \in Clusters(g) :
       \/ \E v \in Values : write_fat_entry_all(c, v)
       \/ \E n \in 1 .. cluster_size(g), b \in Bytes : write_cluster(c, n, b)
       \/ \E s \in 0 .. slots(g) - 1 :
             end_mark(c, s) \/ \E b \in Bytes : write_dir_entry_at_offset(c, s, b)

Spec == Init /\ [][Next]_vars
-----------------------------------------------------------------------------
(* Properties.                                                             *)

TypeOK ==
    /\ g \in Geometries /\ disk \in [0 .. g.len - 1 -> 0 .. 255]
    /\ cluster_size(g) > 0 /\ fat_bytes_len(g) > 0 /\ g.num_fats > 0

(* Every cluster up to max_cluster_number, and its entry in every copy of  *)
(* the table, lies in the buffer, entries in their own copy, clusters      *)
(* behind the tables.                                                      *)
EverythingInPlace ==
    \A c \in Clusters(g) :
       /\ \A i \in Copies(g) :
             /\ fat_start_byte(g) + i * fat_bytes_len(g) <= entry_offset(g, i, c)
             /\ entry_offset(g, i, c) + 4 <= fat_start_byte(g) + (i + 1) * fat_bytes_len(g)
             /\ fat_start_byte(g) + (i + 1) * fat_bytes_len(g) <= data_start_byte(g)
       /\ data_start_byte(g) <= cluster_to_offset(g, c)
       /\ InBuffer(g, cluster_to_offset(g, c), cluster_size(g))

(* The buffer implements a volume whose parts change one at a time: a      *)
(* write to an entry or to a cluster reaches no byte of another one, nor   *)
(* of the reserved sectors, and leaves the copies of the entry equal.      *)
Bytes4(i, c) == [k \in 0 .. 3 |-> disk[entry_offset(g, i, c) + k]]
Contents(c)  == [k \in 0 .. cluster_size(g) - 1 |-> disk[cluster_to_offset(g, c) + k]]
Reserved     == [o \in {p \in DOMAIN disk : p < fat_start_byte(g)} |-> disk[o]]
Tables       == [i \in Copies(g) |-> [c \in Clusters(g) |-> Bytes4(i, c)]]
DataArea     == [c \in Clusters(g) |-> Contents(c)]
Volume == INSTANCE VolumeParts WITH reserved <- Reserved, fat <- Tables, data <- DataArea
ImplementsVolume == Volume!Spec

(* What is read from the table is a value that was stored there, without   *)
(* its upper four bits, or none.                                           *)
EntriesReadBack ==
    \A c \in Clusters(g) : read_fat_entry(c) \in {Masked(v) : v \in Values \cup {0}}
=============================================================================
