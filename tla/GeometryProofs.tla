--------------------------- MODULE GeometryProofs ---------------------------
(***************************************************************************)
(* The bytes of a volume, for every boot sector that parse_bpb accepts and *)
(* every length of the buffer: each cluster number that the allocator can  *)
(* use has its entries and its cluster in the buffer, apart from all       *)
(* others, and so the writes to the buffer are writes to a volume of       *)
(* independent parts.                                                      *)
(***************************************************************************)
EXTENDS Geometry, TLAPS

(* Multiplication by a natural number keeps an order.                      *)
LEMMA TimesMonotone ==
    ASSUME NEW a \in Int, NEW b \in Int, NEW n \in Nat, a <= b
    PROVE  a * n <= b * n
<1>1. PICK k \in Nat : b = a + k
  <2>1. b - a \in Nat
        OBVIOUS
  <2> QED BY <2>1
<1>2. b * n = a * n + k * n
      BY <1>1
<1>3. k * n \in Nat
      OBVIOUS
<1> QED BY <1>2, <1>3

(* What division leaves out is not negative.                               *)
LEMMA DivTimes ==
    ASSUME NEW a \in Nat, NEW n \in Nat \ {0}
    PROVE  a \div n \in Nat /\ (a \div n) * n <= a
    OBVIOUS

(* A cast to u32 does not make a number larger.                            *)
LEMMA CastBelow ==
    ASSUME NEW a \in Nat, NEW w \in Nat \ {0}
    PROVE  a % w \in Nat /\ a % w <= a
    OBVIOUS

(* An accepted boot sector: the sizes that the code divides by are not 0.  *)
Accepted(h) ==
    /\ h.bytes_per_sector \in Nat \ {0} /\ h.sectors_per_cluster \in Nat \ {0}
    /\ h.reserved_sectors \in Nat /\ h.num_fats \in Nat \ {0}
    /\ h.sectors_per_fat \in Nat \ {0} /\ h.len \in Nat

LEMMA ParsedIsAccepted ==
    ASSUME NEW h \in Geometries, parse_bpb(h)
    PROVE  Accepted(h)
    BY GeometryAssumption DEF Accepted, parse_bpb

LEMMA Sizes ==
    ASSUME NEW h, Accepted(h)
    PROVE  /\ cluster_size(h) \in Nat \ {0}
           /\ fat_start_byte(h) \in Nat
           /\ fat_bytes_len(h) \in Nat \ {0}
           /\ data_start_byte(h) \in Nat
           /\ data_start_byte(h) = fat_start_byte(h) + h.num_fats * fat_bytes_len(h)
<1> USE DEF Accepted
<1>1. cluster_size(h) \in Nat \ {0}
      BY DEF cluster_size
<1>2. fat_start_byte(h) \in Nat
      BY DEF fat_start_byte
<1>3. fat_bytes_len(h) \in Nat \ {0}
      BY DEF fat_bytes_len
<1>4. data_start_byte(h) = fat_start_byte(h) + h.num_fats * fat_bytes_len(h)
      BY DEF data_start_byte, fat_bytes_len
<1>5. h.num_fats * fat_bytes_len(h) \in Nat
      BY <1>3
<1> QED BY <1>1, <1>2, <1>3, <1>4, <1>5

-----------------------------------------------------------------------------
(* max_cluster_number: a cluster is not beyond the data area, its entry    *)
(* not beyond a copy of the table, whatever the casts to u32 cut off.      *)
LEMMA ClustersInRange ==
    ASSUME NEW h, Accepted(h), NEW c \in Clusters(h)
    PROVE  /\ c \in Nat /\ c >= 2
           /\ data_start_byte(h) < h.len
           /\ c - 1 <= (h.len - data_start_byte(h)) \div cluster_size(h)
           /\ c + 1 <= fat_bytes_len(h) \div 4
<1> DEFINE room == (h.len - data_start_byte(h)) \div cluster_size(h)
           size == fat_bytes_len(h) \div 4
<1>1. c \in Int /\ 2 <= c /\ c <= max_cluster_number(h)
      BY DEF Clusters
<1>2. /\ ~ (data_start_byte(h) >= h.len)
      /\ max_cluster_number(h) = IF last_by_data(h) < last_by_fat(h)
                                 THEN last_by_data(h) ELSE last_by_fat(h)
      BY <1>1 DEF max_cluster_number
<1>3. data_start_byte(h) < h.len /\ h.len - data_start_byte(h) \in Nat
      BY <1>2, Sizes DEF Accepted
<1>4. room \in Nat /\ size \in Nat
      BY <1>3, Sizes
<1>5. /\ data_clusters(h) \in Nat /\ data_clusters(h) <= room
      /\ fat_entries(h) \in Nat /\ fat_entries(h) <= size
      BY <1>4, CastBelow, GeometryAssumption DEF data_clusters, fat_entries
<1>6. last_by_data(h) \in Nat /\ last_by_data(h) <= 1 + data_clusters(h)
  <2>1. 2 + data_clusters(h) - 1 \in Nat
        BY <1>5
  <2>2. /\ last_by_data(h) \in Nat
        /\ last_by_data(h) <= 2 + data_clusters(h) - 1
        BY <2>1, CastBelow, GeometryAssumption DEF last_by_data
  <2> QED BY <2>2, <1>5
<1>7. last_by_fat(h) \in Int /\ last_by_fat(h) = fat_entries(h) - 1
      BY <1>5 DEF last_by_fat
<1>8. c <= last_by_data(h) /\ c <= last_by_fat(h)
      BY <1>1, <1>2, <1>6, <1>7
<1> QED BY <1>1, <1>3, <1>4, <1>5, <1>6, <1>7, <1>8

(* The place of an entry in a copy of the table.                           *)
LEMMA EntryPlace ==
    ASSUME NEW h, Accepted(h), NEW c \in Clusters(h), NEW i \in Copies(h)
    PROVE  /\ entry_offset(h, i, c) \in Nat
           /\ fat_start_byte(h) + i * fat_bytes_len(h) <= entry_offset(h, i, c)
           /\ entry_offset(h, i, c) + 4 <= fat_start_byte(h) + (i + 1) * fat_bytes_len(h)
           /\ fat_start_byte(h) + (i + 1) * fat_bytes_len(h) <= data_start_byte(h)
<1> DEFINE f == fat_bytes_len(h)
<1>1. /\ c \in Nat /\ c >= 2 /\ c + 1 <= f \div 4
      /\ fat_start_byte(h) \in Nat /\ f \in Nat \ {0}
      /\ data_start_byte(h) = fat_start_byte(h) + h.num_fats * f
      BY ClustersInRange, Sizes
<1>2. i \in Nat /\ i + 1 <= h.num_fats /\ h.num_fats \in Nat
      BY DEF Copies, Accepted
<1>3. (c + 1) * 4 <= f
      BY <1>1
<1>4. i * f \in Nat /\ (i + 1) * f = i * f + f
      BY <1>1, <1>2
<1>5. (i + 1) * f <= h.num_fats * f
      BY <1>1, <1>2, TimesMonotone
<1>6. entry_offset(h, i, c) = fat_start_byte(h) + i * f + c * 4
      BY DEF entry_offset
<1> HIDE DEF f
<1>7. /\ entry_offset(h, i, c) \in Nat
      /\ fat_start_byte(h) + i * f <= entry_offset(h, i, c)
      /\ entry_offset(h, i, c) + 4 <= fat_start_byte(h) + (i + 1) * f
      BY <1>1, <1>2, <1>3, <1>4, <1>6
<1>8. fat_start_byte(h) + (i + 1) * f <= data_start_byte(h)
      BY <1>1, <1>2, <1>4, <1>5
<1> QED BY <1>7, <1>8 DEF f

(* The place of a cluster.                                                 *)
LEMMA ClusterPlace ==
    ASSUME NEW h, Accepted(h), NEW c \in Clusters(h)
    PROVE  /\ cluster_to_offset(h, c) \in Nat
           /\ data_start_byte(h) <= cluster_to_offset(h, c)
           /\ cluster_to_offset(h, c) + cluster_size(h) <= h.len
<1> DEFINE s == cluster_size(h)
           d == data_start_byte(h)
           q == (h.len - d) \div s
<1>1. /\ c \in Nat /\ c >= 2 /\ d < h.len /\ c - 1 <= q
      /\ d \in Nat /\ s \in Nat \ {0} /\ h.len \in Nat
      BY ClustersInRange, Sizes DEF Accepted
<1>2. cluster_to_offset(h, c) = d + (c - 2) * s
      BY DEF cluster_to_offset
<1>3. q \in Nat /\ q * s <= h.len - d
      BY <1>1, DivTimes
<1> HIDE DEF s, d, q
<1>4. (c - 1) * s <= q * s
      BY <1>1, <1>3, TimesMonotone
<1>5. (c - 2) * s \in Nat /\ (c - 1) * s = (c - 2) * s + s
  <2>1. PICK k \in Nat : c = k + 2
    <3>1. c - 2 \in Nat
          BY <1>1
    <3> QED BY <1>1, <3>1
  <2> QED BY <2>1, <1>1
<1>6. q * s \in Nat
      BY <1>1, <1>3
<1>7. /\ cluster_to_offset(h, c) \in Nat /\ d <= cluster_to_offset(h, c)
      /\ cluster_to_offset(h, c) + s <= h.len
      BY <1>1, <1>2, <1>3, <1>4, <1>5, <1>6
<1> QED BY <1>7 DEF s, d
(* Two different entries have no byte in common.                           *)
LEMMA EntriesApart ==
    ASSUME NEW h, Accepted(h),
           NEW c \in Clusters(h), NEW i \in Copies(h),
           NEW d \in Clusters(h), NEW j \in Copies(h),
           c # d \/ i # j
    PROVE  \/ entry_offset(h, i, c) + 4 <= entry_offset(h, j, d)
           \/ entry_offset(h, j, d) + 4 <= entry_offset(h, i, c)
<1> DEFINE f == fat_bytes_len(h)
           start == fat_start_byte(h)
<1>1. f \in Nat \ {0} /\ start \in Nat /\ i \in Nat /\ j \in Nat /\ c \in Nat /\ d \in Nat
      BY Sizes, ClustersInRange DEF Copies, Accepted
<1>2. /\ entry_offset(h, i, c) \in Nat /\ entry_offset(h, j, d) \in Nat
      /\ start + i * f <= entry_offset(h, i, c) /\ start + j * f <= entry_offset(h, j, d)
      /\ entry_offset(h, i, c) + 4 <= start + (i + 1) * f
      /\ entry_offset(h, j, d) + 4 <= start + (j + 1) * f
      BY EntryPlace
<1>3. /\ entry_offset(h, i, c) = start + i * f + c * 4
      /\ entry_offset(h, j, d) = start + j * f + d * 4
      BY DEF entry_offset
<1> HIDE DEF f, start
<1>4. i * f \in Nat /\ j * f \in Nat /\ (i + 1) * f \in Nat /\ (j + 1) * f \in Nat
      BY <1>1
<1>5. CASE i = j
      BY <1>1, <1>3, <1>4, <1>5
<1>6. CASE i < j
  <2>1. (i + 1) * f <= j * f
        BY <1>1, <1>6, TimesMonotone
  <2> QED BY <1>1, <1>2, <1>4, <2>1
<1>7. CASE j < i
  <2>1. (j + 1) * f <= i * f
        BY <1>1, <1>7, TimesMonotone
  <2> QED BY <1>1, <1>2, <1>4, <2>1
<1> QED BY <1>1, <1>5, <1>6, <1>7

(* Nor have two different clusters.                                        *)
LEMMA ClustersApart ==
    ASSUME NEW h, Accepted(h), NEW c \in Clusters(h), NEW d \in Clusters(h), c < d
    PROVE  cluster_to_offset(h, c) + cluster_size(h) <= cluster_to_offset(h, d)
<1> DEFINE s == cluster_size(h)
           a == data_start_byte(h)
<1>1. s \in Nat \ {0} /\ a \in Nat /\ c \in Nat /\ d \in Nat /\ c >= 2
      BY Sizes, ClustersInRange
<1>2. /\ cluster_to_offset(h, c) = a + (c - 2) * s
      /\ cluster_to_offset(h, d) = a + (d - 2) * s
      BY DEF cluster_to_offset
<1> HIDE DEF s, a
<1>3. (c - 1) * s <= (d - 2) * s
      BY <1>1, TimesMonotone
<1>4. (c - 1) * s = (c - 2) * s + s /\ (c - 2) * s \in Int /\ (d - 2) * s \in Int
  <2>1. PICK k \in Int : c = k + 2
    <3>1. c - 2 \in Int
          BY <1>1
    <3> QED BY <1>1, <3>1
  <2> QED BY <1>1, <2>1
<1>5. cluster_to_offset(h, c) + s <= cluster_to_offset(h, d)
      BY <1>1, <1>2, <1>3, <1>4
<1> QED BY <1>5 DEF s
-----------------------------------------------------------------------------
(* The fields that Fat32Mut::new has read do not change, and the buffer    *)
(* keeps its length.                                                       *)
Shape == g \in Geometries /\ parse_bpb(g) /\ DOMAIN disk = 0 .. g.len - 1

LEMMA ShapeHolds == Spec => []Shape
<1>1. Init => Shape
      BY DEF Init, Shape
<1>2. Shape /\ [Next]_vars => Shape'
      BY DEF Shape, Next, vars, write_fat_entry_all, write_cluster,
             write_dir_entry_at_offset, end_mark, Overwritten
<1> QED BY <1>1, <1>2, PTL DEF Spec

LEMMA ShapeInPlace ==
    ASSUME Shape
    PROVE  EverythingInPlace
<1>1. Accepted(g)
      BY ParsedIsAccepted DEF Shape
<1> QED BY <1>1, EntryPlace, ClusterPlace DEF EverythingInPlace, InBuffer

(* max_cluster_number (lib.rs:634) is safe for every boot sector and every *)
(* length of the buffer: no cluster number up to it leads outside of the   *)
(* buffer, out of a copy of the table or in front of the data area.        *)
THEOREM OffsetsInPlace == Spec => []EverythingInPlace
<1>1. Shape => EverythingInPlace
      BY ShapeInPlace
<1> QED BY <1>1, ShapeHolds, PTL
-----------------------------------------------------------------------------
(* A write that changes bytes of one cluster only is a change of that      *)
(* cluster in the volume.                                                  *)
LEMMA ClusterStep ==
    ASSUME Shape, NEW c \in Clusters(g), g' = g, DOMAIN disk' = DOMAIN disk,
           \A o \in DOMAIN disk :
               o \notin Range(cluster_to_offset(g, c), cluster_size(g)) => disk'[o] = disk[o]
    PROVE  Volume!SetCluster
<1>1. Accepted(g)
      BY ParsedIsAccepted DEF Shape
<1>2. /\ cluster_size(g) \in Nat \ {0} /\ cluster_to_offset(g, c) \in Nat
      /\ fat_start_byte(g) \in Nat /\ data_start_byte(g) \in Nat
      /\ fat_start_byte(g) <= data_start_byte(g)
      /\ data_start_byte(g) <= cluster_to_offset(g, c)
      /\ g.len \in Nat
  <2>1. fat_start_byte(g) + g.num_fats * fat_bytes_len(g) = data_start_byte(g)
        BY <1>1, Sizes
  <2>2. g.num_fats * fat_bytes_len(g) \in Nat
        BY <1>1, Sizes DEF Accepted
  <2>3. fat_start_byte(g) <= data_start_byte(g)
        BY <1>1, <2>1, <2>2, Sizes
  <2> QED BY <1>1, <2>3, Sizes, ClusterPlace DEF Accepted
<1>3. Reserved' = Reserved
  <2>1. \A o \in DOMAIN disk : o < fat_start_byte(g) => disk'[o] = disk[o]
        BY <1>2 DEF Range, Shape
  <2> QED BY <2>1 DEF Reserved
<1>4. Tables' = Tables
  <2>1. ASSUME NEW i \in Copies(g), NEW d \in Clusters(g), NEW k \in 0 .. 3
        PROVE  disk'[entry_offset(g, i, d) + k] = disk[entry_offset(g, i, d) + k]
    <3>1. /\ entry_offset(g, i, d) \in Nat
          /\ entry_offset(g, i, d) + 4 <= data_start_byte(g)
          /\ data_start_byte(g) < g.len
      <4>1. i \in Nat /\ fat_bytes_len(g) \in Nat
            BY <1>1, Sizes DEF Copies, Accepted
      <4>2. (i + 1) * fat_bytes_len(g) \in Nat
            BY <4>1
      <4> QED BY <1>1, <1>2, <4>2, EntryPlace, ClustersInRange
    <3> QED BY <1>2, <3>1 DEF Range, Shape
  <2> QED BY <2>1 DEF Tables, Bytes4
<1>5. ASSUME NEW d \in Clusters(g) \ {c}
      PROVE  DataArea'[d] = DataArea[d]
  <2>1. /\ c \in Nat /\ d \in Nat
        /\ cluster_to_offset(g, d) \in Nat
        /\ cluster_to_offset(g, d) + cluster_size(g) <= g.len
        BY <1>1, ClustersInRange, ClusterPlace
  <2>2. \/ cluster_to_offset(g, c) + cluster_size(g) <= cluster_to_offset(g, d)
        \/ cluster_to_offset(g, d) + cluster_size(g) <= cluster_to_offset(g, c)
    <3>1. c < d \/ d < c
          BY <2>1
    <3> QED BY <1>1, <3>1, ClustersApart
  <2>3. ASSUME NEW k \in 0 .. cluster_size(g) - 1
        PROVE  disk'[cluster_to_offset(g, d) + k] = disk[cluster_to_offset(g, d) + k]
    <3>1. cluster_to_offset(g, d) + k \in DOMAIN disk
          BY <1>2, <2>1 DEF Shape
    <3>2. cluster_to_offset(g, d) + k
              \notin Range(cluster_to_offset(g, c), cluster_size(g))
          BY <1>2, <2>1, <2>2 DEF Range
    <3> QED BY <3>1, <3>2
  <2> QED BY <2>3 DEF DataArea, Contents
<1>6. DOMAIN DataArea = Clusters(g)
      BY DEF DataArea
<1> QED BY <1>3, <1>4, <1>5, <1>6 DEF Volume!SetCluster

(* The four bytes that write_fat_entry_all stores for a value.             *)
ValueBytes(v) == [k \in 0 .. 3 |-> le_byte(v, k)]

(* No write changes the fields of the boot sector.                         *)
LEMMA GeometryStays ==
    ASSUME [Next]_vars
    PROVE  g' = g
    BY DEF Next, vars, write_fat_entry_all, write_cluster,
           write_dir_entry_at_offset, end_mark

(* The bytes of an entry lie in the buffer.                                *)
LEMMA EntryInBuffer ==
    ASSUME Shape, NEW c \in Clusters(g), NEW i \in Copies(g)
    PROVE  entry_offset(g, i, c) \in Nat /\ entry_offset(g, i, c) + 4 <= g.len /\ g.len \in Nat
<1>1. Accepted(g)
      BY ParsedIsAccepted DEF Shape
<1>2. i \in Nat /\ fat_bytes_len(g) \in Nat /\ g.len \in Nat
      BY <1>1, Sizes DEF Copies, Accepted
<1>3. (i + 1) * fat_bytes_len(g) \in Nat
      BY <1>2
<1> QED BY <1>1, <1>2, <1>3, Sizes, EntryPlace, ClustersInRange

(* Every copy of the table has the entry in the buffer.                    *)
LEMMA AllReached ==
    ASSUME Shape, NEW c \in Clusters(g)
    PROVE  Reached(c) = Copies(g)
<1>1. Accepted(g)
      BY ParsedIsAccepted DEF Shape
<1>2. ASSUME NEW i \in Copies(g)
      PROVE  InBuffer(g, entry_offset(g, i, c), 4)
      BY EntryInBuffer DEF InBuffer
<1>3. \A i \in Copies(g) : 0 .. i \subseteq Copies(g)
      BY <1>1 DEF Copies, Accepted
<1> QED BY <1>2, <1>3 DEF Reached

(* write_fat_entry_all changes one entry in the volume, in every copy, to  *)
(* the bytes of the value.                                                 *)
LEMMA EntryStep ==
    ASSUME Shape, NEW c \in Clusters(g), NEW v, write_fat_entry_all(c, v)
    PROVE  /\ Volume!SetEntry
           /\ \A i \in Copies(g) : Tables'[i][c] = ValueBytes(v)
           /\ \A i \in Copies(g), d \in Clusters(g) \ {c} : Tables'[i][d] = Tables[i][d]
<1> DEFINE In(o, i) == o \in Range(entry_offset(g, i, c), 4)
<1>1. Accepted(g) /\ g' = g /\ DOMAIN disk' = DOMAIN disk
      BY ParsedIsAccepted DEF Shape, write_fat_entry_all
<1>2. \A o \in DOMAIN disk : disk'[o] =
          IF \E i \in Copies(g) : In(o, i)
          THEN le_byte(v, o - entry_offset(g, CHOOSE i \in Copies(g) : In(o, i), c))
          ELSE disk[o]
      BY AllReached DEF write_fat_entry_all
<1>3. ASSUME NEW i \in Copies(g), NEW d \in Clusters(g)
      PROVE  /\ entry_offset(g, i, d) \in Nat
             /\ fat_start_byte(g) <= entry_offset(g, i, d)
             /\ entry_offset(g, i, d) + 4 <= data_start_byte(g)
             /\ fat_start_byte(g) \in Nat /\ data_start_byte(g) \in Nat
             /\ data_start_byte(g) < g.len /\ g.len \in Nat
  <2>1. i \in Nat /\ fat_bytes_len(g) \in Nat
        BY <1>1, Sizes DEF Copies, Accepted
  <2>2. i * fat_bytes_len(g) \in Nat /\ (i + 1) * fat_bytes_len(g) \in Nat
        BY <2>1
  <2> QED BY <1>1, <2>2, Sizes, EntryPlace, ClustersInRange DEF Accepted
<1>4. ASSUME NEW i \in Copies(g), NEW k \in 0 .. 3
      PROVE  disk'[entry_offset(g, i, c) + k] = le_byte(v, k)
  <2> DEFINE o == entry_offset(g, i, c) + k
  <2>1. In(o, i) /\ o \in DOMAIN disk
        BY <1>3 DEF Range, Shape
  <2>2. ASSUME NEW j \in Copies(g), In(o, j)
        PROVE  j = i
        BY <1>1, <1>3, <2>2, EntriesApart DEF Range
  <2>3. (CHOOSE j \in Copies(g) : In(o, j)) = i
        BY <2>1, <2>2
  <2>4. o - entry_offset(g, i, c) = k
        BY <1>3
  <2> QED BY <1>2, <2>1, <2>3, <2>4
<1>5. ASSUME NEW o \in DOMAIN disk, \A i \in Copies(g) : ~ In(o, i)
      PROVE  disk'[o] = disk[o]
      BY <1>2, <1>5
<1>6. Reserved' = Reserved
  <2>1. \A o \in DOMAIN disk : o < fat_start_byte(g) => disk'[o] = disk[o]
    <3> SUFFICES ASSUME NEW o \in DOMAIN disk, o < fat_start_byte(g)
                 PROVE  \A i \in Copies(g) : ~ In(o, i)
        BY <1>5
    <3> QED BY <1>3 DEF Range, Shape
  <2> QED BY <1>1, <2>1 DEF Reserved
<1>7. DataArea' = DataArea
  <2>1. ASSUME NEW d \in Clusters(g), NEW k \in 0 .. cluster_size(g) - 1
        PROVE  disk'[cluster_to_offset(g, d) + k] = disk[cluster_to_offset(g, d) + k]
    <3>1. /\ cluster_to_offset(g, d) \in Nat /\ cluster_size(g) \in Nat
          /\ data_start_byte(g) <= cluster_to_offset(g, d)
          /\ cluster_to_offset(g, d) + cluster_size(g) <= g.len
          BY <1>1, ClusterPlace, Sizes
    <3>2. cluster_to_offset(g, d) + k \in DOMAIN disk
          BY <1>1, <3>1 DEF Shape, Accepted
    <3>3. \A i \in Copies(g) : ~ In(cluster_to_offset(g, d) + k, i)
          BY <1>3, <3>1 DEF Range
    <3> QED BY <1>5, <3>2, <3>3
  <2> QED BY <1>1, <2>1 DEF DataArea, Contents
<1>8. ASSUME NEW i \in Copies(g), NEW d \in Clusters(g) \ {c}
      PROVE  Tables'[i][d] = Tables[i][d]
  <2>1. ASSUME NEW k \in 0 .. 3
        PROVE  disk'[entry_offset(g, i, d) + k] = disk[entry_offset(g, i, d) + k]
    <3>1. entry_offset(g, i, d) + k \in DOMAIN disk
          BY <1>3 DEF Shape
    <3>2. \A j \in Copies(g) : ~ In(entry_offset(g, i, d) + k, j)
          BY <1>1, <1>3, EntriesApart DEF Range
    <3> QED BY <1>5, <3>1, <3>2
  <2> QED BY <1>1, <2>1 DEF Tables, Bytes4
<1>9. \A i \in Copies(g) : Tables'[i][c] = ValueBytes(v)
      BY <1>1, <1>4 DEF Tables, Bytes4, ValueBytes
<1>10. DOMAIN DataArea = Clusters(g) /\ DOMAIN Tables = Copies(g)
      BY DEF DataArea, Tables
<1> QED BY <1>6, <1>7, <1>8, <1>9, <1>10 DEF Volume!SetEntry

(* A directory slot lies in its cluster.                                   *)
LEMMA SlotInCluster ==
    ASSUME NEW h, Accepted(h), NEW s \in 0 .. slots(h) - 1
    PROVE  s * SLOT \in Nat /\ s * SLOT + SLOT <= cluster_size(h)
<1>1. cluster_size(h) \in Nat /\ SLOT \in Nat \ {0}
      BY Sizes, GeometryAssumption
<1>2. slots(h) \in Nat /\ slots(h) * SLOT <= cluster_size(h)
      BY <1>1, DivTimes DEF slots
<1>3. s \in Nat /\ s + 1 <= slots(h)
      BY <1>2
<1>4. (s + 1) * SLOT <= slots(h) * SLOT
      BY <1>1, <1>2, <1>3, TimesMonotone
<1>5. (s + 1) * SLOT = s * SLOT + SLOT /\ s * SLOT \in Nat /\ slots(h) * SLOT \in Nat
      BY <1>1, <1>2, <1>3
<1> QED BY <1>1, <1>2, <1>4, <1>5

(* Every write to the buffer is a change of an entry or of a cluster.      *)
LEMMA WriteStep ==
    ASSUME Shape, Next
    PROVE  \/ \E c \in Clusters(g), v \in Values : write_fat_entry_all(c, v)
           \/ Volume!SetCluster
<1>1. Accepted(g)
      BY ParsedIsAccepted DEF Shape
<1>2. ASSUME NEW c \in Clusters(g), NEW n, NEW b, write_cluster(c, n, b)
      PROVE  Volume!SetCluster
  <2>1. /\ g' = g /\ DOMAIN disk' = DOMAIN disk
        /\ \A o \in DOMAIN disk :
              o \notin Range(cluster_to_offset(g, c), cluster_size(g)) => disk'[o] = disk[o]
        BY <1>2 DEF write_cluster, Overwritten
  <2> QED BY <2>1, ClusterStep
<1>3. ASSUME NEW c \in Clusters(g), NEW s \in 0 .. slots(g) - 1, NEW b,
             write_dir_entry_at_offset(c, s, b)
      PROVE  Volume!SetCluster
  <2>1. g' = g /\ DOMAIN disk' = DOMAIN disk
        BY <1>3 DEF write_dir_entry_at_offset, Overwritten
  <2>2. \A o \in DOMAIN disk :
           o \notin Range(cluster_to_offset(g, c) + s * SLOT, SLOT) => disk'[o] = disk[o]
        BY <1>3 DEF write_dir_entry_at_offset, Overwritten
  <2>3. /\ cluster_to_offset(g, c) \in Nat /\ cluster_size(g) \in Nat /\ SLOT \in Nat
        /\ s * SLOT \in Nat /\ s * SLOT + SLOT <= cluster_size(g)
        BY <1>1, ClusterPlace, Sizes, SlotInCluster, GeometryAssumption
  <2> DEFINE at == s * SLOT
  <2> HIDE DEF at
  <2>4. Range(cluster_to_offset(g, c) + at, SLOT)
            \subseteq Range(cluster_to_offset(g, c), cluster_size(g))
    <3>1. at \in Nat /\ at + SLOT <= cluster_size(g)
          BY <2>3 DEF at
    <3> QED BY <2>3, <3>1 DEF Range
  <2>5. \A o \in DOMAIN disk :
           o \notin Range(cluster_to_offset(g, c), cluster_size(g)) => disk'[o] = disk[o]
        BY <2>2, <2>4 DEF at
  <2> QED BY <2>1, <2>5, ClusterStep
<1>4. ASSUME NEW c \in Clusters(g), NEW s \in 0 .. slots(g) - 1, end_mark(c, s)
      PROVE  Volume!SetCluster
  <2> DEFINE next == cluster_to_offset(g, c) + (s + 1) * SLOT
  <2>1. /\ g' = g /\ DOMAIN disk' = DOMAIN disk
        /\ next < cluster_to_offset(g, c) + cluster_size(g)
        /\ \A o \in DOMAIN disk : o \notin Range(next, 1) => disk'[o] = disk[o]
        BY <1>4 DEF end_mark, Overwritten
  <2>2. /\ cluster_to_offset(g, c) \in Nat /\ cluster_size(g) \in Nat
        /\ SLOT \in Nat /\ slots(g) \in Nat
        BY <1>1, ClusterPlace, Sizes, GeometryAssumption, DivTimes DEF slots
  <2>3. (s + 1) * SLOT \in Nat
    <3>1. s + 1 \in Nat
          BY <2>2
    <3> QED BY <2>2, <3>1
  <2>4. next \in Nat /\ cluster_to_offset(g, c) <= next
        BY <2>2, <2>3
  <2> HIDE DEF next
  <2>5. \A o \in DOMAIN disk :
           o \notin Range(cluster_to_offset(g, c), cluster_size(g)) => disk'[o] = disk[o]
        BY <2>1, <2>2, <2>4 DEF Range, Shape
  <2> QED BY <2>1, <2>5, ClusterStep
<1> QED BY <1>2, <1>3, <1>4 DEF Next

(* The buffer implements the volume of independent parts, for every boot   *)
(* sector that is accepted: no write to an entry, a cluster or a directory *)
(* slot reaches a byte of another part (lib.rs:684, :768, :874).           *)
THEOREM BytesImplementVolume == Spec => ImplementsVolume
<1>1. Init => Volume!Init
      BY DEF Init, Volume!Init, Tables, DataArea
<1>2. Shape /\ [Next]_vars => [Volume!Next]_<<Reserved, Tables, DataArea>>
  <2>1. CASE UNCHANGED vars
        BY <2>1 DEF vars, Reserved, Tables, DataArea, Bytes4, Contents
  <2> QED BY <2>1, WriteStep, EntryStep DEF Volume!Next
<1> QED BY <1>1, <1>2, ShapeHolds, PTL DEF Spec, ImplementsVolume, Volume!Spec
-----------------------------------------------------------------------------
(* to_le_bytes makes bytes.                                                *)
LEMMA BytesAreBytes ==
    ASSUME NEW v \in Nat, NEW k \in 0 .. 3
    PROVE  le_byte(v, k) \in 0 .. 255
<1>1. Masked(v) \in Nat
      BY SMT DEF Masked
<1>2. Place[k + 1] \in Nat \ {0}
      BY SMT DEF Place
<1>3. Masked(v) \div Place[k + 1] \in Nat
      BY <1>1, <1>2, SMT
<1> QED BY <1>3, SMT DEF le_byte

(* from_le_bytes undoes to_le_bytes.                                       *)
LEMMA BytesOfValue ==
    ASSUME NEW v \in Nat
    PROVE  Masked(le_byte(v, 0) + 256 * le_byte(v, 1) + 65536 * le_byte(v, 2)
                  + 16777216 * le_byte(v, 3)) = Masked(v)
<1>1. Masked(v) \in Nat /\ Masked(v) < 268435456
      BY SMT DEF Masked
<1>2. PICK m \in Nat : m = Masked(v) /\ m < 268435456
      BY <1>1
<1>3. /\ le_byte(v, 0) = m % 256
      /\ le_byte(v, 1) = (m \div 256) % 256
      /\ le_byte(v, 2) = (m \div 65536) % 256
      /\ le_byte(v, 3) = (m \div 16777216) % 256
  <2>1. Place[1] = 1 /\ Place[2] = 256 /\ Place[3] = 65536 /\ Place[4] = 16777216
        BY SMT DEF Place
  <2>2. 0 + 1 = 1 /\ 1 + 1 = 2 /\ 2 + 1 = 3 /\ 3 + 1 = 4 /\ m \div 1 = m
        BY SMT
  <2> QED BY <1>2, <2>1, <2>2, SMT DEF le_byte
(* The number is peeled off a byte at a time.                              *)
<1> DEFINE x == m \div 256
           y == x \div 256
           z == y \div 256
<1>4. x \in Nat /\ y \in Nat /\ z \in Nat
      BY SMT
<1>5. y = m \div 65536 /\ z = m \div 16777216
      BY SMT
<1>6. m = (m % 256) + 256 * x /\ x = (x % 256) + 256 * y /\ y = (y % 256) + 256 * z
      BY SMT
<1>7. z % 256 = z
      BY <1>2, SMT
<1>8. m = (m % 256) + 256 * (x % 256) + 65536 * (y % 256) + 16777216 * (z % 256)
  <2> HIDE DEF x, y, z
  <2>1. m % 256 \in Int /\ x % 256 \in Int /\ y % 256 \in Int /\ z % 256 \in Int
        BY <1>4, SMT
  <2> QED BY <1>4, <1>6, <1>7, <2>1, SMT
<1>9. Masked(m) = m
      BY <1>2, SMT DEF Masked
<1>10. le_byte(v, 0) + 256 * le_byte(v, 1) + 65536 * le_byte(v, 2)
          + 16777216 * le_byte(v, 3) = m
  <2>1. /\ le_byte(v, 0) = m % 256 /\ le_byte(v, 1) = x % 256
        /\ le_byte(v, 2) = y % 256 /\ le_byte(v, 3) = z % 256
        BY <1>3, <1>5, SMT
  <2> HIDE DEF x, y, z
  <2> QED BY <1>8, <2>1, SMT
<1> QED BY <1>2, <1>9, <1>10, SMT

(* Every entry of every copy holds the bytes of a value.                   *)
Stored ==
    \A i \in Copies(g), c \in Clusters(g) :
        \E v \in Values \cup {0} : Tables[i][c] = ValueBytes(v)

LEMMA StoredHolds == Spec => []Stored
<1>1. Init => Stored
  <2> SUFFICES ASSUME Init, NEW i \in Copies(g), NEW c \in Clusters(g)
               PROVE  Tables[i][c] = ValueBytes(0)
      BY DEF Stored
  <2>1. Shape
        BY DEF Init, Shape
  <2>2. Accepted(g)
        BY <2>1, ParsedIsAccepted DEF Shape
  <2>3. \A k \in 0 .. 3 : le_byte(0, k) = 0
    <3>1. Place[1] = 1 /\ Place[2] = 256 /\ Place[3] = 65536 /\ Place[4] = 16777216
          BY SMT DEF Place
    <3>2. \A k \in 0 .. 3 : k + 1 = 1 \/ k + 1 = 2 \/ k + 1 = 3 \/ k + 1 = 4
          OBVIOUS
    <3> QED BY <3>1, <3>2, SMT DEF le_byte, Masked
  <2>4. ASSUME NEW k \in 0 .. 3
        PROVE  entry_offset(g, i, c) + k \in 0 .. g.len - 1
        BY <2>1, EntryInBuffer
  <2> QED BY <2>3, <2>4 DEF Init, Tables, Bytes4, ValueBytes
<1>2. Shape /\ Stored /\ [Next]_vars => Stored'
  <2> SUFFICES ASSUME Shape, Stored, [Next]_vars
               PROVE  Stored'
      OBVIOUS
  <2>1. ASSUME Tables' = Tables
        PROVE  Stored'
    <3>1. g' = g
          BY GeometryStays
    <3> QED BY <2>1, <3>1 DEF Stored
  <2>2. ASSUME NEW c \in Clusters(g), NEW v \in Values, write_fat_entry_all(c, v)
        PROVE  Stored'
    <3>1. g' = g
          BY GeometryStays
    <3>2. \A i \in Copies(g) : Tables'[i][c] = ValueBytes(v)
          BY <2>2, EntryStep
    <3>3. \A i \in Copies(g), d \in Clusters(g) \ {c} : Tables'[i][d] = Tables[i][d]
          BY <2>2, EntryStep
    <3> QED BY <3>1, <3>2, <3>3 DEF Stored
  <2>3. CASE UNCHANGED vars
        BY <2>3, <2>1 DEF vars, Tables, Bytes4
  <2>4. CASE Next
        BY <2>4, <2>1, <2>2, WriteStep DEF Volume!SetCluster
  <2> QED BY <2>3, <2>4
<1> QED BY <1>1, <1>2, ShapeHolds, PTL DEF Spec

(* What read_fat_entry (lib.rs:673) finds is a value that                  *)
(* write_fat_entry_all stored, or 0: no write to a cluster or a directory  *)
(* slot forges an entry and the bytes of a value lose none of its 28 bits. *)
THEOREM TableReadsBack == Spec => []EntriesReadBack
<1>1. ASSUME Shape, Stored
      PROVE  EntriesReadBack
  <2> SUFFICES ASSUME NEW c \in Clusters(g)
               PROVE  \E v \in Values \cup {0} : read_fat_entry(c) = Masked(v)
      BY DEF EntriesReadBack
  <2>1. 0 \in Copies(g)
        BY <1>1, ParsedIsAccepted DEF Copies, Accepted, Shape
  <2>2. PICK v \in Values \cup {0} : Tables[0][c] = ValueBytes(v)
        BY <1>1, <2>1 DEF Stored
  <2>3. v \in Nat
        BY GeometryAssumption
  <2>4. \A k \in 0 .. 3 : disk[entry_offset(g, 0, c) + k] = le_byte(v, k)
        BY <2>1, <2>2 DEF Tables, Bytes4, ValueBytes
  <2>5. entry_offset(g, 0, c) \in Nat
        BY <1>1, <2>1, ParsedIsAccepted, EntryPlace DEF Shape
  <2>6. /\ disk[entry_offset(g, 0, c)] = le_byte(v, 0)
        /\ disk[entry_offset(g, 0, c) + 1] = le_byte(v, 1)
        /\ disk[entry_offset(g, 0, c) + 2] = le_byte(v, 2)
        /\ disk[entry_offset(g, 0, c) + 3] = le_byte(v, 3)
        BY <2>4, <2>5
  <2>7. read_fat_entry(c) = Masked(v)
        BY <2>3, <2>6, BytesOfValue, SMT DEF read_fat_entry
  <2> QED BY <2>7
<1> QED BY <1>1, ShapeHolds, StoredHolds, PTL

(* The buffer keeps its length and holds bytes, and the sizes that the     *)
(* code divides by are never 0.                                            *)
THEOREM GeometryTyped == Spec => []TypeOK
<1> DEFINE Typed == disk \in [0 .. g.len - 1 -> 0 .. 255]
<1>1. Init => Typed
      BY DEF Init
<1>2. Shape /\ Typed /\ [Next]_vars => Typed'
  <2> SUFFICES ASSUME Shape, Typed, [Next]_vars
               PROVE  Typed'
      OBVIOUS
  <2>1. g' = g
        BY GeometryStays
  <2>2. DOMAIN disk = 0 .. g.len - 1 /\ \A o \in DOMAIN disk : disk[o] \in 0 .. 255
        OBVIOUS
  <2>3. ASSUME disk' = [o \in DOMAIN disk |-> disk'[o]],
               \A o \in DOMAIN disk : disk'[o] \in 0 .. 255
        PROVE  Typed'
        BY <2>1, <2>2, <2>3
  <2>4. CASE UNCHANGED vars
        BY <2>4 DEF vars
  <2> HIDE DEF Typed
  <2>5. ASSUME NEW c \in Clusters(g), NEW v \in Values, write_fat_entry_all(c, v)
        PROVE  Typed'
    <3>1. v \in Nat
          BY GeometryAssumption
    <3>2. ASSUME NEW o \in DOMAIN disk
          PROVE  disk'[o] \in 0 .. 255
      <4> DEFINE i == CHOOSE i \in Reached(c) : o \in Range(entry_offset(g, i, c), 4)
      <4>1. CASE \E j \in Reached(c) : o \in Range(entry_offset(g, j, c), 4)
        <5>1. i \in Copies(g) /\ o \in Range(entry_offset(g, i, c), 4)
              BY <4>1 DEF Reached
        <5>2. entry_offset(g, i, c) \in Nat
              BY <5>1, EntryInBuffer
        <5>3. o - entry_offset(g, i, c) \in 0 .. 3
              BY <5>1, <5>2 DEF Range
        <5>4. disk'[o] = le_byte(v, o - entry_offset(g, i, c))
              BY <2>5, <4>1 DEF write_fat_entry_all
        <5>5. \A k \in 0 .. 3 : le_byte(v, k) \in 0 .. 255
              BY <3>1, BytesAreBytes
        <5> HIDE DEF i
        <5> QED BY <5>3, <5>4, <5>5
      <4>2. CASE ~ \E j \in Reached(c) : o \in Range(entry_offset(g, j, c), 4)
        <5>1. disk'[o] = disk[o]
              BY <2>5, <4>2 DEF write_fat_entry_all
        <5> QED BY <2>2, <5>1
      <4> QED BY <4>1, <4>2
    <3>3. disk' = [o \in DOMAIN disk |-> disk'[o]]
          BY <2>5 DEF write_fat_entry_all
    <3> QED BY <2>3, <3>2, <3>3
  <2>6. 0 \in 0 .. 255 /\ \A b \in Bytes : b \in 0 .. 255
        BY GeometryAssumption
  <2>7. ASSUME NEW c, NEW n, NEW b \in Bytes, write_cluster(c, n, b)
        PROVE  Typed'
    <3>1. \A o \in DOMAIN disk : disk'[o] \in Bytes \cup {0, disk[o]}
          BY <2>7 DEF write_cluster, Overwritten
    <3>2. disk' = [o \in DOMAIN disk |-> disk'[o]]
          BY <2>7 DEF write_cluster, Overwritten
    <3>3. \A o \in DOMAIN disk : disk'[o] \in 0 .. 255
          BY <3>1, <2>2, <2>6
    <3> QED BY <2>3, <3>2, <3>3
  <2>8. ASSUME NEW c, NEW s, NEW b \in Bytes, write_dir_entry_at_offset(c, s, b)
        PROVE  Typed'
    <3>1. \A o \in DOMAIN disk : disk'[o] \in {b, disk[o]}
          BY <2>8 DEF write_dir_entry_at_offset, Overwritten
    <3>2. disk' = [o \in DOMAIN disk |-> disk'[o]]
          BY <2>8 DEF write_dir_entry_at_offset, Overwritten
    <3>3. \A o \in DOMAIN disk : disk'[o] \in 0 .. 255
          BY <3>1, <2>2, <2>6
    <3> QED BY <2>3, <3>2, <3>3
  <2>9. ASSUME NEW c, NEW s, end_mark(c, s)
        PROVE  Typed'
    <3>1. \A o \in DOMAIN disk : disk'[o] \in {0, disk[o]}
          BY <2>9 DEF end_mark, Overwritten
    <3>2. disk' = [o \in DOMAIN disk |-> disk'[o]]
          BY <2>9 DEF end_mark, Overwritten
    <3>3. \A o \in DOMAIN disk : disk'[o] \in 0 .. 255
          BY <3>1, <2>2, <2>6
    <3> QED BY <2>3, <3>2, <3>3
  <2> QED BY <2>4, <2>5, <2>7, <2>8, <2>9 DEF Next
<1>3. ASSUME Shape, Typed
      PROVE  TypeOK
  <2>1. Accepted(g)
        BY <1>3, ParsedIsAccepted DEF Shape
  <2>2. cluster_size(g) \in Nat \ {0} /\ fat_bytes_len(g) \in Nat \ {0}
        BY <2>1, Sizes
  <2>3. g.num_fats \in Nat \ {0}
        BY <2>1 DEF Accepted
  <2>4. cluster_size(g) > 0 /\ fat_bytes_len(g) > 0 /\ g.num_fats > 0
        BY <2>2, <2>3
  <2> QED BY <1>3, <2>4 DEF TypeOK, Shape
<1> HIDE DEF Typed
<1> QED BY <1>1, <1>2, <1>3, ShapeHolds, PTL DEF Spec
=============================================================================
