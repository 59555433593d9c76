---------------------------- MODULE VolumeParts -----------------------------
(***************************************************************************)
(* A FAT32 volume as Fat32 and Fat32Mut see it: reserved sectors that      *)
(* never change, copies of a table and clusters that change one at a time. *)
(* Geometry shows that the bytes of a buffer implement it.                 *)
(***************************************************************************)
VARIABLES reserved, \* the boot sector and what else is before the tables
          fat,      \* the copies of the table: fat[i][c] is an entry
          data      \* the clusters: data[c] is the contents of one

Init == \A i \in DOMAIN fat : DOMAIN fat[i] = DOMAIN data

(* One entry gets a new value, the same in every copy.                     *)
SetEntry ==
    /\ \E c \in DOMAIN data :
          /\ \A i, j \in DOMAIN fat : fat'[i][c] = fat'[j][c]
          /\ \A i \in DOMAIN fat, d \in DOMAIN data \ {c} : fat'[i][d] = fat[i][d]
    /\ UNCHANGED <<reserved, data>>

(* One cluster gets new contents.                                          *)
SetCluster ==
    /\ \E c \in DOMAIN data : \A d \in DOMAIN data \ {c} : data'[d] = data[d]
    /\ UNCHANGED <<reserved, fat>>

Next == SetEntry \/ SetCluster
Spec == Init /\ [][Next]_<<reserved, fat, data>>
=============================================================================
