----------------------------- MODULE MCGeometry -----------------------------
(* Volumes of sectors of 4 or 6 bytes, the boot sector scaled to 4 bytes   *)
(* and a directory entry to 2.                                             *)
EXTENDS Geometry

Of(bps, spc, reserved, fats, spf, len) ==
    [bytes_per_sector |-> bps, sectors_per_cluster |-> spc,
     reserved_sectors |-> reserved, num_fats |-> fats, sectors_per_fat |-> spf,
     len |-> len]

(* Clusters limited by the data area, exactly and with a rest; by the      *)
(* table; entries that do not fill the table's sectors; three copies; a    *)
(* boot sector without clusters; one that is refused; no reserved sectors. *)
MCGeometries ==
    {Of(4, 1, 1, 2, 5, 4 + 40 + 8), Of(4, 1, 2, 1, 6, 8 + 24 + 11),
     Of(4, 1, 1, 2, 4, 4 + 32 + 16), Of(6, 1, 1, 2, 3, 6 + 36 + 14),
     Of(4, 1, 1, 3, 4, 4 + 48 + 9), Of(4, 2, 1, 1, 2, 20),
     Of(4, 1, 0, 2, 4, 32 + 6), Of(4, 0, 1, 1, 1, 20)}

(* A link and the end of a chain.                                          *)
MCValues == {2, 268435455}
=============================================================================
