----------------------------- MODULE MCFat32Mut -----------------------------
(* Two small volumes of five clusters of two units, two clusters free.     *)
EXTENDS Fat32History, TLC

a == Text("a")
b == Text("b")

Volume(links, units) ==
    [fat |-> [i \in 1 .. NumFats |-> [c \in 0 .. MaxCluster |->
        IF c < 2 THEN EOC ELSE IF c \in DOMAIN links THEN links[c] ELSE FREE]],
     data |-> [c \in Clusters |->
        IF c \in DOMAIN units THEN units[c] ELSE <<END, END>>]]

(* A full root directory with a file H and a directory D, which is empty   *)
(* but still has an old entry S behind its end mark.                       *)
WithDir == Volume((2 :> EOC) @@ (3 :> EOC) @@ (4 :> EOC),
                  (2 :> <<Entry("H", "file", 4, 1), Entry("D", "dir", 3, 0)>>)
                  @@ (3 :> <<END, Entry("S", "file", 4, 1)>>)
                  @@ (4 :> <<a, END>>))

(* A root directory of two clusters with a label, a file H and a deleted   *)
(* entry.                                                                  *)
WithLabel == Volume((2 :> 3) @@ (3 :> EOC) @@ (4 :> EOC),
                    (2 :> <<Entry("VOL", "label", 0, 0), Entry("H", "file", 4, 1)>>)
                    @@ (3 :> <<DEL, END>>)
                    @@ (4 :> <<a, END>>))
MCImages == {WithDir, WithLabel}

(* A root directory of two clusters whose end mark is the last unit of the *)
(* first, with an old entry S in the second.                               *)
WithOldEntry == Volume((2 :> 3) @@ (3 :> EOC),
                       (2 :> <<Entry("H", "file", 0, 0), END>>)
                       @@ (3 :> <<Entry("S", "file", 4, 1), END>>))
MCOldEntry == {WithOldEntry}

(* Every kind of target: files of the root and of D, the label, a          *)
(* directory, below a file, below nothing (D in the second volume).        *)
MCPaths == {<<"H">>, <<"N">>, <<"VOL">>, <<"D">>, <<"D", "F">>, <<"D", "S">>,
            <<"H", "X">>, <<"H", "X", "Y">>}

(* The paths of the runs about long chains and listing.                    *)
MCFewPaths == {<<"H">>, <<"N">>, <<"D">>, <<"D", "F">>}

(* Nothing, one unit, two clusters.                                        *)
MCContents == {<<>>, <<b>>, <<a, b, a>>}

(* Three clusters, for chains longer than what is followed.                *)
MCLongContents == {<<>>, <<a, b, a, b, a>>}
=============================================================================
