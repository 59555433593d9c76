---------------------------- MODULE MCFatShell -----------------------------
(* One image of five clusters of two units, two clusters free: a file H    *)
(* and a directory D that has room for two entries.                        *)
EXTENDS FatShell, TLC

a == Text("a")
b == Text("b")

links == (2 :> EOC) @@ (3 :> EOC) @@ (4 :> EOC)
units == (2 :> <<Entry("H", "file", 4, 1), Entry("D", "dir", 3, 0)>>)
         @@ (3 :> <<END, END>>) @@ (4 :> <<a, END>>)
MCImages ==
    {[fat |-> [i \in 1 .. NumFats |-> [c \in 0 .. MaxCluster |->
                 IF c < 2 THEN EOC ELSE IF c \in DOMAIN links THEN links[c] ELSE FREE]],
      data |-> [c \in Clusters |->
                 IF c \in DOMAIN units THEN units[c] ELSE <<END, END>>]]}

MCPaths == {<<"H">>, <<"D", "F">>}
Relative(parts) == [absolute |-> FALSE, parts |-> parts]
(* F here, H in the parent, the parent, and D.                             *)
MCWords == {Relative(<<".", "F">>), Relative(<<"..", "H">>), Relative(<<"..">>),
            [absolute |-> TRUE, parts |-> <<"", "D", "">>]}

(* One unit, two clusters.                                                 *)
MCContents == {<<b>>, <<a, b, a>>}
=============================================================================
