---------------------------- MODULE MCShortNames ----------------------------
(* Names of two characters and an extension of one.                        *)
EXTENDS ShortNames

(* Every name of up to three characters, some longer ones, in the root;    *)
(* every path of slashes, a letter and a dot.                              *)
Names == SeqOf({"A", "a", Dot, Space, NUL}, 3)
            \cup SeqOf({"A", Dot, Space}, 4) \cup SeqOf({"acute", Dot}, 2)
MCPaths == {<<Slash>> \o name : name \in Names} \cup SeqOf({"A", Slash}, 5)
=============================================================================
