----------------------------- MODULE ImageStore -----------------------------
(***************************************************************************)
(* What the command line promises of an image file ("persistant"): it is a *)
(* store of files that puts change, and nothing else does.  A put that was *)
(* written to a buffer reaches the file whole or not at all; one whose     *)
(* save failed may still reach it, together with a later one.  The store   *)
(* may be lost, and stays so.                                              *)
(***************************************************************************)
CONSTANTS Values,     \* what a put can make a path hold
          Lost        \* the store when it can no longer be relied on

VARIABLES store,      \* what each path holds, a function
          pending     \* puts that may reach the store, pairs of path and value

Init == store # Lost /\ pending = {}

Put ==
    /\ store # Lost /\ store' = store
    /\ \E p \in DOMAIN store, v \in Values : pending' = pending \cup {<<p, v>>}

(* Some of the pending puts reach the store.                               *)
Commit ==
    /\ store # Lost /\ store' # Lost
    /\ DOMAIN store' = DOMAIN store
    /\ \A p \in DOMAIN store :
          store'[p] = store[p] \/ <<p, store'[p]>> \in pending
    /\ pending' \subseteq pending

(* Pending puts vanish with the program that made them.                    *)
Drop == store' = store /\ pending' \subseteq pending

Lose == store' = Lost /\ pending' = {}

Next == Put \/ Commit \/ Drop \/ Lose
Spec == Init /\ [][Next]_<<store, pending>>
=============================================================================
