------------------------------- MODULE LeafLog -------------------------------
(***************************************************************************)
(* What the summary tree promises about the leaves it took in, leaving out *)
(* buffers, seals and levels: a leaf that was appended stays under the     *)
(* tree.  Its contract names the loss it must avoid: "a concurrent         *)
(* append_leaf for the same tree.id can slip a leaf into the buffer during *)
(* that window, and the subsequent clear_buffer_tx will wipe it"           *)
(* (tree_source/bucket_seal.rs:112-116).                                   *)
(***************************************************************************)

CONSTANT Chunks     \* the leaves there may be

VARIABLE held       \* the leaves under the tree

Init == held = {}

Take(k) == held' = held \cup {k}

Next == \E k \in Chunks : Take(k)

Spec == Init /\ [][Next]_held
=============================================================================
