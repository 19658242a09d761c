------------------------- MODULE MCThreadWorkspaces -------------------------
(* Two threads, three turns and columns, a registry of two workspaces. *)
EXTENDS ThreadWorkspaces, TLC

Symmetry == Permutations(Threads) \cup Permutations(Scratch) \cup Permutations(Turns)
=============================================================================
