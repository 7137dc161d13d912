----------------------------- MODULE MCDesktop -----------------------------
(* Desktop for TLC: two daemons, temporary names without any order.        *)
EXTENDS Desktop, TLC
Symmetry == Permutations(Daemon) \union Permutations(Name)
=============================================================================
