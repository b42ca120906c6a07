----------------------------- MODULE MCThreads -----------------------------
(* Instances of Threads for TLC. *)
EXTENDS Threads, TLC

CONSTANTS m1, m2, m3, f, d1, d2

Perms == Permutations(Mids)
=============================================================================
