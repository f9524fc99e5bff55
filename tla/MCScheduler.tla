---------------------------- MODULE MCScheduler -----------------------------
(* Small sets of workers, tasks and scaling threads.                       *)
EXTENDS Scheduler, TLC
CONSTANTS w1, w2, w3, w4, s1, u1, u2
Symmetry == Permutations(Workers) \cup Permutations(Scalers) \cup Permutations(Units)
DownByOne == [up |-> FALSE, n |-> 1]
DownOnly  == {DownByOne}
None      == {}
=============================================================================
