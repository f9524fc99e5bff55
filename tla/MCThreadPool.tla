---------------------------- MODULE MCThreadPool ----------------------------
(* Small sets of controllers, clients, tasks and workers.                  *)
EXTENDS ThreadPool, TLC
CONSTANTS c1, c2, t1, t2, u1, u2, w1, w2
Symmetry ==
    Permutations(Controllers) \cup Permutations(Clients) \cup Permutations(Units)
        \cup Permutations(Workers)
=============================================================================
