--------------------------- MODULE MCRankStandard ---------------------------
(* Instances of RankStandard for TLC. *)
EXTENDS RankStandard, TLC

Symmetry ==
    Permutations(Producers) \cup Permutations(Consumers) \cup Permutations(Units)
=============================================================================
