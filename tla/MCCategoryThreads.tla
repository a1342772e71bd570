------------------------- MODULE MCCategoryThreads -------------------------
(* CategoryThreads for model checking: threads and categories are          *)
(* interchangeable.                                                        *)
EXTENDS CategoryThreads, TLC

Symmetry == Permutations(Threads) \cup Permutations(Categories)

=============================================================================
