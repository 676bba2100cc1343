------------------------------ MODULE MCPages ------------------------------
(***************************************************************************)
(* K2HPages on small instances: a value of one page and one of two, so that *)
(* pages of different chains mix in the list of free pages.                 *)
(***************************************************************************)
EXTENDS K2HPages

CONSTANTS k1, k2, one, two, c1, c2

MCNeed == (k1 :> 1) @@ (k2 :> 1) @@ (one :> 1) @@ (two :> 2)
MCCollApart == (k1 :> c1) @@ (k2 :> c2)

Symm == Permutations(Threads)
=============================================================================
