------------------------------ MODULE MCQueue ------------------------------
(***************************************************************************)
(* K2HQueue on small instances, which differ in the calls that the callers  *)
(* let overlap.                                                             *)
(***************************************************************************)
EXTENDS K2HQueueImpl

\* Calls that take keys, FIFO and LIFO pushes, and pushes with takers.
Anything == [f \in BOOLEAN |-> {{"pop"}, {"rem"}, {"pop", "rem"}, {"push"}, {"push", "pop"}, {"push", "rem"}}]

\* FIFO, a push and a Pop.
PushAndPop == [f \in BOOLEAN |-> IF f THEN {{"push", "pop"}} ELSE {}]
=============================================================================
