----------------------------- MODULE MCKeyIndex -----------------------------
(***************************************************************************)
(* K2HKeyIndex on small instances.  Three keys: the KINDEX of "low" never   *)
(* changes, "mid" moves at the first expansion of cur_mask and "top" at the *)
(* first and the second, so "mid" and "top" share a path up to the first.   *)
(***************************************************************************)
EXTENDS K2HKeyIndexStore

CONSTANTS low, mid, top

MCKeys == {low, mid, top}
MCHash == (low :> {}) @@ (mid :> {3}) @@ (top :> {3, 4})
MCHashOneExpansion == (low :> {}) @@ (mid :> {3}) @@ (top :> {3})

\* All keys in the same collision key index, or "mid" apart from the others.
MCCollTogether == [k \in MCKeys |-> 0]
MCCollApart == [k \in MCKeys |-> IF k = mid THEN 1 ELSE 0]
=============================================================================
