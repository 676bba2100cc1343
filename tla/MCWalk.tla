------------------------------- MODULE MCWalk -------------------------------
(***************************************************************************)
(* K2HWalk on small instances.                                             *)
(***************************************************************************)
EXTENDS K2HWalk

CONSTANTS k1, k2, k3, w1, w2

MCKeys == {k1, k2, k3}
MCWriters == {w1, w2}

\* Under two bits of the mask the keys are at 1, 3 and 2: the second moves when
\* there is a second bit, the third when its path is arranged.
MCHash == (k1 :> 1) @@ (k2 :> 3) @@ (k3 :> 2)

E(k, mtime, expire) == [key |-> k, mtime |-> mtime, expire |-> expire, linked |-> TRUE]
A(mtime, expire) == [mtime |-> mtime, expire |-> expire]

\* An iterator over two elements and a free slot.
Finding == [walker |-> "find", slots |-> <<E(k1, 0, 0), Free, E(k2, 0, 0)>>, mtime |-> FALSE,
            now |-> 2, maxCalls |-> 2, other |-> <<>>,
            target |-> 0, targetMax |-> 1, old |-> {}, oldMax |-> 1, range |-> 1,
            startts |-> 1, endts |-> 2, pts |-> 1, parent |-> k1, subkeys |-> <<>>]

\* A node that takes everything.
Joining == [Finding EXCEPT !.walker = "get", !.slots = <<E(k1, 0, 0), E(k2, 1, 2), E(k3, 1, 0)>>]

\* The range of a node was the remainders 1 and 2 of a ring of four, and becomes 2 and
\* 0 of a ring of three: it has k3 as it was before the start, and not k2.
Growing == [Finding EXCEPT !.walker = "get", !.slots = <<E(k1, 1, 0), E(k2, 1, 0), E(k3, 1, 0)>>,
            !.mtime = TRUE, !.range = 2, !.target = 2, !.targetMax = 3, !.old = {1}, !.oldMax = 4,
            !.startts = 2, !.endts = 3, !.pts = 3, !.other = k3 :> A(1, 0)]

\* An iterator over the subkeys of k1.
Subkeys == [Finding EXCEPT !.walker = "subkeys", !.slots = <<E(k1, 0, 0), E(k2, 0, 0), E(k3, 0, 0)>>,
            !.subkeys = <<k2, k3>>]

MCSubkeys == {Subkeys}
MCUses == {Finding, Subkeys, Joining, Growing}
=============================================================================
