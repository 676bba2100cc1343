----------------------------- MODULE K2HSubKeys -----------------------------
(***************************************************************************)
(* The subkeys of a key (src/lib/k2hsubkeys.cc): an array in ascending       *)
(* order without a value twice, in which erase and insert search by halves.  *)
(* Positions are those of the code, from 0 on; a name stands for its bytes,  *)
(* and names compare as memory does.                                         *)
(***************************************************************************)
EXTENDS Integers, Sequences, SequencesExt

Ascending(s) == \A i, j \in DOMAIN s : i < j => s[i] < s[j]

\* Where the halving stops that begins with the whole list: at x, or at the last
\* middle of the range r that is left.  A middle behind the last name counts as
\* smaller than x.
Halve(s, x) ==
    LET stop[r \in {r \in (0 .. Len(s)) \X (0 .. Len(s)) : r[1] <= r[2]}] ==
          LET mid     == (r[1] + r[2]) \div 2
              smaller == mid >= Len(s) \/ s[mid + 1] < x
          IN  IF \/ mid < Len(s) /\ s[mid + 1] = x
                 \/ mid = IF smaller THEN r[1] ELSE r[2]
              THEN mid
              ELSE stop[IF smaller THEN <<mid, r[2]>> ELSE <<r[1], mid>>]
    IN  stop[<<0, Len(s)>>]

Has(s, x) == LET mid == Halve(s, x) IN mid < Len(s) /\ s[mid + 1] = x

Erase(s, x) == IF Has(s, x) THEN RemoveAt(s, Halve(s, x) + 1) ELSE s

\* A new name goes behind the middle where the search has stopped if that is
\* smaller, else before it; a name that is there takes its old place.
Insert_BeforeTheMiddle(s, x) ==
    LET mid == Halve(s, x)
    IN  IF Has(s, x) THEN s ELSE InsertAt(s, mid + 1, x)

Insert(s, x) ==
    LET mid    == Halve(s, x)
        behind == mid < Len(s) /\ s[mid + 1] < x
    IN  IF Has(s, x) THEN s
        ELSE InsertAt(s, IF behind THEN mid + 2 ELSE mid + 1, x)

\* What op makes of base and the members of s from the first on: FoldLeft, as a
\* function of how many of them are done.
Folded(op(_, _), base, s) ==
    LET done[n \in 0 .. Len(s)] == IF n = 0 THEN base ELSE op(done[n - 1], s[n])
    IN  done[Len(s)]

\* A list a caller passes, and one that is read back from its pages, is built by
\* inserting its names one by one.
Collected(list) == Folded(Insert, <<>>, list)

\* The names of s that a new list does not hold.
Without(s, list) == Folded(Erase, s, list)
=============================================================================
