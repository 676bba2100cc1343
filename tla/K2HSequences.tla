----------------------------- MODULE K2HSequences -----------------------------
(***************************************************************************)
(* Lemmas about finite sequences, for the proofs about lists of free pages  *)
(* and elements, chains, queues, pools and subkeys: what a concatenation, a *)
(* part, the head and the tail contain; induction over the naturals; the    *)
(* halving in a list of subkeys, and what insert and erase make of one.     *)
(***************************************************************************)
EXTENDS K2HSubKeys, SequenceTheorems, WellFoundedInduction, TLAPS

\* A concatenation has the elements of both parts, and none twice if neither
\* part has and they share none.
LEMMA ConcatFacts ==
    ASSUME NEW T, NEW s \in Seq(T), NEW u \in Seq(T)
    PROVE  /\ s \o u \in Seq(T)
           /\ Len(s \o u) = Len(s) + Len(u)
           /\ ToSet(s \o u) = ToSet(s) \cup ToSet(u)
           /\ IsInjective(s \o u) <=>
                IsInjective(s) /\ IsInjective(u) /\ ToSet(s) \cap ToSet(u) = {}
  <1> DEFINE a == s \o u
  <1>1. /\ a \in Seq(T)
        /\ Len(s) \in Nat /\ Len(u) \in Nat
        /\ DOMAIN s = 1 .. Len(s) /\ DOMAIN u = 1 .. Len(u)
        /\ DOMAIN a = 1 .. Len(s) + Len(u)
        /\ \A i \in 1 .. Len(s) : i \in DOMAIN a /\ a[i] = s[i]
        /\ \A i \in 1 .. Len(u) : i + Len(s) \in DOMAIN a /\ a[i + Len(s)] = u[i]
        /\ \A i \in DOMAIN a : \/ i \in 1 .. Len(s) /\ a[i] = s[i]
                               \/ i - Len(s) \in 1 .. Len(u) /\ a[i] = u[i - Len(s)]
    BY ConcatProperties, LenProperties
  <1> HIDE DEF a
  <1>2. ToSet(a) = ToSet(s) \cup ToSet(u)
    <2>1. ASSUME NEW x \in ToSet(a) PROVE x \in ToSet(s) \cup ToSet(u)
      <3>1. PICK i \in DOMAIN a : x = a[i]
        BY DEF ToSet
      <3>2. CASE i \in 1 .. Len(s) /\ a[i] = s[i]
        BY <1>1, <3>1, <3>2 DEF ToSet
      <3>3. CASE i - Len(s) \in 1 .. Len(u) /\ a[i] = u[i - Len(s)]
        BY <1>1, <3>1, <3>3 DEF ToSet
      <3> QED
        BY <1>1, <3>2, <3>3
    <2>2. ASSUME NEW x \in ToSet(s) PROVE x \in ToSet(a)
      BY <1>1 DEF ToSet
    <2>3. ASSUME NEW x \in ToSet(u) PROVE x \in ToSet(a)
      <3>1. PICK i \in 1 .. Len(u) : x = u[i]
        BY <1>1 DEF ToSet
      <3>2. i + Len(s) \in DOMAIN a /\ a[i + Len(s)] = x
        BY <1>1, <3>1
      <3> QED
        BY <3>2 DEF ToSet
    <2> QED
      BY <2>1, <2>2, <2>3
  <1>3. IsInjective(a) => IsInjective(s)
    BY <1>1 DEF IsInjective
  <1>4. ASSUME IsInjective(a), NEW i \in DOMAIN u, NEW j \in DOMAIN u, u[i] = u[j]
        PROVE  i = j
    <2>1. a[i + Len(s)] = a[j + Len(s)]
      BY <1>1, <1>4
    <2>2. i + Len(s) = j + Len(s)
      BY <1>1, <1>4, <2>1 DEF IsInjective
    <2> QED
      BY <1>1, <2>2
  <1>5. ASSUME IsInjective(a), NEW i \in DOMAIN s, NEW j \in DOMAIN u, s[i] = u[j]
        PROVE  FALSE
    <2>1. a[i] = a[j + Len(s)]
      BY <1>1, <1>5
    <2>2. i = j + Len(s)
      BY <1>1, <1>5, <2>1 DEF IsInjective
    <2> QED
      BY <1>1, <2>2
  <1>6. ASSUME IsInjective(s), IsInjective(u), ToSet(s) \cap ToSet(u) = {},
               NEW i \in DOMAIN a, NEW j \in DOMAIN a, a[i] = a[j]
        PROVE  i = j
    <2>1. CASE i \in 1 .. Len(s) /\ j \in 1 .. Len(s)
      BY <1>1, <1>6, <2>1 DEF IsInjective
    <2>2. CASE i \notin 1 .. Len(s) /\ j \notin 1 .. Len(s)
      <3>1. u[i - Len(s)] = u[j - Len(s)] /\ i - Len(s) \in DOMAIN u /\ j - Len(s) \in DOMAIN u
        BY <1>1, <1>6, <2>2
      <3>2. i - Len(s) = j - Len(s)
        BY <1>6, <3>1 DEF IsInjective
      <3> QED
        BY <1>1, <3>2
    <2>3. CASE i \in 1 .. Len(s) /\ j \notin 1 .. Len(s)
      <3>1. s[i] = u[j - Len(s)] /\ i \in DOMAIN s /\ j - Len(s) \in DOMAIN u
        BY <1>1, <1>6, <2>3
      <3> QED
        BY <1>6, <3>1 DEF ToSet
    <2>4. CASE i \notin 1 .. Len(s) /\ j \in 1 .. Len(s)
      <3>1. s[j] = u[i - Len(s)] /\ j \in DOMAIN s /\ i - Len(s) \in DOMAIN u
        BY <1>1, <1>6, <2>4
      <3> QED
        BY <1>6, <3>1 DEF ToSet
    <2> QED
      BY <2>1, <2>2, <2>3, <2>4
  <1>7. IsInjective(a) <=> IsInjective(s) /\ IsInjective(u) /\ ToSet(s) \cap ToSet(u) = {}
    <2>1. IsInjective(a) => IsInjective(u)
      BY <1>4 DEF IsInjective
    <2>2. IsInjective(a) => ToSet(s) \cap ToSet(u) = {}
      BY <1>5 DEF ToSet
    <2>3. IsInjective(s) /\ IsInjective(u) /\ ToSet(s) \cap ToSet(u) = {} => IsInjective(a)
      BY <1>6 DEF IsInjective
    <2> QED
      BY <1>3, <2>1, <2>2, <2>3
  <1> QED
    BY <1>1, <1>2, <1>7, ConcatProperties DEF a

\* A sequence of one element, or of none.
LEMMA OneFacts ==
    ASSUME NEW T, NEW e \in T
    PROVE  /\ <<e>> \in Seq(T)
           /\ Len(<<e>>) = 1
           /\ ToSet(<<e>>) = {e}
           /\ IsInjective(<<e>>)
  <1>1. /\ <<e>> \in Seq(T)
        /\ Len(<<e>>) = 1
        /\ DOMAIN <<e>> = {1}
        /\ <<e>>[1] = e
    OBVIOUS
  <1> QED
    BY <1>1 DEF ToSet, IsInjective

LEMMA EmptyFacts ==
    ASSUME NEW T
    PROVE  /\ <<>> \in Seq(T) /\ ToSet(<<>>) = {} /\ IsInjective(<<>>)
           /\ \A s \in Seq(T) : s # <<>> <=> Len(s) # 0
           /\ \A s \in Seq(T) : s # <<>> <=> ToSet(s) # {}
           /\ \A s \in Seq(T) : ToSet(s) \subseteq T
  <1>1. <<>> \in Seq(T) /\ Len(<<>>) = 0 /\ DOMAIN <<>> = {}
    OBVIOUS
  <1>2. \A s \in Seq(T) : s # <<>> => Len(s) \in Nat \ {0}
    BY EmptySeq
  <1>3. \A s \in Seq(T) : s # <<>> => 1 \in DOMAIN s
    BY <1>2
  <1>4. \A s \in Seq(T) : \A i \in DOMAIN s : s[i] \in T
    BY ElementOfSeq, LenProperties
  <1> QED
    BY <1>1, <1>2, <1>3, <1>4 DEF ToSet, IsInjective

\* What a sequence contains, at its positions.
LEMMA MemberFacts ==
    ASSUME NEW T, NEW s \in Seq(T)
    PROVE  /\ Len(s) \in Nat
           /\ DOMAIN s = 1 .. Len(s)
           /\ \A i \in 1 .. Len(s) : s[i] \in T /\ s[i] \in ToSet(s)
           /\ \A x : x \in ToSet(s) <=> \E i \in 1 .. Len(s) : s[i] = x
           /\ ToSet(s) \subseteq T
  <1>1. Len(s) \in Nat /\ DOMAIN s = 1 .. Len(s)
    BY LenProperties
  <1>2. \A i \in 1 .. Len(s) : s[i] \in T
    BY ElementOfSeq
  <1> QED
    BY <1>1, <1>2 DEF ToSet

\* The first n of a sequence and the rest of it.
LEMMA CutFacts ==
    ASSUME NEW T, NEW s \in Seq(T), NEW n \in Nat, n <= Len(s)
    PROVE  /\ SubSeq(s, 1, n) \in Seq(T)
           /\ Len(SubSeq(s, 1, n)) = n
           /\ SubSeq(s, n + 1, Len(s)) \in Seq(T)
           /\ Len(SubSeq(s, n + 1, Len(s))) = Len(s) - n
           /\ SubSeq(s, 1, n) \o SubSeq(s, n + 1, Len(s)) = s
  <1> DEFINE f == SubSeq(s, 1, n)
             r == SubSeq(s, n + 1, Len(s))
  <1>1. Len(s) \in Nat /\ \A i \in 1 .. Len(s) : s[i] \in T
    BY LenProperties, ElementOfSeq
  <1>2. /\ \A i \in 1 .. n : s[i] \in T
        /\ \A i \in (n + 1) .. Len(s) : s[i] \in T
    BY <1>1
  <1>3. f \in Seq(T) /\ Len(f) = n /\ \A i \in 1 .. n : f[i] = s[i]
    BY <1>1, <1>2, SubSeqProperties
  <1>4. r \in Seq(T) /\ Len(r) = Len(s) - n /\ \A i \in 1 .. Len(s) - n : r[i] = s[n + i]
    BY <1>1, <1>2, SubSeqProperties
  <1> HIDE DEF f, r
  <1>5. /\ f \o r \in Seq(T)
        /\ Len(f \o r) = Len(f) + Len(r)
        /\ \A i \in 1 .. Len(f) + Len(r) : (f \o r)[i] = IF i <= Len(f) THEN f[i] ELSE r[i - Len(f)]
    BY <1>3, <1>4, ConcatProperties
  <1>6. Len(f \o r) = Len(s)
    BY <1>1, <1>3, <1>4, <1>5
  <1>7. ASSUME NEW i \in 1 .. Len(s) PROVE (f \o r)[i] = s[i]
    <2>1. CASE i <= n
      BY <1>1, <1>3, <1>4, <1>5, <2>1
    <2>2. CASE n < i
      <3>1. i - n \in 1 .. Len(s) - n /\ n + (i - n) = i
        BY <1>1, <2>2
      <3>2. r[i - n] = s[i]
        BY <1>4, <3>1
      <3> QED
        BY <1>1, <1>3, <1>4, <1>5, <2>2, <3>2
    <2>3. i <= n \/ n < i
      BY <1>1
    <2> QED
      BY <2>1, <2>2, <2>3
  <1>8. f \o r = s
    BY <1>5, <1>6, <1>7, SeqEqual
  <1> QED
    BY <1>3, <1>4, <1>8 DEF f, r

\* So a page or an element is in one part only, if the whole has none twice.
LEMMA CutSets ==
    ASSUME NEW T, NEW s \in Seq(T), NEW n \in Nat, n <= Len(s)
    PROVE  /\ ToSet(s) = ToSet(SubSeq(s, 1, n)) \cup ToSet(SubSeq(s, n + 1, Len(s)))
           /\ IsInjective(s) =>
                /\ IsInjective(SubSeq(s, 1, n)) /\ IsInjective(SubSeq(s, n + 1, Len(s)))
                /\ ToSet(SubSeq(s, 1, n)) \cap ToSet(SubSeq(s, n + 1, Len(s))) = {}
  <1> DEFINE f == SubSeq(s, 1, n)
             r == SubSeq(s, n + 1, Len(s))
  <1>1. f \in Seq(T) /\ r \in Seq(T) /\ f \o r = s
    BY CutFacts
  <1> HIDE DEF f, r
  <1>2. /\ f \o r \in Seq(T)
        /\ Len(f \o r) = Len(f) + Len(r)
        /\ ToSet(f \o r) = ToSet(f) \cup ToSet(r)
        /\ IsInjective(f \o r) <=>
             IsInjective(f) /\ IsInjective(r) /\ ToSet(f) \cap ToSet(r) = {}
    BY <1>1, ConcatFacts
  <1> QED
    BY <1>1, <1>2 DEF f, r

\* Head and Tail, taken together again, are the sequence.
LEMMA HeadTailFacts ==
    ASSUME NEW T, NEW s \in Seq(T), s # <<>>
    PROVE  /\ Head(s) \in T
           /\ Tail(s) \in Seq(T)
           /\ Len(s) \in Nat \ {0}
           /\ Len(Tail(s)) = Len(s) - 1
           /\ \A i \in 1 .. Len(s) - 1 : Tail(s)[i] = s[i + 1]
           /\ s = <<Head(s)>> \o Tail(s)
           /\ ToSet(s) = {Head(s)} \cup ToSet(Tail(s))
           /\ IsInjective(s) <=> IsInjective(Tail(s)) /\ Head(s) \notin ToSet(Tail(s))
  <1> DEFINE u == <<Head(s)>>
  <1>1. /\ Head(s) \in T /\ Tail(s) \in Seq(T)
        /\ Len(s) \in Nat \ {0} /\ Len(Tail(s)) = Len(s) - 1
        /\ \A i \in 1 .. Len(s) - 1 : Tail(s)[i] = s[i + 1]
    BY HeadTailProperties, LenProperties, EmptySeq
  <1>2. /\ u \in Seq(T) /\ Len(u) = 1 /\ ToSet(u) = {Head(s)} /\ IsInjective(u)
        /\ u[1] = s[1]
    BY <1>1, OneFacts
  <1> HIDE DEF u
  <1>3. ASSUME NEW i \in 1 .. Len(s) PROVE (u \o Tail(s))[i] = s[i]
    <2>1. \A j \in 1 .. Len(u) + Len(Tail(s)) : (u \o Tail(s))[j] =
             IF j <= Len(u) THEN u[j] ELSE Tail(s)[j - Len(u)]
      BY <1>1, <1>2, ConcatProperties
    <2>2. CASE i = 1
      BY <1>1, <1>2, <2>1, <2>2
    <2>3. CASE i # 1
      <3>1. i - 1 \in 1 .. Len(s) - 1 /\ (i - 1) + 1 = i
        BY <1>1, <2>3
      <3>2. Tail(s)[i - 1] = s[i]
        BY <1>1, <3>1
      <3>3. i \in 1 .. Len(u) + Len(Tail(s)) /\ ~(i <= Len(u)) /\ i - Len(u) = i - 1
        BY <1>1, <1>2, <2>3
      <3> QED
        BY <2>1, <3>2, <3>3
    <2> QED
      BY <2>2, <2>3
  <1>4. /\ u \o Tail(s) \in Seq(T)
        /\ Len(u \o Tail(s)) = Len(u) + Len(Tail(s))
        /\ ToSet(u \o Tail(s)) = ToSet(u) \cup ToSet(Tail(s))
        /\ IsInjective(u \o Tail(s)) <=>
             IsInjective(u) /\ IsInjective(Tail(s)) /\ ToSet(u) \cap ToSet(Tail(s)) = {}
    BY <1>1, <1>2, ConcatFacts
  <1>5. u \o Tail(s) = s
    BY <1>1, <1>2, <1>3, <1>4, SeqEqual
  <1> QED
    BY <1>1, <1>2, <1>4, <1>5 DEF u

\* One element put behind a sequence, or before it.
LEMMA AppendFacts ==
    ASSUME NEW T, NEW s \in Seq(T), NEW e \in T
    PROVE  /\ Append(s, e) \in Seq(T)
           /\ Len(Append(s, e)) = Len(s) + 1
           /\ \A i \in 1 .. Len(s) : Append(s, e)[i] = s[i]
           /\ Append(s, e)[Len(s) + 1] = e
           /\ ToSet(Append(s, e)) = ToSet(s) \cup {e}
           /\ IsInjective(Append(s, e)) <=> IsInjective(s) /\ e \notin ToSet(s)
  <1> DEFINE u == <<e>>
  <1>1. u \in Seq(T) /\ ToSet(u) = {e} /\ IsInjective(u)
    BY OneFacts
  <1>2. Append(s, e) = s \o u
    BY AppendIsConcat
  <1> HIDE DEF u
  <1>3. /\ s \o u \in Seq(T)
        /\ Len(s \o u) = Len(s) + Len(u)
        /\ ToSet(s \o u) = ToSet(s) \cup ToSet(u)
        /\ IsInjective(s \o u) <=>
             IsInjective(s) /\ IsInjective(u) /\ ToSet(s) \cap ToSet(u) = {}
    BY <1>1, ConcatFacts
  <1>4. /\ Len(Append(s, e)) = Len(s) + 1
        /\ \A i \in 1 .. Len(s) : Append(s, e)[i] = s[i]
        /\ Append(s, e)[Len(s) + 1] = e
    BY AppendProperties
  <1> QED
    BY <1>1, <1>2, <1>3, <1>4

LEMMA PrependFacts ==
    ASSUME NEW T, NEW s \in Seq(T), NEW e \in T
    PROVE  /\ <<e>> \o s \in Seq(T)
           /\ Len(<<e>> \o s) = Len(s) + 1
           /\ ToSet(<<e>> \o s) = ToSet(s) \cup {e}
           /\ IsInjective(<<e>> \o s) <=> IsInjective(s) /\ e \notin ToSet(s)
  <1> DEFINE u == <<e>>
  <1>1. u \in Seq(T) /\ Len(u) = 1 /\ ToSet(u) = {e} /\ IsInjective(u)
    BY OneFacts
  <1> HIDE DEF u
  <1>2. /\ u \o s \in Seq(T)
        /\ Len(u \o s) = Len(u) + Len(s)
        /\ ToSet(u \o s) = ToSet(u) \cup ToSet(s)
        /\ IsInjective(u \o s) <=>
             IsInjective(u) /\ IsInjective(s) /\ ToSet(u) \cap ToSet(s) = {}
    BY <1>1, ConcatFacts
  <1>3. Len(s) \in Nat
    BY LenProperties
  <1> QED
    BY <1>1, <1>2, <1>3 DEF u

-----------------------------------------------------------------------------
\* Induction over the naturals, for a set.
LEMMA SetInduction ==
    ASSUME NEW S \in SUBSET Nat, 0 \in S, \A n \in S : n + 1 \in S
    PROVE  S = Nat
  <1> SUFFICES ASSUME Nat \ S # {} PROVE FALSE
    OBVIOUS
  <1> DEFINE Less == OpToRel(<, Nat)
  <1>1. IsWellFoundedOn(Less, Nat)
    BY NatLessThanWellFounded, Zenon
  <1>2. \A a, b \in Nat : a < b => <<a, b>> \in Less
    BY Zenon DEF OpToRel
  <1> HIDE DEF Less
  <1>3. PICK x \in Nat \ S : \A y \in Nat \ S : ~ (<<y, x>> \in Less)
    BY <1>1, WFMin, Zenon
  <1>4. x - 1 \in Nat /\ x - 1 < x /\ (x - 1) + 1 = x
    OBVIOUS
  <1>5. x - 1 \in S
    BY <1>2, <1>3, <1>4
  <1> QED
    BY <1>4, <1>5

-----------------------------------------------------------------------------
\* The lists of subkeys.

\* The ranges of a list of n names in which the halving may stand, and where it goes
\* from a range.
Ranges(n) == {r \in (0 .. n) \X (0 .. n) : r[1] <= r[2]}
Mid(r) == (r[1] + r[2]) \div 2
Smaller(s, x, r) == Mid(r) >= Len(s) \/ s[Mid(r) + 1] < x
Stops(s, x, r) == \/ Mid(r) < Len(s) /\ s[Mid(r) + 1] = x
                  \/ Mid(r) = IF Smaller(s, x, r) THEN r[1] ELSE r[2]
Half(s, x, r) == IF Smaller(s, x, r) THEN <<Mid(r), r[2]>> ELSE <<r[1], Mid(r)>>

\* The middle is in the range; where the halving does not stop, a half is shorter.
LEMMA HalfFacts ==
    ASSUME NEW n \in Nat, NEW s, NEW x, NEW r \in Ranges(n)
    PROVE  /\ r[1] \in Nat /\ r[2] \in Nat /\ r[2] <= n /\ r[1] <= r[2]
           /\ Mid(r) \in Nat /\ r[1] <= Mid(r) /\ Mid(r) <= r[2]
           /\ r[1] < r[2] => Mid(r) < r[2]
           /\ ~Stops(s, x, r) => /\ Half(s, x, r) \in Ranges(n)
                                 /\ Half(s, x, r)[2] - Half(s, x, r)[1] < r[2] - r[1]
  <1>1. r[1] \in 0 .. n /\ r[2] \in 0 .. n /\ r[1] <= r[2]
    BY DEF Ranges
  <1>2. /\ Mid(r) \in Nat /\ r[1] <= Mid(r) /\ Mid(r) <= r[2]
        /\ r[1] < r[2] => Mid(r) < r[2]
    BY <1>1 DEF Mid
  <1>3. ASSUME ~Stops(s, x, r), Smaller(s, x, r)
        PROVE  Half(s, x, r) \in Ranges(n) /\ Half(s, x, r)[2] - Half(s, x, r)[1] < r[2] - r[1]
    <2>1. Mid(r) # r[1] /\ Half(s, x, r) = <<Mid(r), r[2]>>
      BY <1>3, Zenon DEF Stops, Half
    <2> QED
      BY <1>1, <1>2, <2>1 DEF Ranges
  <1>4. ASSUME ~Stops(s, x, r), ~Smaller(s, x, r)
        PROVE  Half(s, x, r) \in Ranges(n) /\ Half(s, x, r)[2] - Half(s, x, r)[1] < r[2] - r[1]
    <2>1. Mid(r) # r[2] /\ Half(s, x, r) = <<r[1], Mid(r)>>
      BY <1>4, Zenon DEF Stops, Half
    <2> QED
      BY <1>1, <1>2, <2>1 DEF Ranges
  <1> QED
    BY <1>1, <1>2, <1>3, <1>4

\* A function that halves as the code does, on the ranges shorter than w.
Narrow(n, w) == {r \in Ranges(n) : r[2] - r[1] < w}
Halving(h, s, x, w) ==
    h = [r \in Narrow(Len(s), w) |-> IF Stops(s, x, r) THEN Mid(r) ELSE h[Half(s, x, r)]]

LEMMA HalvingExists ==
    ASSUME NEW s, NEW x, Len(s) \in Nat
    PROVE  \A w \in Nat : \E h : Halving(h, s, x, w)
  <1> DEFINE S == {w \in Nat : \E h : Halving(h, s, x, w)}
  <1>1. 0 \in S
    <2>1. Narrow(Len(s), 0) = {}
      <3> SUFFICES ASSUME NEW r \in Ranges(Len(s)), r[2] - r[1] < 0 PROVE FALSE
        BY Zenon DEF Narrow
      <3>1. r[1] \in Nat /\ r[2] \in Nat /\ r[1] <= r[2]
        BY HalfFacts
      <3> QED
        BY <3>1
    <2> DEFINE h == [r \in {} |-> 0]
    <2>2. Halving(h, s, x, 0)
      BY <2>1 DEF Halving
    <2> QED
      BY <2>2
  <1>2. ASSUME NEW w \in S PROVE w + 1 \in S
    <2>1. PICK h : Halving(h, s, x, w)
      OBVIOUS
    <2> DEFINE N == Narrow(Len(s), w)
               M == Narrow(Len(s), w + 1)
               g == [r \in M |-> IF Stops(s, x, r) THEN Mid(r) ELSE h[Half(s, x, r)]]
    <2>2. \A r \in M : ~Stops(s, x, r) => Half(s, x, r) \in N /\ Half(s, x, r) \in M
      <3> SUFFICES ASSUME NEW r \in M, ~Stops(s, x, r)
                   PROVE  Half(s, x, r) \in N /\ Half(s, x, r) \in M
        OBVIOUS
      <3> DEFINE b == Half(s, x, r)
      <3>1. r \in Ranges(Len(s)) /\ r[2] - r[1] < w + 1 /\ w \in Nat
        BY DEF Narrow
      <3>2. b \in Ranges(Len(s)) /\ b[2] - b[1] < r[2] - r[1]
        BY <3>1, HalfFacts
      <3>3. r[1] \in Nat /\ r[2] \in Nat /\ b[1] \in Nat /\ b[2] \in Nat
        <4> HIDE DEF b
        <4> QED
          BY <3>1, <3>2, HalfFacts
      <3> HIDE DEF b
      <3>4. b[2] - b[1] < w /\ b[2] - b[1] < w + 1
        BY <3>1, <3>2, <3>3
      <3>5. b \in Narrow(Len(s), w) /\ b \in Narrow(Len(s), w + 1)
        BY <3>2, <3>4 DEF Narrow
      <3> QED
        BY <3>5 DEF b
    <2>3. \A r \in N : r \in M
      <3> SUFFICES ASSUME NEW r \in N PROVE r \in M
        OBVIOUS
      <3>1. r \in Ranges(Len(s)) /\ r[2] - r[1] < w /\ w \in Nat
        BY DEF Narrow
      <3>2. r[1] \in Nat /\ r[2] \in Nat
        BY <3>1, HalfFacts
      <3> QED
        BY <3>1, <3>2 DEF Narrow
    <2> HIDE DEF N, M
    <2>4. \A r \in N : h[r] = IF Stops(s, x, r) THEN Mid(r) ELSE h[Half(s, x, r)]
      BY <2>1, Zenon DEF Halving, N
    <2>5. \A r \in N : g[r] = h[r]
      BY <2>3, <2>4
    <2>6. g = [r \in M |-> IF Stops(s, x, r) THEN Mid(r) ELSE g[Half(s, x, r)]]
      <3>1. \A r \in M : (IF Stops(s, x, r) THEN Mid(r) ELSE h[Half(s, x, r)])
                          = IF Stops(s, x, r) THEN Mid(r) ELSE g[Half(s, x, r)]
        <4> HIDE DEF g
        <4> QED
          BY <2>2, <2>5
      <3> QED
        BY <3>1, Zenon
    <2>7. Halving(g, s, x, w + 1)
      <3> HIDE DEF g
      <3> QED
        BY <2>6, Zenon DEF Halving, M
    <2> HIDE DEF g
    <2> QED
      BY <2>7
  <1> HIDE DEF S
  <1>3. S = Nat
    <2>1. S \in SUBSET Nat
      BY DEF S
    <2> QED
      BY <1>1, <1>2, <2>1, SetInduction
  <1> QED
    BY <1>3 DEF S

\* Where the halving stops: at x, behind the last name that is smaller, or at the
\* first name if none is.
Hit(s, x, mid) == mid < Len(s) /\ s[mid + 1] = x
Between(s, x, mid) == \/ /\ mid < Len(s) /\ s[mid + 1] < x
                         /\ mid + 1 < Len(s) => x < s[mid + 2]
                      \/ mid = 0 /\ (0 < Len(s) => x < s[1])

\* All names in front of a range are smaller than x, all behind it are greater.
Around(s, x, r) == /\ r[1] = 0 \/ (r[1] < Len(s) /\ s[r[1] + 1] < x)
                   /\ r[2] = Len(s) \/ x < s[r[2] + 1]

LEMMA HalfAround ==
    ASSUME NEW s \in Seq(Nat), NEW x \in Nat, NEW r \in Ranges(Len(s)), Around(s, x, r)
    PROVE  /\ Stops(s, x, r) => Hit(s, x, Mid(r)) \/ Between(s, x, Mid(r))
           /\ ~Stops(s, x, r) => Around(s, x, Half(s, x, r))
  <1> DEFINE L == Len(s)
             m == Mid(r)
  <1>1. L \in Nat /\ \A i \in 1 .. L : s[i] \in Nat
    BY LenProperties, ElementOfSeq
  <1>2. /\ r[1] \in Nat /\ r[2] \in Nat /\ r[2] <= L /\ r[1] <= r[2]
        /\ m \in Nat /\ r[1] <= m /\ m <= r[2]
        /\ r[1] < r[2] => m < r[2]
    BY <1>1, HalfFacts
  <1>3. m = r[1] => r[2] <= r[1] + 1
    <2>1. \A a, b \in Nat : (a + b) \div 2 = a => b <= a + 1
      OBVIOUS
    <2> QED
      BY <1>2, <2>1, Zenon DEF Mid
  <1>4. \A i \in Nat : i < L => i + 1 \in 1 .. L /\ s[i + 1] \in Nat
    BY <1>1
  <1>5. /\ Smaller(s, x, r) <=> (m >= L \/ s[m + 1] < x)
        /\ Stops(s, x, r) <=> \/ m < L /\ s[m + 1] = x
                              \/ m = IF Smaller(s, x, r) THEN r[1] ELSE r[2]
        /\ Half(s, x, r) = IF Smaller(s, x, r) THEN <<m, r[2]>> ELSE <<r[1], m>>
    BY DEF Smaller, Stops, Half
  <1> HIDE DEF m, L
  <1>6. ASSUME Stops(s, x, r), ~Hit(s, x, m)
        PROVE  Between(s, x, m)
    <2>1. CASE Smaller(s, x, r)
      <3>1. m = r[1]
        BY <1>5, <1>6, <2>1 DEF Hit, L
      <3>2. CASE r[1] = r[2]
        BY <1>1, <1>2, <1>4, <1>5, <2>1, <3>1, <3>2 DEF Between, Around, L
      <3>3. CASE r[2] = r[1] + 1
        <4>1. m < L /\ s[m + 1] < x /\ m + 1 = r[2]
          BY <1>1, <1>2, <1>5, <2>1, <3>1, <3>3
        <4>2. m + 1 < L => x < s[m + 2]
          <5>1. (m + 1) + 1 = m + 2
            BY <1>2
          <5> QED
            BY <1>2, <4>1, <5>1 DEF Around, L
        <4> QED
          BY <4>1, <4>2 DEF Between, L
      <3> QED
        BY <1>2, <1>3, <3>1, <3>2, <3>3
    <2>2. CASE ~Smaller(s, x, r)
      <3>1. m = r[2] /\ r[1] = r[2] /\ m < L /\ ~(s[m + 1] < x) /\ s[m + 1] # x
        BY <1>1, <1>2, <1>5, <1>6, <2>2 DEF Hit, L
      <3>2. x < s[m + 1]
        BY <1>2, <1>4, <3>1
      <3> QED
        BY <1>2, <1>4, <3>1, <3>2 DEF Between, Around, L
    <2> QED
      BY <2>1, <2>2
  <1>7. ASSUME ~Stops(s, x, r)
        PROVE  Around(s, x, Half(s, x, r))
    <2>1. CASE Smaller(s, x, r)
      <3>1. m # r[1] /\ m < r[2] /\ m < L /\ s[m + 1] < x
        BY <1>1, <1>2, <1>5, <1>7, <2>1
      <3>2. Half(s, x, r)[1] = m /\ Half(s, x, r)[2] = r[2]
        BY <1>5, <2>1
      <3> QED
        BY <3>1, <3>2 DEF Around, L
    <2>2. CASE ~Smaller(s, x, r)
      <3>1. m < L /\ ~(s[m + 1] < x) /\ s[m + 1] # x
        BY <1>1, <1>2, <1>5, <1>7, <2>2
      <3>2. x < s[m + 1]
        BY <1>2, <1>4, <3>1
      <3>3. Half(s, x, r)[1] = r[1] /\ Half(s, x, r)[2] = m
        BY <1>5, <2>2
      <3> QED
        BY <3>2, <3>3 DEF Around
    <2> QED
      BY <2>1, <2>2
  <1> QED
    BY <1>6, <1>7 DEF m

\* The halving of a list, sorted or not, stops in the list.
LEMMA HalveStops ==
    ASSUME NEW s \in Seq(Nat), NEW x \in Nat
    PROVE  /\ Halve(s, x) \in 0 .. Len(s)
           /\ Hit(s, x, Halve(s, x)) \/ Between(s, x, Halve(s, x))
  <1> DEFINE L == Len(s)
             R == Ranges(L)
             Right(h) == h = [r \in R |-> IF Stops(s, x, r) THEN Mid(r) ELSE h[Half(s, x, r)]]
             f == CHOOSE h : Right(h)
             Good(r) == /\ f[r] \in 0 .. L
                        /\ Around(s, x, r) => Hit(s, x, f[r]) \/ Between(s, x, f[r])
             S == {w \in Nat : \A r \in R : r[2] - r[1] < w => Good(r)}
  <1>1. L \in Nat
    BY LenProperties
  <1>2. \E h : Right(h)
    <2>1. L + 1 \in Nat /\ \A w \in Nat : \E h : Halving(h, s, x, w)
      <3>1. \A w \in Nat : \E h : Halving(h, s, x, w)
        BY <1>1, HalvingExists
      <3> QED
        BY <1>1, <3>1
    <2>4. PICK h : Halving(h, s, x, L + 1)
      BY <2>1, Zenon
    <2>2. R = Narrow(L, L + 1)
      <3>1. ASSUME NEW r \in R PROVE r[2] - r[1] < L + 1
        <4>1. r[1] \in Nat /\ r[2] \in Nat /\ r[2] <= L
          BY <1>1, HalfFacts
        <4> QED
          BY <1>1, <4>1
      <3> HIDE DEF L
      <3> QED
        BY <3>1 DEF Narrow
    <2>3. Right(h)
      BY <2>2, <2>4, Zenon DEF Halving
    <2> QED
      BY <2>3
  <1>3. Right(f)
    <2> HIDE DEF Right
    <2> QED
      BY <1>2
  <1>4. \A r \in R : f[r] = IF Stops(s, x, r) THEN Mid(r) ELSE f[Half(s, x, r)]
    <2> HIDE DEF f, R
    <2> QED
      BY <1>3, Zenon
  <1>5. Halve(s, x) = f[<<0, L>>]
    BY DEF Halve, f, Right, R, L, Ranges, Stops, Smaller, Mid, Half
  <1> HIDE DEF f, Right
  <1>6. 0 \in S
    <2> SUFFICES ASSUME NEW r \in R, r[2] - r[1] < 0 PROVE FALSE
      BY Zenon
    <2>1. r[1] \in Nat /\ r[2] \in Nat /\ r[1] <= r[2]
      BY <1>1, HalfFacts
    <2> QED
      BY <2>1
  <1>7. ASSUME NEW w \in S PROVE w + 1 \in S
    <2>1. w \in Nat /\ \A r \in R : r[2] - r[1] < w => Good(r)
      OBVIOUS
    <2> SUFFICES ASSUME NEW r \in R, r[2] - r[1] < w + 1 PROVE Good(r)
      BY <2>1
    <2>2. r[1] \in Nat /\ r[2] \in Nat /\ Mid(r) \in Nat /\ Mid(r) <= L
      <3>1. r[1] \in Nat /\ r[2] \in Nat /\ Mid(r) \in Nat /\ Mid(r) <= r[2] /\ r[2] <= L
        BY <1>1, HalfFacts
      <3> QED
        BY <1>1, <3>1
    <2>3. Around(s, x, r) =>
             /\ Stops(s, x, r) => Hit(s, x, Mid(r)) \/ Between(s, x, Mid(r))
             /\ ~Stops(s, x, r) => Around(s, x, Half(s, x, r))
      BY HalfAround
    <2>4. CASE Stops(s, x, r)
      <3>1. f[r] = Mid(r)
        BY <1>4, <2>4
      <3> QED
        BY <1>1, <2>2, <2>3, <2>4, <3>1
    <2>5. CASE ~Stops(s, x, r)
      <3> DEFINE b == Half(s, x, r)
      <3>1. f[r] = f[b]
        BY <1>4, <2>5
      <3>2. b \in R /\ b[2] - b[1] < r[2] - r[1]
        BY <1>1, <2>5, HalfFacts
      <3>3. b[1] \in Nat /\ b[2] \in Nat
        <4> HIDE DEF b
        <4> QED
          BY <1>1, <3>2, HalfFacts
      <3> HIDE DEF b, Good
      <3>4. b[2] - b[1] < w
        BY <2>1, <2>2, <3>2, <3>3
      <3>5. Good(b)
        BY <2>1, <3>2, <3>4
      <3> QED
        BY <2>3, <2>5, <3>1, <3>5 DEF Good, b
    <2> QED
      BY <2>4, <2>5
  <1>8. S = Nat
    <2>1. S \in SUBSET Nat
      OBVIOUS
    <2> HIDE DEF S
    <2> QED
      BY <1>6, <1>7, <2>1, SetInduction
  <1>9. Good(<<0, L>>)
    <2>1. L + 1 \in S
      <3> HIDE DEF S, L
      <3> QED
        BY <1>1, <1>8
    <2>2. <<0, L>> \in R /\ <<0, L>>[2] - <<0, L>>[1] < L + 1
      BY <1>1 DEF Ranges
    <2> HIDE DEF Good, R, L
    <2> QED
      BY <2>1, <2>2
  <1>10. Around(s, x, <<0, L>>)
    BY DEF Around
  <1> QED
    BY <1>5, <1>9, <1>10

\* Inserting and removing at a position, name by name.
InsertedAt(new, s, x, p) ==
    \A i \in 1 .. Len(s) + 1 : new[i] = IF i <= p THEN s[i] ELSE IF i = p + 1 THEN x ELSE s[i - 1]

LEMMA InsertAtFacts ==
    ASSUME NEW T, NEW s \in Seq(T), NEW x \in T, NEW p \in 0 .. Len(s)
    PROVE  /\ InsertAt(s, p + 1, x) \in Seq(T)
           /\ Len(InsertAt(s, p + 1, x)) = Len(s) + 1
           /\ ToSet(InsertAt(s, p + 1, x)) = ToSet(s) \cup {x}
           /\ InsertedAt(InsertAt(s, p + 1, x), s, x, p)
  <1> DEFINE L == Len(s)
             a == SubSeq(s, 1, p)
             u == <<x>>
             b == SubSeq(s, p + 1, L)
  <1>1. L \in Nat /\ p \in Nat /\ p <= L /\ \A i \in 1 .. L : s[i] \in T
    BY LenProperties, ElementOfSeq
  <1>2. /\ a \in Seq(T) /\ Len(a) = p /\ b \in Seq(T) /\ Len(b) = L - p
        /\ ToSet(s) = ToSet(a) \cup ToSet(b)
    BY <1>1, CutFacts, CutSets
  <1>3. /\ \A i \in 1 .. p : a[i] = s[i]
        /\ \A i \in 1 .. L - p : b[i] = s[p + i]
    <2>1. \A i \in 1 .. p : s[i] \in T
      BY <1>1
    <2>2. \A i \in (p + 1) .. L : s[i] \in T
      BY <1>1
    <2>3. \A i \in 1 .. p - 1 + 1 : a[i] = s[1 + i - 1]
      BY <1>1, <2>1, SubSeqProperties
    <2>4. \A i \in 1 .. L - (p + 1) + 1 : b[i] = s[(p + 1) + i - 1]
      BY <1>1, <2>2, SubSeqProperties
    <2> HIDE DEF a, b, L
    <2>5. \A i \in 1 .. p : a[i] = s[i]
      <3>1. \A i \in 1 .. p : i \in 1 .. p - 1 + 1 /\ 1 + i - 1 = i
        BY <1>1
      <3> QED
        BY <2>3, <3>1
    <2>6. \A i \in 1 .. L - p : b[i] = s[p + i]
      <3>1. \A i \in 1 .. L - p : i \in 1 .. L - (p + 1) + 1 /\ (p + 1) + i - 1 = p + i
        BY <1>1
      <3> QED
        BY <2>4, <3>1
    <2> QED
      BY <2>5, <2>6
  <1>4. u \in Seq(T) /\ Len(u) = 1 /\ u[1] = x /\ ToSet(u) = {x}
    BY OneFacts
  <1>5. InsertAt(s, p + 1, x) = (a \o u) \o b
    <2>1. (p + 1) - 1 = p
      BY <1>1
    <2> QED
      BY <2>1, Zenon DEF InsertAt
  <1> HIDE DEF a, u, b
  <1>6. /\ a \o u \in Seq(T) /\ Len(a \o u) = p + 1 /\ ToSet(a \o u) = ToSet(a) \cup {x}
        /\ \A i \in 1 .. p + 1 : (a \o u)[i] = IF i <= p THEN s[i] ELSE x
    <2>1. /\ a \o u \in Seq(T) /\ Len(a \o u) = Len(a) + Len(u)
          /\ ToSet(a \o u) = ToSet(a) \cup ToSet(u)
      <3>1. a \in Seq(T) /\ u \in Seq(T)
        BY <1>2, <1>4
      <3> QED
        BY <3>1, ConcatFacts
    <2>2. \A i \in 1 .. Len(a) + Len(u) : (a \o u)[i] = IF i <= Len(a) THEN a[i] ELSE u[i - Len(a)]
      BY <1>2, <1>4, ConcatProperties
    <2> QED
      BY <1>1, <1>2, <1>3, <1>4, <2>1, <2>2
  <1> DEFINE au == a \o u
             all == au \o b
  <1>7. /\ all \in Seq(T) /\ Len(all) = L + 1 /\ ToSet(all) = ToSet(au) \cup ToSet(b)
        /\ \A i \in 1 .. L + 1 : all[i] = IF i <= p + 1 THEN au[i] ELSE b[i - (p + 1)]
    <2>1. /\ au \in Seq(T) /\ Len(au) = p + 1
      BY <1>6
    <2> HIDE DEF au
    <2>2. /\ all \in Seq(T) /\ Len(all) = Len(au) + Len(b)
          /\ ToSet(all) = ToSet(au) \cup ToSet(b)
      BY <1>2, <2>1, ConcatFacts
    <2>3. \A i \in 1 .. Len(au) + Len(b) : all[i] = IF i <= Len(au) THEN au[i] ELSE b[i - Len(au)]
      BY <1>2, <2>1, ConcatProperties
    <2> HIDE DEF all, L
    <2> QED
      BY <1>1, <1>2, <2>1, <2>2, <2>3
  <1>8. /\ \A i \in 1 .. p + 1 : au[i] = IF i <= p THEN s[i] ELSE x
        /\ ToSet(au) = ToSet(a) \cup {x}
    BY <1>6
  <1> HIDE DEF au, all, L
  <1>9. \A i \in 1 .. L + 1 : all[i] =
            IF i <= p THEN s[i] ELSE IF i = p + 1 THEN x ELSE s[i - 1]
    <2> SUFFICES ASSUME NEW i \in 1 .. L + 1
                 PROVE  all[i] = IF i <= p THEN s[i] ELSE IF i = p + 1 THEN x ELSE s[i - 1]
      OBVIOUS
    <2>1. CASE i <= p + 1
      BY <1>1, <1>7, <1>8, <2>1
    <2>2. CASE ~(i <= p + 1)
      <3>1. i - (p + 1) \in 1 .. L - p /\ p + (i - (p + 1)) = i - 1
        BY <1>1, <2>2
      <3>2. all[i] = b[i - (p + 1)] /\ b[i - (p + 1)] = s[p + (i - (p + 1))]
        BY <1>3, <1>7, <2>2, <3>1
      <3> QED
        BY <1>1, <2>2, <3>1, <3>2
    <2> QED
      BY <2>1, <2>2
  <1>10. InsertAt(s, p + 1, x) = all
    BY <1>5 DEF all, au
  <1> QED
    BY <1>2, <1>7, <1>8, <1>9, <1>10 DEF L, InsertedAt

LEMMA RemoveAtFacts ==
    ASSUME NEW T, NEW s \in Seq(T), NEW p \in 1 .. Len(s)
    PROVE  /\ RemoveAt(s, p) \in Seq(T)
           /\ Len(RemoveAt(s, p)) = Len(s) - 1
           /\ \A i \in 1 .. Len(s) - 1 : RemoveAt(s, p)[i] = IF i < p THEN s[i] ELSE s[i + 1]
  <1> DEFINE L == Len(s)
             a == SubSeq(s, 1, p - 1)
             b == SubSeq(s, p + 1, L)
  <1>1. L \in Nat /\ p \in Nat /\ 1 <= p /\ p <= L /\ \A i \in 1 .. L : s[i] \in T
    BY LenProperties, ElementOfSeq
  <1>2. /\ a \in Seq(T) /\ Len(a) = p - 1
        /\ \A i \in 1 .. p - 1 : a[i] = s[i]
    <2>1. 1 \in Int /\ p - 1 \in Int /\ \A i \in 1 .. p - 1 : s[i] \in T
      BY <1>1
    <2>2. /\ a \in Seq(T) /\ Len(a) = IF 1 <= p - 1 THEN (p - 1) - 1 + 1 ELSE 0
          /\ \A i \in 1 .. (p - 1) - 1 + 1 : a[i] = s[1 + i - 1]
      BY <2>1, SubSeqProperties
    <2> HIDE DEF a
    <2> QED
      BY <1>1, <2>2
  <1>3. /\ b \in Seq(T) /\ Len(b) = L - p
        /\ \A i \in 1 .. L - p : b[i] = s[p + i]
    <2>1. p + 1 \in Int /\ L \in Int /\ \A i \in p + 1 .. L : s[i] \in T
      BY <1>1
    <2>2. /\ b \in Seq(T) /\ Len(b) = IF p + 1 <= L THEN L - (p + 1) + 1 ELSE 0
          /\ \A i \in 1 .. L - (p + 1) + 1 : b[i] = s[(p + 1) + i - 1]
      <3> HIDE DEF L
      <3> QED
        BY <2>1, SubSeqProperties
    <2> HIDE DEF b, L
    <2>3. \A i \in 1 .. L - p : i \in 1 .. L - (p + 1) + 1 /\ (p + 1) + i - 1 = p + i
      BY <1>1
    <2> QED
      BY <1>1, <2>2, <2>3
  <1>4. RemoveAt(s, p) = a \o b
    BY DEF RemoveAt
  <1> HIDE DEF a, b, L
  <1>5. /\ a \o b \in Seq(T) /\ Len(a \o b) = Len(a) + Len(b)
        /\ \A i \in 1 .. Len(a) + Len(b) : (a \o b)[i] = IF i <= Len(a) THEN a[i] ELSE b[i - Len(a)]
    BY <1>2, <1>3, ConcatProperties
  <1> DEFINE all == a \o b
  <1>6. /\ all \in Seq(T) /\ Len(all) = L - 1
        /\ \A i \in 1 .. L - 1 : all[i] = IF i <= p - 1 THEN a[i] ELSE b[i - (p - 1)]
    BY <1>1, <1>2, <1>3, <1>5
  <1> HIDE DEF all
  <1>7. \A i \in 1 .. L - 1 : all[i] = IF i < p THEN s[i] ELSE s[i + 1]
    <2> SUFFICES ASSUME NEW i \in 1 .. L - 1 PROVE all[i] = IF i < p THEN s[i] ELSE s[i + 1]
      OBVIOUS
    <2>1. CASE i < p
      BY <1>1, <1>2, <1>6, <2>1
    <2>2. CASE ~(i < p)
      <3>1. i - (p - 1) \in 1 .. L - p /\ p + (i - (p - 1)) = i + 1
        BY <1>1, <2>2
      <3>2. all[i] = b[i - (p - 1)] /\ b[i - (p - 1)] = s[p + (i - (p - 1))]
        BY <1>1, <1>3, <1>6, <2>2, <3>1
      <3> QED
        BY <2>2, <3>1, <3>2
    <2> QED
      BY <2>1, <2>2
  <1> QED
    BY <1>4, <1>6, <1>7 DEF L, all

\* A search finds what it returns; in an ascending list it finds what is there.
LEMMA HasFacts ==
    ASSUME NEW s \in Seq(Nat), NEW x \in Nat
    PROVE  /\ Has(s, x) => x \in ToSet(s)
           /\ Has(s, x) <=> Hit(s, x, Halve(s, x))
           /\ Ascending(s) /\ x \in ToSet(s) => Has(s, x)
  <1> DEFINE m == Halve(s, x)
             L == Len(s)
  <1>1. /\ L \in Nat /\ DOMAIN s = 1 .. L
        /\ \A i \in 1 .. L : s[i] \in Nat /\ s[i] \in ToSet(s)
        /\ x \in ToSet(s) => \E i \in 1 .. L : s[i] = x
    BY MemberFacts
  <1>2. m \in 0 .. L /\ (Hit(s, x, m) \/ Between(s, x, m))
    BY HalveStops
  <1>3. Has(s, x) <=> m < L /\ s[m + 1] = x
    BY DEF Has
  <1> HIDE DEF m, L
  <1>4. Has(s, x) => x \in ToSet(s)
    BY <1>1, <1>2, <1>3
  <1>5. Has(s, x) <=> Hit(s, x, m)
    BY <1>3 DEF Hit, L
  <1>6. ASSUME Ascending(s), x \in ToSet(s), Between(s, x, m) PROVE FALSE
    <2>1. PICK i \in 1 .. L : s[i] = x
      BY <1>1, <1>6
    <2>2. \A j, k \in 1 .. L : j < k => s[j] < s[k]
      BY <1>1, <1>6 DEF Ascending
    <2>3. CASE m < L /\ s[m + 1] < x /\ (m + 1 < L => x < s[m + 2])
      <3>1. m + 1 \in 1 .. L /\ s[m + 1] \in Nat
        BY <1>1, <1>2, <2>3
      <3>2. ~(i <= m + 1)
        <4>1. i < m + 1 => s[i] < s[m + 1]
          BY <2>2, <3>1
        <4>2. i \in Nat /\ m + 1 \in Nat /\ i # m + 1
          BY <1>1, <2>1, <2>3, <3>1
        <4> QED
          BY <2>1, <2>3, <3>1, <4>1, <4>2
      <3>3. m + 2 \in 1 .. L /\ m + 1 < L /\ i >= m + 2
        BY <1>1, <1>2, <2>1, <3>2
      <3> QED
        BY <1>1, <2>1, <2>2, <2>3, <3>3
    <2>4. CASE m = 0 /\ (0 < L => x < s[1])
      <3>1. 1 \in 1 .. L /\ x < s[1] /\ (i = 1 \/ 1 < i)
        BY <1>1, <2>1, <2>4
      <3> QED
        BY <1>1, <2>1, <2>2, <3>1
    <2> QED
      BY <1>6, <2>3, <2>4 DEF Between, L
  <1> QED
    BY <1>2, <1>4, <1>5, <1>6 DEF m

\* A list of subkeys may be any list of names; insert adds one name and keeps an
\* ascending list ascending.
THEOREM InsertKeepsOrder ==
    ASSUME NEW T \in SUBSET Nat, NEW s \in Seq(T), NEW x \in T
    PROVE  /\ Insert(s, x) \in Seq(T)
           /\ ToSet(Insert(s, x)) = ToSet(s) \cup {x}
           /\ Ascending(s) => Ascending(Insert(s, x))
  <1> DEFINE m == Halve(s, x)
             L == Len(s)
             behind == m < L /\ s[m + 1] < x
             p == IF behind THEN m + 1 ELSE m
             new == InsertAt(s, p + 1, x)
  <1>1. /\ L \in Nat /\ DOMAIN s = 1 .. L
        /\ \A i \in 1 .. L : s[i] \in T
    BY MemberFacts
  <1>2. s \in Seq(Nat) /\ x \in Nat
    BY SeqMonotonic
  <1>3. m \in 0 .. L /\ (Hit(s, x, m) \/ Between(s, x, m))
    BY <1>2, HalveStops
  <1>4. Has(s, x) => x \in ToSet(s)
    BY <1>2, HasFacts
  <1>5. Has(s, x) <=> Hit(s, x, m)
    BY <1>2, HasFacts
  <1>6. ~Has(s, x) => Insert(s, x) = new
    <2> DEFINE q == IF behind THEN m + 2 ELSE m + 1
    <2>1. q = p + 1
      BY <1>1, <1>3
    <2>2. ~Has(s, x) => Insert(s, x) = InsertAt(s, q, x)
      BY Zenon DEF Insert
    <2> HIDE DEF q, p
    <2> QED
      BY <2>1, <2>2
  <1>7. Has(s, x) => Insert(s, x) = s
    BY Zenon DEF Insert
  <1> HIDE DEF m, L, new
  <1>8. p \in 0 .. L
    BY <1>1, <1>3
  <1>9. /\ new \in Seq(T) /\ Len(new) = L + 1 /\ ToSet(new) = ToSet(s) \cup {x}
        /\ \A i \in 1 .. L + 1 : new[i] = IF i <= p THEN s[i] ELSE IF i = p + 1 THEN x ELSE s[i - 1]
    <2> HIDE DEF p
    <2>1. p \in 0 .. Len(s)
      BY <1>8 DEF L
    <2>2. \A q \in 0 .. Len(s) :
             /\ InsertAt(s, q + 1, x) \in Seq(T)
             /\ Len(InsertAt(s, q + 1, x)) = Len(s) + 1
             /\ ToSet(InsertAt(s, q + 1, x)) = ToSet(s) \cup {x}
             /\ InsertedAt(InsertAt(s, q + 1, x), s, x, q)
      BY InsertAtFacts
    <2> QED
      BY <2>1, <2>2 DEF L, new, InsertedAt
  <1>10. ASSUME ~Has(s, x), Ascending(s)
         PROVE  Ascending(new)
    <2>1. \A i, j \in 1 .. L : i < j => s[i] < s[j]
      BY <1>1, <1>10 DEF Ascending
    <2>2. \A i \in 1 .. L : s[i] \in Nat /\ x \in Nat
      BY <1>1, <1>2
    <2>3. /\ \A i \in 1 .. L : i <= p => s[i] < x
          /\ \A i \in 1 .. L : i > p => x < s[i]
      <3>1. Between(s, x, m)
        BY <1>3, <1>5, <1>10
      <3>2. CASE behind
        <4>1. p = m + 1 /\ m \in Nat /\ m + 1 \in 1 .. L /\ s[m + 1] < x
          BY <1>1, <1>3, <3>2
        <4>2. m + 1 < L => m + 2 \in 1 .. L /\ x < s[m + 2]
          BY <1>1, <1>3, <3>1, <3>2, <2>2 DEF Between, L
        <4>3. ASSUME NEW i \in 1 .. L, i <= p PROVE s[i] < x
          <5>1. i = m + 1 \/ (i < m + 1 /\ s[i] < s[m + 1])
            BY <1>1, <2>1, <4>1, <4>3
          <5> QED
            BY <2>2, <4>1, <5>1
        <4>4. ASSUME NEW i \in 1 .. L, i > p PROVE x < s[i]
          <5>1. m + 1 < L /\ (i = m + 2 \/ m + 2 < i)
            BY <1>1, <4>1, <4>4
          <5>2. i = m + 2 \/ s[m + 2] < s[i]
            BY <2>1, <4>2, <5>1
          <5> QED
            BY <2>2, <4>2, <5>1, <5>2
        <4> QED
          BY <4>3, <4>4
      <3>3. CASE ~behind
        <4>1. p = 0 /\ m = 0 /\ (0 < L => x < s[1])
          BY <3>1, <3>3 DEF Between, L
        <4>2. ASSUME NEW i \in 1 .. L PROVE x < s[i]
          <5>1. 1 \in 1 .. L /\ x < s[1] /\ (i = 1 \/ 1 < i)
            BY <1>1, <4>1
          <5>2. i = 1 \/ s[1] < s[i]
            BY <2>1, <5>1
          <5> QED
            BY <2>2, <5>1, <5>2
        <4> QED
          BY <4>1, <4>2
      <3> QED
        BY <3>2, <3>3
    <2>4. DOMAIN new = 1 .. L + 1
      BY <1>9, LenProperties
    <2> HIDE DEF p
    <2>5. p \in Nat
      BY <1>1, <1>8
    <2> SUFFICES ASSUME NEW i \in 1 .. L + 1, NEW j \in 1 .. L + 1, i < j
                 PROVE  new[i] < new[j]
      BY <2>4 DEF Ascending
    <2>6. /\ i \in Nat /\ j \in Nat /\ L \in Nat
          /\ i <= p => i \in 1 .. L /\ new[i] = s[i]
          /\ i = p + 1 => new[i] = x
          /\ i > p + 1 => i - 1 \in 1 .. L /\ i - 1 > p /\ new[i] = s[i - 1]
          /\ j <= p => j \in 1 .. L /\ new[j] = s[j]
          /\ j = p + 1 => new[j] = x
          /\ j > p + 1 => j - 1 \in 1 .. L /\ j - 1 > p /\ new[j] = s[j - 1]
      BY <1>1, <1>8, <1>9, <2>5
    <2>7. CASE j <= p
      BY <2>1, <2>5, <2>6, <2>7
    <2>8. CASE j = p + 1
      BY <2>3, <2>5, <2>6, <2>8
    <2>9. CASE j > p + 1 /\ i <= p
      <3>1. s[i] < x /\ x < s[j - 1] /\ s[i] \in Nat /\ s[j - 1] \in Nat /\ x \in Nat
        BY <2>2, <2>3, <2>6, <2>9
      <3> QED
        BY <2>6, <2>9, <3>1
    <2>10. CASE j > p + 1 /\ i = p + 1
      BY <2>3, <2>6, <2>10
    <2>11. CASE j > p + 1 /\ i > p + 1
      <3>1. i - 1 < j - 1
        BY <2>6
      <3> QED
        BY <2>1, <2>6, <2>11, <3>1
    <2> QED
      BY <2>5, <2>6, <2>7, <2>8, <2>9, <2>10, <2>11
  <1> QED
    <2>1. CASE Has(s, x)
      BY <1>4, <1>7, <2>1
    <2>2. CASE ~Has(s, x)
      BY <1>6, <1>9, <1>10, <2>2
    <2> QED
      BY <2>1, <2>2

\* Erase takes one name away and keeps an ascending list ascending.
THEOREM EraseKeepsOrder ==
    ASSUME NEW T \in SUBSET Nat, NEW s \in Seq(T), NEW x \in T
    PROVE  /\ Erase(s, x) \in Seq(T)
           /\ ToSet(Erase(s, x)) \subseteq ToSet(s)
           /\ Ascending(s) => Ascending(Erase(s, x)) /\ ToSet(Erase(s, x)) = ToSet(s) \ {x}
  <1> DEFINE m == Halve(s, x)
             L == Len(s)
             p == m + 1
             new == RemoveAt(s, p)
  <1>1. /\ L \in Nat /\ DOMAIN s = 1 .. L
        /\ \A i \in 1 .. L : s[i] \in T /\ s[i] \in ToSet(s)
        /\ \A y : y \in ToSet(s) <=> \E i \in 1 .. L : s[i] = y
    BY MemberFacts
  <1>2. s \in Seq(Nat) /\ x \in Nat
    BY SeqMonotonic
  <1>3. m \in 0 .. L
    BY <1>2, HalveStops
  <1>4. /\ Has(s, x) <=> m < L /\ s[m + 1] = x
        /\ Ascending(s) /\ x \in ToSet(s) => Has(s, x)
    <2>1. Has(s, x) <=> m < L /\ s[m + 1] = x
      BY DEF Has
    <2>2. Ascending(s) /\ x \in ToSet(s) => Has(s, x)
      BY <1>2, HasFacts
    <2> QED
      BY <2>1, <2>2
  <1>5. Has(s, x) => Erase(s, x) = new
    BY Zenon DEF Erase
  <1>6. ~Has(s, x) => Erase(s, x) = s
    BY Zenon DEF Erase
  <1> HIDE DEF m, L, new
  <1>7. CASE ~Has(s, x)
    BY <1>4, <1>6, <1>7
  <1>8. CASE Has(s, x)
    <2>1. p \in 1 .. L /\ s[p] = x /\ p \in Nat
      BY <1>1, <1>3, <1>4, <1>8
    <2> HIDE DEF p
    <2>2. /\ new \in Seq(T) /\ Len(new) = L - 1
          /\ \A i \in 1 .. L - 1 : new[i] = IF i < p THEN s[i] ELSE s[i + 1]
      BY <2>1, RemoveAtFacts DEF L, new
    <2>3. /\ DOMAIN new = 1 .. L - 1
          /\ \A y : y \in ToSet(new) <=> \E i \in 1 .. L - 1 : new[i] = y
      BY <2>2, MemberFacts
    <2>4. ToSet(new) \subseteq ToSet(s)
      <3>1. \A i \in 1 .. L - 1 : i \in 1 .. L /\ i + 1 \in 1 .. L
        BY <1>1
      <3>2. \A i \in 1 .. L - 1 : new[i] \in ToSet(s)
        BY <1>1, <2>2, <3>1
      <3> QED
        BY <2>3, <3>2
    <2>5. ASSUME Ascending(s)
          PROVE  Ascending(new) /\ ToSet(new) = ToSet(s) \ {x}
      <3>1. \A i, j \in 1 .. L : i < j => s[i] < s[j]
        BY <1>1, <2>5 DEF Ascending
      <3>2. \A i \in 1 .. L : s[i] \in Nat
        BY <1>1, <1>2
      <3>3. ASSUME NEW i \in 1 .. L - 1, NEW j \in 1 .. L - 1, i < j
            PROVE  new[i] < new[j]
        <4>1. /\ i \in 1 .. L /\ j \in 1 .. L /\ i + 1 \in 1 .. L /\ j + 1 \in 1 .. L
              /\ i < j /\ i + 1 < j + 1 /\ i < j + 1
          BY <1>1, <3>3
        <4>2. new[i] = (IF i < p THEN s[i] ELSE s[i + 1]) /\ new[j] = (IF j < p THEN s[j] ELSE s[j + 1])
          BY <2>2
        <4>3. j < p => i < p
          BY <2>1, <3>3
        <4> QED
          BY <3>1, <4>1, <4>2, <4>3
      <3>4. ASSUME NEW i \in 1 .. L - 1 PROVE new[i] # x
        <4>1. i \in 1 .. L /\ i + 1 \in 1 .. L /\ (i < p \/ p < i + 1)
          BY <1>1, <2>1
        <4>2. new[i] = (IF i < p THEN s[i] ELSE s[i + 1])
          BY <2>2
        <4>3. i < p => s[i] < s[p]
          BY <2>1, <3>1, <4>1
        <4>4. p < i + 1 => s[p] < s[i + 1]
          BY <2>1, <3>1, <4>1
        <4> QED
          BY <2>1, <3>2, <4>1, <4>2, <4>3, <4>4
      <3>5. ASSUME NEW y \in ToSet(s), y # x PROVE y \in ToSet(new)
        <4>1. PICK i \in 1 .. L : s[i] = y
          BY <1>1
        <4>2. i # p
          BY <2>1, <3>5, <4>1
        <4>3. CASE i < p
          <5>1. i \in 1 .. L - 1
            BY <1>1, <2>1, <4>3
          <5> QED
            BY <2>2, <2>3, <4>1, <4>3, <5>1
        <4>4. CASE p < i
          <5>1. i - 1 \in 1 .. L - 1 /\ ~(i - 1 < p) /\ (i - 1) + 1 = i
            BY <1>1, <2>1, <4>4
          <5>2. new[i - 1] = y
            BY <2>2, <4>1, <5>1
          <5> QED
            BY <2>3, <5>1, <5>2
        <4> QED
          BY <1>1, <2>1, <4>2, <4>3, <4>4
      <3>6. x \notin ToSet(new)
        BY <2>3, <3>4
      <3>7. Ascending(new)
        BY <2>3, <3>3 DEF Ascending
      <3> QED
        BY <2>4, <3>5, <3>6, <3>7
    <2> QED
      BY <1>5, <1>8, <2>2, <2>4, <2>5
  <1> QED
    BY <1>7, <1>8

\* Inserting the names of a list one by one makes an ascending list of them.
LEMMA CollectedFacts ==
    ASSUME NEW T \in SUBSET Nat, NEW list \in Seq(T)
    PROVE  /\ Collected(list) \in Seq(T)
           /\ Ascending(Collected(list))
           /\ ToSet(Collected(list)) = ToSet(list)
  <1> DEFINE L == Len(list)
             Right(h, l) == h = [n \in 0 .. l |-> IF n = 0 THEN <<>> ELSE Insert(h[n - 1], list[n])]
             f == CHOOSE h : Right(h, L)
             Good(n) == /\ f[n] \in Seq(T) /\ Ascending(f[n])
                        /\ ToSet(f[n]) = {list[i] : i \in 1 .. n}
             D == {l \in Nat : \E h : Right(h, l)}
             S == {n \in Nat : n <= L => Good(n)}
  <1>1. L \in Nat /\ \A i \in 1 .. L : list[i] \in T
    BY MemberFacts
  <1>2. D = Nat
    <2>1. 0 \in D
      <3> DEFINE h == [n \in 0 .. 0 |-> <<>>]
      <3>1. Right(h, 0)
        <4>1. \A n \in 0 .. 0 : n = 0
          OBVIOUS
        <4> QED
          BY <4>1
      <3> QED
        BY <3>1
    <2>2. ASSUME NEW l \in D PROVE l + 1 \in D
      <3>1. PICK h : Right(h, l)
        OBVIOUS
      <3> DEFINE g == [n \in 0 .. l + 1 |-> IF n = 0 THEN <<>> ELSE Insert(h[n - 1], list[n])]
      <3>2. \A n \in 0 .. l : g[n] = h[n]
        <4>1. \A n \in 0 .. l : n \in 0 .. l + 1
          OBVIOUS
        <4>2. \A n \in 0 .. l : h[n] = IF n = 0 THEN <<>> ELSE Insert(h[n - 1], list[n])
          BY <3>1, Zenon
        <4> QED
          BY <4>1, <4>2
      <3>3. \A n \in 0 .. l + 1 : n # 0 => n - 1 \in 0 .. l
        OBVIOUS
      <3>4. \A n \in 0 .. l + 1 : (IF n = 0 THEN <<>> ELSE Insert(h[n - 1], list[n]))
                                   = IF n = 0 THEN <<>> ELSE Insert(g[n - 1], list[n])
        <4> HIDE DEF g
        <4> QED
          BY <3>2, <3>3
      <3>5. Right(g, l + 1)
        BY <3>4, Zenon
      <3> HIDE DEF g, Right
      <3> QED
        BY <3>5
    <2>3. D \in SUBSET Nat
      OBVIOUS
    <2> HIDE DEF D
    <2> QED
      BY <2>1, <2>2, <2>3, SetInduction
  <1>3. Right(f, L)
    <2>1. \E h : Right(h, L)
      BY <1>1, <1>2
    <2> HIDE DEF Right
    <2> QED
      BY <2>1
  <1>4. Collected(list) = f[L]
    BY DEF Collected, Folded, f, Right
  <1> HIDE DEF f
  <1>5. \A n \in 0 .. L : f[n] = IF n = 0 THEN <<>> ELSE Insert(f[n - 1], list[n])
    BY <1>3, Zenon
  <1> HIDE DEF Right, L
  <1>6. 0 \in S
    <2>1. 0 \in 0 .. L
      BY <1>1
    <2>2. f[0] = <<>>
      BY <1>5, <2>1, Zenon
    <2>3. <<>> \in Seq(T) /\ ToSet(<<>>) = {} /\ Ascending(<<>>)
      BY EmptyFacts DEF Ascending
    <2>4. {list[i] : i \in 1 .. 0} = {}
      OBVIOUS
    <2>5. Good(0)
      BY <2>2, <2>3, <2>4, Zenon
    <2> HIDE DEF Good
    <2> QED
      BY <2>5
  <1>7. ASSUME NEW n \in S PROVE n + 1 \in S
    <2> SUFFICES ASSUME n + 1 <= L PROVE Good(n + 1)
      OBVIOUS
    <2>1. n \in Nat /\ Good(n) /\ n + 1 \in 1 .. L /\ (n + 1) - 1 = n
      BY <1>1
    <2>2. f[n + 1] = Insert(f[n], list[n + 1]) /\ list[n + 1] \in T
      BY <1>1, <1>5, <2>1
    <2>3. /\ f[n + 1] \in Seq(T) /\ Ascending(f[n + 1])
          /\ ToSet(f[n + 1]) = ToSet(f[n]) \cup {list[n + 1]}
      <3> DEFINE a == f[n]
                 x == list[n + 1]
      <3>1. a \in Seq(T) /\ Ascending(a) /\ x \in T
        BY <2>1, <2>2
      <3> HIDE DEF a, x
      <3>2. /\ Insert(a, x) \in Seq(T) /\ Ascending(Insert(a, x))
            /\ ToSet(Insert(a, x)) = ToSet(a) \cup {x}
        BY <3>1, InsertKeepsOrder
      <3> QED
        BY <2>2, <3>2, Zenon DEF a, x
    <2>4. {list[i] : i \in 1 .. n + 1} = {list[i] : i \in 1 .. n} \cup {list[n + 1]}
      <3>1. \A i : i \in 1 .. n + 1 <=> i \in 1 .. n \/ i = n + 1
        BY <2>1
      <3> QED
        BY <3>1
    <2> QED
      BY <2>1, <2>3, <2>4
  <1>8. S = Nat
    <2>1. S \in SUBSET Nat
      OBVIOUS
    <2> HIDE DEF S
    <2> QED
      BY <1>6, <1>7, <2>1, SetInduction
  <1>9. Good(L)
    <2> HIDE DEF Good, S
    <2>1. L \in S /\ L <= L
      BY <1>1, <1>8
    <2> QED
      BY <2>1 DEF S
  <1>10. ToSet(list) = {list[i] : i \in 1 .. L}
    BY MemberFacts DEF ToSet, L
  <1> QED
    BY <1>4, <1>9, <1>10

\* Erasing the names of a list one by one.
LEMMA WithoutFacts ==
    ASSUME NEW T \in SUBSET Nat, NEW s \in Seq(T), NEW list \in Seq(T)
    PROVE  /\ Without(s, list) \in Seq(T)
           /\ ToSet(Without(s, list)) \subseteq ToSet(s)
  <1> DEFINE L == Len(list)
             Right(h, l) == h = [n \in 0 .. l |-> IF n = 0 THEN s ELSE Erase(h[n - 1], list[n])]
             f == CHOOSE h : Right(h, L)
             Good(n) == f[n] \in Seq(T) /\ ToSet(f[n]) \subseteq ToSet(s)
             D == {l \in Nat : \E h : Right(h, l)}
             S == {n \in Nat : n <= L => Good(n)}
  <1>1. L \in Nat /\ \A i \in 1 .. L : list[i] \in T
    BY MemberFacts
  <1>2. D = Nat
    <2>1. 0 \in D
      <3> DEFINE h == [n \in 0 .. 0 |-> s]
      <3>1. Right(h, 0)
        <4>1. \A n \in 0 .. 0 : n = 0
          OBVIOUS
        <4> QED
          BY <4>1
      <3> QED
        BY <3>1
    <2>2. ASSUME NEW l \in D PROVE l + 1 \in D
      <3>1. PICK h : Right(h, l)
        OBVIOUS
      <3> DEFINE g == [n \in 0 .. l + 1 |-> IF n = 0 THEN s ELSE Erase(h[n - 1], list[n])]
      <3>2. \A n \in 0 .. l : g[n] = h[n]
        <4>1. \A n \in 0 .. l : n \in 0 .. l + 1
          OBVIOUS
        <4>2. \A n \in 0 .. l : h[n] = IF n = 0 THEN s ELSE Erase(h[n - 1], list[n])
          BY <3>1, Zenon
        <4> QED
          BY <4>1, <4>2
      <3>3. \A n \in 0 .. l + 1 : n # 0 => n - 1 \in 0 .. l
        OBVIOUS
      <3>4. \A n \in 0 .. l + 1 : (IF n = 0 THEN s ELSE Erase(h[n - 1], list[n]))
                                   = IF n = 0 THEN s ELSE Erase(g[n - 1], list[n])
        <4> HIDE DEF g
        <4> QED
          BY <3>2, <3>3
      <3>5. Right(g, l + 1)
        BY <3>4, Zenon
      <3> HIDE DEF g, Right
      <3> QED
        BY <3>5
    <2>3. D \in SUBSET Nat
      OBVIOUS
    <2> HIDE DEF D
    <2> QED
      BY <2>1, <2>2, <2>3, SetInduction
  <1>3. Right(f, L)
    <2>1. \E h : Right(h, L)
      BY <1>1, <1>2
    <2> HIDE DEF Right
    <2> QED
      BY <2>1
  <1>4. Without(s, list) = f[L]
    BY DEF Without, Folded, f, Right
  <1> HIDE DEF f
  <1>5. \A n \in 0 .. L : f[n] = IF n = 0 THEN s ELSE Erase(f[n - 1], list[n])
    BY <1>3, Zenon
  <1> HIDE DEF Right, L
  <1>6. 0 \in S
    BY <1>1, <1>5
  <1>7. ASSUME NEW n \in S PROVE n + 1 \in S
    <2> SUFFICES ASSUME n + 1 <= L PROVE Good(n + 1)
      OBVIOUS
    <2>1. n \in Nat /\ Good(n) /\ n + 1 \in 1 .. L /\ (n + 1) - 1 = n
      BY <1>1
    <2>2. f[n + 1] = Erase(f[n], list[n + 1]) /\ list[n + 1] \in T
      BY <1>1, <1>5, <2>1
    <2>3. /\ f[n + 1] \in Seq(T)
          /\ ToSet(f[n + 1]) \subseteq ToSet(f[n])
      <3> DEFINE a == f[n]
                 x == list[n + 1]
      <3>1. a \in Seq(T) /\ x \in T
        BY <2>1, <2>2
      <3> HIDE DEF a, x
      <3>2. Erase(a, x) \in Seq(T) /\ ToSet(Erase(a, x)) \subseteq ToSet(a)
        BY <3>1, EraseKeepsOrder
      <3> QED
        BY <2>2, <3>2, Zenon DEF a, x
    <2> QED
      BY <2>1, <2>3
  <1>8. S = Nat
    <2>1. S \in SUBSET Nat
      OBVIOUS
    <2> HIDE DEF S
    <2> QED
      BY <1>6, <1>7, <2>1, SetInduction
  <1>9. Good(L)
    BY <1>1, <1>8
  <1> QED
    BY <1>4, <1>9

-----------------------------------------------------------------------------
\* The shape of the data.  What a field can hold is said only where it matters.
IsList(s) == s \in Seq(ToSet(s))
IsFunction(f) == f = [x \in DOMAIN f |-> f[x]]

-----------------------------------------------------------------------------
\* Lists and stores.
LEMMA ListOf ==
    ASSUME NEW T, NEW s \in Seq(T)
    PROVE  IsList(s) /\ ToSet(s) \subseteq T
  <1>1. /\ Len(s) \in Nat /\ DOMAIN s = 1 .. Len(s) /\ s \in [1 .. Len(s) -> T]
        /\ \A i \in 1 .. Len(s) : s[i] \in ToSet(s)
        /\ ToSet(s) \subseteq T
    BY MemberFacts, LenProperties
  <1>2. s \in [1 .. Len(s) -> ToSet(s)]
    BY <1>1
  <1>3. s \in Seq(ToSet(s))
    BY <1>1, <1>2, SeqDef
  <1> QED
    BY <1>1, <1>3 DEF IsList

LEMMA ListMembers ==
    ASSUME NEW s, IsList(s)
    PROVE  /\ Len(s) \in Nat /\ DOMAIN s = 1 .. Len(s)
           /\ \A i \in 1 .. Len(s) : s[i] \in ToSet(s)
           /\ \A e \in ToSet(s) : \E i \in 1 .. Len(s) : s[i] = e
           /\ s = <<>> <=> Len(s) = 0
           /\ s = <<>> <=> ToSet(s) = {}
  <1>1. s \in Seq(ToSet(s))
    BY DEF IsList
  <1>2. /\ Len(s) \in Nat /\ DOMAIN s = 1 .. Len(s)
        /\ \A i \in 1 .. Len(s) : s[i] \in ToSet(s)
        /\ \A e : e \in ToSet(s) <=> \E i \in 1 .. Len(s) : s[i] = e
    BY <1>1, MemberFacts
  <1>3. (s # <<>> <=> Len(s) # 0) /\ (s # <<>> <=> ToSet(s) # {})
    BY <1>1, EmptyFacts
  <1> QED
    BY <1>2, <1>3

LEMMA ListEmpty == IsList(<<>>) /\ ToSet(<<>>) = {} /\ Len(<<>>) = 0
  <1>1. <<>> \in Seq({}) /\ ToSet(<<>>) = {} /\ Len(<<>>) = 0
    BY EmptyFacts
  <1> QED
    BY <1>1 DEF IsList

LEMMA ListOne ==
    ASSUME NEW x
    PROVE  IsList(<<x>>) /\ ToSet(<<x>>) = {x} /\ Len(<<x>>) = 1 /\ <<x>>[1] = x
  <1>1. <<x>> \in Seq({x}) /\ Len(<<x>>) = 1 /\ <<x>>[1] = x
    OBVIOUS
  <1> DEFINE one == <<x>>
  <1>2. one \in Seq({x}) /\ Len(one) = 1 /\ one[1] = x
    BY <1>1
  <1> HIDE DEF one
  <1>3. IsList(one) /\ ToSet(one) \subseteq {x}
    BY <1>2, ListOf
  <1>4. ToSet(one) # {}
    BY <1>2, <1>3, ListMembers
  <1> QED
    BY <1>2, <1>3, <1>4 DEF one

LEMMA ListAppend ==
    ASSUME NEW s, NEW e, IsList(s)
    PROVE  /\ IsList(Append(s, e)) /\ Append(s, e) # <<>>
           /\ ToSet(Append(s, e)) = ToSet(s) \cup {e}
           /\ Len(Append(s, e)) = Len(s) + 1
           /\ \A i \in 1 .. Len(s) : Append(s, e)[i] = s[i]
           /\ Append(s, e)[Len(s) + 1] = e
           /\ s = <<>> => Head(Append(s, e)) = e /\ Tail(Append(s, e)) = <<>>
           /\ s # <<>> => /\ Head(Append(s, e)) = Head(s)
                          /\ Tail(Append(s, e)) = Append(Tail(s), e)
  <1> DEFINE T == ToSet(s) \cup {e}
  <1>1. s \in Seq(T) /\ e \in T
    BY SeqMonotonic DEF IsList
  <1> HIDE DEF T
  <1>2. /\ Append(s, e) \in Seq(T) /\ ToSet(Append(s, e)) = ToSet(s) \cup {e}
        /\ Len(Append(s, e)) = Len(s) + 1
        /\ \A i \in 1 .. Len(s) : Append(s, e)[i] = s[i]
        /\ Append(s, e)[Len(s) + 1] = e
    BY <1>1, AppendFacts
  <1>3. Append(s, e) # <<>>
    BY <1>1, AppendProperties
  <1>4. IsList(Append(s, e))
    BY <1>2, ListOf
  <1>5. /\ Head(Append(s, e)) = IF s = <<>> THEN e ELSE Head(s)
        /\ Tail(Append(s, e)) = IF s = <<>> THEN <<>> ELSE Append(Tail(s), e)
    BY <1>1, HeadTailAppend
  <1> QED
    BY <1>2, <1>3, <1>4, <1>5

LEMMA ListTail ==
    ASSUME NEW s, IsList(s), s # <<>>
    PROVE  /\ Head(s) \in ToSet(s) /\ IsList(Tail(s)) /\ ToSet(Tail(s)) \subseteq ToSet(s)
           /\ Len(s) \in Nat \ {0} /\ Len(Tail(s)) = Len(s) - 1
           /\ \A i \in 1 .. Len(s) - 1 : Tail(s)[i] = s[i + 1]
           /\ Head(s) = s[1]
  <1>1. s \in Seq(ToSet(s))
    BY DEF IsList
  <1>2. /\ Head(s) \in ToSet(s) /\ Tail(s) \in Seq(ToSet(s))
        /\ Len(s) \in Nat \ {0} /\ Len(Tail(s)) = Len(s) - 1
        /\ \A i \in 1 .. Len(s) - 1 : Tail(s)[i] = s[i + 1]
    BY <1>1, HeadTailFacts
  <1>3. IsList(Tail(s)) /\ ToSet(Tail(s)) \subseteq ToSet(s)
    BY <1>2, ListOf
  <1>4. Head(s) = s[1]
    BY <1>1, <1>2
  <1> QED
    BY <1>2, <1>3, <1>4

\* Another first element.
LEMMA ListFirst ==
    ASSUME NEW s, NEW e, IsList(s), s # <<>>
    PROVE  /\ IsList([s EXCEPT ![1] = e]) /\ [s EXCEPT ![1] = e] # <<>>
           /\ ToSet([s EXCEPT ![1] = e]) \subseteq ToSet(s) \cup {e}
           /\ Len([s EXCEPT ![1] = e]) = Len(s)
           /\ \A i \in 1 .. Len(s) : [s EXCEPT ![1] = e][i] = IF i = 1 THEN e ELSE s[i]
           /\ Head([s EXCEPT ![1] = e]) = e
  <1> DEFINE T == ToSet(s) \cup {e}
             u == [s EXCEPT ![1] = e]
  <1>1. s \in Seq(T) /\ e \in T /\ 1 \in 1 .. Len(s)
    BY SeqMonotonic, ListTail DEF IsList
  <1> HIDE DEF T
  <1>2. /\ u \in Seq(T) /\ Len(u) = Len(s)
        /\ \A i \in 1 .. Len(s) : u[i] = IF i = 1 THEN e ELSE s[i]
    BY <1>1, ExceptSeq
  <1> HIDE DEF u
  <1>3. IsList(u) /\ ToSet(u) \subseteq T
    BY <1>2, ListOf
  <1>4. u # <<>> /\ Len(s) # 0
    BY <1>2, <1>3, ListTail, ListMembers
  <1>5. Head(u) = u[1] /\ u[1] = e
    BY <1>1, <1>2, <1>3, <1>4, ListTail
  <1> QED
    BY <1>2, <1>3, <1>4, <1>5 DEF T, u

LEMMA RangeGrows ==
    ASSUME NEW a \in Int, NEW b \in Int, a <= b
    PROVE  0 .. a - 1 \subseteq 0 .. b - 1
  OBVIOUS

LEMMA RangeZero ==
    ASSUME NEW a \in Nat \ {0}
    PROVE  0 \in 0 .. a - 1
  OBVIOUS

LEMMA ListOneTail ==
    ASSUME NEW s, IsList(s), s # <<>>, Len(s) <= 1
    PROVE  Tail(s) = <<>>
  <1>1. IsList(Tail(s)) /\ Len(s) \in Nat \ {0} /\ Len(Tail(s)) = Len(s) - 1
    BY ListTail, Zenon
  <1>2. Len(Tail(s)) = 0
    BY <1>1
  <1> QED
    BY <1>1, <1>2, ListMembers

LEMMA RangeLast ==
    ASSUME NEW a \in Nat, NEW b \in Nat, a < b
    PROVE  a \in 0 .. b - 1
  OBVIOUS

LEMMA RangeBelow ==
    ASSUME NEW a \in Int, NEW b \in Int, NEW v \in Int, v < a
    PROVE  ~ (v \in a .. b - 1)
  OBVIOUS
=============================================================================
