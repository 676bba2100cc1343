--------------------------- MODULE K2HQueueProofs ---------------------------
(***************************************************************************)
(* Proofs about K2HQueue: it is type correct, loses and doubles no key as    *)
(* long as calls that need it are kept apart, and implements K2HQueueSpec.  *)
(* The queued keys form a line: the start key of the marker, its subkey, and *)
(* so on.  The invariant says of the line, of the end key of the marker and  *)
(* of the frame of every call what the steps of the other calls leave true.  *)
(***************************************************************************)
EXTENDS K2HQueueImpl, K2HSequences, FiniteSetTheorems

-----------------------------------------------------------------------------
\* The line of queued keys.

SubKeyIn(k, there, sub) == IF k \in there THEN sub[k] ELSE NoKey

Extended(q, there, sub) ==
    IF q = <<>> \/ SubKeyIn(Last(q), there, sub) = NoKey THEN q
    ELSE Append(q, SubKeyIn(Last(q), there, sub))

\* Chain, of a start key, the keys that are there and their subkeys.
ChainOf(start, there, sub) ==
    LET f[n \in 0 .. Cardinality(Keys)] ==
          IF n = 0 THEN IF start = NoKey THEN <<>> ELSE <<start>>
                   ELSE Extended(f[n - 1], there, sub)
    IN  f[Cardinality(Keys)]

\* line begins with the start key and goes from key to subkey to the last one,
\* through keys that are all there.
IsLine(line, start, there, sub) ==
    /\ line \in Seq(Keys) /\ IsInjective(line)
    /\ line = <<>> <=> start = NoKey
    /\ line # <<>> => line[1] = start /\ sub[line[Len(line)]] = NoKey
    /\ \A i \in 1 .. Len(line) : line[i] \in there
    /\ \A i \in 1 .. Len(line) - 1 : sub[line[i]] = line[i + 1]

\* The first keys of a sequence, and one more.
LEMMA OneMore ==
    ASSUME NEW T, NEW s \in Seq(T), NEW n \in 1 .. Len(s)
    PROVE  /\ SubSeq(s, 1, n) \in Seq(T) /\ SubSeq(s, 1, n) # <<>>
           /\ Last(SubSeq(s, 1, n)) = s[n]
           /\ n < Len(s) => Append(SubSeq(s, 1, n), s[n + 1]) = SubSeq(s, 1, n + 1)
  <1>1. /\ Len(s) \in Nat
        /\ \A i \in 1 .. Len(s) : s[i] \in T
        /\ \A m \in 0 .. Len(s) : /\ SubSeq(s, 1, m) \in Seq(T)
                                 /\ Len(SubSeq(s, 1, m)) = m
                                 /\ \A i \in 1 .. m : SubSeq(s, 1, m)[i] = s[i]
    <2>1. Len(s) \in Nat /\ \A i \in 1 .. Len(s) : s[i] \in T
      BY LenProperties, ElementOfSeq
    <2> QED
      BY <2>1, SubSeqProperties
  <1> DEFINE q == SubSeq(s, 1, n)
  <1>2. q \in Seq(T) /\ Len(q) = n /\ \A i \in 1 .. n : q[i] = s[i]
    BY <1>1
  <1>3. q # <<>> /\ Last(q) = s[n]
    BY <1>2 DEF Last
  <1>4. CASE n < Len(s)
    <2> DEFINE a == Append(q, s[n + 1])
               b == SubSeq(s, 1, n + 1)
    <2>1. /\ a \in Seq(T) /\ Len(a) = n + 1
          /\ \A i \in 1 .. n : a[i] = q[i]
          /\ a[n + 1] = s[n + 1]
      <3>1. s[n + 1] \in T
        BY <1>1, <1>4
      <3> HIDE DEF q
      <3> QED
        BY <1>2, <3>1, AppendProperties
    <2>2. b \in Seq(T) /\ Len(b) = n + 1 /\ \A i \in 1 .. n + 1 : b[i] = s[i]
      BY <1>1, <1>4
    <2>3. \A i \in 1 .. n + 1 : a[i] = b[i]
      <3> HIDE DEF a, b, q
      <3> QED
        BY <1>2, <2>1, <2>2
    <2> HIDE DEF a, b
    <2>4. a = b
      BY <2>1, <2>2, <2>3, SeqEqual
    <2> QED
      BY <1>2, <1>3, <2>4 DEF a, b
  <1> QED
    BY <1>2, <1>3, <1>4

\* A line is all that the keys lead to from its start key.
LEMMA ChainIsLine ==
    ASSUME NEW line, NEW start, NEW there, NEW sub, IsLine(line, start, there, sub)
    PROVE  ChainOf(start, there, sub) = line
  <1> DEFINE N == Cardinality(Keys)
             Short(n) == IF n < Len(line) THEN n ELSE Len(line)
             first == IF start = NoKey THEN <<>> ELSE <<start>>
             Right(h) == h = [n \in 0 .. N |->
                                IF n = 0 THEN first ELSE Extended(h[n - 1], there, sub)]
             g == [n \in 0 .. N |-> SubSeq(line, 1, Short(n + 1))]
             f == CHOOSE h : Right(h)
  <1>1. line \in Seq(Keys) /\ NoKey \notin Keys
    BY QueueAssumption DEF IsLine
  <1>2. /\ Len(line) \in Nat /\ DOMAIN line = 1 .. Len(line)
        /\ line \in [1 .. Len(line) -> Keys]
        /\ \A i \in 1 .. Len(line) : line[i] \in Keys
    BY <1>1, LenProperties, ElementOfSeq
  <1>3. N \in Nat
    BY QueueAssumption, FS_CardinalityType
  <1>4. Len(line) <= N
    <2> SUFFICES ASSUME Len(line) > N PROVE FALSE
      BY <1>2, <1>3
    <2>1. IsFiniteSet(1 .. Len(line)) /\ Cardinality(1 .. Len(line)) = Len(line)
      <3> DEFINE L == Len(line)
      <3>1. L \in Int /\ 1 \in Int
        BY <1>2
      <3> HIDE DEF L
      <3>2. /\ IsFiniteSet(1 .. L)
            /\ Cardinality(1 .. L) = IF 1 > L THEN 0 ELSE L - 1 + 1
        BY <3>1, FS_Interval, Zenon
      <3>3. L \in Nat
        BY <1>2 DEF L
      <3> QED
        BY <3>2, <3>3 DEF L
    <2>2. \E x, y \in 1 .. Len(line) : x # y /\ line[x] = line[y]
      <3>1. N < Cardinality(1 .. Len(line))
        BY <1>2, <1>3, <2>1
      <3> QED
        BY <1>2, <2>1, <3>1, QueueAssumption, FS_PigeonHole
    <2> QED
      BY <1>2, <2>2 DEF IsLine, IsInjective
  <1>5. SubSeq(line, 1, Len(line)) = line
    BY <1>1, SubSeqFull
  <1>6. ASSUME NEW n \in 0 .. N
        PROVE  g[n] = IF n = 0 THEN first ELSE Extended(g[n - 1], there, sub)
    <2>1. n + 1 \in Nat /\ g[n] = SubSeq(line, 1, Short(n + 1))
      BY <1>3
    <2>2. CASE line = <<>>
      <3>1. start = NoKey /\ Len(line) = 0
        BY <1>1, <2>2, EmptySeq DEF IsLine
      <3>2. \A m \in 0 .. N : g[m] = <<>>
        BY <1>2, <1>3, <1>5, <2>2, <3>1
      <3>3. n # 0 => n - 1 \in 0 .. N
        BY <1>3
      <3> QED
        BY <3>1, <3>2, <3>3, Zenon DEF Extended
    <2>3. CASE line # <<>>
      <3>1. Len(line) # 0 /\ start = line[1] /\ start # NoKey
        BY <1>1, <2>3, EmptySeq DEF IsLine
      <3>2. CASE n = 0
        <4>1. g[n] = SubSeq(line, 1, 1)
          BY <1>2, <2>1, <3>1, <3>2
        <4>2. SubSeq(line, 1, 1) = <<line[1]>>
          <5>1. /\ SubSeq(line, 1, 1) \in Seq(Keys) /\ Len(SubSeq(line, 1, 1)) = 1
                /\ SubSeq(line, 1, 1)[1] = line[1]
            BY <1>1, <1>2, <3>1, SubSeqProperties
          <5>2. <<line[1]>> \in Seq(Keys) /\ Len(<<line[1]>>) = 1 /\ <<line[1]>>[1] = line[1]
            BY <1>2, <3>1
          <5> DEFINE a == SubSeq(line, 1, 1)
                     b == <<line[1]>>
          <5>3. a \in Seq(Keys) /\ b \in Seq(Keys) /\ Len(a) = Len(b) /\ \A i \in 1 .. Len(a) : a[i] = b[i]
            BY <5>1, <5>2
          <5> HIDE DEF a, b
          <5>4. a = b
            BY <5>3, SeqEqual
          <5> QED
            BY <5>4 DEF a, b
        <4> QED
          BY <3>1, <3>2, <4>1, <4>2
      <3>3. CASE n # 0 /\ n < Len(line)
        <4> DEFINE q == SubSeq(line, 1, n)
        <4>1. n \in 1 .. Len(line) /\ n + 1 \in 1 .. Len(line) /\ n \in 1 .. Len(line) - 1
          BY <1>2, <1>3, <3>3
        <4>2. Short(n + 1) = n + 1 /\ Short(n) = n /\ n - 1 \in 0 .. N /\ (n - 1) + 1 = n
          BY <1>2, <1>3, <3>3
        <4>3. g[n - 1] = q
          BY <4>2, Zenon
        <4>4. /\ q # <<>> /\ Last(q) = line[n]
              /\ Append(q, line[n + 1]) = SubSeq(line, 1, n + 1)
          BY <1>1, <3>3, <4>1, OneMore
        <4>5. SubKeyIn(line[n], there, sub) = line[n + 1] /\ line[n + 1] # NoKey
          BY <1>1, <1>2, <4>1 DEF IsLine, SubKeyIn
        <4> HIDE DEF q
        <4>6. Extended(q, there, sub) = Append(q, line[n + 1])
          BY <4>4, <4>5, Zenon DEF Extended
        <4> QED
          BY <2>1, <3>3, <4>2, <4>3, <4>4, <4>6, Zenon
      <3>4. CASE n # 0 /\ ~(n < Len(line))
        <4>1. Short(n + 1) = Len(line) /\ Short(n) = Len(line) /\ n - 1 \in 0 .. N /\ (n - 1) + 1 = n
          BY <1>2, <1>3, <3>4
        <4>2. g[n - 1] = line /\ g[n] = line
          BY <1>5, <2>1, <4>1, Zenon
        <4>3. Last(line) = line[Len(line)]
          BY DEF Last
        <4>4. SubKeyIn(Last(line), there, sub) = NoKey
          BY <1>2, <2>3, <3>1, <4>3 DEF IsLine, SubKeyIn
        <4>5. Extended(line, there, sub) = line
          BY <2>3, <4>4, Zenon DEF Extended
        <4> QED
          BY <3>4, <4>2, <4>5, Zenon
      <3> QED
        BY <3>2, <3>3, <3>4
    <2> QED
      BY <2>2, <2>3
  <1>7. Right(g)
    BY <1>6, Zenon
  <1>8. Right(f)
    <2> HIDE DEF Right, g
    <2> QED
      BY <1>7
  <1> DEFINE S == {n \in Nat : n <= N => f[n] = g[n]}
  <1> HIDE DEF f, g, Short, first, N
  <1>9. \A n \in 0 .. N : f[n] = IF n = 0 THEN first ELSE Extended(f[n - 1], there, sub)
    BY <1>8, Zenon
  <1> HIDE DEF Right
  <1>10. 0 \in S
    BY <1>3, <1>6, <1>9
  <1>11. ASSUME NEW n \in S PROVE n + 1 \in S
    <2>1. CASE n + 1 <= N
      <3>1. n \in Nat /\ n + 1 \in 0 .. N /\ n + 1 # 0 /\ (n + 1) - 1 = n /\ f[n] = g[n]
        BY <1>3, <2>1
      <3>2. /\ f[n + 1] = Extended(f[(n + 1) - 1], there, sub)
            /\ g[n + 1] = Extended(g[(n + 1) - 1], there, sub)
        BY <1>6, <1>9, <3>1, Zenon
      <3> QED
        BY <3>1, <3>2
    <2>2. CASE ~(n + 1 <= N)
      BY <2>2
    <2> QED
      BY <2>1, <2>2
  <1>12. S = Nat
    <2>1. S \in SUBSET Nat
      OBVIOUS
    <2> HIDE DEF S
    <2> QED
      BY <1>10, <1>11, <2>1, SetInduction
  <1>13. f[N] = g[N]
    BY <1>3, <1>12
  <1>14. g[N] = line
    <2>1. Short(N + 1) = Len(line) /\ N \in 0 .. N
      BY <1>2, <1>3, <1>4 DEF Short
    <2> QED
      BY <1>5, <2>1, Zenon DEF g
  <1>15. ChainOf(start, there, sub) = f[N]
    BY DEF ChainOf, f, N, Right, first
  <1> QED
    BY <1>13, <1>14, <1>15

EndOf(line) == line[Len(line)]

LEMMA LineFacts ==
    ASSUME NEW line, NEW start, NEW there, NEW sub, IsLine(line, start, there, sub)
    PROVE  /\ ToSet(line) \subseteq Keys /\ ToSet(line) \subseteq there
           /\ start = NoKey <=> ToSet(line) = {}
           /\ start # NoKey =>
                /\ start \in ToSet(line)
                /\ EndOf(line) \in ToSet(line) /\ sub[EndOf(line)] = NoKey
                /\ \A k \in ToSet(line) : k # EndOf(line) => sub[k] \in ToSet(line)
  <1>1. line \in Seq(Keys) /\ NoKey \notin Keys
    BY QueueAssumption DEF IsLine
  <1>2. /\ Len(line) \in Nat /\ DOMAIN line = 1 .. Len(line)
        /\ \A i \in 1 .. Len(line) : line[i] \in Keys /\ line[i] \in ToSet(line)
        /\ \A x : x \in ToSet(line) <=> \E i \in 1 .. Len(line) : line[i] = x
    BY <1>1, MemberFacts
  <1>3. line = <<>> <=> Len(line) = 0
    BY <1>1, EmptySeq
  <1>4. ToSet(line) \subseteq Keys /\ ToSet(line) \subseteq there
    BY <1>2 DEF IsLine
  <1>5. start = NoKey <=> ToSet(line) = {}
    BY <1>2, <1>3 DEF IsLine
  <1>6. ASSUME start # NoKey
        PROVE  /\ start \in ToSet(line)
               /\ EndOf(line) \in ToSet(line) /\ sub[EndOf(line)] = NoKey
    BY <1>2, <1>3, <1>6 DEF IsLine, EndOf
  <1>7. ASSUME NEW k \in ToSet(line), k # EndOf(line)
        PROVE  sub[k] \in ToSet(line)
    <2>1. PICK i \in 1 .. Len(line) : line[i] = k
      BY <1>2
    <2>2. i \in 1 .. Len(line) - 1 /\ i + 1 \in 1 .. Len(line)
      BY <1>2, <1>7, <2>1 DEF EndOf
    <2> QED
      BY <1>2, <2>1, <2>2 DEF IsLine
  <1> QED
    BY <1>4, <1>5, <1>6, <1>7

LEMMA NoLine ==
    ASSUME NEW there, NEW sub
    PROVE  IsLine(<<>>, NoKey, there, sub) /\ ToSet(<<>>) = {}
  <1>1. /\ <<>> \in Seq(Keys) /\ ToSet(<<>>) = {} /\ IsInjective(<<>>)
    BY EmptyFacts
  <1>2. Len(<<>>) = 0
    OBVIOUS
  <1> QED
    BY <1>1, <1>2 DEF IsLine

\* A line stays one while its keys are there and keep their subkeys.
LEMMA LineKept ==
    ASSUME NEW line, NEW start, NEW there, NEW sub, NEW there2, NEW sub2,
           IsLine(line, start, there, sub),
           ToSet(line) \subseteq there2,
           \A k \in ToSet(line) : sub2[k] = sub[k]
    PROVE  IsLine(line, start, there2, sub2)
  <1>1. line \in Seq(Keys)
    BY DEF IsLine
  <1>2. /\ Len(line) \in Nat
        /\ \A i \in 1 .. Len(line) : line[i] \in ToSet(line)
        /\ line = <<>> <=> Len(line) = 0
    BY <1>1, MemberFacts, EmptySeq
  <1>3. /\ \A i \in 1 .. Len(line) : line[i] \in there2 /\ sub2[line[i]] = sub[line[i]]
        /\ line # <<>> => Len(line) \in 1 .. Len(line)
        /\ \A i \in 1 .. Len(line) - 1 : i \in 1 .. Len(line)
    BY <1>2
  <1> QED
    BY <1>3 DEF IsLine

\* Without its first key.
LEMMA LineTail ==
    ASSUME NEW line, NEW start, NEW there, NEW sub, IsLine(line, start, there, sub),
           start # NoKey
    PROVE  /\ line # <<>> /\ Head(line) = start
           /\ IsLine(Tail(line), sub[start], there, sub)
           /\ ToSet(Tail(line)) = ToSet(line) \ {start}
           /\ sub[start] # NoKey => EndOf(Tail(line)) = EndOf(line)
  <1> DEFINE rest == Tail(line)
  <1>1. line \in Seq(Keys) /\ line # <<>> /\ line[1] = start /\ NoKey \notin Keys
    BY QueueAssumption DEF IsLine
  <1>2. /\ Len(line) \in Nat \ {0}
        /\ rest \in Seq(Keys) /\ Len(rest) = Len(line) - 1
        /\ \A i \in 1 .. Len(line) - 1 : rest[i] = line[i + 1]
        /\ ToSet(line) = {Head(line)} \cup ToSet(rest)
        /\ IsInjective(line) <=> IsInjective(rest) /\ Head(line) \notin ToSet(rest)
    BY <1>1, HeadTailFacts
  <1>3. Head(line) = start
    BY <1>1, <1>2
  <1>4. IsInjective(rest) /\ ToSet(rest) = ToSet(line) \ {start}
    BY <1>2, <1>3 DEF IsLine
  <1>5. \A i \in 1 .. Len(line) : line[i] \in Keys
    BY <1>1, MemberFacts
  <1> HIDE DEF rest
  <1>6. rest = <<>> <=> Len(line) = 1
    BY <1>2, EmptySeq
  <1>7. CASE Len(line) = 1
    <2>1. sub[start] = NoKey /\ rest = <<>>
      BY <1>1, <1>6, <1>7 DEF IsLine
    <2> QED
      BY <1>1, <1>3, <1>4, <2>1, NoLine DEF rest
  <1>8. CASE Len(line) # 1
    <2>1. sub[start] = line[2] /\ line[2] = rest[1] /\ line[2] \in Keys
      BY <1>1, <1>2, <1>5, <1>8 DEF IsLine
    <2>2. Len(rest) \in 1 .. Len(rest) /\ rest[Len(rest)] = line[Len(line)]
      BY <1>2, <1>8
    <2>3. \A i \in 1 .. Len(rest) : rest[i] \in there
      BY <1>2 DEF IsLine
    <2>4. \A i \in 1 .. Len(rest) - 1 : sub[rest[i]] = rest[i + 1]
      BY <1>2 DEF IsLine
    <2>5. IsLine(rest, sub[start], there, sub)
      <3>1. sub[rest[Len(rest)]] = NoKey
        BY <1>1, <2>2 DEF IsLine
      <3>2. rest # <<>> /\ sub[start] # NoKey /\ rest[1] = sub[start]
        BY <1>1, <1>6, <1>8, <2>1
      <3> QED
        BY <1>2, <1>4, <2>3, <2>4, <3>1, <3>2, Zenon DEF IsLine
    <2> QED
      BY <1>1, <1>3, <1>4, <2>2, <2>5, Zenon DEF rest, EndOf
  <1> QED
    BY <1>7, <1>8

LEMMA AppendedKeys ==
    ASSUME NEW line \in Seq(Keys), NEW k \in Keys
    PROVE  ToSet(Append(line, k)) = ToSet(line) \cup {k} /\ EndOf(Append(line, k)) = k
  BY AppendFacts DEF EndOf

\* With one more key, the subkey of its last one.
LEMMA LineAppend ==
    ASSUME NEW line, NEW start, NEW there, NEW sub, sub \in [Keys -> Names],
           IsLine(line, start, there, sub), start # NoKey,
           NEW k, k \in Keys, k \notin ToSet(line), k \in there, sub[k] = NoKey,
           NEW sub2, sub2 = [sub EXCEPT ![EndOf(line)] = k]
    PROVE  IsLine(Append(line, k), start, there, sub2)
  <1> DEFINE more == Append(line, k)
  <1>1. line \in Seq(Keys) /\ line # <<>> /\ line[1] = start /\ NoKey \notin Keys
    BY QueueAssumption DEF IsLine
  <1>2. /\ Len(line) \in Nat \ {0}
        /\ \A i \in 1 .. Len(line) : line[i] \in Keys /\ line[i] \in ToSet(line)
    BY <1>1, MemberFacts, EmptySeq
  <1>3. /\ more \in Seq(Keys) /\ Len(more) = Len(line) + 1
        /\ \A i \in 1 .. Len(line) : more[i] = line[i]
        /\ more[Len(line) + 1] = k
        /\ ToSet(more) = ToSet(line) \cup {k}
        /\ IsInjective(more)
    <2>1. IsInjective(line)
      BY DEF IsLine
    <2> QED
      BY <1>1, <2>1, AppendFacts
  <1>4. EndOf(more) = k /\ EndOf(line) = line[Len(line)] /\ EndOf(line) \in Keys /\ EndOf(line) # k
    BY <1>2, <1>3 DEF EndOf
  <1>5. /\ sub2[EndOf(line)] = k
        /\ \A x \in Keys : x # EndOf(line) => sub2[x] = sub[x]
    BY <1>4
  <1> HIDE DEF more
  <1>6. \A i \in 1 .. Len(more) : more[i] \in there
    <2>1. \A i \in 1 .. Len(line) : line[i] \in there
      BY DEF IsLine
    <2> QED
      BY <1>2, <1>3, <2>1
  <1>7. ASSUME NEW i \in 1 .. Len(more) - 1
        PROVE  sub2[more[i]] = more[i + 1]
    <2>1. i \in 1 .. Len(line) /\ more[i] = line[i]
      BY <1>2, <1>3
    <2>2. CASE i = Len(line)
      BY <1>3, <1>4, <1>5, <2>1, <2>2
    <2>3. CASE i # Len(line)
      <3>1. i \in 1 .. Len(line) - 1 /\ i + 1 \in 1 .. Len(line) /\ Len(line) \in 1 .. Len(line)
        BY <1>2, <2>1, <2>3
      <3>2. line[i] # EndOf(line)
        BY <1>1, <1>4, <2>1, <2>3, <3>1, LenProperties DEF IsLine, IsInjective
      <3> QED
        BY <1>2, <1>3, <1>5, <2>1, <3>1, <3>2 DEF IsLine
    <2> QED
      BY <2>2, <2>3
  <1>8. sub2[more[Len(more)]] = NoKey /\ more[1] = start /\ more # <<>> /\ start # NoKey
    <2>1. more[1] = line[1]
      BY <1>2, <1>3
    <2>2. more # <<>>
      BY <1>2, <1>3, EmptySeq
    <2> QED
      BY <1>1, <1>3, <1>4, <1>5, <2>1, <2>2 DEF EndOf
  <1>9. IsLine(more, start, there, sub2)
    BY <1>3, <1>6, <1>7, <1>8, Zenon DEF IsLine
  <1> QED
    BY <1>9 DEF more

\* With a new first key, whose subkey is the first one so far.
LEMMA LinePrepend ==
    ASSUME NEW line, NEW start, NEW there, NEW sub, IsLine(line, start, there, sub),
           NEW k \in Keys \ ToSet(line), k \in there, sub[k] = start
    PROVE  /\ IsLine(<<k>> \o line, k, there, sub)
           /\ ToSet(<<k>> \o line) = ToSet(line) \cup {k}
           /\ EndOf(<<k>> \o line) = IF start = NoKey THEN k ELSE EndOf(line)
  <1> DEFINE more == <<k>> \o line
  <1>1. line \in Seq(Keys) /\ NoKey \notin Keys /\ k # NoKey /\ IsInjective(line)
    BY QueueAssumption DEF IsLine
  <1>2. /\ Len(line) \in Nat
        /\ line = <<>> <=> Len(line) = 0
        /\ more \in Seq(Keys) /\ Len(more) = Len(line) + 1
        /\ ToSet(more) = ToSet(line) \cup {k} /\ IsInjective(more)
    BY <1>1, PrependFacts, LenProperties, EmptySeq
  <1>3. more[1] = k /\ \A i \in 2 .. Len(line) + 1 : more[i] = line[i - 1]
    <2>1. <<k>> \in Seq(Keys) /\ Len(<<k>>) = 1 /\ <<k>>[1] = k
      OBVIOUS
    <2> QED
      BY <1>1, <1>2, <2>1, ConcatProperties
  <1> HIDE DEF more
  <1>4. \A i \in 1 .. Len(more) : more[i] \in there
    <2>1. \A i \in 1 .. Len(line) : line[i] \in there
      BY DEF IsLine
    <2>2. \A i \in 2 .. Len(line) + 1 : more[i] \in there
      BY <1>2, <1>3, <2>1
    <2> QED
      BY <1>2, <1>3, <2>2
  <1>5. ASSUME NEW i \in 1 .. Len(more) - 1
        PROVE  sub[more[i]] = more[i + 1]
    <2>1. i \in Nat /\ i + 1 \in 2 .. Len(line) + 1 /\ more[i + 1] = line[i]
      BY <1>2, <1>3
    <2>2. CASE i = 1
      <3>1. line[1] = start
        BY <1>2, <2>1, <2>2 DEF IsLine
      <3> QED
        BY <1>3, <2>1, <2>2, <3>1
    <2>3. CASE i # 1
      <3>1. more[i] = line[i - 1] /\ i - 1 \in 1 .. Len(line) - 1 /\ (i - 1) + 1 = i
        BY <1>2, <1>3, <2>1, <2>3
      <3> QED
        BY <2>1, <3>1 DEF IsLine
    <2> QED
      BY <2>2, <2>3
  <1>6. EndOf(more) = IF start = NoKey THEN k ELSE EndOf(line)
    <2>1. start = NoKey <=> Len(line) = 0
      BY <1>2 DEF IsLine
    <2> QED
      BY <1>2, <1>3, <2>1 DEF EndOf
  <1>7. sub[more[Len(more)]] = NoKey /\ more # <<>>
    <2>1. more # <<>>
      BY <1>2, EmptySeq
    <2>2. start # NoKey => sub[EndOf(line)] = NoKey
      BY DEF IsLine, EndOf
    <2> QED
      BY <1>6, <2>1, <2>2 DEF EndOf
  <1>8. IsLine(more, k, there, sub)
    BY <1>1, <1>2, <1>3, <1>4, <1>5, <1>7, Zenon DEF IsLine
  <1> QED
    BY <1>2, <1>6, <1>8 DEF more

-----------------------------------------------------------------------------
\* The invariant of every behaviour.

\* Where a call can be, of what kind and on what queue.
StepsInv ==
    \A t \in Threads :
        /\ pc[t] \in {"link", "check"} => fifo
        /\ pc[t] \in {"set", "erase"} => ~fifo
        /\ pc[t] \in {"link", "mark", "check", "set", "erase"} => job[t] = "push"
        /\ pc[t] \in {"next", "value", "unmark", "drop"} => job[t] \in {"pop", "rem"}
        /\ pc[t] \in {"ask", "rest", "after", "cut"} => job[t] = "rem"
        /\ top[t] # NoKey =>
             job[t] = "rem" /\ pc[t] \in {"rest", "after", "value", "ask", "cut"}

\* A round of RemoveQueue that has begun has not been counted yet.
RoundsInv ==
    \A t \in Threads :
        job[t] = "rem" /\ pc[t] \in {"next", "value", "ask", "unmark", "drop", "after", "cut"} =>
            left[t] # 0

Pushing(t) == pc[t] # "idle" /\ job[t] = "push"
Taking(t) == pc[t] # "idle" /\ job[t] # "push"

\* Every name is given to one push.
NamesInv ==
    /\ fresh \cap exists = {} /\ fresh \cap pushed = {}
    /\ \A k \in Keys \ exists : next[k] = NoKey
    /\ \A t \in Threads : Pushing(t) => key[t] \notin fresh \cup pushed
    /\ \A t, u \in Threads : t # u /\ Pushing(t) /\ Pushing(u) => key[t] # key[u]

MetInv == \A t, u \in Threads : t # u /\ pc[t] # "idle" /\ pc[u] # "idle" => {job[t], job[u]} \in met

CommonInv == TypeOK /\ StepsInv /\ RoundsInv /\ NamesInv /\ MetInv

-----------------------------------------------------------------------------
\* The invariant of the line while the calls that need it are kept apart.  `in' are
\* the keys of the line and `end' is the last of them.

\* A FIFO push whose key is the subkey of the end key, and not in the marker yet.
Linked(t) == pc[t] = "mark" /\ fifo /\ before[t] # NoMarker

\* The key of a push is off the line until it is linked; the end key a FIFO push has
\* read is still the last of the line, or the line has been emptied or extended.
PushInv(t, in, end) ==
    /\ ~ Linked(t) => key[t] \notin in \cup taken
    /\ fifo => /\ pc[t] \in {"read", "link", "mark"}
               /\ ~ Linked(t) => key[t] \in exists /\ next[key[t]] = NoKey
               /\ Linked(t) => before[t].end # NoKey
               /\ Linked(t) /\ marker.start # NoKey =>
                    key[t] = end /\ before[t].end = marker.end
               /\ pc[t] = "link" /\ marker.start # NoKey /\ {"push"} \notin met =>
                    before[t].end = marker.end
               /\ ~mixed /\ Linked(t) => marker.start # NoKey /\ before[t].end \in in
               /\ ~mixed /\ pc[t] = "link" => before[t].end \in in \cap pushed
    /\ ~fifo => /\ pc[t] \in {"read", "set", "mark"}
                /\ pc[t] \in {"read", "set"} => key[t] \notin exists
                /\ pc[t] \in {"set", "mark"} => before[t] = GetMarker
                /\ pc[t] = "mark" => key[t] \in exists /\ next[key[t]] = before[t].start

\* The start key that a Pop or RemoveQueue has read is still that, with the subkey and
\* the value read since, or has been taken.  The subkey may be younger than the look
\* at it if a push overlaps.
TakeInv(t) ==
    /\ pc[t] \in {"next", "value", "ask", "unmark"} /\ top[t] = NoKey =>
         /\ before[t].start \in Keys
         /\ before[t].start = marker.start \/ before[t].start \in taken
    /\ pc[t] \in {"value", "ask", "unmark"} /\ top[t] = NoKey /\ before[t].start = marker.start =>
         /\ nxt[t] \in {NoKey, next[marker.start]}
         /\ ~mixed => nxt[t] = next[marker.start]
         /\ pc[t] # "value" => held[t]
    /\ pc[t] = "drop" => before[t].start \in taken

KeysInv(in) ==
    /\ in \cap taken = {} /\ fresh \cap taken = {} /\ taken \subseteq Keys
    /\ ~mixed => pushed \ taken \subseteq in

\* The end key of the marker is the last one of the line, but for a push that has
\* linked its key and is about to write the marker.
EndInv(end) ==
    fifo /\ marker.start # NoKey =>
        marker.end \in pushed /\ (marker.end = end \/ \E t \in Threads : Linked(t))

CallsInv(in, end) ==
    \A t \in Threads : /\ Pushing(t) => PushInv(t, in, end)
                       /\ Taking(t) => TakeInv(t)

LineInv(line) ==
    /\ IsLine(line, marker.start, exists, next)
    /\ KeysInv(ToSet(line)) /\ EndInv(EndOf(line)) /\ CallsInv(ToSet(line), EndOf(line))

QueueInv == CommonInv /\ (PushesApart => \E line \in Seq(Keys) : LineInv(line))

-----------------------------------------------------------------------------
\* The outcomes of the steps that have two.

LinkFails(t) ==
    /\ pc[t] = "link" /\ before[t].end \notin exists /\ before[t].end = last[t]
    /\ Return(t)
    /\ UNCHANGED <<store, res, calls, aux>>

LinkRetries(t) ==
    /\ pc[t] = "link" /\ before[t].end \notin exists /\ before[t].end # last[t]
    /\ last' = [last EXCEPT ![t] = before[t].end]
    /\ Goto(t, "read")
    /\ UNCHANGED <<store, job, key, before, nxt, junk, top, held, left, res, calls, aux>>

SetFirst(t) ==
    /\ pc[t] = "set" /\ SubKey(key[t]) \in {NoKey, before[t].start}
    /\ exists' = exists \cup {key[t]}
    /\ next' = [next EXCEPT ![key[t]] = before[t].start]
    /\ Goto(t, "mark")
    /\ UNCHANGED <<marker, fresh, fifo, job, frame, res, calls, aux>>

SetAgain(t) ==
    /\ pc[t] = "set" /\ SubKey(key[t]) \notin {NoKey, before[t].start}
    /\ exists' = exists \cup {key[t]}
    /\ next' = [next EXCEPT ![key[t]] = before[t].start]
    /\ junk' = [junk EXCEPT ![t] = SubKey(key[t])]
    /\ Goto(t, "erase")
    /\ UNCHANGED <<marker, fresh, fifo, job, key, before, last, nxt, top, held, left, res, calls, aux>>

MarkOwn(t) ==
    /\ pc[t] = "mark" /\ fifo /\ before[t] # NoMarker /\ GetMarker # NoMarker
    /\ GetMarker.end # before[t].end /\ GetMarker.end = key[t]
    /\ PushReturns(t)
    /\ UNCHANGED <<store, res, calls>>

MarkDeep(t) ==
    /\ pc[t] = "mark" /\ fifo /\ before[t] # NoMarker /\ GetMarker # NoMarker
    /\ GetMarker.end # before[t].end /\ GetMarker.end # key[t]
    /\ before' = [before EXCEPT ![t] = GetMarker]
    /\ Goto(t, "check")
    /\ UNCHANGED <<store, job, key, last, nxt, junk, top, held, left, res, calls, aux>>

CheckQueued(t) ==
    /\ pc[t] = "check" /\ (key[t] \notin exists \/ SubKey(key[t]) # NoKey)
    /\ PushReturns(t)
    /\ UNCHANGED <<store, res, calls>>

CheckRetries(t) ==
    /\ pc[t] = "check" /\ key[t] \in exists /\ SubKey(key[t]) = NoKey
    /\ Goto(t, "link")
    /\ UNCHANGED <<store, job, frame, res, calls, aux>>

ReadNone(t) ==
    /\ pc[t] = "read" /\ job[t] \in {"pop", "rem"} /\ GetMarker = NoMarker
    /\ Return(t)
    /\ res' = [res EXCEPT ![t] = IF job[t] = "pop" THEN NoKey ELSE @]
    /\ UNCHANGED <<store, calls, aux>>

ReadSome(t) ==
    /\ pc[t] = "read" /\ job[t] \in {"pop", "rem"} /\ GetMarker # NoMarker
    /\ job[t] = "rem" => left[t] > 0
    /\ before' = [before EXCEPT ![t] = GetMarker]
    /\ Goto(t, "next")
    /\ UNCHANGED <<store, job, key, last, nxt, junk, top, held, left, res, calls, aux>>

PopAgain(t) ==
    /\ pc[t] = "unmark" /\ job[t] # "rem"
    /\ GetMarker # NoMarker /\ GetMarker.start # before[t].start
    /\ Goto(t, "read")
    /\ UNCHANGED <<store, job, frame, res, calls, aux>>

RoundLost(t) ==
    /\ pc[t] = "unmark" /\ job[t] = "rem"
    /\ GetMarker # NoMarker /\ GetMarker.start # before[t].start
    /\ EndRound(t, "read")
    /\ UNCHANGED <<store, job, key, before, last, nxt, junk, top, held, res, calls, aux>>

RemoveTop(t) ==
    /\ pc[t] = "ask" /\ top[t] = NoKey
    /\ Goto(t, "unmark")
    /\ UNCHANGED <<store, job, frame, res, calls, aux>>

KeepTop(t) ==
    /\ pc[t] = "ask" /\ top[t] = NoKey
    /\ top' = [top EXCEPT ![t] = before[t].start]
    /\ EndRound(t, "rest")
    /\ UNCHANGED <<store, job, key, before, last, nxt, junk, held, res, calls, aux>>

RemoveAfter(t) ==
    /\ pc[t] = "ask" /\ top[t] # NoKey
    /\ Goto(t, "cut")
    /\ UNCHANGED <<store, job, frame, res, calls, aux>>

KeepAfter(t) ==
    /\ pc[t] = "ask" /\ top[t] # NoKey
    /\ top' = [top EXCEPT ![t] = nxt[t]]
    /\ EndRound(t, "rest")
    /\ UNCHANGED <<store, job, key, before, last, nxt, junk, held, res, calls, aux>>

AtEnd(t) ==
    /\ pc[t] = "rest" /\ (GetMarker = NoMarker \/ GetMarker.end = top[t])
    /\ Return(t)
    /\ UNCHANGED <<store, res, calls, aux>>

GoAfter(t) ==
    /\ pc[t] = "rest" /\ left[t] > 0
    /\ Goto(t, "after")
    /\ UNCHANGED <<store, job, frame, res, calls, aux>>

\* Every step is one of these.
LEMMA StepCases ==
    ASSUME NEW t \in Threads, Step(t), TypeOK
    PROVE  \/ ReadMarker(t)
           \/ Link(t)
           \/ LinkTaken(t)
           \/ LinkFails(t)
           \/ LinkRetries(t)
           \/ SetFirst(t)
           \/ SetAgain(t)
           \/ EraseSubKey(t)
           \/ Mark(t)
           \/ MarkAfterEmptied(t)
           \/ MarkAgain(t)
           \/ MarkOwn(t)
           \/ MarkDeep(t)
           \/ CheckQueued(t)
           \/ CheckRetries(t)
           \/ ReadNone(t)
           \/ ReadSome(t)
           \/ ReadNext(t)
           \/ ReadValue(t)
           \/ Unmark(t)
           \/ PopAgain(t)
           \/ RoundLost(t)
           \/ UnmarkEmpty(t)
           \/ Drop(t)
           \/ DropWithValue(t)
           \/ RemoveTop(t)
           \/ KeepTop(t)
           \/ RemoveAfter(t)
           \/ KeepAfter(t)
           \/ AskFails(t)
           \/ AtEnd(t)
           \/ GoAfter(t)
           \/ ReadAfter(t)
           \/ AfterLast(t)
           \/ StopCutting(t)
           \/ RoundsOver(t)
  <1>1. LinkGone(t) => LinkFails(t) \/ LinkRetries(t)
    BY Zenon DEF LinkGone, LinkFails, LinkRetries
  <1>2. SetNewKey(t) => SetFirst(t) \/ SetAgain(t)
    BY Zenon DEF SetNewKey, SetFirst, SetAgain, frame, aux
  <1>3. MarkOther(t) => MarkOwn(t) \/ MarkDeep(t)
    BY Zenon DEF MarkOther, MarkOwn, MarkDeep, aux, PushReturns
  <1>4. CheckNewKey(t) => CheckQueued(t) \/ CheckRetries(t)
    BY Zenon DEF CheckNewKey, CheckQueued, CheckRetries, frame
  <1>5. ReadStart(t) => ReadNone(t) \/ ReadSome(t)
    BY Zenon DEF ReadStart, ReadNone, ReadSome, TypeOK
  <1>6. UnmarkAgain(t) => PopAgain(t) \/ RoundLost(t)
    BY Zenon DEF UnmarkAgain, PopAgain, RoundLost, frame
  <1>7. ASSUME NEW answer \in {"remove", "keep"}, AskTop(t, answer) PROVE RemoveTop(t) \/ KeepTop(t)
    BY <1>7, Zenon DEF AskTop, RemoveTop, KeepTop, frame, EndRound
  <1>8. ASSUME NEW answer \in {"remove", "keep"}, AskAfter(t, answer) PROVE RemoveAfter(t) \/ KeepAfter(t)
    BY <1>8, Zenon DEF AskAfter, RemoveAfter, KeepAfter, frame, EndRound
  <1>9. ReadEnd(t) => AtEnd(t) \/ GoAfter(t)
    BY Zenon DEF ReadEnd, AtEnd, GoAfter, frame
  <1> QED
    BY <1>1, <1>2, <1>3, <1>4, <1>5, <1>6, <1>7, <1>8, <1>9, Zenon DEF Step

-----------------------------------------------------------------------------
\* The common invariant, action by action.

LEMMA MarkerTypes ==
    ASSUME TypeOK
    PROVE  /\ NoMarker \in Markers /\ GetMarker \in Markers
           /\ \A m \in Markers, k \in Keys : Updated(m, k) \in Markers
           /\ \A m \in Markers, k \in Names : [m EXCEPT !.start = k] \in Markers
           /\ \A k \in Names : SubKey(k) \in Names
           /\ fresh # {} => UniqKey \in fresh
           /\ GetMarker # NoMarker => GetMarker = marker /\ marker.start \in Keys
           /\ NoKey \in Names /\ Keys \subseteq Names /\ NoKey \notin Keys
           /\ \A m \in Markers : m.start \in Names /\ m.end \in Names
           /\ MaxCount \in Nat /\ MaxCalls \in Nat
  <1>1. NoMarker \in Markers
    BY DEF NoMarker, Markers, Names
  <1>2. GetMarker \in Markers
    BY <1>1 DEF GetMarker, TypeOK
  <1>3. \A m \in Markers, k \in Names : /\ [m EXCEPT !.start = k] \in Markers
                                        /\ [m EXCEPT !.end = k] \in Markers
                                        /\ [start |-> k, end |-> k] \in Markers
    BY DEF Markers
  <1>4. \A m \in Markers, k \in Keys : Updated(m, k) \in Markers
    <2> TAKE m \in Markers, k \in Keys
    <2>1. k \in Names
      BY DEF Names
    <2>2. CASE m = NoMarker
      BY <1>3, <2>1, <2>2, Zenon DEF Updated
    <2>3. CASE m # NoMarker /\ fifo
      BY <1>3, <2>1, <2>3 DEF Updated
    <2>4. CASE m # NoMarker /\ ~fifo
      BY <1>3, <2>1, <2>4 DEF Updated
    <2> QED
      BY <2>2, <2>3, <2>4, Zenon
  <1>5. \A k \in Names : SubKey(k) \in Names
    BY DEF SubKey, TypeOK, Names
  <1>6. fresh # {} => UniqKey \in fresh
    BY Zenon DEF UniqKey
  <1>7. /\ NoKey \in Names /\ Keys \subseteq Names /\ NoKey \notin Keys
        /\ MaxCount \in Nat /\ MaxCalls \in Nat
    BY QueueAssumption DEF Names
  <1>8. \A m \in Markers : m.start \in Names /\ m.end \in Names
    BY DEF Markers
  <1>9. GetMarker # NoMarker => GetMarker = marker /\ marker.start \in Keys
    BY <1>8 DEF GetMarker, TypeOK, Names
  <1> QED
    BY <1>1, <1>2, <1>3, <1>4, <1>5, <1>6, <1>7, <1>8, <1>9, Zenon

\* One round less.
LEMMA RoundTypes ==
    ASSUME CommonInv, NEW t \in Threads, NEW step, EndRound(t, step),
           job[t] = "rem", pc[t] \in {"next", "value", "ask", "unmark", "drop", "after", "cut"}
    PROVE  left' \in [Threads -> 0 .. MaxCount]
  <1>1. left[t] \in 0 .. MaxCount /\ left[t] # 0 /\ left \in [Threads -> 0 .. MaxCount]
    BY DEF CommonInv, TypeOK, RoundsInv
  <1>2. left[t] - 1 \in 0 .. MaxCount
    BY <1>1, QueueAssumption
  <1> QED
    BY <1>1, <1>2 DEF EndRound

\* A call that begins overlaps with those that have not returned.
LEMMA BeginTypes ==
    ASSUME CommonInv, NEW t \in Threads, NEW j \in {"push", "pop", "rem"}, NEW step, Begin(t, j, step)
    PROVE  met' \subseteq Kinds /\ calls' \in 0 .. MaxCalls
  <1>1. met \subseteq Kinds /\ job \in [Threads -> {"push", "pop", "rem"}] /\ calls \in 0 .. MaxCalls
    BY DEF CommonInv, TypeOK
  <1>2. \A u \in Threads : {j, job[u]} \in Kinds
    BY <1>1 DEF Kinds
  <1>3. met' = met \cup {{j, job[u]} : u \in {v \in Threads \ {t} : pc[v] # "idle"}}
    BY DEF Begin
  <1>4. calls' = calls + 1 /\ calls < MaxCalls
    BY DEF Begin
  <1>5. met' \subseteq Kinds
    BY <1>1, <1>2, <1>3
  <1>6. calls' \in 0 .. MaxCalls
    BY <1>1, <1>4, QueueAssumption
  <1> QED
    BY <1>5, <1>6

LEMMA BeginPushCommon ==
    ASSUME CommonInv, NEW t \in Threads, BeginPush(t)
    PROVE  CommonInv'
  <1>1. TypeOK /\ StepsInv /\ RoundsInv /\ NamesInv /\ MetInv
    BY DEF CommonInv
  <1>2. TypeOK'
    <2>1. /\ exists' \subseteq Keys /\ next' \in [Keys -> Names] /\ fresh' \subseteq Keys
          /\ fifo' \in BOOLEAN /\ marker' \in Markers
      BY <1>1, MarkerTypes DEF TypeOK, BeginPush, Begin, Goto, aux
    <2>2. pc' \in [Threads -> Steps]
      BY <1>1, MarkerTypes DEF TypeOK, Steps, BeginPush, Begin, Goto, aux
    <2>3. /\ before' \in [Threads -> Markers] /\ last' \in [Threads -> Names] /\ nxt' \in [Threads -> Names]
          /\ top' \in [Threads -> Names] /\ junk' \in [Threads -> Names]
      BY <1>1, MarkerTypes DEF TypeOK, BeginPush, Begin, Goto, aux
    <2>4. held' \in [Threads -> BOOLEAN] /\ left' \in [Threads -> 0 .. MaxCount]
      BY <1>1, MarkerTypes DEF TypeOK, BeginPush, Begin, Goto, aux
    <2>5. /\ job' \in [Threads -> {"push", "pop", "rem"}] /\ key' \in [Threads -> Keys]
          /\ res' \in [Threads -> Names \cup {Failed}]
      BY <1>1, MarkerTypes DEF TypeOK, BeginPush, Begin, Goto, aux
    <2>6. calls' \in 0 .. MaxCalls /\ pushed' \subseteq Keys /\ taken' \subseteq Keys /\ met' \subseteq Kinds
      <3>1. met' \subseteq Kinds /\ calls' \in 0 .. MaxCalls
        BY BeginTypes DEF BeginPush
      <3> QED
        BY <1>1, <3>1 DEF TypeOK, BeginPush, Begin, Goto, aux
    <2> QED
      BY <2>1, <2>2, <2>3, <2>4, <2>5, <2>6 DEF TypeOK
  <1>3. StepsInv'
    BY <1>1 DEF TypeOK, StepsInv, Names, NoMarker, BeginPush, Begin, Goto, aux
  <1>4. RoundsInv'
    BY <1>1 DEF TypeOK, StepsInv, RoundsInv, BeginPush, Begin, Goto, aux
  <1>5. NamesInv'
    <2>1. UniqKey \in fresh /\ UniqKey \notin exists /\ UniqKey \notin pushed
      BY <1>1, MarkerTypes DEF NamesInv, BeginPush
    <2>2. /\ fresh' = fresh \ {UniqKey} /\ pushed' = pushed /\ next' = next
          /\ exists' \subseteq exists \cup {UniqKey} /\ exists \subseteq exists'
      BY DEF BeginPush, Begin, aux
    <2>3. \A u \in Threads : Pushing(u)' => IF u = t THEN key'[u] = UniqKey
                                           ELSE Pushing(u) /\ key'[u] = key[u]
      BY <1>1 DEF TypeOK, Pushing, BeginPush, Begin, Goto
    <2>4. /\ fresh' \cap exists' = {} /\ fresh' \cap pushed' = {}
          /\ \A k \in Keys \ exists' : next'[k] = NoKey
      BY <1>1, <2>1, <2>2 DEF NamesInv
    <2>5. \A u \in Threads : Pushing(u)' => key'[u] \notin fresh' \cup pushed'
      BY <1>1, <2>1, <2>2, <2>3 DEF NamesInv
    <2>6. \A v, u \in Threads : v # u /\ Pushing(v)' /\ Pushing(u)' => key'[v] # key'[u]
      BY <1>1, <2>1, <2>3 DEF NamesInv
    <2> QED
      BY <2>4, <2>5, <2>6 DEF NamesInv
  <1>6. MetInv'
    BY <1>1 DEF TypeOK, MetInv, BeginPush, Begin, Goto, aux
  <1> QED
    BY <1>2, <1>3, <1>4, <1>5, <1>6 DEF CommonInv

LEMMA BeginPopCommon ==
    ASSUME CommonInv, NEW t \in Threads, BeginPop(t)
    PROVE  CommonInv'
  <1>1. TypeOK /\ StepsInv /\ RoundsInv /\ NamesInv /\ MetInv
    BY DEF CommonInv
  <1>2. TypeOK'
    <2>1. /\ exists' \subseteq Keys /\ next' \in [Keys -> Names] /\ fresh' \subseteq Keys
          /\ fifo' \in BOOLEAN /\ marker' \in Markers
      BY <1>1, MarkerTypes DEF TypeOK, BeginPop, Begin, Goto, store, frame, aux
    <2>2. pc' \in [Threads -> Steps]
      BY <1>1, MarkerTypes DEF TypeOK, Steps, BeginPop, Begin, Goto, store, frame, aux
    <2>3. /\ before' \in [Threads -> Markers] /\ last' \in [Threads -> Names] /\ nxt' \in [Threads -> Names]
          /\ top' \in [Threads -> Names] /\ junk' \in [Threads -> Names]
      BY <1>1, MarkerTypes DEF TypeOK, BeginPop, Begin, Goto, store, frame, aux
    <2>4. held' \in [Threads -> BOOLEAN] /\ left' \in [Threads -> 0 .. MaxCount]
      BY <1>1, MarkerTypes DEF TypeOK, BeginPop, Begin, Goto, store, frame, aux
    <2>5. /\ job' \in [Threads -> {"push", "pop", "rem"}] /\ key' \in [Threads -> Keys]
          /\ res' \in [Threads -> Names \cup {Failed}]
      BY <1>1, MarkerTypes DEF TypeOK, BeginPop, Begin, Goto, store, frame, aux
    <2>6. calls' \in 0 .. MaxCalls /\ pushed' \subseteq Keys /\ taken' \subseteq Keys /\ met' \subseteq Kinds
      <3>1. met' \subseteq Kinds /\ calls' \in 0 .. MaxCalls
        BY BeginTypes DEF BeginPop
      <3> QED
        BY <1>1, <3>1 DEF TypeOK, BeginPop, Begin, Goto, store, frame, aux
    <2> QED
      BY <2>1, <2>2, <2>3, <2>4, <2>5, <2>6 DEF TypeOK
  <1>3. StepsInv'
    BY <1>1 DEF TypeOK, StepsInv, Names, NoMarker, BeginPop, Begin, Goto, store, frame, aux
  <1>4. RoundsInv'
    BY <1>1 DEF TypeOK, StepsInv, RoundsInv, BeginPop, Begin, Goto, store, frame, aux
  <1>5. NamesInv'
    BY <1>1, MarkerTypes DEF TypeOK, StepsInv, NamesInv, Pushing, BeginPop, Begin, Goto, store, frame, aux
  <1>6. MetInv'
    BY <1>1 DEF TypeOK, MetInv, BeginPop, Begin, Goto, store, frame, aux
  <1> QED
    BY <1>2, <1>3, <1>4, <1>5, <1>6 DEF CommonInv

LEMMA BeginRemoveCommon ==
    ASSUME CommonInv, NEW t \in Threads, NEW n \in 1 .. MaxCount, BeginRemove(t, n)
    PROVE  CommonInv'
  <1>1. TypeOK /\ StepsInv /\ RoundsInv /\ NamesInv /\ MetInv
    BY DEF CommonInv
  <1>2. TypeOK'
    <2>1. /\ exists' \subseteq Keys /\ next' \in [Keys -> Names] /\ fresh' \subseteq Keys
          /\ fifo' \in BOOLEAN /\ marker' \in Markers
      BY <1>1, MarkerTypes DEF TypeOK, BeginRemove, Begin, Goto, store, aux
    <2>2. pc' \in [Threads -> Steps]
      BY <1>1, MarkerTypes DEF TypeOK, Steps, BeginRemove, Begin, Goto, store, aux
    <2>3. /\ before' \in [Threads -> Markers] /\ last' \in [Threads -> Names] /\ nxt' \in [Threads -> Names]
          /\ top' \in [Threads -> Names] /\ junk' \in [Threads -> Names]
      BY <1>1, MarkerTypes DEF TypeOK, BeginRemove, Begin, Goto, store, aux
    <2>4. held' \in [Threads -> BOOLEAN] /\ left' \in [Threads -> 0 .. MaxCount]
      BY <1>1, MarkerTypes DEF TypeOK, BeginRemove, Begin, Goto, store, aux
    <2>5. /\ job' \in [Threads -> {"push", "pop", "rem"}] /\ key' \in [Threads -> Keys]
          /\ res' \in [Threads -> Names \cup {Failed}]
      BY <1>1, MarkerTypes DEF TypeOK, BeginRemove, Begin, Goto, store, aux
    <2>6. calls' \in 0 .. MaxCalls /\ pushed' \subseteq Keys /\ taken' \subseteq Keys /\ met' \subseteq Kinds
      <3>1. met' \subseteq Kinds /\ calls' \in 0 .. MaxCalls
        BY BeginTypes DEF BeginRemove
      <3> QED
        BY <1>1, <3>1 DEF TypeOK, BeginRemove, Begin, Goto, store, aux
    <2> QED
      BY <2>1, <2>2, <2>3, <2>4, <2>5, <2>6 DEF TypeOK
  <1>3. StepsInv'
    BY <1>1 DEF TypeOK, StepsInv, Names, NoMarker, BeginRemove, Begin, Goto, store, aux
  <1>4. RoundsInv'
    BY <1>1 DEF TypeOK, StepsInv, RoundsInv, BeginRemove, Begin, Goto, store, aux
  <1>5. NamesInv'
    BY <1>1, MarkerTypes DEF TypeOK, StepsInv, NamesInv, Pushing, BeginRemove, Begin, Goto, store, aux
  <1>6. MetInv'
    BY <1>1 DEF TypeOK, MetInv, BeginRemove, Begin, Goto, store, aux
  <1> QED
    BY <1>2, <1>3, <1>4, <1>5, <1>6 DEF CommonInv

LEMMA ReadMarkerCommon ==
    ASSUME CommonInv, NEW t \in Threads, ReadMarker(t), UNCHANGED met
    PROVE  CommonInv'
  <1>1. TypeOK /\ StepsInv /\ RoundsInv /\ NamesInv /\ MetInv
    BY DEF CommonInv
  <1>2. TypeOK'
    <2>1. /\ exists' \subseteq Keys /\ next' \in [Keys -> Names] /\ fresh' \subseteq Keys
          /\ fifo' \in BOOLEAN /\ marker' \in Markers
      BY <1>1, MarkerTypes DEF TypeOK, ReadMarker, Goto, store, aux
    <2>2. pc' \in [Threads -> Steps]
      BY <1>1, MarkerTypes DEF TypeOK, Steps, ReadMarker, Goto, store, aux
    <2>3. /\ before' \in [Threads -> Markers] /\ last' \in [Threads -> Names] /\ nxt' \in [Threads -> Names]
          /\ top' \in [Threads -> Names] /\ junk' \in [Threads -> Names]
      BY <1>1, MarkerTypes DEF TypeOK, ReadMarker, Goto, store, aux
    <2>4. held' \in [Threads -> BOOLEAN] /\ left' \in [Threads -> 0 .. MaxCount]
      BY <1>1, MarkerTypes DEF TypeOK, ReadMarker, Goto, store, aux
    <2>5. /\ job' \in [Threads -> {"push", "pop", "rem"}] /\ key' \in [Threads -> Keys]
          /\ res' \in [Threads -> Names \cup {Failed}]
      BY <1>1, MarkerTypes DEF TypeOK, ReadMarker, Goto, store, aux
    <2>6. calls' \in 0 .. MaxCalls /\ pushed' \subseteq Keys /\ taken' \subseteq Keys /\ met' \subseteq Kinds
      BY <1>1, MarkerTypes DEF TypeOK, ReadMarker, Goto, store, aux
    <2> QED
      BY <2>1, <2>2, <2>3, <2>4, <2>5, <2>6 DEF TypeOK
  <1>3. StepsInv'
    BY <1>1 DEF TypeOK, StepsInv, Names, NoMarker, ReadMarker, Goto, store, aux
  <1>4. RoundsInv'
    BY <1>1 DEF TypeOK, StepsInv, RoundsInv, ReadMarker, Goto, store, aux
  <1>5. NamesInv'
    BY <1>1, MarkerTypes DEF TypeOK, StepsInv, NamesInv, Pushing, ReadMarker, Goto, store, aux
  <1>6. MetInv'
    BY <1>1 DEF TypeOK, MetInv, ReadMarker, Goto, store, aux
  <1> QED
    BY <1>2, <1>3, <1>4, <1>5, <1>6 DEF CommonInv

LEMMA LinkCommon ==
    ASSUME CommonInv, NEW t \in Threads, Link(t), UNCHANGED met
    PROVE  CommonInv'
  <1>1. TypeOK /\ StepsInv /\ RoundsInv /\ NamesInv /\ MetInv
    BY DEF CommonInv
  <1>2. TypeOK'
    <2>1. /\ exists' \subseteq Keys /\ next' \in [Keys -> Names] /\ fresh' \subseteq Keys
          /\ fifo' \in BOOLEAN /\ marker' \in Markers
      BY <1>1, MarkerTypes DEF TypeOK, Link, Goto, aux
    <2>2. pc' \in [Threads -> Steps]
      BY <1>1, MarkerTypes DEF TypeOK, Steps, Link, Goto, aux
    <2>3. /\ before' \in [Threads -> Markers] /\ last' \in [Threads -> Names] /\ nxt' \in [Threads -> Names]
          /\ top' \in [Threads -> Names] /\ junk' \in [Threads -> Names]
      BY <1>1, MarkerTypes DEF TypeOK, Link, Goto, aux
    <2>4. held' \in [Threads -> BOOLEAN] /\ left' \in [Threads -> 0 .. MaxCount]
      BY <1>1, MarkerTypes DEF TypeOK, Link, Goto, aux
    <2>5. /\ job' \in [Threads -> {"push", "pop", "rem"}] /\ key' \in [Threads -> Keys]
          /\ res' \in [Threads -> Names \cup {Failed}]
      BY <1>1, MarkerTypes DEF TypeOK, Link, Goto, aux
    <2>6. calls' \in 0 .. MaxCalls /\ pushed' \subseteq Keys /\ taken' \subseteq Keys /\ met' \subseteq Kinds
      BY <1>1, MarkerTypes DEF TypeOK, Link, Goto, aux
    <2> QED
      BY <2>1, <2>2, <2>3, <2>4, <2>5, <2>6 DEF TypeOK
  <1>3. StepsInv'
    BY <1>1 DEF TypeOK, StepsInv, Names, NoMarker, Link, Goto, aux
  <1>4. RoundsInv'
    BY <1>1 DEF TypeOK, StepsInv, RoundsInv, Link, Goto, aux
  <1>5. NamesInv'
    BY <1>1, MarkerTypes DEF TypeOK, StepsInv, NamesInv, Pushing, Link, Goto, aux
  <1>6. MetInv'
    BY <1>1 DEF TypeOK, MetInv, Link, Goto, aux
  <1> QED
    BY <1>2, <1>3, <1>4, <1>5, <1>6 DEF CommonInv

LEMMA LinkTakenCommon ==
    ASSUME CommonInv, NEW t \in Threads, LinkTaken(t), UNCHANGED met
    PROVE  CommonInv'
  <1>1. TypeOK /\ StepsInv /\ RoundsInv /\ NamesInv /\ MetInv
    BY DEF CommonInv
  <1>2. TypeOK'
    <2>1. /\ exists' \subseteq Keys /\ next' \in [Keys -> Names] /\ fresh' \subseteq Keys
          /\ fifo' \in BOOLEAN /\ marker' \in Markers
      BY <1>1, MarkerTypes DEF TypeOK, LinkTaken, Goto, store, aux
    <2>2. pc' \in [Threads -> Steps]
      BY <1>1, MarkerTypes DEF TypeOK, Steps, LinkTaken, Goto, store, aux
    <2>3. /\ before' \in [Threads -> Markers] /\ last' \in [Threads -> Names] /\ nxt' \in [Threads -> Names]
          /\ top' \in [Threads -> Names] /\ junk' \in [Threads -> Names]
      BY <1>1, MarkerTypes DEF TypeOK, LinkTaken, Goto, store, aux
    <2>4. held' \in [Threads -> BOOLEAN] /\ left' \in [Threads -> 0 .. MaxCount]
      BY <1>1, MarkerTypes DEF TypeOK, LinkTaken, Goto, store, aux
    <2>5. /\ job' \in [Threads -> {"push", "pop", "rem"}] /\ key' \in [Threads -> Keys]
          /\ res' \in [Threads -> Names \cup {Failed}]
      BY <1>1, MarkerTypes DEF TypeOK, LinkTaken, Goto, store, aux
    <2>6. calls' \in 0 .. MaxCalls /\ pushed' \subseteq Keys /\ taken' \subseteq Keys /\ met' \subseteq Kinds
      BY <1>1, MarkerTypes DEF TypeOK, LinkTaken, Goto, store, aux
    <2> QED
      BY <2>1, <2>2, <2>3, <2>4, <2>5, <2>6 DEF TypeOK
  <1>3. StepsInv'
    BY <1>1 DEF TypeOK, StepsInv, Names, NoMarker, LinkTaken, Goto, store, aux
  <1>4. RoundsInv'
    BY <1>1 DEF TypeOK, StepsInv, RoundsInv, LinkTaken, Goto, store, aux
  <1>5. NamesInv'
    BY <1>1, MarkerTypes DEF TypeOK, StepsInv, NamesInv, Pushing, LinkTaken, Goto, store, aux
  <1>6. MetInv'
    BY <1>1 DEF TypeOK, MetInv, LinkTaken, Goto, store, aux
  <1> QED
    BY <1>2, <1>3, <1>4, <1>5, <1>6 DEF CommonInv

LEMMA LinkFailsCommon ==
    ASSUME CommonInv, NEW t \in Threads, LinkFails(t), UNCHANGED met
    PROVE  CommonInv'
  <1>1. TypeOK /\ StepsInv /\ RoundsInv /\ NamesInv /\ MetInv
    BY DEF CommonInv
  <1>2. TypeOK'
    <2>1. /\ exists' \subseteq Keys /\ next' \in [Keys -> Names] /\ fresh' \subseteq Keys
          /\ fifo' \in BOOLEAN /\ marker' \in Markers
      BY <1>1, MarkerTypes DEF TypeOK, LinkFails, Return, Goto, store, aux
    <2>2. pc' \in [Threads -> Steps]
      BY <1>1, MarkerTypes DEF TypeOK, Steps, LinkFails, Return, Goto, store, aux
    <2>3. /\ before' \in [Threads -> Markers] /\ last' \in [Threads -> Names] /\ nxt' \in [Threads -> Names]
          /\ top' \in [Threads -> Names] /\ junk' \in [Threads -> Names]
      BY <1>1, MarkerTypes DEF TypeOK, LinkFails, Return, Goto, store, aux
    <2>4. held' \in [Threads -> BOOLEAN] /\ left' \in [Threads -> 0 .. MaxCount]
      BY <1>1, MarkerTypes DEF TypeOK, LinkFails, Return, Goto, store, aux
    <2>5. /\ job' \in [Threads -> {"push", "pop", "rem"}] /\ key' \in [Threads -> Keys]
          /\ res' \in [Threads -> Names \cup {Failed}]
      BY <1>1, MarkerTypes DEF TypeOK, LinkFails, Return, Goto, store, aux
    <2>6. calls' \in 0 .. MaxCalls /\ pushed' \subseteq Keys /\ taken' \subseteq Keys /\ met' \subseteq Kinds
      BY <1>1, MarkerTypes DEF TypeOK, LinkFails, Return, Goto, store, aux
    <2> QED
      BY <2>1, <2>2, <2>3, <2>4, <2>5, <2>6 DEF TypeOK
  <1>3. StepsInv'
    BY <1>1 DEF TypeOK, StepsInv, Names, NoMarker, LinkFails, Return, Goto, store, aux
  <1>4. RoundsInv'
    BY <1>1 DEF TypeOK, StepsInv, RoundsInv, LinkFails, Return, Goto, store, aux
  <1>5. NamesInv'
    BY <1>1, MarkerTypes DEF TypeOK, StepsInv, NamesInv, Pushing, LinkFails, Return, Goto, store, aux
  <1>6. MetInv'
    BY <1>1 DEF TypeOK, MetInv, LinkFails, Return, Goto, store, aux
  <1> QED
    BY <1>2, <1>3, <1>4, <1>5, <1>6 DEF CommonInv

LEMMA LinkRetriesCommon ==
    ASSUME CommonInv, NEW t \in Threads, LinkRetries(t), UNCHANGED met
    PROVE  CommonInv'
  <1>1. TypeOK /\ StepsInv /\ RoundsInv /\ NamesInv /\ MetInv
    BY DEF CommonInv
  <1>2. TypeOK'
    <2>1. /\ exists' \subseteq Keys /\ next' \in [Keys -> Names] /\ fresh' \subseteq Keys
          /\ fifo' \in BOOLEAN /\ marker' \in Markers
      BY <1>1, MarkerTypes DEF TypeOK, LinkRetries, Goto, store, aux
    <2>2. pc' \in [Threads -> Steps]
      BY <1>1, MarkerTypes DEF TypeOK, Steps, LinkRetries, Goto, store, aux
    <2>3. /\ before' \in [Threads -> Markers] /\ last' \in [Threads -> Names] /\ nxt' \in [Threads -> Names]
          /\ top' \in [Threads -> Names] /\ junk' \in [Threads -> Names]
      BY <1>1, MarkerTypes DEF TypeOK, LinkRetries, Goto, store, aux
    <2>4. held' \in [Threads -> BOOLEAN] /\ left' \in [Threads -> 0 .. MaxCount]
      BY <1>1, MarkerTypes DEF TypeOK, LinkRetries, Goto, store, aux
    <2>5. /\ job' \in [Threads -> {"push", "pop", "rem"}] /\ key' \in [Threads -> Keys]
          /\ res' \in [Threads -> Names \cup {Failed}]
      BY <1>1, MarkerTypes DEF TypeOK, LinkRetries, Goto, store, aux
    <2>6. calls' \in 0 .. MaxCalls /\ pushed' \subseteq Keys /\ taken' \subseteq Keys /\ met' \subseteq Kinds
      BY <1>1, MarkerTypes DEF TypeOK, LinkRetries, Goto, store, aux
    <2> QED
      BY <2>1, <2>2, <2>3, <2>4, <2>5, <2>6 DEF TypeOK
  <1>3. StepsInv'
    BY <1>1 DEF TypeOK, StepsInv, Names, NoMarker, LinkRetries, Goto, store, aux
  <1>4. RoundsInv'
    BY <1>1 DEF TypeOK, StepsInv, RoundsInv, LinkRetries, Goto, store, aux
  <1>5. NamesInv'
    BY <1>1, MarkerTypes DEF TypeOK, StepsInv, NamesInv, Pushing, LinkRetries, Goto, store, aux
  <1>6. MetInv'
    BY <1>1 DEF TypeOK, MetInv, LinkRetries, Goto, store, aux
  <1> QED
    BY <1>2, <1>3, <1>4, <1>5, <1>6 DEF CommonInv

LEMMA SetFirstCommon ==
    ASSUME CommonInv, NEW t \in Threads, SetFirst(t), UNCHANGED met
    PROVE  CommonInv'
  <1>1. TypeOK /\ StepsInv /\ RoundsInv /\ NamesInv /\ MetInv
    BY DEF CommonInv
  <1>2. TypeOK'
    <2>1. /\ exists' \subseteq Keys /\ next' \in [Keys -> Names] /\ fresh' \subseteq Keys
          /\ fifo' \in BOOLEAN /\ marker' \in Markers
      BY <1>1, MarkerTypes DEF TypeOK, SetFirst, Goto, frame, aux
    <2>2. pc' \in [Threads -> Steps]
      BY <1>1, MarkerTypes DEF TypeOK, Steps, SetFirst, Goto, frame, aux
    <2>3. /\ before' \in [Threads -> Markers] /\ last' \in [Threads -> Names] /\ nxt' \in [Threads -> Names]
          /\ top' \in [Threads -> Names] /\ junk' \in [Threads -> Names]
      BY <1>1, MarkerTypes DEF TypeOK, SetFirst, Goto, frame, aux
    <2>4. held' \in [Threads -> BOOLEAN] /\ left' \in [Threads -> 0 .. MaxCount]
      BY <1>1, MarkerTypes DEF TypeOK, SetFirst, Goto, frame, aux
    <2>5. /\ job' \in [Threads -> {"push", "pop", "rem"}] /\ key' \in [Threads -> Keys]
          /\ res' \in [Threads -> Names \cup {Failed}]
      BY <1>1, MarkerTypes DEF TypeOK, SetFirst, Goto, frame, aux
    <2>6. calls' \in 0 .. MaxCalls /\ pushed' \subseteq Keys /\ taken' \subseteq Keys /\ met' \subseteq Kinds
      BY <1>1, MarkerTypes DEF TypeOK, SetFirst, Goto, frame, aux
    <2> QED
      BY <2>1, <2>2, <2>3, <2>4, <2>5, <2>6 DEF TypeOK
  <1>3. StepsInv'
    BY <1>1 DEF TypeOK, StepsInv, Names, NoMarker, SetFirst, Goto, frame, aux
  <1>4. RoundsInv'
    BY <1>1 DEF TypeOK, StepsInv, RoundsInv, SetFirst, Goto, frame, aux
  <1>5. NamesInv'
    BY <1>1, MarkerTypes DEF TypeOK, StepsInv, NamesInv, Pushing, SetFirst, Goto, frame, aux
  <1>6. MetInv'
    BY <1>1 DEF TypeOK, MetInv, SetFirst, Goto, frame, aux
  <1> QED
    BY <1>2, <1>3, <1>4, <1>5, <1>6 DEF CommonInv

LEMMA SetAgainCommon ==
    ASSUME CommonInv, NEW t \in Threads, SetAgain(t), UNCHANGED met
    PROVE  CommonInv'
  <1>1. TypeOK /\ StepsInv /\ RoundsInv /\ NamesInv /\ MetInv
    BY DEF CommonInv
  <1>2. TypeOK'
    <2>1. /\ exists' \subseteq Keys /\ next' \in [Keys -> Names] /\ fresh' \subseteq Keys
          /\ fifo' \in BOOLEAN /\ marker' \in Markers
      BY <1>1, MarkerTypes DEF TypeOK, SetAgain, Goto, aux
    <2>2. pc' \in [Threads -> Steps]
      BY <1>1, MarkerTypes DEF TypeOK, Steps, SetAgain, Goto, aux
    <2>3. /\ before' \in [Threads -> Markers] /\ last' \in [Threads -> Names] /\ nxt' \in [Threads -> Names]
          /\ top' \in [Threads -> Names] /\ junk' \in [Threads -> Names]
      BY <1>1, MarkerTypes DEF TypeOK, SetAgain, Goto, aux
    <2>4. held' \in [Threads -> BOOLEAN] /\ left' \in [Threads -> 0 .. MaxCount]
      BY <1>1, MarkerTypes DEF TypeOK, SetAgain, Goto, aux
    <2>5. /\ job' \in [Threads -> {"push", "pop", "rem"}] /\ key' \in [Threads -> Keys]
          /\ res' \in [Threads -> Names \cup {Failed}]
      BY <1>1, MarkerTypes DEF TypeOK, SetAgain, Goto, aux
    <2>6. calls' \in 0 .. MaxCalls /\ pushed' \subseteq Keys /\ taken' \subseteq Keys /\ met' \subseteq Kinds
      BY <1>1, MarkerTypes DEF TypeOK, SetAgain, Goto, aux
    <2> QED
      BY <2>1, <2>2, <2>3, <2>4, <2>5, <2>6 DEF TypeOK
  <1>3. StepsInv'
    BY <1>1 DEF TypeOK, StepsInv, Names, NoMarker, SetAgain, Goto, aux
  <1>4. RoundsInv'
    BY <1>1 DEF TypeOK, StepsInv, RoundsInv, SetAgain, Goto, aux
  <1>5. NamesInv'
    BY <1>1, MarkerTypes DEF TypeOK, StepsInv, NamesInv, Pushing, SetAgain, Goto, aux
  <1>6. MetInv'
    BY <1>1 DEF TypeOK, MetInv, SetAgain, Goto, aux
  <1> QED
    BY <1>2, <1>3, <1>4, <1>5, <1>6 DEF CommonInv

LEMMA EraseSubKeyCommon ==
    ASSUME CommonInv, NEW t \in Threads, EraseSubKey(t), UNCHANGED met
    PROVE  CommonInv'
  <1>1. TypeOK /\ StepsInv /\ RoundsInv /\ NamesInv /\ MetInv
    BY DEF CommonInv
  <1>2. TypeOK'
    <2>1. /\ exists' \subseteq Keys /\ next' \in [Keys -> Names] /\ fresh' \subseteq Keys
          /\ fifo' \in BOOLEAN /\ marker' \in Markers
      BY <1>1, MarkerTypes DEF TypeOK, EraseSubKey, Goto, aux
    <2>2. pc' \in [Threads -> Steps]
      BY <1>1, MarkerTypes DEF TypeOK, Steps, EraseSubKey, Goto, aux
    <2>3. /\ before' \in [Threads -> Markers] /\ last' \in [Threads -> Names] /\ nxt' \in [Threads -> Names]
          /\ top' \in [Threads -> Names] /\ junk' \in [Threads -> Names]
      BY <1>1, MarkerTypes DEF TypeOK, EraseSubKey, Goto, aux
    <2>4. held' \in [Threads -> BOOLEAN] /\ left' \in [Threads -> 0 .. MaxCount]
      BY <1>1, MarkerTypes DEF TypeOK, EraseSubKey, Goto, aux
    <2>5. /\ job' \in [Threads -> {"push", "pop", "rem"}] /\ key' \in [Threads -> Keys]
          /\ res' \in [Threads -> Names \cup {Failed}]
      BY <1>1, MarkerTypes DEF TypeOK, EraseSubKey, Goto, aux
    <2>6. calls' \in 0 .. MaxCalls /\ pushed' \subseteq Keys /\ taken' \subseteq Keys /\ met' \subseteq Kinds
      BY <1>1, MarkerTypes DEF TypeOK, EraseSubKey, Goto, aux
    <2> QED
      BY <2>1, <2>2, <2>3, <2>4, <2>5, <2>6 DEF TypeOK
  <1>3. StepsInv'
    BY <1>1 DEF TypeOK, StepsInv, Names, NoMarker, EraseSubKey, SubKey, Goto, aux
  <1>4. RoundsInv'
    BY <1>1 DEF TypeOK, StepsInv, RoundsInv, EraseSubKey, SubKey, Goto, aux
  <1>5. NamesInv'
    BY <1>1, MarkerTypes DEF TypeOK, StepsInv, NamesInv, Pushing, EraseSubKey, SubKey, Goto, aux
  <1>6. MetInv'
    BY <1>1 DEF TypeOK, MetInv, EraseSubKey, SubKey, Goto, aux
  <1> QED
    BY <1>2, <1>3, <1>4, <1>5, <1>6 DEF CommonInv

LEMMA MarkCommon ==
    ASSUME CommonInv, NEW t \in Threads, Mark(t), UNCHANGED met
    PROVE  CommonInv'
  <1>1. TypeOK /\ StepsInv /\ RoundsInv /\ NamesInv /\ MetInv
    BY DEF CommonInv
  <1>2. TypeOK'
    <2>1. /\ exists' \subseteq Keys /\ next' \in [Keys -> Names] /\ fresh' \subseteq Keys
          /\ fifo' \in BOOLEAN /\ marker' \in Markers
      BY <1>1, MarkerTypes DEF TypeOK, Mark, PushReturns, Return, Goto
    <2>2. pc' \in [Threads -> Steps]
      BY <1>1, MarkerTypes DEF TypeOK, Steps, Mark, PushReturns, Return, Goto
    <2>3. /\ before' \in [Threads -> Markers] /\ last' \in [Threads -> Names] /\ nxt' \in [Threads -> Names]
          /\ top' \in [Threads -> Names] /\ junk' \in [Threads -> Names]
      BY <1>1, MarkerTypes DEF TypeOK, Mark, PushReturns, Return, Goto
    <2>4. held' \in [Threads -> BOOLEAN] /\ left' \in [Threads -> 0 .. MaxCount]
      BY <1>1, MarkerTypes DEF TypeOK, Mark, PushReturns, Return, Goto
    <2>5. /\ job' \in [Threads -> {"push", "pop", "rem"}] /\ key' \in [Threads -> Keys]
          /\ res' \in [Threads -> Names \cup {Failed}]
      BY <1>1, MarkerTypes DEF TypeOK, Mark, PushReturns, Return, Goto
    <2>6. calls' \in 0 .. MaxCalls /\ pushed' \subseteq Keys /\ taken' \subseteq Keys /\ met' \subseteq Kinds
      BY <1>1, MarkerTypes DEF TypeOK, Mark, PushReturns, Return, Goto
    <2> QED
      BY <2>1, <2>2, <2>3, <2>4, <2>5, <2>6 DEF TypeOK
  <1>3. StepsInv'
    BY <1>1 DEF TypeOK, StepsInv, Names, NoMarker, Mark, PushReturns, Return, Goto
  <1>4. RoundsInv'
    BY <1>1 DEF TypeOK, StepsInv, RoundsInv, Mark, PushReturns, Return, Goto
  <1>5. NamesInv'
    BY <1>1, MarkerTypes DEF TypeOK, StepsInv, NamesInv, Pushing, Mark, PushReturns, Return, Goto
  <1>6. MetInv'
    BY <1>1 DEF TypeOK, MetInv, Mark, PushReturns, Return, Goto
  <1> QED
    BY <1>2, <1>3, <1>4, <1>5, <1>6 DEF CommonInv

LEMMA MarkAfterEmptiedCommon ==
    ASSUME CommonInv, NEW t \in Threads, MarkAfterEmptied(t), UNCHANGED met
    PROVE  CommonInv'
  <1>1. TypeOK /\ StepsInv /\ RoundsInv /\ NamesInv /\ MetInv
    BY DEF CommonInv
  <1>2. TypeOK'
    <2>1. /\ exists' \subseteq Keys /\ next' \in [Keys -> Names] /\ fresh' \subseteq Keys
          /\ fifo' \in BOOLEAN /\ marker' \in Markers
      BY <1>1, MarkerTypes DEF TypeOK, MarkAfterEmptied, PushReturns, Return, Goto, store
    <2>2. pc' \in [Threads -> Steps]
      BY <1>1, MarkerTypes DEF TypeOK, Steps, MarkAfterEmptied, PushReturns, Return, Goto, store
    <2>3. /\ before' \in [Threads -> Markers] /\ last' \in [Threads -> Names] /\ nxt' \in [Threads -> Names]
          /\ top' \in [Threads -> Names] /\ junk' \in [Threads -> Names]
      BY <1>1, MarkerTypes DEF TypeOK, MarkAfterEmptied, PushReturns, Return, Goto, store
    <2>4. held' \in [Threads -> BOOLEAN] /\ left' \in [Threads -> 0 .. MaxCount]
      BY <1>1, MarkerTypes DEF TypeOK, MarkAfterEmptied, PushReturns, Return, Goto, store
    <2>5. /\ job' \in [Threads -> {"push", "pop", "rem"}] /\ key' \in [Threads -> Keys]
          /\ res' \in [Threads -> Names \cup {Failed}]
      BY <1>1, MarkerTypes DEF TypeOK, MarkAfterEmptied, PushReturns, Return, Goto, store
    <2>6. calls' \in 0 .. MaxCalls /\ pushed' \subseteq Keys /\ taken' \subseteq Keys /\ met' \subseteq Kinds
      BY <1>1, MarkerTypes DEF TypeOK, MarkAfterEmptied, PushReturns, Return, Goto, store
    <2> QED
      BY <2>1, <2>2, <2>3, <2>4, <2>5, <2>6 DEF TypeOK
  <1>3. StepsInv'
    BY <1>1 DEF TypeOK, StepsInv, Names, NoMarker, MarkAfterEmptied, PushReturns, Return, Goto, store
  <1>4. RoundsInv'
    BY <1>1 DEF TypeOK, StepsInv, RoundsInv, MarkAfterEmptied, PushReturns, Return, Goto, store
  <1>5. NamesInv'
    BY <1>1, MarkerTypes DEF TypeOK, StepsInv, NamesInv, Pushing, MarkAfterEmptied, PushReturns, Return, Goto, store
  <1>6. MetInv'
    BY <1>1 DEF TypeOK, MetInv, MarkAfterEmptied, PushReturns, Return, Goto, store
  <1> QED
    BY <1>2, <1>3, <1>4, <1>5, <1>6 DEF CommonInv

LEMMA MarkAgainCommon ==
    ASSUME CommonInv, NEW t \in Threads, MarkAgain(t), UNCHANGED met
    PROVE  CommonInv'
  <1>1. TypeOK /\ StepsInv /\ RoundsInv /\ NamesInv /\ MetInv
    BY DEF CommonInv
  <1>2. TypeOK'
    <2>1. /\ exists' \subseteq Keys /\ next' \in [Keys -> Names] /\ fresh' \subseteq Keys
          /\ fifo' \in BOOLEAN /\ marker' \in Markers
      BY <1>1, MarkerTypes DEF TypeOK, MarkAgain, Goto, store, frame, aux
    <2>2. pc' \in [Threads -> Steps]
      BY <1>1, MarkerTypes DEF TypeOK, Steps, MarkAgain, Goto, store, frame, aux
    <2>3. /\ before' \in [Threads -> Markers] /\ last' \in [Threads -> Names] /\ nxt' \in [Threads -> Names]
          /\ top' \in [Threads -> Names] /\ junk' \in [Threads -> Names]
      BY <1>1, MarkerTypes DEF TypeOK, MarkAgain, Goto, store, frame, aux
    <2>4. held' \in [Threads -> BOOLEAN] /\ left' \in [Threads -> 0 .. MaxCount]
      BY <1>1, MarkerTypes DEF TypeOK, MarkAgain, Goto, store, frame, aux
    <2>5. /\ job' \in [Threads -> {"push", "pop", "rem"}] /\ key' \in [Threads -> Keys]
          /\ res' \in [Threads -> Names \cup {Failed}]
      BY <1>1, MarkerTypes DEF TypeOK, MarkAgain, Goto, store, frame, aux
    <2>6. calls' \in 0 .. MaxCalls /\ pushed' \subseteq Keys /\ taken' \subseteq Keys /\ met' \subseteq Kinds
      BY <1>1, MarkerTypes DEF TypeOK, MarkAgain, Goto, store, frame, aux
    <2> QED
      BY <2>1, <2>2, <2>3, <2>4, <2>5, <2>6 DEF TypeOK
  <1>3. StepsInv'
    BY <1>1 DEF TypeOK, StepsInv, Names, NoMarker, MarkAgain, Goto, store, frame, aux
  <1>4. RoundsInv'
    BY <1>1 DEF TypeOK, StepsInv, RoundsInv, MarkAgain, Goto, store, frame, aux
  <1>5. NamesInv'
    BY <1>1, MarkerTypes DEF TypeOK, StepsInv, NamesInv, Pushing, MarkAgain, Goto, store, frame, aux
  <1>6. MetInv'
    BY <1>1 DEF TypeOK, MetInv, MarkAgain, Goto, store, frame, aux
  <1> QED
    BY <1>2, <1>3, <1>4, <1>5, <1>6 DEF CommonInv

LEMMA MarkOwnCommon ==
    ASSUME CommonInv, NEW t \in Threads, MarkOwn(t), UNCHANGED met
    PROVE  CommonInv'
  <1>1. TypeOK /\ StepsInv /\ RoundsInv /\ NamesInv /\ MetInv
    BY DEF CommonInv
  <1>2. TypeOK'
    <2>1. /\ exists' \subseteq Keys /\ next' \in [Keys -> Names] /\ fresh' \subseteq Keys
          /\ fifo' \in BOOLEAN /\ marker' \in Markers
      BY <1>1, MarkerTypes DEF TypeOK, MarkOwn, PushReturns, Return, Goto, store
    <2>2. pc' \in [Threads -> Steps]
      BY <1>1, MarkerTypes DEF TypeOK, Steps, MarkOwn, PushReturns, Return, Goto, store
    <2>3. /\ before' \in [Threads -> Markers] /\ last' \in [Threads -> Names] /\ nxt' \in [Threads -> Names]
          /\ top' \in [Threads -> Names] /\ junk' \in [Threads -> Names]
      BY <1>1, MarkerTypes DEF TypeOK, MarkOwn, PushReturns, Return, Goto, store
    <2>4. held' \in [Threads -> BOOLEAN] /\ left' \in [Threads -> 0 .. MaxCount]
      BY <1>1, MarkerTypes DEF TypeOK, MarkOwn, PushReturns, Return, Goto, store
    <2>5. /\ job' \in [Threads -> {"push", "pop", "rem"}] /\ key' \in [Threads -> Keys]
          /\ res' \in [Threads -> Names \cup {Failed}]
      BY <1>1, MarkerTypes DEF TypeOK, MarkOwn, PushReturns, Return, Goto, store
    <2>6. calls' \in 0 .. MaxCalls /\ pushed' \subseteq Keys /\ taken' \subseteq Keys /\ met' \subseteq Kinds
      BY <1>1, MarkerTypes DEF TypeOK, MarkOwn, PushReturns, Return, Goto, store
    <2> QED
      BY <2>1, <2>2, <2>3, <2>4, <2>5, <2>6 DEF TypeOK
  <1>3. StepsInv'
    BY <1>1 DEF TypeOK, StepsInv, Names, NoMarker, MarkOwn, PushReturns, Return, Goto, store
  <1>4. RoundsInv'
    BY <1>1 DEF TypeOK, StepsInv, RoundsInv, MarkOwn, PushReturns, Return, Goto, store
  <1>5. NamesInv'
    BY <1>1, MarkerTypes DEF TypeOK, StepsInv, NamesInv, Pushing, MarkOwn, PushReturns, Return, Goto, store
  <1>6. MetInv'
    BY <1>1 DEF TypeOK, MetInv, MarkOwn, PushReturns, Return, Goto, store
  <1> QED
    BY <1>2, <1>3, <1>4, <1>5, <1>6 DEF CommonInv

LEMMA MarkDeepCommon ==
    ASSUME CommonInv, NEW t \in Threads, MarkDeep(t), UNCHANGED met
    PROVE  CommonInv'
  <1>1. TypeOK /\ StepsInv /\ RoundsInv /\ NamesInv /\ MetInv
    BY DEF CommonInv
  <1>2. TypeOK'
    <2>1. /\ exists' \subseteq Keys /\ next' \in [Keys -> Names] /\ fresh' \subseteq Keys
          /\ fifo' \in BOOLEAN /\ marker' \in Markers
      BY <1>1, MarkerTypes DEF TypeOK, MarkDeep, Goto, store, aux
    <2>2. pc' \in [Threads -> Steps]
      BY <1>1, MarkerTypes DEF TypeOK, Steps, MarkDeep, Goto, store, aux
    <2>3. /\ before' \in [Threads -> Markers] /\ last' \in [Threads -> Names] /\ nxt' \in [Threads -> Names]
          /\ top' \in [Threads -> Names] /\ junk' \in [Threads -> Names]
      BY <1>1, MarkerTypes DEF TypeOK, MarkDeep, Goto, store, aux
    <2>4. held' \in [Threads -> BOOLEAN] /\ left' \in [Threads -> 0 .. MaxCount]
      BY <1>1, MarkerTypes DEF TypeOK, MarkDeep, Goto, store, aux
    <2>5. /\ job' \in [Threads -> {"push", "pop", "rem"}] /\ key' \in [Threads -> Keys]
          /\ res' \in [Threads -> Names \cup {Failed}]
      BY <1>1, MarkerTypes DEF TypeOK, MarkDeep, Goto, store, aux
    <2>6. calls' \in 0 .. MaxCalls /\ pushed' \subseteq Keys /\ taken' \subseteq Keys /\ met' \subseteq Kinds
      BY <1>1, MarkerTypes DEF TypeOK, MarkDeep, Goto, store, aux
    <2> QED
      BY <2>1, <2>2, <2>3, <2>4, <2>5, <2>6 DEF TypeOK
  <1>3. StepsInv'
    BY <1>1 DEF TypeOK, StepsInv, Names, NoMarker, MarkDeep, Goto, store, aux
  <1>4. RoundsInv'
    BY <1>1 DEF TypeOK, StepsInv, RoundsInv, MarkDeep, Goto, store, aux
  <1>5. NamesInv'
    BY <1>1, MarkerTypes DEF TypeOK, StepsInv, NamesInv, Pushing, MarkDeep, Goto, store, aux
  <1>6. MetInv'
    BY <1>1 DEF TypeOK, MetInv, MarkDeep, Goto, store, aux
  <1> QED
    BY <1>2, <1>3, <1>4, <1>5, <1>6 DEF CommonInv

LEMMA CheckQueuedCommon ==
    ASSUME CommonInv, NEW t \in Threads, CheckQueued(t), UNCHANGED met
    PROVE  CommonInv'
  <1>1. TypeOK /\ StepsInv /\ RoundsInv /\ NamesInv /\ MetInv
    BY DEF CommonInv
  <1>2. TypeOK'
    <2>1. /\ exists' \subseteq Keys /\ next' \in [Keys -> Names] /\ fresh' \subseteq Keys
          /\ fifo' \in BOOLEAN /\ marker' \in Markers
      BY <1>1, MarkerTypes DEF TypeOK, CheckQueued, PushReturns, Return, Goto, store
    <2>2. pc' \in [Threads -> Steps]
      BY <1>1, MarkerTypes DEF TypeOK, Steps, CheckQueued, PushReturns, Return, Goto, store
    <2>3. /\ before' \in [Threads -> Markers] /\ last' \in [Threads -> Names] /\ nxt' \in [Threads -> Names]
          /\ top' \in [Threads -> Names] /\ junk' \in [Threads -> Names]
      BY <1>1, MarkerTypes DEF TypeOK, CheckQueued, PushReturns, Return, Goto, store
    <2>4. held' \in [Threads -> BOOLEAN] /\ left' \in [Threads -> 0 .. MaxCount]
      BY <1>1, MarkerTypes DEF TypeOK, CheckQueued, PushReturns, Return, Goto, store
    <2>5. /\ job' \in [Threads -> {"push", "pop", "rem"}] /\ key' \in [Threads -> Keys]
          /\ res' \in [Threads -> Names \cup {Failed}]
      BY <1>1, MarkerTypes DEF TypeOK, CheckQueued, PushReturns, Return, Goto, store
    <2>6. calls' \in 0 .. MaxCalls /\ pushed' \subseteq Keys /\ taken' \subseteq Keys /\ met' \subseteq Kinds
      BY <1>1, MarkerTypes DEF TypeOK, CheckQueued, PushReturns, Return, Goto, store
    <2> QED
      BY <2>1, <2>2, <2>3, <2>4, <2>5, <2>6 DEF TypeOK
  <1>3. StepsInv'
    BY <1>1 DEF TypeOK, StepsInv, Names, NoMarker, CheckQueued, PushReturns, Return, Goto, store
  <1>4. RoundsInv'
    BY <1>1 DEF TypeOK, StepsInv, RoundsInv, CheckQueued, PushReturns, Return, Goto, store
  <1>5. NamesInv'
    BY <1>1, MarkerTypes DEF TypeOK, StepsInv, NamesInv, Pushing, CheckQueued, PushReturns, Return, Goto, store
  <1>6. MetInv'
    BY <1>1 DEF TypeOK, MetInv, CheckQueued, PushReturns, Return, Goto, store
  <1> QED
    BY <1>2, <1>3, <1>4, <1>5, <1>6 DEF CommonInv

LEMMA CheckRetriesCommon ==
    ASSUME CommonInv, NEW t \in Threads, CheckRetries(t), UNCHANGED met
    PROVE  CommonInv'
  <1>1. TypeOK /\ StepsInv /\ RoundsInv /\ NamesInv /\ MetInv
    BY DEF CommonInv
  <1>2. TypeOK'
    <2>1. /\ exists' \subseteq Keys /\ next' \in [Keys -> Names] /\ fresh' \subseteq Keys
          /\ fifo' \in BOOLEAN /\ marker' \in Markers
      BY <1>1, MarkerTypes DEF TypeOK, CheckRetries, Goto, store, frame, aux
    <2>2. pc' \in [Threads -> Steps]
      BY <1>1, MarkerTypes DEF TypeOK, Steps, CheckRetries, Goto, store, frame, aux
    <2>3. /\ before' \in [Threads -> Markers] /\ last' \in [Threads -> Names] /\ nxt' \in [Threads -> Names]
          /\ top' \in [Threads -> Names] /\ junk' \in [Threads -> Names]
      BY <1>1, MarkerTypes DEF TypeOK, CheckRetries, Goto, store, frame, aux
    <2>4. held' \in [Threads -> BOOLEAN] /\ left' \in [Threads -> 0 .. MaxCount]
      BY <1>1, MarkerTypes DEF TypeOK, CheckRetries, Goto, store, frame, aux
    <2>5. /\ job' \in [Threads -> {"push", "pop", "rem"}] /\ key' \in [Threads -> Keys]
          /\ res' \in [Threads -> Names \cup {Failed}]
      BY <1>1, MarkerTypes DEF TypeOK, CheckRetries, Goto, store, frame, aux
    <2>6. calls' \in 0 .. MaxCalls /\ pushed' \subseteq Keys /\ taken' \subseteq Keys /\ met' \subseteq Kinds
      BY <1>1, MarkerTypes DEF TypeOK, CheckRetries, Goto, store, frame, aux
    <2> QED
      BY <2>1, <2>2, <2>3, <2>4, <2>5, <2>6 DEF TypeOK
  <1>3. StepsInv'
    BY <1>1 DEF TypeOK, StepsInv, Names, NoMarker, CheckRetries, Goto, store, frame, aux
  <1>4. RoundsInv'
    BY <1>1 DEF TypeOK, StepsInv, RoundsInv, CheckRetries, Goto, store, frame, aux
  <1>5. NamesInv'
    BY <1>1, MarkerTypes DEF TypeOK, StepsInv, NamesInv, Pushing, CheckRetries, Goto, store, frame, aux
  <1>6. MetInv'
    BY <1>1 DEF TypeOK, MetInv, CheckRetries, Goto, store, frame, aux
  <1> QED
    BY <1>2, <1>3, <1>4, <1>5, <1>6 DEF CommonInv

LEMMA ReadNoneCommon ==
    ASSUME CommonInv, NEW t \in Threads, ReadNone(t), UNCHANGED met
    PROVE  CommonInv'
  <1>1. TypeOK /\ StepsInv /\ RoundsInv /\ NamesInv /\ MetInv
    BY DEF CommonInv
  <1>2. TypeOK'
    <2>1. /\ exists' \subseteq Keys /\ next' \in [Keys -> Names] /\ fresh' \subseteq Keys
          /\ fifo' \in BOOLEAN /\ marker' \in Markers
      BY <1>1, MarkerTypes DEF TypeOK, ReadNone, Return, Goto, store, aux
    <2>2. pc' \in [Threads -> Steps]
      BY <1>1, MarkerTypes DEF TypeOK, Steps, ReadNone, Return, Goto, store, aux
    <2>3. /\ before' \in [Threads -> Markers] /\ last' \in [Threads -> Names] /\ nxt' \in [Threads -> Names]
          /\ top' \in [Threads -> Names] /\ junk' \in [Threads -> Names]
      BY <1>1, MarkerTypes DEF TypeOK, ReadNone, Return, Goto, store, aux
    <2>4. held' \in [Threads -> BOOLEAN] /\ left' \in [Threads -> 0 .. MaxCount]
      BY <1>1, MarkerTypes DEF TypeOK, ReadNone, Return, Goto, store, aux
    <2>5. /\ job' \in [Threads -> {"push", "pop", "rem"}] /\ key' \in [Threads -> Keys]
          /\ res' \in [Threads -> Names \cup {Failed}]
      BY <1>1, MarkerTypes DEF TypeOK, ReadNone, Return, Goto, store, aux
    <2>6. calls' \in 0 .. MaxCalls /\ pushed' \subseteq Keys /\ taken' \subseteq Keys /\ met' \subseteq Kinds
      BY <1>1, MarkerTypes DEF TypeOK, ReadNone, Return, Goto, store, aux
    <2> QED
      BY <2>1, <2>2, <2>3, <2>4, <2>5, <2>6 DEF TypeOK
  <1>3. StepsInv'
    BY <1>1 DEF TypeOK, StepsInv, Names, NoMarker, ReadNone, Return, Goto, store, aux
  <1>4. RoundsInv'
    BY <1>1 DEF TypeOK, StepsInv, RoundsInv, ReadNone, Return, Goto, store, aux
  <1>5. NamesInv'
    BY <1>1, MarkerTypes DEF TypeOK, StepsInv, NamesInv, Pushing, ReadNone, Return, Goto, store, aux
  <1>6. MetInv'
    BY <1>1 DEF TypeOK, MetInv, ReadNone, Return, Goto, store, aux
  <1> QED
    BY <1>2, <1>3, <1>4, <1>5, <1>6 DEF CommonInv

LEMMA ReadSomeCommon ==
    ASSUME CommonInv, NEW t \in Threads, ReadSome(t), UNCHANGED met
    PROVE  CommonInv'
  <1>1. TypeOK /\ StepsInv /\ RoundsInv /\ NamesInv /\ MetInv
    BY DEF CommonInv
  <1>2. TypeOK'
    <2>1. /\ exists' \subseteq Keys /\ next' \in [Keys -> Names] /\ fresh' \subseteq Keys
          /\ fifo' \in BOOLEAN /\ marker' \in Markers
      BY <1>1, MarkerTypes DEF TypeOK, ReadSome, Goto, store, aux
    <2>2. pc' \in [Threads -> Steps]
      BY <1>1, MarkerTypes DEF TypeOK, Steps, ReadSome, Goto, store, aux
    <2>3. /\ before' \in [Threads -> Markers] /\ last' \in [Threads -> Names] /\ nxt' \in [Threads -> Names]
          /\ top' \in [Threads -> Names] /\ junk' \in [Threads -> Names]
      BY <1>1, MarkerTypes DEF TypeOK, ReadSome, Goto, store, aux
    <2>4. held' \in [Threads -> BOOLEAN] /\ left' \in [Threads -> 0 .. MaxCount]
      BY <1>1, MarkerTypes DEF TypeOK, ReadSome, Goto, store, aux
    <2>5. /\ job' \in [Threads -> {"push", "pop", "rem"}] /\ key' \in [Threads -> Keys]
          /\ res' \in [Threads -> Names \cup {Failed}]
      BY <1>1, MarkerTypes DEF TypeOK, ReadSome, Goto, store, aux
    <2>6. calls' \in 0 .. MaxCalls /\ pushed' \subseteq Keys /\ taken' \subseteq Keys /\ met' \subseteq Kinds
      BY <1>1, MarkerTypes DEF TypeOK, ReadSome, Goto, store, aux
    <2> QED
      BY <2>1, <2>2, <2>3, <2>4, <2>5, <2>6 DEF TypeOK
  <1>3. StepsInv'
    BY <1>1 DEF TypeOK, StepsInv, Names, NoMarker, ReadSome, Goto, store, aux
  <1>4. RoundsInv'
    BY <1>1 DEF TypeOK, StepsInv, RoundsInv, ReadSome, Goto, store, aux
  <1>5. NamesInv'
    BY <1>1, MarkerTypes DEF TypeOK, StepsInv, NamesInv, Pushing, ReadSome, Goto, store, aux
  <1>6. MetInv'
    BY <1>1 DEF TypeOK, MetInv, ReadSome, Goto, store, aux
  <1> QED
    BY <1>2, <1>3, <1>4, <1>5, <1>6 DEF CommonInv

LEMMA ReadNextCommon ==
    ASSUME CommonInv, NEW t \in Threads, ReadNext(t), UNCHANGED met
    PROVE  CommonInv'
  <1>1. TypeOK /\ StepsInv /\ RoundsInv /\ NamesInv /\ MetInv
    BY DEF CommonInv
  <1>2. TypeOK'
    <2>1. /\ exists' \subseteq Keys /\ next' \in [Keys -> Names] /\ fresh' \subseteq Keys
          /\ fifo' \in BOOLEAN /\ marker' \in Markers
      BY <1>1, MarkerTypes DEF TypeOK, ReadNext, Goto, store, aux
    <2>2. pc' \in [Threads -> Steps]
      BY <1>1, MarkerTypes DEF TypeOK, Steps, ReadNext, Goto, store, aux
    <2>3. /\ before' \in [Threads -> Markers] /\ last' \in [Threads -> Names] /\ nxt' \in [Threads -> Names]
          /\ top' \in [Threads -> Names] /\ junk' \in [Threads -> Names]
      BY <1>1, MarkerTypes DEF TypeOK, ReadNext, Goto, store, aux
    <2>4. held' \in [Threads -> BOOLEAN] /\ left' \in [Threads -> 0 .. MaxCount]
      BY <1>1, MarkerTypes DEF TypeOK, ReadNext, Goto, store, aux
    <2>5. /\ job' \in [Threads -> {"push", "pop", "rem"}] /\ key' \in [Threads -> Keys]
          /\ res' \in [Threads -> Names \cup {Failed}]
      BY <1>1, MarkerTypes DEF TypeOK, ReadNext, Goto, store, aux
    <2>6. calls' \in 0 .. MaxCalls /\ pushed' \subseteq Keys /\ taken' \subseteq Keys /\ met' \subseteq Kinds
      BY <1>1, MarkerTypes DEF TypeOK, ReadNext, Goto, store, aux
    <2> QED
      BY <2>1, <2>2, <2>3, <2>4, <2>5, <2>6 DEF TypeOK
  <1>3. StepsInv'
    BY <1>1 DEF TypeOK, StepsInv, Names, NoMarker, ReadNext, Goto, store, aux
  <1>4. RoundsInv'
    BY <1>1 DEF TypeOK, StepsInv, RoundsInv, ReadNext, Goto, store, aux
  <1>5. NamesInv'
    BY <1>1, MarkerTypes DEF TypeOK, StepsInv, NamesInv, Pushing, ReadNext, Goto, store, aux
  <1>6. MetInv'
    BY <1>1 DEF TypeOK, MetInv, ReadNext, Goto, store, aux
  <1> QED
    BY <1>2, <1>3, <1>4, <1>5, <1>6 DEF CommonInv

LEMMA ReadValueCommon ==
    ASSUME CommonInv, NEW t \in Threads, ReadValue(t), UNCHANGED met
    PROVE  CommonInv'
  <1>1. TypeOK /\ StepsInv /\ RoundsInv /\ NamesInv /\ MetInv
    BY DEF CommonInv
  <1>2. TypeOK'
    <2>1. /\ exists' \subseteq Keys /\ next' \in [Keys -> Names] /\ fresh' \subseteq Keys
          /\ fifo' \in BOOLEAN /\ marker' \in Markers
      BY <1>1, MarkerTypes DEF TypeOK, ReadValue, Goto, store, aux
    <2>2. pc' \in [Threads -> Steps]
      BY <1>1, MarkerTypes DEF TypeOK, Steps, ReadValue, Goto, store, aux
    <2>3. /\ before' \in [Threads -> Markers] /\ last' \in [Threads -> Names] /\ nxt' \in [Threads -> Names]
          /\ top' \in [Threads -> Names] /\ junk' \in [Threads -> Names]
      BY <1>1, MarkerTypes DEF TypeOK, ReadValue, Goto, store, aux
    <2>4. held' \in [Threads -> BOOLEAN] /\ left' \in [Threads -> 0 .. MaxCount]
      BY <1>1, MarkerTypes DEF TypeOK, ReadValue, Goto, store, aux
    <2>5. /\ job' \in [Threads -> {"push", "pop", "rem"}] /\ key' \in [Threads -> Keys]
          /\ res' \in [Threads -> Names \cup {Failed}]
      BY <1>1, MarkerTypes DEF TypeOK, ReadValue, Goto, store, aux
    <2>6. calls' \in 0 .. MaxCalls /\ pushed' \subseteq Keys /\ taken' \subseteq Keys /\ met' \subseteq Kinds
      BY <1>1, MarkerTypes DEF TypeOK, ReadValue, Goto, store, aux
    <2> QED
      BY <2>1, <2>2, <2>3, <2>4, <2>5, <2>6 DEF TypeOK
  <1>3. StepsInv'
    BY <1>1 DEF TypeOK, StepsInv, Names, NoMarker, ReadValue, Goto, store, aux
  <1>4. RoundsInv'
    BY <1>1 DEF TypeOK, StepsInv, RoundsInv, ReadValue, Goto, store, aux
  <1>5. NamesInv'
    BY <1>1, MarkerTypes DEF TypeOK, StepsInv, NamesInv, Pushing, ReadValue, Goto, store, aux
  <1>6. MetInv'
    BY <1>1 DEF TypeOK, MetInv, ReadValue, Goto, store, aux
  <1> QED
    BY <1>2, <1>3, <1>4, <1>5, <1>6 DEF CommonInv

LEMMA UnmarkCommon ==
    ASSUME CommonInv, NEW t \in Threads, Unmark(t), UNCHANGED met
    PROVE  CommonInv'
  <1>1. TypeOK /\ StepsInv /\ RoundsInv /\ NamesInv /\ MetInv
    BY DEF CommonInv
  <1>2. TypeOK'
    <2>1. /\ exists' \subseteq Keys /\ next' \in [Keys -> Names] /\ fresh' \subseteq Keys
          /\ fifo' \in BOOLEAN /\ marker' \in Markers
      BY <1>1, MarkerTypes DEF TypeOK, Unmark, Goto, frame
    <2>2. pc' \in [Threads -> Steps]
      BY <1>1, MarkerTypes DEF TypeOK, Steps, Unmark, Goto, frame
    <2>3. /\ before' \in [Threads -> Markers] /\ last' \in [Threads -> Names] /\ nxt' \in [Threads -> Names]
          /\ top' \in [Threads -> Names] /\ junk' \in [Threads -> Names]
      BY <1>1, MarkerTypes DEF TypeOK, Unmark, Goto, frame
    <2>4. held' \in [Threads -> BOOLEAN] /\ left' \in [Threads -> 0 .. MaxCount]
      BY <1>1, MarkerTypes DEF TypeOK, Unmark, Goto, frame
    <2>5. /\ job' \in [Threads -> {"push", "pop", "rem"}] /\ key' \in [Threads -> Keys]
          /\ res' \in [Threads -> Names \cup {Failed}]
      BY <1>1, MarkerTypes DEF TypeOK, Unmark, Goto, frame
    <2>6. calls' \in 0 .. MaxCalls /\ pushed' \subseteq Keys /\ taken' \subseteq Keys /\ met' \subseteq Kinds
      BY <1>1, MarkerTypes DEF TypeOK, Unmark, Goto, frame
    <2> QED
      BY <2>1, <2>2, <2>3, <2>4, <2>5, <2>6 DEF TypeOK
  <1>3. StepsInv'
    BY <1>1 DEF TypeOK, StepsInv, Names, NoMarker, Unmark, Goto, frame
  <1>4. RoundsInv'
    BY <1>1 DEF TypeOK, StepsInv, RoundsInv, Unmark, Goto, frame
  <1>5. NamesInv'
    BY <1>1, MarkerTypes DEF TypeOK, StepsInv, NamesInv, Pushing, Unmark, Goto, frame
  <1>6. MetInv'
    BY <1>1 DEF TypeOK, MetInv, Unmark, Goto, frame
  <1> QED
    BY <1>2, <1>3, <1>4, <1>5, <1>6 DEF CommonInv

LEMMA PopAgainCommon ==
    ASSUME CommonInv, NEW t \in Threads, PopAgain(t), UNCHANGED met
    PROVE  CommonInv'
  <1>1. TypeOK /\ StepsInv /\ RoundsInv /\ NamesInv /\ MetInv
    BY DEF CommonInv
  <1>2. TypeOK'
    <2>1. /\ exists' \subseteq Keys /\ next' \in [Keys -> Names] /\ fresh' \subseteq Keys
          /\ fifo' \in BOOLEAN /\ marker' \in Markers
      BY <1>1, MarkerTypes DEF TypeOK, PopAgain, Goto, store, frame, aux
    <2>2. pc' \in [Threads -> Steps]
      BY <1>1, MarkerTypes DEF TypeOK, Steps, PopAgain, Goto, store, frame, aux
    <2>3. /\ before' \in [Threads -> Markers] /\ last' \in [Threads -> Names] /\ nxt' \in [Threads -> Names]
          /\ top' \in [Threads -> Names] /\ junk' \in [Threads -> Names]
      BY <1>1, MarkerTypes DEF TypeOK, PopAgain, Goto, store, frame, aux
    <2>4. held' \in [Threads -> BOOLEAN] /\ left' \in [Threads -> 0 .. MaxCount]
      BY <1>1, MarkerTypes DEF TypeOK, PopAgain, Goto, store, frame, aux
    <2>5. /\ job' \in [Threads -> {"push", "pop", "rem"}] /\ key' \in [Threads -> Keys]
          /\ res' \in [Threads -> Names \cup {Failed}]
      BY <1>1, MarkerTypes DEF TypeOK, PopAgain, Goto, store, frame, aux
    <2>6. calls' \in 0 .. MaxCalls /\ pushed' \subseteq Keys /\ taken' \subseteq Keys /\ met' \subseteq Kinds
      BY <1>1, MarkerTypes DEF TypeOK, PopAgain, Goto, store, frame, aux
    <2> QED
      BY <2>1, <2>2, <2>3, <2>4, <2>5, <2>6 DEF TypeOK
  <1>3. StepsInv'
    BY <1>1 DEF TypeOK, StepsInv, Names, NoMarker, PopAgain, Goto, store, frame, aux
  <1>4. RoundsInv'
    BY <1>1 DEF TypeOK, StepsInv, RoundsInv, PopAgain, Goto, store, frame, aux
  <1>5. NamesInv'
    BY <1>1, MarkerTypes DEF TypeOK, StepsInv, NamesInv, Pushing, PopAgain, Goto, store, frame, aux
  <1>6. MetInv'
    BY <1>1 DEF TypeOK, MetInv, PopAgain, Goto, store, frame, aux
  <1> QED
    BY <1>2, <1>3, <1>4, <1>5, <1>6 DEF CommonInv

LEMMA RoundLostCommon ==
    ASSUME CommonInv, NEW t \in Threads, RoundLost(t), UNCHANGED met
    PROVE  CommonInv'
  <1>1. TypeOK /\ StepsInv /\ RoundsInv /\ NamesInv /\ MetInv
    BY DEF CommonInv
  <1>2. TypeOK'
    <2>1. /\ exists' \subseteq Keys /\ next' \in [Keys -> Names] /\ fresh' \subseteq Keys
          /\ fifo' \in BOOLEAN /\ marker' \in Markers
      BY <1>1, MarkerTypes DEF TypeOK, RoundLost, EndRound, Goto, store, aux
    <2>2. pc' \in [Threads -> Steps]
      BY <1>1, MarkerTypes DEF TypeOK, Steps, RoundLost, EndRound, Goto, store, aux
    <2>3. /\ before' \in [Threads -> Markers] /\ last' \in [Threads -> Names] /\ nxt' \in [Threads -> Names]
          /\ top' \in [Threads -> Names] /\ junk' \in [Threads -> Names]
      BY <1>1, MarkerTypes DEF TypeOK, RoundLost, EndRound, Goto, store, aux
    <2>4. held' \in [Threads -> BOOLEAN] /\ left' \in [Threads -> 0 .. MaxCount]
      <3>1. left' \in [Threads -> 0 .. MaxCount]
        BY <1>1, RoundTypes DEF StepsInv, RoundLost
      <3> QED
        BY <1>1, <3>1 DEF TypeOK, RoundLost, EndRound, Goto, store, aux
    <2>5. /\ job' \in [Threads -> {"push", "pop", "rem"}] /\ key' \in [Threads -> Keys]
          /\ res' \in [Threads -> Names \cup {Failed}]
      BY <1>1, MarkerTypes DEF TypeOK, RoundLost, EndRound, Goto, store, aux
    <2>6. calls' \in 0 .. MaxCalls /\ pushed' \subseteq Keys /\ taken' \subseteq Keys /\ met' \subseteq Kinds
      BY <1>1, MarkerTypes DEF TypeOK, RoundLost, EndRound, Goto, store, aux
    <2> QED
      BY <2>1, <2>2, <2>3, <2>4, <2>5, <2>6 DEF TypeOK
  <1>3. StepsInv'
    BY <1>1 DEF TypeOK, StepsInv, Names, NoMarker, RoundLost, EndRound, Goto, store, aux
  <1>4. RoundsInv'
    BY <1>1 DEF TypeOK, StepsInv, RoundsInv, RoundLost, EndRound, Goto, store, aux
  <1>5. NamesInv'
    BY <1>1, MarkerTypes DEF TypeOK, StepsInv, NamesInv, Pushing, RoundLost, EndRound, Goto, store, aux
  <1>6. MetInv'
    BY <1>1 DEF TypeOK, MetInv, RoundLost, EndRound, Goto, store, aux
  <1> QED
    BY <1>2, <1>3, <1>4, <1>5, <1>6 DEF CommonInv

LEMMA UnmarkEmptyCommon ==
    ASSUME CommonInv, NEW t \in Threads, UnmarkEmpty(t), UNCHANGED met
    PROVE  CommonInv'
  <1>1. TypeOK /\ StepsInv /\ RoundsInv /\ NamesInv /\ MetInv
    BY DEF CommonInv
  <1>2. TypeOK'
    <2>1. /\ exists' \subseteq Keys /\ next' \in [Keys -> Names] /\ fresh' \subseteq Keys
          /\ fifo' \in BOOLEAN /\ marker' \in Markers
      BY <1>1, MarkerTypes DEF TypeOK, UnmarkEmpty, Return, Goto, store, aux
    <2>2. pc' \in [Threads -> Steps]
      BY <1>1, MarkerTypes DEF TypeOK, Steps, UnmarkEmpty, Return, Goto, store, aux
    <2>3. /\ before' \in [Threads -> Markers] /\ last' \in [Threads -> Names] /\ nxt' \in [Threads -> Names]
          /\ top' \in [Threads -> Names] /\ junk' \in [Threads -> Names]
      BY <1>1, MarkerTypes DEF TypeOK, UnmarkEmpty, Return, Goto, store, aux
    <2>4. held' \in [Threads -> BOOLEAN] /\ left' \in [Threads -> 0 .. MaxCount]
      BY <1>1, MarkerTypes DEF TypeOK, UnmarkEmpty, Return, Goto, store, aux
    <2>5. /\ job' \in [Threads -> {"push", "pop", "rem"}] /\ key' \in [Threads -> Keys]
          /\ res' \in [Threads -> Names \cup {Failed}]
      BY <1>1, MarkerTypes DEF TypeOK, UnmarkEmpty, Return, Goto, store, aux
    <2>6. calls' \in 0 .. MaxCalls /\ pushed' \subseteq Keys /\ taken' \subseteq Keys /\ met' \subseteq Kinds
      BY <1>1, MarkerTypes DEF TypeOK, UnmarkEmpty, Return, Goto, store, aux
    <2> QED
      BY <2>1, <2>2, <2>3, <2>4, <2>5, <2>6 DEF TypeOK
  <1>3. StepsInv'
    BY <1>1 DEF TypeOK, StepsInv, Names, NoMarker, UnmarkEmpty, Return, Goto, store, aux
  <1>4. RoundsInv'
    BY <1>1 DEF TypeOK, StepsInv, RoundsInv, UnmarkEmpty, Return, Goto, store, aux
  <1>5. NamesInv'
    BY <1>1, MarkerTypes DEF TypeOK, StepsInv, NamesInv, Pushing, UnmarkEmpty, Return, Goto, store, aux
  <1>6. MetInv'
    BY <1>1 DEF TypeOK, MetInv, UnmarkEmpty, Return, Goto, store, aux
  <1> QED
    BY <1>2, <1>3, <1>4, <1>5, <1>6 DEF CommonInv

LEMMA DropCommon ==
    ASSUME CommonInv, NEW t \in Threads, Drop(t), UNCHANGED met
    PROVE  CommonInv'
  <1>1. TypeOK /\ StepsInv /\ RoundsInv /\ NamesInv /\ MetInv
    BY DEF CommonInv
  <1>2. TypeOK'
    <2>1. /\ exists' \subseteq Keys /\ next' \in [Keys -> Names] /\ fresh' \subseteq Keys
          /\ fifo' \in BOOLEAN /\ marker' \in Markers
      BY <1>1, MarkerTypes DEF TypeOK, Drop, Dropped, Return, Goto, aux
    <2>2. pc' \in [Threads -> Steps]
      BY <1>1, MarkerTypes DEF TypeOK, Steps, Drop, Dropped, Return, Goto, aux
    <2>3. /\ before' \in [Threads -> Markers] /\ last' \in [Threads -> Names] /\ nxt' \in [Threads -> Names]
          /\ top' \in [Threads -> Names] /\ junk' \in [Threads -> Names]
      BY <1>1, MarkerTypes DEF TypeOK, Drop, Dropped, Return, Goto, aux
    <2>4. held' \in [Threads -> BOOLEAN] /\ left' \in [Threads -> 0 .. MaxCount]
      BY <1>1, MarkerTypes, SMTT(30) DEF TypeOK, Drop, Dropped, Return, Goto, aux
    <2>5. /\ job' \in [Threads -> {"push", "pop", "rem"}] /\ key' \in [Threads -> Keys]
          /\ res' \in [Threads -> Names \cup {Failed}]
      BY <1>1, MarkerTypes DEF TypeOK, Drop, Dropped, Return, Goto, aux
    <2>6. calls' \in 0 .. MaxCalls /\ pushed' \subseteq Keys /\ taken' \subseteq Keys /\ met' \subseteq Kinds
      BY <1>1, MarkerTypes DEF TypeOK, Drop, Dropped, Return, Goto, aux
    <2> QED
      BY <2>1, <2>2, <2>3, <2>4, <2>5, <2>6 DEF TypeOK
  <1>3. StepsInv'
    BY <1>1 DEF TypeOK, StepsInv, Names, NoMarker, Drop, Dropped, Return, Goto, aux
  <1>4. RoundsInv'
    BY <1>1 DEF TypeOK, StepsInv, RoundsInv, Drop, Dropped, Return, Goto, aux
  <1>5. NamesInv'
    BY <1>1, MarkerTypes DEF TypeOK, StepsInv, NamesInv, Pushing, Drop, Dropped, Return, Goto, aux
  <1>6. MetInv'
    BY <1>1 DEF TypeOK, MetInv, Drop, Dropped, Return, Goto, aux
  <1> QED
    BY <1>2, <1>3, <1>4, <1>5, <1>6 DEF CommonInv

LEMMA DropWithValueCommon ==
    ASSUME CommonInv, NEW t \in Threads, DropWithValue(t), UNCHANGED met
    PROVE  CommonInv'
  <1>1. TypeOK /\ StepsInv /\ RoundsInv /\ NamesInv /\ MetInv
    BY DEF CommonInv
  <1>2. TypeOK'
    <2>1. /\ exists' \subseteq Keys /\ next' \in [Keys -> Names] /\ fresh' \subseteq Keys
          /\ fifo' \in BOOLEAN /\ marker' \in Markers
      BY <1>1, MarkerTypes DEF TypeOK, DropWithValue, Dropped, EndRound, Goto, aux
    <2>2. pc' \in [Threads -> Steps]
      BY <1>1, MarkerTypes DEF TypeOK, Steps, DropWithValue, Dropped, EndRound, Goto, aux
    <2>3. /\ before' \in [Threads -> Markers] /\ last' \in [Threads -> Names] /\ nxt' \in [Threads -> Names]
          /\ top' \in [Threads -> Names] /\ junk' \in [Threads -> Names]
      BY <1>1, MarkerTypes DEF TypeOK, DropWithValue, Dropped, EndRound, Goto, aux
    <2>4. held' \in [Threads -> BOOLEAN] /\ left' \in [Threads -> 0 .. MaxCount]
      <3>1. left' \in [Threads -> 0 .. MaxCount]
        BY <1>1, RoundTypes DEF StepsInv, DropWithValue
      <3> QED
        BY <1>1, <3>1 DEF TypeOK, DropWithValue, Dropped, EndRound, Goto, aux
    <2>5. /\ job' \in [Threads -> {"push", "pop", "rem"}] /\ key' \in [Threads -> Keys]
          /\ res' \in [Threads -> Names \cup {Failed}]
      BY <1>1, MarkerTypes DEF TypeOK, DropWithValue, Dropped, EndRound, Goto, aux
    <2>6. calls' \in 0 .. MaxCalls /\ pushed' \subseteq Keys /\ taken' \subseteq Keys /\ met' \subseteq Kinds
      BY <1>1, MarkerTypes DEF TypeOK, DropWithValue, Dropped, EndRound, Goto, aux
    <2> QED
      BY <2>1, <2>2, <2>3, <2>4, <2>5, <2>6 DEF TypeOK
  <1>3. StepsInv'
    BY <1>1 DEF TypeOK, StepsInv, Names, NoMarker, DropWithValue, Dropped, EndRound, Goto, aux
  <1>4. RoundsInv'
    BY <1>1 DEF TypeOK, StepsInv, RoundsInv, DropWithValue, Dropped, EndRound, Goto, aux
  <1>5. NamesInv'
    BY <1>1, MarkerTypes DEF TypeOK, StepsInv, NamesInv, Pushing, DropWithValue, Dropped, EndRound, Goto, aux
  <1>6. MetInv'
    BY <1>1 DEF TypeOK, MetInv, DropWithValue, Dropped, EndRound, Goto, aux
  <1> QED
    BY <1>2, <1>3, <1>4, <1>5, <1>6 DEF CommonInv

LEMMA RemoveTopCommon ==
    ASSUME CommonInv, NEW t \in Threads, RemoveTop(t), UNCHANGED met
    PROVE  CommonInv'
  <1>1. TypeOK /\ StepsInv /\ RoundsInv /\ NamesInv /\ MetInv
    BY DEF CommonInv
  <1>2. TypeOK'
    <2>1. /\ exists' \subseteq Keys /\ next' \in [Keys -> Names] /\ fresh' \subseteq Keys
          /\ fifo' \in BOOLEAN /\ marker' \in Markers
      BY <1>1, MarkerTypes DEF TypeOK, RemoveTop, Goto, store, frame, aux
    <2>2. pc' \in [Threads -> Steps]
      BY <1>1, MarkerTypes DEF TypeOK, Steps, RemoveTop, Goto, store, frame, aux
    <2>3. /\ before' \in [Threads -> Markers] /\ last' \in [Threads -> Names] /\ nxt' \in [Threads -> Names]
          /\ top' \in [Threads -> Names] /\ junk' \in [Threads -> Names]
      BY <1>1, MarkerTypes DEF TypeOK, RemoveTop, Goto, store, frame, aux
    <2>4. held' \in [Threads -> BOOLEAN] /\ left' \in [Threads -> 0 .. MaxCount]
      BY <1>1, MarkerTypes DEF TypeOK, RemoveTop, Goto, store, frame, aux
    <2>5. /\ job' \in [Threads -> {"push", "pop", "rem"}] /\ key' \in [Threads -> Keys]
          /\ res' \in [Threads -> Names \cup {Failed}]
      BY <1>1, MarkerTypes DEF TypeOK, RemoveTop, Goto, store, frame, aux
    <2>6. calls' \in 0 .. MaxCalls /\ pushed' \subseteq Keys /\ taken' \subseteq Keys /\ met' \subseteq Kinds
      BY <1>1, MarkerTypes DEF TypeOK, RemoveTop, Goto, store, frame, aux
    <2> QED
      BY <2>1, <2>2, <2>3, <2>4, <2>5, <2>6 DEF TypeOK
  <1>3. StepsInv'
    BY <1>1 DEF TypeOK, StepsInv, Names, NoMarker, RemoveTop, Goto, store, frame, aux
  <1>4. RoundsInv'
    BY <1>1 DEF TypeOK, StepsInv, RoundsInv, RemoveTop, Goto, store, frame, aux
  <1>5. NamesInv'
    BY <1>1, MarkerTypes DEF TypeOK, StepsInv, NamesInv, Pushing, RemoveTop, Goto, store, frame, aux
  <1>6. MetInv'
    BY <1>1 DEF TypeOK, MetInv, RemoveTop, Goto, store, frame, aux
  <1> QED
    BY <1>2, <1>3, <1>4, <1>5, <1>6 DEF CommonInv

LEMMA KeepTopCommon ==
    ASSUME CommonInv, NEW t \in Threads, KeepTop(t), UNCHANGED met
    PROVE  CommonInv'
  <1>1. TypeOK /\ StepsInv /\ RoundsInv /\ NamesInv /\ MetInv
    BY DEF CommonInv
  <1>2. TypeOK'
    <2>1. /\ exists' \subseteq Keys /\ next' \in [Keys -> Names] /\ fresh' \subseteq Keys
          /\ fifo' \in BOOLEAN /\ marker' \in Markers
      BY <1>1, MarkerTypes DEF TypeOK, KeepTop, EndRound, Goto, store, aux
    <2>2. pc' \in [Threads -> Steps]
      BY <1>1, MarkerTypes DEF TypeOK, Steps, KeepTop, EndRound, Goto, store, aux
    <2>3. /\ before' \in [Threads -> Markers] /\ last' \in [Threads -> Names] /\ nxt' \in [Threads -> Names]
          /\ top' \in [Threads -> Names] /\ junk' \in [Threads -> Names]
      BY <1>1, MarkerTypes DEF TypeOK, KeepTop, EndRound, Goto, store, aux
    <2>4. held' \in [Threads -> BOOLEAN] /\ left' \in [Threads -> 0 .. MaxCount]
      <3>1. left' \in [Threads -> 0 .. MaxCount]
        BY <1>1, RoundTypes DEF StepsInv, KeepTop
      <3> QED
        BY <1>1, <3>1 DEF TypeOK, KeepTop, EndRound, Goto, store, aux
    <2>5. /\ job' \in [Threads -> {"push", "pop", "rem"}] /\ key' \in [Threads -> Keys]
          /\ res' \in [Threads -> Names \cup {Failed}]
      BY <1>1, MarkerTypes DEF TypeOK, KeepTop, EndRound, Goto, store, aux
    <2>6. calls' \in 0 .. MaxCalls /\ pushed' \subseteq Keys /\ taken' \subseteq Keys /\ met' \subseteq Kinds
      BY <1>1, MarkerTypes DEF TypeOK, KeepTop, EndRound, Goto, store, aux
    <2> QED
      BY <2>1, <2>2, <2>3, <2>4, <2>5, <2>6 DEF TypeOK
  <1>3. StepsInv'
    BY <1>1 DEF TypeOK, StepsInv, Names, NoMarker, KeepTop, EndRound, Goto, store, aux
  <1>4. RoundsInv'
    BY <1>1 DEF TypeOK, StepsInv, RoundsInv, KeepTop, EndRound, Goto, store, aux
  <1>5. NamesInv'
    BY <1>1, MarkerTypes DEF TypeOK, StepsInv, NamesInv, Pushing, KeepTop, EndRound, Goto, store, aux
  <1>6. MetInv'
    BY <1>1 DEF TypeOK, MetInv, KeepTop, EndRound, Goto, store, aux
  <1> QED
    BY <1>2, <1>3, <1>4, <1>5, <1>6 DEF CommonInv

LEMMA RemoveAfterCommon ==
    ASSUME CommonInv, NEW t \in Threads, RemoveAfter(t), UNCHANGED met
    PROVE  CommonInv'
  <1>1. TypeOK /\ StepsInv /\ RoundsInv /\ NamesInv /\ MetInv
    BY DEF CommonInv
  <1>2. TypeOK'
    <2>1. /\ exists' \subseteq Keys /\ next' \in [Keys -> Names] /\ fresh' \subseteq Keys
          /\ fifo' \in BOOLEAN /\ marker' \in Markers
      BY <1>1, MarkerTypes DEF TypeOK, RemoveAfter, Goto, store, frame, aux
    <2>2. pc' \in [Threads -> Steps]
      BY <1>1, MarkerTypes DEF TypeOK, Steps, RemoveAfter, Goto, store, frame, aux
    <2>3. /\ before' \in [Threads -> Markers] /\ last' \in [Threads -> Names] /\ nxt' \in [Threads -> Names]
          /\ top' \in [Threads -> Names] /\ junk' \in [Threads -> Names]
      BY <1>1, MarkerTypes DEF TypeOK, RemoveAfter, Goto, store, frame, aux
    <2>4. held' \in [Threads -> BOOLEAN] /\ left' \in [Threads -> 0 .. MaxCount]
      BY <1>1, MarkerTypes DEF TypeOK, RemoveAfter, Goto, store, frame, aux
    <2>5. /\ job' \in [Threads -> {"push", "pop", "rem"}] /\ key' \in [Threads -> Keys]
          /\ res' \in [Threads -> Names \cup {Failed}]
      BY <1>1, MarkerTypes DEF TypeOK, RemoveAfter, Goto, store, frame, aux
    <2>6. calls' \in 0 .. MaxCalls /\ pushed' \subseteq Keys /\ taken' \subseteq Keys /\ met' \subseteq Kinds
      BY <1>1, MarkerTypes DEF TypeOK, RemoveAfter, Goto, store, frame, aux
    <2> QED
      BY <2>1, <2>2, <2>3, <2>4, <2>5, <2>6 DEF TypeOK
  <1>3. StepsInv'
    BY <1>1 DEF TypeOK, StepsInv, Names, NoMarker, RemoveAfter, Goto, store, frame, aux
  <1>4. RoundsInv'
    BY <1>1 DEF TypeOK, StepsInv, RoundsInv, RemoveAfter, Goto, store, frame, aux
  <1>5. NamesInv'
    BY <1>1, MarkerTypes DEF TypeOK, StepsInv, NamesInv, Pushing, RemoveAfter, Goto, store, frame, aux
  <1>6. MetInv'
    BY <1>1 DEF TypeOK, MetInv, RemoveAfter, Goto, store, frame, aux
  <1> QED
    BY <1>2, <1>3, <1>4, <1>5, <1>6 DEF CommonInv

LEMMA KeepAfterCommon ==
    ASSUME CommonInv, NEW t \in Threads, KeepAfter(t), UNCHANGED met
    PROVE  CommonInv'
  <1>1. TypeOK /\ StepsInv /\ RoundsInv /\ NamesInv /\ MetInv
    BY DEF CommonInv
  <1>2. TypeOK'
    <2>1. /\ exists' \subseteq Keys /\ next' \in [Keys -> Names] /\ fresh' \subseteq Keys
          /\ fifo' \in BOOLEAN /\ marker' \in Markers
      BY <1>1, MarkerTypes DEF TypeOK, KeepAfter, EndRound, Goto, store, aux
    <2>2. pc' \in [Threads -> Steps]
      BY <1>1, MarkerTypes DEF TypeOK, Steps, KeepAfter, EndRound, Goto, store, aux
    <2>3. /\ before' \in [Threads -> Markers] /\ last' \in [Threads -> Names] /\ nxt' \in [Threads -> Names]
          /\ top' \in [Threads -> Names] /\ junk' \in [Threads -> Names]
      BY <1>1, MarkerTypes DEF TypeOK, KeepAfter, EndRound, Goto, store, aux
    <2>4. held' \in [Threads -> BOOLEAN] /\ left' \in [Threads -> 0 .. MaxCount]
      <3>1. left' \in [Threads -> 0 .. MaxCount]
        BY <1>1, RoundTypes DEF StepsInv, KeepAfter
      <3> QED
        BY <1>1, <3>1 DEF TypeOK, KeepAfter, EndRound, Goto, store, aux
    <2>5. /\ job' \in [Threads -> {"push", "pop", "rem"}] /\ key' \in [Threads -> Keys]
          /\ res' \in [Threads -> Names \cup {Failed}]
      BY <1>1, MarkerTypes DEF TypeOK, KeepAfter, EndRound, Goto, store, aux
    <2>6. calls' \in 0 .. MaxCalls /\ pushed' \subseteq Keys /\ taken' \subseteq Keys /\ met' \subseteq Kinds
      BY <1>1, MarkerTypes DEF TypeOK, KeepAfter, EndRound, Goto, store, aux
    <2> QED
      BY <2>1, <2>2, <2>3, <2>4, <2>5, <2>6 DEF TypeOK
  <1>3. StepsInv'
    BY <1>1 DEF TypeOK, StepsInv, Names, NoMarker, KeepAfter, EndRound, Goto, store, aux
  <1>4. RoundsInv'
    BY <1>1 DEF TypeOK, StepsInv, RoundsInv, KeepAfter, EndRound, Goto, store, aux
  <1>5. NamesInv'
    BY <1>1, MarkerTypes DEF TypeOK, StepsInv, NamesInv, Pushing, KeepAfter, EndRound, Goto, store, aux
  <1>6. MetInv'
    BY <1>1 DEF TypeOK, MetInv, KeepAfter, EndRound, Goto, store, aux
  <1> QED
    BY <1>2, <1>3, <1>4, <1>5, <1>6 DEF CommonInv

LEMMA AskFailsCommon ==
    ASSUME CommonInv, NEW t \in Threads, AskFails(t), UNCHANGED met
    PROVE  CommonInv'
  <1>1. TypeOK /\ StepsInv /\ RoundsInv /\ NamesInv /\ MetInv
    BY DEF CommonInv
  <1>2. TypeOK'
    <2>1. /\ exists' \subseteq Keys /\ next' \in [Keys -> Names] /\ fresh' \subseteq Keys
          /\ fifo' \in BOOLEAN /\ marker' \in Markers
      BY <1>1, MarkerTypes DEF TypeOK, AskFails, Return, Goto, store, aux
    <2>2. pc' \in [Threads -> Steps]
      BY <1>1, MarkerTypes DEF TypeOK, Steps, AskFails, Return, Goto, store, aux
    <2>3. /\ before' \in [Threads -> Markers] /\ last' \in [Threads -> Names] /\ nxt' \in [Threads -> Names]
          /\ top' \in [Threads -> Names] /\ junk' \in [Threads -> Names]
      BY <1>1, MarkerTypes DEF TypeOK, AskFails, Return, Goto, store, aux
    <2>4. held' \in [Threads -> BOOLEAN] /\ left' \in [Threads -> 0 .. MaxCount]
      BY <1>1, MarkerTypes DEF TypeOK, AskFails, Return, Goto, store, aux
    <2>5. /\ job' \in [Threads -> {"push", "pop", "rem"}] /\ key' \in [Threads -> Keys]
          /\ res' \in [Threads -> Names \cup {Failed}]
      BY <1>1, MarkerTypes DEF TypeOK, AskFails, Return, Goto, store, aux
    <2>6. calls' \in 0 .. MaxCalls /\ pushed' \subseteq Keys /\ taken' \subseteq Keys /\ met' \subseteq Kinds
      BY <1>1, MarkerTypes DEF TypeOK, AskFails, Return, Goto, store, aux
    <2> QED
      BY <2>1, <2>2, <2>3, <2>4, <2>5, <2>6 DEF TypeOK
  <1>3. StepsInv'
    BY <1>1 DEF TypeOK, StepsInv, Names, NoMarker, AskFails, Return, Goto, store, aux
  <1>4. RoundsInv'
    BY <1>1 DEF TypeOK, StepsInv, RoundsInv, AskFails, Return, Goto, store, aux
  <1>5. NamesInv'
    BY <1>1, MarkerTypes DEF TypeOK, StepsInv, NamesInv, Pushing, AskFails, Return, Goto, store, aux
  <1>6. MetInv'
    BY <1>1 DEF TypeOK, MetInv, AskFails, Return, Goto, store, aux
  <1> QED
    BY <1>2, <1>3, <1>4, <1>5, <1>6 DEF CommonInv

LEMMA AtEndCommon ==
    ASSUME CommonInv, NEW t \in Threads, AtEnd(t), UNCHANGED met
    PROVE  CommonInv'
  <1>1. TypeOK /\ StepsInv /\ RoundsInv /\ NamesInv /\ MetInv
    BY DEF CommonInv
  <1>2. TypeOK'
    <2>1. /\ exists' \subseteq Keys /\ next' \in [Keys -> Names] /\ fresh' \subseteq Keys
          /\ fifo' \in BOOLEAN /\ marker' \in Markers
      BY <1>1, MarkerTypes DEF TypeOK, AtEnd, Return, Goto, store, aux
    <2>2. pc' \in [Threads -> Steps]
      BY <1>1, MarkerTypes DEF TypeOK, Steps, AtEnd, Return, Goto, store, aux
    <2>3. /\ before' \in [Threads -> Markers] /\ last' \in [Threads -> Names] /\ nxt' \in [Threads -> Names]
          /\ top' \in [Threads -> Names] /\ junk' \in [Threads -> Names]
      BY <1>1, MarkerTypes DEF TypeOK, AtEnd, Return, Goto, store, aux
    <2>4. held' \in [Threads -> BOOLEAN] /\ left' \in [Threads -> 0 .. MaxCount]
      BY <1>1, MarkerTypes DEF TypeOK, AtEnd, Return, Goto, store, aux
    <2>5. /\ job' \in [Threads -> {"push", "pop", "rem"}] /\ key' \in [Threads -> Keys]
          /\ res' \in [Threads -> Names \cup {Failed}]
      BY <1>1, MarkerTypes DEF TypeOK, AtEnd, Return, Goto, store, aux
    <2>6. calls' \in 0 .. MaxCalls /\ pushed' \subseteq Keys /\ taken' \subseteq Keys /\ met' \subseteq Kinds
      BY <1>1, MarkerTypes DEF TypeOK, AtEnd, Return, Goto, store, aux
    <2> QED
      BY <2>1, <2>2, <2>3, <2>4, <2>5, <2>6 DEF TypeOK
  <1>3. StepsInv'
    BY <1>1 DEF TypeOK, StepsInv, Names, NoMarker, AtEnd, Return, Goto, store, aux
  <1>4. RoundsInv'
    BY <1>1 DEF TypeOK, StepsInv, RoundsInv, AtEnd, Return, Goto, store, aux
  <1>5. NamesInv'
    BY <1>1, MarkerTypes DEF TypeOK, StepsInv, NamesInv, Pushing, AtEnd, Return, Goto, store, aux
  <1>6. MetInv'
    BY <1>1 DEF TypeOK, MetInv, AtEnd, Return, Goto, store, aux
  <1> QED
    BY <1>2, <1>3, <1>4, <1>5, <1>6 DEF CommonInv

LEMMA GoAfterCommon ==
    ASSUME CommonInv, NEW t \in Threads, GoAfter(t), UNCHANGED met
    PROVE  CommonInv'
  <1>1. TypeOK /\ StepsInv /\ RoundsInv /\ NamesInv /\ MetInv
    BY DEF CommonInv
  <1>2. TypeOK'
    <2>1. /\ exists' \subseteq Keys /\ next' \in [Keys -> Names] /\ fresh' \subseteq Keys
          /\ fifo' \in BOOLEAN /\ marker' \in Markers
      BY <1>1, MarkerTypes DEF TypeOK, GoAfter, Goto, store, frame, aux
    <2>2. pc' \in [Threads -> Steps]
      BY <1>1, MarkerTypes DEF TypeOK, Steps, GoAfter, Goto, store, frame, aux
    <2>3. /\ before' \in [Threads -> Markers] /\ last' \in [Threads -> Names] /\ nxt' \in [Threads -> Names]
          /\ top' \in [Threads -> Names] /\ junk' \in [Threads -> Names]
      BY <1>1, MarkerTypes DEF TypeOK, GoAfter, Goto, store, frame, aux
    <2>4. held' \in [Threads -> BOOLEAN] /\ left' \in [Threads -> 0 .. MaxCount]
      BY <1>1, MarkerTypes DEF TypeOK, GoAfter, Goto, store, frame, aux
    <2>5. /\ job' \in [Threads -> {"push", "pop", "rem"}] /\ key' \in [Threads -> Keys]
          /\ res' \in [Threads -> Names \cup {Failed}]
      BY <1>1, MarkerTypes DEF TypeOK, GoAfter, Goto, store, frame, aux
    <2>6. calls' \in 0 .. MaxCalls /\ pushed' \subseteq Keys /\ taken' \subseteq Keys /\ met' \subseteq Kinds
      BY <1>1, MarkerTypes DEF TypeOK, GoAfter, Goto, store, frame, aux
    <2> QED
      BY <2>1, <2>2, <2>3, <2>4, <2>5, <2>6 DEF TypeOK
  <1>3. StepsInv'
    BY <1>1 DEF TypeOK, StepsInv, Names, NoMarker, GoAfter, Goto, store, frame, aux
  <1>4. RoundsInv'
    BY <1>1 DEF TypeOK, StepsInv, RoundsInv, GoAfter, Goto, store, frame, aux
  <1>5. NamesInv'
    BY <1>1, MarkerTypes DEF TypeOK, StepsInv, NamesInv, Pushing, GoAfter, Goto, store, frame, aux
  <1>6. MetInv'
    BY <1>1 DEF TypeOK, MetInv, GoAfter, Goto, store, frame, aux
  <1> QED
    BY <1>2, <1>3, <1>4, <1>5, <1>6 DEF CommonInv

LEMMA ReadAfterCommon ==
    ASSUME CommonInv, NEW t \in Threads, ReadAfter(t), UNCHANGED met
    PROVE  CommonInv'
  <1>1. TypeOK /\ StepsInv /\ RoundsInv /\ NamesInv /\ MetInv
    BY DEF CommonInv
  <1>2. TypeOK'
    <2>1. /\ exists' \subseteq Keys /\ next' \in [Keys -> Names] /\ fresh' \subseteq Keys
          /\ fifo' \in BOOLEAN /\ marker' \in Markers
      BY <1>1, MarkerTypes DEF TypeOK, ReadAfter, Goto, store, aux
    <2>2. pc' \in [Threads -> Steps]
      BY <1>1, MarkerTypes DEF TypeOK, Steps, ReadAfter, Goto, store, aux
    <2>3. /\ before' \in [Threads -> Markers] /\ last' \in [Threads -> Names] /\ nxt' \in [Threads -> Names]
          /\ top' \in [Threads -> Names] /\ junk' \in [Threads -> Names]
      BY <1>1, MarkerTypes DEF TypeOK, ReadAfter, Goto, store, aux
    <2>4. held' \in [Threads -> BOOLEAN] /\ left' \in [Threads -> 0 .. MaxCount]
      BY <1>1, MarkerTypes DEF TypeOK, ReadAfter, Goto, store, aux
    <2>5. /\ job' \in [Threads -> {"push", "pop", "rem"}] /\ key' \in [Threads -> Keys]
          /\ res' \in [Threads -> Names \cup {Failed}]
      BY <1>1, MarkerTypes DEF TypeOK, ReadAfter, Goto, store, aux
    <2>6. calls' \in 0 .. MaxCalls /\ pushed' \subseteq Keys /\ taken' \subseteq Keys /\ met' \subseteq Kinds
      BY <1>1, MarkerTypes DEF TypeOK, ReadAfter, Goto, store, aux
    <2> QED
      BY <2>1, <2>2, <2>3, <2>4, <2>5, <2>6 DEF TypeOK
  <1>3. StepsInv'
    BY <1>1 DEF TypeOK, StepsInv, Names, NoMarker, ReadAfter, Goto, store, aux
  <1>4. RoundsInv'
    BY <1>1 DEF TypeOK, StepsInv, RoundsInv, ReadAfter, Goto, store, aux
  <1>5. NamesInv'
    BY <1>1, MarkerTypes DEF TypeOK, StepsInv, NamesInv, Pushing, ReadAfter, Goto, store, aux
  <1>6. MetInv'
    BY <1>1 DEF TypeOK, MetInv, ReadAfter, Goto, store, aux
  <1> QED
    BY <1>2, <1>3, <1>4, <1>5, <1>6 DEF CommonInv

LEMMA AfterLastCommon ==
    ASSUME CommonInv, NEW t \in Threads, AfterLast(t), UNCHANGED met
    PROVE  CommonInv'
  <1>1. TypeOK /\ StepsInv /\ RoundsInv /\ NamesInv /\ MetInv
    BY DEF CommonInv
  <1>2. TypeOK'
    <2>1. /\ exists' \subseteq Keys /\ next' \in [Keys -> Names] /\ fresh' \subseteq Keys
          /\ fifo' \in BOOLEAN /\ marker' \in Markers
      BY <1>1, MarkerTypes DEF TypeOK, AfterLast, Return, Goto, store, aux
    <2>2. pc' \in [Threads -> Steps]
      BY <1>1, MarkerTypes DEF TypeOK, Steps, AfterLast, Return, Goto, store, aux
    <2>3. /\ before' \in [Threads -> Markers] /\ last' \in [Threads -> Names] /\ nxt' \in [Threads -> Names]
          /\ top' \in [Threads -> Names] /\ junk' \in [Threads -> Names]
      BY <1>1, MarkerTypes DEF TypeOK, AfterLast, Return, Goto, store, aux
    <2>4. held' \in [Threads -> BOOLEAN] /\ left' \in [Threads -> 0 .. MaxCount]
      BY <1>1, MarkerTypes DEF TypeOK, AfterLast, Return, Goto, store, aux
    <2>5. /\ job' \in [Threads -> {"push", "pop", "rem"}] /\ key' \in [Threads -> Keys]
          /\ res' \in [Threads -> Names \cup {Failed}]
      BY <1>1, MarkerTypes DEF TypeOK, AfterLast, Return, Goto, store, aux
    <2>6. calls' \in 0 .. MaxCalls /\ pushed' \subseteq Keys /\ taken' \subseteq Keys /\ met' \subseteq Kinds
      BY <1>1, MarkerTypes DEF TypeOK, AfterLast, Return, Goto, store, aux
    <2> QED
      BY <2>1, <2>2, <2>3, <2>4, <2>5, <2>6 DEF TypeOK
  <1>3. StepsInv'
    BY <1>1 DEF TypeOK, StepsInv, Names, NoMarker, AfterLast, Return, Goto, store, aux
  <1>4. RoundsInv'
    BY <1>1 DEF TypeOK, StepsInv, RoundsInv, AfterLast, Return, Goto, store, aux
  <1>5. NamesInv'
    BY <1>1, MarkerTypes DEF TypeOK, StepsInv, NamesInv, Pushing, AfterLast, Return, Goto, store, aux
  <1>6. MetInv'
    BY <1>1 DEF TypeOK, MetInv, AfterLast, Return, Goto, store, aux
  <1> QED
    BY <1>2, <1>3, <1>4, <1>5, <1>6 DEF CommonInv

LEMMA StopCuttingCommon ==
    ASSUME CommonInv, NEW t \in Threads, StopCutting(t), UNCHANGED met
    PROVE  CommonInv'
  <1>1. TypeOK /\ StepsInv /\ RoundsInv /\ NamesInv /\ MetInv
    BY DEF CommonInv
  <1>2. TypeOK'
    <2>1. /\ exists' \subseteq Keys /\ next' \in [Keys -> Names] /\ fresh' \subseteq Keys
          /\ fifo' \in BOOLEAN /\ marker' \in Markers
      BY <1>1, MarkerTypes DEF TypeOK, StopCutting, Return, Goto, store, aux
    <2>2. pc' \in [Threads -> Steps]
      BY <1>1, MarkerTypes DEF TypeOK, Steps, StopCutting, Return, Goto, store, aux
    <2>3. /\ before' \in [Threads -> Markers] /\ last' \in [Threads -> Names] /\ nxt' \in [Threads -> Names]
          /\ top' \in [Threads -> Names] /\ junk' \in [Threads -> Names]
      BY <1>1, MarkerTypes DEF TypeOK, StopCutting, Return, Goto, store, aux
    <2>4. held' \in [Threads -> BOOLEAN] /\ left' \in [Threads -> 0 .. MaxCount]
      BY <1>1, MarkerTypes DEF TypeOK, StopCutting, Return, Goto, store, aux
    <2>5. /\ job' \in [Threads -> {"push", "pop", "rem"}] /\ key' \in [Threads -> Keys]
          /\ res' \in [Threads -> Names \cup {Failed}]
      BY <1>1, MarkerTypes DEF TypeOK, StopCutting, Return, Goto, store, aux
    <2>6. calls' \in 0 .. MaxCalls /\ pushed' \subseteq Keys /\ taken' \subseteq Keys /\ met' \subseteq Kinds
      BY <1>1, MarkerTypes DEF TypeOK, StopCutting, Return, Goto, store, aux
    <2> QED
      BY <2>1, <2>2, <2>3, <2>4, <2>5, <2>6 DEF TypeOK
  <1>3. StepsInv'
    BY <1>1 DEF TypeOK, StepsInv, Names, NoMarker, StopCutting, Return, Goto, store, aux
  <1>4. RoundsInv'
    BY <1>1 DEF TypeOK, StepsInv, RoundsInv, StopCutting, Return, Goto, store, aux
  <1>5. NamesInv'
    BY <1>1, MarkerTypes DEF TypeOK, StepsInv, NamesInv, Pushing, StopCutting, Return, Goto, store, aux
  <1>6. MetInv'
    BY <1>1 DEF TypeOK, MetInv, StopCutting, Return, Goto, store, aux
  <1> QED
    BY <1>2, <1>3, <1>4, <1>5, <1>6 DEF CommonInv

LEMMA RoundsOverCommon ==
    ASSUME CommonInv, NEW t \in Threads, RoundsOver(t), UNCHANGED met
    PROVE  CommonInv'
  <1>1. TypeOK /\ StepsInv /\ RoundsInv /\ NamesInv /\ MetInv
    BY DEF CommonInv
  <1>2. TypeOK'
    <2>1. /\ exists' \subseteq Keys /\ next' \in [Keys -> Names] /\ fresh' \subseteq Keys
          /\ fifo' \in BOOLEAN /\ marker' \in Markers
      BY <1>1, MarkerTypes DEF TypeOK, RoundsOver, Return, Goto, store, aux
    <2>2. pc' \in [Threads -> Steps]
      BY <1>1, MarkerTypes DEF TypeOK, Steps, RoundsOver, Return, Goto, store, aux
    <2>3. /\ before' \in [Threads -> Markers] /\ last' \in [Threads -> Names] /\ nxt' \in [Threads -> Names]
          /\ top' \in [Threads -> Names] /\ junk' \in [Threads -> Names]
      BY <1>1, MarkerTypes DEF TypeOK, RoundsOver, Return, Goto, store, aux
    <2>4. held' \in [Threads -> BOOLEAN] /\ left' \in [Threads -> 0 .. MaxCount]
      BY <1>1, MarkerTypes DEF TypeOK, RoundsOver, Return, Goto, store, aux
    <2>5. /\ job' \in [Threads -> {"push", "pop", "rem"}] /\ key' \in [Threads -> Keys]
          /\ res' \in [Threads -> Names \cup {Failed}]
      BY <1>1, MarkerTypes DEF TypeOK, RoundsOver, Return, Goto, store, aux
    <2>6. calls' \in 0 .. MaxCalls /\ pushed' \subseteq Keys /\ taken' \subseteq Keys /\ met' \subseteq Kinds
      BY <1>1, MarkerTypes DEF TypeOK, RoundsOver, Return, Goto, store, aux
    <2> QED
      BY <2>1, <2>2, <2>3, <2>4, <2>5, <2>6 DEF TypeOK
  <1>3. StepsInv'
    BY <1>1 DEF TypeOK, StepsInv, Names, NoMarker, RoundsOver, Return, Goto, store, aux
  <1>4. RoundsInv'
    BY <1>1 DEF TypeOK, StepsInv, RoundsInv, RoundsOver, Return, Goto, store, aux
  <1>5. NamesInv'
    BY <1>1, MarkerTypes DEF TypeOK, StepsInv, NamesInv, Pushing, RoundsOver, Return, Goto, store, aux
  <1>6. MetInv'
    BY <1>1 DEF TypeOK, MetInv, RoundsOver, Return, Goto, store, aux
  <1> QED
    BY <1>2, <1>3, <1>4, <1>5, <1>6 DEF CommonInv

-----------------------------------------------------------------------------
\* The parts of LineInv that are about the keys of the line and the last of them,
\* action by action.

\* What the steps need to know of the line.
LineSet(in, end) ==
    /\ in \subseteq Keys /\ in \subseteq exists
    /\ marker.start = NoKey <=> in = {}
    /\ marker.start # NoKey =>
         /\ marker.start \in in
         /\ end \in in /\ next[end] = NoKey
         /\ \A k \in in : k # end => next[k] \in in

PartsInv(in, end) == KeysInv(in) /\ EndInv(end) /\ CallsInv(in, end)

\* The frames of the other threads stay as they are.
Others(t) ==
    \A u \in Threads \ {t} :
        /\ pc'[u] = pc[u] /\ job'[u] = job[u] /\ key'[u] = key[u]
        /\ before'[u] = before[u] /\ nxt'[u] = nxt[u] /\ top'[u] = top[u] /\ held'[u] = held[u]

\* A push that overlaps with another, or with a call that takes keys.
LEMMA Meetings ==
    ASSUME NEW m, NEW a \in {"push", "pop", "rem"}, NEW b \in {"push", "pop", "rem"}, {a, b} \in m
    PROVE  /\ a = "push" /\ b = "push" => {"push"} \in m
           /\ m \subseteq Harmless /\ a = "push" => b = "push" /\ fifo
  <1>1. a = "push" /\ b = "push" => {a, b} = {"push"}
    OBVIOUS
  <1>2. ASSUME m \subseteq Harmless
        PROVE  {a, b} \in {{"pop"}, {"rem"}, {"pop", "rem"}} \/ (fifo /\ {a, b} = {"push"})
    BY <1>2 DEF Harmless
  <1>3. a = "push" => {a, b} # {"pop"} /\ {a, b} # {"rem"} /\ {a, b} # {"pop", "rem"}
    OBVIOUS
  <1>4. {a, b} = {"push"} => b = "push"
    OBVIOUS
  <1> QED
    BY <1>1, <1>2, <1>3, <1>4, Zenon

\* Calls that overlap while those that need it are kept apart.
LEMMA Overlaps ==
    ASSUME CommonInv, NEW t \in Threads, NEW u \in Threads, t # u, Pushing(t), pc[u] # "idle"
    PROVE  /\ ~mixed => Pushing(u) /\ fifo
           /\ Pushing(u) => {"push"} \in met
  <1>1. {job[t], job[u]} \in met /\ job[t] = "push"
        /\ job[t] \in {"push", "pop", "rem"} /\ job[u] \in {"push", "pop", "rem"}
    BY DEF CommonInv, MetInv, TypeOK, Pushing
  <1> QED
    BY <1>1, Meetings DEF mixed, Pushing

\* A step that changes nothing but the frame of one thread.
LEMMA QuietParts ==
    ASSUME NEW in, NEW end, PartsInv(in, end), NEW t \in Threads,
           UNCHANGED <<store, aux, met>>, Others(t),
           Linked(t) => Linked(t)',
           Pushing(t)' => PushInv(t, in, end)',
           Taking(t)' => TakeInv(t)'
    PROVE  PartsInv(in, end)'
  <1>1. /\ marker' = marker /\ exists' = exists /\ next' = next /\ fresh' = fresh /\ fifo' = fifo
        /\ pushed' = pushed /\ taken' = taken /\ met' = met /\ GetMarker' = GetMarker /\ mixed' = mixed
    BY DEF store, aux, GetMarker, mixed, Harmless
  <1>2. KeysInv(in)'
    BY <1>1 DEF PartsInv, KeysInv
  <1>3. \A u \in Threads : Linked(u) => Linked(u)'
    BY <1>1 DEF Others, Linked
  <1>4. EndInv(end)'
    BY <1>1, <1>3 DEF PartsInv, EndInv
  <1>5. ASSUME NEW u \in Threads \ {t}
        PROVE  /\ Pushing(u)' => PushInv(u, in, end)'
               /\ Taking(u)' => TakeInv(u)'
    <2>1. /\ Linked(u)' = Linked(u) /\ Pushing(u)' = Pushing(u) /\ Taking(u)' = Taking(u)
          /\ pc'[u] = pc[u] /\ key'[u] = key[u] /\ before'[u] = before[u]
          /\ nxt'[u] = nxt[u] /\ top'[u] = top[u] /\ held'[u] = held[u]
      BY <1>1 DEF Others, Linked, Pushing, Taking
    <2>2. PushInv(u, in, end)' = PushInv(u, in, end)
      BY <1>1, <2>1 DEF PushInv
    <2>3. TakeInv(u)' = TakeInv(u)
      BY <1>1, <2>1 DEF TakeInv
    <2> QED
      BY <2>1, <2>2, <2>3 DEF PartsInv, CallsInv
  <1> QED
    BY <1>2, <1>4, <1>5 DEF PartsInv, CallsInv

LEMMA ReadMarkerParts ==
    ASSUME CommonInv, NEW in, NEW end, LineSet(in, end), PartsInv(in, end), PushesApart,
           NEW t \in Threads, ReadMarker(t), UNCHANGED met
    PROVE  PartsInv(in, end)'
  <1>1. UNCHANGED <<store, aux, met>>
    BY DEF ReadMarker, Goto, store, aux
  <1>2. Others(t)
    BY DEF CommonInv, TypeOK, Others, ReadMarker, Goto, store, aux
  <1>3. Linked(t) => Linked(t)'
    BY DEF Linked, CommonInv, StepsInv, ReadMarker, Goto, store, aux
  <1>4. ~Taking(t)'
    BY DEF CommonInv, TypeOK, StepsInv, Taking, ReadMarker, Goto, store, aux
  <1>5. Pushing(t)' => PushInv(t, in, end)'
    <2>1. /\ PushInv(t, in, end) /\ ~Linked(t) /\ ~Linked(t)'
          /\ (Linked(t))' <=> (pc'[t] = "mark" /\ fifo /\ before'[t] # NoMarker)
      BY DEF CommonInv, TypeOK, Pushing, PartsInv, CallsInv, Linked, ReadMarker, store, Goto
    <2>2. /\ marker' = marker /\ exists' = exists /\ next' = next /\ fifo' = fifo
          /\ key' = key /\ taken' = taken /\ met' = met /\ pushed' = pushed
          /\ before'[t] = GetMarker
          /\ pc'[t] = IF ~fifo THEN "set" ELSE IF GetMarker = NoMarker THEN "mark" ELSE "link"
          /\ pc[t] = "read" /\ mixed' = mixed /\ GetMarker' = GetMarker
      BY DEF CommonInv, TypeOK, ReadMarker, store, aux, Goto, mixed, Harmless, GetMarker
    <2>3. GetMarker # NoMarker => marker.start # NoKey /\ GetMarker = marker
      BY DEF GetMarker
    <2>4. ASSUME ~mixed, fifo, marker.start # NoKey
          PROVE  marker.end \in in \cap pushed
      <3>1. /\ marker.end \in pushed
            /\ marker.end = end \/ \E u \in Threads : Linked(u)
        BY <2>4 DEF PartsInv, EndInv
      <3>2. marker.end = end => marker.end \in in
        BY <2>4 DEF LineSet
      <3>3. ASSUME NEW u \in Threads, Linked(u)
            PROVE  marker.end \in in
        <4>1. Pushing(u)
          BY <3>3 DEF CommonInv, StepsInv, Pushing, Linked
        <4>2. PushInv(u, in, end)
          BY <4>1 DEF PartsInv, CallsInv
        <4> QED
          BY <2>4, <3>3, <4>2 DEF PushInv
      <3> QED
        BY <3>1, <3>2, <3>3
    <2> QED
      BY <2>1, <2>2, <2>3, <2>4 DEF PushInv
  <1> QED
    BY <1>1, <1>2, <1>3, <1>4, <1>5, QuietParts

LEMMA LinkTakenParts ==
    ASSUME CommonInv, NEW in, NEW end, LineSet(in, end), PartsInv(in, end), PushesApart,
           NEW t \in Threads, LinkTaken(t), UNCHANGED met
    PROVE  PartsInv(in, end)'
  <1>1. UNCHANGED <<store, aux, met>>
    BY DEF LinkTaken, Goto, store, aux
  <1>2. Others(t)
    BY DEF CommonInv, TypeOK, Others, LinkTaken, Goto, store, aux
  <1>3. Linked(t) => Linked(t)'
    BY DEF Linked, CommonInv, StepsInv, LinkTaken, Goto, store, aux
  <1>4. ~Taking(t)'
    BY DEF CommonInv, TypeOK, StepsInv, Taking, LinkTaken, Goto, store, aux
  <1>5. Pushing(t)' => PushInv(t, in, end)'
    BY DEF CommonInv, TypeOK, StepsInv, Pushing, PartsInv, CallsInv, PushInv, EndInv, Linked, PushesApart, mixed, Harmless, LinkTaken, Goto, store, aux
  <1> QED
    BY <1>1, <1>2, <1>3, <1>4, <1>5, QuietParts

LEMMA LinkFailsParts ==
    ASSUME CommonInv, NEW in, NEW end, LineSet(in, end), PartsInv(in, end), PushesApart,
           NEW t \in Threads, LinkFails(t), UNCHANGED met
    PROVE  PartsInv(in, end)'
  <1>1. UNCHANGED <<store, aux, met>>
    BY DEF LinkFails, Return, Goto, store, aux
  <1>2. Others(t)
    BY DEF CommonInv, TypeOK, Others, LinkFails, Return, Goto, store, aux
  <1>3. Linked(t) => Linked(t)'
    BY DEF Linked, CommonInv, StepsInv, LinkFails, Return, Goto, store, aux
  <1>4. ~Taking(t)'
    BY DEF CommonInv, TypeOK, StepsInv, Taking, LinkFails, Return, Goto, store, aux
  <1>5. Pushing(t)' => PushInv(t, in, end)'
    BY DEF CommonInv, TypeOK, StepsInv, Pushing, PartsInv, CallsInv, PushInv, EndInv, Linked, PushesApart, mixed, Harmless, LinkFails, Return, Goto, store, aux
  <1> QED
    BY <1>1, <1>2, <1>3, <1>4, <1>5, QuietParts

LEMMA LinkRetriesParts ==
    ASSUME CommonInv, NEW in, NEW end, LineSet(in, end), PartsInv(in, end), PushesApart,
           NEW t \in Threads, LinkRetries(t), UNCHANGED met
    PROVE  PartsInv(in, end)'
  <1>1. UNCHANGED <<store, aux, met>>
    BY DEF LinkRetries, Goto, store, aux
  <1>2. Others(t)
    BY DEF CommonInv, TypeOK, Others, LinkRetries, Goto, store, aux
  <1>3. Linked(t) => Linked(t)'
    BY DEF Linked, CommonInv, StepsInv, LinkRetries, Goto, store, aux
  <1>4. ~Taking(t)'
    BY DEF CommonInv, TypeOK, StepsInv, Taking, LinkRetries, Goto, store, aux
  <1>5. Pushing(t)' => PushInv(t, in, end)'
    BY DEF CommonInv, TypeOK, StepsInv, Pushing, PartsInv, CallsInv, PushInv, EndInv, Linked, PushesApart, mixed, Harmless, LinkRetries, Goto, store, aux
  <1> QED
    BY <1>1, <1>2, <1>3, <1>4, <1>5, QuietParts

LEMMA MarkAgainParts ==
    ASSUME CommonInv, NEW in, NEW end, LineSet(in, end), PartsInv(in, end), PushesApart,
           NEW t \in Threads, MarkAgain(t), UNCHANGED met
    PROVE  PartsInv(in, end)'
  <1>1. UNCHANGED <<store, aux, met>>
    BY DEF MarkAgain, Goto, store, frame, aux
  <1>2. Others(t)
    BY DEF CommonInv, TypeOK, Others, MarkAgain, Goto, store, frame, aux
  <1>3. Linked(t) => Linked(t)'
    BY DEF Linked, CommonInv, StepsInv, MarkAgain, Goto, store, frame, aux
  <1>4. ~Taking(t)'
    BY DEF CommonInv, TypeOK, StepsInv, Taking, MarkAgain, Goto, store, frame, aux
  <1>5. Pushing(t)' => PushInv(t, in, end)'
    BY DEF CommonInv, TypeOK, StepsInv, Pushing, PartsInv, CallsInv, PushInv, EndInv, Linked, PushesApart, mixed, Harmless, MarkAgain, Goto, store, frame, aux
  <1> QED
    BY <1>1, <1>2, <1>3, <1>4, <1>5, QuietParts

LEMMA ReadNoneParts ==
    ASSUME CommonInv, NEW in, NEW end, LineSet(in, end), PartsInv(in, end), PushesApart,
           NEW t \in Threads, ReadNone(t), UNCHANGED met
    PROVE  PartsInv(in, end)'
  <1>1. UNCHANGED <<store, aux, met>>
    BY DEF ReadNone, Return, Goto, store, aux
  <1>2. Others(t)
    BY DEF CommonInv, TypeOK, Others, ReadNone, Return, Goto, store, aux
  <1>3. Linked(t) => Linked(t)'
    BY DEF Linked, CommonInv, StepsInv, ReadNone, Return, Goto, store, aux
  <1>4. ~Pushing(t)'
    BY DEF CommonInv, TypeOK, StepsInv, Pushing, ReadNone, Return, Goto, store, aux
  <1>5. Taking(t)' => TakeInv(t)'
    BY MarkerTypes DEF CommonInv, TypeOK, StepsInv, Taking, PartsInv, CallsInv, TakeInv, GetMarker, NoMarker, mixed, Harmless, ReadNone, Return, Goto, store, aux
  <1> QED
    BY <1>1, <1>2, <1>3, <1>4, <1>5, QuietParts

LEMMA ReadSomeParts ==
    ASSUME CommonInv, NEW in, NEW end, LineSet(in, end), PartsInv(in, end), PushesApart,
           NEW t \in Threads, ReadSome(t), UNCHANGED met
    PROVE  PartsInv(in, end)'
  <1>1. UNCHANGED <<store, aux, met>>
    BY DEF ReadSome, Goto, store, aux
  <1>2. Others(t)
    BY DEF CommonInv, TypeOK, Others, ReadSome, Goto, store, aux
  <1>3. Linked(t) => Linked(t)'
    BY DEF Linked, CommonInv, StepsInv, ReadSome, Goto, store, aux
  <1>4. ~Pushing(t)'
    BY DEF CommonInv, TypeOK, StepsInv, Pushing, ReadSome, Goto, store, aux
  <1>5. Taking(t)' => TakeInv(t)'
    BY MarkerTypes DEF CommonInv, TypeOK, StepsInv, Taking, PartsInv, CallsInv, TakeInv, GetMarker, NoMarker, mixed, Harmless, ReadSome, Goto, store, aux
  <1> QED
    BY <1>1, <1>2, <1>3, <1>4, <1>5, QuietParts

LEMMA ReadNextParts ==
    ASSUME CommonInv, NEW in, NEW end, LineSet(in, end), PartsInv(in, end), PushesApart,
           NEW t \in Threads, ReadNext(t), UNCHANGED met
    PROVE  PartsInv(in, end)'
  <1>1. UNCHANGED <<store, aux, met>>
    BY DEF ReadNext, Goto, store, aux
  <1>2. Others(t)
    BY DEF CommonInv, TypeOK, Others, ReadNext, Goto, store, aux
  <1>3. Linked(t) => Linked(t)'
    BY DEF Linked, CommonInv, StepsInv, ReadNext, Goto, store, aux
  <1>4. ~Pushing(t)'
    BY DEF CommonInv, TypeOK, StepsInv, Pushing, ReadNext, Goto, store, aux
  <1>5. Taking(t)' => TakeInv(t)'
    <2>1. /\ marker' = marker /\ next' = next /\ taken' = taken /\ mixed' = mixed
          /\ pc[t] = "next" /\ pc'[t] = "value" /\ top'[t] = top[t] /\ before'[t] = before[t]
          /\ nxt'[t] = SubKey(before[t].start)
      BY DEF CommonInv, TypeOK, ReadNext, store, aux, Goto, mixed, Harmless
    <2>2. top[t] = NoKey /\ Taking(t)
      BY <2>1 DEF CommonInv, StepsInv, Taking
    <2>3. /\ before[t].start \in Keys
          /\ before[t].start = marker.start \/ before[t].start \in taken
      BY <2>1, <2>2 DEF PartsInv, CallsInv, TakeInv
    <2>4. before[t].start = marker.start => marker.start \in exists
      BY <2>3, QueueAssumption DEF LineSet
    <2> QED
      BY <2>1, <2>3, <2>4 DEF TakeInv, SubKey
  <1> QED
    BY <1>1, <1>2, <1>3, <1>4, <1>5, QuietParts

LEMMA ReadValueParts ==
    ASSUME CommonInv, NEW in, NEW end, LineSet(in, end), PartsInv(in, end), PushesApart,
           NEW t \in Threads, ReadValue(t), UNCHANGED met
    PROVE  PartsInv(in, end)'
  <1>1. UNCHANGED <<store, aux, met>>
    BY DEF ReadValue, Goto, store, aux
  <1>2. Others(t)
    BY DEF CommonInv, TypeOK, Others, ReadValue, Goto, store, aux
  <1>3. Linked(t) => Linked(t)'
    BY DEF Linked, CommonInv, StepsInv, ReadValue, Goto, store, aux
  <1>4. ~Pushing(t)'
    BY DEF CommonInv, TypeOK, StepsInv, Pushing, ReadValue, Goto, store, aux
  <1>5. Taking(t)' => TakeInv(t)'
    <2>1. /\ marker' = marker /\ next' = next /\ taken' = taken /\ mixed' = mixed
          /\ pc[t] = "value" /\ pc'[t] \in {"ask", "unmark", "cut"}
          /\ top'[t] = top[t] /\ before'[t] = before[t] /\ nxt'[t] = nxt[t]
          /\ pc'[t] = "unmark" => top[t] = NoKey
          /\ top[t] = NoKey => held'[t] = (before[t].start \in exists)
      BY DEF CommonInv, TypeOK, ReadValue, store, aux, Goto, mixed, Harmless
    <2>2. Taking(t)
      BY <2>1 DEF CommonInv, StepsInv, Taking
    <2>3. top[t] = NoKey =>
             /\ before[t].start \in Keys
             /\ before[t].start = marker.start \/ before[t].start \in taken
             /\ before[t].start = marker.start => /\ nxt[t] \in {NoKey, next[marker.start]}
                                                  /\ ~mixed => nxt[t] = next[marker.start]
      BY <2>1, <2>2 DEF PartsInv, CallsInv, TakeInv
    <2>4. top[t] = NoKey /\ before[t].start = marker.start => held'[t]
      BY <2>1, <2>3, QueueAssumption DEF LineSet
    <2> QED
      BY <2>1, <2>3, <2>4 DEF TakeInv
  <1> QED
    BY <1>1, <1>2, <1>3, <1>4, <1>5, QuietParts

LEMMA PopAgainParts ==
    ASSUME CommonInv, NEW in, NEW end, LineSet(in, end), PartsInv(in, end), PushesApart,
           NEW t \in Threads, PopAgain(t), UNCHANGED met
    PROVE  PartsInv(in, end)'
  <1>1. UNCHANGED <<store, aux, met>>
    BY DEF PopAgain, Goto, store, frame, aux
  <1>2. Others(t)
    BY DEF CommonInv, TypeOK, Others, PopAgain, Goto, store, frame, aux
  <1>3. Linked(t) => Linked(t)'
    BY DEF Linked, CommonInv, StepsInv, PopAgain, Goto, store, frame, aux
  <1>4. ~Pushing(t)'
    BY DEF CommonInv, TypeOK, StepsInv, Pushing, PopAgain, Goto, store, frame, aux
  <1>5. Taking(t)' => TakeInv(t)'
    BY MarkerTypes DEF CommonInv, TypeOK, StepsInv, Taking, PartsInv, CallsInv, TakeInv, GetMarker, NoMarker, mixed, Harmless, PopAgain, Goto, store, frame, aux
  <1> QED
    BY <1>1, <1>2, <1>3, <1>4, <1>5, QuietParts

LEMMA RoundLostParts ==
    ASSUME CommonInv, NEW in, NEW end, LineSet(in, end), PartsInv(in, end), PushesApart,
           NEW t \in Threads, RoundLost(t), UNCHANGED met
    PROVE  PartsInv(in, end)'
  <1>1. UNCHANGED <<store, aux, met>>
    BY DEF RoundLost, EndRound, Goto, store, aux
  <1>2. Others(t)
    BY DEF CommonInv, TypeOK, Others, RoundLost, EndRound, Goto, store, aux
  <1>3. Linked(t) => Linked(t)'
    BY DEF Linked, CommonInv, StepsInv, RoundLost, EndRound, Goto, store, aux
  <1>4. ~Pushing(t)'
    BY DEF CommonInv, TypeOK, StepsInv, Pushing, RoundLost, EndRound, Goto, store, aux
  <1>5. Taking(t)' => TakeInv(t)'
    BY MarkerTypes DEF CommonInv, TypeOK, StepsInv, Taking, PartsInv, CallsInv, TakeInv, GetMarker, NoMarker, mixed, Harmless, RoundLost, EndRound, Goto, store, aux
  <1> QED
    BY <1>1, <1>2, <1>3, <1>4, <1>5, QuietParts

LEMMA UnmarkEmptyParts ==
    ASSUME CommonInv, NEW in, NEW end, LineSet(in, end), PartsInv(in, end), PushesApart,
           NEW t \in Threads, UnmarkEmpty(t), UNCHANGED met
    PROVE  PartsInv(in, end)'
  <1>1. UNCHANGED <<store, aux, met>>
    BY DEF UnmarkEmpty, Return, Goto, store, aux
  <1>2. Others(t)
    BY DEF CommonInv, TypeOK, Others, UnmarkEmpty, Return, Goto, store, aux
  <1>3. Linked(t) => Linked(t)'
    BY DEF Linked, CommonInv, StepsInv, UnmarkEmpty, Return, Goto, store, aux
  <1>4. ~Pushing(t)'
    BY DEF CommonInv, TypeOK, StepsInv, Pushing, UnmarkEmpty, Return, Goto, store, aux
  <1>5. Taking(t)' => TakeInv(t)'
    BY MarkerTypes DEF CommonInv, TypeOK, StepsInv, Taking, PartsInv, CallsInv, TakeInv, GetMarker, NoMarker, mixed, Harmless, UnmarkEmpty, Return, Goto, store, aux
  <1> QED
    BY <1>1, <1>2, <1>3, <1>4, <1>5, QuietParts

LEMMA RemoveTopParts ==
    ASSUME CommonInv, NEW in, NEW end, LineSet(in, end), PartsInv(in, end), PushesApart,
           NEW t \in Threads, RemoveTop(t), UNCHANGED met
    PROVE  PartsInv(in, end)'
  <1>1. UNCHANGED <<store, aux, met>>
    BY DEF RemoveTop, Goto, store, frame, aux
  <1>2. Others(t)
    BY DEF CommonInv, TypeOK, Others, RemoveTop, Goto, store, frame, aux
  <1>3. Linked(t) => Linked(t)'
    BY DEF Linked, CommonInv, StepsInv, RemoveTop, Goto, store, frame, aux
  <1>4. ~Pushing(t)'
    BY DEF CommonInv, TypeOK, StepsInv, Pushing, RemoveTop, Goto, store, frame, aux
  <1>5. Taking(t)' => TakeInv(t)'
    BY MarkerTypes DEF CommonInv, TypeOK, StepsInv, Taking, PartsInv, CallsInv, TakeInv, GetMarker, NoMarker, mixed, Harmless, RemoveTop, Goto, store, frame, aux
  <1> QED
    BY <1>1, <1>2, <1>3, <1>4, <1>5, QuietParts

LEMMA KeepTopParts ==
    ASSUME CommonInv, NEW in, NEW end, LineSet(in, end), PartsInv(in, end), PushesApart,
           NEW t \in Threads, KeepTop(t), UNCHANGED met
    PROVE  PartsInv(in, end)'
  <1>1. UNCHANGED <<store, aux, met>>
    BY DEF KeepTop, EndRound, Goto, store, aux
  <1>2. Others(t)
    BY DEF CommonInv, TypeOK, Others, KeepTop, EndRound, Goto, store, aux
  <1>3. Linked(t) => Linked(t)'
    BY DEF Linked, CommonInv, StepsInv, KeepTop, EndRound, Goto, store, aux
  <1>4. ~Pushing(t)'
    BY DEF CommonInv, TypeOK, StepsInv, Pushing, KeepTop, EndRound, Goto, store, aux
  <1>5. Taking(t)' => TakeInv(t)'
    BY MarkerTypes DEF CommonInv, TypeOK, StepsInv, Taking, PartsInv, CallsInv, TakeInv, GetMarker, NoMarker, mixed, Harmless, KeepTop, EndRound, Goto, store, aux
  <1> QED
    BY <1>1, <1>2, <1>3, <1>4, <1>5, QuietParts

LEMMA RemoveAfterParts ==
    ASSUME CommonInv, NEW in, NEW end, LineSet(in, end), PartsInv(in, end), PushesApart,
           NEW t \in Threads, RemoveAfter(t), UNCHANGED met
    PROVE  PartsInv(in, end)'
  <1>1. UNCHANGED <<store, aux, met>>
    BY DEF RemoveAfter, Goto, store, frame, aux
  <1>2. Others(t)
    BY DEF CommonInv, TypeOK, Others, RemoveAfter, Goto, store, frame, aux
  <1>3. Linked(t) => Linked(t)'
    BY DEF Linked, CommonInv, StepsInv, RemoveAfter, Goto, store, frame, aux
  <1>4. ~Pushing(t)'
    BY DEF CommonInv, TypeOK, StepsInv, Pushing, RemoveAfter, Goto, store, frame, aux
  <1>5. Taking(t)' => TakeInv(t)'
    BY MarkerTypes DEF CommonInv, TypeOK, StepsInv, Taking, PartsInv, CallsInv, TakeInv, GetMarker, NoMarker, mixed, Harmless, RemoveAfter, Goto, store, frame, aux
  <1> QED
    BY <1>1, <1>2, <1>3, <1>4, <1>5, QuietParts

LEMMA KeepAfterParts ==
    ASSUME CommonInv, NEW in, NEW end, LineSet(in, end), PartsInv(in, end), PushesApart,
           NEW t \in Threads, KeepAfter(t), UNCHANGED met
    PROVE  PartsInv(in, end)'
  <1>1. UNCHANGED <<store, aux, met>>
    BY DEF KeepAfter, EndRound, Goto, store, aux
  <1>2. Others(t)
    BY DEF CommonInv, TypeOK, Others, KeepAfter, EndRound, Goto, store, aux
  <1>3. Linked(t) => Linked(t)'
    BY DEF Linked, CommonInv, StepsInv, KeepAfter, EndRound, Goto, store, aux
  <1>4. ~Pushing(t)'
    BY DEF CommonInv, TypeOK, StepsInv, Pushing, KeepAfter, EndRound, Goto, store, aux
  <1>5. Taking(t)' => TakeInv(t)'
    BY MarkerTypes DEF CommonInv, TypeOK, StepsInv, Taking, PartsInv, CallsInv, TakeInv, GetMarker, NoMarker, mixed, Harmless, KeepAfter, EndRound, Goto, store, aux
  <1> QED
    BY <1>1, <1>2, <1>3, <1>4, <1>5, QuietParts

LEMMA AskFailsParts ==
    ASSUME CommonInv, NEW in, NEW end, LineSet(in, end), PartsInv(in, end), PushesApart,
           NEW t \in Threads, AskFails(t), UNCHANGED met
    PROVE  PartsInv(in, end)'
  <1>1. UNCHANGED <<store, aux, met>>
    BY DEF AskFails, Return, Goto, store, aux
  <1>2. Others(t)
    BY DEF CommonInv, TypeOK, Others, AskFails, Return, Goto, store, aux
  <1>3. Linked(t) => Linked(t)'
    BY DEF Linked, CommonInv, StepsInv, AskFails, Return, Goto, store, aux
  <1>4. ~Pushing(t)'
    BY DEF CommonInv, TypeOK, StepsInv, Pushing, AskFails, Return, Goto, store, aux
  <1>5. Taking(t)' => TakeInv(t)'
    BY MarkerTypes DEF CommonInv, TypeOK, StepsInv, Taking, PartsInv, CallsInv, TakeInv, GetMarker, NoMarker, mixed, Harmless, AskFails, Return, Goto, store, aux
  <1> QED
    BY <1>1, <1>2, <1>3, <1>4, <1>5, QuietParts

LEMMA AtEndParts ==
    ASSUME CommonInv, NEW in, NEW end, LineSet(in, end), PartsInv(in, end), PushesApart,
           NEW t \in Threads, AtEnd(t), UNCHANGED met
    PROVE  PartsInv(in, end)'
  <1>1. UNCHANGED <<store, aux, met>>
    BY DEF AtEnd, Return, Goto, store, aux
  <1>2. Others(t)
    BY DEF CommonInv, TypeOK, Others, AtEnd, Return, Goto, store, aux
  <1>3. Linked(t) => Linked(t)'
    BY DEF Linked, CommonInv, StepsInv, AtEnd, Return, Goto, store, aux
  <1>4. ~Pushing(t)'
    BY DEF CommonInv, TypeOK, StepsInv, Pushing, AtEnd, Return, Goto, store, aux
  <1>5. Taking(t)' => TakeInv(t)'
    BY MarkerTypes DEF CommonInv, TypeOK, StepsInv, Taking, PartsInv, CallsInv, TakeInv, GetMarker, NoMarker, mixed, Harmless, AtEnd, Return, Goto, store, aux
  <1> QED
    BY <1>1, <1>2, <1>3, <1>4, <1>5, QuietParts

LEMMA GoAfterParts ==
    ASSUME CommonInv, NEW in, NEW end, LineSet(in, end), PartsInv(in, end), PushesApart,
           NEW t \in Threads, GoAfter(t), UNCHANGED met
    PROVE  PartsInv(in, end)'
  <1>1. UNCHANGED <<store, aux, met>>
    BY DEF GoAfter, Goto, store, frame, aux
  <1>2. Others(t)
    BY DEF CommonInv, TypeOK, Others, GoAfter, Goto, store, frame, aux
  <1>3. Linked(t) => Linked(t)'
    BY DEF Linked, CommonInv, StepsInv, GoAfter, Goto, store, frame, aux
  <1>4. ~Pushing(t)'
    BY DEF CommonInv, TypeOK, StepsInv, Pushing, GoAfter, Goto, store, frame, aux
  <1>5. Taking(t)' => TakeInv(t)'
    BY MarkerTypes DEF CommonInv, TypeOK, StepsInv, Taking, PartsInv, CallsInv, TakeInv, GetMarker, NoMarker, mixed, Harmless, GoAfter, Goto, store, frame, aux
  <1> QED
    BY <1>1, <1>2, <1>3, <1>4, <1>5, QuietParts

LEMMA ReadAfterParts ==
    ASSUME CommonInv, NEW in, NEW end, LineSet(in, end), PartsInv(in, end), PushesApart,
           NEW t \in Threads, ReadAfter(t), UNCHANGED met
    PROVE  PartsInv(in, end)'
  <1>1. UNCHANGED <<store, aux, met>>
    BY DEF ReadAfter, Goto, store, aux
  <1>2. Others(t)
    BY DEF CommonInv, TypeOK, Others, ReadAfter, Goto, store, aux
  <1>3. Linked(t) => Linked(t)'
    BY DEF Linked, CommonInv, StepsInv, ReadAfter, Goto, store, aux
  <1>4. ~Pushing(t)'
    BY DEF CommonInv, TypeOK, StepsInv, Pushing, ReadAfter, Goto, store, aux
  <1>5. Taking(t)' => TakeInv(t)'
    <2>1. pc'[t] = "value" /\ top'[t] = top[t] /\ top[t] \in exists
      BY DEF CommonInv, TypeOK, ReadAfter, Goto, SubKey
    <2>2. top[t] # NoKey
      BY <2>1, QueueAssumption DEF CommonInv, TypeOK
    <2> QED
      BY <2>1, <2>2 DEF TakeInv
  <1> QED
    BY <1>1, <1>2, <1>3, <1>4, <1>5, QuietParts

LEMMA AfterLastParts ==
    ASSUME CommonInv, NEW in, NEW end, LineSet(in, end), PartsInv(in, end), PushesApart,
           NEW t \in Threads, AfterLast(t), UNCHANGED met
    PROVE  PartsInv(in, end)'
  <1>1. UNCHANGED <<store, aux, met>>
    BY DEF AfterLast, Return, Goto, store, aux
  <1>2. Others(t)
    BY DEF CommonInv, TypeOK, Others, AfterLast, Return, Goto, store, aux
  <1>3. Linked(t) => Linked(t)'
    BY DEF Linked, CommonInv, StepsInv, AfterLast, Return, Goto, store, aux
  <1>4. ~Pushing(t)'
    BY DEF CommonInv, TypeOK, StepsInv, Pushing, AfterLast, Return, Goto, store, aux
  <1>5. Taking(t)' => TakeInv(t)'
    BY MarkerTypes DEF CommonInv, TypeOK, StepsInv, Taking, PartsInv, CallsInv, TakeInv, GetMarker, NoMarker, mixed, Harmless, AfterLast, Return, Goto, store, aux
  <1> QED
    BY <1>1, <1>2, <1>3, <1>4, <1>5, QuietParts

LEMMA StopCuttingParts ==
    ASSUME CommonInv, NEW in, NEW end, LineSet(in, end), PartsInv(in, end), PushesApart,
           NEW t \in Threads, StopCutting(t), UNCHANGED met
    PROVE  PartsInv(in, end)'
  <1>1. UNCHANGED <<store, aux, met>>
    BY DEF StopCutting, Return, Goto, store, aux
  <1>2. Others(t)
    BY DEF CommonInv, TypeOK, Others, StopCutting, Return, Goto, store, aux
  <1>3. Linked(t) => Linked(t)'
    BY DEF Linked, CommonInv, StepsInv, StopCutting, Return, Goto, store, aux
  <1>4. ~Pushing(t)'
    BY DEF CommonInv, TypeOK, StepsInv, Pushing, StopCutting, Return, Goto, store, aux
  <1>5. Taking(t)' => TakeInv(t)'
    BY MarkerTypes DEF CommonInv, TypeOK, StepsInv, Taking, PartsInv, CallsInv, TakeInv, GetMarker, NoMarker, mixed, Harmless, StopCutting, Return, Goto, store, aux
  <1> QED
    BY <1>1, <1>2, <1>3, <1>4, <1>5, QuietParts

LEMMA RoundsOverParts ==
    ASSUME CommonInv, NEW in, NEW end, LineSet(in, end), PartsInv(in, end), PushesApart,
           NEW t \in Threads, RoundsOver(t), UNCHANGED met
    PROVE  PartsInv(in, end)'
  <1>1. UNCHANGED <<store, aux, met>>
    BY DEF RoundsOver, Return, Goto, store, aux
  <1>2. Others(t)
    BY DEF CommonInv, TypeOK, Others, RoundsOver, Return, Goto, store, aux
  <1>3. Linked(t) => Linked(t)'
    BY DEF Linked, CommonInv, StepsInv, RoundsOver, Return, Goto, store, aux
  <1>4. ~Pushing(t)'
    BY DEF CommonInv, TypeOK, StepsInv, Pushing, RoundsOver, Return, Goto, store, aux
  <1>5. Taking(t)' => TakeInv(t)'
    BY MarkerTypes DEF CommonInv, TypeOK, StepsInv, Taking, PartsInv, CallsInv, TakeInv, GetMarker, NoMarker, mixed, Harmless, RoundsOver, Return, Goto, store, aux
  <1> QED
    BY <1>1, <1>2, <1>3, <1>4, <1>5, QuietParts

LEMMA SetAgainNever ==
    ASSUME CommonInv, NEW in, NEW end, LineSet(in, end), PartsInv(in, end), PushesApart,
           NEW t \in Threads, SetAgain(t)
    PROVE  FALSE
  <1>1. Pushing(t)
    BY DEF CommonInv, StepsInv, Pushing, SetAgain
  <1>2. PushInv(t, in, end)
    BY <1>1 DEF PartsInv, CallsInv
  <1> QED
    BY <1>2, MarkerTypes DEF CommonInv, TypeOK, StepsInv, PushInv, Linked, GetMarker, SubKey, PushesApart, mixed, SetAgain

LEMMA EraseSubKeyNever ==
    ASSUME CommonInv, NEW in, NEW end, LineSet(in, end), PartsInv(in, end), PushesApart,
           NEW t \in Threads, EraseSubKey(t)
    PROVE  FALSE
  <1>1. Pushing(t)
    BY DEF CommonInv, StepsInv, Pushing, EraseSubKey
  <1>2. PushInv(t, in, end)
    BY <1>1 DEF PartsInv, CallsInv
  <1> QED
    BY <1>2, MarkerTypes DEF CommonInv, TypeOK, StepsInv, PushInv, Linked, GetMarker, SubKey, PushesApart, mixed, EraseSubKey

LEMMA MarkOwnNever ==
    ASSUME CommonInv, NEW in, NEW end, LineSet(in, end), PartsInv(in, end), PushesApart,
           NEW t \in Threads, MarkOwn(t)
    PROVE  FALSE
  <1>1. Pushing(t)
    BY DEF CommonInv, StepsInv, Pushing, MarkOwn
  <1>2. PushInv(t, in, end)
    BY <1>1 DEF PartsInv, CallsInv
  <1> QED
    BY <1>2, MarkerTypes DEF CommonInv, TypeOK, StepsInv, PushInv, Linked, GetMarker, SubKey, PushesApart, mixed, MarkOwn

LEMMA MarkDeepNever ==
    ASSUME CommonInv, NEW in, NEW end, LineSet(in, end), PartsInv(in, end), PushesApart,
           NEW t \in Threads, MarkDeep(t)
    PROVE  FALSE
  <1>1. Pushing(t)
    BY DEF CommonInv, StepsInv, Pushing, MarkDeep
  <1>2. PushInv(t, in, end)
    BY <1>1 DEF PartsInv, CallsInv
  <1> QED
    BY <1>2, MarkerTypes DEF CommonInv, TypeOK, StepsInv, PushInv, Linked, GetMarker, SubKey, PushesApart, mixed, MarkDeep

LEMMA CheckQueuedNever ==
    ASSUME CommonInv, NEW in, NEW end, LineSet(in, end), PartsInv(in, end), PushesApart,
           NEW t \in Threads, CheckQueued(t)
    PROVE  FALSE
  <1>1. Pushing(t)
    BY DEF CommonInv, StepsInv, Pushing, CheckQueued
  <1>2. PushInv(t, in, end)
    BY <1>1 DEF PartsInv, CallsInv
  <1> QED
    BY <1>2, MarkerTypes DEF CommonInv, TypeOK, StepsInv, PushInv, Linked, GetMarker, SubKey, PushesApart, mixed, CheckQueued

LEMMA CheckRetriesNever ==
    ASSUME CommonInv, NEW in, NEW end, LineSet(in, end), PartsInv(in, end), PushesApart,
           NEW t \in Threads, CheckRetries(t)
    PROVE  FALSE
  <1>1. Pushing(t)
    BY DEF CommonInv, StepsInv, Pushing, CheckRetries
  <1>2. PushInv(t, in, end)
    BY <1>1 DEF PartsInv, CallsInv
  <1> QED
    BY <1>2, MarkerTypes DEF CommonInv, TypeOK, StepsInv, PushInv, Linked, GetMarker, SubKey, PushesApart, mixed, CheckRetries

\* The steps that change the queue, or the calls that have met.

LEMMA BeginPushParts ==
    ASSUME CommonInv, NEW in, NEW end, LineSet(in, end), PartsInv(in, end), PushesApart',
           NEW t \in Threads, BeginPush(t)
    PROVE  PartsInv(in, end)'
  <1>1. /\ marker' = marker /\ next' = next /\ fifo' = fifo /\ pushed' = pushed /\ taken' = taken
        /\ met \subseteq met' /\ fresh' = fresh \ {UniqKey}
        /\ exists' = IF fifo THEN exists \cup {UniqKey} ELSE exists
        /\ pc[t] = "idle" /\ pc'[t] = "read" /\ job'[t] = "push" /\ key'[t] = UniqKey /\ fresh # {}
        /\ GetMarker' = GetMarker
    BY DEF CommonInv, TypeOK, BeginPush, Begin, Goto, aux, GetMarker
  <1>2. (~mixed)' => ~mixed
    BY <1>1 DEF mixed, Harmless
  <1>3. Others(t)
    BY DEF CommonInv, TypeOK, Others, BeginPush, Begin, Goto
  <1>4. UniqKey \in fresh
    BY <1>1 DEF UniqKey
  <1>5. \A u \in Threads : (Linked(u))' <=> Linked(u)
    BY <1>1, <1>3 DEF Others, Linked
  <1>6. KeysInv(in)'
    BY <1>1, <1>2 DEF PartsInv, KeysInv
  <1>7. EndInv(end)'
    BY <1>1, <1>5 DEF PartsInv, EndInv
  <1>8. PushInv(t, in, end)' /\ ~(Taking(t))'
    <2>1. ~(Linked(t))'
      BY <1>1 DEF Linked
    <2>2. UniqKey \notin in \cup taken /\ UniqKey \notin exists /\ next[UniqKey] = NoKey
      BY <1>4 DEF CommonInv, TypeOK, NamesInv, LineSet, PartsInv, KeysInv
    <2> QED
      BY <1>1, <2>1, <2>2 DEF PushInv, Taking
  <1>9. ASSUME NEW u \in Threads \ {t}
        PROVE  /\ (Pushing(u))' => PushInv(u, in, end)'
               /\ (Taking(u))' => TakeInv(u)'
    <2>1. /\ (Pushing(u))' <=> Pushing(u)
          /\ (Taking(u))' <=> Taking(u)
          /\ pc'[u] = pc[u] /\ key'[u] = key[u] /\ before'[u] = before[u]
          /\ nxt'[u] = nxt[u] /\ top'[u] = top[u] /\ held'[u] = held[u]
      BY <1>3 DEF Others, Pushing, Taking
    <2>2. PushInv(u, in, end) => PushInv(u, in, end)'
      BY <1>1, <1>2, <1>5, <2>1 DEF PushInv
    <2>3. TakeInv(u) => TakeInv(u)'
      BY <1>1, <1>2, <2>1 DEF TakeInv
    <2> QED
      BY <2>1, <2>2, <2>3 DEF PartsInv, CallsInv
  <1> QED
    BY <1>6, <1>7, <1>8, <1>9 DEF PartsInv, CallsInv

\* The beginning of a call that takes keys.
LEMMA BeginTakeParts ==
    ASSUME CommonInv, NEW in, NEW end, PartsInv(in, end),
           NEW t \in Threads, NEW j \in {"pop", "rem"}, Begin(t, j, "read"),
           UNCHANGED <<store, key, before, last, nxt, junk, top, held>>
    PROVE  PartsInv(in, end)'
  <1>1. /\ marker' = marker /\ exists' = exists /\ next' = next /\ fresh' = fresh /\ fifo' = fifo
        /\ pushed' = pushed /\ taken' = taken
        /\ met \subseteq met' /\ pc[t] = "idle" /\ pc'[t] = "read" /\ job'[t] = j
        /\ GetMarker' = GetMarker
    BY DEF CommonInv, TypeOK, Begin, Goto, store, aux, GetMarker
  <1>2. (~mixed)' => ~mixed
    BY <1>1 DEF mixed, Harmless
  <1>3. Others(t)
    BY DEF CommonInv, TypeOK, Others, Begin, Goto
  <1>4. \A u \in Threads : (Linked(u))' <=> Linked(u)
    BY <1>1, <1>3 DEF Others, Linked
  <1>5. KeysInv(in)'
    BY <1>1, <1>2 DEF PartsInv, KeysInv
  <1>6. EndInv(end)'
    BY <1>1, <1>4 DEF PartsInv, EndInv
  <1>7. TakeInv(t)' /\ ~(Pushing(t))'
    BY <1>1 DEF TakeInv, Pushing
  <1>8. ASSUME NEW u \in Threads \ {t}
        PROVE  /\ (Pushing(u))' => PushInv(u, in, end)'
               /\ (Taking(u))' => TakeInv(u)'
    <2>1. /\ (Pushing(u))' <=> Pushing(u)
          /\ (Taking(u))' <=> Taking(u)
          /\ pc'[u] = pc[u] /\ key'[u] = key[u] /\ before'[u] = before[u]
          /\ nxt'[u] = nxt[u] /\ top'[u] = top[u] /\ held'[u] = held[u]
      BY <1>3 DEF Others, Pushing, Taking
    <2>2. PushInv(u, in, end) => PushInv(u, in, end)'
      BY <1>1, <1>2, <1>4, <2>1 DEF PushInv
    <2>3. TakeInv(u) => TakeInv(u)'
      BY <1>1, <1>2, <2>1 DEF TakeInv
    <2> QED
      BY <2>1, <2>2, <2>3 DEF PartsInv, CallsInv
  <1> QED
    BY <1>5, <1>6, <1>7, <1>8 DEF PartsInv, CallsInv

\* The end key that a push finds without a subkey is the last one of the line, and no
\* other push has linked its key to it.
LEMMA LinkFacts ==
    ASSUME CommonInv, NEW in, NEW end, LineSet(in, end), PartsInv(in, end), PushesApart,
           NEW t \in Threads, Link(t)
    PROVE  /\ fifo /\ Pushing(t) /\ ~Linked(t) /\ PushInv(t, in, end)
           /\ before[t].end # NoKey
           /\ marker.start = NoKey => mixed
           /\ marker.start # NoKey =>
                /\ before[t].end = end /\ marker.end = end
                /\ \A u \in Threads : ~Linked(u)
  <1>1. /\ fifo /\ Pushing(t) /\ ~Linked(t) /\ pc[t] = "link"
        /\ before[t].end \in exists /\ next[before[t].end] = NoKey
    BY DEF CommonInv, StepsInv, Pushing, Linked, Link
  <1>2. PushInv(t, in, end)
    BY <1>1 DEF PartsInv, CallsInv
  <1>3. before[t].end # NoKey
    BY <1>1, QueueAssumption DEF CommonInv, TypeOK
  <1>4. marker.start = NoKey => mixed
    BY <1>1, <1>2 DEF PushInv, LineSet
  <1>5. ASSUME marker.start # NoKey
        PROVE  /\ before[t].end = end /\ marker.end = end
               /\ \A u \in Threads : ~Linked(u)
    <2>1. \A u \in Threads : Linked(u) => u # t /\ Pushing(u)
      BY <1>1 DEF CommonInv, StepsInv, Pushing, Linked
    <2>2. marker.end = end \/ \E u \in Threads : Linked(u)
      BY <1>1, <1>5 DEF PartsInv, EndInv
    <2>3. CASE ~mixed
      <3>1. before[t].end \in in \cap pushed
        BY <1>1, <1>2, <2>3 DEF PushInv
      <3>2. before[t].end = end
        BY <1>1, <1>5, <3>1, QueueAssumption DEF LineSet
      <3>3. ASSUME NEW u \in Threads, Linked(u) PROVE FALSE
        <4>1. PushInv(u, in, end)
          BY <2>1, <3>3 DEF PartsInv, CallsInv
        <4>2. key[u] = end
          BY <1>1, <1>5, <3>3, <4>1 DEF PushInv
        <4> QED
          BY <2>1, <3>1, <3>2, <3>3, <4>2 DEF CommonInv, NamesInv
      <3> QED
        BY <2>2, <3>2, <3>3
    <2>4. CASE {"push"} \notin met
      <3>1. \A u \in Threads : ~Linked(u)
        BY <1>1, <2>1, <2>4, Overlaps DEF Pushing
      <3> QED
        BY <1>1, <1>2, <1>5, <2>2, <2>4, <3>1 DEF PushInv
    <2> QED
      BY <2>3, <2>4 DEF PushesApart
  <1> QED
    BY <1>1, <1>2, <1>3, <1>4, <1>5

LEMMA LinkParts ==
    ASSUME CommonInv, NEW in, NEW end, LineSet(in, end), PartsInv(in, end), PushesApart,
           NEW t \in Threads, Link(t), UNCHANGED met,
           NEW more, NEW new,
           marker.start = NoKey => more = in,
           marker.start # NoKey => more = in \cup {key[t]} /\ new = key[t]
    PROVE  PartsInv(more, new)'
  <1>1. /\ fifo /\ Pushing(t) /\ ~Linked(t) /\ PushInv(t, in, end)
        /\ before[t].end # NoKey
        /\ marker.start = NoKey => mixed
        /\ marker.start # NoKey =>
             /\ before[t].end = end /\ marker.end = end
             /\ \A u \in Threads : ~Linked(u)
    BY LinkFacts
  <1>2. /\ marker' = marker /\ exists' = exists /\ fresh' = fresh /\ fifo' = fifo
        /\ pushed' = pushed /\ taken' = taken /\ met' = met /\ mixed' = mixed
        /\ next' = [next EXCEPT ![before[t].end] = key[t]]
        /\ before[t].end \in Keys /\ next[before[t].end] = NoKey
        /\ pc[t] = "link" /\ pc'[t] = "mark" /\ job'[t] = job[t] /\ key'[t] = key[t] /\ before'[t] = before[t]
    BY DEF CommonInv, TypeOK, Link, Goto, aux, mixed, Harmless
  <1>3. Others(t)
    BY DEF CommonInv, TypeOK, Others, Link, Goto
  <1>4. (Linked(t))'
    BY <1>1, <1>2 DEF Linked, NoMarker
  <1>5. \A u \in Threads \ {t} : (Linked(u))' <=> Linked(u)
    BY <1>2, <1>3 DEF Others, Linked
  <1>6. key[t] \notin taken /\ key[t] \in Keys
    BY <1>1 DEF PushInv, CommonInv, TypeOK
  <1>7. KeysInv(more)'
    BY <1>2, <1>6 DEF PartsInv, KeysInv
  <1>8. EndInv(new)'
    BY <1>1, <1>2, <1>4 DEF PartsInv, EndInv
  <1>9. PushInv(t, more, new)' /\ ~(Taking(t))'
    <2>1. ~mixed => before[t].end \in in
      BY <1>1, <1>2 DEF PushInv
    <2> QED
      BY <1>1, <1>2, <1>4, <2>1 DEF PushInv, Taking, Pushing
  <1>10. ASSUME NEW u \in Threads \ {t}
         PROVE  /\ (Pushing(u))' => PushInv(u, more, new)'
                /\ (Taking(u))' => TakeInv(u)'
    <2>1. /\ (Pushing(u))' <=> Pushing(u)
          /\ (Taking(u))' <=> Taking(u)
          /\ pc'[u] = pc[u] /\ key'[u] = key[u] /\ before'[u] = before[u]
          /\ nxt'[u] = nxt[u] /\ top'[u] = top[u] /\ held'[u] = held[u]
      BY <1>3 DEF Others, Pushing, Taking
    <2>2. ASSUME Pushing(u)
          PROVE  PushInv(u, more, new)'
      <3>1. PushInv(u, in, end) /\ key[u] # key[t] /\ {"push"} \in met /\ ~mixed
        BY <1>1, <2>2, Overlaps DEF PartsInv, CallsInv, CommonInv, NamesInv, PushesApart, Pushing
      <3>2. marker.start # NoKey /\ ~Linked(u) /\ more = in \cup {key[t]} /\ before[t].end \in in
        BY <1>1, <3>1 DEF LineSet
      <3>3. key[u] \notin in \cup taken
        BY <3>1, <3>2 DEF PushInv
      <3>4. key[u] \in Keys /\ next'[key[u]] = next[key[u]]
        BY <1>2, <3>2, <3>3 DEF CommonInv, TypeOK
      <3>5. ~(Linked(u))' /\ key[u] \notin more \cup taken
        BY <1>5, <3>1, <3>2, <3>3
      <3> QED
        BY <1>1, <1>2, <2>1, <3>1, <3>2, <3>4, <3>5 DEF PushInv
    <2>3. ASSUME Taking(u)
          PROVE  TakeInv(u)'
      <3>1. TakeInv(u) /\ mixed
        BY <1>1, <2>3, Overlaps DEF PartsInv, CallsInv, Taking, Pushing
      <3>2. marker.start \in Keys =>
              \/ next'[marker.start] = next[marker.start]
              \/ next[marker.start] = NoKey
        BY <1>2 DEF CommonInv, TypeOK
      <3>3. ASSUME pc[u] \in {"value", "ask", "unmark"}, top[u] = NoKey, before[u].start = marker.start
            PROVE  nxt[u] \in {NoKey, next'[marker.start]}
        <4>1. before[u].start \in Keys /\ nxt[u] \in {NoKey, next[marker.start]}
          BY <3>1, <3>3 DEF TakeInv
        <4> QED
          BY <3>2, <3>3, <4>1
      <3> QED
        BY <1>2, <2>1, <3>1, <3>3 DEF TakeInv
    <2> QED
      BY <2>1, <2>2, <2>3
  <1> QED
    BY <1>7, <1>8, <1>9, <1>10 DEF PartsInv, CallsInv

\* While a push onto a LIFO queue is under way there is no other call.
LEMMA AloneFacts ==
    ASSUME CommonInv, PushesApart, ~fifo, NEW t \in Threads, Pushing(t)
    PROVE  ~mixed /\ \A u \in Threads \ {t} : ~Pushing(u) /\ ~Taking(u)
  <1>1. ~mixed
    BY DEF PushesApart
  <1> QED
    BY <1>1, Overlaps DEF Pushing, Taking

LEMMA SetFirstParts ==
    ASSUME CommonInv, NEW in, NEW end, LineSet(in, end), PartsInv(in, end), PushesApart,
           NEW t \in Threads, SetFirst(t), UNCHANGED met
    PROVE  PartsInv(in, end)'
  <1>1. ~fifo /\ Pushing(t) /\ pc[t] = "set"
    BY DEF CommonInv, StepsInv, Pushing, SetFirst
  <1>2. ~mixed /\ \A u \in Threads \ {t} : ~Pushing(u) /\ ~Taking(u)
    BY <1>1, AloneFacts
  <1>3. /\ marker' = marker /\ fresh' = fresh /\ fifo' = fifo /\ GetMarker' = GetMarker
        /\ pushed' = pushed /\ taken' = taken /\ met' = met /\ mixed' = mixed
        /\ exists' = exists \cup {key[t]} /\ next' = [next EXCEPT ![key[t]] = before[t].start]
        /\ key[t] \in Keys /\ next'[key[t]] = before[t].start
        /\ pc'[t] = "mark" /\ job'[t] = job[t] /\ key'[t] = key[t] /\ before'[t] = before[t]
    BY DEF CommonInv, TypeOK, SetFirst, Goto, frame, aux, mixed, Harmless, GetMarker
  <1>4. Others(t)
    BY DEF CommonInv, TypeOK, Others, SetFirst, Goto, frame
  <1>5. PushInv(t, in, end)
    BY <1>1 DEF PartsInv, CallsInv
  <1>6. PushInv(t, in, end)' /\ ~(Taking(t))'
    <2>1. ~Linked(t) /\ ~(Linked(t))' /\ key[t] \notin in \cup taken /\ before[t] = GetMarker
      BY <1>1, <1>3, <1>5 DEF Linked, PushInv
    <2> QED
      BY <1>1, <1>3, <2>1 DEF PushInv, Taking, Pushing
  <1>7. \A u \in Threads \ {t} : ~(Pushing(u))' /\ ~(Taking(u))'
    BY <1>2, <1>4 DEF Others, Pushing, Taking
  <1>8. KeysInv(in)' /\ EndInv(end)'
    BY <1>1, <1>3 DEF PartsInv, KeysInv, EndInv
  <1> QED
    BY <1>6, <1>7, <1>8 DEF PartsInv, CallsInv

\* Where a push that may write the marker finds it.
LEMMA MarkFacts ==
    ASSUME CommonInv, NEW in, NEW end, LineSet(in, end), PartsInv(in, end), PushesApart,
           NEW t \in Threads, Mark(t)
    PROVE  /\ Pushing(t) /\ PushInv(t, in, end)
           /\ fifo /\ Linked(t) => /\ marker.start # NoKey /\ marker' = [marker EXCEPT !.end = key[t]]
                                   /\ key[t] = end /\ key[t] \in in
           /\ fifo /\ ~Linked(t) => /\ marker.start = NoKey /\ in = {}
                                    /\ (marker.start)' = key[t] /\ (marker.end)' = key[t]
                                    /\ next[key[t]] = NoKey /\ key[t] \in exists
           /\ ~fifo => /\ (marker.start)' = key[t]
                       /\ next[key[t]] = marker.start /\ key[t] \in exists
           /\ ~(fifo /\ Linked(t)) => key[t] \notin in \cup taken
  <1>1. /\ Pushing(t) /\ pc[t] = "mark" /\ Edge(GetMarker) = Edge(before[t])
        /\ marker' = Updated(GetMarker, key[t])
    BY DEF CommonInv, StepsInv, Pushing, Mark
  <1>2. PushInv(t, in, end)
    BY <1>1 DEF PartsInv, CallsInv
  <1>3. /\ GetMarker = IF marker.start = NoKey THEN NoMarker ELSE marker
        /\ NoMarker.start = NoKey /\ NoMarker.end = NoKey
    BY DEF GetMarker, NoMarker
  <1>4. CASE fifo /\ Linked(t)
    <2>1. before[t].end # NoKey /\ before[t] # NoMarker /\ GetMarker.end = before[t].end
      BY <1>1, <1>2, <1>4 DEF PushInv, Linked, Edge
    <2>2. marker.start # NoKey /\ GetMarker = marker /\ marker # NoMarker
      BY <1>3, <2>1
    <2>3. marker' = [marker EXCEPT !.end = key[t]]
      BY <1>1, <1>4, <2>2, Zenon DEF Updated
    <2>4. key[t] = end
      BY <1>2, <1>4, <2>2 DEF PushInv
    <2> QED
      BY <1>1, <1>2, <1>4, <2>2, <2>3, <2>4 DEF LineSet
  <1>5. CASE fifo /\ ~Linked(t)
    <2>1. before[t] = NoMarker /\ GetMarker.end = NoKey
      BY <1>1, <1>3, <1>5 DEF Linked, Edge
    <2>2. marker.start = NoKey
      <3>1. marker.start # NoKey => marker.end \in pushed
        BY <1>5 DEF PartsInv, EndInv
      <3> QED
        BY <1>3, <2>1, <3>1, QueueAssumption DEF CommonInv, TypeOK
    <2>3. marker' = [start |-> key[t], end |-> key[t]]
      BY <1>1, <1>3, <2>2, Zenon DEF Updated
    <2> QED
      BY <1>1, <1>2, <1>5, <2>2, <2>3 DEF PushInv, LineSet
  <1>6. CASE ~fifo
    <2>1. ~Linked(t) /\ before[t] = GetMarker /\ key[t] \in exists /\ next[key[t]] = before[t].start
      BY <1>1, <1>2, <1>6 DEF PushInv, Linked
    <2>2. (marker.start)' = key[t]
      BY <1>1, <1>3, <1>6, MarkerTypes DEF Updated, CommonInv, TypeOK
    <2>3. before[t].start = marker.start
      BY <1>3, <2>1
    <2> QED
      BY <1>1, <1>2, <1>6, <2>1, <2>2, <2>3 DEF PushInv
  <1> QED
    BY <1>4, <1>5, <1>6

LEMMA MarkParts ==
    ASSUME CommonInv, NEW in, NEW end, LineSet(in, end), PartsInv(in, end), PushesApart,
           NEW t \in Threads, Mark(t), UNCHANGED met,
           NEW more, NEW new,
           more = in \cup {key[t]},
           fifo => new = key[t]
    PROVE  PartsInv(more, new)'
  <1>1. /\ exists' = exists /\ next' = next /\ fresh' = fresh /\ fifo' = fifo
        /\ taken' = taken /\ met' = met /\ mixed' = mixed /\ pushed' = pushed \cup {key[t]}
        /\ pc[t] = "mark" /\ pc'[t] = "idle"
    BY DEF CommonInv, TypeOK, Mark, PushReturns, Return, Goto, mixed, Harmless
  <1>2. Others(t)
    BY DEF CommonInv, TypeOK, Others, Mark, PushReturns, Return, Goto
  <1>3. /\ Pushing(t) /\ PushInv(t, in, end)
        /\ fifo /\ Linked(t) => /\ marker.start # NoKey /\ marker' = [marker EXCEPT !.end = key[t]]
                                /\ key[t] = end /\ key[t] \in in
        /\ fifo /\ ~Linked(t) => /\ marker.start = NoKey /\ in = {}
                                 /\ (marker.start)' = key[t] /\ (marker.end)' = key[t]
        /\ ~(fifo /\ Linked(t)) => key[t] \notin in \cup taken
    BY MarkFacts
  <1>4. /\ key[t] \in Keys /\ key[t] \notin fresh /\ key[t] # NoKey
        /\ fifo => (marker.end)' = key[t]
    <2>1. key[t] \in Keys /\ key[t] \notin fresh /\ key[t] # NoKey
      BY <1>3, QueueAssumption DEF CommonInv, TypeOK, NamesInv
    <2>2. marker' = [marker EXCEPT !.end = key[t]] => (marker.end)' = key[t]
      BY DEF CommonInv, TypeOK, Markers
    <2> QED
      BY <1>3, <2>1, <2>2
  <1>5. KeysInv(more)'
    BY <1>1, <1>3, <1>4 DEF PartsInv, KeysInv
  <1>6. EndInv(new)'
    BY <1>1, <1>4 DEF EndInv
  <1>7. ~(Pushing(t))' /\ ~(Taking(t))'
    BY <1>1 DEF Pushing, Taking
  <1>8. ASSUME NEW u \in Threads \ {t}
        PROVE  /\ (Pushing(u))' => PushInv(u, more, new)'
               /\ (Taking(u))' => TakeInv(u)'
    <2>1. /\ (Pushing(u))' <=> Pushing(u)
          /\ (Taking(u))' <=> Taking(u)
          /\ (Linked(u))' <=> Linked(u)
          /\ pc'[u] = pc[u] /\ key'[u] = key[u] /\ before'[u] = before[u]
          /\ nxt'[u] = nxt[u] /\ top'[u] = top[u] /\ held'[u] = held[u]
      BY <1>1, <1>2 DEF Others, Pushing, Taking, Linked
    <2>2. ASSUME Pushing(u)
          PROVE  PushInv(u, more, new)'
      <3>1. PushInv(u, in, end) /\ key[u] # key[t] /\ {"push"} \in met /\ ~mixed /\ fifo
        BY <1>3, <2>2, Overlaps DEF PartsInv, CallsInv, CommonInv, NamesInv, PushesApart, Pushing
      <3>2. ~Linked(u)
        BY <1>3, <3>1 DEF PushInv
      <3>3. key[u] \notin more \cup taken
        BY <3>1, <3>2 DEF PushInv
      <3> QED
        BY <1>1, <2>1, <3>1, <3>2, <3>3 DEF PushInv
    <2>3. ASSUME Taking(u)
          PROVE  TakeInv(u)'
      <3>1. TakeInv(u) /\ mixed
        BY <1>3, <2>3, Overlaps DEF PartsInv, CallsInv, Taking, Pushing
      <3>2. fifo
        BY <3>1 DEF PushesApart
      <3>3. CASE Linked(t)
        <4>1. (marker.start)' = marker.start
          BY <1>3, <3>2, <3>3 DEF CommonInv, TypeOK, Markers
        <4> QED
          BY <1>1, <2>1, <3>1, <4>1 DEF TakeInv
      <3>4. CASE ~Linked(t)
        <4>1. marker.start = NoKey /\ (marker.start)' = key[t] /\ key[t] \notin taken
          BY <1>3, <3>2, <3>4
        <4> QED
          BY <1>1, <2>1, <3>1, <4>1, QueueAssumption DEF TakeInv
      <3> QED
        BY <3>3, <3>4
    <2> QED
      BY <2>1, <2>2, <2>3
  <1> QED
    BY <1>5, <1>6, <1>7, <1>8 DEF PartsInv, CallsInv

LEMMA MarkAfterEmptiedParts ==
    ASSUME CommonInv, NEW in, NEW end, LineSet(in, end), PartsInv(in, end), PushesApart,
           NEW t \in Threads, MarkAfterEmptied(t), UNCHANGED met
    PROVE  PartsInv(in, end)' /\ mixed
  <1>1. /\ marker' = marker /\ exists' = exists /\ next' = next /\ fresh' = fresh /\ fifo' = fifo
        /\ taken' = taken /\ met' = met /\ mixed' = mixed /\ pushed' = pushed \cup {key[t]}
        /\ pc[t] = "mark" /\ pc'[t] = "idle" /\ fifo
    BY DEF CommonInv, TypeOK, MarkAfterEmptied, PushReturns, Return, Goto, mixed, Harmless, store
  <1>2. Others(t)
    BY DEF CommonInv, TypeOK, Others, MarkAfterEmptied, PushReturns, Return, Goto
  <1>3. Pushing(t) /\ Linked(t) /\ marker.start = NoKey
    <2>1. Pushing(t) /\ Linked(t) /\ GetMarker = NoMarker
      BY DEF CommonInv, StepsInv, Pushing, Linked, MarkAfterEmptied
    <2> QED
      BY <2>1 DEF GetMarker, NoMarker
  <1>4. mixed /\ {"push"} \notin met
    BY <1>1, <1>3 DEF PartsInv, CallsInv, PushInv, PushesApart
  <1>5. KeysInv(in)' /\ EndInv(end)'
    BY <1>1, <1>3, <1>4 DEF PartsInv, KeysInv, EndInv
  <1>6. ~(Pushing(t))' /\ ~(Taking(t))'
    BY <1>1 DEF Pushing, Taking
  <1>7. ASSUME NEW u \in Threads \ {t}
        PROVE  /\ ~(Pushing(u))'
               /\ (Taking(u))' => TakeInv(u)'
    <2>1. /\ (Pushing(u))' <=> Pushing(u)
          /\ (Taking(u))' <=> Taking(u)
          /\ pc'[u] = pc[u] /\ key'[u] = key[u] /\ before'[u] = before[u]
          /\ nxt'[u] = nxt[u] /\ top'[u] = top[u] /\ held'[u] = held[u]
      BY <1>1, <1>2 DEF Others, Pushing, Taking
    <2>2. ~Pushing(u)
      BY <1>3, <1>4, Overlaps DEF Pushing
    <2>3. TakeInv(u) => TakeInv(u)'
      BY <1>1, <2>1 DEF TakeInv
    <2> QED
      BY <2>1, <2>2, <2>3 DEF PartsInv, CallsInv
  <1> QED
    BY <1>4, <1>5, <1>6, <1>7 DEF PartsInv, CallsInv

\* The start key that a call is about to take off the marker.
LEMMA UnmarkFacts ==
    ASSUME CommonInv, NEW in, NEW end, LineSet(in, end), PartsInv(in, end),
           NEW t \in Threads, Unmark(t)
    PROVE  /\ Taking(t) /\ before[t].start = marker.start /\ marker.start \in in
           /\ marker.start \notin taken /\ held[t]
           /\ marker.start \in Keys
           /\ nxt[t] \in {NoKey, next[marker.start]}
           /\ ~mixed => nxt[t] = next[marker.start]
           /\ (marker.start)' = nxt[t] /\ (marker.end)' = marker.end
  <1>1. /\ Taking(t) /\ pc[t] = "unmark" /\ top[t] = NoKey
        /\ before[t].start = marker.start /\ marker' = [marker EXCEPT !.start = nxt[t]]
        /\ marker.start # NoKey
    BY DEF CommonInv, StepsInv, Taking, Unmark, GetMarker, NoMarker
  <1>2. TakeInv(t)
    BY <1>1 DEF PartsInv, CallsInv
  <1>3. marker.start \in in /\ marker.start \notin taken /\ marker.start \in Keys
    BY <1>1 DEF LineSet, PartsInv, KeysInv
  <1>4. held[t] /\ nxt[t] \in {NoKey, next[marker.start]} /\ (~mixed => nxt[t] = next[marker.start])
    BY <1>1, <1>2 DEF TakeInv
  <1>5. (marker.start)' = nxt[t] /\ (marker.end)' = marker.end
    BY <1>1, MarkerTypes DEF CommonInv, TypeOK, Markers
  <1> QED
    BY <1>1, <1>3, <1>4, <1>5

LEMMA UnmarkParts ==
    ASSUME CommonInv, NEW in, NEW end, LineSet(in, end), PartsInv(in, end), PushesApart,
           NEW t \in Threads, Unmark(t), UNCHANGED met,
           NEW rest, NEW new,
           rest \subseteq in \ {marker.start},
           nxt[t] = next[marker.start] => rest = in \ {marker.start},
           nxt[t] # NoKey => nxt[t] \in rest /\ new = end
    PROVE  PartsInv(rest, new)'
  <1>1. /\ exists' = exists /\ next' = next /\ fresh' = fresh /\ fifo' = fifo
        /\ pushed' = pushed /\ met' = met /\ mixed' = mixed /\ taken' = taken \cup {before[t].start}
        /\ pc[t] = "unmark" /\ pc'[t] = "drop" /\ before'[t] = before[t]
    BY DEF CommonInv, TypeOK, Unmark, Goto, mixed, Harmless, frame
  <1>2. Others(t)
    BY DEF CommonInv, TypeOK, Others, Unmark, Goto, frame
  <1>3. /\ Taking(t) /\ before[t].start = marker.start /\ marker.start \in in
        /\ marker.start \notin taken /\ marker.start \in Keys
        /\ ~mixed => nxt[t] = next[marker.start]
        /\ (marker.start)' = nxt[t] /\ (marker.end)' = marker.end
    BY UnmarkFacts
  <1>4. marker.start # NoKey
    BY <1>3, QueueAssumption
  <1>5. \A u \in Threads : (Linked(u))' <=> Linked(u)
    BY <1>1, <1>2 DEF Others, Linked
  <1>6. KeysInv(rest)'
    <2>1. marker.start \notin fresh
      BY <1>3 DEF LineSet, CommonInv, NamesInv
    <2> QED
      BY <1>1, <1>3, <2>1 DEF PartsInv, KeysInv
  <1>7. EndInv(new)'
    BY <1>1, <1>3, <1>4, <1>5 DEF PartsInv, EndInv
  <1>8. ~(Pushing(t))' /\ TakeInv(t)'
    BY <1>1, <1>2, <1>3 DEF Pushing, Taking, TakeInv, Unmark, frame
  <1>9. ASSUME NEW u \in Threads \ {t}
        PROVE  /\ (Pushing(u))' => PushInv(u, rest, new)'
               /\ (Taking(u))' => TakeInv(u)'
    <2>1. /\ (Pushing(u))' <=> Pushing(u)
          /\ (Taking(u))' <=> Taking(u)
          /\ pc'[u] = pc[u] /\ key'[u] = key[u] /\ before'[u] = before[u]
          /\ nxt'[u] = nxt[u] /\ top'[u] = top[u] /\ held'[u] = held[u]
      BY <1>2 DEF Others, Pushing, Taking
    <2>2. ASSUME Pushing(u)
          PROVE  PushInv(u, rest, new)'
      <3>1. PushInv(u, in, end) /\ mixed /\ fifo
        BY <1>3, <2>2, Overlaps DEF PartsInv, CallsInv, PushesApart, Pushing, Taking
      <3>2. ~Linked(u) => key[u] \notin rest \cup (taken \cup {before[t].start})
        BY <1>3, <3>1 DEF PushInv
      <3>3. Linked(u) /\ nxt[t] # NoKey => key[u] = new /\ before[u].end = marker.end
        BY <1>4, <3>1 DEF PushInv
      <3>4. pc[u] = "link" /\ {"push"} \notin met => before[u].end = marker.end
        BY <1>4, <3>1 DEF PushInv
      <3> QED
        BY <1>1, <1>3, <1>5, <2>1, <3>1, <3>2, <3>3, <3>4 DEF PushInv
    <2>3. ASSUME Taking(u)
          PROVE  TakeInv(u)'
      <3>1. TakeInv(u)
        BY <2>3 DEF PartsInv, CallsInv
      <3>2. nxt[t] # NoKey => nxt[t] # marker.start /\ nxt[t] \notin taken
        BY DEF PartsInv, KeysInv
      <3>3. ASSUME pc[u] \in {"next", "value", "ask", "unmark"}, top[u] = NoKey
            PROVE  /\ before[u].start \in Keys /\ before[u].start \in taken \cup {before[t].start}
                   /\ before[u].start # nxt[t]
        <4>1. before[u].start \in Keys /\ (before[u].start = marker.start \/ before[u].start \in taken)
          BY <3>1, <3>3 DEF TakeInv
        <4> QED
          BY <1>3, <3>2, <4>1, QueueAssumption
      <3> QED
        BY <1>1, <1>3, <2>1, <3>1, <3>3 DEF TakeInv
    <2> QED
      BY <2>1, <2>2, <2>3
  <1> QED
    BY <1>6, <1>7, <1>8, <1>9 DEF PartsInv, CallsInv

\* A key that has been taken is removed.
LEMMA DropParts ==
    ASSUME CommonInv, NEW in, NEW end, LineSet(in, end), PartsInv(in, end), PushesApart,
           NEW t \in Threads, Drop(t) \/ DropWithValue(t), UNCHANGED met
    PROVE  /\ PartsInv(in, end)'
           /\ before[t].start \notin in
           /\ exists' = exists \ {before[t].start} /\ next' = [next EXCEPT ![before[t].start] = NoKey]
  <1>1. /\ marker' = marker /\ fresh' = fresh /\ fifo' = fifo
        /\ pushed' = pushed /\ taken' = taken /\ met' = met /\ mixed' = mixed
        /\ exists' = exists \ {before[t].start} /\ next' = [next EXCEPT ![before[t].start] = NoKey]
        /\ pc[t] = "drop" /\ job[t] \in {"pop", "rem"} /\ pc'[t] \in {"idle", "read"}
        /\ job' = job
    <2>1. CASE Drop(t)
      BY <2>1 DEF CommonInv, TypeOK, Drop, Dropped, Return, Goto, mixed, Harmless, aux
    <2>2. CASE DropWithValue(t)
      BY <2>2 DEF CommonInv, TypeOK, DropWithValue, Dropped, EndRound, Goto, mixed, Harmless, aux
    <2> QED
      BY <2>1, <2>2
  <1>2. Others(t)
    <2>1. CASE Drop(t)
      BY <2>1 DEF CommonInv, TypeOK, Others, Drop, Return, Goto
    <2>2. CASE DropWithValue(t)
      BY <2>2 DEF CommonInv, TypeOK, Others, DropWithValue, EndRound, Goto
    <2> QED
      BY <2>1, <2>2
  <1>3. Taking(t) /\ before[t].start \in taken
    BY <1>1 DEF Taking, PartsInv, CallsInv, TakeInv
  <1>4. before[t].start \notin in /\ before[t].start \in Keys
    BY <1>3 DEF PartsInv, KeysInv
  <1>5. \A k \in Keys : k # before[t].start => next'[k] = next[k]
    BY <1>1 DEF CommonInv, TypeOK
  <1>6. \A u \in Threads : (Linked(u))' <=> Linked(u)
    BY <1>1, <1>2 DEF Others, Linked
  <1>7. KeysInv(in)'
    BY <1>1 DEF PartsInv, KeysInv
  <1>8. EndInv(end)'
    BY <1>1, <1>6 DEF PartsInv, EndInv
  <1>9. ~(Pushing(t))' /\ TakeInv(t)'
    BY <1>1 DEF Pushing, TakeInv
  <1>10. ASSUME NEW u \in Threads \ {t}
         PROVE  /\ (Pushing(u))' => PushInv(u, in, end)'
                /\ (Taking(u))' => TakeInv(u)'
    <2>1. /\ (Pushing(u))' <=> Pushing(u)
          /\ (Taking(u))' <=> Taking(u)
          /\ pc'[u] = pc[u] /\ key'[u] = key[u] /\ before'[u] = before[u]
          /\ nxt'[u] = nxt[u] /\ top'[u] = top[u] /\ held'[u] = held[u]
      BY <1>2 DEF Others, Pushing, Taking
    <2>2. ASSUME Pushing(u)
          PROVE  PushInv(u, in, end)'
      <3>1. PushInv(u, in, end) /\ mixed /\ fifo
        BY <1>3, <2>2, Overlaps DEF PartsInv, CallsInv, PushesApart, Pushing, Taking
      <3>2. ~Linked(u) => key[u] \in exists' /\ next'[key[u]] = NoKey
        BY <1>1, <1>3, <1>5, <3>1 DEF PushInv, CommonInv, TypeOK
      <3> QED
        BY <1>1, <1>6, <2>1, <3>1, <3>2 DEF PushInv
    <2>3. ASSUME Taking(u)
          PROVE  TakeInv(u)'
      <3>1. TakeInv(u)
        BY <2>3 DEF PartsInv, CallsInv
      <3>2. marker.start \in Keys => next'[marker.start] = next[marker.start]
        BY <1>4, <1>5, QueueAssumption DEF LineSet
      <3> QED
        BY <1>1, <2>1, <3>1, <3>2 DEF TakeInv
    <2> QED
      BY <2>1, <2>2, <2>3
  <1> QED
    BY <1>1, <1>4, <1>7, <1>8, <1>9, <1>10 DEF PartsInv, CallsInv

-----------------------------------------------------------------------------
\* The invariant of every behaviour.

LEMMA StepCommon ==
    ASSUME CommonInv, NEW t \in Threads, Step(t)
    PROVE  CommonInv'
  <1>1. TypeOK /\ UNCHANGED met
    BY DEF CommonInv, Step
  <1>2. ReadMarker(t) => CommonInv'
    BY <1>1, ReadMarkerCommon
  <1>3. Link(t) => CommonInv'
    BY <1>1, LinkCommon
  <1>4. LinkTaken(t) => CommonInv'
    BY <1>1, LinkTakenCommon
  <1>5. LinkFails(t) => CommonInv'
    BY <1>1, LinkFailsCommon
  <1>6. LinkRetries(t) => CommonInv'
    BY <1>1, LinkRetriesCommon
  <1>7. SetFirst(t) => CommonInv'
    BY <1>1, SetFirstCommon
  <1>8. SetAgain(t) => CommonInv'
    BY <1>1, SetAgainCommon
  <1>9. EraseSubKey(t) => CommonInv'
    BY <1>1, EraseSubKeyCommon
  <1>10. Mark(t) => CommonInv'
    BY <1>1, MarkCommon
  <1>11. MarkAfterEmptied(t) => CommonInv'
    BY <1>1, MarkAfterEmptiedCommon
  <1>12. MarkAgain(t) => CommonInv'
    BY <1>1, MarkAgainCommon
  <1>13. MarkOwn(t) => CommonInv'
    BY <1>1, MarkOwnCommon
  <1>14. MarkDeep(t) => CommonInv'
    BY <1>1, MarkDeepCommon
  <1>15. CheckQueued(t) => CommonInv'
    BY <1>1, CheckQueuedCommon
  <1>16. CheckRetries(t) => CommonInv'
    BY <1>1, CheckRetriesCommon
  <1>17. ReadNone(t) => CommonInv'
    BY <1>1, ReadNoneCommon
  <1>18. ReadSome(t) => CommonInv'
    BY <1>1, ReadSomeCommon
  <1>19. ReadNext(t) => CommonInv'
    BY <1>1, ReadNextCommon
  <1>20. ReadValue(t) => CommonInv'
    BY <1>1, ReadValueCommon
  <1>21. Unmark(t) => CommonInv'
    BY <1>1, UnmarkCommon
  <1>22. PopAgain(t) => CommonInv'
    BY <1>1, PopAgainCommon
  <1>23. RoundLost(t) => CommonInv'
    BY <1>1, RoundLostCommon
  <1>24. UnmarkEmpty(t) => CommonInv'
    BY <1>1, UnmarkEmptyCommon
  <1>25. Drop(t) => CommonInv'
    BY <1>1, DropCommon
  <1>26. DropWithValue(t) => CommonInv'
    BY <1>1, DropWithValueCommon
  <1>27. RemoveTop(t) => CommonInv'
    BY <1>1, RemoveTopCommon
  <1>28. KeepTop(t) => CommonInv'
    BY <1>1, KeepTopCommon
  <1>29. RemoveAfter(t) => CommonInv'
    BY <1>1, RemoveAfterCommon
  <1>30. KeepAfter(t) => CommonInv'
    BY <1>1, KeepAfterCommon
  <1>31. AskFails(t) => CommonInv'
    BY <1>1, AskFailsCommon
  <1>32. AtEnd(t) => CommonInv'
    BY <1>1, AtEndCommon
  <1>33. GoAfter(t) => CommonInv'
    BY <1>1, GoAfterCommon
  <1>34. ReadAfter(t) => CommonInv'
    BY <1>1, ReadAfterCommon
  <1>35. AfterLast(t) => CommonInv'
    BY <1>1, AfterLastCommon
  <1>36. StopCutting(t) => CommonInv'
    BY <1>1, StopCuttingCommon
  <1>37. RoundsOver(t) => CommonInv'
    BY <1>1, RoundsOverCommon
  <1> QED
    BY <1>1, <1>2, <1>3, <1>4, <1>5, <1>6, <1>7, <1>8, <1>9, <1>10, <1>11, <1>12, <1>13, <1>14, <1>15, <1>16, <1>17, <1>18, <1>19, <1>20, <1>21, <1>22, <1>23, <1>24, <1>25, <1>26, <1>27, <1>28, <1>29, <1>30, <1>31, <1>32, <1>33, <1>34, <1>35, <1>36, <1>37, StepCases, Zenon

\* The steps that leave the queue as it is.
QuietStep(t) ==
    \/ ReadMarker(t)
    \/ LinkTaken(t)
    \/ LinkFails(t)
    \/ LinkRetries(t)
    \/ MarkAgain(t)
    \/ ReadNone(t)
    \/ ReadSome(t)
    \/ ReadNext(t)
    \/ ReadValue(t)
    \/ PopAgain(t)
    \/ RoundLost(t)
    \/ UnmarkEmpty(t)
    \/ RemoveTop(t)
    \/ KeepTop(t)
    \/ RemoveAfter(t)
    \/ KeepAfter(t)
    \/ AskFails(t)
    \/ AtEnd(t)
    \/ GoAfter(t)
    \/ ReadAfter(t)
    \/ AfterLast(t)
    \/ StopCutting(t)
    \/ RoundsOver(t)

LEMMA QuietStepParts ==
    ASSUME CommonInv, NEW in, NEW end, LineSet(in, end), PartsInv(in, end), PushesApart,
           NEW t \in Threads, QuietStep(t), UNCHANGED met
    PROVE  PartsInv(in, end)' /\ UNCHANGED store
  <1>1. ReadMarker(t) => PartsInv(in, end)' /\ UNCHANGED store
    BY ReadMarkerParts, Zenon DEF ReadMarker
  <1>2. LinkTaken(t) => PartsInv(in, end)' /\ UNCHANGED store
    BY LinkTakenParts, Zenon DEF LinkTaken
  <1>3. LinkFails(t) => PartsInv(in, end)' /\ UNCHANGED store
    BY LinkFailsParts, Zenon DEF LinkFails
  <1>4. LinkRetries(t) => PartsInv(in, end)' /\ UNCHANGED store
    BY LinkRetriesParts, Zenon DEF LinkRetries
  <1>5. MarkAgain(t) => PartsInv(in, end)' /\ UNCHANGED store
    BY MarkAgainParts, Zenon DEF MarkAgain
  <1>6. ReadNone(t) => PartsInv(in, end)' /\ UNCHANGED store
    BY ReadNoneParts, Zenon DEF ReadNone
  <1>7. ReadSome(t) => PartsInv(in, end)' /\ UNCHANGED store
    BY ReadSomeParts, Zenon DEF ReadSome
  <1>8. ReadNext(t) => PartsInv(in, end)' /\ UNCHANGED store
    BY ReadNextParts, Zenon DEF ReadNext
  <1>9. ReadValue(t) => PartsInv(in, end)' /\ UNCHANGED store
    BY ReadValueParts, Zenon DEF ReadValue
  <1>10. PopAgain(t) => PartsInv(in, end)' /\ UNCHANGED store
    BY PopAgainParts, Zenon DEF PopAgain
  <1>11. RoundLost(t) => PartsInv(in, end)' /\ UNCHANGED store
    BY RoundLostParts, Zenon DEF RoundLost
  <1>12. UnmarkEmpty(t) => PartsInv(in, end)' /\ UNCHANGED store
    BY UnmarkEmptyParts, Zenon DEF UnmarkEmpty
  <1>13. RemoveTop(t) => PartsInv(in, end)' /\ UNCHANGED store
    BY RemoveTopParts, Zenon DEF RemoveTop
  <1>14. KeepTop(t) => PartsInv(in, end)' /\ UNCHANGED store
    BY KeepTopParts, Zenon DEF KeepTop
  <1>15. RemoveAfter(t) => PartsInv(in, end)' /\ UNCHANGED store
    BY RemoveAfterParts, Zenon DEF RemoveAfter
  <1>16. KeepAfter(t) => PartsInv(in, end)' /\ UNCHANGED store
    BY KeepAfterParts, Zenon DEF KeepAfter
  <1>17. AskFails(t) => PartsInv(in, end)' /\ UNCHANGED store
    BY AskFailsParts, Zenon DEF AskFails
  <1>18. AtEnd(t) => PartsInv(in, end)' /\ UNCHANGED store
    BY AtEndParts, Zenon DEF AtEnd
  <1>19. GoAfter(t) => PartsInv(in, end)' /\ UNCHANGED store
    BY GoAfterParts, Zenon DEF GoAfter
  <1>20. ReadAfter(t) => PartsInv(in, end)' /\ UNCHANGED store
    BY ReadAfterParts, Zenon DEF ReadAfter
  <1>21. AfterLast(t) => PartsInv(in, end)' /\ UNCHANGED store
    BY AfterLastParts, Zenon DEF AfterLast
  <1>22. StopCutting(t) => PartsInv(in, end)' /\ UNCHANGED store
    BY StopCuttingParts, Zenon DEF StopCutting
  <1>23. RoundsOver(t) => PartsInv(in, end)' /\ UNCHANGED store
    BY RoundsOverParts, Zenon DEF RoundsOver
  <1> QED
    BY <1>1, <1>2, <1>3, <1>4, <1>5, <1>6, <1>7, <1>8, <1>9, <1>10, <1>11, <1>12, <1>13, <1>14, <1>15, <1>16, <1>17, <1>18, <1>19, <1>20, <1>21, <1>22, <1>23, Zenon DEF QuietStep

LEMMA LineParts ==
    ASSUME NEW line, LineInv(line)
    PROVE  /\ LineSet(ToSet(line), EndOf(line)) /\ PartsInv(ToSet(line), EndOf(line))
           /\ line \in Seq(Keys) /\ IsLine(line, marker.start, exists, next)
  <1>1. IsLine(line, marker.start, exists, next)
    BY DEF LineInv
  <1>2. LineSet(ToSet(line), EndOf(line))
    <2> DEFINE in == ToSet(line)
               end == EndOf(line)
    <2>1. /\ in \subseteq Keys /\ in \subseteq exists
          /\ marker.start = NoKey <=> in = {}
          /\ marker.start # NoKey =>
               /\ marker.start \in in
               /\ end \in in /\ next[end] = NoKey
               /\ \A k \in in : k # end => next[k] \in in
      BY <1>1, LineFacts, Zenon
    <2> HIDE DEF in, end
    <2>2. LineSet(in, end)
      BY <2>1 DEF LineSet
    <2> QED
      BY <2>2 DEF in, end
  <1>3. PartsInv(ToSet(line), EndOf(line))
    BY DEF LineInv, PartsInv
  <1> QED
    BY <1>1, <1>2, <1>3 DEF IsLine

\* While the calls that need it are kept apart, a step is one of these.
LEMMA StepKinds ==
    ASSUME CommonInv, NEW line, LineInv(line), PushesApart, NEW t \in Threads, Step(t)
    PROVE  \/ QuietStep(t) \/ Link(t) \/ SetFirst(t) \/ Mark(t) \/ MarkAfterEmptied(t)
           \/ Unmark(t) \/ Drop(t) \/ DropWithValue(t)
  <1>1. LineSet(ToSet(line), EndOf(line)) /\ PartsInv(ToSet(line), EndOf(line))
    BY LineParts
  <1>2. TypeOK
    BY DEF CommonInv
  <1>3. /\ ~ SetAgain(t)
        /\ ~ EraseSubKey(t)
        /\ ~ MarkOwn(t)
        /\ ~ MarkDeep(t)
        /\ ~ CheckQueued(t)
        /\ ~ CheckRetries(t)
    BY <1>1, SetAgainNever, EraseSubKeyNever, MarkOwnNever, MarkDeepNever, CheckQueuedNever, CheckRetriesNever
  <1> QED
    BY <1>2, <1>3, StepCases, Zenon DEF QuietStep

\* What each kind of step does to the line.

LEMMA QuietLine ==
    ASSUME CommonInv, NEW line, LineInv(line), PushesApart, NEW t \in Threads, QuietStep(t), UNCHANGED met
    PROVE  LineInv(line)'
  <1>1. LineSet(ToSet(line), EndOf(line)) /\ PartsInv(ToSet(line), EndOf(line))
    BY LineParts
  <1>2. PartsInv(ToSet(line), EndOf(line))' /\ UNCHANGED store
    BY <1>1, QuietStepParts
  <1> QED
    BY <1>2 DEF LineInv, PartsInv, store

LEMMA LinkLine ==
    ASSUME CommonInv, NEW line, LineInv(line), PushesApart, NEW t \in Threads, Link(t), UNCHANGED met,
           NEW more, more = IF marker.start = NoKey THEN line ELSE Append(line, key[t])
    PROVE  LineInv(more)'
  <1>1. /\ LineSet(ToSet(line), EndOf(line)) /\ PartsInv(ToSet(line), EndOf(line))
        /\ line \in Seq(Keys) /\ IsLine(line, marker.start, exists, next)
    BY LineParts
  <1>2. /\ fifo /\ ~Linked(t) /\ PushInv(t, ToSet(line), EndOf(line))
        /\ before[t].end # NoKey
        /\ marker.start # NoKey => before[t].end = EndOf(line)
    BY <1>1, LinkFacts
  <1>3. /\ marker' = marker /\ exists' = exists /\ next' = [next EXCEPT ![before[t].end] = key[t]]
        /\ next \in [Keys -> Names] /\ key[t] \in Keys
    BY DEF CommonInv, TypeOK, Link
  <1>4. CASE marker.start = NoKey
    <2>1. more = line /\ ToSet(line) = {}
      BY <1>1, <1>4 DEF LineSet
    <2>2. PartsInv(ToSet(more), EndOf(more))'
      BY <1>1, <1>4, <2>1, LinkParts
    <2>3. IsLine(line, marker.start, exists', next')
      <3>1. ToSet(line) \subseteq exists' /\ \A k \in ToSet(line) : next'[k] = next[k]
        BY <2>1
      <3> QED
        BY <1>1, <3>1, LineKept
    <2> QED
      BY <1>3, <2>1, <2>2, <2>3 DEF LineInv, PartsInv
  <1>5. CASE marker.start # NoKey
    <2>1. key[t] \in Keys \ ToSet(line) /\ key[t] \in exists /\ next[key[t]] = NoKey
      BY <1>2, <1>3 DEF PushInv
    <2>2. more = Append(line, key[t])
      BY <1>5
    <2>3. /\ IsLine(more, marker.start, exists, next')
          /\ ToSet(more) = ToSet(line) \cup {key[t]} /\ EndOf(more) = key[t]
      <3> DEFINE k == key[t]
                 start == marker.start
      <3>1. /\ IsLine(line, start, exists, next) /\ start # NoKey /\ next \in [Keys -> Names]
            /\ k \in Keys /\ k \notin ToSet(line) /\ k \in exists /\ next[k] = NoKey
        BY <1>1, <1>3, <1>5, <2>1
      <3>2. next' = [next EXCEPT ![EndOf(line)] = k]
        BY <1>2, <1>3, <1>5
      <3> HIDE DEF k, start
      <3>3. IsLine(Append(line, k), start, exists, next')
        BY <3>1, <3>2, LineAppend, Zenon
      <3>4. ToSet(Append(line, k)) = ToSet(line) \cup {k} /\ EndOf(Append(line, k)) = k
        BY <1>1, <3>1, AppendedKeys, Zenon
      <3> QED
        BY <2>2, <3>3, <3>4, Zenon DEF k, start
    <2>4. PartsInv(ToSet(more), EndOf(more))'
      BY <1>1, <1>5, <2>3, LinkParts
    <2> QED
      BY <1>2, <1>3, <1>5, <2>3, <2>4 DEF LineInv, PartsInv
  <1> QED
    BY <1>4, <1>5

LEMMA SetFirstLine ==
    ASSUME CommonInv, NEW line, LineInv(line), PushesApart, NEW t \in Threads, SetFirst(t), UNCHANGED met
    PROVE  LineInv(line)'
  <1>1. /\ LineSet(ToSet(line), EndOf(line)) /\ PartsInv(ToSet(line), EndOf(line))
        /\ IsLine(line, marker.start, exists, next)
    BY LineParts
  <1>2. ~fifo /\ pc[t] = "set" /\ Pushing(t) /\ PushInv(t, ToSet(line), EndOf(line))
    BY <1>1 DEF CommonInv, StepsInv, Pushing, SetFirst, PartsInv, CallsInv
  <1>3. /\ marker' = marker /\ exists' = exists \cup {key[t]}
        /\ next' = [next EXCEPT ![key[t]] = before[t].start]
        /\ next \in [Keys -> Names]
    BY DEF CommonInv, TypeOK, SetFirst
  <1>4. key[t] \notin ToSet(line)
    BY <1>2 DEF PushInv, Linked
  <1>5. IsLine(line, marker.start, exists', next')
    <2>1. ToSet(line) \subseteq exists' /\ \A k \in ToSet(line) : next'[k] = next[k]
      BY <1>1, <1>3, <1>4 DEF LineSet
    <2> QED
      BY <1>1, <2>1, LineKept
  <1>6. PartsInv(ToSet(line), EndOf(line))'
    BY <1>1, SetFirstParts
  <1> QED
    BY <1>3, <1>5, <1>6 DEF LineInv, PartsInv

LEMMA MarkLine ==
    ASSUME CommonInv, NEW line, LineInv(line), PushesApart, NEW t \in Threads, Mark(t), UNCHANGED met,
           NEW more, more = IF fifo /\ Linked(t) THEN line ELSE <<key[t]>> \o line
    PROVE  LineInv(more)'
  <1>1. /\ LineSet(ToSet(line), EndOf(line)) /\ PartsInv(ToSet(line), EndOf(line))
        /\ line \in Seq(Keys) /\ IsLine(line, marker.start, exists, next)
    BY LineParts
  <1>2. /\ fifo /\ Linked(t) => /\ marker.start # NoKey /\ marker' = [marker EXCEPT !.end = key[t]]
                                /\ key[t] = EndOf(line) /\ key[t] \in ToSet(line)
        /\ fifo /\ ~Linked(t) => /\ marker.start = NoKey /\ (marker.start)' = key[t]
                                 /\ next[key[t]] = NoKey /\ key[t] \in exists
        /\ ~fifo => /\ (marker.start)' = key[t]
                    /\ next[key[t]] = marker.start /\ key[t] \in exists
        /\ ~(fifo /\ Linked(t)) => key[t] \notin ToSet(line)
    BY <1>1, MarkFacts
  <1>3. exists' = exists /\ next' = next /\ key[t] \in Keys
    BY DEF CommonInv, TypeOK, Mark
  <1>4. CASE fifo /\ Linked(t)
    <2>1. more = line /\ (marker.start)' = marker.start
      BY <1>2, <1>4 DEF CommonInv, TypeOK, Markers
    <2>2. ToSet(more) = ToSet(line) \cup {key[t]} /\ EndOf(more) = key[t]
      BY <1>2, <1>4, <2>1
    <2>3. PartsInv(ToSet(more), EndOf(more))'
      BY <1>1, <2>2, MarkParts
    <2> QED
      BY <1>1, <1>3, <2>1, <2>3 DEF LineInv, PartsInv
  <1>5. CASE ~(fifo /\ Linked(t))
    <2>1. more = <<key[t]>> \o line
      BY <1>5
    <2>2. key[t] \in Keys \ ToSet(line) /\ key[t] \in exists /\ next[key[t]] = marker.start
      BY <1>2, <1>3, <1>5
    <2>3. /\ IsLine(more, key[t], exists, next)
          /\ ToSet(more) = ToSet(line) \cup {key[t]}
          /\ EndOf(more) = IF marker.start = NoKey THEN key[t] ELSE EndOf(line)
      BY <1>1, <2>1, <2>2, LinePrepend
    <2>4. fifo => EndOf(more) = key[t]
      BY <1>2, <1>5, <2>3
    <2>5. PartsInv(ToSet(more), EndOf(more))'
      BY <1>1, <2>3, <2>4, MarkParts
    <2> QED
      BY <1>2, <1>3, <1>5, <2>3, <2>5 DEF LineInv, PartsInv
  <1> QED
    BY <1>4, <1>5

LEMMA MarkAfterEmptiedLine ==
    ASSUME CommonInv, NEW line, LineInv(line), PushesApart, NEW t \in Threads,
           MarkAfterEmptied(t), UNCHANGED met
    PROVE  LineInv(line)' /\ mixed
  <1>1. LineSet(ToSet(line), EndOf(line)) /\ PartsInv(ToSet(line), EndOf(line))
    BY LineParts
  <1>2. PartsInv(ToSet(line), EndOf(line))' /\ mixed
    BY <1>1, MarkAfterEmptiedParts
  <1>3. marker' = marker /\ exists' = exists /\ next' = next
    BY DEF MarkAfterEmptied, store
  <1> QED
    BY <1>2, <1>3 DEF LineInv, PartsInv

LEMMA UnmarkLine ==
    ASSUME CommonInv, NEW line, LineInv(line), PushesApart, NEW t \in Threads, Unmark(t), UNCHANGED met,
           NEW rest, rest = IF nxt[t] = next[marker.start] THEN Tail(line) ELSE <<>>
    PROVE  LineInv(rest)'
  <1>1. /\ LineSet(ToSet(line), EndOf(line)) /\ PartsInv(ToSet(line), EndOf(line))
        /\ IsLine(line, marker.start, exists, next)
    BY LineParts
  <1>2. /\ marker.start \in Keys
        /\ nxt[t] \in {NoKey, next[marker.start]}
        /\ (marker.start)' = nxt[t]
    BY <1>1, UnmarkFacts
  <1>3. exists' = exists /\ next' = next
    BY DEF Unmark
  <1>4. CASE nxt[t] = next[marker.start]
    <2>1. marker.start # NoKey /\ rest = Tail(line)
      BY <1>2, <1>4, QueueAssumption
    <2>2. /\ IsLine(rest, next[marker.start], exists, next)
          /\ ToSet(rest) = ToSet(line) \ {marker.start}
          /\ next[marker.start] # NoKey => EndOf(rest) = EndOf(line)
      <3> DEFINE start == marker.start
      <3>1. IsLine(line, start, exists, next) /\ start # NoKey /\ rest = Tail(line)
        BY <1>1, <2>1
      <3> HIDE DEF start
      <3>2. /\ IsLine(Tail(line), next[start], exists, next)
            /\ ToSet(Tail(line)) = ToSet(line) \ {start}
            /\ next[start] # NoKey => EndOf(Tail(line)) = EndOf(line)
        BY <3>1, LineTail, Zenon
      <3> QED
        BY <3>1, <3>2, Zenon DEF start
    <2>3. next[marker.start] # NoKey => next[marker.start] \in ToSet(rest)
      BY <2>2, LineFacts
    <2>4. PartsInv(ToSet(rest), EndOf(rest))'
      BY <1>1, <1>4, <2>2, <2>3, UnmarkParts
    <2> QED
      BY <1>2, <1>3, <1>4, <2>2, <2>4 DEF LineInv, PartsInv
  <1>5. CASE nxt[t] # next[marker.start]
    <2>1. rest = <<>> /\ nxt[t] = NoKey
      BY <1>2, <1>5
    <2>2. IsLine(rest, NoKey, exists, next) /\ ToSet(rest) = {}
      BY <2>1, NoLine
    <2>3. PartsInv(ToSet(rest), EndOf(rest))'
      BY <1>1, <1>5, <2>1, <2>2, UnmarkParts
    <2> QED
      BY <1>2, <1>3, <2>1, <2>2, <2>3 DEF LineInv, PartsInv
  <1> QED
    BY <1>4, <1>5

LEMMA DropLine ==
    ASSUME CommonInv, NEW line, LineInv(line), PushesApart, NEW t \in Threads,
           Drop(t) \/ DropWithValue(t), UNCHANGED met
    PROVE  LineInv(line)'
  <1>1. /\ LineSet(ToSet(line), EndOf(line)) /\ PartsInv(ToSet(line), EndOf(line))
        /\ IsLine(line, marker.start, exists, next)
    BY LineParts
  <1>2. /\ PartsInv(ToSet(line), EndOf(line))'
        /\ before[t].start \notin ToSet(line)
        /\ exists' = exists \ {before[t].start} /\ next' = [next EXCEPT ![before[t].start] = NoKey]
    BY <1>1, DropParts
  <1>3. marker' = marker /\ next \in [Keys -> Names]
    BY DEF CommonInv, TypeOK, Drop, DropWithValue
  <1>4. IsLine(line, marker.start, exists', next')
    <2>1. ToSet(line) \subseteq exists' /\ \A k \in ToSet(line) : next'[k] = next[k]
      BY <1>1, <1>2, <1>3 DEF LineSet
    <2> QED
      BY <1>1, <2>1, LineKept
  <1> QED
    BY <1>2, <1>3, <1>4 DEF LineInv, PartsInv

LEMMA BeginLine ==
    ASSUME CommonInv, NEW line, LineInv(line), PushesApart, PushesApart', NEW t \in Threads,
           BeginPush(t) \/ BeginPop(t) \/ \E n \in 1 .. MaxCount : BeginRemove(t, n)
    PROVE  LineInv(line)'
  <1>1. /\ LineSet(ToSet(line), EndOf(line)) /\ PartsInv(ToSet(line), EndOf(line))
        /\ IsLine(line, marker.start, exists, next)
    BY LineParts
  <1>2. CASE BeginPush(t)
    <2>1. PartsInv(ToSet(line), EndOf(line))'
      BY <1>1, <1>2, BeginPushParts
    <2>2. marker' = marker /\ next' = next /\ exists \subseteq exists'
      BY <1>2 DEF BeginPush
    <2>3. IsLine(line, marker.start, exists', next')
      <3>1. ToSet(line) \subseteq exists' /\ \A k \in ToSet(line) : next'[k] = next[k]
        BY <1>1, <2>2 DEF LineSet
      <3> QED
        BY <1>1, <3>1, LineKept
    <2> QED
      BY <2>1, <2>2, <2>3 DEF LineInv, PartsInv
  <1>3. CASE BeginPop(t) \/ \E n \in 1 .. MaxCount : BeginRemove(t, n)
    <2>1. /\ \E j \in {"pop", "rem"} : Begin(t, j, "read")
          /\ UNCHANGED <<store, key, before, last, nxt, junk, top, held>>
      BY <1>3 DEF BeginPop, BeginRemove, frame
    <2>2. PartsInv(ToSet(line), EndOf(line))'
      BY <1>1, <2>1, BeginTakeParts
    <2> QED
      BY <1>1, <2>1, <2>2 DEF LineInv, PartsInv, store
  <1> QED
    BY <1>2, <1>3


\* No step changes what kind of queue it is, nor forgets who has met.
LEMMA StepKeeps ==
    ASSUME CommonInv, [Next]_vars
    PROVE  fifo' = fifo /\ met \subseteq met'
  <1>1. ASSUME NEW t \in Threads, Step(t) PROVE fifo' = fifo /\ met' = met
    <2>1. TypeOK /\ met' = met
      BY <1>1 DEF CommonInv, Step
    <2>2. ReadMarker(t) => fifo' = fifo
      BY Zenon DEF ReadMarker, store
    <2>3. Link(t) => fifo' = fifo
      BY Zenon DEF Link, store
    <2>4. LinkTaken(t) => fifo' = fifo
      BY Zenon DEF LinkTaken, store
    <2>5. LinkFails(t) => fifo' = fifo
      BY Zenon DEF LinkFails, store
    <2>6. LinkRetries(t) => fifo' = fifo
      BY Zenon DEF LinkRetries, store
    <2>7. SetFirst(t) => fifo' = fifo
      BY Zenon DEF SetFirst, store
    <2>8. SetAgain(t) => fifo' = fifo
      BY Zenon DEF SetAgain, store
    <2>9. EraseSubKey(t) => fifo' = fifo
      BY Zenon DEF EraseSubKey, store
    <2>10. Mark(t) => fifo' = fifo
      BY Zenon DEF Mark, store
    <2>11. MarkAfterEmptied(t) => fifo' = fifo
      BY Zenon DEF MarkAfterEmptied, store
    <2>12. MarkAgain(t) => fifo' = fifo
      BY Zenon DEF MarkAgain, store
    <2>13. MarkOwn(t) => fifo' = fifo
      BY Zenon DEF MarkOwn, store
    <2>14. MarkDeep(t) => fifo' = fifo
      BY Zenon DEF MarkDeep, store
    <2>15. CheckQueued(t) => fifo' = fifo
      BY Zenon DEF CheckQueued, store
    <2>16. CheckRetries(t) => fifo' = fifo
      BY Zenon DEF CheckRetries, store
    <2>17. ReadNone(t) => fifo' = fifo
      BY Zenon DEF ReadNone, store
    <2>18. ReadSome(t) => fifo' = fifo
      BY Zenon DEF ReadSome, store
    <2>19. ReadNext(t) => fifo' = fifo
      BY Zenon DEF ReadNext, store
    <2>20. ReadValue(t) => fifo' = fifo
      BY Zenon DEF ReadValue, store
    <2>21. Unmark(t) => fifo' = fifo
      BY Zenon DEF Unmark, store
    <2>22. PopAgain(t) => fifo' = fifo
      BY Zenon DEF PopAgain, store
    <2>23. RoundLost(t) => fifo' = fifo
      BY Zenon DEF RoundLost, store
    <2>24. UnmarkEmpty(t) => fifo' = fifo
      BY Zenon DEF UnmarkEmpty, store
    <2>25. Drop(t) => fifo' = fifo
      BY Zenon DEF Drop, store
    <2>26. DropWithValue(t) => fifo' = fifo
      BY Zenon DEF DropWithValue, store
    <2>27. RemoveTop(t) => fifo' = fifo
      BY Zenon DEF RemoveTop, store
    <2>28. KeepTop(t) => fifo' = fifo
      BY Zenon DEF KeepTop, store
    <2>29. RemoveAfter(t) => fifo' = fifo
      BY Zenon DEF RemoveAfter, store
    <2>30. KeepAfter(t) => fifo' = fifo
      BY Zenon DEF KeepAfter, store
    <2>31. AskFails(t) => fifo' = fifo
      BY Zenon DEF AskFails, store
    <2>32. AtEnd(t) => fifo' = fifo
      BY Zenon DEF AtEnd, store
    <2>33. GoAfter(t) => fifo' = fifo
      BY Zenon DEF GoAfter, store
    <2>34. ReadAfter(t) => fifo' = fifo
      BY Zenon DEF ReadAfter, store
    <2>35. AfterLast(t) => fifo' = fifo
      BY Zenon DEF AfterLast, store
    <2>36. StopCutting(t) => fifo' = fifo
      BY Zenon DEF StopCutting, store
    <2>37. RoundsOver(t) => fifo' = fifo
      BY Zenon DEF RoundsOver, store
    <2> QED
      BY <1>1, <2>1, <2>2, <2>3, <2>4, <2>5, <2>6, <2>7, <2>8, <2>9, <2>10, <2>11, <2>12, <2>13, <2>14, <2>15, <2>16, <2>17, <2>18, <2>19, <2>20, <2>21, <2>22, <2>23, <2>24, <2>25, <2>26, <2>27, <2>28, <2>29, <2>30, <2>31, <2>32, <2>33, <2>34, <2>35, <2>36, <2>37, StepCases, Zenon
  <1>2. ASSUME NEW t \in Threads, BeginPush(t) \/ BeginPop(t) \/ \E n \in 1 .. MaxCount : BeginRemove(t, n)
        PROVE  fifo' = fifo /\ met \subseteq met'
    BY <1>2 DEF BeginPush, BeginPop, BeginRemove, Begin, store
  <1>3. UNCHANGED vars => fifo' = fifo /\ met' = met
    BY DEF vars, store
  <1> QED
    BY <1>1, <1>2, <1>3 DEF Next, Done

LEMMA ApartBefore ==
    ASSUME CommonInv, [Next]_vars
    PROVE  /\ (~mixed)' => ~mixed
           /\ PushesApart' => PushesApart
  <1>1. fifo' = fifo /\ met \subseteq met'
    BY StepKeeps
  <1>2. (~mixed)' => ~mixed
    BY <1>1 DEF mixed, Harmless
  <1> QED
    BY <1>1, <1>2 DEF PushesApart

LEMMA CommonStep ==
    ASSUME CommonInv, [Next]_vars
    PROVE  CommonInv'
  <1>1. ASSUME NEW t \in Threads, BeginPush(t) PROVE CommonInv'
    BY <1>1, BeginPushCommon
  <1>2. ASSUME NEW t \in Threads, BeginPop(t) PROVE CommonInv'
    BY <1>2, BeginPopCommon
  <1>3. ASSUME NEW t \in Threads, NEW n \in 1 .. MaxCount, BeginRemove(t, n) PROVE CommonInv'
    BY <1>3, BeginRemoveCommon
  <1>4. ASSUME NEW t \in Threads, Step(t) PROVE CommonInv'
    BY <1>4, StepCommon
  <1>5. ASSUME UNCHANGED vars PROVE CommonInv'
    <2>1. TypeOK'
      BY <1>5 DEF CommonInv, TypeOK, vars, store, frame, aux
    <2>2. StepsInv' /\ RoundsInv'
      BY <1>5 DEF CommonInv, StepsInv, RoundsInv, vars, store, frame, aux
    <2>3. NamesInv' /\ MetInv'
      BY <1>5 DEF CommonInv, NamesInv, MetInv, Pushing, vars, store, frame, aux
    <2> QED
      BY <2>1, <2>2, <2>3 DEF CommonInv
  <1> QED
    BY <1>1, <1>2, <1>3, <1>4, <1>5 DEF Next, Done

LEMMA LineStutter ==
    ASSUME NEW line, LineInv(line), UNCHANGED vars
    PROVE  LineInv(line)'
  <1>1. UNCHANGED <<store, pc, job, frame, aux, met>>
    BY DEF vars
  <1>2. /\ marker' = marker /\ exists' = exists /\ next' = next /\ fresh' = fresh /\ fifo' = fifo
        /\ pushed' = pushed /\ taken' = taken /\ met' = met /\ GetMarker' = GetMarker /\ mixed' = mixed
        /\ pc' = pc /\ job' = job /\ key' = key /\ before' = before /\ nxt' = nxt /\ top' = top /\ held' = held
    BY <1>1 DEF store, frame, aux, GetMarker, mixed, Harmless
  <1>3. \A t \in Threads : /\ (Linked(t))' <=> Linked(t)
                           /\ (Pushing(t))' <=> Pushing(t)
                           /\ (Taking(t))' <=> Taking(t)
    BY <1>2 DEF Linked, Pushing, Taking
  <1>4. KeysInv(ToSet(line))' /\ EndInv(EndOf(line))'
    BY <1>2, <1>3 DEF LineInv, KeysInv, EndInv
  <1>5. ASSUME NEW t \in Threads
        PROVE  /\ PushInv(t, ToSet(line), EndOf(line)) => PushInv(t, ToSet(line), EndOf(line))'
               /\ TakeInv(t) => TakeInv(t)'
    <2>1. PushInv(t, ToSet(line), EndOf(line)) => PushInv(t, ToSet(line), EndOf(line))'
      BY <1>2, <1>3 DEF PushInv
    <2>2. TakeInv(t) => TakeInv(t)'
      BY <1>2 DEF TakeInv
    <2> QED
      BY <2>1, <2>2
  <1>6. CallsInv(ToSet(line), EndOf(line))'
    BY <1>3, <1>5 DEF LineInv, CallsInv
  <1> QED
    BY <1>2, <1>4, <1>6 DEF LineInv

LEMMA LineSeq ==
    ASSUME NEW line, LineInv(line)'
    PROVE  line \in Seq(Keys)
  BY DEF LineInv, IsLine

\* A step of a call leaves a line.
LEMMA LineStep ==
    ASSUME CommonInv, PushesApart, NEW line, LineInv(line), NEW t \in Threads, Step(t)
    PROVE  \E more \in Seq(Keys) : LineInv(more)'
  <1>1. UNCHANGED met
    BY DEF Step
  <1>2. CASE QuietStep(t)
    BY <1>1, <1>2, QuietLine, LineSeq
  <1>3. CASE SetFirst(t)
    BY <1>1, <1>3, SetFirstLine, LineSeq
  <1>4. CASE MarkAfterEmptied(t)
    BY <1>1, <1>4, MarkAfterEmptiedLine, LineSeq
  <1>5. CASE Drop(t) \/ DropWithValue(t)
    BY <1>1, <1>5, DropLine, LineSeq
  <1>6. CASE Link(t)
    <2>1. PICK more : more = IF marker.start = NoKey THEN line ELSE Append(line, key[t])
      OBVIOUS
    <2> QED
      BY <1>1, <1>6, <2>1, LinkLine, LineSeq
  <1>7. CASE Mark(t)
    <2>1. PICK more : more = IF fifo /\ Linked(t) THEN line ELSE <<key[t]>> \o line
      OBVIOUS
    <2> QED
      BY <1>1, <1>7, <2>1, MarkLine, LineSeq
  <1>8. CASE Unmark(t)
    <2>1. PICK rest : rest = IF nxt[t] = next[marker.start] THEN Tail(line) ELSE <<>>
      OBVIOUS
    <2> QED
      BY <1>1, <1>8, <2>1, UnmarkLine, LineSeq
  <1> QED
    BY <1>2, <1>3, <1>4, <1>5, <1>6, <1>7, <1>8, StepKinds, Zenon

LEMMA EmptyLine == Init => LineInv(<<>>)
  <1> SUFFICES ASSUME Init PROVE LineInv(<<>>)
    OBVIOUS
  <1>1. IsLine(<<>>, NoKey, exists, next) /\ ToSet(<<>>) = {}
    BY NoLine
  <1>2. marker.start = NoKey
    BY DEF Init, NoMarker
  <1>3. KeysInv({}) /\ EndInv(EndOf(<<>>)) /\ CallsInv({}, EndOf(<<>>))
    BY <1>2 DEF Init, KeysInv, EndInv, CallsInv, Pushing, Taking
  <1> QED
    BY <1>1, <1>2, <1>3, Zenon DEF LineInv

LEMMA QueueInit == Init => QueueInv
  <1> SUFFICES ASSUME Init PROVE QueueInv
    OBVIOUS
  <1>1. NoMarker \in Markers /\ NoMarker.start = NoKey /\ NoKey \in Names /\ NoKey \notin Keys
    BY QueueAssumption DEF NoMarker, Markers, Names
  <1>2. (CHOOSE k \in Keys : TRUE) \in Keys
    BY QueueAssumption
  <1>3. TypeOK
    <2>1. /\ marker \in Markers /\ exists \subseteq Keys /\ next \in [Keys -> Names]
          /\ fresh \subseteq Keys /\ fifo \in BOOLEAN
      BY <1>1 DEF Init
    <2>2. pc \in [Threads -> Steps] /\ job \in [Threads -> {"push", "pop", "rem"}]
      BY DEF Init, Steps
    <2>3. /\ key \in [Threads -> Keys] /\ before \in [Threads -> Markers]
          /\ last \in [Threads -> Names] /\ nxt \in [Threads -> Names]
          /\ junk \in [Threads -> Names] /\ top \in [Threads -> Names]
          /\ held \in [Threads -> BOOLEAN] /\ res \in [Threads -> Names \cup {Failed}]
      BY <1>1, <1>2 DEF Init
    <2>4. left \in [Threads -> 0 .. MaxCount] /\ calls \in 0 .. MaxCalls
      BY QueueAssumption DEF Init
    <2>5. pushed \subseteq Keys /\ taken \subseteq Keys /\ met \subseteq Kinds
      BY DEF Init
    <2> QED
      BY <2>1, <2>2, <2>3, <2>4, <2>5, Zenon DEF TypeOK
  <1>4. StepsInv /\ RoundsInv /\ NamesInv /\ MetInv
    BY DEF Init, StepsInv, RoundsInv, NamesInv, MetInv, Pushing
  <1>5. LineInv(<<>>)
    BY EmptyLine
  <1>6. <<>> \in Seq(Keys)
    OBVIOUS
  <1> QED
    BY <1>3, <1>4, <1>5, <1>6, Zenon DEF QueueInv, CommonInv

LEMMA QueueStep == QueueInv /\ [Next]_vars => QueueInv'
  <1> SUFFICES ASSUME QueueInv, [Next]_vars PROVE QueueInv'
    OBVIOUS
  <1>1. CommonInv /\ CommonInv'
    BY CommonStep DEF QueueInv
  <1>2. ASSUME PushesApart'
        PROVE  \E more \in Seq(Keys) : LineInv(more)'
    <2>1. PushesApart
      BY <1>1, <1>2, ApartBefore
    <2>2. PICK line \in Seq(Keys) : LineInv(line)
      BY <2>1 DEF QueueInv
    <2>3. ASSUME NEW t \in Threads, Step(t) PROVE \E more \in Seq(Keys) : LineInv(more)'
      BY <1>1, <2>1, <2>2, <2>3, LineStep
    <2>4. ASSUME NEW t \in Threads, BeginPush(t) \/ BeginPop(t) \/ \E n \in 1 .. MaxCount : BeginRemove(t, n)
          PROVE  LineInv(line)'
      BY <1>1, <1>2, <2>1, <2>2, <2>4, BeginLine
    <2>5. UNCHANGED vars => LineInv(line)'
      BY <2>2, LineStutter
    <2> QED
      BY <2>2, <2>3, <2>4, <2>5 DEF Next, Done
  <1> QED
    BY <1>1, <1>2 DEF QueueInv

\* The common invariant always holds, and so does that of the line for as long as the
\* calls that need it are kept apart.
THEOREM QueueInvariant == Spec => []QueueInv
  <1>1. Init => QueueInv
    BY QueueInit
  <1>2. QueueInv /\ [Next]_vars => QueueInv'
    BY QueueStep
  <1> QED
    BY <1>1, <1>2, PTL DEF Spec

-----------------------------------------------------------------------------
\* What follows for the properties of K2HQueue.

\* Every variable keeps its type.
THEOREM TypeCorrect == Spec => []TypeOK
  <1>1. QueueInv => TypeOK
    BY DEF QueueInv, CommonInv
  <1> QED
    BY <1>1, QueueInvariant, PTL

\* The keys that Pop after Pop would return are the line.
LEMMA ChainOfLine ==
    ASSUME NEW line, LineInv(line)
    PROVE  Chain = line
  <1>1. IsLine(line, marker.start, exists, next)
    BY DEF LineInv
  <1>2. ChainOf(marker.start, exists, next) = line
    <2> DEFINE start == marker.start
    <2>1. IsLine(line, start, exists, next)
      BY <1>1
    <2> HIDE DEF start
    <2>2. ChainOf(start, exists, next) = line
      BY <2>1, ChainIsLine, Zenon
    <2> QED
      BY <2>2 DEF start
  <1>3. Chain = ChainOf(marker.start, exists, next)
    BY Zenon DEF Chain, ChainOf, SubKey, SubKeyIn, Extended
  <1> QED
    BY <1>2, <1>3

LEMMA ChainOfLineNext ==
    ASSUME NEW line, LineInv(line)'
    PROVE  Chain' = line
  <1>1. IsLine(line, (marker.start)', exists', next')
    BY DEF LineInv
  <1>2. ChainOf((marker.start)', exists', next') = line
    <2> DEFINE start == (marker.start)'
    <2>1. IsLine(line, start, exists', next')
      BY <1>1
    <2> HIDE DEF start
    <2>2. ChainOf(start, exists', next') = line
      BY <2>1, ChainIsLine, Zenon
    <2> QED
      BY <2>2 DEF start
  <1>3. Chain' = ChainOf((marker.start)', exists', next')
    BY Zenon DEF Chain, ChainOf, SubKey, SubKeyIn, Extended
  <1> QED
    BY <1>2, <1>3

\* A key whose push has returned true is in the queue until a call takes it, as long
\* as pushes meet no call that takes keys, nor LIFO pushes each other.
THEOREM NothingIsLost == Spec => []NothingLostApart
  <1>1. QueueInv => NothingLostApart
    <2> SUFFICES ASSUME QueueInv, ~mixed PROVE NothingLost
      BY DEF NothingLostApart
    <2>1. PICK line \in Seq(Keys) : LineInv(line)
      BY DEF QueueInv, PushesApart
    <2>2. Chain = line
      BY <2>1, ChainOfLine
    <2>3. pushed \ taken \subseteq ToSet(line)
      BY <2>1 DEF LineInv, KeysInv
    <2>4. ToSet(line) \subseteq exists
      BY <2>1, LineParts DEF LineSet
    <2> QED
      BY <2>2, <2>3, <2>4, Zenon DEF NothingLost
  <1> QED
    BY <1>1, QueueInvariant, PTL


\* The frames of the other threads, and what they have returned, stay as they are.
LEMMA StepOthers ==
    ASSUME TypeOK, NEW t \in Threads, Step(t)
    PROVE  Others(t) /\ \A u \in Threads \ {t} : res'[u] = res[u]
  <1>1. ReadMarker(t) => Others(t) /\ \A u \in Threads \ {t} : res'[u] = res[u]
    BY DEF TypeOK, Others, ReadMarker, Goto, store, aux
  <1>2. Link(t) => Others(t) /\ \A u \in Threads \ {t} : res'[u] = res[u]
    BY DEF TypeOK, Others, Link, Goto, aux
  <1>3. LinkTaken(t) => Others(t) /\ \A u \in Threads \ {t} : res'[u] = res[u]
    BY DEF TypeOK, Others, LinkTaken, Goto, store, aux
  <1>4. LinkFails(t) => Others(t) /\ \A u \in Threads \ {t} : res'[u] = res[u]
    BY DEF TypeOK, Others, LinkFails, Return, Goto, store, aux
  <1>5. LinkRetries(t) => Others(t) /\ \A u \in Threads \ {t} : res'[u] = res[u]
    BY DEF TypeOK, Others, LinkRetries, Goto, store, aux
  <1>6. SetFirst(t) => Others(t) /\ \A u \in Threads \ {t} : res'[u] = res[u]
    BY DEF TypeOK, Others, SetFirst, Goto, frame, aux
  <1>7. SetAgain(t) => Others(t) /\ \A u \in Threads \ {t} : res'[u] = res[u]
    BY DEF TypeOK, Others, SetAgain, Goto, aux
  <1>8. EraseSubKey(t) => Others(t) /\ \A u \in Threads \ {t} : res'[u] = res[u]
    BY DEF TypeOK, Others, EraseSubKey, SubKey, Goto, aux
  <1>9. Mark(t) => Others(t) /\ \A u \in Threads \ {t} : res'[u] = res[u]
    BY DEF TypeOK, Others, Mark, PushReturns, Return, Goto
  <1>10. MarkAfterEmptied(t) => Others(t) /\ \A u \in Threads \ {t} : res'[u] = res[u]
    BY DEF TypeOK, Others, MarkAfterEmptied, PushReturns, Return, Goto, store
  <1>11. MarkAgain(t) => Others(t) /\ \A u \in Threads \ {t} : res'[u] = res[u]
    BY DEF TypeOK, Others, MarkAgain, Goto, store, frame, aux
  <1>12. MarkOwn(t) => Others(t) /\ \A u \in Threads \ {t} : res'[u] = res[u]
    BY DEF TypeOK, Others, MarkOwn, PushReturns, Return, Goto, store
  <1>13. MarkDeep(t) => Others(t) /\ \A u \in Threads \ {t} : res'[u] = res[u]
    BY DEF TypeOK, Others, MarkDeep, Goto, store, aux
  <1>14. CheckQueued(t) => Others(t) /\ \A u \in Threads \ {t} : res'[u] = res[u]
    BY DEF TypeOK, Others, CheckQueued, PushReturns, Return, Goto, store
  <1>15. CheckRetries(t) => Others(t) /\ \A u \in Threads \ {t} : res'[u] = res[u]
    BY DEF TypeOK, Others, CheckRetries, Goto, store, frame, aux
  <1>16. ReadNone(t) => Others(t) /\ \A u \in Threads \ {t} : res'[u] = res[u]
    BY DEF TypeOK, Others, ReadNone, Return, Goto, store, aux
  <1>17. ReadSome(t) => Others(t) /\ \A u \in Threads \ {t} : res'[u] = res[u]
    BY DEF TypeOK, Others, ReadSome, Goto, store, aux
  <1>18. ReadNext(t) => Others(t) /\ \A u \in Threads \ {t} : res'[u] = res[u]
    BY DEF TypeOK, Others, ReadNext, Goto, store, aux
  <1>19. ReadValue(t) => Others(t) /\ \A u \in Threads \ {t} : res'[u] = res[u]
    BY DEF TypeOK, Others, ReadValue, Goto, store, aux
  <1>20. Unmark(t) => Others(t) /\ \A u \in Threads \ {t} : res'[u] = res[u]
    BY DEF TypeOK, Others, Unmark, Goto, frame
  <1>21. PopAgain(t) => Others(t) /\ \A u \in Threads \ {t} : res'[u] = res[u]
    BY DEF TypeOK, Others, PopAgain, Goto, store, frame, aux
  <1>22. RoundLost(t) => Others(t) /\ \A u \in Threads \ {t} : res'[u] = res[u]
    BY DEF TypeOK, Others, RoundLost, EndRound, Goto, store, aux
  <1>23. UnmarkEmpty(t) => Others(t) /\ \A u \in Threads \ {t} : res'[u] = res[u]
    BY DEF TypeOK, Others, UnmarkEmpty, Return, Goto, store, aux
  <1>24. Drop(t) => Others(t) /\ \A u \in Threads \ {t} : res'[u] = res[u]
    BY DEF TypeOK, Others, Drop, Dropped, Return, Goto, aux
  <1>25. DropWithValue(t) => Others(t) /\ \A u \in Threads \ {t} : res'[u] = res[u]
    BY DEF TypeOK, Others, DropWithValue, Dropped, EndRound, Goto, aux
  <1>26. RemoveTop(t) => Others(t) /\ \A u \in Threads \ {t} : res'[u] = res[u]
    BY DEF TypeOK, Others, RemoveTop, Goto, store, frame, aux
  <1>27. KeepTop(t) => Others(t) /\ \A u \in Threads \ {t} : res'[u] = res[u]
    BY DEF TypeOK, Others, KeepTop, EndRound, Goto, store, aux
  <1>28. RemoveAfter(t) => Others(t) /\ \A u \in Threads \ {t} : res'[u] = res[u]
    BY DEF TypeOK, Others, RemoveAfter, Goto, store, frame, aux
  <1>29. KeepAfter(t) => Others(t) /\ \A u \in Threads \ {t} : res'[u] = res[u]
    BY DEF TypeOK, Others, KeepAfter, EndRound, Goto, store, aux
  <1>30. AskFails(t) => Others(t) /\ \A u \in Threads \ {t} : res'[u] = res[u]
    BY DEF TypeOK, Others, AskFails, Return, Goto, store, aux
  <1>31. AtEnd(t) => Others(t) /\ \A u \in Threads \ {t} : res'[u] = res[u]
    BY DEF TypeOK, Others, AtEnd, Return, Goto, store, aux
  <1>32. GoAfter(t) => Others(t) /\ \A u \in Threads \ {t} : res'[u] = res[u]
    BY DEF TypeOK, Others, GoAfter, Goto, store, frame, aux
  <1>33. ReadAfter(t) => Others(t) /\ \A u \in Threads \ {t} : res'[u] = res[u]
    BY DEF TypeOK, Others, ReadAfter, Goto, store, aux
  <1>34. AfterLast(t) => Others(t) /\ \A u \in Threads \ {t} : res'[u] = res[u]
    BY DEF TypeOK, Others, AfterLast, Return, Goto, store, aux
  <1>35. StopCutting(t) => Others(t) /\ \A u \in Threads \ {t} : res'[u] = res[u]
    BY DEF TypeOK, Others, StopCutting, Return, Goto, store, aux
  <1>36. RoundsOver(t) => Others(t) /\ \A u \in Threads \ {t} : res'[u] = res[u]
    BY DEF TypeOK, Others, RoundsOver, Return, Goto, store, aux
  <1> QED
    BY <1>1, <1>2, <1>3, <1>4, <1>5, <1>6, <1>7, <1>8, <1>9, <1>10, <1>11, <1>12, <1>13, <1>14, <1>15, <1>16, <1>17, <1>18, <1>19, <1>20, <1>21, <1>22, <1>23, <1>24, <1>25, <1>26, <1>27, <1>28, <1>29, <1>30, <1>31, <1>32, <1>33, <1>34, <1>35, <1>36, StepCases, Zenon

LEMMA TakingStep ==
    ASSUME TypeOK, NEW t \in Threads, Step(t), pc[t] = "unmark", pc'[t] = "drop"
    PROVE  Unmark(t)
  <1>1. ReadMarker(t) => pc[t] # "unmark" \/ pc'[t] # "drop"
    BY DEF TypeOK, ReadMarker, Goto, store, aux
  <1>2. Link(t) => pc[t] # "unmark" \/ pc'[t] # "drop"
    BY DEF TypeOK, Link, Goto, aux
  <1>3. LinkTaken(t) => pc[t] # "unmark" \/ pc'[t] # "drop"
    BY DEF TypeOK, LinkTaken, Goto, store, aux
  <1>4. LinkFails(t) => pc[t] # "unmark" \/ pc'[t] # "drop"
    BY DEF TypeOK, LinkFails, Return, Goto, store, aux
  <1>5. LinkRetries(t) => pc[t] # "unmark" \/ pc'[t] # "drop"
    BY DEF TypeOK, LinkRetries, Goto, store, aux
  <1>6. SetFirst(t) => pc[t] # "unmark" \/ pc'[t] # "drop"
    BY DEF TypeOK, SetFirst, Goto, frame, aux
  <1>7. SetAgain(t) => pc[t] # "unmark" \/ pc'[t] # "drop"
    BY DEF TypeOK, SetAgain, Goto, aux
  <1>8. EraseSubKey(t) => pc[t] # "unmark" \/ pc'[t] # "drop"
    BY DEF TypeOK, EraseSubKey, SubKey, Goto, aux
  <1>9. Mark(t) => pc[t] # "unmark" \/ pc'[t] # "drop"
    BY DEF TypeOK, Mark, PushReturns, Return, Goto
  <1>10. MarkAfterEmptied(t) => pc[t] # "unmark" \/ pc'[t] # "drop"
    BY DEF TypeOK, MarkAfterEmptied, PushReturns, Return, Goto, store
  <1>11. MarkAgain(t) => pc[t] # "unmark" \/ pc'[t] # "drop"
    BY DEF TypeOK, MarkAgain, Goto, store, frame, aux
  <1>12. MarkOwn(t) => pc[t] # "unmark" \/ pc'[t] # "drop"
    BY DEF TypeOK, MarkOwn, PushReturns, Return, Goto, store
  <1>13. MarkDeep(t) => pc[t] # "unmark" \/ pc'[t] # "drop"
    BY DEF TypeOK, MarkDeep, Goto, store, aux
  <1>14. CheckQueued(t) => pc[t] # "unmark" \/ pc'[t] # "drop"
    BY DEF TypeOK, CheckQueued, PushReturns, Return, Goto, store
  <1>15. CheckRetries(t) => pc[t] # "unmark" \/ pc'[t] # "drop"
    BY DEF TypeOK, CheckRetries, Goto, store, frame, aux
  <1>16. ReadNone(t) => pc[t] # "unmark" \/ pc'[t] # "drop"
    BY DEF TypeOK, ReadNone, Return, Goto, store, aux
  <1>17. ReadSome(t) => pc[t] # "unmark" \/ pc'[t] # "drop"
    BY DEF TypeOK, ReadSome, Goto, store, aux
  <1>18. ReadNext(t) => pc[t] # "unmark" \/ pc'[t] # "drop"
    BY DEF TypeOK, ReadNext, Goto, store, aux
  <1>19. ReadValue(t) => pc[t] # "unmark" \/ pc'[t] # "drop"
    BY DEF TypeOK, ReadValue, Goto, store, aux
  <1>20. PopAgain(t) => pc[t] # "unmark" \/ pc'[t] # "drop"
    BY DEF TypeOK, PopAgain, Goto, store, frame, aux
  <1>21. RoundLost(t) => pc[t] # "unmark" \/ pc'[t] # "drop"
    BY DEF TypeOK, RoundLost, EndRound, Goto, store, aux
  <1>22. UnmarkEmpty(t) => pc[t] # "unmark" \/ pc'[t] # "drop"
    BY DEF TypeOK, UnmarkEmpty, Return, Goto, store, aux
  <1>23. Drop(t) => pc[t] # "unmark" \/ pc'[t] # "drop"
    BY DEF TypeOK, Drop, Dropped, Return, Goto, aux
  <1>24. DropWithValue(t) => pc[t] # "unmark" \/ pc'[t] # "drop"
    BY DEF TypeOK, DropWithValue, Dropped, EndRound, Goto, aux
  <1>25. RemoveTop(t) => pc[t] # "unmark" \/ pc'[t] # "drop"
    BY DEF TypeOK, RemoveTop, Goto, store, frame, aux
  <1>26. KeepTop(t) => pc[t] # "unmark" \/ pc'[t] # "drop"
    BY DEF TypeOK, KeepTop, EndRound, Goto, store, aux
  <1>27. RemoveAfter(t) => pc[t] # "unmark" \/ pc'[t] # "drop"
    BY DEF TypeOK, RemoveAfter, Goto, store, frame, aux
  <1>28. KeepAfter(t) => pc[t] # "unmark" \/ pc'[t] # "drop"
    BY DEF TypeOK, KeepAfter, EndRound, Goto, store, aux
  <1>29. AskFails(t) => pc[t] # "unmark" \/ pc'[t] # "drop"
    BY DEF TypeOK, AskFails, Return, Goto, store, aux
  <1>30. AtEnd(t) => pc[t] # "unmark" \/ pc'[t] # "drop"
    BY DEF TypeOK, AtEnd, Return, Goto, store, aux
  <1>31. GoAfter(t) => pc[t] # "unmark" \/ pc'[t] # "drop"
    BY DEF TypeOK, GoAfter, Goto, store, frame, aux
  <1>32. ReadAfter(t) => pc[t] # "unmark" \/ pc'[t] # "drop"
    BY DEF TypeOK, ReadAfter, Goto, store, aux
  <1>33. AfterLast(t) => pc[t] # "unmark" \/ pc'[t] # "drop"
    BY DEF TypeOK, AfterLast, Return, Goto, store, aux
  <1>34. StopCutting(t) => pc[t] # "unmark" \/ pc'[t] # "drop"
    BY DEF TypeOK, StopCutting, Return, Goto, store, aux
  <1>35. RoundsOver(t) => pc[t] # "unmark" \/ pc'[t] # "drop"
    BY DEF TypeOK, RoundsOver, Return, Goto, store, aux
  <1> QED
    BY <1>1, <1>2, <1>3, <1>4, <1>5, <1>6, <1>7, <1>8, <1>9, <1>10, <1>11, <1>12, <1>13, <1>14, <1>15, <1>16, <1>17, <1>18, <1>19, <1>20, <1>21, <1>22, <1>23, <1>24, <1>25, <1>26, <1>27, <1>28, <1>29, <1>30, <1>31, <1>32, <1>33, <1>34, <1>35, StepCases, Zenon

\* No key is taken off the marker twice, and a Pop has the value of the key it takes,
\* as long as pushes are kept apart as PushesApart says.
THEOREM KeysAreTakenOnce == Spec => TakenOnceAndWhole
  <1> DEFINE Once == \A t \in Threads :
                       PushesApart /\ pc[t] = "unmark" /\ pc'[t] = "drop" =>
                           /\ before[t].start \notin taken
                           /\ job[t] = "pop" => held[t]
  <1>1. ASSUME QueueInv, [Next]_vars PROVE [Once]_vars
    <2> SUFFICES ASSUME Next, NEW t \in Threads, PushesApart, pc[t] = "unmark", pc'[t] = "drop"
                 PROVE  before[t].start \notin taken /\ held[t]
      BY <1>1
    <2>1. CommonInv /\ TypeOK
      BY <1>1 DEF QueueInv, CommonInv
    <2>2. PICK line \in Seq(Keys) : LineInv(line)
      BY <1>1 DEF QueueInv
    <2>3. ASSUME NEW u \in Threads, Step(u)
          PROVE  u = t /\ Unmark(t)
      <3>1. u = t
        BY <2>1, <2>3, StepOthers DEF Others
      <3> QED
        BY <2>1, <2>3, <3>1, TakingStep
    <2>4. ASSUME NEW u \in Threads, NEW j, NEW step, Begin(u, j, step), step # "drop" PROVE FALSE
      BY <2>1, <2>4 DEF Begin, Goto, TypeOK
    <2>5. ASSUME NEW u \in Threads, BeginPush(u) \/ BeginPop(u) \/ \E n \in 1 .. MaxCount : BeginRemove(u, n)
          PROVE  FALSE
      BY <2>4, <2>5 DEF BeginPush, BeginPop, BeginRemove
    <2>6. ~ UNCHANGED vars
      BY DEF vars
    <2>7. Unmark(t)
      BY <2>3, <2>5, <2>6 DEF Next, Done
    <2>8. LineSet(ToSet(line), EndOf(line)) /\ PartsInv(ToSet(line), EndOf(line))
      BY <2>2, LineParts
    <2>9. before[t].start = marker.start /\ marker.start \notin taken /\ held[t]
      BY <2>1, <2>7, <2>8, UnmarkFacts
    <2> QED
      BY <2>9
  <1> QED
    BY <1>1, QueueInvariant, PTL DEF Spec, TakenOnceAndWhole

-----------------------------------------------------------------------------
\* The queue that the callers see.

JobSeen(t) == IF pc[t] = "idle" \/ TookEffect(t) THEN "idle" ELSE job[t]
ResSeen(t) == IF job[t] = "pop" /\ pc[t] = "drop" THEN before[t].start ELSE res[t]

LEMMA SeenStep ==
    ASSUME NEW t \in Threads, Others(t), \A u \in Threads \ {t} : res'[u] = res[u], fifo' = fifo,
           NEW j, NEW r, j = JobSeen(t)', r = ResSeen(t)'
    PROVE  /\ JobBar' = [JobBar EXCEPT ![t] = j] /\ ResBar' = [ResBar EXCEPT ![t] = r]
           /\ JobBar[t] = JobSeen(t) /\ ResBar[t] = ResSeen(t)
           /\ j = JobSeen(t) => JobBar' = JobBar
           /\ r = ResSeen(t) => ResBar' = ResBar
  <1>1. JobBar = [u \in Threads |-> JobSeen(u)] /\ ResBar = [u \in Threads |-> ResSeen(u)]
    BY DEF JobBar, JobSeen, ResBar, ResSeen
  <1>2. JobBar' = [u \in Threads |-> JobSeen(u)'] /\ ResBar' = [u \in Threads |-> ResSeen(u)']
    BY DEF JobBar, JobSeen, ResBar, ResSeen
  <1>3. ASSUME NEW u \in Threads \ {t} PROVE JobSeen(u)' = JobSeen(u) /\ ResSeen(u)' = ResSeen(u)
    BY DEF Others, JobSeen, ResSeen, TookEffect
  <1>4. JobBar' = [u \in Threads |-> IF u = t THEN j ELSE JobSeen(u)]
    BY <1>2, <1>3
  <1>5. ResBar' = [u \in Threads |-> IF u = t THEN r ELSE ResSeen(u)]
    BY <1>2, <1>3
  <1> HIDE DEF JobBar, ResBar, JobSeen, ResSeen
  <1> QED
    BY <1>1, <1>4, <1>5

\* The steps that callers do not see ...
UnseenStep(t) ==
    \/ ReadMarker(t)
    \/ LinkTaken(t)
    \/ LinkRetries(t)
    \/ SetFirst(t)
    \/ MarkAgain(t)
    \/ ReadSome(t)
    \/ ReadNext(t)
    \/ ReadValue(t)
    \/ PopAgain(t)
    \/ RoundLost(t)
    \/ RemoveTop(t)
    \/ KeepTop(t)
    \/ RemoveAfter(t)
    \/ KeepAfter(t)
    \/ GoAfter(t)
    \/ ReadAfter(t)
    \/ Drop(t)
    \/ DropWithValue(t)

LEMMA UnseenSteps ==
    ASSUME CommonInv, NEW t \in Threads, UnseenStep(t)
    PROVE  JobSeen(t)' = JobSeen(t) /\ ResSeen(t)' = ResSeen(t) /\ key' = key
  <1>1. TypeOK /\ StepsInv
    BY DEF CommonInv
  <1>2. ReadMarker(t) => JobSeen(t)' = JobSeen(t) /\ ResSeen(t)' = ResSeen(t) /\ key' = key
    BY <1>1 DEF TypeOK, StepsInv, JobSeen, ResSeen, TookEffect, ReadMarker, Goto, store, aux
  <1>3. LinkTaken(t) => JobSeen(t)' = JobSeen(t) /\ ResSeen(t)' = ResSeen(t) /\ key' = key
    BY <1>1 DEF TypeOK, StepsInv, JobSeen, ResSeen, TookEffect, LinkTaken, Goto, store, aux
  <1>4. LinkRetries(t) => JobSeen(t)' = JobSeen(t) /\ ResSeen(t)' = ResSeen(t) /\ key' = key
    BY <1>1 DEF TypeOK, StepsInv, JobSeen, ResSeen, TookEffect, LinkRetries, Goto, store, aux
  <1>5. SetFirst(t) => JobSeen(t)' = JobSeen(t) /\ ResSeen(t)' = ResSeen(t) /\ key' = key
    BY <1>1 DEF TypeOK, StepsInv, JobSeen, ResSeen, TookEffect, SetFirst, Goto, frame, aux
  <1>6. MarkAgain(t) => JobSeen(t)' = JobSeen(t) /\ ResSeen(t)' = ResSeen(t) /\ key' = key
    BY <1>1 DEF TypeOK, StepsInv, JobSeen, ResSeen, TookEffect, MarkAgain, Goto, store, frame, aux
  <1>7. ReadSome(t) => JobSeen(t)' = JobSeen(t) /\ ResSeen(t)' = ResSeen(t) /\ key' = key
    BY <1>1 DEF TypeOK, StepsInv, JobSeen, ResSeen, TookEffect, ReadSome, Goto, store, aux
  <1>8. ReadNext(t) => JobSeen(t)' = JobSeen(t) /\ ResSeen(t)' = ResSeen(t) /\ key' = key
    BY <1>1 DEF TypeOK, StepsInv, JobSeen, ResSeen, TookEffect, ReadNext, Goto, store, aux
  <1>9. ReadValue(t) => JobSeen(t)' = JobSeen(t) /\ ResSeen(t)' = ResSeen(t) /\ key' = key
    BY <1>1 DEF TypeOK, StepsInv, JobSeen, ResSeen, TookEffect, ReadValue, Goto, store, aux
  <1>10. PopAgain(t) => JobSeen(t)' = JobSeen(t) /\ ResSeen(t)' = ResSeen(t) /\ key' = key
    BY <1>1 DEF TypeOK, StepsInv, JobSeen, ResSeen, TookEffect, PopAgain, Goto, store, frame, aux
  <1>11. RoundLost(t) => JobSeen(t)' = JobSeen(t) /\ ResSeen(t)' = ResSeen(t) /\ key' = key
    BY <1>1 DEF TypeOK, StepsInv, JobSeen, ResSeen, TookEffect, RoundLost, EndRound, Goto, store, aux
  <1>12. RemoveTop(t) => JobSeen(t)' = JobSeen(t) /\ ResSeen(t)' = ResSeen(t) /\ key' = key
    BY <1>1 DEF TypeOK, StepsInv, JobSeen, ResSeen, TookEffect, RemoveTop, Goto, store, frame, aux
  <1>13. KeepTop(t) => JobSeen(t)' = JobSeen(t) /\ ResSeen(t)' = ResSeen(t) /\ key' = key
    BY <1>1 DEF TypeOK, StepsInv, JobSeen, ResSeen, TookEffect, KeepTop, EndRound, Goto, store, aux
  <1>14. RemoveAfter(t) => JobSeen(t)' = JobSeen(t) /\ ResSeen(t)' = ResSeen(t) /\ key' = key
    BY <1>1 DEF TypeOK, StepsInv, JobSeen, ResSeen, TookEffect, RemoveAfter, Goto, store, frame, aux
  <1>15. KeepAfter(t) => JobSeen(t)' = JobSeen(t) /\ ResSeen(t)' = ResSeen(t) /\ key' = key
    BY <1>1 DEF TypeOK, StepsInv, JobSeen, ResSeen, TookEffect, KeepAfter, EndRound, Goto, store, aux
  <1>16. GoAfter(t) => JobSeen(t)' = JobSeen(t) /\ ResSeen(t)' = ResSeen(t) /\ key' = key
    BY <1>1 DEF TypeOK, StepsInv, JobSeen, ResSeen, TookEffect, GoAfter, Goto, store, frame, aux
  <1>17. ReadAfter(t) => JobSeen(t)' = JobSeen(t) /\ ResSeen(t)' = ResSeen(t) /\ key' = key
    BY <1>1 DEF TypeOK, StepsInv, JobSeen, ResSeen, TookEffect, ReadAfter, Goto, store, aux
  <1>18. Drop(t) => JobSeen(t)' = JobSeen(t) /\ ResSeen(t)' = ResSeen(t) /\ key' = key
    BY <1>1 DEF TypeOK, StepsInv, JobSeen, ResSeen, TookEffect, Drop, Dropped, Return, Goto, aux
  <1>19. DropWithValue(t) => JobSeen(t)' = JobSeen(t) /\ ResSeen(t)' = ResSeen(t) /\ key' = key
    BY <1>1 DEF TypeOK, StepsInv, JobSeen, ResSeen, TookEffect, DropWithValue, Dropped, EndRound, Goto, aux
  <1> QED
    BY <1>2, <1>3, <1>4, <1>5, <1>6, <1>7, <1>8, <1>9, <1>10, <1>11, <1>12, <1>13, <1>14, <1>15, <1>16, <1>17, <1>18, <1>19, Zenon DEF UnseenStep

\* ... and those that end a call which takes no more keys.
EndStep(t) ==
    \/ AskFails(t)
    \/ AtEnd(t)
    \/ AfterLast(t)
    \/ StopCutting(t)
    \/ RoundsOver(t)
    \/ ReadNone(t)
    \/ UnmarkEmpty(t)

LEMMA EndSteps ==
    ASSUME CommonInv, NEW t \in Threads, EndStep(t)
    PROVE  /\ JobSeen(t) = job[t] /\ JobSeen(t)' = "idle" /\ job[t] \in {"pop", "rem"} /\ key' = key
           /\ job[t] = "rem" => ResSeen(t)' = ResSeen(t)
           /\ job[t] = "pop" => ResSeen(t)' \in {NoKey, Failed} /\ GetMarker = NoMarker
  <1> DEFINE Ends == /\ JobSeen(t) = job[t] /\ JobSeen(t)' = "idle" /\ job[t] \in {"pop", "rem"} /\ key' = key
                     /\ job[t] = "rem" => ResSeen(t)' = ResSeen(t)
                     /\ job[t] = "pop" => ResSeen(t)' \in {NoKey, Failed} /\ GetMarker = NoMarker
  <1>1. TypeOK /\ StepsInv
    BY DEF CommonInv
  <1>2. AskFails(t) => Ends
    BY <1>1 DEF TypeOK, StepsInv, JobSeen, ResSeen, TookEffect, AskFails, Return, Goto, store, aux
  <1>3. AtEnd(t) => Ends
    BY <1>1 DEF TypeOK, StepsInv, JobSeen, ResSeen, TookEffect, AtEnd, Return, Goto, store, aux
  <1>4. AfterLast(t) => Ends
    BY <1>1 DEF TypeOK, StepsInv, JobSeen, ResSeen, TookEffect, AfterLast, Return, Goto, store, aux
  <1>5. StopCutting(t) => Ends
    BY <1>1 DEF TypeOK, StepsInv, JobSeen, ResSeen, TookEffect, StopCutting, Return, Goto, store, aux
  <1>6. RoundsOver(t) => Ends
    BY <1>1 DEF TypeOK, StepsInv, JobSeen, ResSeen, TookEffect, RoundsOver, Return, Goto, store, aux
  <1>7. ReadNone(t) => Ends
    BY <1>1 DEF TypeOK, StepsInv, JobSeen, ResSeen, TookEffect, ReadNone, Return, Goto, store, aux
  <1>8. UnmarkEmpty(t) => Ends
    BY <1>1 DEF TypeOK, StepsInv, JobSeen, ResSeen, TookEffect, UnmarkEmpty, Return, Goto, store, aux
  <1> QED
    BY <1>2, <1>3, <1>4, <1>5, <1>6, <1>7, <1>8, Zenon DEF EndStep

LEMMA Begun ==
    ASSUME CommonInv, NEW t \in Threads, NEW j \in {"push", "pop", "rem"}, Begin(t, j, "read"),
           fifo' = fifo, before' = before
    PROVE  /\ Others(t) => /\ JobSeen(t) = "idle" /\ JobSeen(t)' = j /\ ResSeen(t)' = ResSeen(t)
           /\ \A u \in Threads \ {t} : res'[u] = res[u]
  BY DEF CommonInv, TypeOK, Begin, Goto, JobSeen, ResSeen, TookEffect

\* What the steps are to the abstract queue.

LEMMA AbstractCall ==
    ASSUME QueueInv, (~mixed)', [Next]_vars, NEW t \in Threads,
           BeginPush(t) \/ BeginPop(t) \/ \E n \in 1 .. MaxCount : BeginRemove(t, n)
    PROVE  Abstract!QueueNext
  <1>1. CommonInv /\ TypeOK /\ ~mixed /\ PushesApart /\ PushesApart'
    BY ApartBefore DEF QueueInv, CommonInv, PushesApart
  <1>2. PICK line \in Seq(Keys) : LineInv(line)
    BY <1>1 DEF QueueInv
  <1>3. LineInv(line)'
    BY <1>1, <1>2, BeginLine
  <1>4. Chain = line
    BY <1>2, ChainOfLine
  <1>5. Chain' = line
    BY <1>3, ChainOfLineNext
  <1>6. Others(t)
    <2>1. CASE BeginPush(t)
      BY <1>1, <2>1 DEF TypeOK, Others, BeginPush, Begin, Goto
    <2>2. CASE BeginPop(t)
      BY <1>1, <2>2 DEF TypeOK, Others, BeginPop, Begin, Goto, frame
    <2>3. CASE \E n \in 1 .. MaxCount : BeginRemove(t, n)
      BY <1>1, <2>3 DEF TypeOK, Others, BeginRemove, Begin, Goto
    <2> QED
      BY <2>1, <2>2, <2>3
  <1>7. PICK j \in {"push", "pop", "rem"}, k \in Keys :
           /\ Begin(t, j, "read") /\ key' = [key EXCEPT ![t] = k]
           /\ fifo' = fifo /\ before' = before
    <2>1. CASE BeginPush(t)
      <3>1. UniqKey \in Keys
        BY <1>1, <2>1, MarkerTypes DEF BeginPush, TypeOK
      <3> QED
        BY <2>1, <3>1 DEF BeginPush
    <2>2. CASE BeginPop(t) \/ \E n \in 1 .. MaxCount : BeginRemove(t, n)
      <3>1. key[t] \in Keys /\ key = [key EXCEPT ![t] = key[t]]
        BY <1>1 DEF TypeOK
      <3>2. \E j \in {"pop", "rem"} : Begin(t, j, "read")
        BY <2>2 DEF BeginPop, BeginRemove
      <3>3. key' = key /\ fifo' = fifo /\ before' = before
        BY <2>2 DEF BeginPop, BeginRemove, frame, store
      <3> QED
        BY <3>1, <3>2, <3>3
    <2> QED
      BY <2>1, <2>2
  <1>8. /\ JobSeen(t) = "idle" /\ JobSeen(t)' = j /\ ResSeen(t)' = ResSeen(t)
        /\ \A u \in Threads \ {t} : res'[u] = res[u]
    BY <1>1, <1>6, <1>7, Begun
  <1>9. JobBar[t] = "idle" /\ JobBar' = [JobBar EXCEPT ![t] = j] /\ ResBar' = ResBar
    <2>1. PICK r : r = ResSeen(t)'
      OBVIOUS
    <2> QED
      BY <1>6, <1>7, <1>8, <2>1, SeenStep
  <1>10. Abstract!Call(t, j, k)
    BY <1>4, <1>5, <1>7, <1>9 DEF Abstract!Call
  <1> QED
    BY <1>10 DEF Abstract!QueueNext

\* What a step of a call is to the line, to the job and to the result of that call.
LEMMA AbstractSeen ==
    ASSUME CommonInv, NEW t \in Threads, Step(t), fifo' = fifo, NEW j, NEW r,
           j = JobSeen(t)', r = ResSeen(t)'
    PROVE  /\ JobBar' = [JobBar EXCEPT ![t] = j] /\ ResBar' = [ResBar EXCEPT ![t] = r]
           /\ JobBar[t] = JobSeen(t) /\ ResBar[t] = ResSeen(t)
           /\ j = JobSeen(t) => JobBar' = JobBar
           /\ r = ResSeen(t) => ResBar' = ResBar
  <1>1. Others(t) /\ \A u \in Threads \ {t} : res'[u] = res[u]
    BY StepOthers DEF CommonInv
  <1> QED
    BY <1>1, SeenStep

LEMMA LinkSeen ==
    ASSUME CommonInv, NEW t \in Threads, Link(t)
    PROVE  JobSeen(t) = "push" /\ JobSeen(t)' = "idle" /\ ResSeen(t)' = ResSeen(t) /\ key' = key
  <1>1. TypeOK /\ StepsInv /\ before[t].end \in exists /\ before[t].end # NoKey
    BY QueueAssumption DEF CommonInv, TypeOK, Link
  <1> QED
    BY <1>1 DEF TypeOK, StepsInv, Link, Goto, JobSeen, ResSeen, TookEffect, NoMarker

LEMMA MarkSeen ==
    ASSUME CommonInv, NEW t \in Threads, Mark(t)
    PROVE  /\ JobSeen(t) = IF fifo /\ Linked(t) THEN "idle" ELSE "push"
           /\ JobSeen(t)' = "idle" /\ ResSeen(t)' = ResSeen(t) /\ key' = key
  BY DEF CommonInv, TypeOK, StepsInv, Mark, PushReturns, Return, Goto, JobSeen, ResSeen, TookEffect, Linked

LEMMA UnmarkSeen ==
    ASSUME CommonInv, NEW t \in Threads, Unmark(t)
    PROVE  /\ JobSeen(t) = job[t] /\ job[t] \in {"pop", "rem"} /\ key' = key
           /\ job[t] = "pop" => JobSeen(t)' = "idle" /\ ResSeen(t)' = before[t].start
           /\ job[t] = "rem" => JobSeen(t)' = "rem" /\ ResSeen(t)' = ResSeen(t)
  BY DEF CommonInv, TypeOK, StepsInv, Unmark, Goto, frame, JobSeen, ResSeen, TookEffect

LEMMA LinkFailsNever ==
    ASSUME CommonInv, NEW line, LineInv(line), ~mixed, NEW t \in Threads, LinkFails(t)
    PROVE  FALSE
  <1>1. LineSet(ToSet(line), EndOf(line)) /\ PartsInv(ToSet(line), EndOf(line))
    BY LineParts
  <1>2. fifo /\ Pushing(t) /\ pc[t] = "link" /\ before[t].end \notin exists
    BY DEF CommonInv, StepsInv, Pushing, LinkFails
  <1>3. PushInv(t, ToSet(line), EndOf(line))
    BY <1>1, <1>2 DEF PartsInv, CallsInv
  <1> QED
    BY <1>1, <1>2, <1>3 DEF PushInv, LineSet

LEMMA AbstractStep ==
    ASSUME QueueInv, (~mixed)', [Next]_vars, NEW t \in Threads, Step(t)
    PROVE  Abstract!QueueNext \/ UNCHANGED <<Chain, fifo, JobBar, key, ResBar>>
  <1>1. CommonInv /\ TypeOK /\ ~mixed /\ PushesApart /\ met' = met /\ fifo' = fifo
    BY ApartBefore, StepKeeps DEF QueueInv, CommonInv, PushesApart, Step
  <1>2. PICK line \in Seq(Keys) : LineInv(line)
    BY <1>1 DEF QueueInv
  <1>3. Chain = line
    BY <1>2, ChainOfLine
  <1>4. /\ LineSet(ToSet(line), EndOf(line)) /\ PartsInv(ToSet(line), EndOf(line))
        /\ IsLine(line, marker.start, exists, next)
    BY <1>2, LineParts
  <1>5. PICK j, r : j = JobSeen(t)' /\ r = ResSeen(t)'
    OBVIOUS
  <1>6. /\ JobBar' = [JobBar EXCEPT ![t] = j] /\ ResBar' = [ResBar EXCEPT ![t] = r]
        /\ JobBar[t] = JobSeen(t) /\ ResBar[t] = ResSeen(t)
        /\ j = JobSeen(t) => JobBar' = JobBar
        /\ r = ResSeen(t) => ResBar' = ResBar
    BY <1>1, <1>5, AbstractSeen
  <1>7. CASE UnseenStep(t)
    <2>1. LineInv(line)'
      BY <1>1, <1>2, <1>7, QuietLine, SetFirstLine, DropLine, Zenon DEF UnseenStep, QuietStep
    <2>2. Chain' = line
      BY <2>1, ChainOfLineNext
    <2>3. j = JobSeen(t) /\ r = ResSeen(t) /\ key' = key
      BY <1>1, <1>5, <1>7, UnseenSteps
    <2> QED
      BY <1>1, <1>3, <1>6, <2>2, <2>3
  <1>8. CASE EndStep(t)
    <2>1. LineInv(line)'
      BY <1>1, <1>2, <1>8, QuietLine, Zenon DEF EndStep, QuietStep
    <2>2. Chain' = line
      BY <2>1, ChainOfLineNext
    <2>3. /\ JobSeen(t) = job[t] /\ j = "idle" /\ job[t] \in {"pop", "rem"} /\ key' = key
          /\ job[t] = "rem" => r = ResSeen(t)
          /\ job[t] = "pop" => r \in {NoKey, Failed} /\ GetMarker = NoMarker
      BY <1>1, <1>5, <1>8, EndSteps
    <2>4. CASE job[t] = "rem"
      <3>1. Abstract!Removed(t)
        BY <1>1, <1>3, <1>6, <2>2, <2>3, <2>4 DEF Abstract!Removed
      <3> QED
        BY <3>1 DEF Abstract!QueueNext
    <2>5. CASE job[t] = "pop"
      <3>1. GetMarker = NoMarker => marker.start = NoKey
        BY DEF GetMarker, NoMarker
      <3>2. line = <<>>
        BY <1>4, <2>3, <2>5, <3>1 DEF IsLine
      <3>3. Abstract!PopNothing(t)
        BY <1>1, <1>3, <1>6, <2>2, <2>3, <2>5, <3>2 DEF Abstract!PopNothing
      <3> QED
        BY <3>3 DEF Abstract!QueueNext
    <2> QED
      BY <2>3, <2>4, <2>5
  <1>9. CASE Link(t)
    <2>1. marker.start # NoKey /\ fifo
      BY <1>1, <1>4, <1>9, LinkFacts
    <2>2. PICK more : more = Append(line, key[t])
      OBVIOUS
    <2>3. LineInv(more)'
      BY <1>1, <1>2, <1>9, <2>1, <2>2, LinkLine
    <2>4. Chain' = more
      BY <2>3, ChainOfLineNext
    <2>5. JobSeen(t) = "push" /\ j = "idle" /\ r = ResSeen(t) /\ key' = key
      BY <1>1, <1>5, <1>9, LinkSeen
    <2>6. Abstract!Push(t)
      BY <1>1, <1>3, <1>6, <2>1, <2>2, <2>4, <2>5 DEF Abstract!Push
    <2> QED
      BY <2>6 DEF Abstract!QueueNext
  <1>10. CASE Mark(t)
    <2>1. PICK more : more = IF fifo /\ Linked(t) THEN line ELSE <<key[t]>> \o line
      OBVIOUS
    <2>2. LineInv(more)'
      BY <1>1, <1>2, <1>10, <2>1, MarkLine
    <2>3. Chain' = more
      BY <2>2, ChainOfLineNext
    <2>4. /\ JobSeen(t) = IF fifo /\ Linked(t) THEN "idle" ELSE "push"
          /\ j = "idle" /\ r = ResSeen(t) /\ key' = key
      BY <1>1, <1>5, <1>10, MarkSeen
    <2>5. CASE fifo /\ Linked(t)
      BY <1>1, <1>3, <1>6, <2>1, <2>3, <2>4, <2>5
    <2>6. CASE ~(fifo /\ Linked(t))
      <3>1. more = <<key[t]>> \o line
        BY <2>1, <2>6
      <3>2. fifo => more = Append(line, key[t])
        <4>1. ASSUME fifo PROVE line = <<>>
          BY <1>1, <1>4, <1>10, <2>6, <4>1, MarkFacts DEF IsLine
        <4>2. <<key[t]>> \o <<>> = Append(<<>>, key[t])
          OBVIOUS
        <4> QED
          BY <3>1, <4>1, <4>2
      <3>3. Abstract!Push(t)
        BY <1>1, <1>3, <1>6, <2>3, <2>4, <2>6, <3>1, <3>2 DEF Abstract!Push
      <3> QED
        BY <3>3 DEF Abstract!QueueNext
    <2> QED
      BY <2>5, <2>6
  <1>11. CASE Unmark(t)
    <2>1. /\ before[t].start = marker.start /\ marker.start \in Keys
          /\ nxt[t] = next[marker.start]
      BY <1>1, <1>4, <1>11, UnmarkFacts
    <2>2. PICK rest : rest = Tail(line)
      OBVIOUS
    <2>3. LineInv(rest)'
      BY <1>1, <1>2, <1>11, <2>1, <2>2, UnmarkLine
    <2>4. Chain' = rest
      BY <2>3, ChainOfLineNext
    <2>5. line # <<>> /\ Head(line) = marker.start
      <3> DEFINE start == marker.start
      <3>1. IsLine(line, start, exists, next) /\ start # NoKey
        BY <1>4, <2>1, QueueAssumption
      <3> HIDE DEF start
      <3>2. line # <<>> /\ Head(line) = start
        BY <3>1, LineTail, Zenon
      <3> QED
        BY <3>2 DEF start
    <2>6. /\ JobSeen(t) = job[t] /\ job[t] \in {"pop", "rem"} /\ key' = key
          /\ job[t] = "pop" => j = "idle" /\ r = before[t].start
          /\ job[t] = "rem" => j = "rem" /\ r = ResSeen(t)
      BY <1>1, <1>5, <1>11, UnmarkSeen
    <2>7. CASE job[t] = "pop"
      <3>1. Abstract!Pop(t)
        BY <1>1, <1>3, <1>6, <2>1, <2>2, <2>4, <2>5, <2>6, <2>7 DEF Abstract!Pop
      <3> QED
        BY <3>1 DEF Abstract!QueueNext
    <2>8. CASE job[t] = "rem"
      <3>1. Abstract!Take(t)
        BY <1>1, <1>3, <1>6, <2>2, <2>4, <2>5, <2>6, <2>8 DEF Abstract!Take
      <3> QED
        BY <3>1 DEF Abstract!QueueNext
    <2> QED
      BY <2>6, <2>7, <2>8
  <1>12. ~ LinkFails(t)
    BY <1>1, <1>2, LinkFailsNever
  <1>13. ~ MarkAfterEmptied(t)
    BY <1>1, <1>4, MarkAfterEmptiedParts
  <1>14. UnseenStep(t) \/ EndStep(t) \/ Link(t) \/ Mark(t) \/ Unmark(t)
    BY <1>1, <1>2, <1>12, <1>13, StepKinds, Zenon DEF QuietStep, UnseenStep, EndStep
  <1> QED
    BY <1>7, <1>8, <1>9, <1>10, <1>11, <1>14

\* Until a push overlaps with a call that takes keys, or a LIFO push with another,
\* every call adds or takes in one instant what a queue of its kind would.
THEOREM QueueIsImplemented == Spec => ImplementsQueue
  <1>1. ASSUME Init PROVE Abstract!QueueInit
    <2>1. LineInv(<<>>)
      BY <1>1, EmptyLine
    <2>2. Chain = <<>>
      BY <2>1, ChainOfLine
    <2>3. key \in [Threads -> Keys]
      BY <1>1, QueueInit DEF QueueInv, CommonInv, TypeOK
    <2>4. JobBar = [t \in Threads |-> "idle"] /\ ResBar = [t \in Threads |-> NoKey]
      BY <1>1 DEF Init, JobBar, ResBar
    <2>5. fifo \in BOOLEAN
      BY <1>1 DEF Init
    <2> QED
      BY <2>2, <2>3, <2>4, <2>5, Zenon DEF Abstract!QueueInit
  <1>2. ASSUME QueueInv, [Next]_vars
        PROVE  [Abstract!QueueNext \/ mixed']_<<Chain, fifo, JobBar, key, ResBar>>
    <2> SUFFICES ASSUME (~mixed)'
                 PROVE  Abstract!QueueNext \/ UNCHANGED <<Chain, fifo, JobBar, key, ResBar>>
      OBVIOUS
    <2>1. ASSUME NEW t \in Threads, Step(t)
          PROVE  Abstract!QueueNext \/ UNCHANGED <<Chain, fifo, JobBar, key, ResBar>>
      BY <1>2, <2>1, AbstractStep
    <2>2. ASSUME NEW t \in Threads, BeginPush(t) \/ BeginPop(t) \/ \E n \in 1 .. MaxCount : BeginRemove(t, n)
          PROVE  Abstract!QueueNext
      BY <1>2, <2>2, AbstractCall
    <2>3. ASSUME UNCHANGED vars PROVE UNCHANGED <<Chain, fifo, JobBar, key, ResBar>>
      <3>1. ~mixed /\ PushesApart
        BY <1>2, ApartBefore DEF QueueInv, PushesApart
      <3>2. PICK line \in Seq(Keys) : LineInv(line)
        BY <1>2, <3>1 DEF QueueInv
      <3>3. LineInv(line)'
        BY <2>3, <3>2, LineStutter
      <3>4. Chain' = line
        BY <3>3, ChainOfLineNext
      <3>5. Chain = line
        BY <3>2, ChainOfLine
      <3>6. JobBar' = JobBar /\ ResBar' = ResBar /\ fifo' = fifo /\ key' = key
        BY <2>3 DEF vars, store, frame, JobBar, ResBar, TookEffect
      <3> QED
        BY <3>4, <3>5, <3>6
    <2> QED
      BY <1>2, <2>1, <2>2, <2>3 DEF Next, Done
  <1> QED
    BY <1>1, <1>2, QueueInvariant, PTL DEF Spec, ImplementsQueue
=============================================================================
