----------------------------- MODULE K2HWalkProofs -----------------------------
(***************************************************************************)
(* Theorems about K2HWalk, for any number of keys, writers, bits and calls:  *)
(* an iterator comes to every element once, the subkey an iterator stands    *)
(* on stays, and a merge leaves nothing out.                                *)
(***************************************************************************)
EXTENDS K2HWalk, K2HSequences, FiniteSetTheorems, WellFoundedInduction

-----------------------------------------------------------------------------
\* Masks

LEMMA SmallestOf ==
    ASSUME NEW T \in SUBSET Nat, T # {}
    PROVE  \E m \in T : \A n \in T : m <= n
  <1>1. PICK m \in T : \A n \in T : ~ (<<n, m>> \in OpToRel(<, Nat))
    BY NatLessThanWellFounded, WFMin
  <1>2. \A n \in T : ~ (n < m)
    BY <1>1 DEF OpToRel
  <1> QED
    BY <1>2

\* A set of numbers of bits has a greatest one.
LEMMA GreatestOf ==
    ASSUME NEW T \in SUBSET Nat, T # {}, NEW n \in Nat, \A x \in T : x <= n
    PROVE  Max(T) \in T /\ \A x \in T : x <= Max(T)
  <1> DEFINE U == {n - x : x \in T}
  <1>1. U \in SUBSET Nat /\ U # {}
    <2>1. \A x \in T : x \in Nat /\ x <= n
      OBVIOUS
    <2>2. \A x \in T : n - x \in Nat
      BY <2>1
    <2> QED
      BY <2>2
  <1>2. PICK m \in U : \A y \in U : m <= y
    BY <1>1, SmallestOf
  <1>3. PICK x \in T : m = n - x
    BY <1>2
  <1>4. \A y \in T : n - x <= n - y
    BY <1>2, <1>3
  <1>5. \A y \in T : x >= y
    BY <1>4
  <1>6. \E z \in T : \A y \in T : z >= y
    BY <1>5
  <1>7. Max(T) \in T /\ \A y \in T : Max(T) >= y
    BY <1>6, Zenon DEF Max
  <1> QED
    BY <1>7

Widths == InitBits .. MaxBits

LEMMA PowerType ==
    ASSUME NEW b \in Widths
    PROVE  b \in Nat /\ 2^b \in Nat \ {0} /\ 2^(b + 1) = 2 * 2^b
  <1>1. b \in 0 .. MaxBits /\ b \in Nat
    BY BitsAssumption DEF Widths
  <1> QED
    BY <1>1, PowersAssumption

DividedBy(p, m) == \E q \in Nat \ {0} : p = q * m

\* What a shorter mask selects from divides what a longer one does.
LEMMA PowerDivides ==
    ASSUME NEW a \in Widths, NEW b \in Widths, a <= b
    PROVE  DividedBy(2^b, 2^a)
  <1> USE DEF DividedBy
  <1> DEFINE T == {c \in Widths : a <= c /\ ~ \E q \in Nat \ {0} : 2^c = q * 2^a}
  <1>1. SUFFICES ASSUME T # {} PROVE FALSE
    OBVIOUS
  <1>2. T \in SUBSET Nat
    BY BitsAssumption DEF Widths
  <1>3. PICK m \in T : \A n \in T : m <= n
    BY <1>1, <1>2, SmallestOf
  <1>4. m \in Widths /\ a <= m /\ ~ \E q \in Nat \ {0} : 2^m = q * 2^a
    BY <1>3
  <1>5. m \in Nat /\ a \in Nat /\ 2^a \in Nat \ {0}
    BY <1>4, PowerType
  <1>6. m # a
    <2>1. 2^a = 1 * 2^a
      BY <1>5
    <2> QED
      BY <1>4, <2>1
  <1>7. m - 1 \in Widths /\ a <= m - 1 /\ ~ (m <= m - 1)
    BY <1>4, <1>5, <1>6, BitsAssumption DEF Widths
  <1>8. PICK q \in Nat \ {0} : 2^(m - 1) = q * 2^a
    BY <1>3, <1>7
  <1>9. 2^m = 2 * 2^(m - 1)
    <2>1. (m - 1) + 1 = m
      BY <1>5
    <2>2. 2^((m - 1) + 1) = 2 * 2^(m - 1)
      BY <1>7, PowerType
    <2> QED
      BY <2>1, <2>2
  <1>10. 2^m = (2 * q) * 2^a /\ 2 * q \in Nat \ {0}
    <2> DEFINE x == 2^a
               y == 2^(m - 1)
               z == 2^m
    <2>1. x \in Nat /\ y = q * x /\ z = 2 * y
      BY <1>5, <1>8, <1>9
    <2> HIDE DEF x, y, z
    <2>2. z = (2 * q) * x
      BY <2>1
    <2> QED
      BY <2>2 DEF x, z
  <1> QED
    BY <1>4, <1>10

\* A remainder, and the remainder of a remainder.
LEMMA Remainder ==
    ASSUME NEW m \in Nat \ {0}, NEW h \in Nat
    PROVE  /\ h % m \in 0 .. m - 1
           /\ h \div m \in Nat
           /\ h = (h \div m) * m + (h % m)
           /\ h < m => h % m = h
  OBVIOUS

LEMMA RemainderIs ==
    ASSUME NEW m \in Nat \ {0}, NEW q \in Nat, NEW r \in 0 .. m - 1, NEW h \in Nat, h = q * m + r
    PROVE  h % m = r
  OBVIOUS

LEMMA RemainderTwice ==
    ASSUME NEW m \in Nat \ {0}, NEW q \in Nat \ {0}, NEW h \in Nat
    PROVE  (h % (q * m)) % m = h % m
  <1> DEFINE p == q * m
  <1>1. p \in Nat \ {0}
    OBVIOUS
  <1> DEFINE r == h % p
             d == h \div p
             e == r \div m
             f == r % m
  <1>2. r \in Nat /\ d \in Nat /\ h = d * p + r
    <2>1. r \in 0 .. p - 1 /\ d \in Nat /\ h = d * p + r
      BY <1>1, Remainder, Zenon
    <2> HIDE DEF r, d
    <2> QED
      BY <1>1, <2>1
  <1>3. e \in Nat /\ f \in 0 .. m - 1 /\ r = e * m + f
    BY <1>2, Remainder
  <1> HIDE DEF r, d, e, f
  <1>4. h = d * (q * m) + (e * m + f)
    BY <1>2, <1>3
  <1>5. d * (q * m) = (d * q) * m
    BY <1>2
  <1>6. d * q \in Nat /\ d * q + e \in Nat /\ f \in Nat
    BY <1>2, <1>3
  <1>7. (d * q + e) * m = (d * q) * m + e * m
    BY <1>3, <1>6
  <1>8. h = (d * q + e) * m + f
    <2> DEFINE x == (d * q) * m
               y == e * m
    <2>1. x \in Int /\ y \in Int
      BY <1>3, <1>6
    <2>2. h = x + (y + f) /\ (d * q + e) * m = x + y
      BY <1>4, <1>5, <1>7
    <2> HIDE DEF x, y
    <2> QED
      BY <1>6, <2>1, <2>2
  <1>9. h % m = f
    <2> DEFINE g == d * q + e
    <2>1. g \in Nat /\ h = g * m + f
      BY <1>6, <1>8
    <2> HIDE DEF g
    <2> QED
      BY <1>3, <2>1, RemainderIs
  <1> QED
    BY <1>9 DEF f, r

LEMMA RemainderSmall ==
    ASSUME NEW x \in Nat \ {0}, NEW y \in Nat \ {0}, DividedBy(y, x), NEW h \in Nat
    PROVE  /\ (h % y) % x = h % x
           /\ x <= y
           /\ h % y < x => h % y = h % x
  <1>q. PICK q \in Nat \ {0} : y = q * x
    BY DEF DividedBy
  <1>1. (h % y) % x = h % x
    <2>1. (h % (q * x)) % x = h % x
      BY RemainderTwice, Zenon
    <2> QED
      BY <1>q, <2>1, Zenon
  <1>2. y \in Nat \ {0} /\ x <= y
    BY <1>q
  <1>3. ASSUME h % y < x PROVE h % y = h % x
    <2>1. h % y \in Nat
      BY <1>2, Remainder
    <2> QED
      BY <1>1, <1>3, <2>1, Remainder
  <1> QED
    BY <1>1, <1>2, <1>3

\* The KINDEX that a mask of b bits selects, and how many there are.
Masked(h, b) == h % 2^b
Size(b) == 2^b

LEMMA MaskTwice ==
    ASSUME NEW a \in Widths, NEW b \in Widths, a <= b, NEW h \in Nat
    PROVE  /\ Masked(Masked(h, b), a) = Masked(h, a)
           /\ Size(a) <= Size(b)
           /\ Masked(h, b) < Size(a) => Masked(h, b) = Masked(h, a)
  <1>1. DividedBy(2^b, 2^a)
    BY PowerDivides
  <1>2. 2^a \in Nat \ {0} /\ 2^b \in Nat \ {0}
    BY PowerType
  <1> QED
    BY <1>1, <1>2, RemainderSmall, Zenon DEF Masked, Size

LEMMA MaskType ==
    ASSUME NEW b \in Widths, NEW h \in Nat
    PROVE  /\ Masked(h, b) \in 0 .. Size(b) - 1
           /\ Size(b) \in Nat \ {0}
           /\ Masked(h, b) \in Nat
           /\ Size(b + 1) = 2 * Size(b)
  <1> DEFINE x == 2^b
  <1>1. x \in Nat \ {0} /\ 2^(b + 1) = 2 * x
    BY PowerType
  <1> HIDE DEF x
  <1>2. h % x \in 0 .. x - 1
    BY <1>1, Remainder
  <1>3. h % x \in Nat
    BY <1>1
  <1> QED
    BY <1>1, <1>2, <1>3, Zenon DEF x, Masked, Size

-----------------------------------------------------------------------------
\* The KINDEX of a hash

LevelsOf(h, n) == {Masked(h, b) : b \in InitBits .. n}
WhereOf(h, as, n) == Masked(h, Max({b \in InitBits .. n : Masked(h, b) \in as}))
Lowest == 0 .. Size(InitBits) - 1

\* It is that of the longest mask whose KINDEX is assigned.
LEMMA WhereFacts ==
    ASSUME NEW n \in Widths, NEW h \in Nat, NEW as, Lowest \subseteq as
    PROVE  \E b \in InitBits .. n :
              /\ WhereOf(h, as, n) = Masked(h, b)
              /\ Masked(h, b) \in as
              /\ \A c \in InitBits .. n : Masked(h, c) \in as => c <= b
  <1> DEFINE T == {b \in InitBits .. n : Masked(h, b) \in as}
  <1>1. InitBits \in Nat /\ n \in Nat /\ InitBits <= n /\ InitBits \in Widths
    BY BitsAssumption DEF Widths
  <1>2. Masked(h, InitBits) \in as
    BY <1>1, MaskType DEF Lowest
  <1>a. InitBits \in InitBits .. n
    BY <1>1
  <1>b. InitBits \in T
    BY <1>2, <1>a, Zenon
  <1>3. T \in SUBSET Nat /\ T # {} /\ \A x \in T : x <= n
    <2>1. T \subseteq InitBits .. n
      OBVIOUS
    <2> HIDE DEF T
    <2> QED
      BY <1>1, <1>b, <2>1
  <1>4. Max(T) \in T /\ \A x \in T : x <= Max(T)
    BY <1>1, <1>3, GreatestOf
  <1>5. WhereOf(h, as, n) = Masked(h, Max(T))
    BY DEF WhereOf
  <1> HIDE DEF T
  <1>6. Max(T) \in InitBits .. n /\ Masked(h, Max(T)) \in as
    BY <1>4 DEF T
  <1>7. \A c \in InitBits .. n : Masked(h, c) \in as => c <= Max(T)
    BY <1>4 DEF T
  <1> QED
    BY <1>5, <1>6, <1>7

\* Arranging another hash leaves it, unless it goes through that KINDEX.
LEMMA WhereArranged ==
    ASSUME NEW n \in Widths, NEW h \in Nat, NEW g \in Nat, NEW as, Lowest \subseteq as,
           WhereOf(h, as, n) \notin LevelsOf(g, n)
    PROVE  WhereOf(h, as \cup LevelsOf(g, n), n) = WhereOf(h, as, n)
  <1> DEFINE more == as \cup LevelsOf(g, n)
  <1>1. PICK b \in InitBits .. n : /\ WhereOf(h, as, n) = Masked(h, b)
                                   /\ Masked(h, b) \in as
                                   /\ \A c \in InitBits .. n : Masked(h, c) \in as => c <= b
    BY WhereFacts
  <1>m. Lowest \subseteq more /\ as \subseteq more
    OBVIOUS
  <1>n. \A x \in more : x \in as \/ \E d \in InitBits .. n : x = Masked(g, d)
    BY DEF LevelsOf
  <1> HIDE DEF more
  <1>2. PICK c \in InitBits .. n : /\ WhereOf(h, more, n) = Masked(h, c)
                                   /\ Masked(h, c) \in more
                                   /\ \A d \in InitBits .. n : Masked(h, d) \in more => d <= c
    BY <1>m, WhereFacts
  <1>3. b <= c
    BY <1>1, <1>2, <1>m
  <1>w. \A d \in InitBits .. n : d \in Widths /\ d \in Nat
    BY BitsAssumption DEF Widths
  <1>4. CASE Masked(h, c) \in as
    <2>1. c <= b /\ b \in Nat /\ c \in Nat
      BY <1>1, <1>4, <1>w
    <2>2. b = c
      BY <1>3, <2>1
    <2> QED
      BY <1>1, <1>2, <2>2 DEF more
  <1>5. ASSUME NEW d \in InitBits .. n, Masked(h, c) = Masked(g, d) PROVE FALSE
    <2>1. b \in Widths /\ c \in Widths /\ d \in Widths /\ b \in Nat /\ d \in Nat
      BY <1>w
    <2>2. CASE b <= d
      <3>1. Masked(Masked(g, d), b) = Masked(g, b)
        BY <2>1, <2>2, MaskTwice
      <3>2. Masked(Masked(h, c), b) = Masked(h, b)
        BY <1>3, <2>1, MaskTwice
      <3>3. Masked(h, b) = Masked(g, b)
        BY <1>5, <3>1, <3>2, Zenon
      <3> QED
        BY <1>1, <3>3 DEF LevelsOf
    <2>3. CASE d <= b
      <3>1. Masked(g, d) \in 0 .. Size(d) - 1 /\ Size(d) <= Size(b) /\ Size(d) \in Nat /\ Size(b) \in Nat
        BY <2>1, <2>3, MaskTwice, MaskType
      <3>2. Masked(h, c) < Size(b)
        <4> DEFINE x == Size(d)
                   y == Size(b)
                   r == Masked(g, d)
        <4>1. r \in 0 .. x - 1 /\ x <= y /\ x \in Nat /\ y \in Nat
          BY <3>1
        <4> HIDE DEF x, y, r
        <4>2. r < y
          BY <4>1
        <4> QED
          BY <1>5, <4>2, Zenon DEF r, y
      <3>3. Masked(h, c) = Masked(h, b)
        BY <1>3, <2>1, <3>2, MaskTwice
      <3>4. WhereOf(h, as, n) = Masked(g, d)
        BY <1>1, <1>5, <3>3, Zenon
      <3> QED
        BY <3>4 DEF LevelsOf
    <2> QED
      BY <2>1, <2>2, <2>3
  <1> QED
    BY <1>2, <1>4, <1>5, <1>n

\* So does a new bit of the mask, with no KINDEX of its level assigned.
LEMMA WhereWidened ==
    ASSUME NEW n \in Widths, n + 1 \in Widths, NEW h \in Nat, NEW as, Lowest \subseteq as,
           as \subseteq 0 .. Size(n) - 1
    PROVE  WhereOf(h, as, n + 1) = WhereOf(h, as, n)
  <1>1. PICK b \in InitBits .. n : /\ WhereOf(h, as, n) = Masked(h, b)
                                   /\ Masked(h, b) \in as
                                   /\ \A c \in InitBits .. n : Masked(h, c) \in as => c <= b
    BY WhereFacts
  <1>2. PICK c \in InitBits .. n + 1 : /\ WhereOf(h, as, n + 1) = Masked(h, c)
                                       /\ Masked(h, c) \in as
                                       /\ \A d \in InitBits .. n + 1 : Masked(h, d) \in as => d <= c
    BY WhereFacts
  <1>3. InitBits \in Nat /\ n \in Nat /\ b \in Nat /\ c \in Nat /\ InitBits <= n
    BY BitsAssumption DEF Widths
  <1>4. b <= c
    <2>1. b \in InitBits .. n + 1
      BY <1>3
    <2> QED
      BY <1>1, <1>2, <2>1, Zenon
  <1>5. CASE c <= n
    <2>0. c \in InitBits .. n
      BY <1>3, <1>5
    <2>1. c <= b
      BY <1>1, <1>2, <2>0, Zenon
    <2>2. b = c
      BY <1>3, <1>4, <2>1
    <2> QED
      BY <1>1, <1>2, <2>2
  <1>6. CASE c = n + 1
    <2>0. n <= c /\ c \in Widths
      BY <1>3, <1>6
    <2>1. n <= c /\ c \in Widths /\ Size(n) \in Nat
      BY <2>0, MaskType
    <2>2. Masked(h, c) < Size(n)
      <3> DEFINE x == Size(n)
                 r == Masked(h, c)
      <3>1. x \in Nat /\ r \in 0 .. x - 1
        BY <1>2, <2>1
      <3> HIDE DEF x, r
      <3>2. r < x
        BY <3>1
      <3> QED
        BY <3>2 DEF x, r
    <2>3. Masked(h, c) = Masked(h, n)
      BY <2>1, <2>2, MaskTwice
    <2>4. Masked(h, n) \in as
      BY <1>2, <2>3
    <2>a. n \in InitBits .. n
      BY <1>3
    <2>5. n <= b
      BY <1>1, <2>4, <2>a, Zenon
    <2>6. b = n
      BY <1>3, <2>5
    <2> QED
      BY <1>1, <1>2, <2>3, <2>6, Zenon
  <1>7. c <= n \/ c = n + 1
    BY <1>3
  <1> QED
    BY <1>5, <1>6, <1>7

\* The levels of a hash are KINDEXes of the mask.
LEMMA LevelsType ==
    ASSUME NEW n \in Widths, NEW h \in Nat
    PROVE  LevelsOf(h, n) \subseteq 0 .. Size(n) - 1
  <1> SUFFICES ASSUME NEW b \in InitBits .. n PROVE Masked(h, b) \in 0 .. Size(n) - 1
    BY DEF LevelsOf
  <1>1. b \in Widths /\ b <= n
    BY BitsAssumption DEF Widths
  <1> DEFINE x == Size(b)
             y == Size(n)
             r == Masked(h, b)
  <1>2. r \in 0 .. x - 1 /\ x <= y /\ x \in Nat /\ y \in Nat
    BY <1>1, MaskType, MaskTwice
  <1> HIDE DEF x, y, r
  <1>3. r \in 0 .. y - 1
    BY <1>2
  <1> QED
    BY <1>3 DEF r, y

\* A KINDEX of the mask has its own level's.
LEMMA WhereTop ==
    ASSUME NEW n \in Widths, NEW h \in Nat, NEW as, Lowest \subseteq as
    PROVE  /\ Masked(h, n) \in as => WhereOf(h, as, n) = Masked(h, n)
           /\ WhereOf(h, as, n) \in LevelsOf(h, n)
           /\ WhereOf(h, as, n) \in as
           /\ Masked(h, n) \in LevelsOf(h, n)
  <1>1. PICK b \in InitBits .. n : /\ WhereOf(h, as, n) = Masked(h, b)
                                   /\ Masked(h, b) \in as
                                   /\ \A c \in InitBits .. n : Masked(h, c) \in as => c <= b
    BY WhereFacts
  <1>2. InitBits \in Nat /\ n \in Nat /\ b \in Nat /\ InitBits <= n /\ n \in InitBits .. n
    BY BitsAssumption DEF Widths
  <1>3. ASSUME Masked(h, n) \in as PROVE b = n
    <2>1. n <= b
      BY <1>1, <1>2, <1>3, Zenon
    <2>2. b <= n
      OBVIOUS
    <2> QED
      BY <1>2, <2>1, <2>2
  <1> QED
    BY <1>1, <1>2, <1>3 DEF LevelsOf

-----------------------------------------------------------------------------
\* The invariant

IndexInv ==
    /\ bits \in Widths
    /\ assigned \subseteq 0 .. Size(bits) - 1
    /\ Lowest \subseteq assigned

Tasks == [pc : {"idle", "remove", "free", "insert"}, key : Keys \cup {NoKey}, set : BOOLEAN,
          slot : Nat]

\* A slot is free, or has a key of its own, or is being freed by one writer.
SlotsInv ==
    /\ slots \in Seq(Elements)
    /\ \A s \in DOMAIN slots : slots[s].linked => slots[s].key # NoKey
    /\ \A s, r \in DOMAIN slots :
          slots[s].linked /\ slots[r].linked /\ slots[s].key = slots[r].key => s = r
    /\ stay \subseteq {s \in DOMAIN slots : slots[s].linked}

FreeInv ==
    /\ free \in Seq(Nat)
    /\ IsInjective(free)
    /\ ToSet(free) = {s \in DOMAIN slots : slots[s].key = NoKey}

Freeing(w) == task[w].pc = "free"

TaskInv ==
    /\ task \in [Writers -> Tasks]
    /\ \A w \in Writers : task[w].pc # "idle" => task[w].key \in Keys
    /\ \A w \in Writers : Freeing(w) =>
          /\ task[w].slot \in DOMAIN slots
          /\ ~slots[task[w].slot].linked
          /\ slots[task[w].slot].key # NoKey
    /\ \A w, v \in Writers : Freeing(w) /\ Freeing(v) /\ task[w].slot = task[v].slot => w = v

Finds == [pc : {"idle", "look", "lock", "end"}, at : Nat, first : BOOLEAN, list : Seq(Keys),
          going : SUBSET Nat, held : SUBSET Nat]

FindInv ==
    /\ find \in Finds
    /\ find.at <= Len(slots)
    /\ find.pc = "idle" => find.at = 0
    /\ find.pc = "lock" /\ use.walker = "find" => find.at \in DOMAIN slots
    /\ find.pc = "lock" /\ use.walker = "subkeys" => find.list # <<>>

Copies == [key : Keys, attrs : Times]
Walks == [pc : {"idle", "test", "put", "end"}, test : Nat, max : Nat, next : Nat,
          data : SUBSET Copies]

WalkInv ==
    /\ walk \in Walks
    /\ walk.test <= walk.max + 1
    /\ walk.max <= Size(bits) - 1
    /\ walk.next <= walk.max

OtherInv ==
    /\ now \in Nat
    /\ DOMAIN other \subseteq Keys
    /\ \A k \in DOMAIN other : other[k] \in Times

Types == use \in Uses /\ IndexInv /\ SlotsInv /\ FreeInv /\ TaskInv /\ FindInv /\ WalkInv /\ OtherInv

\* The type invariant follows from it.
LEMMA TypesGiveTypeOK == Types => TypeOK
  <1> SUFFICES ASSUME Types PROVE TypeOK
    OBVIOUS
  <1>1. bits \in InitBits .. MaxBits /\ assigned \subseteq 0 .. 2^bits - 1
    BY DEF Types, IndexInv, Widths, Size
  <1>2. \A s \in DOMAIN slots : slots[s].key \in Keys \cup {NoKey}
    <2>1. \A s \in DOMAIN slots : slots[s] \in Elements
      BY MemberFacts DEF Types, SlotsInv
    <2> QED
      BY <2>1 DEF Elements
  <1>3. ASSUME NEW k \in Keys PROVE Cardinality(SlotsOf(k)) <= 1
    <2>1. CASE SlotsOf(k) = {}
      BY <2>1, FS_EmptySet
    <2>2. CASE SlotsOf(k) # {}
      <3>1. PICK s : s \in SlotsOf(k)
        BY <2>2
      <3>2. SlotsOf(k) = {s}
        BY <3>1 DEF SlotsOf, Linked, Types, SlotsInv
      <3>3. Cardinality({s}) = 1
        BY FS_Singleton
      <3> QED
        BY <3>2, <3>3
    <2> QED
      BY <2>1, <2>2
  <1>4. IsInjective(free) /\ Range(free) = {s \in DOMAIN slots : slots[s].key = NoKey}
    BY DEF Types, FreeInv, Range, ToSet
  <1>5. stay \subseteq {s \in DOMAIN slots : Linked(s)}
    BY DEF Types, SlotsInv, Linked
  <1>6. find.at \in 0 .. Len(slots) /\ walk.test \in 0 .. walk.max + 1
    <2>1. Len(slots) \in Nat
      BY MemberFacts DEF Types, SlotsInv
    <2> QED
      BY <2>1 DEF Types, FindInv, WalkInv, Finds, Walks
  <1> QED
    BY <1>1, <1>2, <1>3, <1>4, <1>5, <1>6 DEF TypeOK

LEMMA InitTypes == Init => Types
  <1> SUFFICES ASSUME Init PROVE Types
    OBVIOUS
  <1>0. /\ use \in Uses /\ slots = use.slots /\ now = use.now /\ other = use.other
        /\ stay = {}
    BY DEF Init
  <1>1. IndexInv
    <2>1. InitBits \in Widths
      BY BitsAssumption DEF Widths
    <2> QED
      BY <2>1 DEF Init, IndexInv, Lowest, Size
  <1>2. SlotsInv
    BY <1>0, UsesAssumption DEF SlotsInv
  <1>3. FreeInv
    <2> DEFINE S == {s \in DOMAIN use.slots : use.slots[s].key = NoKey}
    <2>1. IsFiniteSet(S) /\ S \subseteq Nat
      <3>1. use.slots \in Seq(Elements)
        BY <1>0, UsesAssumption
      <3>2. Len(use.slots) \in Nat /\ DOMAIN use.slots = 1 .. Len(use.slots)
        BY <3>1, MemberFacts
      <3>3. IsFiniteSet(1 .. Len(use.slots))
        BY <3>2, FS_Interval
      <3>4. S \in SUBSET (1 .. Len(use.slots))
        BY <3>2
      <3> QED
        BY <3>2, <3>3, <3>4, FS_Subset
    <2>2. Cardinality(S) \in Nat /\ ExistsBijection(1 .. Cardinality(S), S)
      BY <2>1, FS_CardinalityType
    <2>3. free = SetToSeq(S)
      BY DEF Init
    <2> HIDE DEF S
    <2>4. PICK f \in [1 .. Cardinality(S) -> S] :
             /\ \A a, b \in 1 .. Cardinality(S) : f[a] = f[b] => a = b
             /\ \A x \in S : \E i \in 1 .. Cardinality(S) : f[i] = x
      BY <2>2, Zenon DEF ExistsBijection, Bijection, Injection, Surjection, IsInjective
    <2>5. IsInjective(f)
      BY <2>4 DEF IsInjective
    <2>6. free \in [1 .. Cardinality(S) -> S] /\ IsInjective(free)
      BY <2>3, <2>5, Zenon DEF SetToSeq
    <2>7. free \in Injection(1 .. Cardinality(S), S)
      BY <2>6 DEF Injection, IsInjective
    <2>8. IsFiniteSet(1 .. Cardinality(S)) /\ Cardinality(1 .. Cardinality(S)) = Cardinality(S)
      BY <2>2, FS_Interval
    <2>9. free \in Surjection(1 .. Cardinality(S), S)
      BY <2>1, <2>7, <2>8, FS_Injection
    <2>10. ToSet(free) = S
      <3>1. \A x \in S : \E i \in 1 .. Cardinality(S) : free[i] = x
        BY <2>9 DEF Surjection
      <3> QED
        BY <2>6, <3>1 DEF ToSet
    <2>11. free \in Seq(Nat)
      <3> DEFINE n == Cardinality(S)
      <3>1. n \in Nat /\ free \in [1 .. n -> S]
        BY <2>2, <2>6
      <3> HIDE DEF n
      <3>2. free \in [1 .. n -> Nat]
        BY <2>1, <3>1
      <3> QED
        BY <3>1, <3>2
    <2> QED
      BY <1>0, <2>6, <2>10, <2>11 DEF FreeInv, S
  <1>4. TaskInv
    BY DEF Init, TaskInv, Tasks, Freeing
  <1>5. FindInv
    <2>1. Len(slots) \in Nat
      BY <1>2, MemberFacts DEF SlotsInv
    <2>2. <<>> \in Seq(Keys)
      OBVIOUS
    <2> QED
      BY <2>1, <2>2 DEF Init, FindInv, Finds
  <1>6. WalkInv
    <2>1. Size(bits) \in Nat \ {0}
      BY <1>1, MaskType DEF IndexInv
    <2> QED
      BY <2>1 DEF Init, WalkInv, Walks
  <1>7. OtherInv
    BY <1>0, UsesAssumption, MergeAssumption DEF OtherInv
  <1> QED
    BY <1>0, <1>1, <1>2, <1>3, <1>4, <1>5, <1>6, <1>7 DEF Types

-----------------------------------------------------------------------------
\* The index

\* The index stays, the levels of a hash are arranged, or the mask gets a bit.
IndexStep ==
    \/ assigned' = assigned /\ bits' = bits
    \/ bits' = bits /\ \E h \in Nat : CanArrange(h) /\ assigned' = Arranged(h)
    \/ /\ bits < MaxBits /\ bits' = bits + 1 /\ assigned' = assigned
       /\ GrowsInCall \/ walk.pc # "test"

LEMMA KeyHash ==
    ASSUME Types
    PROVE  /\ \A k \in Keys : Hash[k] \in Nat
           /\ \A s \in DOMAIN slots : slots[s].key # NoKey => slots[s].key \in Keys
           /\ \A w \in Writers : task[w].pc # "idle" => task[w].key \in Keys
           /\ use.parent \in Keys
           /\ use.subkeys \in Seq(Keys)
  <1>1. \A s \in DOMAIN slots : slots[s] \in Elements
    BY MemberFacts DEF Types, SlotsInv
  <1> QED
    BY <1>1, HashAssumption, UsesAssumption DEF Types, Elements, TaskInv

LEMMA LookFor ==
    ASSUME NEW h \in Nat, NEW at, GetCKIndex(h, at)
    PROVE  IndexStep
  BY DEF GetCKIndex, IndexStep

LEMMA IndexSteps ==
    ASSUME Types, Next
    PROVE  IndexStep
  <1>1. CASE \E w \in Writers : TakeOff(w) \/ InsertElement(w)
    BY <1>1, KeyHash DEF TakeOff, InsertElement, Lock, IndexStep
  <1>2. CASE \E k \in Keys : Get(k)
    BY <1>2, KeyHash DEF Get, IndexStep
  <1>3. CASE Expand
    BY <1>3 DEF Expand, IndexStep
  <1>4. CASE FindElement
    BY <1>4, KeyHash, LookFor DEF FindElement
  <1>5. CASE NextSubkey
    <2>1. Head(find.list) \in Keys
      BY <1>5, HeadTailFacts DEF NextSubkey, Types, FindInv, Finds
    <2> QED
      BY <1>5, <2>1, KeyHash, LookFor DEF NextSubkey
  <1>6. CASE BeginSubkeys
    BY <1>6, KeyHash DEF BeginSubkeys, IndexStep
  <1>7. CASE TestHash
    <2>1. walk.test \in Nat
      BY DEF Types, WalkInv, Walks
    <2> QED
      BY <1>7, <2>1 DEF TestHash, IndexStep
  <1>8. CASE index' = index
    BY <1>8 DEF index, IndexStep
  <1> QED
    BY <1>1, <1>2, <1>3, <1>4, <1>5, <1>6, <1>7, <1>8
       DEF Next, Call, FreeElement, Tick, Begin, PassOver, ReadElement, FindEnd, FindSubkey,
           SubkeysEnd, GetElementsByHash, GetEnd, SetElementByBinArray, SetOther, Done, vars, index

\* What Arranged leaves assigned.
LEMMA ArrangedFacts ==
    ASSUME IndexInv, NEW h \in Nat
    PROVE  /\ Arranged(h) \subseteq 0 .. Size(bits) - 1
           /\ assigned \subseteq Arranged(h)
           /\ Masked(h, bits) \in Arranged(h)
           /\ WhereOf(h, Arranged(h), bits) = Masked(h, bits)
           /\ Masked(h, bits) \in assigned => Arranged(h) = assigned
           /\ Masked(h, bits) \notin assigned => Arranged(h) = assigned \cup LevelsOf(h, bits)
  <1>1. bits \in Widths /\ assigned \subseteq 0 .. Size(bits) - 1 /\ Lowest \subseteq assigned
    BY DEF IndexInv
  <1>2. Path(h) = LevelsOf(h, bits) /\ Top(h) = Masked(h, bits)
    BY DEF Path, LevelsOf, Top, Masked
  <1>3. LevelsOf(h, bits) \subseteq 0 .. Size(bits) - 1
    BY <1>1, LevelsType
  <1>4. Masked(h, bits) \in LevelsOf(h, bits)
    BY <1>1, WhereTop
  <1>5. /\ Arranged(h) \subseteq 0 .. Size(bits) - 1
        /\ assigned \subseteq Arranged(h)
        /\ Masked(h, bits) \in Arranged(h)
        /\ Masked(h, bits) \in assigned => Arranged(h) = assigned
        /\ Masked(h, bits) \notin assigned => Arranged(h) = assigned \cup LevelsOf(h, bits)
    BY <1>1, <1>2, <1>3, <1>4 DEF Arranged
  <1>6. Lowest \subseteq Arranged(h)
    BY <1>1, <1>5
  <1>7. WhereOf(h, Arranged(h), bits) = Masked(h, bits)
    BY <1>1, <1>5, <1>6, WhereTop
  <1> QED
    BY <1>5, <1>7

LEMMA IndexNext ==
    ASSUME IndexInv, IndexStep
    PROVE  /\ IndexInv'
           /\ Size(bits) \in Nat \ {0} /\ Size(bits') \in Nat \ {0}
           /\ Size(bits) <= Size(bits')
  <1>1. bits \in Widths /\ assigned \subseteq 0 .. Size(bits) - 1 /\ Lowest \subseteq assigned
    BY DEF IndexInv
  <1>2. Size(bits) \in Nat \ {0} /\ Size(bits + 1) = 2 * Size(bits)
    BY <1>1, MaskType
  <1>3. CASE bits' = bits /\ (assigned' = assigned \/ \E h \in Nat : assigned' = Arranged(h))
    <2>1. assigned' \subseteq 0 .. Size(bits) - 1 /\ assigned \subseteq assigned'
      BY <1>1, <1>3, ArrangedFacts
    <2> QED
      BY <1>1, <1>2, <1>3, <2>1 DEF IndexInv
  <1>4. CASE bits < MaxBits /\ bits' = bits + 1 /\ assigned' = assigned
    <2>1. bits + 1 \in Widths
      BY <1>1, <1>4, BitsAssumption DEF Widths
    <2> DEFINE n == Size(bits)
               m == Size(bits + 1)
    <2>2. n \in Nat \ {0} /\ m = 2 * n /\ assigned \subseteq 0 .. n - 1
      BY <1>1, <1>2
    <2> HIDE DEF n, m
    <2>3. n <= m /\ m \in Nat \ {0} /\ assigned \subseteq 0 .. m - 1
      BY <2>2
    <2>4. Size(bits) <= Size(bits') /\ Size(bits') \in Nat \ {0}
      BY <1>4, <2>3 DEF n, m
    <2>5. assigned \subseteq 0 .. Size(bits') - 1
      BY <1>4, <2>3 DEF m
    <2> QED
      BY <1>1, <1>2, <1>4, <2>1, <2>4, <2>5 DEF IndexInv
  <1> QED
    BY <1>3, <1>4 DEF IndexStep

\* The lock that an iterator holds keeps the elements under it where they are.
LEMMA HeldStays ==
    ASSUME IndexInv, IndexStep, NEW h \in Nat, WhereOf(h, assigned, bits) \in find.held
    PROVE  WhereOf(h, assigned', bits') = WhereOf(h, assigned, bits)
  <1>1. bits \in Widths /\ assigned \subseteq 0 .. Size(bits) - 1 /\ Lowest \subseteq assigned
    BY DEF IndexInv
  <1>2. CASE assigned' = assigned /\ bits' = bits
    BY <1>2
  <1>3. ASSUME bits' = bits, NEW g \in Nat, CanArrange(g), assigned' = Arranged(g)
        PROVE  WhereOf(h, assigned', bits') = WhereOf(h, assigned, bits)
    <2>1. CASE Masked(g, bits) \in assigned
      BY <1>3, <2>1, ArrangedFacts
    <2>2. CASE Masked(g, bits) \notin assigned
      <3>1. find.held \cap LevelsOf(g, bits) = {}
        BY <1>3, <2>2 DEF CanArrange, Top, Masked, Path, LevelsOf
      <3>2. WhereOf(h, assigned \cup LevelsOf(g, bits), bits) = WhereOf(h, assigned, bits)
        BY <1>1, <3>1, WhereArranged
      <3>3. assigned' = assigned \cup LevelsOf(g, bits)
        BY <1>3, <2>2, ArrangedFacts
      <3> QED
        BY <1>3, <3>2, <3>3
    <2> QED
      BY <2>1, <2>2
  <1>4. CASE bits < MaxBits /\ bits' = bits + 1 /\ assigned' = assigned
    <2>1. bits + 1 \in Widths
      BY <1>1, <1>4, BitsAssumption DEF Widths
    <2>2. WhereOf(h, assigned, bits + 1) = WhereOf(h, assigned, bits)
      BY <1>1, <2>1, WhereWidened
    <2> QED
      BY <1>4, <2>2
  <1> QED
    BY <1>2, <1>3, <1>4 DEF IndexStep

-----------------------------------------------------------------------------
\* The slots, the free list and the writers

\* What an insertion makes of the slots.
LEMMA InsertSlots ==
    ASSUME Types, NEW e \in Elements,
           slots' = [s \in DOMAIN slots \cup {Reserved} |-> IF s = Reserved THEN e ELSE slots[s]]
    PROVE  /\ Reserved \in Nat
           /\ slots' \in Seq(Elements)
           /\ Len(slots) \in Nat /\ Len(slots') \in Nat /\ Len(slots) <= Len(slots')
           /\ DOMAIN slots' = DOMAIN slots \cup {Reserved}
           /\ slots'[Reserved] = e
           /\ \A s \in DOMAIN slots \ {Reserved} : slots'[s] = slots[s]
           /\ Reserved \in DOMAIN slots => slots[Reserved].key = NoKey
           /\ free = <<>> => Reserved \notin DOMAIN slots
           /\ free # <<>> => Reserved = Head(free) /\ Reserved \in DOMAIN slots
  <1> DEFINE n == Len(slots)
             f == slots'
  <1>1. n \in Nat /\ DOMAIN slots = 1 .. n /\ \A s \in 1 .. n : slots[s] \in Elements
    BY MemberFacts DEF Types, SlotsInv
  <1>2. /\ free = <<>> => Reserved = n + 1
        /\ free # <<>> => /\ Reserved = Head(free)
                          /\ Reserved \in DOMAIN slots /\ slots[Reserved].key = NoKey
    <2>0. free \in Seq(Nat)
      BY DEF Types, FreeInv
    <2>1. ASSUME free # <<>> PROVE Head(free) \in ToSet(free)
      <3>1. ToSet(free) = {Head(free)} \cup ToSet(Tail(free))
        BY <2>0, <2>1, HeadTailFacts, Zenon
      <3> QED
        BY <3>1
    <2> QED
      BY <2>1 DEF Reserved, Types, FreeInv
  <1> HIDE DEF n, f
  <1>3. PICK m \in Nat : DOMAIN slots \cup {Reserved} = 1 .. m /\ n <= m
    <2>1. CASE free = <<>>
      <3>1. DOMAIN slots \cup {Reserved} = 1 .. n + 1 /\ n <= n + 1 /\ n + 1 \in Nat
        BY <1>1, <1>2, <2>1
      <3> QED
        BY <3>1
    <2>2. CASE free # <<>>
      BY <1>1, <1>2, <2>2
    <2> QED
      BY <2>1, <2>2
  <1>4. /\ f = [s \in 1 .. m |-> IF s = Reserved THEN e ELSE slots[s]]
        /\ \A s \in 1 .. m : s # Reserved => s \in 1 .. n
    BY <1>1, <1>3 DEF f
  <1>5. f \in [1 .. m -> Elements]
    BY <1>1, <1>4
  <1>6. f \in Seq(Elements) /\ Len(f) = m /\ DOMAIN f = 1 .. m
    BY <1>5
  <1>7. Reserved \in 1 .. m
    BY <1>3
  <1>8. f[Reserved] = e /\ \A s \in DOMAIN slots \ {Reserved} : f[s] = slots[s]
    BY <1>3, <1>4, <1>7
  <1>9. Reserved \in DOMAIN slots => slots[Reserved].key = NoKey
    BY <1>1, <1>2
  <1>10. free = <<>> => Reserved \notin DOMAIN slots
    BY <1>1, <1>2
  <1>11. Len(slots') \in Nat /\ Len(slots) <= Len(slots') /\ Reserved \in Nat
    BY <1>3, <1>6, <1>7 DEF n, f
  <1> QED
    BY <1>1, <1>2, <1>3, <1>6, <1>8, <1>9, <1>10, <1>11, Zenon DEF n, f

StoreInv == SlotsInv /\ FreeInv /\ TaskInv

\* What stays linked stays as it is; the slots only get more.
SlotsStep ==
    /\ Len(slots) <= Len(slots')
    /\ DOMAIN slots \subseteq DOMAIN slots'
    /\ \A s \in DOMAIN slots : slots[s].linked =>
          \/ slots'[s] = slots[s]
          \/ s \notin stay' /\ \E w \in Writers : TakeOff(w) /\ slots[s].key = task[w].key

LEMMA CallStore ==
    ASSUME Types, NEW w \in Writers, NEW k \in Keys, NEW set \in BOOLEAN, Call(w, k, set)
    PROVE  StoreInv' /\ SlotsStep /\ stay' = stay
  <1> USE DEF Types, Call
  <1>1. SlotsInv' /\ FreeInv'
    BY DEF SlotsInv, FreeInv
  <1>2. TaskInv'
    BY DEF TaskInv, Freeing, Tasks
  <1>3. Len(slots) \in Nat
    BY MemberFacts DEF SlotsInv
  <1> QED
    BY <1>1, <1>2, <1>3 DEF StoreInv, SlotsStep

LEMMA TakeOffStore ==
    ASSUME Types, NEW w \in Writers, TakeOff(w)
    PROVE  StoreInv' /\ SlotsStep /\ stay' \subseteq stay
  <1>0. Len(slots) \in Nat /\ DOMAIN slots = 1 .. Len(slots)
        /\ (\A s \in DOMAIN slots : slots[s] \in Elements)
    BY MemberFacts DEF Types, SlotsInv
  <1>a. After(w) \in {"idle", "insert"} /\ task[w].key \in Keys
    BY DEF After, TakeOff, Types, TaskInv
  <1>1. CASE /\ task' = [task EXCEPT ![w].pc = After(w)]
             /\ UNCHANGED <<slots, stay>>
    <2>1. SlotsInv' /\ FreeInv'
      BY <1>1 DEF Types, TakeOff, SlotsInv, FreeInv
    <2>2. TaskInv'
      BY <1>1, <1>a DEF Types, TaskInv, Freeing, Tasks
    <2> QED
      BY <1>0, <1>1, <2>1, <2>2 DEF StoreInv, SlotsStep
  <1>2. ASSUME NEW s \in SlotsOf(task[w].key),
               slots' = [slots EXCEPT ![s].linked = FALSE],
               task' = [task EXCEPT ![w].pc = "free", ![w].slot = s],
               stay' = stay \ {s}
        PROVE  StoreInv' /\ SlotsStep /\ stay' \subseteq stay
    <2>1. s \in DOMAIN slots /\ slots[s].linked /\ slots[s].key = task[w].key
      BY <1>2 DEF SlotsOf, Linked
    <2>2. /\ slots' \in Seq(Elements) /\ Len(slots') = Len(slots) /\ DOMAIN slots' = DOMAIN slots
          /\ \A r \in DOMAIN slots \ {s} : slots'[r] = slots[r]
          /\ slots'[s].key = slots[s].key /\ ~slots'[s].linked
      <3> DEFINE e == [slots[s] EXCEPT !.linked = FALSE]
      <3>1. e \in Elements /\ e.key = slots[s].key /\ ~e.linked
        BY <1>0, <2>1 DEF Elements
      <3>2. slots' = [slots EXCEPT ![s] = e]
        BY <1>2
      <3> HIDE DEF e
      <3>3. slots' \in [1 .. Len(slots) -> Elements]
        BY <1>0, <3>1, <3>2
      <3> QED
        BY <1>0, <2>1, <3>1, <3>2, <3>3
    <2>3. SlotsInv'
      BY <1>2, <2>1, <2>2 DEF Types, SlotsInv
    <2>4. FreeInv'
      BY <2>1, <2>2 DEF TakeOff, Types, FreeInv
    <2>5. s \in Nat
      BY <1>0, <2>1
    <2>6. \A v \in Writers : Freeing(v) => task[v].slot # s
      BY <2>1 DEF Types, TaskInv
    <2>7. task' \in [Writers -> Tasks]
      <3>2. task \in [Writers -> Tasks]
        BY DEF Types, TaskInv
      <3>4. ASSUME NEW t \in Tasks PROVE [[t EXCEPT !.pc = "free"] EXCEPT !.slot = s] \in Tasks
        BY <2>5 DEF Tasks
      <3>1. [[task[w] EXCEPT !.pc = "free"] EXCEPT !.slot = s] \in Tasks
        BY <3>2, <3>4
      <3>3. task' = [task EXCEPT ![w] = [[task[w] EXCEPT !.pc = "free"] EXCEPT !.slot = s]]
        BY <1>2, <3>2
      <3> QED
        BY <3>1, <3>2, <3>3
    <2>8. /\ task'[w].pc = "free" /\ task'[w].slot = s /\ task'[w].key = task[w].key
          /\ \A v \in Writers \ {w} : task'[v] = task[v]
      BY <1>2 DEF Types, TaskInv, Tasks
    <2>9. s \in DOMAIN slots' /\ ~slots'[s].linked /\ slots'[s].key # NoKey
      BY <1>a, <2>1, <2>2, HashAssumption
    <2>10. TaskInv'
      <3>1. \A v \in Writers : task'[v].pc # "idle" => task'[v].key \in Keys
        BY <1>a, <2>8 DEF Types, TaskInv
      <3>2. ASSUME NEW v \in Writers, task'[v].pc = "free"
            PROVE  /\ task'[v].slot \in DOMAIN slots'
                   /\ ~slots'[task'[v].slot].linked
                   /\ slots'[task'[v].slot].key # NoKey
        <4>1. CASE v = w
          BY <2>8, <2>9, <4>1
        <4>2. CASE v # w
          <5>1. task[v].pc = "free" /\ task'[v] = task[v] /\ task[v].slot # s
            BY <2>6, <2>8, <3>2, <4>2 DEF Freeing
          <5> QED
            BY <2>2, <5>1 DEF Types, TaskInv, Freeing
        <4> QED
          BY <4>1, <4>2
      <3>3. \A v, u \in Writers : /\ task'[v].pc = "free" /\ task'[u].pc = "free"
                                  /\ task'[v].slot = task'[u].slot
                                  => v = u
        BY <2>6, <2>8 DEF Types, TaskInv, Freeing
      <3> QED
        BY <2>7, <3>1, <3>2, <3>3 DEF TaskInv, Freeing
    <2>11. SlotsStep
      BY <1>0, <1>2, <2>1, <2>2 DEF SlotsStep
    <2> QED
      BY <1>2, <2>3, <2>4, <2>10, <2>11 DEF StoreInv
  <1> QED
    BY <1>1, <1>2 DEF TakeOff

LEMMA FreeStore ==
    ASSUME Types, NEW w \in Writers, FreeElement(w)
    PROVE  StoreInv' /\ SlotsStep /\ stay' = stay
  <1>0. Len(slots) \in Nat /\ DOMAIN slots = 1 .. Len(slots)
        /\ (\A s \in DOMAIN slots : slots[s] \in Elements)
    BY MemberFacts DEF Types, SlotsInv
  <1>a. After(w) \in {"idle", "insert"} /\ task[w].key \in Keys /\ Freeing(w)
    BY DEF After, FreeElement, Types, TaskInv, Freeing
  <1> DEFINE s == task[w].slot
  <1>1. s \in DOMAIN slots /\ ~slots[s].linked /\ slots[s].key # NoKey /\ s \in Nat
    BY <1>0, <1>a DEF Types, TaskInv
  <1>2. /\ slots' = [slots EXCEPT ![s] = Free] /\ free' = <<s>> \o free /\ stay' = stay
        /\ task' = [task EXCEPT ![w].pc = After(w)]
    BY DEF FreeElement
  <1> HIDE DEF s
  <1>3. Free \in Elements /\ Free.key = NoKey /\ ~Free.linked
    BY DEF Free, Elements, NoTime
  <1>4. /\ slots' \in Seq(Elements) /\ Len(slots') = Len(slots) /\ DOMAIN slots' = DOMAIN slots
        /\ \A r \in DOMAIN slots \ {s} : slots'[r] = slots[r]
        /\ slots'[s].key = NoKey /\ ~slots'[s].linked
    <2>1. slots' \in [1 .. Len(slots) -> Elements]
      BY <1>0, <1>2, <1>3
    <2>2. slots' \in Seq(Elements) /\ Len(slots') = Len(slots) /\ DOMAIN slots' = DOMAIN slots
      BY <1>0, <2>1
    <2>3. slots'[s] = Free /\ \A r \in DOMAIN slots \ {s} : slots'[r] = slots[r]
      BY <1>1, <1>2
    <2> QED
      BY <1>3, <2>2, <2>3
  <1>5. SlotsInv'
    BY <1>1, <1>2, <1>4 DEF Types, SlotsInv
  <1>6. FreeInv'
    <2>1. free \in Seq(Nat) /\ IsInjective(free) /\ s \notin ToSet(free)
      BY <1>1 DEF Types, FreeInv
    <2>2. free' \in Seq(Nat) /\ ToSet(free') = ToSet(free) \cup {s} /\ IsInjective(free')
      BY <1>1, <1>2, <2>1, PrependFacts
    <2>3. ToSet(free') = {r \in DOMAIN slots' : slots'[r].key = NoKey}
      BY <1>1, <1>4, <2>2 DEF Types, FreeInv
    <2> QED
      BY <2>2, <2>3 DEF FreeInv
  <1>7. /\ task'[w].pc = After(w) /\ task'[w].key = task[w].key
        /\ task' \in [Writers -> Tasks]
        /\ \A v \in Writers \ {w} : task'[v] = task[v]
    BY <1>2, <1>a DEF Types, TaskInv, Tasks
  <1>8. \A v \in Writers : task'[v].pc = "free" =>
           v # w /\ Freeing(v) /\ task'[v] = task[v] /\ task[v].slot # s
    BY <1>7, <1>a DEF Freeing, Types, TaskInv, s
  <1>9. TaskInv'
    <2>1. \A v \in Writers : task'[v].pc # "idle" => task'[v].key \in Keys
      BY <1>a, <1>7 DEF Types, TaskInv
    <2>2. \A v \in Writers : task'[v].pc = "free" =>
             /\ task'[v].slot \in DOMAIN slots'
             /\ ~slots'[task'[v].slot].linked
             /\ slots'[task'[v].slot].key # NoKey
      BY <1>4, <1>8 DEF Types, TaskInv
    <2>3. \A v, u \in Writers : /\ task'[v].pc = "free" /\ task'[u].pc = "free"
                                /\ task'[v].slot = task'[u].slot
                                => v = u
      BY <1>8 DEF Types, TaskInv
    <2> QED
      BY <1>7, <2>1, <2>2, <2>3 DEF TaskInv, Freeing
  <1>10. SlotsStep
    BY <1>0, <1>1, <1>4 DEF SlotsStep
  <1> QED
    BY <1>2, <1>5, <1>6, <1>9, <1>10 DEF StoreInv

LEMMA InsertStore ==
    ASSUME Types, NEW w \in Writers, InsertElement(w)
    PROVE  StoreInv' /\ SlotsStep /\ stay' = stay
  <1>0. Len(slots) \in Nat /\ DOMAIN slots = 1 .. Len(slots)
        /\ (\A s \in DOMAIN slots : slots[s] \in Elements)
    BY MemberFacts DEF Types, SlotsInv
  <1> DEFINE k == task[w].key
             e == [key |-> k, mtime |-> IF use.mtime THEN now ELSE NoTime, expire |-> NoTime,
                   linked |-> TRUE]
  <1>1. k \in Keys /\ task[w].pc = "insert" /\ stay' = stay
    BY DEF InsertElement, Types, TaskInv
  <1>2. CASE task' = [task EXCEPT ![w].pc = "remove"] /\ UNCHANGED <<slots, free>>
    <2>1. SlotsInv' /\ FreeInv'
      BY <1>1, <1>2 DEF Types, SlotsInv, FreeInv
    <2>2. TaskInv'
      BY <1>1, <1>2 DEF Types, TaskInv, Freeing, Tasks
    <2> QED
      BY <1>0, <1>1, <1>2, <2>1, <2>2 DEF StoreInv, SlotsStep
  <1>3. CASE /\ SlotsOf(k) = {}
             /\ slots' = [s \in DOMAIN slots \cup {Reserved} |-> IF s = Reserved THEN e ELSE slots[s]]
             /\ free' = StillFree
             /\ task' = [task EXCEPT ![w].pc = "idle"]
    <2>1. e \in Elements /\ e.key = k /\ e.linked
      BY <1>1 DEF Elements, NoTime, Types, OtherInv
    <2>k. k # NoKey
      BY <1>1, HashAssumption
    <2>2. /\ Reserved \in Nat
          /\ slots' \in Seq(Elements)
          /\ Len(slots) <= Len(slots')
          /\ DOMAIN slots' = DOMAIN slots \cup {Reserved}
          /\ slots'[Reserved] = e
          /\ \A s \in DOMAIN slots \ {Reserved} : slots'[s] = slots[s]
          /\ Reserved \in DOMAIN slots => slots[Reserved].key = NoKey
          /\ free = <<>> => Reserved \notin DOMAIN slots
          /\ free # <<>> => Reserved = Head(free) /\ Reserved \in DOMAIN slots
      <3> HIDE DEF e
      <3> QED
        BY <1>3, <2>1, InsertSlots
    <2>3. \A s \in DOMAIN slots : ~(slots[s].linked /\ slots[s].key = k)
      BY <1>3 DEF SlotsOf, Linked
    <2>4. Reserved \in DOMAIN slots => ~slots[Reserved].linked
      BY <2>2 DEF Types, SlotsInv
    <2> HIDE DEF e, k
    <2>5. SlotsInv'
      <3>1. \A s \in DOMAIN slots' : slots'[s].linked => slots'[s].key # NoKey
        BY <2>1, <2>2, <2>k DEF Types, SlotsInv
      <3>2. ASSUME NEW s \in DOMAIN slots', NEW r \in DOMAIN slots',
                   slots'[s].linked, slots'[r].linked, slots'[s].key = slots'[r].key
            PROVE  s = r
        <4>1. CASE s = Reserved \/ r = Reserved
          BY <2>1, <2>2, <2>3, <3>2, <4>1
        <4>2. CASE s # Reserved /\ r # Reserved
          BY <2>2, <3>2, <4>2 DEF Types, SlotsInv
        <4> QED
          BY <4>1, <4>2
      <3>3. stay' \subseteq {s \in DOMAIN slots' : slots'[s].linked}
        BY <1>1, <2>2, <2>4 DEF Types, SlotsInv
      <3> QED
        BY <2>2, <3>1, <3>2, <3>3 DEF SlotsInv
    <2>6. FreeInv'
      <3>0. free \in Seq(Nat) /\ IsInjective(free)
            /\ ToSet(free) = {s \in DOMAIN slots : slots[s].key = NoKey}
        BY DEF Types, FreeInv
      <3>1. free' \in Seq(Nat) /\ IsInjective(free') /\ ToSet(free') = ToSet(free) \ {Reserved}
        <4>1. CASE free = <<>>
          <5>1. free' = <<>>
            BY <1>3, <4>1 DEF StillFree
          <5>2. ToSet(free) = {}
            BY <4>1, EmptyFacts
          <5> QED
            BY <5>1, <5>2, EmptyFacts
        <4>2. CASE free # <<>>
          <5>1. free' = Tail(free) /\ Reserved = Head(free)
            BY <1>3, <2>2, <4>2 DEF StillFree
          <5>2. /\ Tail(free) \in Seq(Nat)
                /\ ToSet(free) = {Head(free)} \cup ToSet(Tail(free))
                /\ IsInjective(Tail(free)) /\ Head(free) \notin ToSet(Tail(free))
            BY <3>0, <4>2, HeadTailFacts, Zenon
          <5> QED
            BY <5>1, <5>2
        <4> QED
          BY <4>1, <4>2
      <3>2. ToSet(free') = {s \in DOMAIN slots' : slots'[s].key = NoKey}
        BY <2>1, <2>2, <2>k, <3>0, <3>1
      <3> QED
        BY <3>1, <3>2 DEF FreeInv
    <2>7. TaskInv'
      <3>1. /\ task' \in [Writers -> Tasks] /\ task'[w].pc = "idle"
            /\ \A v \in Writers \ {w} : task'[v] = task[v]
        BY <1>3 DEF Types, TaskInv, Tasks
      <3>2. \A v \in Writers : task'[v].pc # "idle" => v # w /\ task'[v] = task[v]
        BY <3>1
      <3>3. \A v \in Writers : Freeing(v) => task[v].slot # Reserved
        BY <2>2 DEF Types, TaskInv
      <3>4. \A v \in Writers : task'[v].pc = "free" =>
               /\ task'[v].slot \in DOMAIN slots'
               /\ ~slots'[task'[v].slot].linked
               /\ slots'[task'[v].slot].key # NoKey
        <4>1. ASSUME NEW v \in Writers, task'[v].pc = "free"
              PROVE  task'[v] = task[v] /\ Freeing(v)
          BY <3>2, <4>1 DEF Freeing
        <4> QED
          BY <2>2, <3>3, <4>1 DEF Types, TaskInv
      <3>5. \A v \in Writers : task'[v].pc # "idle" => task'[v].key \in Keys
        BY <3>2 DEF Types, TaskInv
      <3>6. \A v, u \in Writers : /\ task'[v].pc = "free" /\ task'[u].pc = "free"
                                  /\ task'[v].slot = task'[u].slot
                                  => v = u
        BY <3>2 DEF Types, TaskInv, Freeing
      <3> QED
        BY <3>1, <3>4, <3>5, <3>6 DEF TaskInv, Freeing
    <2>8. SlotsStep
      <3>1. \A s \in DOMAIN slots : slots[s].linked => slots'[s] = slots[s]
        BY <2>2, <2>4
      <3> QED
        BY <2>2, <3>1 DEF SlotsStep
    <2> QED
      BY <1>1, <2>5, <2>6, <2>7, <2>8 DEF StoreInv
  <1> QED
    BY <1>1, <1>2, <1>3 DEF InsertElement


\* Every other step leaves the slots, and what stays of them was linked.
LEMMA StoreNext ==
    ASSUME Types, Next
    PROVE  /\ StoreInv' /\ SlotsStep /\ use' = use
           /\ \/ stay' \subseteq stay
              \/ stay' = {s \in DOMAIN slots : slots[s].linked} /\ slots' = slots
  <1>0. Len(slots) \in Nat
    BY MemberFacts DEF Types, SlotsInv
  <1> DEFINE Result == /\ StoreInv' /\ SlotsStep /\ use' = use
                       /\ \/ stay' \subseteq stay
                          \/ stay' = {s \in DOMAIN slots : slots[s].linked} /\ slots' = slots
  <1>1. ASSUME NEW w \in Writers, TakeOff(w) \/ FreeElement(w) \/ InsertElement(w)
        PROVE  Result
    <2>1. use' = use
      BY <1>1 DEF TakeOff, FreeElement, InsertElement
    <2>2. CASE TakeOff(w)
      BY <2>1, <2>2, TakeOffStore
    <2>3. CASE FreeElement(w)
      BY <2>1, <2>3, FreeStore
    <2>4. CASE InsertElement(w)
      BY <2>1, <2>4, InsertStore
    <2> QED
      BY <1>1, <2>2, <2>3, <2>4
  <1>2. ASSUME NEW w \in Writers, NEW k \in Keys, NEW set \in BOOLEAN, Call(w, k, set)
        PROVE  Result
    BY <1>2, CallStore DEF Call
  <1>3. CASE /\ slots' = slots /\ free' = free /\ task' = task /\ use' = use
             /\ stay' \subseteq stay \/ stay' = {s \in DOMAIN slots : slots[s].linked}
    <2>1. SlotsInv' /\ FreeInv'
      BY <1>3 DEF Types, SlotsInv, FreeInv
    <2>2. TaskInv'
      BY <1>3 DEF Types, TaskInv, Freeing
    <2>3. SlotsStep
      BY <1>0, <1>3 DEF SlotsStep
    <2> QED
      BY <1>3, <2>1, <2>2, <2>3 DEF StoreInv
  <1>4. CASE Begin \/ BeginSubkeys
    <2>1. stay' = {} \/ stay' = {s \in DOMAIN slots : slots[s].linked}
      BY <1>4 DEF Begin, BeginSubkeys, Start, Linked
    <2> QED
      BY <1>3, <1>4, <2>1 DEF Begin, BeginSubkeys, ours
  <1>5. CASE GetElementsByHash
    <2>1. stay' = stay \/ stay' = {s \in DOMAIN slots : slots[s].linked}
      BY <1>5 DEF GetElementsByHash, Linked
    <2> QED
      BY <1>3, <1>5, <2>1 DEF GetElementsByHash, ours
  <1>6. CASE /\ slots' = slots /\ free' = free /\ task' = task /\ use' = use
             /\ stay' = stay
    BY <1>3, <1>6
  <1> QED
    BY <1>1, <1>2, <1>4, <1>5, <1>6
       DEF Next, Get, Expand, Tick, PassOver, FindElement, ReadElement, FindEnd, NextSubkey,
           FindSubkey, SubkeysEnd, TestHash, GetEnd, SetElementByBinArray, SetOther, Done,
           vars, ours

-----------------------------------------------------------------------------
\* The iterators

\* What asking for a lock does.
LEMMA LookResult ==
    ASSUME Types, IndexInv', NEW h \in Nat, NEW at \in Nat, GetCKIndex(h, at)
    PROVE  /\ find' \in Finds /\ find'.pc = "lock" /\ find'.at = at /\ find'.list = find.list
           /\ find'.first = find.first
           /\ find'.going = {WhereOf(h, assigned', bits')}
           /\ find'.held = {} \/ find'.held = find.held
  <1>1. PICK kept \in {{}, find.held} :
           find' = [find EXCEPT !.pc = "lock", !.at = at, !.going = {Where(h, assigned')},
                                !.held = kept]
    BY DEF GetCKIndex
  <1>2. bits' = bits /\ Where(h, assigned') = WhereOf(h, assigned', bits')
    BY DEF GetCKIndex, Where, WhereOf, Masked
  <1>3. WhereOf(h, assigned', bits') \in Nat
    <2>1. /\ bits' \in Widths /\ assigned' \subseteq 0 .. Size(bits') - 1
          /\ Lowest \subseteq assigned'
      BY DEF IndexInv, Lowest
    <2>2. WhereOf(h, assigned', bits') \in assigned'
      BY <2>1, WhereTop
    <2>3. Size(bits') \in Nat \ {0}
      BY <2>1, MaskType
    <2>4. 0 .. Size(bits') - 1 \subseteq Nat
      BY <2>3
    <2> QED
      BY <2>1, <2>2, <2>4, Zenon
  <1> DEFINE g == WhereOf(h, assigned', bits')
  <1>4. g \in Nat /\ find' = [find EXCEPT !.pc = "lock", !.at = at, !.going = {g}, !.held = kept]
    BY <1>1, <1>2, <1>3
  <1> HIDE DEF g
  <1>5. find \in Finds
    BY DEF Types, FindInv
  <1>6. find' = [pc |-> "lock", at |-> at, first |-> find.first, list |-> find.list,
                 going |-> {g}, held |-> kept]
    BY <1>4, <1>5 DEF Finds
  <1>7. find.first \in BOOLEAN /\ find.list \in Seq(Keys) /\ kept \in SUBSET Nat
    BY <1>5 DEF Finds
  <1>8. find' \in Finds
    BY <1>4, <1>6, <1>7 DEF Finds
  <1>9. kept = {} \/ kept = find.held
    OBVIOUS
  <1>10. /\ find'.pc = "lock" /\ find'.at = at /\ find'.list = find.list
         /\ find'.first = find.first /\ find'.going = {g} /\ find'.held = kept
    BY <1>6
  <1> QED
    BY <1>8, <1>9, <1>10 DEF g

\* The steps of the iterators; every other step leaves them alone.
LEMMA FindNext ==
    ASSUME Types, Next, IndexInv'
    PROVE  FindInv'
  <1>0. Len(slots) \in Nat /\ DOMAIN slots = 1 .. Len(slots)
    BY MemberFacts DEF Types, SlotsInv
  <1>1. /\ Len(slots) <= Len(slots') /\ DOMAIN slots \subseteq DOMAIN slots' /\ use' = use
        /\ Len(slots') \in Nat
    <2>1. SlotsInv'
      BY StoreNext DEF StoreInv
    <2>2. Len(slots') \in Nat
      BY <2>1, MemberFacts DEF SlotsInv
    <2> QED
      BY <2>2, StoreNext DEF SlotsStep
  <1>2. find \in Finds /\ find.at <= Len(slots) /\ find.at \in Nat
    BY DEF Types, FindInv, Finds
  <1>3. CASE find' = find
    <2>1. find'.at <= Len(slots')
      BY <1>0, <1>1, <1>2, <1>3
    <2> QED
      BY <1>1, <1>3, <2>1 DEF Types, FindInv
  <1>4. ASSUME find' \in Finds, find'.at \in 0 .. Len(slots), find'.pc # "idle",
               find'.pc # "lock"
        PROVE  FindInv'
    <2>1. find'.at <= Len(slots')
      BY <1>0, <1>1, <1>4
    <2> QED
      BY <1>4, <2>1 DEF FindInv
  <1>5. CASE Begin
    BY <1>2, <1>4, <1>5 DEF Begin, Finds
  <1>6. CASE PassOver
    <2>1. NextSlot \in DOMAIN slots /\ find' = [find EXCEPT !.at = NextSlot] /\ find.pc = "look"
      BY <1>6 DEF PassOver, Looking
    <2>2. NextSlot \in 0 .. Len(slots)
      BY <1>0, <2>1
    <2> HIDE DEF NextSlot
    <2>3. find' \in Finds /\ find'.at = NextSlot /\ find'.pc = "look"
      BY <1>2, <2>1, <2>2 DEF Finds
    <2> QED
      BY <1>4, <2>2, <2>3
  <1>7. CASE FindElement
    <2>1. NextSlot \in DOMAIN slots /\ slots[NextSlot].key # NoKey /\ Looking("find")
          /\ GetCKIndex(Hash[slots[NextSlot].key], NextSlot)
      BY <1>7 DEF FindElement
    <2>2. Hash[slots[NextSlot].key] \in Nat /\ NextSlot \in Nat
      BY <1>0, <2>1, KeyHash
    <2> HIDE DEF NextSlot
    <2>3. find' \in Finds /\ find'.pc = "lock" /\ find'.at = NextSlot
      BY <2>1, <2>2, LookResult
    <2>4. NextSlot \in DOMAIN slots' /\ NextSlot <= Len(slots')
      BY <1>0, <1>1, <2>1
    <2> QED
      BY <1>1, <2>1, <2>3, <2>4 DEF FindInv, Looking
  <1>8. CASE ReadElement
    <2>1. find' = [find EXCEPT !.pc = "look", !.held = find.going]
      BY <1>8 DEF ReadElement
    <2>2. find' \in Finds /\ find'.at = find.at /\ find'.pc = "look"
      BY <1>2, <2>1 DEF Finds
    <2> QED
      BY <1>2, <1>4, <2>2
  <1>9. CASE FindEnd \/ SubkeysEnd
    <2>1. find' = [find EXCEPT !.pc = "end", !.held = {}]
      BY <1>9 DEF FindEnd, SubkeysEnd
    <2>2. find' \in Finds /\ find'.at = find.at /\ find'.pc = "end"
      BY <1>2, <2>1 DEF Finds
    <2> QED
      BY <1>2, <1>4, <2>2
  <1>10. CASE BeginSubkeys
    <2>1. CASE find' = [find EXCEPT !.pc = "end"]
      <3>1. find' \in Finds /\ find'.at = find.at /\ find'.pc = "end"
        BY <1>2, <2>1 DEF Finds
      <3> QED
        BY <1>2, <1>4, <3>1
    <2>2. CASE find' = [find EXCEPT !.pc = "look", !.first = TRUE, !.list = use.subkeys,
                                    !.held = {Top(Hash[use.parent])}]
      <3> DEFINE t == Top(Hash[use.parent])
                 l == use.subkeys
      <3>1. t \in Nat
        <4>1. Hash[use.parent] \in Nat /\ bits \in Widths
          BY KeyHash DEF Types, IndexInv
        <4> QED
          BY <4>1, MaskType DEF Top, Masked
      <3>2. l \in Seq(Keys)
        BY KeyHash
      <3>3. find' = [find EXCEPT !.pc = "look", !.first = TRUE, !.list = l, !.held = {t}]
        BY <2>2
      <3> HIDE DEF t, l
      <3>4. find' = [pc |-> "look", at |-> find.at, first |-> TRUE, list |-> l,
                     going |-> find.going, held |-> {t}]
        BY <1>2, <3>3 DEF Finds
      <3>5. find.going \in SUBSET Nat
        BY <1>2 DEF Finds
      <3>6. find' \in Finds
        BY <1>2, <3>1, <3>2, <3>4, <3>5 DEF Finds
      <3> QED
        BY <1>2, <1>4, <3>4, <3>6
    <2> QED
      BY <1>10, <2>1, <2>2 DEF BeginSubkeys
  <1>11. CASE NextSubkey
    <2>1. use.walker = "subkeys" /\ find.list # <<>> /\ GetCKIndex(Hash[Head(find.list)], 0)
      BY <1>11 DEF NextSubkey, Looking
    <2>2. Head(find.list) \in Keys
      BY <1>2, <2>1, HeadTailFacts DEF Finds
    <2>3. Hash[Head(find.list)] \in Nat
      BY <2>2, KeyHash
    <2>4. find' \in Finds /\ find'.pc = "lock" /\ find'.at = 0 /\ find'.list = find.list
      BY <2>1, <2>3, LookResult
    <2> QED
      BY <1>1, <2>1, <2>4 DEF FindInv
  <1>12. CASE FindSubkey
    <2> DEFINE l == Tail(find.list)
               next == [find EXCEPT !.pc = "look", !.first = FALSE, !.list = l,
                                    !.held = find.going]
    <2>1. find.pc = "lock" /\ use.walker = "subkeys" /\ find.list # <<>>
      BY <1>12 DEF FindSubkey, Types, FindInv
    <2>2. l \in Seq(Keys)
      BY <1>2, <2>1, HeadTailFacts DEF Finds
    <2>3. \/ \E s \in DOMAIN slots : find' = [next EXCEPT !.at = s]
          \/ find' = [next EXCEPT !.pc = "end", !.held = {}]
          \/ find' = next
      BY <1>12 DEF FindSubkey, SlotsOf
    <2> HIDE DEF l
    <2>4. next = [pc |-> "look", at |-> find.at, first |-> FALSE, list |-> l,
                  going |-> find.going, held |-> find.going]
      <3>1. find \in Finds
        BY <1>2
      <3> DEFINE g == find.going
      <3>2. next = [find EXCEPT !.pc = "look", !.first = FALSE, !.list = l, !.held = g]
        OBVIOUS
      <3>3. g = find.going
        OBVIOUS
      <3> HIDE DEF g, next
      <3> QED
        BY <3>1, <3>2, <3>3 DEF Finds
    <2>5. find.going \in SUBSET Nat
      BY <1>2 DEF Finds
    <2>6. next \in Finds
      BY <1>2, <2>2, <2>4, <2>5 DEF Finds
    <2> HIDE DEF next
    <2>7. CASE \E s \in DOMAIN slots : find' = [next EXCEPT !.at = s]
      <3>1. PICK s \in DOMAIN slots : find' = [next EXCEPT !.at = s]
        BY <2>7
      <3>2. s \in 0 .. Len(slots) /\ s \in Nat
        BY <1>0
      <3>3. find' \in Finds /\ find'.pc = "look" /\ find'.at = s
        BY <2>4, <2>6, <3>1, <3>2 DEF Finds
      <3> QED
        BY <1>4, <3>2, <3>3
    <2>8. CASE find' = [next EXCEPT !.pc = "end", !.held = {}]
      <3>1. find' \in Finds /\ find'.pc = "end" /\ find'.at = find.at
        BY <2>4, <2>6, <2>8 DEF Finds
      <3> QED
        BY <1>2, <1>4, <3>1
    <2>9. CASE find' = next
      BY <1>2, <1>4, <2>4, <2>6, <2>9
    <2> QED
      BY <2>3, <2>7, <2>8, <2>9
  <1> QED
    BY <1>3, <1>5, <1>6, <1>7, <1>8, <1>9, <1>10, <1>11, <1>12
       DEF Next, Call, TakeOff, FreeElement, InsertElement, Get, Expand, Tick, GetElementsByHash, TestHash,
           GetEnd, SetElementByBinArray, SetOther, Done, vars, finding

-----------------------------------------------------------------------------
\* The walk by hash

\* What it gives of an element.
LEMMA CopyType ==
    ASSUME Types, NEW s \in DOMAIN slots, slots[s].linked
    PROVE  /\ GetElementToBinary(slots[s]) \in Copies
           /\ GetElementToBinary(slots[s]).key = slots[s].key
           /\ GetElementToBinary(slots[s]).attrs = Attrs(slots[s])
           /\ slots[s].key \in Keys
  <1>1. slots[s] \in Elements /\ slots[s].key # NoKey
    BY MemberFacts DEF Types, SlotsInv
  <1> QED
    BY <1>1 DEF GetElementToBinary, Attrs, Copies, Times, Elements

LEMMA WalkNext ==
    ASSUME Types, Next
    PROVE  WalkInv'
  <1> DEFINE n == Size(bits)
             m == Size(bits')
  <1>1. n \in Nat \ {0} /\ m \in Nat \ {0} /\ n <= m
    BY IndexSteps, IndexNext DEF Types
  <1>2. /\ walk \in Walks /\ walk.test <= walk.max + 1 /\ walk.max <= n - 1
        /\ walk.next <= walk.max
        /\ walk.test \in Nat /\ walk.max \in Nat /\ walk.next \in Nat
    BY DEF Types, WalkInv, Walks
  <1> HIDE DEF n, m
  <1>3. CASE walk' = walk
    <2>1. walk'.max <= m - 1
      BY <1>1, <1>2, <1>3
    <2> QED
      BY <1>2, <1>3, <2>1 DEF WalkInv, m
  <1>4. CASE GetElementsByHash
    <2>1. bits' = bits
      BY <1>4 DEF GetElementsByHash, index
    <2>2. walk' = [pc |-> "test", test |-> walk.next, max |-> n - 1, next |-> 0, data |-> {}]
      BY <1>4 DEF GetElementsByHash, n, Size
    <2>3. n = m
      BY <2>1 DEF n, m
    <2>4. n - 1 \in Nat /\ walk.next <= n - 1
      BY <1>1, <1>2
    <2>5. walk' \in Walks
      BY <1>2, <2>2, <2>4 DEF Walks
    <2>6. walk'.test <= walk'.max + 1 /\ walk'.max <= m - 1 /\ walk'.next <= walk'.max
      BY <1>2, <2>2, <2>3, <2>4
    <2> QED
      BY <2>5, <2>6 DEF WalkInv, m
  <1>5. CASE TestHash
    <2>0. bits' = bits /\ walk.test <= walk.max /\ walk.pc = "test"
      BY <1>5 DEF TestHash
    <2>1. n = m
      BY <2>0 DEF n, m
    <2> DEFINE next == walk.test + 1
    <2>2. next \in Nat /\ next <= walk.max + 1
      BY <1>2, <2>0
    <2>3. CASE walk' = [walk EXCEPT !.test = next]
      <3> HIDE DEF next
      <3>1. walk' \in Walks /\ walk'.test = next /\ walk'.max = walk.max /\ walk'.next = walk.next
        BY <1>2, <2>2, <2>3 DEF Walks
      <3> QED
        BY <1>2, <2>1, <2>2, <3>1 DEF WalkInv, m
    <2>4. CASE \E taken \in SUBSET {s \in DOMAIN slots : Linked(s)} :
                  walk' = [walk EXCEPT !.pc = "put",
                                       !.data = {GetElementToBinary(slots[s]) : s \in taken},
                                       !.next = IF next <= walk.max THEN next ELSE 0]
      <3>1. PICK taken \in SUBSET {s \in DOMAIN slots : Linked(s)} :
                  walk' = [walk EXCEPT !.pc = "put",
                                       !.data = {GetElementToBinary(slots[s]) : s \in taken},
                                       !.next = IF next <= walk.max THEN next ELSE 0]
        BY <2>4
      <3> DEFINE d == {GetElementToBinary(slots[s]) : s \in taken}
                 r == IF next <= walk.max THEN next ELSE 0
      <3>2. d \in SUBSET Copies
        BY CopyType DEF Linked
      <3>3. r \in Nat /\ r <= walk.max
        BY <1>2, <2>2
      <3>4. walk' = [walk EXCEPT !.pc = "put", !.data = d, !.next = r]
        BY <3>1
      <3> HIDE DEF d, r
      <3>5. walk' = [pc |-> "put", test |-> walk.test, max |-> walk.max, next |-> r, data |-> d]
        BY <1>2, <3>4 DEF Walks
      <3>6. walk' \in Walks
        BY <1>2, <3>2, <3>3, <3>5 DEF Walks
      <3>7. walk'.test <= walk'.max + 1 /\ walk'.max <= m - 1 /\ walk'.next <= walk'.max
        BY <1>2, <2>1, <3>3, <3>5
      <3> QED
        BY <3>6, <3>7 DEF WalkInv, m
    <2>5. \/ walk' = [walk EXCEPT !.test = next]
          \/ \E taken \in SUBSET {s \in DOMAIN slots : Linked(s)} :
                  walk' = [walk EXCEPT !.pc = "put",
                                       !.data = {GetElementToBinary(slots[s]) : s \in taken},
                                       !.next = IF next <= walk.max THEN next ELSE 0]
      <3> DEFINE here == {s \in DOMAIN slots :
                       Linked(s) /\ Where(Hash[slots[s].key], assigned') = Top(walk.test)}
                 taken == {s \in here : Taken(s)}
      <3>1. walk' = IF taken = {} THEN [walk EXCEPT !.test = next]
                      ELSE [walk EXCEPT !.pc = "put",
                                        !.data = {GetElementToBinary(slots[s]) : s \in taken},
                                        !.next = IF next <= walk.max THEN next ELSE 0]
        BY <1>5 DEF TestHash
      <3>2. taken \in SUBSET {s \in DOMAIN slots : Linked(s)}
        OBVIOUS
      <3> HIDE DEF taken, next
      <3> QED
        BY <3>1, <3>2
    <2> QED
      BY <2>3, <2>4, <2>5
  <1>6. CASE GetEnd \/ \E d \in walk.data : SetElementByBinArray(d)
    <2>1. bits' = bits
      BY <1>6 DEF GetEnd, SetElementByBinArray, index
    <2>2. \/ walk' = [walk EXCEPT !.pc = "end"]
          \/ \E d \in walk.data : walk' = [walk EXCEPT !.data = @ \ {d}]
      BY <1>6 DEF GetEnd, SetElementByBinArray
    <2>3. /\ walk' \in Walks /\ walk'.test = walk.test /\ walk'.max = walk.max
          /\ walk'.next = walk.next
      BY <1>2, <2>2 DEF Walks
    <2>4. n = m
      BY <2>1 DEF n, m
    <2> QED
      BY <1>2, <2>3, <2>4 DEF WalkInv, m
  <1> QED
    BY <1>3, <1>4, <1>5, <1>6
       DEF Next, Call, TakeOff, FreeElement, InsertElement, Get, Expand, Tick, Begin, PassOver, FindElement,
           ReadElement, FindEnd, BeginSubkeys, NextSubkey, FindSubkey, SubkeysEnd, SetOther, Done,
           vars

\* The store of the other node.
LEMMA OtherNext ==
    ASSUME Types, Next
    PROVE  OtherInv' /\ now <= now' /\ now \in Nat /\ now' \in Nat
  <1>0. now \in Nat /\ DOMAIN other \subseteq Keys /\ \A k \in DOMAIN other : other[k] \in Times
    BY DEF Types, OtherInv
  <1>1. CASE now' = now /\ other' = other
    BY <1>0, <1>1 DEF OtherInv
  <1>2. CASE Tick
    BY <1>0, <1>2 DEF Tick, OtherInv
  <1>3. ASSUME now' = now, NEW k \in Keys, NEW attrs \in Times, other' = OtherWith(k, attrs)
        PROVE  OtherInv' /\ now <= now' /\ now \in Nat /\ now' \in Nat
    BY <1>0, <1>3 DEF OtherWith, OtherInv
  <1>4. CASE \E d \in walk.data : SetElementByBinArray(d)
    <2>1. PICK d \in walk.data : SetElementByBinArray(d)
      BY <1>4
    <2>2. d.key \in Keys /\ d.attrs \in Times
      BY DEF Types, WalkInv, Walks, Copies
    <2> QED
      BY <1>1, <1>3, <2>1, <2>2 DEF SetElementByBinArray
  <1>5. CASE \E k \in Keys : SetOther(k)
    <2>1. PICK k \in Keys : SetOther(k)
      BY <1>5
    <2> DEFINE t == [mtime |-> IF use.mtime THEN now ELSE NoTime, expire |-> NoTime]
    <2>2. t \in Times
      BY <1>0 DEF Times, NoTime
    <2>3. other' = OtherWith(k, t) /\ now' = now
      BY <2>1 DEF SetOther
    <2> HIDE DEF t
    <2> QED
      BY <1>3, <2>2, <2>3
  <1> QED
    BY <1>1, <1>2, <1>4, <1>5
       DEF Next, Call, TakeOff, FreeElement, InsertElement, Get, Expand, Begin, PassOver, FindElement,
           ReadElement, FindEnd, BeginSubkeys, NextSubkey, FindSubkey, SubkeysEnd, GetElementsByHash,
           TestHash, GetEnd, Done, vars

LEMMA NextTypes ==
    ASSUME Types, [Next]_vars
    PROVE  Types'
  <1>1. CASE Next
    <2>1. IndexInv'
      BY <1>1, IndexSteps, IndexNext DEF Types
    <2>2. SlotsInv' /\ FreeInv' /\ TaskInv' /\ use' = use
      BY <1>1, StoreNext DEF StoreInv
    <2>3. FindInv'
      BY <1>1, <2>1, FindNext
    <2>4. WalkInv' /\ OtherInv'
      BY <1>1, WalkNext, OtherNext
    <2> QED
      BY <2>1, <2>2, <2>3, <2>4 DEF Types
  <1>2. CASE UNCHANGED vars
    BY <1>2 DEF vars, Types, IndexInv, SlotsInv, FreeInv, TaskInv, Freeing, FindInv, WalkInv, OtherInv
  <1> QED
    BY <1>1, <1>2

LEMMA TypesHold == Spec => []Types
  <1>1. Init => Types
    BY InitTypes
  <1>2. Types /\ [Next]_vars => Types'
    BY NextTypes
  <1> QED
    BY <1>1, <1>2, PTL DEF Spec

\* A slot is free, or has a key that no other linked slot has; the free list holds
\* every free slot once (ReserveElement, FreeElement, InsertElement of k2hshm.cc).
THEOREM TypeCorrect == Spec => []TypeOK
  BY TypesHold, TypesGiveTypeOK, PTL

-----------------------------------------------------------------------------
\* An iterator comes to every element once

CameOnce(s) ==
    got[s] = IF s <= find.at /\ ~(s = find.at /\ find.pc = "lock") THEN 1 ELSE 0

FoundInv ==
    use.walker = "find" /\ find.pc # "idle" =>
        \A s \in stay : s \in DOMAIN got /\ CameOnce(s)

\* Every step of another actor leaves an iterator where it is.
LEMMA FindSteps ==
    ASSUME Next
    PROVE  \/ finding' = finding
           \/ /\ use.walker = "find"
              /\ Begin \/ PassOver \/ FindElement \/ ReadElement \/ FindEnd
           \/ /\ use.walker = "subkeys"
              /\ BeginSubkeys \/ NextSubkey \/ FindSubkey \/ SubkeysEnd
  BY DEF Next, Call, TakeOff, FreeElement, InsertElement, Get, Expand, Tick, GetElementsByHash, TestHash,
         GetEnd, SetElementByBinArray, SetOther, Done, vars, finding, Begin, PassOver, FindElement,
         ReadElement, FindEnd, BeginSubkeys, NextSubkey, FindSubkey, SubkeysEnd, Looking

\* Every step of the iterator over elements takes it one slot further, or reads the
\* slot it is at.
LEMMA FoundNext ==
    ASSUME Types, FoundInv, Next
    PROVE  FoundInv'
  <1>0. /\ Len(slots) \in Nat /\ DOMAIN slots = 1 .. Len(slots)
        /\ use' = use /\ find.at \in Nat /\ find \in Finds
    BY StoreNext, MemberFacts DEF Types, SlotsInv, FindInv, Finds
  <1>1. \A s \in stay : s \in DOMAIN slots /\ s \in Nat /\ slots[s].key # NoKey
    BY <1>0 DEF Types, SlotsInv
  <1> SUFFICES ASSUME use.walker = "find", find'.pc # "idle", NEW s \in stay'
               PROVE  s \in DOMAIN got' /\ CameOnce(s)'
    BY <1>0 DEF FoundInv
  <1>2. CASE Begin
    <2>1. /\ find' = [find EXCEPT !.pc = "look"] /\ find.at = 0
          /\ stay' = {r \in DOMAIN slots : Linked(r)} /\ got' = [r \in DOMAIN slots |-> 0]
      BY <1>2 DEF Begin, Start, Types, FindInv
    <2>2. find'.at = 0 /\ find'.pc = "look" /\ s \in DOMAIN slots /\ got'[s] = 0
      BY <1>0, <2>1 DEF Finds
    <2>3. ~(s <= find'.at)
      BY <1>0, <2>2
    <2> QED
      BY <2>1, <2>2, <2>3 DEF CameOnce
  <1>3. CASE PassOver \/ FindElement
    <2>1. /\ NextSlot \in DOMAIN slots /\ NextSlot \in Nat /\ find.pc = "look"
          /\ got' = got /\ stay' = stay
      BY <1>0, <1>3 DEF PassOver, FindElement, Looking
    <2>2. NextSlot = find.at + 1
      BY DEF NextSlot
    <2>3. got[s] = IF s <= find.at THEN 1 ELSE 0
      BY <2>1 DEF FoundInv, CameOnce
    <2>4. s \in DOMAIN got'
      BY <2>1 DEF FoundInv
    <2>5. CASE PassOver
      <3>1. find' = [find EXCEPT !.at = NextSlot] /\ slots[NextSlot].key = NoKey
        BY <2>5 DEF PassOver
      <3>2. find'.at = find.at + 1 /\ find'.pc = "look" /\ s # find.at + 1
        BY <1>0, <1>1, <2>1, <2>2, <3>1 DEF Finds
      <3>3. s <= find'.at <=> s <= find.at
        BY <1>0, <1>1, <2>1, <3>2
      <3> QED
        BY <2>1, <2>3, <2>4, <3>2, <3>3 DEF CameOnce
    <2>6. CASE FindElement
      <3>1. /\ slots[NextSlot].key # NoKey
            /\ GetCKIndex(Hash[slots[NextSlot].key], NextSlot)
        BY <2>6 DEF FindElement
      <3>2. Hash[slots[NextSlot].key] \in Nat
        BY <2>1, <3>1, KeyHash
      <3>3. IndexInv'
        BY IndexSteps, IndexNext DEF Types
      <3>4. find'.at = NextSlot /\ find'.pc = "lock"
        <4> HIDE DEF NextSlot
        <4> QED
          BY <2>1, <3>1, <3>2, <3>3, LookResult
      <3>5. (s <= find'.at /\ ~(s = find'.at)) <=> s <= find.at
        BY <1>0, <1>1, <2>1, <2>2, <3>4
      <3> QED
        BY <2>1, <2>3, <2>4, <3>4, <3>5 DEF CameOnce
    <2> QED
      BY <1>3, <2>5, <2>6
  <1>4. CASE ReadElement
    <2>1. /\ find.pc = "lock" /\ got' = Came(find.at) /\ stay' = stay
          /\ find' = [find EXCEPT !.pc = "look", !.held = find.going]
      BY <1>4 DEF ReadElement
    <2>2. find'.at = find.at /\ find'.pc = "look"
      BY <1>0, <2>1 DEF Finds
    <2>3. /\ s \in DOMAIN got /\ s \in Nat
          /\ got[s] = IF s <= find.at /\ ~(s = find.at) THEN 1 ELSE 0
      BY <1>1, <2>1 DEF FoundInv, CameOnce
    <2>4. s \in DOMAIN got' /\ got'[s] = got[s] + (IF s = find.at THEN 1 ELSE 0)
      BY <2>1, <2>3 DEF Came
    <2>5. got'[s] = IF s <= find.at THEN 1 ELSE 0
      BY <1>0, <2>3, <2>4
    <2> QED
      BY <2>2, <2>4, <2>5 DEF CameOnce
  <1>5. CASE FindEnd
    <2>1. /\ find.pc = "look" /\ got' = got /\ stay' = stay
          /\ find' = [find EXCEPT !.pc = "end", !.held = {}]
      BY <1>5 DEF FindEnd, Looking
    <2>2. find'.at = find.at /\ find'.pc = "end"
      BY <1>0, <2>1 DEF Finds
    <2> QED
      BY <2>1, <2>2 DEF FoundInv, CameOnce
  <1>6. CASE finding' = finding
    <2>1. find' = find /\ got' = got
      BY <1>6 DEF finding
    <2>2. s \in stay
      <3>1. stay' \subseteq stay
        BY <2>1 DEF Next, Call, TakeOff, FreeElement, InsertElement, Get, Expand, Tick, Begin, PassOver,
           FindElement, ReadElement, FindEnd, BeginSubkeys, NextSubkey, FindSubkey, SubkeysEnd,
           GetElementsByHash, TestHash, GetEnd, SetElementByBinArray, SetOther, Done, vars, Looking,
           Finds, Types, FindInv
      <3> QED
        BY <3>1
    <2> QED
      BY <2>1, <2>2 DEF FoundInv, CameOnce
  <1> QED
    BY <1>2, <1>3, <1>4, <1>5, <1>6, FindSteps

LEMMA FoundHolds == Spec => []FoundInv
  <1>1. Init => FoundInv
    BY DEF Init, FoundInv
  <1>2. Types /\ FoundInv /\ [Next]_vars => FoundInv'
    <2>1. CASE UNCHANGED vars
      BY <2>1 DEF vars, FoundInv, CameOnce
    <2> QED
      BY <2>1, FoundNext
  <1> QED
    BY <1>1, <1>2, TypesHold, PTL DEF Spec

\* An iterator gives every element that is in the file from begin to end exactly
\* once, whatever is written, freed, used again and moved about meanwhile
\* (FindNextElement of k2hshm.cc, next of k2hmmapinfo.cc).
THEOREM ElementsAreFoundOnce == Spec => []FoundOnce
  <1>1. FoundInv => FoundOnce
    BY DEF FoundInv, FoundOnce, CameOnce
  <1> QED
    BY <1>1, FoundHolds, PTL

-----------------------------------------------------------------------------
\* The subkey an iterator stands on stays

SubkeyInv ==
    use.walker = "subkeys" =>
        /\ find.pc = "lock" => find.at = 0
        /\ find.pc = "look" /\ find.at # 0 =>
              /\ find.at \in DOMAIN slots
              /\ slots[find.at].linked
              /\ WhereOf(Hash[slots[find.at].key], assigned, bits) \in find.held

\* Nobody takes an element off whose CKINDEX an iterator has locked.
LEMMA HeldIsNotTakenOff ==
    ASSUME Types, NEW w \in Writers, TakeOff(w),
           WhereOf(Hash[task[w].key], assigned, bits) \in find.held
    PROVE  FALSE
  <1> DEFINE h == Hash[task[w].key]
  <1>1. h \in Nat /\ CanArrange(h) /\ Top(h) \notin find.held
    BY KeyHash DEF TakeOff, Lock
  <1>2. bits \in Widths /\ Lowest \subseteq assigned
    BY DEF Types, IndexInv
  <1> HIDE DEF h
  <1>3. /\ Masked(h, bits) \in assigned => WhereOf(h, assigned, bits) = Masked(h, bits)
        /\ WhereOf(h, assigned, bits) \in LevelsOf(h, bits)
    BY <1>1, <1>2, WhereTop
  <1>4. Path(h) = LevelsOf(h, bits) /\ Top(h) = Masked(h, bits)
    BY DEF Path, LevelsOf, Top, Masked
  <1>5. WhereOf(h, assigned, bits) \in find.held
    BY DEF h
  <1> QED
    BY <1>1, <1>3, <1>4, <1>5 DEF CanArrange

LEMMA SubkeyNext ==
    ASSUME Types, SubkeyInv, Next
    PROVE  SubkeyInv'
  <1>0. use' = use /\ find \in Finds /\ SlotsStep
    BY StoreNext DEF Types, FindInv
  <1> SUFFICES ASSUME use.walker = "subkeys"
               PROVE  /\ find'.pc = "lock" => find'.at = 0
                      /\ find'.pc = "look" /\ find'.at # 0 =>
                            /\ find'.at \in DOMAIN slots'
                            /\ slots'[find'.at].linked
                            /\ WhereOf(Hash[slots'[find'.at].key], assigned', bits') \in find'.held
    BY <1>0 DEF SubkeyInv
  <1>1. CASE finding' = finding
    <2>0. find' = find
      BY <1>1 DEF finding
    <2>1. CASE ~(find.pc = "look" /\ find.at # 0)
      BY <2>0, <2>1 DEF SubkeyInv
    <2>2. CASE find.pc = "look" /\ find.at # 0
      <3> DEFINE s == find.at
                 h == Hash[slots[s].key]
      <3>1. s \in DOMAIN slots /\ slots[s].linked /\ WhereOf(h, assigned, bits) \in find.held
        BY <2>2 DEF SubkeyInv
      <3>2. h \in Nat
        BY <3>1, KeyHash DEF Types, SlotsInv
      <3>3. slots'[s] = slots[s] /\ s \in DOMAIN slots'
        <4> HIDE DEF s
        <4>1. ASSUME NEW w \in Writers, TakeOff(w), slots[s].key = task[w].key
              PROVE  FALSE
          BY <3>1, <4>1, HeldIsNotTakenOff
        <4> QED
          BY <1>0, <3>1, <4>1 DEF SlotsStep
      <3>4. WhereOf(h, assigned', bits') = WhereOf(h, assigned, bits)
        <4> HIDE DEF h
        <4> QED
          BY <3>1, <3>2, IndexSteps, HeldStays DEF Types
      <3> QED
        BY <2>0, <2>2, <3>1, <3>3, <3>4
    <2> QED
      BY <2>1, <2>2
  <1>2. CASE BeginSubkeys
    <2>1. find.at = 0 /\ find.pc = "idle"
      BY <1>2 DEF BeginSubkeys, Types, FindInv
    <2>2. \/ find' = [find EXCEPT !.pc = "end"]
          \/ find' = [find EXCEPT !.pc = "look", !.first = TRUE, !.list = use.subkeys,
                                    !.held = {Top(Hash[use.parent])}]
      BY <1>2 DEF BeginSubkeys
    <2>3. find'.at = 0
      BY <1>0, <2>1, <2>2 DEF Finds
    <2> QED
      BY <2>3
  <1>3. CASE NextSubkey
    <2>1. find.list # <<>> /\ GetCKIndex(Hash[Head(find.list)], 0)
      BY <1>3 DEF NextSubkey, Looking
    <2>2. Head(find.list) \in Keys
      BY <1>0, <2>1, HeadTailFacts DEF Finds
    <2>3. Hash[Head(find.list)] \in Nat
      BY <2>2, KeyHash
    <2>4. IndexInv'
      BY IndexSteps, IndexNext DEF Types
    <2>5. find'.pc = "lock" /\ find'.at = 0
      BY <2>1, <2>3, <2>4, LookResult
    <2> QED
      BY <2>5
  <1>4. CASE FindSubkey
    <2> DEFINE l == Tail(find.list)
               k == Head(find.list)
               g == find.going
               next == [find EXCEPT !.pc = "look", !.first = FALSE, !.list = l, !.held = g]
    <2>1. find.at = 0
      BY <1>4 DEF FindSubkey, SubkeyInv
    <2>2. \/ \E s \in SlotsOf(k) : Where(Hash[k], assigned) \in g /\ find' = [next EXCEPT !.at = s]
          \/ find' = [next EXCEPT !.pc = "end", !.held = {}]
          \/ find' = next
      BY <1>4 DEF FindSubkey
    <2>3. assigned' = assigned /\ bits' = bits /\ slots' = slots
      BY <1>4 DEF FindSubkey, index, ours
    <2> HIDE DEF l, g
    <2>4. next.pc = "look" /\ next.at = 0 /\ next.held = g
      BY <1>0, <2>1 DEF Finds
    <2>5. next = [pc |-> "look", at |-> find.at, first |-> FALSE, list |-> l,
                  going |-> find.going, held |-> g]
      <3>1. find \in Finds
        BY <1>0
      <3>2. next = [find EXCEPT !.pc = "look", !.first = FALSE, !.list = l, !.held = g]
        OBVIOUS
      <3> HIDE DEF next
      <3> QED
        BY <3>1, <3>2 DEF Finds
    <2> HIDE DEF next, k
    <2>6. CASE \E s \in SlotsOf(k) : Where(Hash[k], assigned) \in g /\ find' = [next EXCEPT !.at = s]
      <3>1. PICK s \in SlotsOf(k) : Where(Hash[k], assigned) \in g /\ find' = [next EXCEPT !.at = s]
        BY <2>6
      <3>2. find'.pc = "look" /\ find'.at = s /\ find'.held = g
        BY <2>5, <3>1
      <3>3. s \in DOMAIN slots /\ slots[s].linked /\ slots[s].key = k
        BY DEF SlotsOf, Linked
      <3>4. Where(Hash[k], assigned) = WhereOf(Hash[k], assigned, bits)
        BY DEF Where, WhereOf, Masked
      <3> QED
        BY <2>3, <3>1, <3>2, <3>3, <3>4
    <2>7. CASE find' = [next EXCEPT !.pc = "end", !.held = {}]
      <3>1. find'.pc = "end"
        BY <2>5, <2>7
      <3> QED
        BY <3>1
    <2>8. CASE find' = next
      BY <2>4, <2>8
    <2> QED
      BY <2>2, <2>6, <2>7, <2>8
  <1>5. CASE SubkeysEnd
    <2>1. find' = [find EXCEPT !.pc = "end", !.held = {}]
      BY <1>5 DEF SubkeysEnd
    <2>2. find'.pc = "end"
      BY <1>0, <2>1 DEF Finds
    <2> QED
      BY <2>2
  <1> QED
    BY <1>1, <1>2, <1>3, <1>4, <1>5, FindSteps

\* The subkey an iterator stands on stays in the file, and in the CKINDEX whose lock
\* it holds, until it goes on: nobody takes it off and no arranging moves it
\* (begin and Next of k2hfind.cc, GetCKIndex and GetKIndex of k2hshm.cc).
THEOREM TheSubkeyIsHeld == Spec => []SubkeyHeld
  <1>1. Init => SubkeyInv
    BY DEF Init, SubkeyInv
  <1>2. Types /\ SubkeyInv /\ [Next]_vars => SubkeyInv'
    <2>1. CASE UNCHANGED vars
      BY <2>1 DEF vars, SubkeyInv
    <2> QED
      BY <2>1, SubkeyNext
  <1>3. SubkeyInv => SubkeyHeld
    BY DEF SubkeyInv, SubkeyHeld, Looking, Linked, Where, WhereOf, Masked
  <1> QED
    BY <1>1, <1>2, <1>3, TypesHold, PTL DEF Spec

-----------------------------------------------------------------------------
\* A merge leaves nothing out

LEMMA MinOfTwo ==
    ASSUME NEW a \in Nat, NEW b \in Nat
    PROVE  Min({a, b}) \in {a, b} /\ Min({a, b}) <= a /\ Min({a, b}) <= b
  <1> DEFINE T == {a, b}
  <1>1. \E x \in T : \A y \in T : x <= y
    OBVIOUS
  <1> HIDE DEF T
  <1>2. Min(T) \in T /\ \A y \in T : Min(T) <= y
    BY <1>1, Zenon DEF Min
  <1> QED
    BY <1>2 DEF T

\* No element here is newer than the time, and the merge is of a time that has come.
Written ==
    /\ use.startts <= now
    /\ \A s \in DOMAIN slots : slots[s].linked => slots[s].mtime <= now

\* Where a walk by hash is.
WalkAt ==
    /\ walk.pc = "idle" => walk.next = 0 /\ stay = {}
    /\ walk.pc = "test" => walk.max = Size(bits) - 1

\* What is older than the merge here, and its old nodes have, has been there since
\* before the walk.
OldInv ==
    \A s \in DOMAIN slots : slots[s].linked /\ Before(use, slots[s]) =>
        HasOf(use, other, slots[s]) /\ (walk.pc # "idle" => s \in stay)

\* The data under way are copies of what stays.
DataInv ==
    \A s \in stay, d \in walk.data :
        d.key = slots[s].key => d = GetElementToBinary(slots[s])

\* The walk has been where the slot is.
HashOf(s) == Masked(Hash[slots[s].key], bits)
Passed(s) ==
    \/ walk.pc = "test" /\ HashOf(s) < walk.test
    \/ walk.pc = "put" /\ (walk.next = 0 \/ HashOf(s) < walk.next)
    \/ walk.pc = "end"

\* The other node ought to get it, and has it or will have it with the next data.
Wanted(e) == InTarget(use, e) /\ ~IsExpire(Attrs(e)) /\ e.mtime <= use.endts
Arrived(s) ==
    \/ HasOf(use, other, slots[s])
    \/ walk.pc = "put" /\ GetElementToBinary(slots[s]) \in walk.data

PassInv == \A s \in stay : Passed(s) /\ Wanted(slots[s]) => Arrived(s)

MergeInv ==
    /\ walk.pc # "idle" => use.walker = "get"
    /\ use.walker = "get" => Written /\ WalkAt /\ OldInv /\ DataInv /\ PassInv

\* What is linked has been so before, or is of this time.
LEMMA LinkedAfter ==
    ASSUME Types, Next
    PROVE  /\ \A s \in DOMAIN slots' : slots'[s].linked =>
                 \/ s \in DOMAIN slots /\ slots[s].linked /\ slots'[s] = slots[s]
                 \/ slots'[s].mtime = now /\ now' = now
                 \/ slots'[s].mtime = NoTime
           /\ use.walker = "get" /\ ~GetElementsByHash =>
                 \A s \in stay : s \in stay' \/ ~slots'[s].linked
  <1>0. Len(slots) \in Nat /\ DOMAIN slots = 1 .. Len(slots)
        /\ (\A s \in DOMAIN slots : slots[s] \in Elements)
        /\ task \in [Writers -> Tasks]
    BY MemberFacts DEF Types, SlotsInv, TaskInv
  <1>s. stay \subseteq {s \in DOMAIN slots : slots[s].linked}
    BY DEF Types, SlotsInv
  <1>1. ASSUME NEW w \in Writers, TakeOff(w)
        PROVE  /\ \A s \in DOMAIN slots' : slots'[s].linked =>
                     s \in DOMAIN slots /\ slots[s].linked /\ slots'[s] = slots[s]
               /\ \A s \in stay : s \in stay' \/ ~slots'[s].linked
    <2>1. CASE slots' = slots /\ stay' = stay
      BY <2>1
    <2>2. ASSUME NEW s \in SlotsOf(task[w].key), slots' = [slots EXCEPT ![s].linked = FALSE],
                 stay' = stay \ {s}
          PROVE  /\ \A r \in DOMAIN slots' : slots'[r].linked =>
                      r \in DOMAIN slots /\ slots[r].linked /\ slots'[r] = slots[r]
                 /\ \A r \in stay : r \in stay' \/ ~slots'[r].linked
      <3>1. s \in DOMAIN slots /\ slots[s] \in Elements
        BY <1>0 DEF SlotsOf
      <3> DEFINE e == [slots[s] EXCEPT !.linked = FALSE]
      <3>2. ~e.linked /\ slots' = [slots EXCEPT ![s] = e]
        BY <2>2, <3>1 DEF Elements
      <3> HIDE DEF e
      <3>3. /\ DOMAIN slots' = DOMAIN slots /\ ~slots'[s].linked
            /\ \A r \in DOMAIN slots \ {s} : slots'[r] = slots[r]
        BY <1>0, <3>1, <3>2
      <3> QED
        BY <2>2, <3>3
    <2> QED
      BY <1>1, <2>1, <2>2 DEF TakeOff
  <1>2. ASSUME NEW w \in Writers, FreeElement(w)
        PROVE  /\ \A s \in DOMAIN slots' : slots'[s].linked =>
                     s \in DOMAIN slots /\ slots[s].linked /\ slots'[s] = slots[s]
               /\ stay' = stay
    <2>1. slots' = [slots EXCEPT ![task[w].slot] = Free] /\ stay' = stay /\ ~Free.linked
      BY <1>2 DEF FreeElement, Free
    <2> QED
      BY <1>0, <2>1
  <1>3. ASSUME NEW w \in Writers, InsertElement(w)
        PROVE  /\ \A s \in DOMAIN slots' : slots'[s].linked =>
                     \/ s \in DOMAIN slots /\ slots[s].linked /\ slots'[s] = slots[s]
                     \/ slots'[s].mtime = now /\ now' = now
                     \/ slots'[s].mtime = NoTime
               /\ stay' = stay
    <2> DEFINE k == task[w].key
               e == [key |-> k, mtime |-> IF use.mtime THEN now ELSE NoTime, expire |-> NoTime,
                     linked |-> TRUE]
    <2>1. now' = now /\ stay' = stay
      BY <1>3 DEF InsertElement
    <2>2. CASE slots' = slots
      BY <2>1, <2>2
    <2>3. CASE slots' = [s \in DOMAIN slots \cup {Reserved} |-> IF s = Reserved THEN e ELSE slots[s]]
      <3>1. e.mtime = now \/ e.mtime = NoTime
        OBVIOUS
      <3> HIDE DEF e
      <3> QED
        BY <2>1, <2>3, <3>1
    <2> QED
      BY <1>3, <2>2, <2>3 DEF InsertElement
  <1>4. CASE slots' = slots /\ (stay' = stay \/ use.walker # "get" \/ GetElementsByHash)
    BY <1>4
  <1>5. ASSUME NEW w \in Writers, TakeOff(w) \/ FreeElement(w) \/ InsertElement(w)
        PROVE  /\ \A s \in DOMAIN slots' : slots'[s].linked =>
                     \/ s \in DOMAIN slots /\ slots[s].linked /\ slots'[s] = slots[s]
                     \/ slots'[s].mtime = now /\ now' = now
                     \/ slots'[s].mtime = NoTime
               /\ \A s \in stay : s \in stay' \/ ~slots'[s].linked
    <2>1. CASE TakeOff(w)
      BY <1>1, <2>1, Zenon
    <2>2. CASE FreeElement(w)
      BY <1>2, <2>2, Zenon
    <2>3. CASE InsertElement(w)
      BY <1>3, <2>3, Zenon
    <2> QED
      BY <1>5, <2>1, <2>2, <2>3
  <1>6. CASE ~(\E w \in Writers : TakeOff(w) \/ FreeElement(w) \/ InsertElement(w))
    <2>2. GetElementsByHash => slots' = slots
      BY DEF GetElementsByHash, ours
    <2>1. slots' = slots /\ (stay' = stay \/ use.walker # "get" \/ GetElementsByHash)
      BY <1>6, <2>2 DEF Next, Call, Get, Expand, Tick, Begin, PassOver, FindElement, ReadElement,
           FindEnd, BeginSubkeys, NextSubkey, FindSubkey, SubkeysEnd, TestHash, GetEnd,
           SetElementByBinArray, SetOther, Done, vars, ours
    <2> QED
      BY <1>4, <2>1
  <1> QED
    BY <1>5, <1>6, Zenon

\* What stays, stays as it is.
LEMMA StayAfter ==
    ASSUME Types, Next, NEW s \in stay, s \in stay'
    PROVE  slots'[s] = slots[s] /\ s \in DOMAIN slots /\ slots[s].linked
  BY StoreNext DEF Types, SlotsInv, SlotsStep

LEMMA WrittenNext ==
    ASSUME Types, Written, Next
    PROVE  Written'
  <1>1. use' = use /\ now <= now' /\ now \in Nat /\ now' \in Nat /\ SlotsInv'
    BY StoreNext, OtherNext DEF StoreInv
  <1>2. use.startts <= now'
    BY <1>1, MergeAssumption DEF Written, Types
  <1>3. ASSUME NEW s \in DOMAIN slots', slots'[s].linked
        PROVE  slots'[s].mtime <= now'
    <2>1. \/ s \in DOMAIN slots /\ slots[s].linked /\ slots'[s] = slots[s]
          \/ slots'[s].mtime = now /\ now' = now
          \/ slots'[s].mtime = NoTime
      BY <1>3, LinkedAfter
    <2>2. slots'[s].mtime \in Nat
      <3>1. slots'[s] \in Elements
        BY <1>1, MemberFacts DEF SlotsInv
      <3> QED
        BY <3>1 DEF Elements
    <2> QED
      BY <1>1, <2>1, <2>2 DEF Written, NoTime
  <1> QED
    BY <1>1, <1>2, <1>3 DEF Written

\* What the other node gets does not take from it what it had.
LEMMA HasAfter ==
    ASSUME Types, Next, Written, DataInv,
           NEW s \in DOMAIN slots, slots[s].linked, HasOf(use, other, slots[s]),
           s \in stay \/ other' = other \/ \E k \in Keys : SetOther(k)
    PROVE  HasOf(use, other', slots[s])
  <1> DEFINE e == slots[s]
             m == Min({e.mtime, use.pts})
  <1>0. now \in Nat /\ \A k \in DOMAIN other : other[k] \in Times
    BY DEF Types, OtherInv
  <1>1. /\ e \in Elements /\ e.key \in Keys /\ e.mtime \in Nat /\ use.pts \in Nat
        /\ e.mtime <= now
    <2>1. e \in Elements /\ e.key # NoKey
      BY MemberFacts DEF Types, SlotsInv
    <2> QED
      BY <2>1, MergeAssumption DEF Types, Elements, Written
  <1>2. m \in Nat /\ m <= e.mtime
    BY <1>1, MinOfTwo
  <1>3. e.key \in DOMAIN other /\ (other[e.key].mtime >= m \/ other[e.key].mtime = NoTime)
    BY DEF HasOf
  <1>4. CASE other' = other
    BY <1>4
  <1>5. ASSUME NEW k \in Keys, SetOther(k)
        PROVE  HasOf(use, other', slots[s])
    <2> DEFINE t == [mtime |-> IF use.mtime THEN now ELSE NoTime, expire |-> NoTime]
    <2>1. other' = OtherWith(k, t) /\ (t.mtime = now \/ t.mtime = NoTime)
      BY <1>5 DEF SetOther
    <2> HIDE DEF t
    <2>2. CASE e.key = k
      <3>1. other'[e.key] = t /\ e.key \in DOMAIN other'
        BY <2>1, <2>2 DEF OtherWith
      <3>2. t.mtime >= m \/ t.mtime = NoTime
        <4> HIDE DEF e, m
        <4> QED
          BY <1>0, <1>1, <1>2, <2>1
      <3> QED
        BY <3>1, <3>2 DEF HasOf
    <2>3. CASE e.key # k
      <3>1. other'[e.key] = other[e.key] /\ e.key \in DOMAIN other'
        BY <1>3, <2>1, <2>3 DEF OtherWith
      <3> QED
        BY <1>3, <3>1 DEF HasOf
    <2> QED
      BY <2>2, <2>3
  <1>6. ASSUME NEW d \in walk.data, SetElementByBinArray(d), s \in stay
        PROVE  HasOf(use, other', slots[s])
    <2>1. CASE other' = other
      BY <2>1
    <2>2. CASE other' = OtherWith(d.key, d.attrs)
      <3>1. CASE e.key = d.key
        <4>1. d.attrs.mtime = e.mtime
          BY <1>6, <3>1 DEF DataInv, GetElementToBinary, Attrs
        <4>2. other'[e.key] = d.attrs /\ e.key \in DOMAIN other'
          BY <2>2, <3>1 DEF OtherWith
        <4>3. other'[e.key].mtime >= m
          <5> HIDE DEF e, m
          <5> QED
            BY <1>1, <1>2, <4>1, <4>2
        <4> QED
          BY <4>2, <4>3 DEF HasOf
      <3>2. CASE e.key # d.key
        <4>1. other'[e.key] = other[e.key] /\ e.key \in DOMAIN other'
          BY <1>3, <2>2, <3>2 DEF OtherWith
        <4> QED
          BY <1>3, <4>1 DEF HasOf
      <3> QED
        BY <3>1, <3>2
    <2> QED
      BY <1>6, <2>1, <2>2 DEF SetElementByBinArray
  <1>7. CASE other' # other /\ ~(\E k \in Keys : SetOther(k))
    <2>1. PICK d \in walk.data : SetElementByBinArray(d)
      BY <1>7 DEF Next, Call, TakeOff, FreeElement, InsertElement, Get, Expand, Tick, Begin, PassOver,
         FindElement, ReadElement, FindEnd, BeginSubkeys, NextSubkey, FindSubkey, SubkeysEnd,
         GetElementsByHash, TestHash, GetEnd, Done, vars
    <2> QED
      BY <1>6, <1>7, <2>1
  <1> QED
    BY <1>4, <1>5, <1>7

\* The data that come leave the other node with what they are.
LEMMA HasWhatComes ==
    ASSUME Types, NEW s \in DOMAIN slots, slots[s].linked,
           SetElementByBinArray(GetElementToBinary(slots[s]))
    PROVE  HasOf(use, other', slots[s])
  <1> DEFINE e == slots[s]
             d == GetElementToBinary(e)
             m == Min({e.mtime, use.pts})
  <1>1. e.mtime \in Nat /\ use.pts \in Nat /\ \A k \in DOMAIN other : other[k].mtime \in Nat
    <2>1. e \in Elements
      BY MemberFacts DEF Types, SlotsInv
    <2> QED
      BY <2>1, MergeAssumption DEF Types, OtherInv, Elements, Times
  <1>2. m \in {e.mtime, use.pts} /\ m <= e.mtime /\ m <= use.pts
    BY <1>1, MinOfTwo
  <1>3. d.key = e.key /\ d.attrs.mtime = e.mtime
    BY DEF GetElementToBinary, Attrs
  <1>4. CASE d.key \in DOMAIN other /\ Kept(other[d.key], d.attrs)
    <2>1. other' = other
      BY <1>4 DEF SetElementByBinArray
    <2> DEFINE o == other[e.key].mtime
    <2>2. /\ o # NoTime /\ o \in Nat
          /\ use.pts <= o \/ e.mtime = NoTime \/ e.mtime <= o
      BY <1>1, <1>3, <1>4 DEF Kept
    <2>3. o >= m
      <3> HIDE DEF o, e, m
      <3> QED
        BY <1>1, <1>2, <2>2 DEF NoTime
    <2> QED
      BY <1>3, <1>4, <2>1, <2>3 DEF HasOf
  <1>5. CASE ~(d.key \in DOMAIN other /\ Kept(other[d.key], d.attrs))
    <2>1. other' = OtherWith(d.key, d.attrs)
      BY <1>5 DEF SetElementByBinArray
    <2>2. other'[e.key] = d.attrs /\ e.key \in DOMAIN other'
      BY <1>3, <2>1 DEF OtherWith
    <2>3. other'[e.key].mtime >= m
      <3> HIDE DEF e, m
      <3> QED
        BY <1>1, <1>2, <1>3, <2>2
    <2> QED
      BY <2>2, <2>3 DEF HasOf
  <1> QED
    BY <1>4, <1>5

\* A step of another part leaves the walk where it is, and the mask while a call looks.
LEMMA WalkSteps ==
    ASSUME Types, Next, ~GrowsInCall
    PROVE  \/ /\ walk' = walk
              /\ other' = other \/ \E k \in Keys : SetOther(k)
              /\ ~GetElementsByHash
              /\ \/ bits' = bits
                 \/ bits' = bits + 1 /\ bits < MaxBits /\ walk.pc # "test"
           \/ GetElementsByHash /\ walk.pc \in {"idle", "put"}
           \/ (TestHash \/ GetEnd) /\ other' = other /\ ~GetElementsByHash
           \/ \E d \in walk.data : SetElementByBinArray(d) /\ ~GetElementsByHash
  <1>1. CASE GetElementsByHash
    BY <1>1 DEF GetElementsByHash
  <1>2. CASE TestHash \/ GetEnd
    <2>1. other' = other
      BY <1>2 DEF TestHash, GetEnd
    <2> QED
      BY <1>1, <1>2, <2>1
  <1>3. CASE \E d \in walk.data : SetElementByBinArray(d)
    BY <1>1, <1>3
  <1>4. CASE Expand
    <2>1. walk' = walk /\ other' = other /\ bits' = bits + 1 /\ bits < MaxBits /\ walk.pc # "test"
      BY <1>4 DEF Expand
    <2> QED
      BY <1>1, <2>1
  <1>5. CASE /\ walk' = walk /\ bits' = bits
             /\ other' = other \/ \E k \in Keys : SetOther(k)
    BY <1>1, <1>5
  <1>6. CASE \E k \in Keys : SetOther(k)
    <2>1. walk' = walk /\ bits' = bits
      BY <1>6 DEF SetOther, index
    <2> QED
      BY <1>5, <1>6, <2>1
  <1> QED
    BY <1>1, <1>2, <1>3, <1>4, <1>5, <1>6
       DEF Next, Call, TakeOff, FreeElement, InsertElement, Get, Tick, Begin, PassOver, FindElement,
           ReadElement, FindEnd, BeginSubkeys, NextSubkey, FindSubkey, SubkeysEnd, Done, vars,
           GetCKIndex, index

\* The steps of the walk leave the elements, the mask and the time.
LEMMA WalkLeaves ==
    ASSUME Types, TestHash \/ GetEnd \/ GetElementsByHash \/ \E d \in walk.data : SetElementByBinArray(d)
    PROVE  /\ slots' = slots /\ bits' = bits /\ now' = now /\ use' = use
           /\ GetElementsByHash \/ stay' = stay
  BY DEF TestHash, GetEnd, GetElementsByHash, SetElementByBinArray, ours, index

\* What the steps of the walk make of it.
LEMMA TestResult ==
    ASSUME Types, TestHash
    PROVE  /\ walk.pc = "test" /\ walk.test <= walk.max
           /\ walk'.max = walk.max
           /\ \/ /\ walk'.pc = "test" /\ walk'.test = walk.test + 1 /\ walk'.next = walk.next
                 /\ walk'.data = walk.data
                 /\ \A s \in DOMAIN slots :
                       /\ slots[s].linked /\ WhereOf(Hash[slots[s].key], assigned', bits)
                                             = Masked(walk.test, bits)
                       => ~Taken(s)
              \/ /\ walk'.pc = "put"
                 /\ walk'.next = IF walk.test + 1 <= walk.max THEN walk.test + 1 ELSE 0
                 /\ \A d \in walk'.data :
                       \E s \in DOMAIN slots : slots[s].linked /\ d = GetElementToBinary(slots[s])
                 /\ \A s \in DOMAIN slots :
                       /\ slots[s].linked /\ WhereOf(Hash[slots[s].key], assigned', bits)
                                             = Masked(walk.test, bits)
                       /\ Taken(s)
                       => GetElementToBinary(slots[s]) \in walk'.data
  <1> DEFINE here == {s \in DOMAIN slots :
                       Linked(s) /\ Where(Hash[slots[s].key], assigned') = Top(walk.test)}
             taken == {s \in here : Taken(s)}
             next == walk.test + 1
             data == {GetElementToBinary(slots[s]) : s \in taken}
             more == IF next <= walk.max THEN next ELSE 0
  <1>1. /\ walk.pc = "test" /\ walk.test <= walk.max
        /\ walk' = IF taken = {} THEN [walk EXCEPT !.test = next]
                   ELSE [walk EXCEPT !.pc = "put", !.data = data, !.next = more]
    BY DEF TestHash
  <1>2. walk \in Walks
    BY DEF Types, WalkInv
  <1>3. /\ \A s \in taken : s \in DOMAIN slots /\ slots[s].linked
        /\ \A s \in DOMAIN slots : /\ slots[s].linked
                                   /\ WhereOf(Hash[slots[s].key], assigned', bits)
                                      = Masked(walk.test, bits)
                                   /\ Taken(s)
                                   => s \in taken
    BY DEF Linked, Where, Top, WhereOf, Masked
  <1>4. /\ \A d \in data : \E s \in taken : d = GetElementToBinary(slots[s])
        /\ \A s \in taken : GetElementToBinary(slots[s]) \in data
    OBVIOUS
  <1> HIDE DEF taken, data, more
  <1>5. CASE taken = {}
    <2>1. walk' = [walk EXCEPT !.test = next]
      BY <1>1, <1>5
    <2> HIDE DEF next
    <2>2. /\ walk'.max = walk.max /\ walk'.pc = "test" /\ walk'.test = next
          /\ walk'.next = walk.next /\ walk'.data = walk.data
      BY <1>1, <1>2, <2>1 DEF Walks
    <2> QED
      BY <1>1, <1>3, <1>5, <2>2 DEF next
  <1>6. CASE taken # {}
    <2>1. walk' = [walk EXCEPT !.pc = "put", !.data = data, !.next = more]
      BY <1>1, <1>6
    <2>2. walk'.max = walk.max /\ walk'.pc = "put" /\ walk'.next = more /\ walk'.data = data
      BY <1>2, <2>1 DEF Walks
    <2>3. walk'.next = IF walk.test + 1 <= walk.max THEN walk.test + 1 ELSE 0
      BY <2>2 DEF more, next
    <2>4. \A d \in walk'.data :
             \E s \in DOMAIN slots : slots[s].linked /\ d = GetElementToBinary(slots[s])
      BY <1>3, <1>4, <2>2
    <2>5. \A s \in DOMAIN slots :
             /\ slots[s].linked /\ WhereOf(Hash[slots[s].key], assigned', bits)
                                   = Masked(walk.test, bits)
             /\ Taken(s)
             => GetElementToBinary(slots[s]) \in walk'.data
      BY <1>3, <1>4, <2>2
    <2> QED
      BY <1>1, <2>2, <2>3, <2>4, <2>5
  <1> QED
    BY <1>5, <1>6

LEMMA CallResult ==
    ASSUME Types, GetElementsByHash
    PROVE  /\ walk'.pc = "test" /\ walk'.test = walk.next /\ walk'.max = Size(bits) - 1
           /\ walk'.next = 0 /\ walk'.data = {}
           /\ use.walker = "get"
           /\ \/ walk.pc = "idle" /\ stay' = {s \in DOMAIN slots : slots[s].linked}
              \/ walk.pc = "put" /\ walk.data = {} /\ walk.next # 0 /\ stay' = stay
  BY DEF GetElementsByHash, Size, Linked

LEMMA EndResult ==
    ASSUME Types, GetEnd
    PROVE  /\ walk'.pc = "end" /\ walk'.max = walk.max /\ walk'.data = walk.data
           /\ walk'.next = walk.next
           /\ \/ walk.pc = "test" /\ walk.test > walk.max
              \/ walk.pc = "put" /\ walk.data = {} /\ walk.next = 0
  BY DEF GetEnd, Types, WalkInv, Walks

LEMMA PutResult ==
    ASSUME Types, NEW d \in walk.data, SetElementByBinArray(d)
    PROVE  /\ walk.pc = "put" /\ walk'.pc = "put" /\ walk'.next = walk.next
           /\ walk'.max = walk.max /\ walk'.data = walk.data \ {d}
  BY DEF SetElementByBinArray, Types, WalkInv, Walks

LEMMA WalkAtNext ==
    ASSUME Types, WalkAt, Next, ~GrowsInCall, use.walker = "get"
    PROVE  WalkAt'
  <1>1. CASE GetElementsByHash
    <2>1. bits' = bits
      BY <1>1, WalkLeaves
    <2>2. Size(bits') = Size(bits)
      BY <2>1
    <2> QED
      BY <1>1, <2>2, CallResult DEF WalkAt
  <1>2. CASE TestHash
    <2>1. bits' = bits
      BY <1>2, WalkLeaves
    <2>2. walk'.pc # "idle" /\ walk.pc = "test" /\ walk'.max = walk.max
      BY <1>2, TestResult
    <2>3. Size(bits') = Size(bits)
      BY <2>1
    <2> QED
      BY <2>2, <2>3 DEF WalkAt
  <1>3. CASE GetEnd
    BY <1>3, EndResult DEF WalkAt
  <1>4. CASE \E d \in walk.data : SetElementByBinArray(d)
    BY <1>4, PutResult DEF WalkAt
  <1>5. CASE /\ walk' = walk /\ ~GetElementsByHash
             /\ bits' = bits \/ walk.pc # "test"
    <2>1. walk.pc = "idle" => stay' = {}
      <3>1. stay' \subseteq stay
        BY <1>5 DEF Next, Call, TakeOff, FreeElement, InsertElement, Get, Expand, Tick, Begin, PassOver,
           FindElement, ReadElement, FindEnd, BeginSubkeys, NextSubkey, FindSubkey, SubkeysEnd,
           TestHash, GetEnd, SetElementByBinArray, SetOther, Done, vars, Looking
      <3> QED
        BY <3>1 DEF WalkAt
    <2>2. walk.pc = "test" => walk.max = Size(bits') - 1
      BY <1>5 DEF WalkAt
    <2> QED
      BY <1>5, <2>1, <2>2 DEF WalkAt
  <1> QED
    BY <1>1, <1>2, <1>3, <1>4, <1>5, WalkSteps

LEMMA OldNext ==
    ASSUME Types, Written, WalkAt, OldInv, DataInv, Next, ~GrowsInCall, use.walker = "get"
    PROVE  OldInv'
  <1>1. use' = use /\ now \in Nat /\ SlotsInv'
    BY StoreNext, OtherNext DEF StoreInv
  <1> SUFFICES ASSUME NEW s \in DOMAIN slots', slots'[s].linked, Before(use, slots'[s])
               PROVE  HasOf(use, other', slots'[s]) /\ (walk'.pc # "idle" => s \in stay')
    BY <1>1 DEF OldInv
  <1>2. s \in DOMAIN slots /\ slots[s].linked /\ slots'[s] = slots[s]
    <2>1. slots'[s].mtime # NoTime /\ slots'[s].mtime < use.startts /\ use.startts <= now
      BY DEF Before, Written
    <2>2. use.startts \in Nat /\ slots'[s].mtime \in Nat
      <3>1. slots'[s] \in Elements
        BY <1>1, MemberFacts DEF SlotsInv
      <3> QED
        BY <3>1, MergeAssumption DEF Elements, Types
    <2>3. slots'[s].mtime # now
      BY <1>1, <2>1, <2>2
    <2> QED
      BY <2>1, <2>3, LinkedAfter
  <1>3. HasOf(use, other, slots[s]) /\ (walk.pc # "idle" => s \in stay)
    BY <1>2 DEF OldInv
  <1>4. s \in stay \/ other' = other \/ \E k \in Keys : SetOther(k)
    <2>1. CASE walk.pc # "idle"
      BY <1>3, <2>1
    <2>2. CASE \E d \in walk.data : SetElementByBinArray(d)
      BY <1>3, <2>2, PutResult
    <2>3. CASE GetElementsByHash
      BY <2>3 DEF GetElementsByHash
    <2> QED
      BY <2>1, <2>2, <2>3, WalkSteps
  <1>5. HasOf(use, other', slots'[s])
    BY <1>2, <1>3, <1>4, HasAfter
  <1>6. ASSUME walk'.pc # "idle" PROVE s \in stay'
    <2>1. CASE GetElementsByHash
      <3>1. \/ walk.pc = "idle" /\ stay' = {r \in DOMAIN slots : slots[r].linked}
            \/ walk.pc = "put" /\ stay' = stay
        BY <2>1, CallResult
      <3> QED
        BY <1>2, <1>3, <3>1
    <2>2. CASE ~GetElementsByHash
      <3>1. walk.pc # "idle"
        <4>1. TestHash \/ GetEnd => walk.pc # "idle"
          BY TestResult, EndResult
        <4>2. (\E d \in walk.data : SetElementByBinArray(d)) => walk.pc # "idle"
          BY PutResult
        <4> QED
          BY <1>6, <2>2, <4>1, <4>2, WalkSteps
      <3> QED
        BY <1>2, <1>3, <2>2, <3>1, LinkedAfter
    <2> QED
      BY <2>1, <2>2
  <1> QED
    BY <1>5, <1>6

LEMMA DataNext ==
    ASSUME Types, DataInv, Next, ~GrowsInCall, use.walker = "get"
    PROVE  DataInv'
  <1> SUFFICES ASSUME NEW s \in stay', NEW d \in walk'.data, d.key = slots'[s].key
               PROVE  d = GetElementToBinary(slots'[s])
    BY DEF DataInv, GetElementToBinary, Attrs
  <1>1. ASSUME ~GetElementsByHash
        PROVE  s \in stay /\ slots'[s] = slots[s] /\ s \in DOMAIN slots /\ slots[s].linked
    <2>1. stay' \subseteq stay
      BY <1>1 DEF Next, Call, TakeOff, FreeElement, InsertElement, Get, Expand, Tick, Begin, PassOver,
           FindElement, ReadElement, FindEnd, BeginSubkeys, NextSubkey, FindSubkey, SubkeysEnd,
           TestHash, GetEnd, SetElementByBinArray, SetOther, Done, vars, Looking
    <2> QED
      BY <2>1, StayAfter
  <1>2. CASE ~GetElementsByHash /\ walk'.data \subseteq walk.data
    <2>1. d = GetElementToBinary(slots[s])
      BY <1>1, <1>2 DEF DataInv
    <2> QED
      BY <1>1, <1>2, <2>1
  <1>3. CASE GetElementsByHash
    BY <1>3, CallResult
  <1>4. CASE TestHash /\ ~GetElementsByHash
    <2>1. slots' = slots
      BY <1>4, WalkLeaves
    <2>2. CASE walk'.data = walk.data
      BY <1>2, <1>4, <2>2
    <2>3. CASE \E t \in DOMAIN slots : slots[t].linked /\ d = GetElementToBinary(slots[t])
      <3>1. PICK t \in DOMAIN slots : slots[t].linked /\ d = GetElementToBinary(slots[t])
        BY <2>3
      <3>2. slots[t].key = slots[s].key
        BY <1>1, <1>4, <3>1 DEF GetElementToBinary
      <3>3. t = s
        BY <1>1, <1>4, <3>1, <3>2 DEF Types, SlotsInv
      <3> QED
        BY <2>1, <3>1, <3>3
    <2> QED
      BY <1>4, <2>2, <2>3, TestResult
  <1>5. CASE GetEnd /\ ~GetElementsByHash
    BY <1>2, <1>5, EndResult
  <1>6. CASE \E e \in walk.data : SetElementByBinArray(e) /\ ~GetElementsByHash
    <2>1. walk'.data \subseteq walk.data
      BY <1>6, PutResult
    <2> QED
      BY <1>2, <1>6, <2>1
  <1> QED
    BY <1>2, <1>3, <1>4, <1>5, <1>6, WalkSteps

\* A slot is behind the walk in one width of the mask if it is in the next.
LEMMA BehindInBoth ==
    ASSUME Types, NEW h \in Nat, bits' = bits \/ (bits' = bits + 1 /\ bits < MaxBits),
           NEW t \in Nat, t <= Size(bits), Masked(h, bits') < t
    PROVE  Masked(h, bits) < t
  <1>1. bits \in Widths
    BY DEF Types, IndexInv
  <1>2. CASE bits' = bits
    BY <1>2
  <1>3. CASE bits' = bits + 1 /\ bits < MaxBits
    <2>1. bits + 1 \in Widths /\ bits <= bits + 1
      BY <1>1, <1>3, BitsAssumption DEF Widths
    <2>2. Masked(h, bits + 1) \in Nat /\ Size(bits) \in Nat
      BY <1>1, <2>1, MaskType
    <2>3. Masked(h, bits + 1) < Size(bits) => Masked(h, bits + 1) = Masked(h, bits)
      BY <1>1, <2>1, MaskTwice
    <2> DEFINE x == Masked(h, bits + 1)
               y == Size(bits)
    <2>4. x < t
      BY <1>3
    <2>5. x \in Nat /\ y \in Nat /\ t <= y
      BY <2>2
    <2> HIDE DEF x, y
    <2>6. x < y
      BY <2>4, <2>5
    <2>7. x = Masked(h, bits)
      BY <2>3, <2>6 DEF x, y
    <2> QED
      BY <2>4, <2>7
  <1> QED
    BY <1>2, <1>3

LEMMA PassNext ==
    ASSUME Types, Written, WalkAt, OldInv, DataInv, PassInv, Next, ~GrowsInCall,
           use.walker = "get"
    PROVE  PassInv'
  <1>1. use' = use /\ now <= now' /\ now \in Nat /\ now' \in Nat
    BY StoreNext, OtherNext
  <1> SUFFICES ASSUME NEW s \in stay', Passed(s)', Wanted(slots[s])'
               PROVE  Arrived(s)'
    BY DEF PassInv
  <1> DEFINE h == Hash[slots[s].key]
             x == Masked(h, bits)
             n == Size(bits)
  <1>2. /\ walk.test \in Nat /\ walk.max \in Nat /\ walk.next \in Nat
        /\ walk.test <= walk.max + 1 /\ walk.max <= n - 1 /\ walk.next <= walk.max
    BY DEF Types, WalkInv, Walks
  <1>3. CASE GetElementsByHash
    <2>1. slots' = slots /\ bits' = bits /\ now' = now
      BY <1>3, WalkLeaves
    <2>2. /\ walk'.pc = "test" /\ walk'.test = walk.next
          /\ \/ walk.pc = "idle"
             \/ walk.pc = "put" /\ walk.data = {} /\ walk.next # 0 /\ stay' = stay
      BY <1>3, CallResult
    <2>3. s \in DOMAIN slots /\ slots[s].linked
      <3>1. SlotsInv'
        BY StoreNext DEF StoreInv
      <3> QED
        BY <2>1, <3>1 DEF SlotsInv
    <2>4. x < walk.next
      BY <2>1, <2>2 DEF Passed, HashOf
    <2>5. x \in Nat
      BY <2>3, KeyHash, MaskType DEF Types, SlotsInv, IndexInv
    <2>6. walk.pc # "idle"
      <3> HIDE DEF x
      <3>1. walk.next # 0
        BY <1>2, <2>4, <2>5
      <3> QED
        BY <3>1 DEF WalkAt
    <2>7. s \in stay /\ Passed(s)
      BY <2>2, <2>4, <2>6 DEF Passed, HashOf
    <2>8. Wanted(slots[s])
      BY <1>1, <2>1 DEF Wanted, IsExpire
    <2>9. HasOf(use, other, slots[s])
      BY <2>2, <2>6, <2>7, <2>8 DEF PassInv, Arrived
    <2>10. other' = other
      BY <1>3 DEF GetElementsByHash
    <2> QED
      BY <1>1, <2>1, <2>9, <2>10 DEF Arrived
  <1>4. ASSUME ~GetElementsByHash
        PROVE  /\ s \in stay /\ slots'[s] = slots[s] /\ s \in DOMAIN slots /\ slots[s].linked
               /\ h \in Nat /\ x \in 0 .. n - 1 /\ x \in Nat /\ n \in Nat \ {0}
               /\ Wanted(slots[s])
    <2>1. stay' \subseteq stay
      BY <1>4 DEF Next, Call, TakeOff, FreeElement, InsertElement, Get, Expand, Tick, Begin, PassOver,
           FindElement, ReadElement, FindEnd, BeginSubkeys, NextSubkey, FindSubkey, SubkeysEnd,
           TestHash, GetEnd, SetElementByBinArray, SetOther, Done, vars, Looking
    <2>2. s \in stay /\ slots'[s] = slots[s] /\ s \in DOMAIN slots /\ slots[s].linked
      BY <2>1, StayAfter
    <2>3. h \in Nat
      BY <2>2, KeyHash DEF Types, SlotsInv
    <2>4. x \in 0 .. n - 1 /\ x \in Nat /\ n \in Nat \ {0}
      <3> HIDE DEF h
      <3> QED
        BY <2>3, MaskType DEF Types, IndexInv
    <2>5. slots[s].expire \in Nat
      <3>1. slots[s] \in Elements
        BY <2>2, MemberFacts DEF Types, SlotsInv
      <3> QED
        BY <3>1 DEF Elements
    <2>6. Wanted(slots[s])
      <3>1. /\ InTarget(use, slots[s]) /\ slots[s].mtime <= use.endts
            /\ ~(slots[s].expire # NoTime /\ slots[s].expire < now')
        BY <1>1, <2>2 DEF Wanted, IsExpire, Attrs
      <3>2. ~(slots[s].expire # NoTime /\ slots[s].expire < now)
        BY <1>1, <2>5, <3>1
      <3> QED
        BY <3>1, <3>2 DEF Wanted, IsExpire, Attrs
    <2> QED
      BY <2>2, <2>3, <2>4, <2>6
  <1>5. CASE /\ walk' = walk /\ ~GetElementsByHash
             /\ other' = other \/ \E k \in Keys : SetOther(k)
             /\ bits' = bits \/ (bits' = bits + 1 /\ bits < MaxBits /\ walk.pc # "test")
    <2>1. Passed(s)
      <3>1. CASE walk.pc = "end" \/ (walk.pc = "put" /\ walk.next = 0)
        BY <3>1 DEF Passed
      <3>2. CASE walk.pc = "test"
        <4>1. bits' = bits /\ slots'[s] = slots[s]
          BY <1>4, <1>5, <3>2
        <4> QED
          BY <1>5, <3>2, <4>1 DEF Passed, HashOf
      <3>3. CASE walk.pc = "put" /\ walk.next # 0
        <4>1. Masked(h, bits') < walk.next
          BY <1>4, <1>5, <3>3 DEF Passed, HashOf
        <4>2. walk.next <= n
          <5> HIDE DEF n
          <5> QED
            BY <1>2, <1>4, <1>5
        <4>3. h \in Nat
          BY <1>4, <1>5
        <4> HIDE DEF h
        <4>4. Masked(h, bits) < walk.next
          BY <1>2, <1>5, <4>1, <4>2, <4>3, BehindInBoth
        <4> QED
          BY <3>3, <4>4 DEF Passed, HashOf, h
      <3>4. CASE walk.pc = "idle"
        BY <1>5, <3>4 DEF Passed
      <3>5. walk.pc \in {"idle", "test", "put", "end"}
        BY DEF Types, WalkInv, Walks
      <3> QED
        BY <3>1, <3>2, <3>3, <3>4, <3>5
    <2>2. Arrived(s)
      BY <1>4, <1>5, <2>1 DEF PassInv
    <2>3. HasOf(use, other, slots[s]) => HasOf(use, other', slots[s])
      BY <1>4, <1>5, HasAfter
    <2>4. GetElementToBinary(slots[s])' = GetElementToBinary(slots[s])
      BY <1>4, <1>5 DEF GetElementToBinary, Attrs
    <2>5. HasOf(use, other, slots[s])' <=> HasOf(use, other', slots[s])
      BY <1>1, <1>4, <1>5
    <2> QED
      BY <1>5, <2>2, <2>3, <2>4, <2>5 DEF Arrived
  <1>6. CASE TestHash /\ other' = other /\ ~GetElementsByHash
    <2> DEFINE t == walk.test
    <2>1. /\ slots' = slots /\ bits' = bits /\ now' = now
          /\ walk.pc = "test" /\ t <= walk.max /\ walk'.max = walk.max
      BY <1>6, WalkLeaves, TestResult
    <2>2. walk.max = n - 1
      BY <2>1 DEF WalkAt
    <2>3. t \in 0 .. n - 1 /\ t \in Nat
      <3> HIDE DEF n
      <3> QED
        BY <1>2, <1>4, <1>6, <2>1, <2>2
    <2>4. IndexInv /\ bits \in Widths
      BY DEF Types, IndexInv
    <2>5. Masked(t, bits) = t
      <3>1. Size(bits) = 2^bits /\ Size(bits) \in Nat \ {0}
        BY <2>4, PowerType DEF Size
      <3>2. t < Size(bits)
        <4> HIDE DEF t
        <4> QED
          BY <2>3, <3>1
      <3> DEFINE p == 2^bits
      <3>3. p \in Nat \ {0} /\ t < p /\ t \in Nat
        BY <2>3, <3>1, <3>2
      <3> HIDE DEF p, t
      <3>4. t % p = t
        BY <3>3, Remainder
      <3> QED
        BY <3>4 DEF Masked, p
    <2>6. ASSUME x = t
          PROVE  WhereOf(h, assigned', bits) = Masked(t, bits)
      <3>1. assigned' = Arranged(t)
        BY <1>6 DEF TestHash
      <3>2. Masked(t, bits) \in Arranged(t) /\ assigned \subseteq Arranged(t)
        <4> HIDE DEF t
        <4> QED
          BY <2>3, <2>4, ArrangedFacts
      <3>3. Lowest \subseteq Arranged(t)
        BY <3>2 DEF Types, IndexInv
      <3>4. h \in Nat
        BY <1>4, <1>6
      <3> DEFINE as == Arranged(t)
      <3>5. Masked(h, bits) \in as /\ Lowest \subseteq as
        BY <2>5, <2>6, <3>2, <3>3
      <3> HIDE DEF as, h
      <3>6. WhereOf(h, as, bits) = Masked(h, bits)
        BY <2>4, <3>4, <3>5, WhereTop
      <3> QED
        BY <2>5, <2>6, <3>1, <3>6 DEF as
    <2>7. /\ s \in stay /\ s \in DOMAIN slots /\ slots[s].linked /\ x \in Nat /\ Wanted(slots[s])
          /\ x \in 0 .. n - 1
      BY <1>4, <1>6
    <2>8. ASSUME x < t
          PROVE  HasOf(use, other, slots[s])
      <3>1. Passed(s)
        BY <2>1, <2>8 DEF Passed, HashOf
      <3>2. Arrived(s)
        BY <2>7, <3>1 DEF PassInv
      <3> QED
        BY <2>1, <3>2 DEF Arrived
    <2>9. ASSUME ~Taken(s)
          PROVE  HasOf(use, other, slots[s])
      <3>1. ~InTime(slots[s]) /\ slots[s].mtime <= use.endts /\ InTarget(use, slots[s])
        BY <2>7, <2>9 DEF Taken, Wanted
      <3>2. slots[s].mtime # NoTime /\ InOld(use, slots[s]) /\ ~(use.startts <= slots[s].mtime)
        BY <3>1 DEF InTime
      <3>3. slots[s].mtime \in Nat /\ use.startts \in Nat
        <4>1. slots[s] \in Elements
          BY <2>7, MemberFacts DEF Types, SlotsInv
        <4> QED
          BY <4>1, MergeAssumption DEF Elements, Types
      <3>4. Before(use, slots[s])
        BY <3>1, <3>2, <3>3 DEF Before
      <3> QED
        BY <2>7, <3>4 DEF OldInv
    <2>10. ASSUME HasOf(use, other, slots[s])
           PROVE  Arrived(s)'
      BY <1>1, <1>6, <2>1, <2>10 DEF Arrived
    <2>11. CASE x < t \/ ~Taken(s)
      BY <2>8, <2>9, <2>10, <2>11
    <2>12. CASE x = t /\ Taken(s)
      <3>1. WhereOf(h, assigned', bits) = Masked(t, bits)
        BY <2>6, <2>12
      <3>2. walk'.pc = "put" /\ GetElementToBinary(slots[s]) \in walk'.data
        BY <1>6, <2>7, <2>12, <3>1, TestResult
      <3>3. GetElementToBinary(slots[s])' = GetElementToBinary(slots[s])
        BY <2>1 DEF GetElementToBinary, Attrs
      <3> QED
        BY <3>2, <3>3 DEF Arrived
    <2>13. x <= t
      <3>1. \/ walk'.pc = "test" /\ walk'.test = t + 1
            \/ walk'.pc = "put" /\ walk'.next = IF t + 1 <= walk.max THEN t + 1 ELSE 0
        BY <1>6, TestResult
      <3>2. \/ walk'.pc = "test" /\ x < walk'.test
            \/ walk'.pc = "put" /\ (walk'.next = 0 \/ x < walk'.next)
        BY <2>1, <3>1 DEF Passed, HashOf
      <3> HIDE DEF x, t, n
      <3>3. CASE walk'.pc = "test"
        BY <2>3, <2>7, <3>1, <3>2, <3>3
      <3>4. CASE walk'.pc = "put" /\ t + 1 <= walk.max
        BY <2>3, <2>7, <3>1, <3>2, <3>4
      <3>5. CASE walk'.pc = "put" /\ ~(t + 1 <= walk.max)
        BY <1>2, <2>2, <2>3, <2>7, <3>5
      <3> QED
        BY <3>1, <3>3, <3>4, <3>5
    <2> HIDE DEF x, t
    <2>14. x < t \/ x = t
      BY <2>3, <2>7, <2>13
    <2> QED
      BY <2>11, <2>12, <2>14
  <1>7. CASE GetEnd /\ other' = other /\ ~GetElementsByHash
    <2>1. slots' = slots /\ bits' = bits /\ now' = now
      BY <1>7, WalkLeaves
    <2>2. \/ walk.pc = "test" /\ walk.test > walk.max
          \/ walk.pc = "put" /\ walk.data = {} /\ walk.next = 0
      BY <1>7, EndResult
    <2>3. Passed(s)
      <3>1. CASE walk.pc = "test" /\ walk.test > walk.max
        <4>1. walk.max = n - 1
          BY <3>1 DEF WalkAt
        <4>2. x < walk.test
          <5>1. x \in 0 .. n - 1 /\ n \in Nat \ {0}
            BY <1>4, <1>7
          <5> HIDE DEF x, n
          <5> QED
            BY <1>2, <3>1, <4>1, <5>1
        <4> QED
          BY <3>1, <4>2 DEF Passed, HashOf
      <3>2. CASE walk.pc = "put" /\ walk.next = 0
        BY <3>2 DEF Passed
      <3> QED
        BY <2>2, <3>1, <3>2
    <2>4. Arrived(s)
      BY <1>4, <1>7, <2>3 DEF PassInv
    <2>5. HasOf(use, other, slots[s])
      BY <2>2, <2>4 DEF Arrived
    <2> QED
      BY <1>1, <1>7, <2>1, <2>5 DEF Arrived
  <1>8. ASSUME NEW d \in walk.data, SetElementByBinArray(d), ~GetElementsByHash
        PROVE  Arrived(s)'
    <2>1. slots' = slots /\ bits' = bits /\ now' = now
      BY <1>8, WalkLeaves
    <2>2. /\ walk.pc = "put" /\ walk'.pc = "put" /\ walk'.next = walk.next
          /\ walk'.data = walk.data \ {d}
      BY <1>8, PutResult
    <2>3. Passed(s)
      BY <2>1, <2>2 DEF Passed, HashOf
    <2>4. Arrived(s) /\ s \in DOMAIN slots /\ slots[s].linked /\ s \in stay
      BY <1>4, <1>8, <2>3 DEF PassInv
    <2>5. CASE HasOf(use, other, slots[s])
      <3>1. HasOf(use, other', slots[s])
        BY <2>4, <2>5, HasAfter
      <3> QED
        BY <1>1, <2>1, <3>1 DEF Arrived
    <2>6. CASE GetElementToBinary(slots[s]) = d
      <3>1. HasOf(use, other', slots[s])
        BY <1>8, <2>4, <2>6, HasWhatComes
      <3> QED
        BY <1>1, <2>1, <3>1 DEF Arrived
    <2>7. CASE GetElementToBinary(slots[s]) \in walk.data \ {d}
      <3>1. GetElementToBinary(slots[s])' = GetElementToBinary(slots[s])
        BY <2>1 DEF GetElementToBinary, Attrs
      <3> QED
        BY <2>2, <2>7, <3>1 DEF Arrived
    <2> QED
      BY <2>4, <2>5, <2>6, <2>7 DEF Arrived
  <1> QED
    BY <1>3, <1>5, <1>6, <1>7, <1>8, WalkSteps

LEMMA MergeNext ==
    ASSUME Types, MergeInv, Next, ~GrowsInCall
    PROVE  MergeInv'
  <1>1. use' = use
    BY StoreNext
  <1>2. ASSUME walk'.pc # "idle" PROVE use.walker = "get"
    <2>1. CASE GetElementsByHash
      BY <2>1, CallResult
    <2>2. CASE ~GetElementsByHash
      <3>1. walk.pc # "idle"
        <4>1. TestHash \/ GetEnd => walk.pc # "idle"
          BY TestResult, EndResult
        <4>2. (\E d \in walk.data : SetElementByBinArray(d)) => walk.pc # "idle"
          BY PutResult
        <4> QED
          BY <1>2, <2>2, <4>1, <4>2, WalkSteps
      <3> QED
        BY <3>1 DEF MergeInv
    <2> QED
      BY <2>1, <2>2
  <1>3. ASSUME use.walker = "get"
        PROVE  Written' /\ WalkAt' /\ OldInv' /\ DataInv' /\ PassInv'
    <2>1. Written /\ WalkAt /\ OldInv /\ DataInv /\ PassInv
      BY <1>3 DEF MergeInv
    <2> QED
      BY <1>3, <2>1, WrittenNext, WalkAtNext, OldNext, DataNext, PassNext
  <1> QED
    BY <1>1, <1>2, <1>3 DEF MergeInv

LEMMA MergeInit == Init => MergeInv
  <1> SUFFICES ASSUME Init PROVE MergeInv
    OBVIOUS
  <1>0. /\ use \in Uses /\ slots = use.slots /\ now = use.now /\ other = use.other /\ stay = {}
        /\ walk = [pc |-> "idle", test |-> 0, max |-> 0, next |-> 0, data |-> {}]
    BY DEF Init
  <1>1. Written
    BY <1>0, UsesAssumption, MergeAssumption DEF Written
  <1>2. OldInv
    BY <1>0, MergeAssumption DEF OldInv
  <1> QED
    BY <1>0, <1>1, <1>2 DEF MergeInv, WalkAt, DataInv, PassInv

\* When the walk by hash is over, the other node has every element of its range that
\* was in the file all along, has not expired and was not written after the end of
\* the merge, if the key area grows between the calls of GetElementsByHash only
\* (GetElementsByHash and SetElementByBinArray of k2hshmdirect.cc).
THEOREM MergeLeavesNothingOut ==
    ASSUME ~GrowsInCall
    PROVE  Spec => []MergeComplete
  <1>1. Types /\ MergeInv /\ [Next]_vars => MergeInv'
    <2>1. CASE UNCHANGED vars
      BY <2>1 DEF vars, MergeInv, Written, WalkAt, OldInv, DataInv, PassInv, Passed, HashOf, Wanted,
                  Arrived, IsExpire, GetElementToBinary, Attrs
    <2> QED
      BY <2>1, MergeNext
  <1>2. Types /\ MergeInv => MergeComplete
    <2> SUFFICES ASSUME Types, MergeInv, walk.pc = "end", NEW s \in stay, Wanted(slots[s])
                 PROVE  HasOf(use, other, slots[s])
      BY DEF MergeComplete, Wanted
    <2>1. Passed(s) /\ PassInv
      BY DEF Passed, MergeInv
    <2> QED
      BY <2>1 DEF PassInv, Arrived
  <1> QED
    BY <1>1, <1>2, MergeInit, TypesHold, PTL DEF Spec
=============================================================================
