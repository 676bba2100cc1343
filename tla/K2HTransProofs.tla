--------------------------- MODULE K2HTransProofs ---------------------------
(***************************************************************************)
(* Theorems about K2HTrans, for any number of clients, workers, changes,    *)
(* restarts and failures.                                                   *)
(***************************************************************************)
EXTENDS K2HTrans, SequenceTheorems, FiniteSetTheorems, TLAPS

-----------------------------------------------------------------------------
\* Facts about transactions and sequences of them

\* A transaction is a client and a number; Nothing is not one.
LEMMA TransactionParts ==
    /\ Nothing \notin Transactions
    /\ \A x \in Transactions : x[1] \in Clients /\ x[2] \in 1 .. MaxSets /\ x = <<x[1], x[2]>>
    /\ \A c \in Clients, n \in 1 .. MaxSets : <<c, n>> \in Transactions
  BY TransAssumption DEF Transactions

\* A concatenation has the elements of both parts; it has none twice if neither
\* part does and they share none; it is in order if both are and the first is
\* before the second.
LEMMA ConcatElements ==
    ASSUME NEW T, NEW s \in Seq(T), NEW u \in Seq(T)
    PROVE  /\ s \o u \in Seq(T)
           /\ ToSet(s \o u) = ToSet(s) \cup ToSet(u)
           /\ IsInjective(s \o u) <=>
                IsInjective(s) /\ IsInjective(u) /\ ToSet(s) \cap ToSet(u) = {}
           /\ InOrder(s \o u) <=>
                InOrder(s) /\ InOrder(u) /\ Before(ToSet(s), ToSet(u))
  <1> DEFINE a == s \o u
  <1>1. /\ a \in Seq(T)
        /\ Len(s) \in Nat /\ Len(u) \in Nat
        /\ DOMAIN s = 1 .. Len(s) /\ DOMAIN u = 1 .. Len(u)
        /\ DOMAIN a = 1 .. Len(s) + Len(u)
        /\ \A i \in 1 .. Len(s) : i \in DOMAIN a /\ a[i] = s[i]
        /\ \A i \in 1 .. Len(u) : i + Len(s) \in DOMAIN a /\ a[i + Len(s)] = u[i]
        /\ \A i \in DOMAIN a : \/ i \in 1 .. Len(s) /\ a[i] = s[i]
                               \/ i - Len(s) \in 1 .. Len(u) /\ a[i] = u[i - Len(s)]
    BY ConcatProperties, LenProperties
  <1> HIDE DEF a
  <1>2. ToSet(a) = ToSet(s) \cup ToSet(u)
    <2>1. ASSUME NEW x \in ToSet(a) PROVE x \in ToSet(s) \cup ToSet(u)
      <3>1. PICK i \in DOMAIN a : x = a[i]
        BY DEF ToSet
      <3>2. CASE i \in 1 .. Len(s) /\ a[i] = s[i]
        BY <1>1, <3>1, <3>2 DEF ToSet
      <3>3. CASE i - Len(s) \in 1 .. Len(u) /\ a[i] = u[i - Len(s)]
        BY <1>1, <3>1, <3>3 DEF ToSet
      <3> QED
        BY <1>1, <3>2, <3>3
    <2>2. ASSUME NEW x \in ToSet(s) PROVE x \in ToSet(a)
      BY <1>1 DEF ToSet
    <2>3. ASSUME NEW x \in ToSet(u) PROVE x \in ToSet(a)
      <3>1. PICK i \in 1 .. Len(u) : x = u[i]
        BY <1>1 DEF ToSet
      <3>2. i + Len(s) \in DOMAIN a /\ a[i + Len(s)] = x
        BY <1>1, <3>1
      <3> QED
        BY <3>2 DEF ToSet
    <2> QED
      BY <2>1, <2>2, <2>3
  <1>3. IsInjective(a) => IsInjective(s)
    BY <1>1 DEF IsInjective
  <1>4. ASSUME IsInjective(a), NEW i \in DOMAIN u, NEW j \in DOMAIN u, u[i] = u[j]
        PROVE  i = j
    <2>1. a[i + Len(s)] = a[j + Len(s)]
      BY <1>1, <1>4
    <2>2. i + Len(s) = j + Len(s)
      BY <1>1, <1>4, <2>1 DEF IsInjective
    <2> QED
      BY <1>1, <2>2
  <1>5. ASSUME IsInjective(a), NEW i \in DOMAIN s, NEW j \in DOMAIN u, s[i] = u[j]
        PROVE  FALSE
    <2>1. a[i] = a[j + Len(s)]
      BY <1>1, <1>5
    <2>2. i = j + Len(s)
      BY <1>1, <1>5, <2>1 DEF IsInjective
    <2> QED
      BY <1>1, <2>2
  <1>6. ASSUME IsInjective(s), IsInjective(u), ToSet(s) \cap ToSet(u) = {},
               NEW i \in DOMAIN a, NEW j \in DOMAIN a, a[i] = a[j]
        PROVE  i = j
    <2>1. CASE i \in 1 .. Len(s) /\ j \in 1 .. Len(s)
      BY <1>1, <1>6, <2>1 DEF IsInjective
    <2>2. CASE i \notin 1 .. Len(s) /\ j \notin 1 .. Len(s)
      <3>1. u[i - Len(s)] = u[j - Len(s)] /\ i - Len(s) \in DOMAIN u /\ j - Len(s) \in DOMAIN u
        BY <1>1, <1>6, <2>2
      <3>2. i - Len(s) = j - Len(s)
        BY <1>6, <3>1 DEF IsInjective
      <3> QED
        BY <1>1, <3>2
    <2>3. CASE i \in 1 .. Len(s) /\ j \notin 1 .. Len(s)
      <3>1. s[i] = u[j - Len(s)] /\ i \in DOMAIN s /\ j - Len(s) \in DOMAIN u
        BY <1>1, <1>6, <2>3
      <3> QED
        BY <1>6, <3>1 DEF ToSet
    <2>4. CASE i \notin 1 .. Len(s) /\ j \in 1 .. Len(s)
      <3>1. s[j] = u[i - Len(s)] /\ j \in DOMAIN s /\ i - Len(s) \in DOMAIN u
        BY <1>1, <1>6, <2>4
      <3> QED
        BY <1>6, <3>1 DEF ToSet
    <2> QED
      BY <2>1, <2>2, <2>3, <2>4
  <1>7. InOrder(a) => InOrder(s)
    BY <1>1 DEF InOrder
  <1>8. ASSUME InOrder(a), NEW i \in DOMAIN u, NEW j \in DOMAIN u, i < j, u[i][1] = u[j][1]
        PROVE  u[i][2] < u[j][2]
    <2>1. /\ i + Len(s) \in DOMAIN a /\ j + Len(s) \in DOMAIN a
          /\ i + Len(s) < j + Len(s)
          /\ a[i + Len(s)] = u[i] /\ a[j + Len(s)] = u[j]
      BY <1>1, <1>8
    <2> QED
      BY <1>8, <2>1 DEF InOrder
  <1>9. ASSUME InOrder(a), NEW i \in DOMAIN s, NEW j \in DOMAIN u, s[i][1] = u[j][1]
        PROVE  s[i][2] < u[j][2]
    <2>1. /\ i \in DOMAIN a /\ j + Len(s) \in DOMAIN a
          /\ i < j + Len(s)
          /\ a[i] = s[i] /\ a[j + Len(s)] = u[j]
      BY <1>1, <1>9
    <2> QED
      BY <1>9, <2>1 DEF InOrder
  <1>10. ASSUME InOrder(s), InOrder(u), Before(ToSet(s), ToSet(u)),
                NEW i \in DOMAIN a, NEW j \in DOMAIN a, i < j, a[i][1] = a[j][1]
         PROVE  a[i][2] < a[j][2]
    <2>1. CASE j \in 1 .. Len(s)
      <3>1. i \in DOMAIN s /\ j \in DOMAIN s /\ s[i] = a[i] /\ s[j] = a[j]
        BY <1>1, <1>10, <2>1
      <3> QED
        BY <1>10, <3>1 DEF InOrder
    <2>2. CASE i \notin 1 .. Len(s)
      <3>1. /\ i - Len(s) \in DOMAIN u /\ j - Len(s) \in DOMAIN u
            /\ i - Len(s) < j - Len(s)
            /\ u[i - Len(s)] = a[i] /\ u[j - Len(s)] = a[j]
        BY <1>1, <1>10, <2>2
      <3> QED
        BY <1>10, <3>1 DEF InOrder
    <2>3. CASE i \in 1 .. Len(s) /\ j \notin 1 .. Len(s)
      <3>1. /\ i \in DOMAIN s /\ j - Len(s) \in DOMAIN u
            /\ s[i] = a[i] /\ u[j - Len(s)] = a[j]
        BY <1>1, <1>10, <2>3
      <3>2. a[i] \in ToSet(s) /\ a[j] \in ToSet(u)
        BY <3>1 DEF ToSet
      <3> QED
        BY <1>10, <3>2 DEF Before
    <2> QED
      BY <2>1, <2>2, <2>3
  <1>11. IsInjective(a) <=> IsInjective(s) /\ IsInjective(u) /\ ToSet(s) \cap ToSet(u) = {}
    <2>1. IsInjective(a) => IsInjective(u)
      BY <1>4 DEF IsInjective
    <2>2. IsInjective(a) => ToSet(s) \cap ToSet(u) = {}
      BY <1>5 DEF ToSet
    <2>3. IsInjective(s) /\ IsInjective(u) /\ ToSet(s) \cap ToSet(u) = {} => IsInjective(a)
      BY <1>6 DEF IsInjective
    <2> QED
      BY <1>3, <2>1, <2>2, <2>3
  <1>12. InOrder(a) <=> InOrder(s) /\ InOrder(u) /\ Before(ToSet(s), ToSet(u))
    <2>1. InOrder(a) => InOrder(u)
      BY <1>8 DEF InOrder
    <2>2. InOrder(a) => Before(ToSet(s), ToSet(u))
      BY <1>9 DEF ToSet, Before
    <2>3. InOrder(s) /\ InOrder(u) /\ Before(ToSet(s), ToSet(u)) => InOrder(a)
      BY <1>10 DEF InOrder
    <2> QED
      BY <1>7, <2>1, <2>2, <2>3
  <1> QED
    BY <1>1, <1>2, <1>11, <1>12 DEF a

\* A sequence of one element.
LEMMA OneElement ==
    ASSUME NEW T, NEW e \in T
    PROVE  <<e>> \in Seq(T) /\ ToSet(<<e>>) = {e} /\ IsInjective(<<e>>) /\ InOrder(<<e>>)
  <1>1. /\ <<e>> \in Seq(T)
        /\ DOMAIN <<e>> = {1}
        /\ <<e>>[1] = e
    OBVIOUS
  <1> QED
    BY <1>1 DEF ToSet, IsInjective, InOrder

\* The same for one element put behind a sequence, or before it.
LEMMA AppendElements ==
    ASSUME NEW T, NEW s \in Seq(T), NEW e \in T
    PROVE  /\ Append(s, e) \in Seq(T)
           /\ ToSet(Append(s, e)) = ToSet(s) \cup {e}
           /\ IsInjective(Append(s, e)) <=> IsInjective(s) /\ e \notin ToSet(s)
           /\ InOrder(Append(s, e)) <=> InOrder(s) /\ Before(ToSet(s), {e})
  <1> DEFINE u == <<e>>
  <1>1. u \in Seq(T) /\ ToSet(u) = {e} /\ IsInjective(u) /\ InOrder(u)
    BY OneElement
  <1>2. Append(s, e) = s \o u
    BY AppendIsConcat
  <1> HIDE DEF u
  <1>3. ToSet(s) \cap ToSet(u) = {} <=> e \notin ToSet(s)
    BY <1>1
  <1>4. /\ s \o u \in Seq(T)
        /\ ToSet(s \o u) = ToSet(s) \cup ToSet(u)
        /\ IsInjective(s \o u) <=>
             IsInjective(s) /\ IsInjective(u) /\ ToSet(s) \cap ToSet(u) = {}
        /\ InOrder(s \o u) <=>
             InOrder(s) /\ InOrder(u) /\ Before(ToSet(s), ToSet(u))
    BY <1>1, ConcatElements
  <1> QED
    BY <1>1, <1>2, <1>3, <1>4

LEMMA PrependElements ==
    ASSUME NEW T, NEW s \in Seq(T), NEW e \in T
    PROVE  /\ <<e>> \o s \in Seq(T)
           /\ ToSet(<<e>> \o s) = ToSet(s) \cup {e}
           /\ IsInjective(<<e>> \o s) <=> IsInjective(s) /\ e \notin ToSet(s)
           /\ InOrder(<<e>> \o s) <=> InOrder(s) /\ Before({e}, ToSet(s))
  <1> DEFINE u == <<e>>
  <1>1. u \in Seq(T) /\ ToSet(u) = {e} /\ IsInjective(u) /\ InOrder(u)
    BY OneElement
  <1> HIDE DEF u
  <1>2. ToSet(u) \cap ToSet(s) = {} <=> e \notin ToSet(s)
    BY <1>1
  <1>3. /\ u \o s \in Seq(T)
        /\ ToSet(u \o s) = ToSet(s) \cup {e}
        /\ IsInjective(u \o s) <=> IsInjective(s) /\ e \notin ToSet(s)
        /\ InOrder(u \o s) <=> InOrder(s) /\ Before({e}, ToSet(s))
    <2>1. /\ u \o s \in Seq(T)
          /\ ToSet(u \o s) = ToSet(u) \cup ToSet(s)
          /\ IsInjective(u \o s) <=>
               IsInjective(u) /\ IsInjective(s) /\ ToSet(u) \cap ToSet(s) = {}
          /\ InOrder(u \o s) <=>
               InOrder(u) /\ InOrder(s) /\ Before(ToSet(u), ToSet(s))
      BY <1>1, ConcatElements
    <2> QED
      BY <1>1, <1>2, <2>1
  <1> QED
    BY <1>3 DEF u

\* Head and Tail, taken together again, are the sequence.
LEMMA HeadAndTail ==
    ASSUME NEW T, NEW s \in Seq(T), s # <<>>
    PROVE  /\ Head(s) \in T
           /\ Tail(s) \in Seq(T)
           /\ s = <<Head(s)>> \o Tail(s)
  <1>1. Head(s) \in T /\ Tail(s) \in Seq(T)
    BY HeadTailProperties
  <1>2. <<Head(s)>> \in Seq(T) /\ Len(<<Head(s)>>) = 1 /\ <<Head(s)>>[1] = s[1]
    BY <1>1
  <1>3. \A i \in 1 .. Len(s) : (<<Head(s)>> \o Tail(s))[i] = s[i]
    BY <1>1, <1>2, HeadTailProperties, ConcatProperties, LenProperties
  <1>4. Len(<<Head(s)>> \o Tail(s)) = Len(s)
    BY <1>1, <1>2, HeadTailProperties, ConcatProperties, LenProperties
  <1> QED
    BY <1>1, <1>2, <1>3, <1>4, SeqEqual, ConcatProperties

\* What is left of a queue, cut off or not, is a queue; one that is not mixed is
\* whole.
LEMMA RemainsType ==
    ASSUME NEW s \in Seq(Transactions), NEW q \in Remains(s)
    PROVE  q \in Seq(Transactions) /\ (~mixed => q = s)
  <1>1. CASE mixed
    <2>1. PICK n \in 0 .. Len(s) : q = SubSeq(s, 1, n)
      BY <1>1 DEF Remains, Prefixes
    <2>2. \A i \in 1 .. n : s[i] \in Transactions
      BY LenProperties, ElementOfSeq
    <2> QED
      BY <1>1, <2>1, <2>2, SubSeqProperties
  <1>2. CASE ~mixed
    BY <1>2 DEF Remains
  <1> QED
    BY <1>1, <1>2

-----------------------------------------------------------------------------
\* Types

LEMMA InitType == Init => TypeOK
  <1> SUFFICES ASSUME Init PROVE TypeOK
    OBVIOUS
  <1>1. enabled \in BOOLEAN /\ moved \in BOOLEAN /\ lockPool \in BOOLEAN /\ mixed \in BOOLEAN
    BY Zenon DEF Init
  <1>2. /\ pc \in [Threads -> ClientSteps \cup WorkerSteps]
        /\ \A c \in Clients : pc[c] \in ClientSteps
        /\ \A w \in Workers : pc[w] \in WorkerSteps
        /\ hand \in [Threads -> Transactions \cup {Nothing}]
        /\ \A t \in Threads : hand[t] # Nothing <=> pc[t] \in Holding
    BY TransAssumption DEF Init, Threads, ClientSteps, WorkerSteps, Holding
  <1>3. /\ sets \in [Clients -> 0 .. MaxSets]
        /\ starts \in 0 .. MaxStarts
        /\ failures \in 0 .. MaxFailures
        /\ moves \in 0 .. MaxMoves
    BY TransAssumption DEF Init
  <1> QED
    BY <1>1, <1>2, <1>3 DEF Init, TypeOK

\* Where a thread is and what it holds.
ThreadType ==
    /\ pc \in [Threads -> ClientSteps \cup WorkerSteps]
    /\ hand \in [Threads -> Transactions \cup {Nothing}]
    /\ \A c \in Clients : pc[c] \in ClientSteps
    /\ \A w \in Workers : pc[w] \in WorkerSteps
    /\ \A t \in Threads : hand[t] # Nothing <=> pc[t] \in Holding

\* A thread that goes on to a step of its kind, and holds what belongs there.
LEMMA StepType ==
    ASSUME ThreadType, NEW t \in Threads, NEW step \in ClientSteps \cup WorkerSteps,
           t \in Clients => step \in ClientSteps,
           t \in Workers => step \in WorkerSteps,
           NEW x \in Transactions \cup {Nothing},
           x # Nothing <=> step \in Holding,
           Goto(t, step),
           hand' = [hand EXCEPT ![t] = x]
    PROVE  ThreadType'
  BY DEF ThreadType, Goto, Threads

\* The same for a thread that holds on to what it has.
LEMMA StepTypeSame ==
    ASSUME ThreadType, NEW t \in Threads, NEW step \in ClientSteps \cup WorkerSteps,
           t \in Clients => step \in ClientSteps,
           t \in Workers => step \in WorkerSteps,
           hand[t] # Nothing <=> step \in Holding,
           Goto(t, step),
           UNCHANGED hand
    PROVE  ThreadType'
  <1>1. hand' = [hand EXCEPT ![t] = hand[t]] /\ hand[t] \in Transactions \cup {Nothing}
    BY DEF ThreadType
  <1> QED
    BY <1>1, StepType

\* A thread whose handler has failed.
LEMMA FailType ==
    ASSUME ThreadType, NEW t \in Threads, pc[t] \in {"fd", "write"}, HandlerFails(t)
    PROVE  ThreadType'
  <1>1. CASE t \in Workers
    <2>1. t \notin Clients
      BY <1>1, TransAssumption
    <2> QED
      BY <1>1, <2>1, StepTypeSame DEF HandlerFails, WorkerSteps, ThreadType, Holding
  <1>2. CASE t \notin Workers
    BY <1>2, StepType DEF HandlerFails, ClientSteps, Holding
  <1> QED
    BY <1>1, <1>2

LEMMA NextType == TypeOK /\ PoolInv /\ [Next]_vars => TypeOK'
  <1> SUFFICES ASSUME TypeOK, PoolInv, [Next]_vars PROVE TypeOK'
    OBVIOUS
  <1> USE TransAssumption DEF Holding
  <1> DEFINE Rest ==
         /\ threadcnt \in 0 .. Cardinality(Workers)
         /\ enabled \in BOOLEAN
         /\ arfd \in {"open", "closed"}
         /\ moved \in BOOLEAN
         /\ archive \in Seq(Transactions)
         /\ queue \in Seq(Transactions)
         /\ pool \subseteq Workers
         /\ exiting \subseteq Workers
         /\ lockPool \in BOOLEAN
         /\ mpc \in {"idle", "wait", "erase", "exit", "broadcast", "join", "file", "create"}
         /\ mjob \in {"start", "stop"}
         /\ sets \in [Clients -> 0 .. MaxSets]
         /\ starts \in 0 .. MaxStarts
         /\ failures \in 0 .. MaxFailures
         /\ moves \in 0 .. MaxMoves
         /\ acked \subseteq Transactions
         /\ mixed \in BOOLEAN
  <1>a. TypeOK <=> Rest /\ ThreadType
    BY Zenon DEF TypeOK, ThreadType
  <1>b. (TypeOK <=> Rest /\ ThreadType)'
    BY Zenon DEF TypeOK, ThreadType
  <1>r. Rest /\ ThreadType
    BY <1>a
  <1>s. Clients \subseteq Threads /\ Workers \subseteq Threads
    BY DEF Threads
  <1>o. \A steps : Overlaps(steps) => mixed' \in BOOLEAN
    BY Zenon DEF Overlaps
  <1>f. Fails => failures' \in 0 .. MaxFailures
    BY <1>r DEF Fails
  <1>1. ASSUME NEW c \in Clients, Set(c)
        PROVE  TypeOK'
    <2>1. sets[c] + 1 \in 1 .. MaxSets
      BY <1>1, <1>r DEF Set
    <2>2. sets' = [sets EXCEPT ![c] = sets[c] + 1]
      BY <1>1 DEF Set
    <2>3. <<c, sets'[c]>> \in Transactions
      BY <2>1, <2>2, <1>r, TransactionParts
    <2>4. ThreadType'
      <3>1. CASE IsEnable
        BY <1>1, <1>r, <1>s, <2>3, <3>1, StepType, TransactionParts DEF Set, ClientSteps
      <3>2. CASE ~IsEnable
        BY <1>1, <1>r, <3>2 DEF Set, ThreadType
      <3> QED
        BY <3>1, <3>2
    <2>5. sets' \in [Clients -> 0 .. MaxSets]
      BY <2>1, <2>2, <1>r
    <2>6. Rest'
      BY <1>1, <1>r, <2>5 DEF Set, file, mgr
    <2> QED
      BY <1>b, <2>4, <2>6
  <1>2. ASSUME NEW c \in Clients, Push(c)
        PROVE  TypeOK'
    <2>1. hand[c] \in Transactions
      BY <1>2, <1>r, <1>s DEF Push, ThreadType
    <2>2. ThreadType'
      BY <1>2, <1>r, <1>s, StepType DEF Push, ClientSteps
    <2>3. queue' \in Seq(Transactions)
      <3>1. Append(queue, hand[c]) \in Seq(Transactions)
        BY <1>r, <2>1
      <3> QED
        BY <1>2, <3>1, RemainsType DEF Push
    <2>4. Rest'
      BY <1>2, <1>r, <2>1, <2>3 DEF Push, file, mgr
    <2> QED
      BY <1>b, <2>2, <2>4
  <1>3. ASSUME NEW c \in Clients, Signal(c)
        PROVE  TypeOK'
    <2>1. ThreadType'
      <3>1. CASE \E w \in pool : pc[w] = "waiting"
        <4>1. PICK w \in pool : pc[w] = "waiting" /\ pc' = [pc EXCEPT ![c] = "idle", ![w] = "woken"]
          BY <1>3, <3>1 DEF Signal
        <4>2. w \in Workers /\ w \in Threads /\ c \in Threads /\ w \notin Clients /\ c \notin Workers
          BY <1>r, <1>s
        <4>3. pc[c] = "signal" /\ UNCHANGED hand
          BY <1>3 DEF Signal
        <4>4. pc' \in [Threads -> ClientSteps \cup WorkerSteps]
          BY <1>r, <4>1 DEF ThreadType, ClientSteps, WorkerSteps
        <4>5. /\ \A d \in Clients : pc'[d] \in ClientSteps
              /\ \A v \in Workers : pc'[v] \in WorkerSteps
          BY <1>r, <1>s, <4>1, <4>2 DEF ThreadType, ClientSteps, WorkerSteps
        <4>6. \A t \in Threads : hand[t] # Nothing <=> pc'[t] \in Holding
          BY <1>r, <4>1, <4>2, <4>3 DEF ThreadType
        <4> QED
          BY <1>r, <4>3, <4>4, <4>5, <4>6 DEF ThreadType
      <3>2. CASE ~ \E w \in pool : pc[w] = "waiting"
        BY <1>3, <1>r, <1>s, <3>2, StepTypeSame DEF Signal, ClientSteps, ThreadType
      <3> QED
        BY <3>1, <3>2
    <2>2. Rest'
      BY <1>3, <1>r DEF Signal, file, mgr
    <2> QED
      BY <1>b, <2>1, <2>2
  <1>4. ASSUME NEW c \in Clients, Do(c)
        PROVE  TypeOK'
    <2>1. ThreadType'
      BY <1>4, <1>r, <1>s, StepTypeSame DEF Do, ClientSteps, ThreadType
    <2>2. Rest'
      BY <1>4, <1>r DEF Do, file, mgr
    <2> QED
      BY <1>b, <2>1, <2>2
  <1>5. ASSUME NEW t \in Threads, GetArchiveFd(t)
        PROVE  TypeOK'
    <2>1. ThreadType'
      BY <1>5, <1>r, StepTypeSame DEF GetArchiveFd, ClientSteps, WorkerSteps, ThreadType
    <2>2. moved' \in BOOLEAN
      BY <1>5, <1>r, Zenon DEF GetArchiveFd
    <2>3. Rest'
      BY <1>5, <1>r, <2>2 DEF GetArchiveFd, mgr
    <2> QED
      BY <1>b, <2>1, <2>3
  <1>6. ASSUME NEW t \in Threads, ReopenFails(t)
        PROVE  TypeOK'
    <2>1. ThreadType'
      BY <1>6, <1>r, FailType DEF ReopenFails
    <2>2. Rest'
      BY <1>6, <1>r, <1>f DEF ReopenFails, mgr
    <2> QED
      BY <1>b, <2>1, <2>2
  <1>7. ASSUME NEW t \in Threads, NoArchiveFd(t)
        PROVE  TypeOK'
    <2>1. ThreadType'
      BY <1>7, <1>r, FailType DEF NoArchiveFd
    <2>2. Rest'
      BY <1>7, <1>r DEF NoArchiveFd, file, mgr
    <2> QED
      BY <1>b, <2>1, <2>2
  <1>8. ASSUME NEW t \in Threads, WriteTrans(t)
        PROVE  TypeOK'
    <2>1. hand[t] \in Transactions
      BY <1>8, <1>r DEF WriteTrans, ThreadType
    <2>2. ThreadType'
      <3>1. CASE t \in Workers
        <4>1. t \notin Clients
          BY <3>1
        <4> QED
          BY <1>8, <1>r, <3>1, <4>1, StepType DEF WriteTrans, WorkerSteps
      <3>2. CASE t \notin Workers
        BY <1>8, <1>r, <3>2, StepType DEF WriteTrans, ClientSteps
      <3> QED
        BY <3>1, <3>2
    <2>3. Rest'
      BY <1>8, <1>r, <2>1 DEF WriteTrans, mgr
    <2> QED
      BY <1>b, <2>2, <2>3
  <1>9. ASSUME NEW t \in Threads, WriteFails(t)
        PROVE  TypeOK'
    <2>1. ThreadType'
      BY <1>9, <1>r, FailType DEF WriteFails
    <2>2. Rest'
      BY <1>9, <1>r, <1>f DEF WriteFails, file, mgr
    <2> QED
      BY <1>b, <2>1, <2>2
  <1>10. ASSUME NEW w \in Workers, Wait(w) \/ WaitTimeout(w) \/ CheckExit(w)
         PROVE  TypeOK'
    <2>1. w \in Threads /\ w \notin Clients
      BY <1>s
    <2>2. ThreadType'
      BY <1>10, <1>r, <2>1, StepTypeSame DEF Wait, WaitTimeout, CheckExit, WorkerSteps, ThreadType
    <2>3. Rest'
      BY <1>10, <1>r DEF Wait, WaitTimeout, CheckExit, file, mgr
    <2> QED
      BY <1>b, <2>2, <2>3
  <1>11. ASSUME NEW w \in Workers, Pop(w)
         PROVE  TypeOK'
    <2>1. w \in Threads /\ w \notin Clients
      BY <1>s
    <2>2. CASE queue = <<>>
      <3>1. ThreadType'
        BY <1>11, <1>r, <2>1, <2>2, StepTypeSame DEF Pop, WorkerSteps, ThreadType
      <3> QED
        BY <1>11, <1>r, <1>b, <2>2, <3>1 DEF Pop, file, mgr
    <2>3. CASE queue # <<>>
      <3>1. Head(queue) \in Transactions /\ Tail(queue) \in Seq(Transactions)
        BY <1>r, <2>3, HeadAndTail
      <3>2. ThreadType'
        BY <1>11, <1>r, <2>1, <2>3, <3>1, TransactionParts, StepType DEF Pop, WorkerSteps
      <3>3. queue' \in Seq(Transactions)
        BY <1>11, <2>3, <3>1, RemainsType DEF Pop
      <3> QED
        BY <1>11, <1>r, <1>b, <2>3, <3>3, <3>2 DEF Pop, file, mgr
    <2> QED
      BY <2>2, <2>3
  <1>12. ASSUME NEW w \in Workers, Recover(w)
         PROVE  TypeOK'
    <2>1. w \in Threads /\ w \notin Clients
      BY <1>s
    <2>2. hand[w] \in Transactions
      BY <1>12, <1>r, <2>1 DEF Recover, ThreadType
    <2>3. ThreadType'
      BY <1>12, <1>r, <2>1, StepType DEF Recover, WorkerSteps
    <2>4. queue' \in Seq(Transactions)
      <3>1. <<hand[w]>> \o queue \in Seq(Transactions)
        BY <1>r, <2>2, OneElement, ConcatElements
      <3> QED
        BY <1>12, <3>1, RemainsType DEF Recover
    <2>5. Rest'
      BY <1>12, <1>r, <2>4 DEF Recover, file, mgr
    <2> QED
      BY <1>b, <2>3, <2>5
  <1>13. ASSUME Start \/ Stop \/ Detach
         PROVE  TypeOK'
    <2>1. ThreadType'
      BY <1>13, <1>r DEF Start, Stop, Detach, Call, ThreadType
    <2>2. Rest'
      BY <1>13, <1>r DEF Start, Stop, Detach, Call, file
    <2> QED
      BY <1>b, <2>1, <2>2
  <1>14. ASSUME WaitFinish \/ EraseFile \/ SetExit
         PROVE  TypeOK'
    <2>1. ThreadType'
      BY <1>14, <1>r DEF WaitFinish, EraseFile, SetExit, ThreadType
    <2>2. enabled' \in BOOLEAN /\ lockPool' \in BOOLEAN
      BY <1>14, <1>r, Zenon DEF WaitFinish, EraseFile, SetExit, MgrGoto, file
    <2>3. Rest'
      BY <1>14, <1>r, <2>2 DEF WaitFinish, EraseFile, SetExit, MgrGoto, AfterStop, file
    <2> QED
      BY <1>b, <2>1, <2>3
  <1>15. ASSUME Broadcast
         PROVE  TypeOK'
    <2>1. ThreadType'
      BY <1>15, <1>r, <1>s DEF Broadcast, ThreadType, WorkerSteps
    <2>2. Rest'
      BY <1>15, <1>r DEF Broadcast, MgrGoto, file
    <2> QED
      BY <1>b, <2>1, <2>2
  <1>16. ASSUME Join \/ OpenFails
         PROVE  TypeOK'
    <2>1. ThreadType'
      BY <1>16, <1>r DEF Join, OpenFails, ThreadType
    <2>2. Rest'
      BY <1>16, <1>r, <1>f DEF Join, OpenFails, MgrGoto, AfterStop, file
    <2> QED
      BY <1>b, <2>1, <2>2
  <1>17. ASSUME OpenFile
         PROVE  TypeOK'
    <2>1. ThreadType'
      BY <1>17, <1>r DEF OpenFile, ThreadType
    <2>2. enabled' \in BOOLEAN /\ moved' \in BOOLEAN
      BY <1>17, Zenon DEF OpenFile
    <2>3. Rest'
      BY <1>17, <1>r, <2>2 DEF OpenFile, MgrGoto
    <2> QED
      BY <1>b, <2>1, <2>3
  <1>18. ASSUME NEW ws \in SUBSET Workers, CreateThreads(ws)
         PROVE  TypeOK'
    <2>1. \A w \in ws : pc[w] = "off"
      BY <1>18 DEF CreateThreads, PoolInv
    <2>2. ThreadType'
      BY <1>18, <1>r, <1>s, <2>1 DEF CreateThreads, ThreadType, WorkerSteps
    <2>3. Rest'
      BY <1>18, <1>r, <1>f DEF CreateThreads, file
    <2> QED
      BY <1>b, <2>2, <2>3
  <1>19. ASSUME CreateFails
         PROVE  TypeOK'
    <2>1. ThreadType'
      BY <1>19, <1>r DEF CreateFails, ThreadType
    <2>2. lockPool' \in BOOLEAN
      BY <1>19, Zenon DEF CreateFails
    <2>3. Rest'
      BY <1>19, <1>r, <1>f, <2>2 DEF CreateFails, file
    <2> QED
      BY <1>b, <2>1, <2>3
  <1>20. ASSUME MoveFile
         PROVE  TypeOK'
    <2>1. ThreadType'
      BY <1>20, <1>r DEF MoveFile, ThreadType
    <2>2. moved' \in BOOLEAN
      BY <1>20, Zenon DEF MoveFile
    <2>3. Rest'
      BY <1>20, <1>r, <2>2 DEF MoveFile, mgr
    <2> QED
      BY <1>b, <2>1, <2>3
  <1>22. ASSUME NEW c \in Clients, NotWanted(c) \/ PushFails(c)
         PROVE  TypeOK'
    <2>1. ThreadType'
      BY <1>22, <1>r, <1>s, StepType DEF NotWanted, PushFails, ClientSteps
    <2>2. Rest'
      BY <1>22, <1>r DEF NotWanted, PushFails, file, mgr
    <2> QED
      BY <1>b, <2>1, <2>2
  <1>23. ASSUME NEW c \in Clients, BeginPush(c)
         PROVE  TypeOK'
    <2>1. ThreadType'
      BY <1>23, <1>r, <1>s, StepTypeSame DEF BeginPush, ClientSteps, ThreadType
    <2>2. mixed' \in BOOLEAN
      BY <1>23, <1>o DEF BeginPush
    <2>3. Rest'
      BY <1>23, <1>r, <2>2 DEF BeginPush, file, mgr
    <2> QED
      BY <1>b, <2>1, <2>3
  <1>24. ASSUME NEW w \in Workers, BeginPop(w) \/ BeginRecover(w)
         PROVE  TypeOK'
    <2>1. w \in Threads /\ w \notin Clients
      BY <1>s
    <2>2. ThreadType'
      BY <1>24, <1>r, <2>1, StepTypeSame DEF BeginPop, BeginRecover, WorkerSteps, ThreadType
    <2>3. mixed' \in BOOLEAN
      BY <1>24, <1>o DEF BeginPop, BeginRecover
    <2>4. Rest'
      BY <1>24, <1>r, <2>3 DEF BeginPop, BeginRecover, file, mgr
    <2> QED
      BY <1>b, <2>2, <2>4
  <1>21. CASE UNCHANGED vars
    BY <1>21, <1>r, <1>b DEF vars, file, mgr, ThreadType
  <1> QED
    BY <1>1, <1>2, <1>3, <1>4, <1>5, <1>6, <1>7, <1>8, <1>9, <1>10, <1>11, <1>12, <1>13, <1>14,
       <1>15, <1>16, <1>17, <1>18, <1>19, <1>20, <1>21, <1>22, <1>23, <1>24, <1>s
    DEF Next, ClientStep, WorkerStep, ThreadStep, MgrStep

-----------------------------------------------------------------------------
\* The pool, the manager and the clients

LEMMA InitPool == Init => PoolInv
  BY TransAssumption DEF Init, PoolInv, Threads

\* A step of one thread that is not off leaves the pool and the manager alone.
LEMMA StepPool ==
    ASSUME TypeOK, PoolInv, NEW t \in Threads, pc[t] # "off",
           \A u \in Threads \ {t} : pc'[u] = pc[u],
           UNCHANGED <<threadcnt, enabled, pool, mpc, lockPool>>,
           arfd' \in {arfd, "closed"},
           pool = {} => UNCHANGED queue,
           t \in Clients => /\ mpc = "idle"
                            /\ pc'[t] \in {"fd", "write"} => pool = {}
                            /\ pc'[t] = "push" => pool # {}
    PROVE  PoolInv'
  <1>1. \A w \in Workers \ pool : pc'[w] = "off"
    BY DEF PoolInv, Threads
  <1>2. mpc # "idle" => \A c \in Clients : pc'[c] = "idle"
    BY DEF PoolInv, Threads
  <1>3. \A c \in Clients : pc'[c] \in {"fd", "write"} => pool = {}
    BY DEF PoolInv, Threads
  <1>7. \A c \in Clients : pc'[c] = "push" => pool # {}
    BY DEF PoolInv, Threads
  <1>4. (threadcnt <= 1 => \A v, w \in pool : v = w)'
    BY DEF PoolInv
  <1>5. (threadcnt = 0 => pool = {} /\ queue = <<>>)'
    BY DEF PoolInv
  <1>6. (arfd = "open" => enabled)' /\ (mpc \in {"exit", "broadcast", "join", "file"} => ~enabled)'
    BY DEF PoolInv
  <1> QED
    BY <1>1, <1>2, <1>3, <1>4, <1>5, <1>6, <1>7, SMTT(30) DEF PoolInv

\* A thread whose handler fails goes where it neither was off nor runs it.
LEMMA FailPool ==
    ASSUME TypeOK, NEW t \in Threads, HandlerFails(t)
    PROVE  /\ \A u \in Threads \ {t} : pc'[u] = pc[u]
           /\ pc'[t] \notin {"fd", "write", "push"}
  BY DEF HandlerFails, Goto, TypeOK

LEMMA NextPool == TypeOK /\ PoolInv /\ [Next]_vars => PoolInv'
  <1> SUFFICES ASSUME TypeOK, PoolInv, [Next]_vars PROVE PoolInv'
    OBVIOUS
  <1> USE TransAssumption
  <1>s. Clients \subseteq Threads /\ Workers \subseteq Threads /\ Clients \cap Workers = {}
    BY DEF Threads
  <1>p. pc \in [Threads -> ClientSteps \cup WorkerSteps]
    BY DEF TypeOK
  <1>c. \A c \in Clients : pc[c] # "off"
    BY DEF TypeOK, ClientSteps
  <1>i. \A c \in Clients : pc[c] # "idle" => mpc = "idle"
    BY DEF PoolInv
  <1>h. ASSUME NEW t \in Threads, pc[t] \in {"fd", "write"}, t \in Clients
        PROVE  pool = {} /\ mpc = "idle"
    BY <1>h DEF PoolInv
  <1>1. ASSUME NEW c \in Clients, Set(c)
        PROVE  PoolInv'
    <2>1. \A u \in Threads \ {c} : pc'[u] = pc[u]
      BY <1>1, <1>p DEF Set, Goto
    <2>2. pc'[c] \notin {"fd", "write", "push"}
      BY <1>1, <1>p, <1>s DEF Set, Goto
    <2> QED
      BY <1>1, <1>c, <1>s, <2>1, <2>2, StepPool DEF Set, file, mgr
  <1>2. ASSUME NEW c \in Clients,
               NotWanted(c) \/ BeginPush(c) \/ Push(c) \/ PushFails(c) \/ Do(c)
        PROVE  PoolInv'
    <2>1. \A u \in Threads \ {c} : pc'[u] = pc[u]
      BY <1>2, <1>p DEF NotWanted, BeginPush, Push, PushFails, Do, Goto
    <2>2. /\ pool # {} => pc'[c] \notin {"fd", "write"}
          /\ pool = {} => pc'[c] # "push"
      BY <1>2, <1>p, <1>s DEF NotWanted, BeginPush, Push, PushFails, Do, Goto
    <2>3. pool = {} => UNCHANGED queue
      <3>1. CASE Push(c)
        BY <3>1 DEF Push, PoolInv
      <3> QED
        BY <1>2, <3>1 DEF NotWanted, BeginPush, PushFails, Do
    <2>4. pc[c] # "off" /\ mpc = "idle"
      BY <1>2, <1>i DEF NotWanted, BeginPush, Push, PushFails, Do
    <2>5. UNCHANGED <<threadcnt, enabled, pool, mpc, lockPool, arfd>>
      BY <1>2 DEF NotWanted, BeginPush, Push, PushFails, Do, file, mgr
    <2> QED
      BY <1>s, <2>1, <2>2, <2>3, <2>4, <2>5, StepPool
  <1>3. ASSUME NEW c \in Clients, Signal(c)
        PROVE  PoolInv'
    <2>1. mpc = "idle"
      BY <1>3, <1>i DEF Signal
    <2>2. CASE \E w \in pool : pc[w] = "waiting"
      <3>1. PICK w \in pool : pc' = [pc EXCEPT ![c] = "idle", ![w] = "woken"]
        BY <1>3, <2>2 DEF Signal
      <3>2. w \in Workers /\ w # c
        BY <1>s DEF TypeOK
      <3>3. \A v \in Workers \ pool : pc'[v] = "off"
        BY <1>s, <1>p, <3>1, <3>2 DEF PoolInv
      <3>4. /\ \A d \in Clients : pc'[d] \in {"fd", "write"} => pool = {}
            /\ \A d \in Clients : pc'[d] = "push" => pool # {}
        BY <1>s, <1>p, <3>1, <3>2 DEF PoolInv
      <3> QED
        BY <1>3, <2>1, <3>3, <3>4, SMTT(30) DEF PoolInv, Signal, file, mgr
    <2>3. CASE ~ \E w \in pool : pc[w] = "waiting"
      <3>1. \A u \in Threads \ {c} : pc'[u] = pc[u]
        BY <1>3, <1>p, <2>3 DEF Signal, Goto
      <3>2. pc'[c] \notin {"fd", "write", "push"} /\ pc[c] # "off"
        BY <1>3, <1>p, <1>s, <2>3 DEF Signal, Goto
      <3> QED
        BY <1>3, <1>s, <2>1, <3>1, <3>2, StepPool DEF Signal, file, mgr
    <2> QED
      BY <2>2, <2>3
  <1>4. ASSUME NEW t \in Threads, GetArchiveFd(t) \/ WriteTrans(t)
        PROVE  PoolInv'
    <2>1. \A u \in Threads \ {t} : pc'[u] = pc[u]
      BY <1>4, <1>p DEF GetArchiveFd, WriteTrans, Goto
    <2>2. pc[t] \in {"fd", "write"} /\ pc'[t] # "push"
      BY <1>4, <1>p DEF GetArchiveFd, WriteTrans, Goto
    <2>3. UNCHANGED <<threadcnt, enabled, pool, mpc, lockPool, arfd, queue>>
      BY <1>4 DEF GetArchiveFd, WriteTrans, mgr
    <2> QED
      BY <1>h, <2>1, <2>2, <2>3, StepPool
  <1>5. ASSUME NEW t \in Threads, ReopenFails(t) \/ NoArchiveFd(t) \/ WriteFails(t)
        PROVE  PoolInv'
    <2>1. HandlerFails(t) /\ pc[t] \in {"fd", "write"}
      BY <1>5 DEF ReopenFails, NoArchiveFd, WriteFails
    <2>2. UNCHANGED <<threadcnt, enabled, pool, mpc, lockPool, queue>> /\ arfd' \in {arfd, "closed"}
      BY <1>5 DEF ReopenFails, NoArchiveFd, WriteFails, file, mgr
    <2> QED
      BY <1>h, <2>1, <2>2, FailPool, StepPool
  <1>6. ASSUME NEW w \in Workers,
               \/ Wait(w) \/ WaitTimeout(w) \/ CheckExit(w)
               \/ BeginPop(w) \/ Pop(w) \/ BeginRecover(w) \/ Recover(w)
        PROVE  PoolInv'
    <2>1. \A u \in Threads \ {w} : pc'[u] = pc[u]
      BY <1>6, <1>p DEF Wait, WaitTimeout, CheckExit, BeginPop, Pop, BeginRecover, Recover, Goto
    <2>2. pc[w] # "off"
      BY <1>6 DEF Wait, WaitTimeout, CheckExit, BeginPop, Pop, BeginRecover, Recover
    <2>3. pool # {}
      BY <2>2 DEF PoolInv
    <2>4. UNCHANGED <<threadcnt, enabled, pool, mpc, lockPool, arfd>>
      BY <1>6 DEF Wait, WaitTimeout, CheckExit, BeginPop, Pop, BeginRecover, Recover, file, mgr
    <2> QED
      BY <1>s, <2>1, <2>2, <2>3, <2>4, StepPool
  <1>7. ASSUME Start \/ Stop \/ Detach
        PROVE  PoolInv'
    BY <1>7 DEF Start, Stop, Detach, Call, PoolInv, file
  <1>8. ASSUME WaitFinish \/ EraseFile
        PROVE  PoolInv'
    BY <1>8 DEF WaitFinish, EraseFile, MgrGoto, PoolInv, file
  <1>9. ASSUME SetExit
        PROVE  PoolInv'
    BY <1>9 DEF SetExit, MgrGoto, AfterStop, PoolInv, file
  <1>10. ASSUME Broadcast
         PROVE  PoolInv'
    <2>1. pool \subseteq Workers
      BY DEF TypeOK
    <2>2. \A w \in Workers \ pool : pc'[w] = "off"
      BY <1>10, <1>s DEF Broadcast, PoolInv
    <2>3. \A c \in Clients : pc'[c] = pc[c]
      BY <1>10, <1>s, <2>1 DEF Broadcast
    <2> QED
      BY <1>10, <2>2, <2>3 DEF Broadcast, MgrGoto, PoolInv, file
  <1>11. ASSUME Join
         PROVE  PoolInv'
    <2>1. \A w \in Workers : pc[w] = "off"
      BY <1>11 DEF Join, PoolInv
    <2> QED
      BY <1>11, <2>1 DEF Join, AfterStop, PoolInv, file
  <1>12. ASSUME OpenFile
         PROVE  PoolInv'
    BY <1>12 DEF OpenFile, MgrGoto, PoolInv
  <1>13. ASSUME OpenFails
         PROVE  PoolInv'
    BY <1>13 DEF OpenFails, MgrGoto, PoolInv, file
  <1>14. ASSUME NEW ws \in SUBSET Workers, CreateThreads(ws)
         PROVE  PoolInv'
    <2>1. IsFiniteSet(ws) /\ Cardinality(ws) \in Nat \ {0} /\ threadcnt \in Int
      BY <1>14, FS_Subset, FS_CardinalityType, FS_EmptySet DEF CreateThreads, TypeOK
    <2>2. threadcnt # 0
      BY <1>14, <2>1 DEF CreateThreads
    <2>3. ASSUME threadcnt <= 1, NEW v \in ws, NEW w \in ws
          PROVE  v = w
      <3>1. Cardinality(ws) = 1
        BY <1>14, <2>1, <2>3 DEF CreateThreads
      <3>2. \E x : ws = {x}
        BY <2>1, <3>1, FS_Singleton
      <3> QED
        BY <3>2
    <2>4. \A w \in Workers \ ws : pc'[w] = "off"
      BY <1>14, <1>s DEF CreateThreads, PoolInv
    <2>5. \A c \in Clients : pc'[c] = "idle"
      BY <1>14, <1>s DEF CreateThreads, PoolInv
    <2> QED
      BY <1>14, <2>2, <2>3, <2>4, <2>5 DEF CreateThreads, PoolInv, file
  <1>15. ASSUME CreateFails
         PROVE  PoolInv'
    BY <1>15 DEF CreateFails, PoolInv, file
  <1>16. ASSUME MoveFile
         PROVE  PoolInv'
    BY <1>16 DEF MoveFile, PoolInv, mgr
  <1>17. CASE UNCHANGED vars
    BY <1>17 DEF vars, file, mgr, PoolInv
  <1> QED
    BY <1>1, <1>2, <1>3, <1>4, <1>5, <1>6, <1>7, <1>8, <1>9, <1>10, <1>11, <1>12, <1>13, <1>14,
       <1>15, <1>16, <1>17, <1>s
    DEF Next, ClientStep, WorkerStep, ThreadStep, MgrStep

\* Every variable keeps its type: in particular a thread holds a transaction
\* exactly while it is between taking it and passing it on (Put, WorkerProc).
THEOREM TypeCorrect == Spec => []TypeOK
  <1>1. Init => TypeOK /\ PoolInv
    BY InitType, InitPool
  <1>2. TypeOK /\ PoolInv /\ [Next]_vars => (TypeOK /\ PoolInv)'
    BY NextType, NextPool
  <1> QED
    BY <1>1, <1>2, PTL DEF Spec

-----------------------------------------------------------------------------
\* Where the transactions are

\* What ArchiveExact says of them, in terms of the elements of the sequences.
Kept ==
    /\ IsInjective(archive)
    /\ IsInjective(queue)
    /\ \A x \in ToSet(archive) : x \notin ToSet(queue)
    /\ \A t \in Threads : hand[t] # Nothing =>
         hand[t] \notin ToSet(archive) /\ hand[t] \notin ToSet(queue)
    /\ \A t, u \in Threads : hand[t] = hand[u] /\ hand[t] # Nothing => t = u
    /\ \A x \in acked : \/ x \in ToSet(archive) \/ x \in ToSet(queue)
                        \/ \E t \in Threads : hand[t] = x
    /\ \A c \in Clients : hand[c] # Nothing => hand[c] = <<c, sets[c]>> /\ hand[c] \notin acked
    /\ \A x \in acked : x[2] <= sets[x[1]]
    /\ \A x \in ToSet(archive) : x[2] <= sets[x[1]]
    /\ \A x \in ToSet(queue) : x[2] <= sets[x[1]]
    /\ \A t \in Threads : hand[t] # Nothing => hand[t][2] <= sets[hand[t][1]]

\* With one worker at most, what is in which order.
Ordered ==
    threadcnt <= 1 =>
        /\ InOrder(archive)
        /\ InOrder(queue)
        /\ ~lockPool => Before(ToSet(archive), ToSet(queue))
        /\ \A w \in Workers : hand[w] # Nothing =>
             Before(ToSet(archive), {hand[w]}) /\ Before({hand[w]}, ToSet(queue))

LEMMA KeptAndOrdered ==
    TypeOK => (ArchiveExact <=> PoolInv /\ (~mixed => Kept /\ Ordered))
  <1> SUFFICES ASSUME TypeOK PROVE ArchiveExact <=> PoolInv /\ (~mixed => Kept /\ Ordered)
    OBVIOUS
  <1>1. acked \subseteq Transactions /\ Nothing \notin Transactions
    BY TransactionParts DEF TypeOK
  <1>2. NothingForgotten <=>
          \A x \in acked : \/ x \in ToSet(archive) \/ x \in ToSet(queue)
                           \/ \E t \in Threads : hand[t] = x
    BY <1>1 DEF NothingForgotten, Held
  <1>3. /\ ToSet(archive \o queue) = ToSet(archive) \cup ToSet(queue)
        /\ IsInjective(archive \o queue) <=>
             /\ IsInjective(archive) /\ IsInjective(queue)
             /\ ToSet(archive) \cap ToSet(queue) = {}
    BY ConcatElements DEF TypeOK
  <1>4. ArchivedOnce <=>
          /\ IsInjective(archive) /\ IsInjective(queue)
          /\ \A x \in ToSet(archive) : x \notin ToSet(queue)
          /\ \A t \in Threads : hand[t] # Nothing =>
               hand[t] \notin ToSet(archive) /\ hand[t] \notin ToSet(queue)
          /\ \A t, u \in Threads : hand[t] = hand[u] /\ hand[t] # Nothing => t = u
    BY <1>3 DEF ArchivedOnce, Held
  <1>5. HoldInv <=>
          /\ \A c \in Clients : hand[c] # Nothing => hand[c] = <<c, sets[c]>> /\ hand[c] \notin acked
          /\ \A x \in acked : x[2] <= sets[x[1]]
          /\ \A x \in ToSet(archive) : x[2] <= sets[x[1]]
          /\ \A x \in ToSet(queue) : x[2] <= sets[x[1]]
          /\ \A t \in Threads : hand[t] # Nothing => hand[t][2] <= sets[hand[t][1]]
    BY DEF HoldInv, Held
  <1>6. ArchivedInOrder /\ OrderInv <=> Ordered
    BY DEF ArchivedInOrder, OrderInv, Ordered
  <1> QED
    BY <1>2, <1>4, <1>5, <1>6, Zenon DEF ArchiveExact, Kept

LEMMA InitKept == Init => Kept /\ Ordered
  <1> SUFFICES ASSUME Init PROVE Kept /\ Ordered
    OBVIOUS
  <1>1. /\ IsInjective(<<>>) /\ InOrder(<<>>)
        /\ ToSet(<<>>) = {}
    BY DEF IsInjective, InOrder, ToSet
  <1>2. \A t \in Threads : hand[t] = Nothing
    BY DEF Init
  <1>3. Clients \subseteq Threads /\ Workers \subseteq Threads
    BY DEF Threads
  <1> QED
    BY <1>1, <1>2, <1>3 DEF Init, Kept, Ordered, Before

\* The client's change is behind everything of its own that is anywhere.
LEMMA ClientIsLast ==
    ASSUME TypeOK, Kept, NEW c \in Clients, hand[c] # Nothing
    PROVE  /\ Before(ToSet(archive), {hand[c]})
           /\ Before(ToSet(queue), {hand[c]})
           /\ \A w \in Workers : hand[w] # Nothing => Before({hand[w]}, {hand[c]})
  <1>s. Clients \subseteq Threads /\ Workers \subseteq Threads /\ Clients \cap Workers = {}
    BY TransAssumption DEF Threads
  <1>1. hand[c] = <<c, sets[c]>> /\ hand[c] \in Transactions /\ sets[c] \in Int
    BY <1>s DEF Kept, TypeOK
  <1>2. hand[c][1] = c /\ hand[c][2] = sets[c]
    BY <1>1
  <1>3. ASSUME NEW x \in Transactions, x # hand[c], x[1] = c, x[2] <= sets[x[1]]
        PROVE  x[2] < sets[c]
    <2>1. x = <<c, x[2]>> /\ x[2] \in Int
      BY <1>3, TransactionParts
    <2>2. x[2] # sets[c]
      BY <1>1, <1>3, <2>1
    <2> QED
      BY <1>1, <1>3, <2>1, <2>2
  <1>4. /\ ToSet(archive) \subseteq Transactions
        /\ ToSet(queue) \subseteq Transactions
    BY DEF TypeOK, ToSet
  <1>5. Before(ToSet(archive), {hand[c]})
    BY <1>s, <1>2, <1>3, <1>4 DEF Before, Kept
  <1>6. Before(ToSet(queue), {hand[c]})
    BY <1>s, <1>2, <1>3, <1>4 DEF Before, Kept
  <1>7. ASSUME NEW w \in Workers, hand[w] # Nothing
        PROVE  Before({hand[w]}, {hand[c]})
    <2>1. hand[w] \in Transactions /\ hand[w] # hand[c] /\ hand[w][2] <= sets[hand[w][1]]
      BY <1>s, <1>7 DEF Kept, TypeOK
    <2> QED
      BY <1>2, <1>3, <2>1 DEF Before
  <1> QED
    BY <1>5, <1>6, <1>7

-----------------------------------------------------------------------------
\* The steps that move transactions

\* Nothing moves.
LEMMA StayKept ==
    ASSUME Kept, Ordered, UNCHANGED <<archive, queue, hand, acked, sets, threadcnt>>,
           lockPool => lockPool'
    PROVE  Kept' /\ Ordered'
  BY DEF Kept, Ordered

\* A client makes a change, of which it holds the transaction if one is wanted.
LEMMA SetKept ==
    ASSUME TypeOK, Kept, Ordered, NEW c \in Clients, Set(c)
    PROVE  Kept' /\ Ordered'
  <1>s. Clients \subseteq Threads /\ Workers \subseteq Threads /\ Clients \cap Workers = {}
    BY TransAssumption DEF Threads
  <1>1. sets' = [sets EXCEPT ![c] = sets[c] + 1] /\ sets \in [Clients -> Int]
    BY DEF Set, TypeOK
  <1>2. UNCHANGED <<archive, queue, acked, threadcnt, lockPool>>
    BY DEF Set, file, mgr
  <1>3. /\ ToSet(archive) \subseteq Transactions
        /\ ToSet(queue) \subseteq Transactions
        /\ acked \subseteq Transactions
        /\ hand \in [Threads -> Transactions \cup {Nothing}]
    BY DEF TypeOK, ToSet
  <1>4. \A x \in Transactions : x[2] <= sets[x[1]] => x[2] <= sets'[x[1]]
    BY <1>1, TransactionParts, TransAssumption
  <1>5. CASE UNCHANGED hand
    <2>1. hand[c] = Nothing
      BY <1>s DEF Set, TypeOK, Holding
    <2>2. \A d \in Clients : hand[d] # Nothing => sets'[d] = sets[d]
      BY <1>1, <2>1
    <2> QED
      BY <1>2, <1>3, <1>4, <1>5, <2>2, <1>s DEF Kept, Ordered
  <1>6. CASE hand' = [hand EXCEPT ![c] = <<c, sets'[c]>>]
    <2> DEFINE new == <<c, sets[c] + 1>>
    <2>1. sets[c] + 1 \in 1 .. MaxSets /\ sets'[c] = sets[c] + 1
      BY <1>1, TransAssumption DEF Set, TypeOK
    <2>2. new \in Transactions /\ new[1] = c /\ new[2] = sets[c] + 1 /\ new # Nothing
      BY <2>1, TransactionParts
    <2>3. hand' = [hand EXCEPT ![c] = new]
      BY <1>6, <2>1
    <2>4. \A x \in Transactions : x[2] <= sets[x[1]] => x # new
      BY <2>2, <1>1
    <2>4a. new[2] <= sets'[new[1]]
      BY <2>1, <2>2
    <2> HIDE DEF new
    <2>5. hand'[c] = new /\ \A t \in Threads \ {c} : hand'[t] = hand[t]
      BY <1>3, <1>s, <2>3
    <2>6. \A t \in Threads \ {c} : hand'[t] # Nothing =>
             hand'[t] # new /\ hand'[t] \notin ToSet(archive) /\ hand'[t] \notin ToSet(queue)
      BY <1>3, <2>4, <2>5 DEF Kept
    <2>7. new \notin acked /\ new \notin ToSet(archive) /\ new \notin ToSet(queue)
      BY <1>3, <2>4 DEF Kept
    <2>8. \A t, u \in Threads : hand'[t] = hand'[u] /\ hand'[t] # Nothing => t = u
      BY <2>5, <2>6 DEF Kept
    <2>9. hand[c] = Nothing
      BY <1>s DEF Set, TypeOK, Holding
    <2>10. \A x \in acked : \/ x \in ToSet(archive) \/ x \in ToSet(queue)
                            \/ \E t \in Threads : hand'[t] = x
      <3>1. ASSUME NEW x \in acked, NEW t \in Threads, hand[t] = x
            PROVE  hand'[t] = x
        BY <3>1, <1>3, <2>5, <2>9, TransactionParts
      <3> QED
        BY <3>1 DEF Kept
    <2>11. \A d \in Clients : hand'[d] # Nothing =>
              hand'[d] = <<d, sets'[d]>> /\ hand'[d] \notin acked
      <3>1. ASSUME NEW d \in Clients, d # c, hand'[d] # Nothing
            PROVE  hand'[d] = <<d, sets'[d]>> /\ hand'[d] \notin acked
        BY <1>1, <1>s, <2>5, <3>1 DEF Kept
      <3>2. new = <<c, sets'[c]>>
        BY <2>1 DEF new
      <3> QED
        BY <2>5, <2>7, <3>1, <3>2
    <2>12. \A t \in Threads : hand'[t] # Nothing => hand'[t][2] <= sets'[hand'[t][1]]
      <3>1. ASSUME NEW t \in Threads, t # c, hand'[t] # Nothing
            PROVE  hand'[t][2] <= sets'[hand'[t][1]]
        <4>1. hand'[t] = hand[t] /\ hand[t] \in Transactions /\ hand[t][2] <= sets[hand[t][1]]
          BY <1>3, <2>5, <3>1 DEF Kept
        <4> QED
          BY <1>4, <4>1
      <3> QED
        BY <2>4a, <2>5, <3>1
    <2>13. \A w \in Workers : hand'[w] = hand[w]
      BY <1>s, <2>5
    <2>14. Kept'
      <3>1. /\ \A x \in acked : x[2] <= sets'[x[1]]
            /\ \A x \in ToSet(archive) : x[2] <= sets'[x[1]]
            /\ \A x \in ToSet(queue) : x[2] <= sets'[x[1]]
        BY <1>3, <1>4 DEF Kept
      <3> QED
        BY <1>2, <2>5, <2>6, <2>7, <2>8, <2>10, <2>11, <2>12, <3>1 DEF Kept
    <2> QED
      BY <1>2, <2>13, <2>14 DEF Ordered
  <1> QED
    BY <1>5, <1>6 DEF Set

\* A thread gives away the transaction it holds: into the archive, into the
\* queue, or, if it was a client's, nowhere.
LEMMA GiveKept ==
    ASSUME TypeOK, Kept, NEW t \in Threads, hand[t] # Nothing,
           hand' = [hand EXCEPT ![t] = Nothing],
           UNCHANGED sets,
           IsInjective(archive'), IsInjective(queue'),
           \/ /\ ToSet(archive') = ToSet(archive) \cup {hand[t]}
              /\ ToSet(queue') = ToSet(queue)
              /\ acked' = acked \cup {hand[t]}
           \/ /\ ToSet(archive') = ToSet(archive)
              /\ ToSet(queue') = ToSet(queue) \cup {hand[t]}
              /\ acked' \in {acked, acked \cup {hand[t]}}
           \/ /\ ToSet(archive') = ToSet(archive)
              /\ ToSet(queue') = ToSet(queue)
              /\ acked' = acked
              /\ hand[t] \notin acked
    PROVE  Kept'
  <1> DEFINE x == hand[t]
  <1>1. \A u \in Threads : hand'[u] = IF u = t THEN Nothing ELSE hand[u]
    BY DEF TypeOK
  <1>2. Clients \subseteq Threads
    BY DEF Threads
  <1>3. \A u \in Threads : hand'[u] # Nothing => hand'[u] = hand[u] /\ hand'[u] # x /\ u # t
    BY <1>1 DEF Kept
  <1>4. x \notin ToSet(archive) /\ x \notin ToSet(queue) /\ x[2] <= sets[x[1]]
    BY DEF Kept
  <1>5. /\ \A y \in ToSet(archive') : y \in ToSet(archive) \/ y = x
        /\ \A y \in ToSet(queue') : y \in ToSet(queue) \/ y = x
        /\ \A y \in acked' : y \in acked \/ y = x
        /\ x \notin ToSet(archive') \/ x \notin ToSet(queue')
    BY <1>4
  <1>6. ASSUME NEW y \in acked'
        PROVE  y \in ToSet(archive') \/ y \in ToSet(queue') \/ \E u \in Threads : hand'[u] = y
    <2>1. CASE y = x
      BY <1>6, <2>1
    <2>2. CASE y # x
      <3>1. y \in acked
        BY <1>5, <1>6, <2>2
      <3>2. y \in ToSet(archive) \/ y \in ToSet(queue) \/ \E u \in Threads : hand[u] = y
        BY <3>1 DEF Kept
      <3>3. ASSUME NEW u \in Threads, hand[u] = y
            PROVE  hand'[u] = y
        BY <1>1, <2>2, <3>3
      <3>4. ToSet(archive) \subseteq ToSet(archive') /\ ToSet(queue) \subseteq ToSet(queue')
        OBVIOUS
      <3> QED
        BY <3>2, <3>3, <3>4
    <2> QED
      BY <2>1, <2>2
  <1>7. \A y \in ToSet(archive') : y \notin ToSet(queue')
    BY <1>4, <1>5 DEF Kept
  <1>8. \A u \in Threads : hand'[u] # Nothing =>
          hand'[u] \notin ToSet(archive') /\ hand'[u] \notin ToSet(queue')
    BY <1>3, <1>5 DEF Kept
  <1>9. \A u, v \in Threads : hand'[u] = hand'[v] /\ hand'[u] # Nothing => u = v
    BY <1>3 DEF Kept
  <1>10. \A c \in Clients : hand'[c] # Nothing =>
           hand'[c] = <<c, sets'[c]>> /\ hand'[c] \notin acked'
    BY <1>2, <1>3, <1>5 DEF Kept
  <1>11. /\ \A y \in acked' : y[2] <= sets'[y[1]]
         /\ \A y \in ToSet(archive') : y[2] <= sets'[y[1]]
         /\ \A y \in ToSet(queue') : y[2] <= sets'[y[1]]
         /\ \A u \in Threads : hand'[u] # Nothing => hand'[u][2] <= sets'[hand'[u][1]]
    BY <1>3, <1>4, <1>5 DEF Kept
  <1> QED
    BY <1>6, <1>7, <1>8, <1>9, <1>10, <1>11 DEF Kept

LEMMA PushKept ==
    ASSUME TypeOK, PoolInv, Kept, Ordered, ~mixed, NEW c \in Clients, Push(c)
    PROVE  Kept' /\ Ordered'
  <1>s. c \in Threads /\ Workers \subseteq Threads /\ c \notin Workers
    BY TransAssumption DEF Threads
  <1>1. hand[c] # Nothing /\ hand[c] \in Transactions
    BY <1>s DEF Push, TypeOK, Holding
  <1>2. /\ queue' = Append(queue, hand[c])
        /\ hand' = [hand EXCEPT ![c] = Nothing]
        /\ acked' = acked \cup {hand[c]}
        /\ UNCHANGED <<archive, sets, threadcnt, lockPool>>
    BY DEF Push, Remains, file, mgr
  <1>3. /\ ToSet(queue') = ToSet(queue) \cup {hand[c]}
        /\ IsInjective(queue') <=> IsInjective(queue) /\ hand[c] \notin ToSet(queue)
        /\ InOrder(queue') <=> InOrder(queue) /\ Before(ToSet(queue), {hand[c]})
    <2>1. /\ Append(queue, hand[c]) \in Seq(Transactions)
          /\ ToSet(Append(queue, hand[c])) = ToSet(queue) \cup {hand[c]}
          /\ IsInjective(Append(queue, hand[c])) <=> IsInjective(queue) /\ hand[c] \notin ToSet(queue)
          /\ InOrder(Append(queue, hand[c])) <=> InOrder(queue) /\ Before(ToSet(queue), {hand[c]})
      <3>1. queue \in Seq(Transactions)
        BY DEF TypeOK
      <3> QED
        BY <1>1, <3>1, AppendElements
    <2> QED
      BY <1>2, <2>1
  <1>5. IsInjective(queue')
    BY <1>1, <1>3, <1>s DEF Kept
  <1>6. Kept'
    BY <1>1, <1>2, <1>3, <1>5, <1>s, GiveKept DEF Kept
  <1>7. ASSUME threadcnt <= 1
        PROVE  /\ InOrder(archive')
               /\ InOrder(queue')
               /\ ~lockPool' => Before(ToSet(archive'), ToSet(queue'))
               /\ \A w \in Workers : hand'[w] # Nothing =>
                    Before(ToSet(archive'), {hand'[w]}) /\ Before({hand'[w]}, ToSet(queue'))
    <2>1. InOrder(queue')
      BY <1>1, <1>3, <1>7, ClientIsLast DEF Ordered
    <2>2. ~lockPool => Before(ToSet(archive'), ToSet(queue'))
      BY <1>1, <1>2, <1>3, <1>7, ClientIsLast DEF Ordered, Before
    <2>3. ASSUME NEW w \in Workers, hand'[w] # Nothing
          PROVE  Before(ToSet(archive'), {hand'[w]}) /\ Before({hand'[w]}, ToSet(queue'))
      <3>1. hand'[w] = hand[w]
        BY <1>2, <1>s DEF TypeOK
      <3>2. Before(ToSet(archive), {hand[w]}) /\ Before({hand[w]}, ToSet(queue))
        BY <1>7, <2>3, <3>1 DEF Ordered
      <3>3. Before({hand[w]}, {hand[c]})
        BY <1>1, <2>3, <3>1, ClientIsLast
      <3> QED
        BY <1>2, <1>3, <3>1, <3>2, <3>3 DEF Before
    <2> QED
      BY <1>2, <1>7, <2>1, <2>2, <2>3 DEF Ordered
  <1> QED
    BY <1>2, <1>6, <1>7 DEF Ordered

\* Put of a client fails, which then forgets its transaction.
LEMMA DropKept ==
    ASSUME TypeOK, Kept, Ordered, NEW c \in Clients, hand[c] # Nothing,
           hand' = [hand EXCEPT ![c] = Nothing],
           UNCHANGED <<archive, queue, acked, sets, threadcnt, lockPool>>
    PROVE  Kept' /\ Ordered'
  <1>s. c \in Threads /\ Workers \subseteq Threads /\ c \notin Workers
    BY TransAssumption DEF Threads
  <1>1. Kept'
    BY <1>s, GiveKept DEF Kept
  <1>2. \A w \in Workers : hand'[w] = hand[w]
    BY <1>s DEF TypeOK
  <1> QED
    BY <1>1, <1>2 DEF Ordered

LEMMA WriteKept ==
    ASSUME TypeOK, PoolInv, Kept, Ordered, NEW t \in Threads, WriteTrans(t)
    PROVE  Kept' /\ Ordered'
  <1>s. Clients \subseteq Threads /\ Workers \subseteq Threads /\ Clients \cap Workers = {}
    BY TransAssumption DEF Threads
  <1>1. hand[t] # Nothing /\ hand[t] \in Transactions
    BY DEF WriteTrans, TypeOK, Holding
  <1>2. /\ archive' = Append(archive, hand[t])
        /\ hand' = [hand EXCEPT ![t] = Nothing]
        /\ acked' = acked \cup {hand[t]}
        /\ UNCHANGED <<queue, sets, threadcnt, lockPool>>
    BY DEF WriteTrans, mgr
  <1>3. /\ ToSet(archive') = ToSet(archive) \cup {hand[t]}
        /\ IsInjective(archive') <=> IsInjective(archive) /\ hand[t] \notin ToSet(archive)
        /\ InOrder(archive') <=> InOrder(archive) /\ Before(ToSet(archive), {hand[t]})
    <2>1. /\ Append(archive, hand[t]) \in Seq(Transactions)
          /\ ToSet(Append(archive, hand[t])) = ToSet(archive) \cup {hand[t]}
          /\ IsInjective(Append(archive, hand[t])) <=> IsInjective(archive) /\ hand[t] \notin ToSet(archive)
          /\ InOrder(Append(archive, hand[t])) <=> InOrder(archive) /\ Before(ToSet(archive), {hand[t]})
      <3>1. archive \in Seq(Transactions)
        BY DEF TypeOK
      <3> QED
        BY <1>1, <3>1, AppendElements
    <2> QED
      BY <1>2, <2>1
  <1>5. IsInjective(archive')
    BY <1>1, <1>3 DEF Kept
  <1>6. Kept'
    BY <1>1, <1>2, <1>3, <1>5, GiveKept DEF Kept
  <1>7. ASSUME threadcnt <= 1
        PROVE  /\ Before(ToSet(archive), {hand[t]})
               /\ ~lockPool => Before({hand[t]}, ToSet(queue))
               /\ \A w \in Workers : hand'[w] = Nothing
    <2>1. CASE t \in Workers
      <3>1. ASSUME NEW w \in Workers, hand[w] # Nothing
            PROVE  w = t
        <4>1. pc[w] # "off" /\ pc[t] # "off"
          BY <1>s, <3>1 DEF WriteTrans, TypeOK, Holding
        <4>2. w \in pool /\ t \in pool
          BY <2>1, <4>1 DEF PoolInv
        <4> QED
          BY <1>7, <4>2 DEF PoolInv
      <3>2. \A w \in Workers : hand'[w] = Nothing
        BY <1>2, <1>s, <3>1 DEF TypeOK
      <3> QED
        BY <1>1, <1>7, <2>1, <3>2 DEF Ordered
    <2>2. CASE t \notin Workers
      <3>1. t \in Clients
        BY <2>2 DEF Threads
      <3>2. pool = {}
        BY <3>1 DEF WriteTrans, PoolInv
      <3>3. \A w \in Workers : hand[w] = Nothing
        BY <1>s, <3>2 DEF PoolInv, TypeOK, Holding
      <3>4. enabled /\ mpc = "idle"
        BY <3>1 DEF WriteTrans, PoolInv
      <3>5. threadcnt = 0 \/ lockPool
        BY <3>2, <3>4 DEF PoolInv
      <3>6. ~lockPool => ToSet(queue) = {}
        BY <3>5 DEF PoolInv, ToSet
      <3>7. ~lockPool => Before({hand[t]}, ToSet(queue))
        BY <3>6 DEF Before
      <3>8. \A w \in Workers : hand'[w] = Nothing
        BY <1>2, <1>s, <3>3 DEF TypeOK
      <3> QED
        BY <1>1, <3>1, <3>7, <3>8, ClientIsLast
    <2> QED
      BY <2>1, <2>2
  <1>8. ASSUME threadcnt <= 1
        PROVE  InOrder(archive')
    BY <1>3, <1>7, <1>8 DEF Ordered
  <1>9. ASSUME threadcnt <= 1, ~lockPool
        PROVE  Before(ToSet(archive'), ToSet(queue'))
    BY <1>2, <1>3, <1>7, <1>9 DEF Ordered, Before
  <1> QED
    BY <1>2, <1>6, <1>7, <1>8, <1>9 DEF Ordered

LEMMA RecoverKept ==
    ASSUME TypeOK, PoolInv, Kept, Ordered, ~mixed, NEW w \in Workers, Recover(w)
    PROVE  Kept' /\ Ordered'
  <1>s. w \in Threads /\ Workers \subseteq Threads
    BY DEF Threads
  <1>1. hand[w] # Nothing /\ hand[w] \in Transactions
    BY <1>s DEF Recover, TypeOK, Holding
  <1>2. /\ queue' = <<hand[w]>> \o queue
        /\ hand' = [hand EXCEPT ![w] = Nothing]
        /\ UNCHANGED <<archive, acked, sets, threadcnt, lockPool>>
    BY DEF Recover, Remains, file, mgr
  <1>3. /\ ToSet(queue') = ToSet(queue) \cup {hand[w]}
        /\ IsInjective(queue') <=> IsInjective(queue) /\ hand[w] \notin ToSet(queue)
        /\ InOrder(queue') <=> InOrder(queue) /\ Before({hand[w]}, ToSet(queue))
    <2>1. /\ <<hand[w]>> \o queue \in Seq(Transactions)
          /\ ToSet(<<hand[w]>> \o queue) = ToSet(queue) \cup {hand[w]}
          /\ IsInjective(<<hand[w]>> \o queue) <=> IsInjective(queue) /\ hand[w] \notin ToSet(queue)
          /\ InOrder(<<hand[w]>> \o queue) <=> InOrder(queue) /\ Before({hand[w]}, ToSet(queue))
      <3>1. queue \in Seq(Transactions)
        BY DEF TypeOK
      <3> QED
        BY <1>1, <3>1, PrependElements
    <2> QED
      BY <1>2, <2>1
  <1>4. IsInjective(queue')
    BY <1>1, <1>3, <1>s DEF Kept
  <1>5. Kept'
    BY <1>1, <1>2, <1>3, <1>4, <1>s, GiveKept DEF Kept
  <1>6. ASSUME threadcnt <= 1
        PROVE  Before(ToSet(archive), {hand[w]}) /\ Before({hand[w]}, ToSet(queue))
    BY <1>1, <1>6 DEF Ordered
  <1>7. ASSUME threadcnt <= 1
        PROVE  InOrder(queue')
    BY <1>3, <1>6, <1>7 DEF Ordered
  <1>8. ASSUME threadcnt <= 1, ~lockPool
        PROVE  Before(ToSet(archive'), ToSet(queue'))
    BY <1>2, <1>3, <1>6, <1>8 DEF Ordered, Before
  <1>9. ASSUME threadcnt <= 1, NEW v \in Workers
        PROVE  hand'[v] = Nothing
    <2>1. hand[v] # Nothing => v = w
      <3>1. pc[w] # "off" /\ (hand[v] # Nothing => pc[v] # "off")
        BY <1>s DEF Recover, TypeOK, Holding
      <3> QED
        BY <1>9, <3>1 DEF PoolInv
    <2> QED
      BY <1>2, <1>s, <2>1 DEF TypeOK
  <1> QED
    BY <1>2, <1>5, <1>7, <1>8, <1>9 DEF Ordered

LEMMA PopKept ==
    ASSUME TypeOK, PoolInv, Kept, Ordered, ~mixed, NEW w \in Workers, Pop(w), queue # <<>>
    PROVE  Kept' /\ Ordered'
  <1> DEFINE x == Head(queue)
  <1>s. w \in Threads /\ Workers \subseteq Threads /\ Clients \subseteq Threads /\ w \notin Clients
    BY TransAssumption DEF Threads
  <1>1. /\ queue' = Tail(queue)
        /\ hand' = [hand EXCEPT ![w] = x]
        /\ UNCHANGED <<archive, acked, sets, threadcnt, lockPool>>
    BY DEF Pop, Remains, file, mgr
  <1>2. x \in Transactions /\ Tail(queue) \in Seq(Transactions) /\ queue = <<x>> \o Tail(queue)
    BY HeadAndTail DEF TypeOK
  <1>3. /\ ToSet(queue) = {x} \cup ToSet(queue')
        /\ x \notin ToSet(queue')
        /\ IsInjective(queue')
        /\ InOrder(queue) => InOrder(queue') /\ Before({x}, ToSet(queue'))
    <2> DEFINE all == <<x>> \o Tail(queue)
    <2>1. /\ all \in Seq(Transactions)
          /\ ToSet(all) = ToSet(Tail(queue)) \cup {x}
          /\ IsInjective(all) <=> IsInjective(Tail(queue)) /\ x \notin ToSet(Tail(queue))
          /\ InOrder(all) <=> InOrder(Tail(queue)) /\ Before({x}, ToSet(Tail(queue)))
      BY <1>2, PrependElements
    <2>2. all = queue
      BY <1>2
    <2> HIDE DEF all
    <2> QED
      BY <1>1, <2>1, <2>2 DEF Kept
  <1>4. hand[w] = Nothing /\ x # Nothing
    BY <1>2, <1>s, TransactionParts DEF Pop, TypeOK, Holding
  <1> HIDE DEF x
  <1>5. \A u \in Threads : hand'[u] = IF u = w THEN x ELSE hand[u]
    BY <1>1 DEF TypeOK
  <1>6. \A u \in Threads \ {w} : hand'[u] = hand[u] /\ hand'[u] # x
    BY <1>3, <1>4, <1>5 DEF Kept
  <1>7. Kept'
    <2>1. ASSUME NEW y \in acked
          PROVE  y \in ToSet(archive) \/ y \in ToSet(queue') \/ \E u \in Threads : hand'[u] = y
      <3>1. CASE y = x
        BY <1>5, <1>s, <3>1
      <3>2. CASE y # x
        <4>1. y \in ToSet(archive) \/ y \in ToSet(queue') \/ \E u \in Threads : hand[u] = y
          BY <1>3, <3>2 DEF Kept
        <4>2. y # Nothing
          BY TransactionParts DEF TypeOK
        <4>3. \A u \in Threads : hand[u] = y => hand'[u] = y
          BY <1>4, <1>5, <4>2
        <4> QED
          BY <4>1, <4>3
      <3> QED
        BY <3>1, <3>2
    <2>2. \A u, v \in Threads : hand'[u] = hand'[v] /\ hand'[u] # Nothing => u = v
      BY <1>5, <1>6 DEF Kept
    <2>3. \A u \in Threads : hand'[u] # Nothing =>
             hand'[u] \notin ToSet(archive) /\ hand'[u] \notin ToSet(queue')
      BY <1>3, <1>5 DEF Kept
    <2>4. x[2] <= sets[x[1]]
      BY <1>3 DEF Kept
    <2>5. \A u \in Threads : hand'[u] # Nothing => hand'[u][2] <= sets[hand'[u][1]]
      BY <1>5, <2>4 DEF Kept
    <2>6. \A c \in Clients : hand'[c] = hand[c]
      BY <1>5, <1>s
    <2> QED
      BY <1>1, <1>3, <2>1, <2>2, <2>3, <2>5, <2>6 DEF Kept
  <1>8. ASSUME threadcnt <= 1
        PROVE  /\ Before(ToSet(archive'), {x}) /\ Before({x}, ToSet(queue'))
               /\ Before(ToSet(archive'), ToSet(queue'))
               /\ InOrder(queue')
               /\ \A v \in Workers : hand'[v] # Nothing => hand'[v] = x
    <2>1. w \in pool
      BY DEF Pop, PoolInv
    <2>2. ~lockPool
      BY <2>1 DEF PoolInv
    <2>3. Before(ToSet(archive), ToSet(queue)) /\ InOrder(queue)
      BY <1>8, <2>2 DEF Ordered
    <2>4. \A v \in Workers : hand'[v] # Nothing => v = w
      <3>1. \A v \in Workers : v # w => pc[v] = "off"
        BY <1>8, <2>1 DEF PoolInv
      <3> QED
        BY <1>5, <1>s, <3>1 DEF TypeOK, Holding
    <2> QED
      BY <1>1, <1>3, <1>5, <1>s, <2>3, <2>4 DEF Before
  <1> QED
    BY <1>1, <1>7, <1>8 DEF Ordered

-----------------------------------------------------------------------------
\* All steps

\* Once mixed, a queue stays so.
LEMMA MixedStays == [Next]_vars => (mixed => mixed')
  <1> SUFFICES ASSUME [Next]_vars, mixed PROVE mixed'
    OBVIOUS
  <1>1. ASSUME NEW c \in Clients, Set(c) \/ ClientStep(c)
        PROVE  mixed'
    <2>1. CASE BeginPush(c)
      BY <2>1, Zenon DEF BeginPush, Overlaps
    <2>2. CASE ThreadStep(c)
      BY <2>2, Zenon DEF ThreadStep, GetArchiveFd, ReopenFails, NoArchiveFd, WriteTrans, WriteFails
    <2> QED
      BY <1>1, <2>1, <2>2, Zenon DEF ClientStep, Set, NotWanted, Push, PushFails, Signal, Do
  <1>2. ASSUME NEW w \in Workers, WorkerStep(w)
        PROVE  mixed'
    <2>1. CASE BeginPop(w) \/ BeginRecover(w)
      BY <2>1, Zenon DEF BeginPop, BeginRecover, Overlaps
    <2>2. CASE ThreadStep(w)
      BY <2>2, Zenon DEF ThreadStep, GetArchiveFd, ReopenFails, NoArchiveFd, WriteTrans, WriteFails
    <2> QED
      BY <1>2, <2>1, <2>2, Zenon DEF WorkerStep, Wait, WaitTimeout, CheckExit, Pop, Recover
  <1>3. CASE Start \/ Stop \/ Detach \/ MgrStep \/ MoveFile
    BY <1>3, Zenon DEF Start, Stop, Detach, Call, MgrStep, WaitFinish, EraseFile, SetExit, Broadcast,
       Join, OpenFile, OpenFails, CreateThreads, CreateFails, MoveFile
  <1>4. CASE UNCHANGED vars
    BY <1>4, Zenon DEF vars
  <1> QED
    BY <1>1, <1>2, <1>3, <1>4, Zenon DEF Next

LEMMA NextKept ==
    TypeOK /\ PoolInv /\ (~mixed => Kept /\ Ordered) /\ [Next]_vars
        => (~mixed => Kept /\ Ordered)'
  <1> SUFFICES ASSUME TypeOK, PoolInv, ~mixed => Kept /\ Ordered, [Next]_vars, ~mixed'
               PROVE  Kept' /\ Ordered'
    OBVIOUS
  <1>m. ~mixed /\ Kept /\ Ordered
    BY MixedStays
  <1>s. Clients \subseteq Threads /\ Workers \subseteq Threads
    BY DEF Threads
  <1> USE <1>m
  <1>1. ASSUME NEW c \in Clients, Set(c)
        PROVE  Kept' /\ Ordered'
    BY <1>1, SetKept
  <1>2. ASSUME NEW c \in Clients, Push(c)
        PROVE  Kept' /\ Ordered'
    BY <1>2, PushKept
  <1>3. ASSUME NEW c \in Clients, BeginPush(c) \/ Signal(c) \/ Do(c)
        PROVE  Kept' /\ Ordered'
    BY <1>3, StayKept DEF BeginPush, Signal, Do, file, mgr
  <1>15. ASSUME NEW c \in Clients, NotWanted(c) \/ PushFails(c)
         PROVE  Kept' /\ Ordered'
    <2>1. /\ UNCHANGED <<archive, queue, acked, sets, threadcnt, lockPool>>
          /\ hand' = [hand EXCEPT ![c] = Nothing]
      BY <1>15 DEF NotWanted, PushFails, file, mgr
    <2>2. hand[c] # Nothing
      BY <1>15, <1>s DEF NotWanted, PushFails, TypeOK, Holding
    <2> QED
      BY <2>1, <2>2, DropKept
  <1>4. ASSUME NEW t \in Threads, GetArchiveFd(t)
        PROVE  Kept' /\ Ordered'
    BY <1>4, StayKept DEF GetArchiveFd, mgr
  <1>5. ASSUME NEW t \in Threads, ReopenFails(t) \/ NoArchiveFd(t) \/ WriteFails(t)
        PROVE  Kept' /\ Ordered'
    <2>1. /\ UNCHANGED <<archive, queue, acked, sets, threadcnt, lockPool>>
          /\ HandlerFails(t)
          /\ hand[t] # Nothing
      BY <1>5 DEF ReopenFails, NoArchiveFd, WriteFails, TypeOK, Holding, file, mgr
    <2>2. CASE t \in Workers
      BY <2>1, <2>2, StayKept DEF HandlerFails
    <2>3. CASE t \notin Workers
      <3>1. t \in Clients
        BY <2>3 DEF Threads
      <3> QED
        BY <2>1, <2>3, <3>1, DropKept DEF HandlerFails
    <2> QED
      BY <2>2, <2>3
  <1>6. ASSUME NEW t \in Threads, WriteTrans(t)
        PROVE  Kept' /\ Ordered'
    BY <1>6, WriteKept
  <1>7. ASSUME NEW w \in Workers,
               \/ Wait(w) \/ WaitTimeout(w) \/ CheckExit(w)
               \/ BeginPop(w) \/ BeginRecover(w)
        PROVE  Kept' /\ Ordered'
    BY <1>7, StayKept DEF Wait, WaitTimeout, CheckExit, BeginPop, BeginRecover, file, mgr
  <1>8. ASSUME NEW w \in Workers, Pop(w)
        PROVE  Kept' /\ Ordered'
    <2>1. CASE queue = <<>>
      BY <1>8, <2>1, StayKept DEF Pop, file, mgr
    <2>2. CASE queue # <<>>
      BY <1>8, <2>2, PopKept
    <2> QED
      BY <2>1, <2>2
  <1>9. ASSUME NEW w \in Workers, Recover(w)
        PROVE  Kept' /\ Ordered'
    BY <1>9, RecoverKept
  <1>10. ASSUME Start \/ Stop \/ Detach
         PROVE  Kept' /\ Ordered'
    BY <1>10, StayKept DEF Start, Stop, Detach, Call, file
  <1>11. ASSUME WaitFinish \/ EraseFile \/ SetExit \/ Broadcast \/ OpenFile \/ OpenFails
         PROVE  Kept' /\ Ordered'
    BY <1>11, StayKept
    DEF WaitFinish, EraseFile, SetExit, Broadcast, OpenFile, OpenFails, MgrGoto, file
  <1>12. ASSUME Join \/ CreateFails \/ MoveFile
         PROVE  Kept' /\ Ordered'
    BY <1>12, StayKept DEF Join, CreateFails, MoveFile, file, mgr
  <1>13. ASSUME NEW ws \in SUBSET Workers, CreateThreads(ws)
         PROVE  Kept' /\ Ordered'
    BY <1>13, StayKept DEF CreateThreads, file
  <1>14. CASE UNCHANGED vars
    BY <1>14, StayKept DEF vars, file, mgr
  <1> QED
    BY <1>1, <1>2, <1>3, <1>4, <1>5, <1>6, <1>7, <1>8, <1>9, <1>10, <1>11, <1>12, <1>13, <1>14, <1>15, <1>s
    DEF Next, ClientStep, WorkerStep, ThreadStep, MgrStep

\* While no push to the queue overlaps a Pop, nor a worker's push any call on it, a
\* transaction that Put has queued or archived is in the archive, in the queue or
\* with a worker, once; with at most one worker the archive has each client's in
\* order; whatever fails and whenever the manager starts and stops the pool.
THEOREM ArchiveIsExact == Spec => []ArchiveExact
  <1>1. Init => TypeOK /\ PoolInv /\ (~mixed => Kept /\ Ordered)
    BY InitType, InitPool, InitKept
  <1>2. TypeOK /\ PoolInv /\ (~mixed => Kept /\ Ordered) /\ [Next]_vars => (TypeOK /\ PoolInv /\ (~mixed => Kept /\ Ordered))'
    BY NextType, NextPool, NextKept
  <1>3. TypeOK /\ PoolInv /\ (~mixed => Kept /\ Ordered) => ArchiveExact
    BY KeptAndOrdered
  <1> QED
    BY <1>1, <1>2, <1>3, PTL DEF Spec
=============================================================================
