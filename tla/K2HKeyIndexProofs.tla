-------------------------- MODULE K2HKeyIndexProofs --------------------------
(***************************************************************************)
(* Theorems about K2HKeyIndex, for any number of threads, keys, bits and    *)
(* calls: its invariants, and that it implements K2HStore.                  *)
(***************************************************************************)
EXTENDS K2HKeyIndexStore, SequenceTheorems, TLAPS

-----------------------------------------------------------------------------
\* Facts about masks

\* Masking a hash gives the name of a KINDEX.
LEMMA SlotIsKIndex ==
    ASSUME NEW k \in Keys, NEW b
    PROVE  Slot(k, b) \in KIndexes
  BY KeyIndexAssumption DEF Slot, KIndexes

\* Reversing a chain keeps the type of its elements.
LEMMA ReverseType ==
    ASSUME NEW s \in Seq(Vals)
    PROVE  /\ Reverse(s) \in Seq(Vals)
           /\ Len(Reverse(s)) = Len(s)
  <1>1. Len(s) \in Nat /\ s \in [1 .. Len(s) -> Vals]
    OBVIOUS
  <1>2. \A i \in 1 .. Len(s) : s[(Len(s) - i) + 1] \in Vals
    BY <1>1
  <1>3. Reverse(s) \in [1 .. Len(s) -> Vals]
    BY <1>2 DEF Reverse
  <1> QED
    BY <1>1, <1>3

-----------------------------------------------------------------------------
\* Types

LEMMA InitType == Init => TypeOK
  <1> SUFFICES ASSUME Init PROVE TypeOK
    OBVIOUS
  <1> USE KeyIndexAssumption
  <1>1. bits \in InitBits .. MaxBits
    BY DEF Init
  <1>2. assigned \subseteq KIndexes
    BY DEF Init, KIndexes
  <1>3. chain \in [KIndexes -> [Keys -> Seq(Vals)]]
    BY DEF Init
  <1>4. /\ maskR \subseteq Threads
        /\ maskW \in Threads \cup {NoThread}
        /\ ckiW \in [KIndexes -> [0 .. CollMask -> Threads \cup {NoThread}]]
    BY DEF Init
  <1>5. /\ pc \in [Threads -> Steps]
        /\ job \in [Threads -> {"get", "del", "set", "ins"}]
        /\ key \in [Threads -> Keys]
        /\ val \in [Threads -> Vals]
    BY DEF Init, Steps
  <1>6. /\ kidx \in [Threads -> KIndexes]
        /\ lvl \in [Threads -> 1 .. MaxBits + 1]
        /\ pos \in [Threads -> 0 .. CollMask + 1]
        /\ res \in [Threads -> Vals \cup {Missing}]
    BY DEF Init, KIndexes
  <1>7. calls \in 0 .. MaxCalls
    BY DEF Init
  <1>8. stale \in BOOLEAN
    BY Zenon DEF Init
  <1>9. \A t \in Threads : pc[t] = "move" => pos[t] <= CollMask
    BY DEF Init
  <1> QED
    BY <1>1, <1>2, <1>3, <1>4, <1>5, <1>6, <1>7, <1>8, <1>9 DEF TypeOK

LEMMA NextType == TypeOK /\ [Next]_vars => TypeOK'
  <1> SUFFICES ASSUME TypeOK, [Next]_vars PROVE TypeOK'
    OBVIOUS
  <1> USE KeyIndexAssumption DEF TypeOK, Goto, Steps
  <1>1. ASSUME NEW t \in Threads, NEW j \in {"get", "del", "set"},
               NEW k \in Keys, NEW v \in Vals, Begin(t, j, k, v)
        PROVE  TypeOK'
    <2>1. calls' \in 0 .. MaxCalls
      BY <1>1 DEF Begin
    <2>2. /\ pc' \in [Threads -> Steps]
          /\ job' \in [Threads -> {"get", "del", "set", "ins"}]
          /\ key' \in [Threads -> Keys]
          /\ val' \in [Threads -> Vals]
      BY <1>1 DEF Begin
    <2>3. \A u \in Threads : pc'[u] = "move" => pos'[u] <= CollMask
      BY <1>1 DEF Begin
    <2> QED
      BY <1>1, <2>1, <2>2, <2>3 DEF Begin, index, locks
  <1>2. ASSUME NEW t \in Threads, FindAssigned(t)
        PROVE  TypeOK'
    BY <1>2, SlotIsKIndex DEF FindAssigned, index, locks
  <1>3. ASSUME NEW t \in Threads, StartArrange(t)
        PROVE  TypeOK'
    BY <1>3 DEF StartArrange, index
  <1>4. ASSUME NEW t \in Threads, SkipLevel(t)
        PROVE  TypeOK'
    <2>1. lvl[t] + 1 \in 1 .. MaxBits + 1
      BY <1>4 DEF SkipLevel
    <2>2. lvl' \in [Threads -> 1 .. MaxBits + 1]
      BY <1>4, <2>1 DEF SkipLevel
    <2> QED
      BY <1>4, <2>2 DEF SkipLevel, index, locks
  <1>5. ASSUME NEW t \in Threads, LockLower(t)
        PROVE  TypeOK'
    <2>1. Lower(t) \in KIndexes
      BY SlotIsKIndex DEF Lower
    <2>2. ckiW' \in [KIndexes -> [0 .. CollMask -> Threads \cup {NoThread}]]
      BY <1>5, <2>1 DEF LockLower
    <2> QED
      BY <1>5, <2>2 DEF LockLower, index, frame
  <1>6. ASSUME NEW t \in Threads, MoveUp(t)
        PROVE  TypeOK'
    <2>1. Lower(t) \in KIndexes /\ Upper(t) \in KIndexes
      BY SlotIsKIndex DEF Lower, Upper
    <2>2. \A k \in Keys : chain[Upper(t)][k] \o Reverse(chain[Lower(t)][k]) \in Seq(Vals)
      BY <2>1, ReverseType
    <2> DEFINE up == [k \in Keys |->
                        IF k \in Moving(t)
                          THEN chain[Upper(t)][k] \o Reverse(chain[Lower(t)][k])
                          ELSE chain[Upper(t)][k]]
               mid == [chain EXCEPT ![Upper(t)] = up]
               low == [k \in Keys |-> IF k \in Moving(t) THEN <<>> ELSE mid[Lower(t)][k]]
    <2>a. up \in [Keys -> Seq(Vals)]
      BY <2>1, <2>2
    <2>b. mid \in [KIndexes -> [Keys -> Seq(Vals)]]
      BY <2>1, <2>a
    <2>c. low \in [Keys -> Seq(Vals)]
      BY <2>1, <2>b
    <2>d. chain' = [mid EXCEPT ![Lower(t)] = low]
      BY <1>6, <2>1 DEF MoveUp
    <2>3. chain' \in [KIndexes -> [Keys -> Seq(Vals)]]
      BY <2>1, <2>b, <2>c, <2>d
    <2>4. ckiW' \in [KIndexes -> [0 .. CollMask -> Threads \cup {NoThread}]]
      BY <1>6, <2>1 DEF MoveUp
    <2>m. pc[t] = "move" /\ pos[t] \in 0 .. CollMask + 1
      BY <1>6 DEF MoveUp
    <2>e. pos[t] + 1 \in 0 .. CollMask + 1
      BY <2>m
    <2>5. pos' \in [Threads -> 0 .. CollMask + 1]
      BY <1>6, <2>e DEF MoveUp
    <2> QED
      BY <1>6, <2>3, <2>4, <2>5 DEF MoveUp
  <1>7. ASSUME NEW t \in Threads, AssignUpper(t)
        PROVE  TypeOK'
    <2>1. lvl[t] + 1 \in 1 .. MaxBits + 1
      BY <1>7 DEF AssignUpper
    <2>2. lvl' \in [Threads -> 1 .. MaxBits + 1]
      BY <1>7, <2>1 DEF AssignUpper
    <2>3. assigned' \subseteq KIndexes
      BY <1>7, SlotIsKIndex DEF AssignUpper, Upper
    <2>4. pos' \in [Threads -> 0 .. CollMask + 1]
      BY <1>7 DEF AssignUpper
    <2>5. \A u \in Threads : pc'[u] = "move" => pos'[u] <= CollMask
      BY <1>7 DEF AssignUpper, locks
    <2> QED
      BY <1>7, <2>2, <2>3, <2>4, <2>5 DEF AssignUpper, locks
  <1>8. ASSUME NEW t \in Threads, ArrangeDone(t)
        PROVE  TypeOK'
    <2>1. kidx' \in [Threads -> KIndexes]
      BY <1>8, SlotIsKIndex DEF ArrangeDone
    <2>2. lvl' \in [Threads -> 1 .. MaxBits + 1]
      BY <1>8 DEF ArrangeDone
    <2> QED
      BY <1>8, <2>1, <2>2 DEF ArrangeDone, index
  <1>9. ASSUME NEW t \in Threads, GetElement(t)
        PROVE  TypeOK'
    <2>1. Found(t) \in Seq(Vals)
      BY DEF Found
    <2>2. res' \in [Threads -> Vals \cup {Missing}]
      BY <1>9, <2>1 DEF GetElement
    <2> QED
      BY <1>9, <2>2 DEF GetElement, LockCKIndex, index, locks
  <1>10. ASSUME NEW t \in Threads, RemoveEx(t)
         PROVE  TypeOK'
    <2>1. chain' \in [KIndexes -> [Keys -> Seq(Vals)]]
      BY <1>10 DEF RemoveEx, Found
    <2> QED
      BY <1>10, <2>1 DEF RemoveEx, LockCKIndex, locks
  <1>11. ASSUME NEW t \in Threads, InsertElement(t)
         PROVE  TypeOK'
    <2>1. chain' \in [KIndexes -> [Keys -> Seq(Vals)]]
      BY <1>11 DEF InsertElement
    <2> QED
      BY <1>11, <2>1 DEF InsertElement, LockCKIndex, locks, frame
  <1>12. ASSUME NEW t \in Threads, RetrySet(t)
         PROVE  TypeOK'
    BY <1>12 DEF RetrySet, LockCKIndex, index, locks
  <1>13. ASSUME NEW t \in Threads, LockMaskToCount(t)
         PROVE  TypeOK'
    BY <1>13 DEF LockMaskToCount, index, frame
  <1>14. ASSUME NEW t \in Threads, CountElements(t)
         PROVE  TypeOK'
    BY <1>14 DEF CountElements, index, frame
  <1>15. ASSUME NEW t \in Threads, LockMaskToExpand(t)
         PROVE  TypeOK'
    BY <1>15 DEF LockMaskToExpand, index, frame
  <1>16. ASSUME NEW t \in Threads, ExpandKIndexArea(t)
         PROVE  TypeOK'
    BY <1>16 DEF ExpandKIndexArea, TooLong, frame
  <1>17. CASE UNCHANGED vars
    BY <1>17 DEF vars, index, locks, frame
  <1>18. CASE Done
    BY <1>17, <1>18 DEF Done
  <1> QED
    BY <1>1, <1>2, <1>3, <1>4, <1>5, <1>6, <1>7, <1>8, <1>9, <1>10, <1>11,
       <1>12, <1>13, <1>14, <1>15, <1>16, <1>17, <1>18 DEF Next, Step

\* Every variable keeps its type; in particular cur_mask stays within max_mask
\* and an arrangement never runs past the current mask's last level.
THEOREM TypeCorrect == Spec => []TypeOK
  BY InitType, NextType, PTL DEF Spec

-----------------------------------------------------------------------------
\* Safety: how masks relate

\* A shorter mask selects, of what a longer mask selects, the lower bits.
LEMMA SlotBelow ==
    ASSUME NEW k \in Keys, NEW a \in Nat, NEW b \in Nat, a <= b
    PROVE  /\ Slot(k, a) \subseteq Slot(k, b)
           /\ Slot(k, a) = Slot(k, b) \cap (1 .. a)
           /\ Slot(k, a) \subseteq 1 .. a
  BY DEF Slot

\* Two keys with the same KINDEX under a mask share it under every shorter one.
LEMMA SlotAgree ==
    ASSUME NEW k \in Keys, NEW j \in Keys, NEW a \in Nat, NEW b \in Nat, a <= b,
           Slot(k, b) = Slot(j, b)
    PROVE  Slot(k, a) = Slot(j, a)
  BY SlotBelow

\* Where two successive masks select different KINDEXes, the bit between them
\* is set.
LEMMA SlotStep ==
    ASSUME NEW k \in Keys, NEW b \in Nat \ {0}, Slot(k, b) # Slot(k, b - 1)
    PROVE  b \in Slot(k, b)
  BY DEF Slot

\* If a longer mask selects a KINDEX whose bits all lie below a shorter one,
\* the shorter one selects it too.
LEMMA SlotPinned ==
    ASSUME NEW k \in Keys, NEW a \in Nat, NEW b \in Nat, a <= b,
           Slot(k, b) \subseteq 1 .. a
    PROVE  Slot(k, a) = Slot(k, b)
  BY DEF Slot

\* What the invariant says in the first state.
LEMMA InitIndex == Init => IndexInv
  <1> SUFFICES ASSUME Init PROVE IndexInv
    OBVIOUS
  <1> USE KeyIndexAssumption
  <1>1. \A t \in Threads : pc[t] = "idle"
    BY DEF Init
  <1>2. \A k \in Keys : Listed(k) = {}
    BY DEF Init, Listed
  <1>3. MaskLockInv /\ ArrangingInv /\ AccessInv
    BY <1>1 DEF MaskLockInv, ArrangingInv, AccessInv, Arranging
  <1>4. AssignedInv
    BY DEF Init, AssignedInv, Slot
  <1>5. Placement /\ UnassignedOnlyInTransit
    BY <1>2 DEF Placement, UnassignedOnlyInTransit
  <1>6. LookupExact
    BY <1>2 DEF LookupExact
  <1>7. PassedInv
    BY <1>1 DEF PassedInv, Arranging
  <1> QED
    BY <1>3, <1>4, <1>5, <1>6, <1>7 DEF IndexInv

-----------------------------------------------------------------------------
\* Safety: one lemma per kind of step

\* The KINDEXes returned earlier stay assigned while the index only grows.
LEMMA AccessKept ==
    ASSUME AccessInv, bits \in Nat, bits' \in Nat, bits <= bits',
           assigned \subseteq assigned',
           \A u \in Threads : pc'[u] = "access" =>
               \/ pc[u] = "access" /\ kidx'[u] = kidx[u] /\ key'[u] = key[u]
               \/ /\ kidx'[u] \in assigned'
                  /\ \E b \in 1 .. bits' : kidx'[u] = Slot(key'[u], b)
    PROVE  AccessInv'
  <1> SUFFICES ASSUME NEW u \in Threads, pc'[u] = "access"
               PROVE  /\ kidx'[u] \in assigned'
                      /\ \E b \in 1 .. bits' : kidx'[u] = Slot(key'[u], b)
    BY DEF AccessInv, Slot
  <1>1. CASE pc[u] = "access" /\ kidx'[u] = kidx[u] /\ key'[u] = key[u]
    <2>1. PICK b \in 1 .. bits : kidx[u] = Slot(key[u], b)
      BY <1>1 DEF AccessInv
    <2>2. b \in 1 .. bits' /\ kidx'[u] = Slot(key'[u], b)
      BY <1>1, <2>1
    <2> QED
      BY <1>1, <2>2 DEF AccessInv
  <1> QED
    BY <1>1

\* A step that changes neither the index nor any arrangement keeps the
\* invariant, if it leaves the locks on cur_mask and the KINDEX it returns right.
LEMMA QuietStep ==
    ASSUME TypeOK, IndexInv,
           UNCHANGED index,
           stale => stale',
           \A u \in Threads : Arranging(u)' <=> Arranging(u),
           \A u \in Threads : Arranging(u) =>
               /\ key'[u] = key[u]
               /\ lvl'[u] = lvl[u]
               /\ pos'[u] = pos[u]
               /\ (pc'[u] = "move" =>
                      \/ pc[u] = "move"
                      \/ lvl[u] <= bits /\ Upper(u) # Lower(u)),
           MaskLockInv',
           AccessInv'
    PROVE  IndexInv'
  <1> USE DEF index
  <1>1. \A u \in Threads : Arranging(u) => Upper(u)' = Upper(u) /\ Lower(u)' = Lower(u)
    BY DEF Upper, Lower, Slot
  <1>2. \A k \in Keys : Listed(k)' = Listed(k)
    BY DEF Listed
  <1>3. ArrangingInv'
    BY <1>1 DEF IndexInv, ArrangingInv, LevelsAssigned, Arranging, Slot
  <1>4. AssignedInv'
    BY DEF IndexInv, AssignedInv, Slot
  <1>5. Placement'
    BY <1>2 DEF IndexInv, Placement, Slot
  <1>6. UnassignedOnlyInTransit'
    <2> SUFFICES ASSUME NEW k \in Keys, NEW s \in Listed(k) \ assigned
                 PROVE  \E t \in maskR' : pc'[t] \in {"arrange", "move"} /\ Upper(t)' = s
      BY <1>2 DEF UnassignedOnlyInTransit
    <2>1. PICK t \in maskR : pc[t] \in {"arrange", "move"} /\ Upper(t) = s
      BY DEF IndexInv, UnassignedOnlyInTransit
    <2>2. t \in Threads /\ Arranging(t)
      BY <2>1 DEF TypeOK, Arranging
    <2>3. Arranging(t)' /\ t \in maskR' /\ Upper(t)' = s
      BY <1>1, <2>1, <2>2 DEF MaskLockInv
    <2> QED
      BY <2>3 DEF Arranging
  <1>7. LookupExact'
    BY <1>2 DEF IndexInv, LookupExact, Slot
  <1>8. PassedInv'
    BY <1>1, <1>2 DEF IndexInv, PassedInv, NothingLeftBehind, Slot
  <1> QED
    BY <1>3, <1>4, <1>5, <1>6, <1>7, <1>8 DEF IndexInv

\* Begin, FindAssigned, LockLower, GetElement, RetrySet, LockMaskToCount,
\* CountElements and LockMaskToExpand are such steps.
LEMMA BeginIndex ==
    ASSUME TypeOK, IndexInv, NEW t \in Threads, NEW j \in {"get", "del", "set"},
           NEW k \in Keys, NEW v \in Vals, Begin(t, j, k, v)
    PROVE  IndexInv'
  <1> USE DEF TypeOK, Goto, Steps, Begin
  <1>1. /\ UNCHANGED index
        /\ UNCHANGED <<maskR, maskW, stale, kidx, lvl, pos>>
    BY DEF locks
  <1>2. \A u \in Threads : u # t => pc'[u] = pc[u] /\ key'[u] = key[u]
    OBVIOUS
  <1>3. pc[t] = "idle" /\ pc'[t] = "find"
    OBVIOUS
  <1>4. MaskLockInv'
    BY <1>1, <1>2, <1>3 DEF IndexInv, MaskLockInv, Arranging
  <1>n. bits \in Nat
    BY KeyIndexAssumption
  <1>5. AccessInv'
    BY <1>1, <1>2, <1>3, <1>n, AccessKept DEF IndexInv, index
  <1>6. \A u \in Threads : Arranging(u)' <=> Arranging(u)
    BY <1>2, <1>3 DEF Arranging
  <1>7. \A u \in Threads : Arranging(u) => u # t
    BY <1>3 DEF Arranging
  <1> QED
    BY <1>1, <1>2, <1>3, <1>4, <1>5, <1>6, <1>7, QuietStep

LEMMA FindAssignedIndex ==
    ASSUME TypeOK, IndexInv, NEW t \in Threads, FindAssigned(t)
    PROVE  IndexInv'
  <1> USE KeyIndexAssumption DEF TypeOK, Goto, Steps, FindAssigned
  <1>1. /\ UNCHANGED index
        /\ UNCHANGED <<maskR, maskW, stale, key, lvl, pos>>
    BY DEF locks
  <1>2. \A u \in Threads : u # t => pc'[u] = pc[u] /\ kidx'[u] = kidx[u]
    OBVIOUS
  <1>3. /\ pc[t] = "find" /\ pc'[t] = "access"
        /\ kidx'[t] = Slot(key'[t], bits') /\ kidx'[t] \in assigned' /\ bits' \in 1 .. bits'
    BY SlotIsKIndex DEF index
  <1>4. MaskLockInv'
    BY <1>1, <1>2, <1>3 DEF IndexInv, MaskLockInv, Arranging
  <1>n. bits \in Nat
    BY KeyIndexAssumption
  <1>a. \A u \in Threads : pc'[u] = "access" =>
             \/ pc[u] = "access" /\ kidx'[u] = kidx[u] /\ key'[u] = key[u]
             \/ /\ kidx'[u] \in assigned'
                /\ \E b \in 1 .. bits' : kidx'[u] = Slot(key'[u], b)
    BY <1>1, <1>2, <1>3
  <1>b. assigned' = assigned /\ bits' = bits
    BY DEF index
  <1>c. AccessInv
    BY DEF IndexInv
  <1>5. AccessInv'
    <2> HIDE DEF TypeOK, Goto, Steps, FindAssigned
    <2> QED
      BY <1>a, <1>b, <1>c, <1>n, AccessKept
  <1>6. \A u \in Threads : Arranging(u)' <=> Arranging(u)
    BY <1>2, <1>3 DEF Arranging
  <1>7. \A u \in Threads : Arranging(u) => u # t
    BY <1>3 DEF Arranging
  <1> QED
    BY <1>1, <1>2, <1>3, <1>4, <1>5, <1>6, <1>7, QuietStep

LEMMA LockLowerIndex ==
    ASSUME TypeOK, IndexInv, NEW t \in Threads, LockLower(t)
    PROVE  IndexInv'
  <1> USE DEF TypeOK, Goto, Steps, LockLower
  <1>1. /\ UNCHANGED index
        /\ UNCHANGED <<maskR, maskW, stale, key, lvl, pos, kidx>>
    BY DEF frame
  <1>2. \A u \in Threads : u # t => pc'[u] = pc[u]
    OBVIOUS
  <1>3. pc[t] = "arrange" /\ pc'[t] = "move" /\ lvl[t] <= bits /\ Upper(t) # Lower(t)
    OBVIOUS
  <1>4. MaskLockInv'
    BY <1>1, <1>2, <1>3 DEF IndexInv, MaskLockInv, Arranging
  <1>n. bits \in Nat
    BY KeyIndexAssumption
  <1>a. \A u \in Threads : pc'[u] = "access" =>
             pc[u] = "access" /\ kidx'[u] = kidx[u] /\ key'[u] = key[u]
    BY <1>1, <1>2, <1>3
  <1>5. AccessInv'
    BY <1>1, <1>a, <1>n, AccessKept DEF IndexInv, index
  <1>6. \A u \in Threads : Arranging(u)' <=> Arranging(u)
    BY <1>2, <1>3 DEF Arranging
  <1>7. \A u \in Threads : pc'[u] = "move" => pc[u] = "move" \/ u = t
    BY <1>2
  <1> QED
    BY <1>1, <1>2, <1>3, <1>4, <1>5, <1>6, <1>7, QuietStep

LEMMA GetElementIndex ==
    ASSUME TypeOK, IndexInv, NEW t \in Threads, GetElement(t)
    PROVE  IndexInv'
  <1> USE DEF TypeOK, Goto, Steps, GetElement
  <1>1. /\ UNCHANGED index
        /\ UNCHANGED <<maskR, maskW, key, lvl, pos, kidx>>
        /\ stale => stale'
    BY DEF locks, LockCKIndex
  <1>2. \A u \in Threads : u # t => pc'[u] = pc[u]
    OBVIOUS
  <1>3. pc[t] = "access" /\ pc'[t] = "idle"
    BY DEF LockCKIndex
  <1>4. MaskLockInv'
    BY <1>1, <1>2, <1>3 DEF IndexInv, MaskLockInv, Arranging
  <1>n. bits \in Nat
    BY KeyIndexAssumption
  <1>a. \A u \in Threads : pc'[u] = "access" =>
             pc[u] = "access" /\ kidx'[u] = kidx[u] /\ key'[u] = key[u]
    BY <1>1, <1>2, <1>3
  <1>5. AccessInv'
    BY <1>1, <1>a, <1>n, AccessKept DEF IndexInv, index
  <1>6. \A u \in Threads : Arranging(u)' <=> Arranging(u)
    BY <1>2, <1>3 DEF Arranging
  <1>7. \A u \in Threads : pc'[u] = "move" => pc[u] = "move"
    BY <1>2, <1>3
  <1> QED
    BY <1>1, <1>4, <1>5, <1>6, <1>7, QuietStep

LEMMA RetrySetIndex ==
    ASSUME TypeOK, IndexInv, NEW t \in Threads, RetrySet(t)
    PROVE  IndexInv'
  <1> USE DEF TypeOK, Goto, Steps, RetrySet
  <1>1. /\ UNCHANGED index
        /\ UNCHANGED <<maskR, maskW, key, lvl, pos, kidx>>
        /\ stale => stale'
    BY DEF locks, LockCKIndex
  <1>2. \A u \in Threads : u # t => pc'[u] = pc[u]
    OBVIOUS
  <1>3. pc[t] = "access" /\ pc'[t] = "find"
    BY DEF LockCKIndex
  <1>4. MaskLockInv'
    BY <1>1, <1>2, <1>3 DEF IndexInv, MaskLockInv, Arranging
  <1>n. bits \in Nat
    BY KeyIndexAssumption
  <1>a. \A u \in Threads : pc'[u] = "access" =>
             pc[u] = "access" /\ kidx'[u] = kidx[u] /\ key'[u] = key[u]
    BY <1>1, <1>2, <1>3
  <1>5. AccessInv'
    BY <1>1, <1>a, <1>n, AccessKept DEF IndexInv, index
  <1>6. \A u \in Threads : Arranging(u)' <=> Arranging(u)
    BY <1>2, <1>3 DEF Arranging
  <1>7. \A u \in Threads : pc'[u] = "move" => pc[u] = "move"
    BY <1>2, <1>3
  <1> QED
    BY <1>1, <1>4, <1>5, <1>6, <1>7, QuietStep

LEMMA LockMaskToCountIndex ==
    ASSUME TypeOK, IndexInv, NEW t \in Threads, LockMaskToCount(t)
    PROVE  IndexInv'
  <1> USE KeyIndexAssumption DEF TypeOK, Goto, Steps, LockMaskToCount
  <1>1. /\ UNCHANGED index
        /\ UNCHANGED <<maskW, key, lvl, pos, kidx>>
        /\ stale => stale'
    BY DEF frame
  <1>2. \A u \in Threads : u # t => pc'[u] = pc[u]
    OBVIOUS
  <1>3. pc[t] = "check" /\ pc'[t] = "count" /\ maskW = NoThread /\ maskR' = maskR \cup {t}
    BY DEF LockCKIndex
  <1>4. MaskLockInv'
    BY <1>1, <1>2, <1>3 DEF IndexInv, MaskLockInv, Arranging
  <1>n. bits \in Nat
    BY KeyIndexAssumption
  <1>a. \A u \in Threads : pc'[u] = "access" =>
             pc[u] = "access" /\ kidx'[u] = kidx[u] /\ key'[u] = key[u]
    BY <1>1, <1>2, <1>3
  <1>5. AccessInv'
    BY <1>1, <1>a, <1>n, AccessKept DEF IndexInv, index
  <1>6. \A u \in Threads : Arranging(u)' <=> Arranging(u)
    BY <1>2, <1>3 DEF Arranging
  <1>7. \A u \in Threads : pc'[u] = "move" => pc[u] = "move"
    BY <1>2, <1>3
  <1> QED
    BY <1>1, <1>4, <1>5, <1>6, <1>7, QuietStep

LEMMA CountElementsIndex ==
    ASSUME TypeOK, IndexInv, NEW t \in Threads, CountElements(t)
    PROVE  IndexInv'
  <1> USE DEF TypeOK, Goto, Steps, CountElements
  <1>1. /\ UNCHANGED index
        /\ UNCHANGED <<maskW, key, lvl, pos, kidx>>
        /\ stale => stale'
    BY DEF frame
  <1>2. \A u \in Threads : u # t => pc'[u] = pc[u]
    OBVIOUS
  <1>3. pc[t] = "count" /\ pc'[t] \in {"expand", "idle"} /\ maskR' = maskR \ {t}
    BY DEF LockCKIndex
  <1>4. MaskLockInv'
    BY <1>1, <1>2, <1>3 DEF IndexInv, MaskLockInv, Arranging
  <1>n. bits \in Nat
    BY KeyIndexAssumption
  <1>a. \A u \in Threads : pc'[u] = "access" =>
             pc[u] = "access" /\ kidx'[u] = kidx[u] /\ key'[u] = key[u]
    BY <1>1, <1>2, <1>3
  <1>5. AccessInv'
    BY <1>1, <1>a, <1>n, AccessKept DEF IndexInv, index
  <1>6. \A u \in Threads : Arranging(u)' <=> Arranging(u)
    BY <1>2, <1>3 DEF Arranging
  <1>7. \A u \in Threads : pc'[u] = "move" => pc[u] = "move"
    BY <1>2, <1>3
  <1> QED
    BY <1>1, <1>4, <1>5, <1>6, <1>7, QuietStep

LEMMA LockMaskToExpandIndex ==
    ASSUME TypeOK, IndexInv, NEW t \in Threads, LockMaskToExpand(t)
    PROVE  IndexInv'
  <1> USE KeyIndexAssumption DEF TypeOK, Goto, Steps, LockMaskToExpand
  <1>1. /\ UNCHANGED index
        /\ UNCHANGED <<maskR, key, lvl, pos, kidx>>
        /\ stale => stale'
    BY DEF frame
  <1>2. \A u \in Threads : u # t => pc'[u] = pc[u]
    OBVIOUS
  <1>3. pc[t] = "expand" /\ pc'[t] = "grow" /\ maskW = NoThread /\ maskR = {} /\ maskW' = t
    BY DEF LockCKIndex
  <1>4. MaskLockInv'
    BY <1>1, <1>2, <1>3 DEF IndexInv, MaskLockInv, Arranging
  <1>n. bits \in Nat
    BY KeyIndexAssumption
  <1>a. \A u \in Threads : pc'[u] = "access" =>
             pc[u] = "access" /\ kidx'[u] = kidx[u] /\ key'[u] = key[u]
    BY <1>1, <1>2, <1>3
  <1>5. AccessInv'
    BY <1>1, <1>a, <1>n, AccessKept DEF IndexInv, index
  <1>6. \A u \in Threads : Arranging(u)' <=> Arranging(u)
    BY <1>2, <1>3 DEF Arranging
  <1>7. \A u \in Threads : pc'[u] = "move" => pc[u] = "move"
    BY <1>2, <1>3
  <1> QED
    BY <1>1, <1>4, <1>5, <1>6, <1>7, QuietStep


\* A step of one thread that changes nothing in the index keeps the invariant,
\* if the thread's new level is right and its old one needed it no more.
LEMMA ArrangeStep ==
    ASSUME TypeOK, IndexInv, NEW t \in Threads,
           UNCHANGED index, UNCHANGED <<key, stale>>,
           \A u \in Threads : u # t =>
               pc'[u] = pc[u] /\ lvl'[u] = lvl[u] /\ pos'[u] = pos[u],
           \A k \in Keys : Arranging(t) /\ Upper(t) \in Listed(k) => Upper(t) \in assigned,
           Arranging(t)' => LevelsAssigned(t)',
           Arranging(t)' /\ ~stale => NothingLeftBehind(t)',
           MaskLockInv',
           AccessInv'
    PROVE  IndexInv'
  <1> USE DEF index
  <1>1. \A u \in Threads : u # t => Upper(u)' = Upper(u) /\ Lower(u)' = Lower(u)
    BY DEF Upper, Lower, Slot
  <1>2. \A k \in Keys : Listed(k)' = Listed(k)
    BY DEF Listed
  <1>3. ArrangingInv'
    <2>1. \A u \in Threads : u # t /\ Arranging(u)' => LevelsAssigned(u)'
      BY <1>1 DEF IndexInv, ArrangingInv, LevelsAssigned, Arranging, Slot
    <2> QED
      BY <2>1 DEF ArrangingInv
  <1>4. AssignedInv'
    BY DEF IndexInv, AssignedInv, Slot
  <1>5. Placement'
    BY <1>2 DEF IndexInv, Placement, Slot
  <1>6. UnassignedOnlyInTransit'
    <2> SUFFICES ASSUME NEW k \in Keys, NEW s \in Listed(k) \ assigned
                 PROVE  \E u \in maskR' : pc'[u] \in {"arrange", "move"} /\ Upper(u)' = s
      BY <1>2 DEF UnassignedOnlyInTransit
    <2>1. PICK u \in maskR : pc[u] \in {"arrange", "move"} /\ Upper(u) = s
      BY DEF IndexInv, UnassignedOnlyInTransit
    <2>2. u \in Threads /\ u # t
      BY <2>1 DEF TypeOK, Arranging
    <2>3. pc'[u] \in {"arrange", "move"} /\ u \in maskR' /\ Upper(u)' = s
      BY <1>1, <2>1, <2>2 DEF MaskLockInv, Arranging
    <2> QED
      BY <2>3
  <1>7. LookupExact'
    BY <1>2 DEF IndexInv, LookupExact, Slot
  <1>8. PassedInv'
    <2>1. \A u \in Threads : u # t /\ Arranging(u)' /\ ~stale => NothingLeftBehind(u)'
      BY <1>1, <1>2 DEF IndexInv, PassedInv, NothingLeftBehind, Arranging, Slot
    <2> QED
      BY <2>1 DEF PassedInv
  <1> QED
    BY <1>3, <1>4, <1>5, <1>6, <1>7, <1>8 DEF IndexInv

\* Every element of a key is under a KINDEX that contains the lowest bits of
\* its hash.
LEMMA LowestBits ==
    ASSUME TypeOK, Placement, NEW k \in Keys, NEW s \in Listed(k)
    PROVE  Slot(k, 1) \subseteq s
  <1>1. PICK b \in 1 .. bits : s = Slot(k, b)
    BY DEF Placement
  <1>2. b \in Nat /\ 1 <= b
    BY KeyIndexAssumption DEF TypeOK
  <1> QED
    BY <1>1, <1>2, SlotBelow

LEMMA StartArrangeIndex ==
    ASSUME TypeOK, IndexInv, NEW t \in Threads, StartArrange(t)
    PROVE  IndexInv'
  <1>k. InitBits \in Nat /\ InitBits >= 2 /\ MaxBits \in Nat /\ NoThread \notin Threads
    BY KeyIndexAssumption
  <1>1. /\ UNCHANGED index
        /\ UNCHANGED <<key, stale, maskW, kidx>>
        /\ maskW = NoThread
        /\ maskR' = maskR \cup {t}
    BY DEF StartArrange
  <1>2. \A u \in Threads : u # t =>
            pc'[u] = pc[u] /\ lvl'[u] = lvl[u] /\ pos'[u] = pos[u]
    BY DEF StartArrange, TypeOK, Goto
  <1>3. pc[t] = "find" /\ pc'[t] = "arrange" /\ lvl'[t] = 2 /\ pos'[t] = 0
    BY DEF StartArrange, TypeOK, Goto
  <1>4. bits \in Nat /\ 2 <= bits
    BY <1>k DEF TypeOK
  <1>5. MaskLockInv'
    BY <1>k, <1>1, <1>2, <1>3 DEF IndexInv, MaskLockInv, Arranging
  <1>6. AccessInv'
    <2>1. \A u \in Threads : pc'[u] = "access" =>
               pc[u] = "access" /\ kidx'[u] = kidx[u] /\ key'[u] = key[u]
      BY <1>1, <1>2, <1>3
    <2> QED
      BY <1>1, <1>4, <2>1, AccessKept DEF IndexInv, index
  <1>7. key[t] \in Keys
    BY DEF TypeOK
  <1>8. Lower(t)' = Slot(key[t], 1) /\ Upper(t)' = Slot(key[t], 2)
    BY <1>1, <1>3 DEF Lower, Upper, Slot
  <1>9. LevelsAssigned(t)'
    <2>1. Slot(key[t], 1) \in assigned
      BY <1>7 DEF IndexInv, AssignedInv
    <2>2. \A b \in 1 .. lvl'[t] - 1 : b = 1
      BY <1>3
    <2> QED
      BY <1>1, <1>3, <1>4, <2>1, <2>2 DEF LevelsAssigned, index, Slot
  <1>10. NothingLeftBehind(t)'
    <2> SUFFICES ASSUME NEW k \in Keys, NEW s \in Listed(k)
                 PROVE  Slot(k, 1) = Slot(key[t], 1) => Slot(key[t], 1) \subseteq s
      <3>1. \A k \in Keys : Listed(k)' = Listed(k)
        BY <1>1 DEF Listed, index
      <3>2. \A k \in Keys : Slot(k, lvl[t] - 1)' = Slot(k, 1)
        BY <1>3 DEF Slot
      <3>3. \A k \in Keys : ~ (Coll[k] < pos'[t])
        BY <1>3, KeyIndexAssumption
      <3> QED
        BY <1>8, <3>1, <3>2, <3>3 DEF NothingLeftBehind
    <2> QED
      BY LowestBits DEF IndexInv
  <1>11. ~Arranging(t)
    BY <1>3 DEF Arranging
  <1> QED
    BY <1>1, <1>2, <1>5, <1>6, <1>9, <1>10, <1>11, ArrangeStep


\* What is known of a thread that arranges.
LEMMA ArrangingFacts ==
    ASSUME TypeOK, IndexInv, NEW t \in Threads, Arranging(t)
    PROVE  /\ bits \in Nat /\ lvl[t] \in Nat /\ 2 <= lvl[t] /\ lvl[t] <= bits + 1
           /\ key[t] \in Keys
           /\ Lower(t) \in assigned
           /\ LevelsAssigned(t)
           /\ ~stale => NothingLeftBehind(t)
  <1>1. LevelsAssigned(t) /\ (~stale => NothingLeftBehind(t))
    BY DEF IndexInv, ArrangingInv, PassedInv
  <1>2. bits \in Nat /\ key[t] \in Keys
    BY KeyIndexAssumption DEF TypeOK
  <1>3. lvl[t] \in Nat /\ 2 <= lvl[t] /\ lvl[t] <= bits + 1
    BY <1>1, <1>2 DEF LevelsAssigned
  <1>4. lvl[t] - 1 \in 1 .. lvl[t] - 1
    BY <1>3
  <1>5. Lower(t) \in assigned
    BY <1>1, <1>4 DEF LevelsAssigned, Lower
  <1> QED
    BY <1>1, <1>2, <1>3, <1>5

LEMMA SkipLevelIndex ==
    ASSUME TypeOK, IndexInv, NEW t \in Threads, SkipLevel(t)
    PROVE  IndexInv'
  <1>1. /\ UNCHANGED index
        /\ UNCHANGED <<key, stale, maskW, maskR, kidx, pc, pos>>
    BY DEF SkipLevel, locks
  <1>2. \A u \in Threads : u # t => lvl'[u] = lvl[u]
    BY DEF SkipLevel, TypeOK
  <1>3. pc[t] = "arrange" /\ lvl'[t] = lvl[t] + 1 /\ lvl[t] <= bits /\ Upper(t) = Lower(t)
    BY DEF SkipLevel, TypeOK
  <1>4. Arranging(t)
    BY <1>3 DEF Arranging
  <1>5. MaskLockInv' /\ AccessInv'
    BY <1>1 DEF IndexInv, MaskLockInv, AccessInv, Arranging, index, Slot
  <1>6. /\ bits \in Nat /\ lvl[t] \in Nat /\ 2 <= lvl[t]
        /\ key[t] \in Keys
        /\ Lower(t) \in assigned
        /\ LevelsAssigned(t)
        /\ ~stale => NothingLeftBehind(t)
    BY <1>4, ArrangingFacts
  <1>7. pos[t] = 0
    BY <1>3, <1>6 DEF LevelsAssigned
  <1>8. Lower(t)' = Upper(t)
    BY <1>1, <1>3, <1>6 DEF Lower, Upper, Slot
  <1>9. LevelsAssigned(t)'
    <2>1. lvl'[t] \in 2 .. bits + 1
      BY <1>3, <1>6
    <2>2. ASSUME NEW b \in 1 .. lvl'[t] - 1
          PROVE  Slot(key[t], b) \in assigned
      <3>1. CASE b = lvl[t]
        BY <1>3, <1>6, <3>1 DEF Upper
      <3>2. CASE b # lvl[t]
        <4>1. b \in 1 .. lvl[t] - 1
          BY <1>3, <1>6, <3>2
        <4> QED
          BY <1>6, <4>1 DEF LevelsAssigned
      <3> QED
        BY <3>1, <3>2
    <2> QED
      BY <1>1, <1>3, <1>7, <2>1, <2>2 DEF LevelsAssigned, index, Slot
  <1>10. ~stale => NothingLeftBehind(t)'
    <2> SUFFICES ASSUME ~stale, NEW k \in Keys, NEW s \in Listed(k), Slot(k, lvl[t]) = Upper(t)
                 PROVE  Upper(t) \subseteq s
      <3>2. \A j \in Keys : Listed(j)' = Listed(j) /\ Slot(j, lvl[t] - 1)' = Slot(j, lvl[t])
        BY <1>1, <1>3, <1>6 DEF Listed, index, Slot
      <3>3. \A j \in Keys : ~ (Coll[j] < pos'[t])
        BY <1>1, <1>7, KeyIndexAssumption
      <3> QED
        BY <1>8, <3>2, <3>3 DEF NothingLeftBehind
    <2>1. Slot(k, lvl[t] - 1) = Lower(t)
      <3>1. lvl[t] - 1 \in Nat /\ lvl[t] - 1 <= lvl[t]
        BY <1>6
      <3> QED
        BY <1>6, <3>1, SlotAgree DEF Upper, Lower
    <2> QED
      BY <1>3, <1>6, <2>1 DEF NothingLeftBehind
  <1> QED
    BY <1>1, <1>2, <1>3, <1>5, <1>6, <1>9, <1>10, ArrangeStep

LEMMA ArrangeDoneIndex ==
    ASSUME TypeOK, IndexInv, NEW t \in Threads, ArrangeDone(t)
    PROVE  IndexInv'
  <1>1. /\ UNCHANGED index
        /\ UNCHANGED <<key, stale, maskW, pos>>
        /\ maskR' = maskR \ {t}
    BY DEF ArrangeDone
  <1>2. \A u \in Threads : u # t =>
            pc'[u] = pc[u] /\ lvl'[u] = lvl[u] /\ kidx'[u] = kidx[u]
    BY DEF ArrangeDone, TypeOK, Goto
  <1>3. pc[t] = "arrange" /\ pc'[t] = "access" /\ lvl[t] > bits
    BY DEF ArrangeDone, TypeOK, Goto
  <1>4. kidx'[t] \in assigned /\ \E b \in 1 .. bits : kidx'[t] = Slot(key[t], b)
    BY DEF ArrangeDone, TypeOK
  <1>5. Arranging(t) /\ ~Arranging(t)'
    BY <1>3 DEF Arranging
  <1>6. /\ bits \in Nat /\ lvl[t] = bits + 1
        /\ key[t] \in Keys
        /\ Lower(t) \in assigned
    BY <1>3, <1>5, ArrangingFacts
  <1>7. MaskLockInv'
    BY <1>1, <1>2, <1>3 DEF IndexInv, MaskLockInv, Arranging
  <1>8. AccessInv'
    <2>1. \A u \in Threads : pc'[u] = "access" =>
             \/ pc[u] = "access" /\ kidx'[u] = kidx[u] /\ key'[u] = key[u]
             \/ /\ kidx'[u] \in assigned'
                /\ \E b \in 1 .. bits' : kidx'[u] = Slot(key'[u], b)
      BY <1>1, <1>2, <1>3, <1>4 DEF index
    <2>2. assigned' = assigned /\ bits' = bits
      BY <1>1 DEF index
    <2>3. AccessInv
      BY DEF IndexInv
    <2> QED
      BY <1>6, <2>1, <2>2, <2>3, AccessKept
  <1>9. ASSUME NEW k \in Keys, Upper(t) \in Listed(k)
        PROVE  Upper(t) \in assigned
    <2>1. PICK b \in 1 .. bits : Upper(t) = Slot(k, b)
      BY <1>9 DEF IndexInv, Placement
    <2>2. Upper(t) \subseteq 1 .. bits
      BY <1>6, <2>1 DEF Slot
    <2>3. Lower(t) = Upper(t)
      BY <1>6, <2>2 DEF Slot, Lower, Upper
    <2> QED
      BY <1>6, <2>3
  <1> QED
    BY <1>1, <1>2, <1>5, <1>7, <1>8, <1>9, ArrangeStep


\* Every element of a key is under a part of its KINDEX under cur_mask.
LEMMA ListedBelowTop ==
    ASSUME TypeOK, Placement, NEW k \in Keys, NEW s \in Listed(k)
    PROVE  s \subseteq Slot(k, bits)
  <1>1. PICK b \in 1 .. bits : s = Slot(k, b)
    BY DEF Placement
  <1>2. b \in Nat /\ bits \in Nat /\ b <= bits
    BY KeyIndexAssumption DEF TypeOK
  <1> QED
    BY <1>1, <1>2, SlotBelow

LEMMA AssignUpperIndex ==
    ASSUME TypeOK, IndexInv, NEW t \in Threads, AssignUpper(t)
    PROVE  IndexInv'
  <1>1. /\ UNCHANGED <<bits, chain, maskR, maskW, pc, key, kidx, stale>>
        /\ assigned' = assigned \cup {Upper(t)}
    BY DEF AssignUpper, locks
  <1>2. \A u \in Threads : u # t => lvl'[u] = lvl[u] /\ pos'[u] = pos[u]
    BY DEF AssignUpper, TypeOK
  <1>3. /\ pc[t] = "arrange" /\ lvl[t] <= bits /\ Upper(t) # Lower(t) /\ pos[t] > CollMask
        /\ lvl'[t] = lvl[t] + 1 /\ pos'[t] = 0
    BY DEF AssignUpper, TypeOK
  <1>4. Arranging(t)
    BY <1>3 DEF Arranging
  <1>5. /\ bits \in Nat /\ lvl[t] \in Nat /\ 2 <= lvl[t]
        /\ key[t] \in Keys
        /\ LevelsAssigned(t)
        /\ ~stale => NothingLeftBehind(t)
    BY <1>4, ArrangingFacts
  <1>6. \A k \in Keys : Listed(k)' = Listed(k)
    BY <1>1 DEF Listed
  <1>7. \A u \in Threads : u # t => Upper(u)' = Upper(u) /\ Lower(u)' = Lower(u)
    BY <1>1, <1>2 DEF Upper, Lower, Slot
  <1>8. Lower(t)' = Upper(t)
    BY <1>1, <1>3, <1>5 DEF Lower, Upper, Slot
  <1>9. MaskLockInv'
    BY <1>1 DEF IndexInv, MaskLockInv, Arranging
  <1>10. ArrangingInv'
    <2>1. ASSUME NEW u \in Threads, u # t, Arranging(u)'
          PROVE  LevelsAssigned(u)'
      BY <1>1, <1>2, <1>7, <2>1 DEF IndexInv, ArrangingInv, LevelsAssigned, Arranging, Slot
    <2>2. LevelsAssigned(t)'
      <3>1. lvl'[t] \in 2 .. bits + 1
        BY <1>3, <1>5
      <3>2. ASSUME NEW b \in 1 .. lvl'[t] - 1
            PROVE  Slot(key[t], b) \in assigned'
        <4>1. CASE b = lvl[t]
          BY <1>1, <4>1 DEF Upper
        <4>2. CASE b # lvl[t]
          <5>1. b \in 1 .. lvl[t] - 1
            BY <1>3, <1>5, <4>2
          <5> QED
            BY <1>1, <1>5, <5>1 DEF LevelsAssigned
        <4> QED
          BY <4>1, <4>2
      <3> QED
        BY <1>1, <1>3, <3>1, <3>2 DEF LevelsAssigned, Slot
    <2> QED
      BY <2>1, <2>2 DEF ArrangingInv
  <1>11. AssignedInv'
    <2>1. Upper(t) \subseteq 1 .. bits
      BY <1>3, <1>5 DEF Upper, Slot
    <2>2. ASSUME NEW b \in 1 .. bits
          PROVE  Upper(t) \cap (1 .. b) \in assigned'
      <3>1. CASE b >= lvl[t]
        <4>1. Upper(t) \cap (1 .. b) = Upper(t)
          BY <1>5, <3>1 DEF Upper, Slot
        <4> QED
          BY <1>1, <4>1
      <3>2. CASE b < lvl[t]
        <4>1. b \in 1 .. lvl[t] - 1
          BY <1>5, <3>2
        <4>2. Upper(t) \cap (1 .. b) = Slot(key[t], b)
          BY <1>5, <3>2, SlotBelow DEF Upper
        <4> QED
          BY <1>1, <1>5, <4>1, <4>2 DEF LevelsAssigned
      <3> QED
        BY <1>5, <3>1, <3>2
    <2> QED
      BY <1>1, <2>1, <2>2 DEF IndexInv, AssignedInv, Slot
  <1>12. Placement'
    BY <1>1, <1>6 DEF IndexInv, Placement, Slot
  <1>13. UnassignedOnlyInTransit'
    <2> SUFFICES ASSUME NEW k \in Keys, NEW s \in Listed(k) \ assigned'
                 PROVE  \E u \in maskR' : pc'[u] \in {"arrange", "move"} /\ Upper(u)' = s
      BY <1>6 DEF UnassignedOnlyInTransit
    <2>1. PICK u \in maskR : pc[u] \in {"arrange", "move"} /\ Upper(u) = s
      BY <1>1 DEF IndexInv, UnassignedOnlyInTransit
    <2>2. u \in Threads /\ u # t
      BY <1>1, <2>1 DEF TypeOK
    <2> QED
      BY <1>1, <1>7, <2>1, <2>2
  <1>14. AccessInv'
    <2>1. AccessInv /\ assigned \subseteq assigned' /\ bits' = bits
      BY <1>1 DEF IndexInv
    <2> QED
      BY <1>1, <1>5, <2>1, AccessKept
  <1>15. ASSUME ~stale, NEW k \in Keys, NEW s \in Listed(k), Slot(k, lvl[t]) = Upper(t)
         PROVE  Upper(t) \subseteq s
    <2>1. Coll[k] < pos[t]
      BY <1>3, KeyIndexAssumption DEF TypeOK
    <2> QED
      BY <1>3, <1>5, <1>15, <2>1 DEF NothingLeftBehind
  <1>16. LookupExact'
    <2>1. ASSUME ~stale, NEW k \in Keys, NEW s \in Listed(k), Slot(k, bits) \in assigned'
          PROVE  s = Slot(k, bits)
      <3>1. CASE Slot(k, bits) \in assigned
        BY <2>1, <3>1 DEF IndexInv, LookupExact
      <3>2. CASE Slot(k, bits) = Upper(t)
        <4>1. Slot(k, bits) \subseteq 1 .. lvl[t]
          BY <3>2 DEF Upper, Slot
        <4>2. Slot(k, lvl[t]) = Upper(t)
          BY <1>3, <1>5, <3>2, <4>1, SlotPinned
        <4>3. Upper(t) \subseteq s
          BY <1>15, <2>1, <4>2
        <4> QED
          BY <3>2, <4>3, ListedBelowTop DEF IndexInv
      <3> QED
        BY <1>1, <2>1, <3>1, <3>2
    <2> QED
      BY <1>1, <1>6, <2>1 DEF IndexInv, LookupExact, Slot
  <1>17. PassedInv'
    <2>1. ASSUME ~stale, NEW u \in Threads, u # t, Arranging(u)'
          PROVE  NothingLeftBehind(u)'
      BY <1>1, <1>2, <1>6, <1>7, <2>1 DEF IndexInv, PassedInv, NothingLeftBehind, Arranging, Slot
    <2>2. ASSUME ~stale
          PROVE  NothingLeftBehind(t)'
      <3>1. \A k \in Keys : Slot(k, lvl[t] - 1)' = Slot(k, lvl[t])
        BY <1>3, <1>5 DEF Slot
      <3>2. \A k \in Keys : ~ (Coll[k] < pos'[t])
        BY <1>3, KeyIndexAssumption
      <3> QED
        BY <1>1, <1>6, <1>8, <1>15, <2>2, <3>1, <3>2 DEF NothingLeftBehind
    <2> QED
      BY <1>1, <2>1, <2>2 DEF PassedInv
  <1> QED
    BY <1>9, <1>10, <1>11, <1>12, <1>13, <1>14, <1>16, <1>17 DEF IndexInv


\* What MoveUp does to the list of one key: everything under the lower KINDEX
\* goes to the upper one, or nothing changes.
LEMMA MoveUpEffect ==
    ASSUME TypeOK, NEW t \in Threads, MoveUp(t), Upper(t) # Lower(t), NEW k \in Keys
    PROVE  \/ \A s \in KIndexes : chain'[s][k] = chain[s][k]
           \/ /\ k \in Moving(t)
              /\ Lower(t) \in Listed(k)
              /\ chain'[Lower(t)][k] = <<>>
              /\ chain'[Upper(t)][k] = chain[Upper(t)][k] \o Reverse(chain[Lower(t)][k])
              /\ \A s \in KIndexes \ {Lower(t), Upper(t)} : chain'[s][k] = chain[s][k]
  <1>1. Lower(t) \in KIndexes /\ Upper(t) \in KIndexes
    BY SlotIsKIndex DEF Lower, Upper, TypeOK
  <1> DEFINE up == [j \in Keys |->
                      IF j \in Moving(t)
                        THEN chain[Upper(t)][j] \o Reverse(chain[Lower(t)][j])
                        ELSE chain[Upper(t)][j]]
             low == [j \in Keys |-> IF j \in Moving(t) THEN <<>> ELSE chain[Lower(t)][j]]
  <1>2. chain' = [[chain EXCEPT ![Upper(t)] = up] EXCEPT ![Lower(t)] = low]
    BY <1>1 DEF MoveUp, TypeOK
  <1>3. /\ chain'[Lower(t)] = low
        /\ chain'[Upper(t)] = up
        /\ \A s \in KIndexes \ {Lower(t), Upper(t)} : chain'[s] = chain[s]
    <2> HIDE DEF up, low
    <2> QED
      BY <1>1, <1>2 DEF TypeOK
  <1>4. CASE k \in Moving(t) /\ Lower(t) \in Listed(k)
    BY <1>1, <1>3, <1>4
  <1>5. CASE k \in Moving(t) /\ Lower(t) \notin Listed(k)
    <2>1. chain[Lower(t)][k] = <<>>
      BY <1>1, <1>5 DEF Listed
    <2>2. Reverse(chain[Lower(t)][k]) = <<>>
      BY <2>1 DEF Reverse
    <2>3. chain[Upper(t)][k] \in Seq(Vals)
      BY <1>1 DEF TypeOK
    <2>4. chain[Upper(t)][k] \o <<>> = chain[Upper(t)][k]
      BY <2>3
    <2>5. up[k] = chain[Upper(t)][k] /\ low[k] = chain[Lower(t)][k]
      BY <1>5, <2>1, <2>2, <2>4
    <2> HIDE DEF up, low
    <2> QED
      BY <1>3, <2>5
  <1>6. CASE k \notin Moving(t)
    <2>1. up[k] = chain[Upper(t)][k] /\ low[k] = chain[Lower(t)][k]
      BY <1>6
    <2> HIDE DEF up, low
    <2> QED
      BY <1>3, <2>1
  <1> QED
    BY <1>4, <1>5, <1>6

\* No key that moves is left under the lower KINDEX.
LEMMA MoveUpClears ==
    ASSUME TypeOK, NEW t \in Threads, MoveUp(t), NEW k \in Moving(t)
    PROVE  chain'[Lower(t)][k] = <<>>
  <1>1. Lower(t) \in KIndexes /\ Upper(t) \in KIndexes
    BY SlotIsKIndex DEF Lower, Upper, TypeOK
  <1>2. k \in Keys
    BY DEF Moving
  <1> QED
    BY <1>1, <1>2 DEF MoveUp, TypeOK

LEMMA MoveUpIndex ==
    ASSUME TypeOK, IndexInv, NEW t \in Threads, MoveUp(t)
    PROVE  IndexInv'
  <1>1. UNCHANGED <<bits, assigned, maskR, maskW, key, kidx, lvl, stale>>
    BY DEF MoveUp
  <1>2. \A u \in Threads : u # t => pc'[u] = pc[u] /\ pos'[u] = pos[u]
    BY DEF MoveUp, TypeOK, Goto
  <1>3. pc[t] = "move" /\ pc'[t] = "arrange" /\ pos'[t] = pos[t] + 1
    BY DEF MoveUp, TypeOK, Goto
  <1>4. Arranging(t) /\ \A u \in Threads : Arranging(u)' <=> Arranging(u)
    BY <1>2, <1>3 DEF Arranging
  <1>5. /\ bits \in Nat /\ lvl[t] \in Nat /\ 2 <= lvl[t]
        /\ key[t] \in Keys
        /\ LevelsAssigned(t)
        /\ ~stale => NothingLeftBehind(t)
    BY <1>4, ArrangingFacts
  <1>6. lvl[t] <= bits /\ Upper(t) # Lower(t)
    BY <1>3, <1>5 DEF LevelsAssigned
  <1>7. \A u \in Threads : Upper(u)' = Upper(u) /\ Lower(u)' = Lower(u)
    BY <1>1 DEF Upper, Lower, Slot
  <1>8. Lower(t) \in KIndexes /\ Upper(t) \in KIndexes /\ Lower(t) \subseteq Upper(t)
    BY <1>5, SlotIsKIndex, SlotBelow DEF Lower, Upper
  <1> DEFINE same(k) == \A s \in KIndexes : chain'[s][k] = chain[s][k]
             moved(k) ==
               /\ k \in Moving(t)
               /\ Lower(t) \in Listed(k)
               /\ chain'[Lower(t)][k] = <<>>
               /\ chain'[Upper(t)][k] = chain[Upper(t)][k] \o Reverse(chain[Lower(t)][k])
               /\ \A s \in KIndexes \ {Lower(t), Upper(t)} : chain'[s][k] = chain[s][k]
  <1>9. \A k \in Keys : same(k) \/ moved(k)
    BY <1>6, MoveUpEffect
  <1>10. \A k \in Keys : same(k) => Listed(k)' = Listed(k)
    BY DEF Listed
  <1>11. ASSUME NEW k \in Keys, moved(k)
         PROVE  /\ Slot(k, lvl[t]) = Upper(t) /\ Coll[k] = pos[t]
                /\ Listed(k)' \subseteq (Listed(k) \ {Lower(t)}) \cup {Upper(t)}
    BY <1>11 DEF Moving, Listed
  <1>12. ASSUME NEW k \in Keys, moved(k), ~stale
         PROVE  /\ Listed(k) = {Lower(t)}
                /\ Listed(k)' \subseteq {Upper(t)}
                /\ Len(chain'[Upper(t)][k]) = 1
    <2>1. Listed(k) = {Lower(t)} /\ Len(chain[Lower(t)][k]) = 1
      BY <1>12 DEF IndexInv, LookupExact
    <2>2. chain[Upper(t)][k] = <<>>
      BY <1>6, <1>8, <2>1 DEF Listed
    <2>3. chain[Lower(t)][k] \in Seq(Vals)
      BY <1>8 DEF TypeOK
    <2>4. Reverse(chain[Lower(t)][k]) \in Seq(Vals) /\ Len(Reverse(chain[Lower(t)][k])) = 1
      BY <2>1, <2>3, ReverseType
    <2>5. Len(chain'[Upper(t)][k]) = 1
      BY <1>12, <2>2, <2>4
    <2> QED
      BY <1>11, <1>12, <2>1, <2>5
  <1> HIDE DEF same, moved
  <1>13. MaskLockInv'
    BY <1>1, <1>2, <1>3, <1>4 DEF IndexInv, MaskLockInv, Arranging
  <1>14. ArrangingInv'
    BY <1>1, <1>2, <1>3, <1>4, <1>6, <1>7 DEF IndexInv, ArrangingInv, LevelsAssigned, Slot
  <1>15. AssignedInv'
    BY <1>1 DEF IndexInv, AssignedInv, Slot
  <1>16. Placement'
    <2> SUFFICES ASSUME NEW k \in Keys, NEW s \in Listed(k)'
                 PROVE  \E b \in 1 .. bits : s = Slot(k, b)
      BY <1>1 DEF Placement, Slot
    <2>1. CASE s \in Listed(k)
      BY <2>1 DEF IndexInv, Placement
    <2>2. CASE moved(k) /\ s = Upper(t)
      <3>1. lvl[t] \in 1 .. bits
        BY <1>5, <1>6
      <3> QED
        BY <1>11, <2>2, <3>1
    <2> QED
      BY <1>9, <1>10, <1>11, <2>1, <2>2
  <1>17. UnassignedOnlyInTransit'
    <2> SUFFICES ASSUME NEW k \in Keys, NEW s \in Listed(k)', s \notin assigned
                 PROVE  \E u \in maskR : Arranging(u) /\ Upper(u) = s
      BY <1>1, <1>4, <1>7 DEF UnassignedOnlyInTransit, Arranging, TypeOK
    <2>1. CASE s \in Listed(k)
      BY <2>1 DEF IndexInv, UnassignedOnlyInTransit, Arranging
    <2>2. CASE s = Upper(t)
      BY <1>4, <2>2 DEF IndexInv, MaskLockInv
    <2> QED
      BY <1>9, <1>10, <1>11, <2>1, <2>2
  <1>18. AccessInv'
    <2>1. \A u \in Threads : pc'[u] = "access" =>
             pc[u] = "access" /\ kidx'[u] = kidx[u] /\ key'[u] = key[u]
      BY <1>1, <1>2, <1>3
    <2> QED
      BY <1>1, <1>5, <2>1, AccessKept DEF IndexInv
  <1>19. LookupExact'
    <2> SUFFICES ASSUME ~stale, NEW k \in Keys, NEW s \in Listed(k)'
                 PROVE  /\ Len(chain'[s][k]) = 1
                        /\ \A r \in Listed(k)' : r = s
                        /\ Slot(k, bits) \in assigned => s = Slot(k, bits)
      BY <1>1 DEF LookupExact, Slot
    <2>1. CASE same(k)
      <3>1. Listed(k)' = Listed(k) /\ s \in Listed(k) /\ s \in KIndexes
        BY <1>10, <2>1 DEF Listed
      <3>2. chain'[s][k] = chain[s][k]
        BY <2>1, <3>1 DEF same
      <3> QED
        BY <3>1, <3>2 DEF IndexInv, LookupExact
    <2>2. CASE moved(k)
      <3>1. Slot(k, bits) \notin assigned
        <4>1. SUFFICES ASSUME Slot(k, bits) \in assigned PROVE FALSE
          OBVIOUS
        <4>2. Lower(t) = Slot(k, bits)
          BY <1>12, <2>2, <4>1 DEF IndexInv, LookupExact
        <4>3. Upper(t) \subseteq Slot(k, bits)
          BY <1>5, <1>6, <1>11, <2>2, SlotBelow
        <4> QED
          BY <1>6, <1>8, <4>2, <4>3
      <3> QED
        BY <1>12, <2>2, <3>1
    <2> QED
      BY <1>9, <2>1, <2>2
  <1>20. PassedInv'
    <2> SUFFICES ASSUME ~stale, NEW u \in Threads, Arranging(u), NEW k \in Keys, NEW s \in Listed(k)'
                 PROVE  /\ Slot(k, lvl[u] - 1) = Lower(u) => Lower(u) \subseteq s
                        /\ /\ lvl[u] <= bits
                           /\ Slot(k, lvl[u]) = Upper(u)
                           /\ Coll[k] < pos'[u]
                           => Upper(u) \subseteq s
      BY <1>1, <1>4, <1>7 DEF PassedInv, NothingLeftBehind, Slot
    <2>1. NothingLeftBehind(u)
      BY DEF IndexInv, PassedInv
    <2>2. CASE moved(k)
      <3>1. s = Upper(t) /\ Lower(t) \in Listed(k)
        BY <1>12, <2>2
      <3>2. CASE u = t
        BY <1>8, <3>1, <3>2
      <3>3. CASE u # t
        BY <1>2, <1>8, <2>1, <3>1, <3>3 DEF NothingLeftBehind
      <3> QED
        BY <3>2, <3>3
    <2>3. CASE same(k) /\ u # t
      BY <1>2, <1>10, <2>1, <2>3 DEF NothingLeftBehind
    <2>4. CASE same(k) /\ u = t
      <3>1. s \in Listed(k) /\ Listed(k)' = Listed(k)
        BY <1>10, <2>4
      <3>2. CASE Coll[k] < pos[t]
        BY <2>1, <2>4, <3>1, <3>2 DEF NothingLeftBehind
      <3>3. CASE Coll[k] = pos[t] /\ Slot(k, lvl[t]) = Upper(t)
        <4>1. k \in Moving(t)
          BY <3>3 DEF Moving
        <4>2. s # Lower(t)
          <5>1. SUFFICES ASSUME Lower(t) \in Listed(k)' PROVE FALSE
            BY DEF Listed
          <5>2. chain'[Lower(t)][k] = <<>>
            BY <1>5, <1>6, <4>1, MoveUpClears
          <5> QED
            BY <5>1, <5>2 DEF Listed
        <4>3. Slot(k, lvl[t] - 1) = Lower(t)
          <5>1. lvl[t] - 1 \in Nat /\ lvl[t] - 1 <= lvl[t]
            BY <1>5
          <5> QED
            BY <1>5, <3>3, <5>1, SlotAgree DEF Upper, Lower
        <4>4. Lower(t) \subseteq s
          BY <2>1, <2>4, <3>1, <4>3 DEF NothingLeftBehind
        <4>5. PICK b \in 1 .. bits : s = Slot(k, b)
          BY <3>1 DEF IndexInv, Placement
        <4>6. CASE b >= lvl[t]
          <5>1. Upper(t) \subseteq s
            BY <1>5, <3>3, <4>5, <4>6, SlotBelow
          <5> QED
            BY <2>4, <4>4, <5>1
        <4>7. CASE b < lvl[t]
          <5>1. b \in Nat /\ lvl[t] - 1 \in Nat /\ b <= lvl[t] - 1
            BY <1>5, <4>5, <4>7
          <5>2. s \subseteq Lower(t)
            BY <4>3, <4>5, <5>1, SlotBelow
          <5> QED
            BY <4>2, <4>4, <5>2
        <4> QED
          BY <1>5, <4>5, <4>6, <4>7
      <3>4. ~ (Coll[k] < pos[t] + 1) \/ Coll[k] < pos[t] \/ Coll[k] = pos[t]
        <4>1. Coll[k] \in Nat /\ pos[t] \in Nat
          BY KeyIndexAssumption DEF TypeOK
        <4> QED
          BY <4>1
      <3>5. Slot(k, lvl[t] - 1) = Lower(t) => Lower(t) \subseteq s
        BY <2>1, <2>4, <3>1 DEF NothingLeftBehind
      <3> QED
        BY <1>3, <2>4, <3>2, <3>3, <3>4, <3>5
    <2> QED
      BY <1>9, <2>2, <2>3, <2>4
  <1> QED
    BY <1>13, <1>14, <1>15, <1>16, <1>17, <1>18, <1>19, <1>20 DEF IndexInv


LEMMA RemoveExIndex ==
    ASSUME TypeOK, IndexInv, NEW t \in Threads, RemoveEx(t)
    PROVE  IndexInv'
  <1>1. /\ UNCHANGED <<bits, assigned, maskR, maskW, key, kidx, lvl, pos>>
        /\ stale => stale'
    BY DEF RemoveEx, LockCKIndex, locks
  <1>2. \A u \in Threads : u # t => pc'[u] = pc[u]
    BY DEF RemoveEx, TypeOK, Goto
  <1>3. pc[t] = "access" /\ pc'[t] \in {"find", "idle"}
    BY DEF RemoveEx, LockCKIndex, TypeOK, Goto
  <1>4. \A u \in Threads : Arranging(u)' <=> Arranging(u)
    BY <1>2, <1>3 DEF Arranging
  <1>5. \A u \in Threads : Upper(u)' = Upper(u) /\ Lower(u)' = Lower(u)
    BY <1>1 DEF Upper, Lower, Slot
  <1>6. bits \in Nat
    BY KeyIndexAssumption DEF TypeOK
  <1>7. ASSUME NEW k \in Keys, NEW s \in Listed(k)'
        PROVE  /\ s \in Listed(k)
               /\ Len(chain[s][k]) = 1 => chain'[s][k] = chain[s][k]
    <2>1. s \in KIndexes /\ chain'[s][k] # <<>> /\ chain[s][k] \in Seq(Vals)
      BY DEF Listed, TypeOK
    <2>2. kidx[t] \in KIndexes /\ key[t] \in Keys
      BY DEF TypeOK
    <2>3. CASE chain'[s][k] = chain[s][k]
      BY <2>1, <2>3 DEF Listed
    <2>4. CASE chain[s][k] # <<>> /\ chain'[s][k] = Tail(chain[s][k])
      <3>1. ASSUME Len(chain[s][k]) = 1 PROVE Tail(chain[s][k]) = <<>>
        <4>1. Tail(chain[s][k]) \in Seq(Vals) /\ Len(Tail(chain[s][k])) = 0
          BY <2>1, <2>4, <3>1
        <4> QED
          BY <4>1, EmptySeq
      <3> QED
        BY <2>1, <2>4, <3>1 DEF Listed
    <2> QED
      BY <2>1, <2>2, <2>3, <2>4 DEF RemoveEx, Found, TypeOK
  <1>8. MaskLockInv'
    BY <1>1, <1>2, <1>3, <1>4 DEF IndexInv, MaskLockInv
  <1>9. ArrangingInv'
    BY <1>1, <1>2, <1>3, <1>4, <1>5 DEF IndexInv, ArrangingInv, LevelsAssigned, Slot
  <1>10. AssignedInv'
    BY <1>1 DEF IndexInv, AssignedInv, Slot
  <1>11. Placement'
    BY <1>1, <1>7 DEF IndexInv, Placement, Slot
  <1>12. UnassignedOnlyInTransit'
    <2> SUFFICES ASSUME NEW k \in Keys, NEW s \in Listed(k)', s \notin assigned
                 PROVE  \E u \in maskR : Arranging(u) /\ Upper(u) = s
      BY <1>1, <1>4, <1>5 DEF UnassignedOnlyInTransit, Arranging, TypeOK
    <2> QED
      BY <1>7 DEF IndexInv, UnassignedOnlyInTransit, Arranging
  <1>13. AccessInv'
    <2>1. \A u \in Threads : pc'[u] = "access" =>
             pc[u] = "access" /\ kidx'[u] = kidx[u] /\ key'[u] = key[u]
      BY <1>1, <1>2, <1>3
    <2> QED
      BY <1>1, <1>6, <2>1, AccessKept DEF IndexInv
  <1>14. LookupExact'
    BY <1>1, <1>7 DEF IndexInv, LookupExact, Slot
  <1>15. PassedInv'
    BY <1>1, <1>4, <1>5, <1>7 DEF IndexInv, PassedInv, NothingLeftBehind, Slot
  <1> QED
    BY <1>8, <1>9, <1>10, <1>11, <1>12, <1>13, <1>14, <1>15 DEF IndexInv

LEMMA InsertElementIndex ==
    ASSUME TypeOK, IndexInv, NEW t \in Threads, InsertElement(t)
    PROVE  IndexInv'
  <1>1. /\ UNCHANGED <<bits, assigned, maskR, maskW, key, kidx, lvl, pos>>
        /\ stale => stale'
        /\ ~stale' => kidx[t] = Slot(key[t], bits)
    BY DEF InsertElement, LockCKIndex, locks, frame
  <1>2. \A u \in Threads : u # t => pc'[u] = pc[u]
    BY DEF InsertElement, TypeOK, Goto
  <1>3. pc[t] = "access" /\ pc'[t] = "check"
    BY DEF InsertElement, LockCKIndex, TypeOK, Goto
  <1>4. \A u \in Threads : Arranging(u)' <=> Arranging(u)
    BY <1>2, <1>3 DEF Arranging
  <1>5. \A u \in Threads : Upper(u)' = Upper(u) /\ Lower(u)' = Lower(u)
    BY <1>1 DEF Upper, Lower, Slot
  <1>6. bits \in Nat /\ kidx[t] \in KIndexes /\ key[t] \in Keys
    BY KeyIndexAssumption DEF TypeOK
  <1>7. kidx[t] \in assigned /\ \E b \in 1 .. bits : kidx[t] = Slot(key[t], b)
    BY <1>3 DEF IndexInv, AccessInv
  <1>8. chain[kidx[t]][key[t]] = <<>> /\ Len(chain'[kidx[t]][key[t]]) = 1
    BY <1>6 DEF InsertElement, Found, TypeOK
  <1>9. ASSUME NEW k \in Keys, NEW s \in Listed(k)'
        PROVE  \/ s \in Listed(k) /\ chain'[s][k] = chain[s][k]
               \/ s = kidx[t] /\ k = key[t]
    BY <1>6 DEF InsertElement, Listed, TypeOK
  <1>10. ASSUME ~stale'
         PROVE  ~stale /\ kidx[t] = Slot(key[t], bits) /\ Listed(key[t]) = {}
    <2>1. \A s \in Listed(key[t]) : s = kidx[t]
      BY <1>1, <1>6, <1>7, <1>10 DEF IndexInv, LookupExact
    <2> QED
      BY <1>1, <1>8, <1>10, <2>1 DEF Listed
  <1>11. MaskLockInv'
    BY <1>1, <1>2, <1>3, <1>4 DEF IndexInv, MaskLockInv
  <1>12. ArrangingInv'
    BY <1>1, <1>2, <1>3, <1>4, <1>5 DEF IndexInv, ArrangingInv, LevelsAssigned, Slot
  <1>13. AssignedInv'
    BY <1>1 DEF IndexInv, AssignedInv, Slot
  <1>14. Placement'
    BY <1>1, <1>7, <1>9 DEF IndexInv, Placement, Slot
  <1>15. UnassignedOnlyInTransit'
    <2> SUFFICES ASSUME NEW k \in Keys, NEW s \in Listed(k)', s \notin assigned
                 PROVE  \E u \in maskR : Arranging(u) /\ Upper(u) = s
      BY <1>1, <1>4, <1>5 DEF UnassignedOnlyInTransit, Arranging, TypeOK
    <2> QED
      BY <1>7, <1>9 DEF IndexInv, UnassignedOnlyInTransit, Arranging
  <1>16. AccessInv'
    <2>1. \A u \in Threads : pc'[u] = "access" =>
             pc[u] = "access" /\ kidx'[u] = kidx[u] /\ key'[u] = key[u]
      BY <1>1, <1>2, <1>3
    <2> QED
      BY <1>1, <1>6, <2>1, AccessKept DEF IndexInv
  <1>17. LookupExact'
    <2> SUFFICES ASSUME ~stale', NEW k \in Keys, NEW s \in Listed(k)'
                 PROVE  /\ Len(chain'[s][k]) = 1
                        /\ \A r \in Listed(k)' : r = s
                        /\ Slot(k, bits) \in assigned => s = Slot(k, bits)
      BY <1>1 DEF LookupExact, Slot
    <2>1. CASE k = key[t]
      BY <1>8, <1>9, <1>10, <2>1
    <2>2. CASE k # key[t]
      <3>1. \A r \in Listed(k)' : r \in Listed(k) /\ chain'[r][k] = chain[r][k]
        BY <1>9, <2>2
      <3> QED
        BY <1>10, <3>1 DEF IndexInv, LookupExact
    <2> QED
      BY <2>1, <2>2
  <1>18. PassedInv'
    <2> SUFFICES ASSUME ~stale', NEW u \in Threads, Arranging(u), NEW k \in Keys, NEW s \in Listed(k)'
                 PROVE  /\ Slot(k, lvl[u] - 1) = Lower(u) => Lower(u) \subseteq s
                        /\ /\ lvl[u] <= bits
                           /\ Slot(k, lvl[u]) = Upper(u)
                           /\ Coll[k] < pos[u]
                           => Upper(u) \subseteq s
      BY <1>1, <1>4, <1>5 DEF PassedInv, NothingLeftBehind, Slot
    <2>1. lvl[u] \in Nat /\ 2 <= lvl[u] /\ lvl[u] <= bits + 1
      BY ArrangingFacts
    <2>2. CASE s \in Listed(k)
      BY <1>10, <2>2 DEF IndexInv, PassedInv, NothingLeftBehind
    <2>3. CASE s = kidx[t] /\ k = key[t]
      <3>1. s = Slot(k, bits)
        BY <1>10, <2>3
      <3>2. lvl[u] - 1 \in Nat /\ lvl[u] - 1 <= bits
        BY <1>6, <2>1
      <3> QED
        BY <1>6, <2>1, <3>1, <3>2, SlotBelow
    <2> QED
      BY <1>9, <2>2, <2>3
  <1> QED
    BY <1>11, <1>12, <1>13, <1>14, <1>15, <1>16, <1>17, <1>18 DEF IndexInv

LEMMA ExpandKIndexAreaIndex ==
    ASSUME TypeOK, IndexInv, NEW t \in Threads, ExpandKIndexArea(t)
    PROVE  IndexInv'
  <1>1. UNCHANGED <<assigned, chain, maskR, key, kidx, lvl, pos, stale>>
    BY DEF ExpandKIndexArea, frame
  <1>2. \A u \in Threads : u # t => pc'[u] = pc[u]
    BY DEF ExpandKIndexArea, TypeOK, Goto
  <1>3. pc[t] = "grow" /\ pc'[t] = "idle"
    BY DEF ExpandKIndexArea, TypeOK, Goto
  <1>4. bits \in Nat /\ (bits' = bits \/ bits' = bits + 1)
    BY KeyIndexAssumption DEF ExpandKIndexArea, TypeOK
  <1>5. maskW = t /\ maskR = {}
    BY <1>3 DEF IndexInv, MaskLockInv
  <1>6. \A u \in Threads : ~Arranging(u) /\ ~Arranging(u)'
    BY <1>2, <1>3, <1>5 DEF IndexInv, MaskLockInv, Arranging
  <1>7. \A k \in Keys : Listed(k)' = Listed(k)
    BY <1>1 DEF Listed
  <1>8. MaskLockInv'
    BY <1>1, <1>2, <1>3, <1>5, <1>6 DEF IndexInv, MaskLockInv
  <1>9. ArrangingInv' /\ PassedInv'
    BY <1>6 DEF ArrangingInv, PassedInv
  <1>10. AssignedInv'
    <2>1. ASSUME NEW s \in assigned, NEW b \in 1 .. bits'
          PROVE  s \cap (1 .. b) \in assigned
      <3>1. CASE b \in 1 .. bits
        BY <3>1 DEF IndexInv, AssignedInv
      <3>2. CASE b = bits + 1
        <4>1. s \cap (1 .. b) = s
          BY <1>4, <3>2 DEF IndexInv, AssignedInv
        <4> QED
          BY <4>1
      <3> QED
        BY <1>4, <3>1, <3>2
    <2>2. \A s \in assigned : s \subseteq 1 .. bits'
      BY <1>4 DEF IndexInv, AssignedInv
    <2> QED
      BY <1>1, <2>1, <2>2 DEF IndexInv, AssignedInv, Slot
  <1>11. Placement'
    <2>1. \A b \in 1 .. bits : b \in 1 .. bits'
      BY <1>4
    <2> QED
      BY <1>7, <2>1 DEF IndexInv, Placement, Slot
  <1>12. UnassignedOnlyInTransit'
    BY <1>1, <1>6, <1>7 DEF IndexInv, UnassignedOnlyInTransit, Arranging, TypeOK
  <1>13. AccessInv'
    <2>1. \A u \in Threads : pc'[u] = "access" =>
             pc[u] = "access" /\ kidx'[u] = kidx[u] /\ key'[u] = key[u]
      BY <1>1, <1>2, <1>3
    <2>2. bits' \in Nat /\ bits <= bits'
      BY <1>4
    <2> QED
      BY <1>1, <1>4, <2>1, <2>2, AccessKept DEF IndexInv
  <1>14. LookupExact'
    <2>1. ASSUME NEW k \in Keys, Slot(k, bits') \in assigned
          PROVE  Slot(k, bits) = Slot(k, bits')
      <3>1. Slot(k, bits') \subseteq 1 .. bits
        BY <2>1 DEF IndexInv, AssignedInv
      <3>2. bits' \in Nat /\ bits <= bits'
        BY <1>4
      <3> QED
        BY <1>4, <3>1, <3>2, SlotPinned
    <2> SUFFICES ASSUME ~stale, NEW k \in Keys, NEW s \in Listed(k)
                 PROVE  /\ Len(chain[s][k]) = 1
                        /\ \A r \in Listed(k) : r = s
                        /\ Slot(k, bits') \in assigned => s = Slot(k, bits')
      BY <1>1, <1>7 DEF LookupExact, Slot
    <2> QED
      BY <2>1 DEF IndexInv, LookupExact
  <1> QED
    BY <1>8, <1>9, <1>10, <1>11, <1>12, <1>13, <1>14 DEF IndexInv


-----------------------------------------------------------------------------
\* Safety: the theorems

LEMMA NextIndex == TypeOK /\ IndexInv /\ [Next]_vars => IndexInv'
  <1> SUFFICES ASSUME TypeOK, IndexInv, [Next]_vars PROVE IndexInv'
    OBVIOUS
  <1>1. CASE UNCHANGED vars
    <2>1. /\ UNCHANGED index
          /\ UNCHANGED <<maskR, maskW, pc, key, kidx, lvl, pos, stale>>
      BY <1>1 DEF vars, locks, frame
    <2>2. MaskLockInv' /\ AccessInv'
      BY <2>1 DEF IndexInv, MaskLockInv, AccessInv, Arranging, index, Slot
    <2>3. \A u \in Threads : Arranging(u)' <=> Arranging(u)
      BY <2>1 DEF Arranging
    <2> QED
      BY <2>1, <2>2, <2>3, QuietStep
  <1>2. CASE Done
    BY <1>1, <1>2 DEF Done
  <1>3. ASSUME NEW t \in Threads, NEW j \in {"get", "del", "set"},
               NEW k \in Keys, NEW v \in Vals, Begin(t, j, k, v)
        PROVE  IndexInv'
    BY <1>3, BeginIndex
  <1>4. ASSUME NEW t \in Threads, Step(t)
        PROVE  IndexInv'
    BY <1>4, FindAssignedIndex, StartArrangeIndex, SkipLevelIndex, LockLowerIndex,
       MoveUpIndex, AssignUpperIndex, ArrangeDoneIndex, GetElementIndex, RemoveExIndex,
       InsertElementIndex, RetrySetIndex, LockMaskToCountIndex, CountElementsIndex,
       LockMaskToExpandIndex, ExpandKIndexAreaIndex
       DEF Step
  <1> QED
    BY <1>1, <1>2, <1>3, <1>4 DEF Next

\* The inductive invariant holds in every reachable state.
THEOREM IndexCorrect == Spec => []IndexInv
  BY InitType, NextType, InitIndex, NextIndex, PTL DEF Spec

\* An element is only ever listed under a KINDEX of its own hash, through any
\* number of concurrent expansions, arrangements and calls.
THEOREM PlacementHolds == Spec => []Placement
  <1>1. IndexInv => Placement
    BY DEF IndexInv
  <1> QED
    BY <1>1, IndexCorrect, PTL

\* KINDEXes are assigned from the bottom of every path, so that the search from
\* the top down may stop at the first assigned one.
THEOREM AssignedFromBelowHolds == Spec => []AssignedFromBelow
  <1>1. TypeOK /\ IndexInv => AssignedFromBelow
    <2> SUFFICES ASSUME TypeOK, IndexInv, NEW k \in Keys, NEW b \in 2 .. bits, Slot(k, b) \in assigned
                 PROVE  Slot(k, b - 1) \in assigned
      BY DEF AssignedFromBelow
    <2>1. b \in Nat /\ b - 1 \in 1 .. bits /\ b - 1 \in Nat /\ b - 1 <= b
      BY KeyIndexAssumption DEF TypeOK
    <2>2. Slot(k, b) \cap (1 .. b - 1) \in assigned
      BY <2>1 DEF IndexInv, AssignedInv
    <2> QED
      BY <2>1, <2>2, SlotBelow
  <1> QED
    BY <1>1, TypeCorrect, IndexCorrect, PTL

\* Elements are under an unassigned KINDEX only during an arrangement that
\* keeps cur_mask locked for reading.
THEOREM UnassignedOnlyInTransitHolds == Spec => []UnassignedOnlyInTransit
  <1>1. IndexInv => UnassignedOnlyInTransit
    BY DEF IndexInv
  <1> QED
    BY <1>1, IndexCorrect, PTL

\* While no call has used an outgrown KINDEX, every key has at most one element
\* and a lookup that finds its KINDEX assigned finds the element there.
THEOREM LookupExactHolds == Spec => []LookupExact
  <1>1. IndexInv => LookupExact
    BY DEF IndexInv
  <1> QED
    BY <1>1, IndexCorrect, PTL

\* cur_mask never grows under a thread that arranges or counts with it.
THEOREM MaskStable == Spec => MaskStableForReaders
  <1>1. TypeOK /\ IndexInv /\ [Next]_vars =>
          [bits' # bits => \A t \in Threads : pc[t] \notin {"arrange", "move", "count"}]_vars
    <2> SUFFICES ASSUME TypeOK, IndexInv, Next, bits' # bits, NEW t \in Threads
                 PROVE  pc[t] \notin {"arrange", "move", "count"}
      BY DEF vars, index
    <2>1. PICK u \in Threads : pc[u] = "grow"
      BY DEF Next, Done, Begin, Step, FindAssigned, StartArrange, SkipLevel, LockLower, MoveUp,
             AssignUpper, ArrangeDone, GetElement, RemoveEx, InsertElement, RetrySet,
             LockMaskToCount, CountElements, LockMaskToExpand, ExpandKIndexArea, vars, index
    <2>2. maskR = {}
      BY <2>1 DEF IndexInv, MaskLockInv
    <2> QED
      BY <2>2 DEF IndexInv, MaskLockInv, Arranging
  <1> QED
    BY <1>1, TypeCorrect, IndexCorrect, PTL DEF Spec, MaskStableForReaders

-----------------------------------------------------------------------------
\* The store: the value of a key in a given index

ValueIn(c, k) ==
    IF \E s \in KIndexes : c[s][k] # <<>>
      THEN Head(c[CHOOSE s \in KIndexes : c[s][k] # <<>>][k])
      ELSE Missing

\* A key listed under one KINDEX only has the value at the head of that list.
LEMMA OneHome ==
    ASSUME NEW c, NEW k, NEW s \in KIndexes, c[s][k] # <<>>,
           \A r \in KIndexes : c[r][k] # <<>> => r = s
    PROVE  ValueIn(c, k) = Head(c[s][k])
  <1>1. (CHOOSE r \in KIndexes : c[r][k] # <<>>) = s
    BY Zenon
  <1> QED
    BY <1>1 DEF ValueIn

\* A key listed nowhere has none.
LEMMA NoHome ==
    ASSUME NEW c, NEW k, \A r \in KIndexes : c[r][k] = <<>>
    PROVE  ValueIn(c, k) = Missing
  BY DEF ValueIn

\* A key whose lists are the same has the same value.
LEMMA SameHome ==
    ASSUME NEW c, NEW d, NEW k, \A r \in KIndexes : c[r][k] = d[r][k]
    PROVE  ValueIn(c, k) = ValueIn(d, k)
  <1>1. (CHOOSE r \in KIndexes : c[r][k] # <<>>) = (CHOOSE r \in KIndexes : d[r][k] # <<>>)
    BY Zenon
  <1>2. CASE \E r \in KIndexes : c[r][k] # <<>>
    <2>1. (CHOOSE r \in KIndexes : c[r][k] # <<>>) \in KIndexes
      BY <1>2, Zenon
    <2> QED
      BY <1>1, <1>2, <2>1 DEF ValueIn
  <1>3. CASE \A r \in KIndexes : c[r][k] = <<>>
    BY <1>3 DEF ValueIn
  <1> QED
    BY <1>2, <1>3

LEMMA StoreBarIs ==
    /\ StoreBar = [k \in Keys |-> ValueIn(chain, k)]
    /\ StoreBar' = [k \in Keys |-> ValueIn(chain', k)]
  BY Zenon DEF StoreBar, ValueIn

\* When no KINDEX was outgrown, the KINDEX that a call looks its key up in is the
\* only one that may list it: what the call finds is the value in the store.
LEMMA FoundIsStored ==
    ASSUME TypeOK, IndexInv, NEW t \in Threads, LockCKIndex(t), (~stale)'
    PROVE  /\ ~stale
           /\ key[t] \in Keys /\ kidx[t] \in KIndexes /\ Found(t) \in Seq(Vals)
           /\ \A r \in KIndexes \ {kidx[t]} : chain[r][key[t]] = <<>>
           /\ Found(t) # <<>> => Found(t) = <<StoreBar[key[t]]>> /\ StoreBar[key[t]] \in Vals
           /\ Found(t) = <<>> => StoreBar[key[t]] = Missing
  <1>1. ~stale /\ kidx[t] = Slot(key[t], bits)
    BY DEF LockCKIndex
  <1>2. key[t] \in Keys /\ kidx[t] \in KIndexes /\ Found(t) \in Seq(Vals)
    BY DEF TypeOK, Found
  <1>3. kidx[t] \in assigned
    BY DEF IndexInv, AccessInv, LockCKIndex
  <1>4. \A r \in KIndexes : chain[r][key[t]] # <<>> => r = kidx[t] /\ Len(chain[r][key[t]]) = 1
    BY <1>1, <1>2, <1>3 DEF IndexInv, LookupExact, Listed
  <1>5. \A r \in KIndexes \ {kidx[t]} : chain[r][key[t]] = <<>>
    BY <1>4
  <1>6. ASSUME Found(t) # <<>>
        PROVE  Found(t) = <<StoreBar[key[t]]>> /\ StoreBar[key[t]] \in Vals
    <2>1. chain[kidx[t]][key[t]] # <<>>
      BY <1>6 DEF Found
    <2>2. ValueIn(chain, key[t]) = Head(Found(t))
      BY <1>2, <1>4, <2>1, OneHome DEF Found
    <2>3. StoreBar[key[t]] = Head(Found(t))
      BY <1>2, <2>2, StoreBarIs
    <2>4. Len(Found(t)) = 1
      BY <1>2, <1>4, <2>1 DEF Found
    <2>5. Found(t) = <<Head(Found(t))>> /\ Head(Found(t)) \in Vals
      BY <1>2, <2>4
    <2> QED
      BY <2>3, <2>5
  <1>7. ASSUME Found(t) = <<>> PROVE StoreBar[key[t]] = Missing
    <2>1. \A r \in KIndexes : chain[r][key[t]] = <<>>
      BY <1>5, <1>7 DEF Found
    <2>2. ValueIn(chain, key[t]) = Missing
      BY <2>1, NoHome
    <2> QED
      BY <1>2, <2>2, StoreBarIs
  <1> QED
    BY <1>1, <1>2, <1>5, <1>6, <1>7

-----------------------------------------------------------------------------
\* The store: steps it does not see

\* What is left as it is when neither the lists nor the place of a thread among
\* the steps of its call change.
LEMMA Unseen ==
    ASSUME chain' = chain, JobBar' = JobBar, UNCHANGED <<key, val, res>>
    PROVE  UNCHANGED <<StoreBar, JobBar, key, val, res>>
  BY StoreBarIs

\* Looking a KINDEX up, arranging without moving and expanding.
Aside(t) ==
    \/ FindAssigned(t)
    \/ StartArrange(t)
    \/ SkipLevel(t)
    \/ LockLower(t)
    \/ AssignUpper(t)
    \/ ArrangeDone(t)
    \/ LockMaskToCount(t)
    \/ CountElements(t)
    \/ LockMaskToExpand(t)
    \/ ExpandKIndexArea(t)

LEMMA AsideUnseen ==
    ASSUME TypeOK, NEW t \in Threads, Aside(t)
    PROVE  UNCHANGED <<StoreBar, JobBar, key, val, res>>
  <1> USE DEF Goto
  <1>1. chain' = chain /\ job' = job /\ UNCHANGED <<key, val, res>>
    BY DEF Aside, FindAssigned, StartArrange, SkipLevel, LockLower, AssignUpper, ArrangeDone,
           LockMaskToCount, CountElements, LockMaskToExpand, ExpandKIndexArea, index, frame
  <1>2. \A u \in Threads :
           pc'[u] \in {"find", "arrange", "move", "access"}
           <=> pc[u] \in {"find", "arrange", "move", "access"}
    BY DEF Aside, FindAssigned, StartArrange, SkipLevel, LockLower, AssignUpper, ArrangeDone,
           LockMaskToCount, CountElements, LockMaskToExpand, ExpandKIndexArea, TypeOK
  <1>3. JobBar' = JobBar
    BY <1>1, <1>2 DEF JobBar
  <1> QED
    BY <1>1, <1>3, Unseen

\* A list of one element is the same when it is reversed.
LEMMA ReverseOne ==
    ASSUME NEW s \in Seq(Vals), Len(s) = 1
    PROVE  <<>> \o Reverse(s) = s
  <1>1. Reverse(s) \in Seq(Vals) /\ Len(Reverse(s)) = 1 /\ Reverse(s)[1] = s[1]
    BY ReverseType DEF Reverse
  <1> QED
    BY <1>1

\* Moving an element to another KINDEX leaves the value of its key.
LEMMA MoveUpUnseen ==
    ASSUME TypeOK, IndexInv, NEW t \in Threads, MoveUp(t), (~stale)'
    PROVE  UNCHANGED <<StoreBar, JobBar, key, val, res>>
  <1>1. Lower(t) \in KIndexes /\ Upper(t) \in KIndexes
    BY SlotIsKIndex DEF Lower, Upper, TypeOK
  <1>2. Upper(t) # Lower(t)
    BY DEF MoveUp, IndexInv, ArrangingInv, LevelsAssigned, Arranging
  <1>3. ~stale
    BY DEF MoveUp
  <1>4. ASSUME NEW k \in Keys PROVE ValueIn(chain', k) = ValueIn(chain, k)
    <2>1. CASE \A s \in KIndexes : chain'[s][k] = chain[s][k]
      BY <2>1, SameHome
    <2>2. CASE /\ Lower(t) \in Listed(k)
               /\ chain'[Lower(t)][k] = <<>>
               /\ chain'[Upper(t)][k] = chain[Upper(t)][k] \o Reverse(chain[Lower(t)][k])
               /\ \A s \in KIndexes \ {Lower(t), Upper(t)} : chain'[s][k] = chain[s][k]
      <3> DEFINE list == chain[Lower(t)][k]
      <3>1. list # <<>> /\ list \in Seq(Vals) /\ Len(list) = 1
        BY <1>1, <1>3, <2>2 DEF Listed, TypeOK, IndexInv, LookupExact
      <3>2. \A r \in KIndexes : chain[r][k] # <<>> => r = Lower(t)
        BY <1>3, <2>2 DEF Listed, IndexInv, LookupExact
      <3>3. chain[Upper(t)][k] = <<>>
        BY <1>1, <1>2, <3>2
      <3>4. chain'[Upper(t)][k] = list
        BY <2>2, <3>1, <3>3, ReverseOne
      <3>5. \A r \in KIndexes : chain'[r][k] # <<>> => r = Upper(t)
        BY <2>2, <3>2
      <3>6. chain'[Upper(t)][k] # <<>>
        BY <3>1, <3>4
      <3>7. ValueIn(chain', k) = Head(chain'[Upper(t)][k])
        <4> DEFINE c == chain'
        <4>1. c[Upper(t)][k] # <<>> /\ \A r \in KIndexes : c[r][k] # <<>> => r = Upper(t)
          BY <3>5, <3>6
        <4> HIDE DEF c
        <4>2. ValueIn(c, k) = Head(c[Upper(t)][k])
          BY <1>1, <4>1, OneHome
        <4> QED
          BY <4>2 DEF c
      <3>8. ValueIn(chain, k) = Head(list)
        BY <1>1, <3>1, <3>2, OneHome
      <3> QED
        BY <3>4, <3>7, <3>8
    <2> QED
      BY <1>2, <2>1, <2>2, MoveUpEffect
  <1>5. StoreBar' = StoreBar
    BY <1>4, StoreBarIs
  <1>6. job' = job /\ UNCHANGED <<key, val, res>>
    BY DEF MoveUp
  <1>7. \A u \in Threads :
           pc'[u] \in {"find", "arrange", "move", "access"}
           <=> pc[u] \in {"find", "arrange", "move", "access"}
    BY DEF MoveUp, Goto, TypeOK
  <1>8. JobBar' = JobBar
    BY <1>6, <1>7 DEF JobBar
  <1> QED
    BY <1>5, <1>6, <1>8

-----------------------------------------------------------------------------
\* The store: its own steps

\* What a step of thread t does to the jobs of the store.
LEMMA JobStep ==
    ASSUME TypeOK, NEW t \in Threads, NEW step, NEW j, NEW next,
           pc' = [pc EXCEPT ![t] = step], job' = [job EXCEPT ![t] = j],
           next = IF step \in {"find", "arrange", "move", "access"} THEN j ELSE "idle"
    PROVE  JobBar' = [JobBar EXCEPT ![t] = next]
  <1>1. \A u \in Threads : pc'[u] = (IF u = t THEN step ELSE pc[u])
                        /\ job'[u] = (IF u = t THEN j ELSE job[u])
    BY DEF TypeOK
  <1>2. \A u \in Threads :
          (IF pc'[u] \in {"find", "arrange", "move", "access"} THEN job'[u] ELSE "idle")
          = IF u = t THEN next
            ELSE IF pc[u] \in {"find", "arrange", "move", "access"} THEN job[u] ELSE "idle"
    BY <1>1
  <1> QED
    BY <1>2 DEF JobBar

LEMMA BeginStored ==
    ASSUME TypeOK, NEW t \in Threads, NEW j \in {"get", "del", "set"}, NEW k \in Keys,
           NEW v \in Vals, Begin(t, j, k, v)
    PROVE  Abstract!Call(t, j, k, v)
  <1>1. JobBar[t] = "idle"
    BY DEF Begin, JobBar
  <1>2. JobBar' = [JobBar EXCEPT ![t] = j]
    BY JobStep DEF Begin, Goto
  <1>3. StoreBar' = StoreBar
    BY StoreBarIs DEF Begin, index
  <1> QED
    BY <1>1, <1>2, <1>3 DEF Begin, Abstract!Call

\* In the middle of a call the store has the job of the call.
LEMMA JobOfCall ==
    ASSUME TypeOK, NEW t \in Threads, LockCKIndex(t)
    PROVE  JobBar[t] = job[t]
  BY DEF LockCKIndex, JobBar

LEMMA GetStored ==
    ASSUME TypeOK, IndexInv, NEW t \in Threads, GetElement(t), (~stale)'
    PROVE  Abstract!Read(t)
  <1>1. LockCKIndex(t) /\ job[t] = "get"
    BY DEF GetElement
  <1>2. JobBar[t] = "get"
    BY <1>1, JobOfCall
  <1>3. (IF Found(t) = <<>> THEN Missing ELSE Head(Found(t))) = StoreBar[key[t]]
    BY <1>1, FoundIsStored
  <1>4. res' = [res EXCEPT ![t] = StoreBar[key[t]]]
    BY <1>3 DEF GetElement
  <1>5. job' = [job EXCEPT ![t] = "get"]
    BY <1>1 DEF GetElement, TypeOK
  <1>6. JobBar' = [JobBar EXCEPT ![t] = "idle"]
    <2>1. pc' = [pc EXCEPT ![t] = "idle"]
      BY DEF GetElement, Goto
    <2>2. "idle" = IF "idle" \in {"find", "arrange", "move", "access"} THEN "get" ELSE "idle"
      OBVIOUS
    <2> QED
      BY <1>5, <2>1, <2>2, JobStep, Zenon
  <1>7. StoreBar' = StoreBar /\ UNCHANGED <<key, val>>
    BY StoreBarIs DEF GetElement, index
  <1> QED
    BY <1>2, <1>4, <1>6, <1>7 DEF Abstract!Read

\* Only the list of its key under its KINDEX changes.
LEMMA StoreStep ==
    ASSUME TypeOK, IndexInv, NEW t \in Threads, LockCKIndex(t), (~stale)', NEW list,
           chain' = [chain EXCEPT ![kidx[t]][key[t]] = list]
    PROVE  StoreBar' = [StoreBar EXCEPT ![key[t]] =
                          IF list = <<>> THEN Missing ELSE Head(list)]
  <1>1. /\ key[t] \in Keys /\ kidx[t] \in KIndexes
        /\ \A r \in KIndexes \ {kidx[t]} : chain[r][key[t]] = <<>>
    BY FoundIsStored
  <1>2. /\ chain'[kidx[t]][key[t]] = list
        /\ \A r \in KIndexes \ {kidx[t]} : chain'[r] = chain[r]
        /\ \A r \in KIndexes, k \in Keys \ {key[t]} : chain'[r][k] = chain[r][k]
    BY <1>1 DEF TypeOK
  <1>3. \A k \in Keys \ {key[t]} : ValueIn(chain', k) = ValueIn(chain, k)
    <2> DEFINE c == chain'
    <2>1. \A r \in KIndexes, k \in Keys \ {key[t]} : c[r][k] = chain[r][k]
      BY <1>2
    <2> HIDE DEF c
    <2>2. \A k \in Keys \ {key[t]} : ValueIn(c, k) = ValueIn(chain, k)
      BY <2>1, SameHome
    <2> QED
      BY <2>2 DEF c
  <1>4. ValueIn(chain', key[t]) = IF list = <<>> THEN Missing ELSE Head(list)
    <2> DEFINE c == chain'
               s == kidx[t]
               k == key[t]
    <2>1. s \in KIndexes /\ c[s][k] = list /\ \A r \in KIndexes : c[r][k] # <<>> => r = s
      BY <1>1, <1>2
    <2> HIDE DEF c, s, k
    <2>2. CASE list = <<>>
      <3>1. \A r \in KIndexes : c[r][k] = <<>>
        BY <2>1, <2>2
      <3>2. ValueIn(c, k) = Missing
        BY <3>1, NoHome
      <3> QED
        BY <2>2, <3>2 DEF c, k
    <2>3. CASE list # <<>>
      <3>1. ValueIn(c, k) = Head(c[s][k])
        BY <2>1, <2>3, OneHome
      <3> QED
        BY <2>1, <2>3, <3>1 DEF c, k
    <2> QED
      BY <2>2, <2>3
  <1> QED
    BY <1>1, <1>3, <1>4, StoreBarIs

LEMMA RemoveStored ==
    ASSUME TypeOK, IndexInv, NEW t \in Threads, RemoveEx(t), (~stale)'
    PROVE  Abstract!Delete(t) \/ Abstract!Clear(t)
  <1>1. LockCKIndex(t) /\ job[t] \in {"del", "set"} /\ UNCHANGED <<key, val, res>>
    BY DEF RemoveEx
  <1>2. JobBar[t] = job[t]
    BY <1>1, JobOfCall
  <1>3. /\ Found(t) # <<>> => Found(t) = <<StoreBar[key[t]]>>
        /\ Found(t) = <<>> => StoreBar[key[t]] = Missing
        /\ key[t] \in Keys /\ kidx[t] \in KIndexes
    BY <1>1, FoundIsStored
  <1>4. StoreBar' = [StoreBar EXCEPT ![key[t]] = Missing]
    <2>1. CASE Found(t) = <<>>
      <3>1. StoreBar' = StoreBar
        BY <2>1, StoreBarIs DEF RemoveEx
      <3>2. StoreBar = [k \in Keys |-> StoreBar[k]]
        BY StoreBarIs
      <3> QED
        BY <1>3, <2>1, <3>1, <3>2
    <2>2. CASE Found(t) # <<>>
      <3>1. chain' = [chain EXCEPT ![kidx[t]][key[t]] = Tail(Found(t))]
        BY <2>2, <1>3 DEF RemoveEx, Found
      <3>2. Tail(Found(t)) = <<>>
        <4> DEFINE v == StoreBar[key[t]]
        <4>1. Found(t) = <<v>>
          BY <1>3, <2>2
        <4> HIDE DEF v
        <4>2. Tail(<<v>>) = <<>>
          OBVIOUS
        <4> QED
          BY <4>1, <4>2
      <3>3. chain' = [chain EXCEPT ![kidx[t]][key[t]] = <<>>]
        BY <3>1, <3>2
      <3> QED
        BY <1>1, <3>3, StoreStep
    <2> QED
      BY <2>1, <2>2
  <1>5. CASE job[t] = "set"
    <2>1. JobBar' = [JobBar EXCEPT ![t] = "ins"]
      <3>1. pc' = [pc EXCEPT ![t] = "find"] /\ job' = [job EXCEPT ![t] = "ins"]
        BY <1>5 DEF RemoveEx, Goto
      <3>2. "ins" = IF "find" \in {"find", "arrange", "move", "access"} THEN "ins" ELSE "idle"
        OBVIOUS
      <3> QED
        BY <3>1, <3>2, JobStep, Zenon
    <2> QED
      BY <1>1, <1>2, <1>4, <1>5, <2>1 DEF Abstract!Clear
  <1>6. CASE job[t] = "del"
    <2>1. job' = [job EXCEPT ![t] = "del"]
      BY <1>6 DEF RemoveEx, TypeOK
    <2>2. JobBar' = [JobBar EXCEPT ![t] = "idle"]
      <3>1. pc' = [pc EXCEPT ![t] = "idle"]
        BY <1>6 DEF RemoveEx, Goto
      <3>2. "idle" = IF "idle" \in {"find", "arrange", "move", "access"} THEN "del" ELSE "idle"
        OBVIOUS
      <3> QED
        BY <2>1, <3>1, <3>2, JobStep, Zenon
    <2> QED
      BY <1>1, <1>2, <1>4, <1>6, <2>2 DEF Abstract!Delete
  <1> QED
    BY <1>1, <1>5, <1>6

LEMMA InsertStored ==
    ASSUME TypeOK, IndexInv, NEW t \in Threads, InsertElement(t), (~stale)'
    PROVE  Abstract!Put(t)
  <1>1. /\ LockCKIndex(t) /\ job[t] = "ins" /\ Found(t) = <<>>
        /\ job' = job /\ UNCHANGED <<key, val, res>>
    BY DEF InsertElement, frame
  <1>2. JobBar[t] = "ins"
    BY <1>1, JobOfCall
  <1>3. StoreBar[key[t]] = Missing
    BY <1>1, FoundIsStored
  <1>4. chain' = [chain EXCEPT ![kidx[t]][key[t]] = <<val[t]>>]
    <2>1. Append(chain[kidx[t]][key[t]], val[t]) = <<val[t]>>
      BY <1>1 DEF Found
    <2>2. kidx[t] \in KIndexes /\ key[t] \in Keys
      BY <1>1, FoundIsStored
    <2> QED
      BY <2>1, <2>2 DEF InsertElement, TypeOK
  <1>5. StoreBar' = [StoreBar EXCEPT ![key[t]] = val[t]]
    <2>1. <<val[t]>> # <<>> /\ Head(<<val[t]>>) = val[t]
      OBVIOUS
    <2>2. StoreBar' = [StoreBar EXCEPT ![key[t]] =
                         IF <<val[t]>> = <<>> THEN Missing ELSE Head(<<val[t]>>)]
      BY <1>1, <1>4, StoreStep
    <2> QED
      BY <2>1, <2>2
  <1>6. job' = [job EXCEPT ![t] = "ins"]
    BY <1>1 DEF TypeOK
  <1>7. JobBar' = [JobBar EXCEPT ![t] = "idle"]
    BY <1>6, JobStep DEF InsertElement, Goto
  <1> QED
    BY <1>1, <1>2, <1>3, <1>5, <1>7 DEF Abstract!Put

LEMMA RetryStored ==
    ASSUME TypeOK, IndexInv, NEW t \in Threads, RetrySet(t), (~stale)'
    PROVE  Abstract!Put(t)
  <1>1. /\ LockCKIndex(t) /\ job[t] = "ins" /\ Found(t) # <<>>
        /\ chain' = chain /\ UNCHANGED <<key, val, res>>
    BY DEF RetrySet, index
  <1>2. JobBar[t] = "ins"
    BY <1>1, JobOfCall
  <1>3. StoreBar[key[t]] \in Vals
    BY <1>1, FoundIsStored
  <1>4. StoreBar[key[t]] # Missing
    BY <1>3, KeyIndexAssumption
  <1>5. JobBar' = [JobBar EXCEPT ![t] = "set"]
    BY JobStep DEF RetrySet, Goto
  <1>6. StoreBar' = StoreBar
    BY <1>1, StoreBarIs
  <1> QED
    BY <1>1, <1>2, <1>4, <1>5, <1>6 DEF Abstract!Put

-----------------------------------------------------------------------------
\* The store: the theorem

LEMMA InitStored == Init => Abstract!StoreInit
  <1> SUFFICES ASSUME Init PROVE Abstract!StoreInit
    OBVIOUS
  <1>1. \A k \in Keys : ValueIn(chain, k) = Missing
    BY NoHome DEF Init
  <1>2. StoreBar = [k \in Keys |-> Missing]
    BY <1>1, StoreBarIs
  <1>3. JobBar = [t \in Threads |-> "idle"]
    BY DEF Init, JobBar
  <1>4. key \in [Threads -> Keys] /\ val \in [Threads -> Vals]
    BY InitType DEF TypeOK
  <1>5. res = [t \in Threads |-> Missing]
    BY DEF Init
  <1> QED
    BY <1>2, <1>3, <1>4, <1>5, Zenon DEF Abstract!StoreInit

LEMMA NextStored ==
    ASSUME TypeOK, IndexInv, [Next]_vars
    PROVE  [Abstract!StoreNext \/ stale']_<<StoreBar, JobBar, key, val, res>>
  <1> SUFFICES ASSUME (~stale)'
               PROVE  Abstract!StoreNext \/ UNCHANGED <<StoreBar, JobBar, key, val, res>>
    OBVIOUS
  <1>1. ASSUME NEW t \in Threads, NEW j \in {"get", "del", "set"}, NEW k \in Keys,
               NEW v \in Vals, Begin(t, j, k, v)
        PROVE  Abstract!StoreNext
    BY <1>1, BeginStored, Zenon DEF Abstract!StoreNext
  <1>2. ASSUME NEW t \in Threads, Step(t)
        PROVE  Abstract!StoreNext \/ UNCHANGED <<StoreBar, JobBar, key, val, res>>
    <2>1. CASE Aside(t)
      BY <2>1, AsideUnseen
    <2>2. CASE MoveUp(t)
      BY <2>2, MoveUpUnseen
    <2>3. CASE GetElement(t)
      <3>1. Abstract!Read(t)
        BY <2>3, GetStored
      <3> QED
        BY <3>1, Zenon DEF Abstract!StoreNext
    <2>4. CASE RemoveEx(t)
      <3>1. Abstract!Delete(t) \/ Abstract!Clear(t)
        BY <2>4, RemoveStored
      <3> QED
        BY <3>1, Zenon DEF Abstract!StoreNext
    <2>5. CASE InsertElement(t) \/ RetrySet(t)
      <3>1. Abstract!Put(t)
        BY <2>5, InsertStored, RetryStored
      <3> QED
        BY <3>1, Zenon DEF Abstract!StoreNext
    <2> QED
      BY <1>2, <2>1, <2>2, <2>3, <2>4, <2>5, Zenon DEF Step, Aside
  <1>3. ASSUME UNCHANGED vars PROVE UNCHANGED <<StoreBar, JobBar, key, val, res>>
    <2>1. chain' = chain /\ pc' = pc /\ job' = job /\ UNCHANGED <<key, val, res>>
      BY <1>3 DEF vars, index, frame
    <2>2. JobBar' = JobBar
      BY <2>1 DEF JobBar
    <2> QED
      BY <2>1, <2>2, Unseen
  <1> QED
    BY <1>1, <1>2, <1>3 DEF Next, Done

\* Get, Set and Remove of any number of threads act as on a map from keys to
\* values: until a call uses a KINDEX that cur_mask has outgrown, each step of the
\* key index is a step of the store or is not seen there, whatever arrangement and
\* expansion happen in between.
THEOREM StoreIsImplemented == Spec => ImplementsStore
  <1>1. TypeOK /\ IndexInv /\ [Next]_vars
          => [Abstract!StoreNext \/ stale']_<<StoreBar, JobBar, key, val, res>>
    BY NextStored
  <1> QED
    BY <1>1, InitStored, TypeCorrect, IndexCorrect, PTL DEF Spec, ImplementsStore
=============================================================================
