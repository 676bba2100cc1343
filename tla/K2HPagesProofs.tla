--------------------------- MODULE K2HPagesProofs ---------------------------
(***************************************************************************)
(* Theorems about K2HPages, for any number of threads, keys, values, pages, *)
(* elements and calls.                                                      *)
(***************************************************************************)
EXTENDS K2HPages, K2HSequences, FiniteSetTheorems

-----------------------------------------------------------------------------
\* Types

PageType ==
    /\ pages \in 0 .. MaxPages
    /\ free \in Chains
    /\ freeCount \in Nat
    /\ fpcW \in Threads \cup {NoThread}
    /\ data \in [1 .. MaxPages -> Parts]

ElementType ==
    /\ elements \in 0 .. MaxElements
    /\ freeElems \in Seq(Elements)
    /\ elemCount \in Nat
    /\ keyOf \in [Elements -> Chains]
    /\ valOf \in [Elements -> Chains]
    /\ listed \in [Keys -> Elements \cup {NoElement}]

CallType ==
    /\ ckiR \in [CKIndexes -> SUBSET Threads]
    /\ ckiW \in [CKIndexes -> Threads \cup {NoThread}]
    /\ pc \in [Threads -> Steps]
    /\ job \in [Threads -> {"get", "del", "set", "rep"}]
    /\ key \in [Threads -> Keys]
    /\ val \in [Threads -> Vals]
    /\ calls \in 0 .. MaxCalls

HandType ==
    /\ elem \in [Threads -> Elements \cup {NoElement}]
    /\ hand \in [Threads -> Seq(Chains)]
    /\ drop \in [Threads -> Seq(Chains)]
    /\ got \in [Threads -> Seq(Parts)]
    /\ res \in [Threads -> Vals \cup {Missing, Torn}]

LEMMA TypeParts ==
    /\ TypeOK <=> PageType /\ ElementType /\ CallType /\ HandType
    /\ TypeOK' <=> (PageType /\ ElementType /\ CallType /\ HandType)'
  BY DEF TypeOK, PageType, ElementType, CallType, HandType

\* What is reserved at a step: the sizes are positive numbers.
LEMMA PieceType ==
    ASSUME TypeOK, NEW t \in Threads
    PROVE  /\ Pieces(t) \in Seq(Keys \cup Vals)
           /\ Len(Pieces(t)) = IF job[t] = "set" THEN 2 ELSE 1
           /\ Len(hand[t]) \in Nat
           /\ Len(hand[t]) < Len(Pieces(t)) =>
                Piece(t) \in Keys \cup Vals /\ Need[Piece(t)] \in Nat \ {0}
  <1>1. key[t] \in Keys /\ val[t] \in Vals /\ hand[t] \in Seq(Chains)
    BY DEF TypeOK
  <1>2. /\ Pieces(t) \in Seq(Keys \cup Vals)
        /\ Len(Pieces(t)) = IF job[t] = "set" THEN 2 ELSE 1
    <2>1. CASE job[t] = "set"
      <3>1. Pieces(t) = <<key[t], val[t]>>
        BY <2>1 DEF Pieces
      <3> QED
        BY <1>1, <2>1, <3>1
    <2>2. CASE job[t] # "set"
      <3>1. Pieces(t) = <<val[t]>>
        BY <2>2 DEF Pieces
      <3> QED
        BY <1>1, <2>2, <3>1
    <2> QED
      BY <2>1, <2>2
  <1>3. Len(hand[t]) \in Nat
    BY <1>1
  <1>4. ASSUME Len(hand[t]) < Len(Pieces(t)) PROVE Piece(t) \in Keys \cup Vals
    BY <1>2, <1>3, <1>4 DEF Piece
  <1> QED
    BY <1>2, <1>3, <1>4, PagesAssumption

\* SetData leaves every page with a part of something.
LEMMA WrittenType ==
    ASSUME data \in [1 .. MaxPages -> Parts], NEW x \in Keys \cup Vals,
           NEW chain \in Chains, Len(chain) = Need[x]
    PROVE  Written(chain, x) \in [1 .. MaxPages -> Parts]
  <1>1. Need[x] \in Nat
    BY PagesAssumption
  <1>2. DOMAIN chain = 1 .. Need[x] /\ DOMAIN data = 1 .. MaxPages
    BY DEF Chains
  <1>3. \A i \in 1 .. Need[x] : Bytes(x)[i] \in Parts
    BY <1>1 DEF Bytes, Parts
  <1>4. ASSUME NEW p \in 1 .. MaxPages PROVE Written(chain, x)[p] \in Parts
    <2> DEFINE at == {i \in DOMAIN chain : chain[i] = p}
    <2>1. Written(chain, x)[p] = IF at = {} THEN data[p] ELSE Bytes(x)[CHOOSE i \in at : TRUE]
      BY <1>2 DEF Written
    <2>2. at # {} => (CHOOSE i \in at : TRUE) \in 1 .. Need[x]
      BY <1>2
    <2> QED
      BY <1>3, <2>1, <2>2
  <1> QED
    BY <1>2, <1>4 DEF Written

\* What StepInv says of one thread.
StepOf(t) ==
    /\ pc[t] \in {"read", "pages"} => job[t] = "get"
    /\ pc[t] \in {"remove", "putback"} => job[t] \in {"set", "del"}
    /\ pc[t] \in {"lock", "alloc", "insert"} => job[t] = "set"
    /\ pc[t] \in {"replace", "point"} => job[t] = "rep"
    /\ pc[t] = "reserve" => job[t] \in {"set", "rep"} /\ Len(hand[t]) < Len(Pieces(t))
    /\ pc[t] = "free" => job[t] # "get"
    /\ pc[t] = "insert" => Len(hand[t]) = 2
    /\ pc[t] = "point" \/ (pc[t] = "free" /\ job[t] = "rep") => Len(hand[t]) = 1
    /\ hand[t] # <<>> =>
         pc[t] \in {"reserve", "insert", "point"} \/ (pc[t] = "free" /\ job[t] = "rep")
    /\ drop[t] # <<>> <=> pc[t] = "free"
    /\ elem[t] # NoElement <=> Owns(t) \/ Borrows(t)

LEMMA StepInvOf == StepInv <=> \A t \in Threads : StepOf(t)
  BY DEF StepInv, StepOf

\* A thread does not touch what the call of another is about.
Alone(t) ==
    \A u \in Threads : u # t =>
        /\ pc'[u] = pc[u] /\ job'[u] = job[u] /\ key'[u] = key[u] /\ val'[u] = val[u]
        /\ elem'[u] = elem[u] /\ hand'[u] = hand[u] /\ drop'[u] = drop[u]

LEMMA StepStay ==
    ASSUME StepInv, NEW t \in Threads, Alone(t), StepOf(t)'
    PROVE  StepInv'
  <1>1. ASSUME NEW u \in Threads, u # t PROVE StepOf(u)'
    <2>1. StepOf(u)
      BY StepInvOf
    <2>2. /\ pc'[u] = pc[u] /\ job'[u] = job[u] /\ key'[u] = key[u] /\ val'[u] = val[u]
          /\ elem'[u] = elem[u] /\ hand'[u] = hand[u] /\ drop'[u] = drop[u]
      BY <1>1 DEF Alone
    <2> QED
      BY <2>1, <2>2 DEF StepOf, Owns, Borrows, Pieces
  <1>2. \A u \in Threads : StepOf(u)'
    BY <1>1
  <1> QED
    BY <1>2 DEF StepInv, StepOf

\* TypeOK is not inductive alone: pages are cut off the free list by the count
\* of free pages, and a thread works on an element at some steps only.
TypeInv == TypeOK /\ StepInv /\ PromisedPagesExist

LEMMA InitType == Init => TypeInv
  <1> SUFFICES ASSUME Init PROVE TypeInv
    OBVIOUS
  <1> USE PagesAssumption DEF Init
  <1>1. free \in Chains /\ Len(free) = PageArea
    BY DEF Chains
  <1>2. PageType
    <2>1. data \in [1 .. MaxPages -> Parts]
      BY DEF Parts
    <2>2. /\ pages \in 0 .. MaxPages
          /\ freeCount \in Nat
          /\ fpcW \in Threads \cup {NoThread}
      OBVIOUS
    <2> QED
      BY <1>1, <2>1, <2>2 DEF PageType
  <1>3. ElementType
    <2>1. freeElems \in Seq(Elements)
      BY DEF Elements
    <2>2. <<>> \in Chains
      BY DEF Chains
    <2>3. /\ elements \in 0 .. MaxElements
          /\ elemCount \in Nat
          /\ keyOf \in [Elements -> Chains]
          /\ valOf \in [Elements -> Chains]
          /\ listed \in [Keys -> Elements \cup {NoElement}]
      BY <2>2
    <2> QED
      BY <2>1, <2>3 DEF ElementType
  <1>4. CallType
    <2>1. (CHOOSE k \in Keys : TRUE) \in Keys /\ (CHOOSE v \in Vals : TRUE) \in Vals
      OBVIOUS
    <2>2. key \in [Threads -> Keys] /\ val \in [Threads -> Vals]
      BY <2>1
    <2> QED
      BY <2>2 DEF CallType, Steps
  <1>5. HandType
    BY DEF HandType
  <1>6. StepInv
    BY DEF StepInv, Owns, Borrows
  <1>7. PromisedPagesExist
    BY <1>1 DEF PromisedPagesExist
  <1> QED
    BY <1>2, <1>3, <1>4, <1>5, <1>6, <1>7, TypeParts DEF TypeInv

-----------------------------------------------------------------------------
\* One lemma for each action.

LEMMA BeginType ==
    ASSUME TypeInv, NEW t \in Threads, NEW j \in {"get", "del", "set", "rep"},
           NEW k \in Keys, NEW v \in Vals, Begin(t, j, k, v)
    PROVE  TypeInv'
  <1> USE PagesAssumption, TypeParts DEF TypeInv, Begin, Goto, Unlock, LockToWrite, pageVars, elemVars, tree, frame
  <1>1. PageType'
    BY DEF PageType
  <1>2. ElementType'
    BY DEF PageType, ElementType, CallType, HandType, StepInv
  <1>3. CallType'
    BY DEF CallType, Steps
  <1>4. HandType'
    BY DEF ElementType, CallType, HandType, StepInv
  <1>5. Alone(t)
    BY DEF CallType, HandType, Alone
  <1>6. StepOf(t)'
    <2>1. /\ pc[t] = "idle" /\ job'[t] = j
          /\ hand'[t] = hand[t] /\ drop'[t] = drop[t] /\ elem'[t] = elem[t]
      BY DEF CallType
    <2>2. pc'[t] \in {"read", "replace", "remove"}
      BY DEF CallType
    <2>3. /\ pc'[t] = "read" => j = "get"
          /\ pc'[t] = "replace" => j = "rep"
          /\ pc'[t] = "remove" => j \in {"set", "del"}
      BY DEF CallType
    <2>4. hand[t] = <<>> /\ drop[t] = <<>> /\ elem[t] = NoElement
      BY <2>1, StepInvOf DEF StepOf, Owns, Borrows
    <2> HIDE DEF Begin
    <2> QED
      BY <2>1, <2>2, <2>3, <2>4 DEF StepOf, Owns, Borrows
  <1>7. StepInv'
    BY <1>5, <1>6, StepStay
  <1>8. PromisedPagesExist'
    BY DEF PromisedPagesExist
  <1> QED
    BY <1>1, <1>2, <1>3, <1>4, <1>7, <1>8 DEF TypeInv


LEMMA RemoveNothingType ==
    ASSUME TypeInv, NEW t \in Threads, RemoveNothing(t)
    PROVE  TypeInv'
  <1> USE PagesAssumption, TypeParts DEF TypeInv, RemoveNothing, Goto, Unlock, LockToWrite, pageVars, elemVars, tree, frame
  <1>1. PageType'
    BY DEF PageType
  <1>2. ElementType'
    BY DEF PageType, ElementType, CallType, HandType, StepInv
  <1>3. CallType'
    BY DEF CallType, Steps
  <1>4. HandType'
    BY DEF ElementType, CallType, HandType, StepInv
  <1>5. Alone(t)
    BY DEF CallType, HandType, Alone
  <1>6. StepOf(t)'
    BY StepInvOf DEF ElementType, CallType, HandType, StepOf, Owns, Borrows, Pieces
  <1>7. StepInv'
    BY <1>5, <1>6, StepStay
  <1>8. PromisedPagesExist'
    BY DEF PromisedPagesExist
  <1> QED
    BY <1>1, <1>2, <1>3, <1>4, <1>7, <1>8 DEF TypeInv


LEMMA LockToInsertType ==
    ASSUME TypeInv, NEW t \in Threads, LockToInsert(t)
    PROVE  TypeInv'
  <1> USE PagesAssumption, TypeParts DEF TypeInv, LockToInsert, Goto, Unlock, LockToWrite, pageVars, elemVars, tree, frame
  <1>1. PageType'
    BY DEF PageType
  <1>2. ElementType'
    BY DEF PageType, ElementType, CallType, HandType, StepInv
  <1>3. CallType'
    BY DEF CallType, Steps
  <1>4. HandType'
    BY DEF ElementType, CallType, HandType, StepInv
  <1>5. Alone(t)
    BY DEF CallType, HandType, Alone
  <1>6. StepOf(t)'
    BY StepInvOf DEF ElementType, CallType, HandType, StepOf, Owns, Borrows, Pieces
  <1>7. StepInv'
    BY <1>5, <1>6, StepStay
  <1>8. PromisedPagesExist'
    BY DEF PromisedPagesExist
  <1> QED
    BY <1>1, <1>2, <1>3, <1>4, <1>7, <1>8 DEF TypeInv


LEMMA RetrySetType ==
    ASSUME TypeInv, NEW t \in Threads, RetrySet(t)
    PROVE  TypeInv'
  <1> USE PagesAssumption, TypeParts DEF TypeInv, RetrySet, Goto, Unlock, LockToWrite, pageVars, elemVars, tree, frame
  <1>1. PageType'
    BY DEF PageType
  <1>2. ElementType'
    BY DEF PageType, ElementType, CallType, HandType, StepInv
  <1>3. CallType'
    BY DEF CallType, Steps
  <1>4. HandType'
    BY DEF ElementType, CallType, HandType, StepInv
  <1>5. Alone(t)
    BY DEF CallType, HandType, Alone
  <1>6. StepOf(t)'
    BY StepInvOf DEF ElementType, CallType, HandType, StepOf, Owns, Borrows, Pieces
  <1>7. StepInv'
    BY <1>5, <1>6, StepStay
  <1>8. PromisedPagesExist'
    BY DEF PromisedPagesExist
  <1> QED
    BY <1>1, <1>2, <1>3, <1>4, <1>7, <1>8 DEF TypeInv


LEMMA ReplaceMissingType ==
    ASSUME TypeInv, NEW t \in Threads, ReplaceMissing(t)
    PROVE  TypeInv'
  <1> USE PagesAssumption, TypeParts DEF TypeInv, ReplaceMissing, Goto, Unlock, LockToWrite, pageVars, elemVars, tree, frame
  <1>1. PageType'
    BY DEF PageType
  <1>2. ElementType'
    BY DEF PageType, ElementType, CallType, HandType, StepInv
  <1>3. CallType'
    BY DEF CallType, Steps
  <1>4. HandType'
    BY DEF ElementType, CallType, HandType, StepInv
  <1>5. Alone(t)
    BY DEF CallType, HandType, Alone
  <1>6. StepOf(t)'
    <2>1. /\ pc[t] = "replace" /\ pc'[t] = "remove" /\ job'[t] = "set"
          /\ hand'[t] = hand[t] /\ drop'[t] = drop[t] /\ elem'[t] = elem[t]
      BY DEF CallType
    <2>2. hand[t] = <<>> /\ drop[t] = <<>> /\ elem[t] = NoElement
      BY <2>1, StepInvOf DEF StepOf, Owns, Borrows
    <2> QED
      BY <2>1, <2>2 DEF StepOf, Owns, Borrows
  <1>7. StepInv'
    BY <1>5, <1>6, StepStay
  <1>8. PromisedPagesExist'
    BY DEF PromisedPagesExist
  <1> QED
    BY <1>1, <1>2, <1>3, <1>4, <1>7, <1>8 DEF TypeInv


LEMMA ReserveElementFailsType ==
    ASSUME TypeInv, NEW t \in Threads, ReserveElementFails(t)
    PROVE  TypeInv'
  <1> USE PagesAssumption, TypeParts DEF TypeInv, ReserveElementFails, Goto, Unlock, LockToWrite, pageVars, elemVars, tree, frame
  <1>1. PageType'
    BY DEF PageType
  <1>2. ElementType'
    BY DEF PageType, ElementType, CallType, HandType, StepInv
  <1>3. CallType'
    BY DEF CallType, Steps
  <1>4. HandType'
    BY DEF ElementType, CallType, HandType, StepInv
  <1>5. Alone(t)
    BY DEF CallType, HandType, Alone
  <1>6. StepOf(t)'
    BY StepInvOf DEF ElementType, CallType, HandType, StepOf, Owns, Borrows, Pieces
  <1>7. StepInv'
    BY <1>5, <1>6, StepStay
  <1>8. PromisedPagesExist'
    BY DEF PromisedPagesExist
  <1> QED
    BY <1>1, <1>2, <1>3, <1>4, <1>7, <1>8 DEF TypeInv


LEMMA LockToReplaceType ==
    ASSUME TypeInv, NEW t \in Threads, LockToReplace(t)
    PROVE  TypeInv'
  <1> USE PagesAssumption, TypeParts DEF TypeInv, LockToReplace, Goto, Unlock, LockToWrite, pageVars, elemVars, tree, frame
  <1>1. PageType'
    BY DEF PageType
  <1>2. ElementType'
    BY DEF PageType, ElementType, CallType, HandType, StepInv
  <1>3. CallType'
    BY DEF CallType, Steps
  <1>4. HandType'
    BY DEF ElementType, CallType, HandType, StepInv
  <1>5. Alone(t)
    BY DEF CallType, HandType, Alone
  <1>6. StepOf(t)'
    BY StepInvOf DEF ElementType, CallType, HandType, StepOf, Owns, Borrows, Pieces
  <1>7. StepInv'
    BY <1>5, <1>6, StepStay
  <1>8. PromisedPagesExist'
    BY DEF PromisedPagesExist
  <1> QED
    BY <1>1, <1>2, <1>3, <1>4, <1>7, <1>8 DEF TypeInv


LEMMA TakeOffType ==
    ASSUME TypeInv, NEW t \in Threads, TakeOff(t)
    PROVE  TypeInv'
  <1> USE PagesAssumption, TypeParts DEF TypeInv, TakeOff, Goto, Unlock, LockToWrite, pageVars, elemVars, tree, frame
  <1>1. PageType'
    BY DEF PageType
  <1>2. ElementType'
    BY DEF PageType, ElementType, CallType, HandType, StepInv
  <1>3. CallType'
    BY DEF CallType, Steps
  <1>4. HandType'
    BY DEF ElementType, CallType, HandType, StepInv
  <1>5. Alone(t)
    BY DEF CallType, HandType, Alone
  <1>6. StepOf(t)'
    BY StepInvOf DEF ElementType, CallType, HandType, StepOf, Owns, Borrows, Pieces
  <1>7. StepInv'
    BY <1>5, <1>6, StepStay
  <1>8. PromisedPagesExist'
    BY DEF PromisedPagesExist
  <1> QED
    BY <1>1, <1>2, <1>3, <1>4, <1>7, <1>8 DEF TypeInv


LEMMA LockToReadType ==
    ASSUME TypeInv, NEW t \in Threads, LockToRead(t)
    PROVE  TypeInv'
  <1> USE PagesAssumption, TypeParts DEF TypeInv, LockToRead, Goto, Unlock, LockToWrite, pageVars, elemVars, tree, frame
  <1>1. PageType'
    BY DEF PageType
  <1>2. ElementType'
    BY DEF PageType, ElementType, CallType, HandType, StepInv
  <1>3. CallType'
    BY DEF CallType, Steps
  <1>4. HandType'
    BY DEF ElementType, CallType, HandType, StepInv
  <1>5. Alone(t)
    BY DEF CallType, HandType, Alone
  <1>6. StepOf(t)'
    BY StepInvOf DEF ElementType, CallType, HandType, StepOf, Owns, Borrows, Pieces
  <1>7. StepInv'
    BY <1>5, <1>6, StepStay
  <1>8. PromisedPagesExist'
    BY DEF PromisedPagesExist
  <1> QED
    BY <1>1, <1>2, <1>3, <1>4, <1>7, <1>8 DEF TypeInv


LEMMA GetMissingType ==
    ASSUME TypeInv, NEW t \in Threads, GetMissing(t)
    PROVE  TypeInv'
  <1> USE PagesAssumption, TypeParts DEF TypeInv, GetMissing, Goto, Unlock, LockToWrite, pageVars, elemVars, tree, frame
  <1>1. PageType'
    BY DEF PageType
  <1>2. ElementType'
    BY DEF PageType, ElementType, CallType, HandType, StepInv
  <1>3. CallType'
    BY DEF CallType, Steps
  <1>4. HandType'
    BY DEF ElementType, CallType, HandType, StepInv
  <1>5. Alone(t)
    BY DEF CallType, HandType, Alone
  <1>6. StepOf(t)'
    BY StepInvOf DEF ElementType, CallType, HandType, StepOf, Owns, Borrows, Pieces
  <1>7. StepInv'
    BY <1>5, <1>6, StepStay
  <1>8. PromisedPagesExist'
    BY DEF PromisedPagesExist
  <1> QED
    BY <1>1, <1>2, <1>3, <1>4, <1>7, <1>8 DEF TypeInv


LEMMA LoadPageType ==
    ASSUME TypeInv, NEW t \in Threads, LoadPage(t)
    PROVE  TypeInv'
  <1> USE PagesAssumption, TypeParts DEF TypeInv, LoadPage, Goto, Unlock, LockToWrite, pageVars, elemVars, tree, frame
  <1>1. PageType'
    BY DEF PageType
  <1>2. ElementType'
    BY DEF PageType, ElementType, CallType, HandType, StepInv
  <1>3. CallType'
    BY DEF CallType, Steps
  <1>4. HandType'
    <2>1. elem[t] \in Elements
      BY StepInvOf DEF HandType, StepOf, Borrows
    <2>2. valOf[elem[t]] \in Seq(1 .. MaxPages) /\ got[t] \in Seq(Parts)
      BY <2>1 DEF ElementType, HandType, Chains
    <2>3. Len(got[t]) + 1 \in 1 .. Len(valOf[elem[t]])
      BY <2>2
    <2>4. data[valOf[elem[t]][Len(got[t]) + 1]] \in Parts
      <3>1. valOf[elem[t]][Len(got[t]) + 1] \in 1 .. MaxPages
        BY <2>2, <2>3, ElementOfSeq
      <3> QED
        BY <3>1 DEF PageType
    <2>5. Append(got[t], data[valOf[elem[t]][Len(got[t]) + 1]]) \in Seq(Parts)
      BY <2>2, <2>4
    <2>6. got' \in [Threads -> Seq(Parts)]
      BY <2>5 DEF HandType
    <2> QED
      BY <2>6 DEF HandType
  <1>5. Alone(t)
    BY DEF CallType, HandType, Alone
  <1>6. StepOf(t)'
    BY StepInvOf DEF ElementType, CallType, HandType, StepOf, Owns, Borrows, Pieces
  <1>7. StepInv'
    BY <1>5, <1>6, StepStay
  <1>8. PromisedPagesExist'
    BY DEF PromisedPagesExist
  <1> QED
    BY <1>1, <1>2, <1>3, <1>4, <1>7, <1>8 DEF TypeInv


LEMMA ReturnValueType ==
    ASSUME TypeInv, NEW t \in Threads, ReturnValue(t)
    PROVE  TypeInv'
  <1> USE PagesAssumption, TypeParts DEF TypeInv, ReturnValue, Goto, Unlock, LockToWrite, pageVars, elemVars, tree, frame
  <1>1. PageType'
    BY DEF PageType
  <1>2. ElementType'
    BY DEF PageType, ElementType, CallType, HandType, StepInv
  <1>3. CallType'
    BY DEF CallType, Steps
  <1>4. HandType'
    BY DEF ElementType, CallType, HandType, StepInv
  <1>5. Alone(t)
    BY DEF CallType, HandType, Alone
  <1>6. StepOf(t)'
    BY StepInvOf DEF ElementType, CallType, HandType, StepOf, Owns, Borrows, Pieces
  <1>7. StepInv'
    BY <1>5, <1>6, StepStay
  <1>8. PromisedPagesExist'
    BY DEF PromisedPagesExist
  <1> QED
    BY <1>1, <1>2, <1>3, <1>4, <1>7, <1>8 DEF TypeInv


LEMMA InsertElementType ==
    ASSUME TypeInv, NEW t \in Threads, InsertElement(t)
    PROVE  TypeInv'
  <1> USE PagesAssumption, TypeParts DEF TypeInv, InsertElement, Goto, Unlock, LockToWrite, pageVars, elemVars, tree, frame
  <1>1. PageType'
    BY DEF PageType
  <1>2. ElementType'
    <2>1. elem[t] \in Elements /\ key[t] \in Keys
      BY StepInvOf DEF CallType, HandType, StepOf, Owns
    <2>2. hand[t][1] \in Chains /\ hand[t][2] \in Chains
      BY StepInvOf DEF HandType, StepOf
    <2> QED
      BY <2>1, <2>2 DEF ElementType
  <1>3. CallType'
    BY DEF CallType, Steps
  <1>4. HandType'
    BY DEF ElementType, CallType, HandType, StepInv
  <1>5. Alone(t)
    BY DEF CallType, HandType, Alone
  <1>6. StepOf(t)'
    BY StepInvOf DEF ElementType, CallType, HandType, StepOf, Owns, Borrows, Pieces
  <1>7. StepInv'
    BY <1>5, <1>6, StepStay
  <1>8. PromisedPagesExist'
    BY DEF PromisedPagesExist
  <1> QED
    BY <1>1, <1>2, <1>3, <1>4, <1>7, <1>8 DEF TypeInv


LEMMA SetValuePointerType ==
    ASSUME TypeInv, NEW t \in Threads, SetValuePointer(t)
    PROVE  TypeInv'
  <1> USE PagesAssumption, TypeParts DEF TypeInv, SetValuePointer, Goto, Unlock, LockToWrite, pageVars, elemVars, tree, frame
  <1>1. PageType'
    BY DEF PageType
  <1>2. ElementType'
    <2>1. hand[t][1] \in Chains
      BY StepInvOf DEF HandType, StepOf
    <2> QED
      BY <2>1 DEF ElementType
  <1>3. CallType'
    BY DEF CallType, Steps
  <1>4. HandType'
    BY DEF ElementType, CallType, HandType, StepInv
  <1>5. Alone(t)
    BY DEF CallType, HandType, Alone
  <1>6. StepOf(t)'
    BY StepInvOf DEF ElementType, CallType, HandType, StepOf, Owns, Borrows, Pieces
  <1>7. StepInv'
    BY <1>5, <1>6, StepStay
  <1>8. PromisedPagesExist'
    BY DEF PromisedPagesExist
  <1> QED
    BY <1>1, <1>2, <1>3, <1>4, <1>7, <1>8 DEF TypeInv


LEMMA PutBackElementType ==
    ASSUME TypeInv, NEW t \in Threads, PutBackElement(t)
    PROVE  TypeInv'
  <1> USE PagesAssumption, TypeParts DEF TypeInv, PutBackElement, Goto, Unlock, LockToWrite, pageVars, elemVars, tree, frame
  <1>1. PageType'
    BY DEF PageType
  <1>2. ElementType'
    <2>1. elem[t] \in Elements
      BY StepInvOf DEF HandType, StepOf, Owns
    <2>2. <<elem[t]>> \in Seq(Elements) /\ <<>> \in Chains
      BY <2>1 DEF Chains
    <2>3. freeElems' \in Seq(Elements)
      BY <2>2, ConcatProperties DEF ElementType
    <2> QED
      BY <2>2, <2>3 DEF ElementType
  <1>3. CallType'
    BY DEF CallType, Steps
  <1>4. HandType'
    BY DEF ElementType, CallType, HandType, StepInv
  <1>5. Alone(t)
    BY DEF CallType, HandType, Alone
  <1>6. StepOf(t)'
    <2>1. /\ pc[t] = "putback" /\ pc'[t] \in {"idle", "lock"} /\ elem'[t] = NoElement
          /\ pc'[t] = "lock" => job[t] = "set"
          /\ job'[t] = job[t] /\ hand'[t] = hand[t] /\ drop'[t] = drop[t]
      BY DEF CallType, HandType
    <2>2. hand[t] = <<>> /\ drop[t] = <<>>
      BY <2>1, StepInvOf DEF StepOf
    <2> HIDE DEF PutBackElement
    <2> QED
      BY <2>1, <2>2 DEF StepOf, Owns, Borrows
  <1>7. StepInv'
    BY <1>5, <1>6, StepStay
  <1>8. PromisedPagesExist'
    BY DEF PromisedPagesExist
  <1> QED
    BY <1>1, <1>2, <1>3, <1>4, <1>7, <1>8 DEF TypeInv


LEMMA ReservePagesFailsType ==
    ASSUME TypeInv, NEW t \in Threads, ReservePagesFails(t)
    PROVE  TypeInv'
  <1> USE PagesAssumption, TypeParts DEF TypeInv, ReservePagesFails, Goto, Unlock, LockToWrite, pageVars, elemVars, tree, frame
  <1>1. PageType'
    BY DEF PageType
  <1>2. ElementType'
    BY DEF PageType, ElementType, CallType, HandType, StepInv
  <1>3. CallType'
    BY DEF CallType, Steps
  <1>4. HandType'
    BY DEF ElementType, CallType, HandType, StepInv
  <1>5. Alone(t)
    BY DEF CallType, HandType, Alone
  <1>6. StepOf(t)'
    <2>1. StepOf(t) /\ pc[t] = "reserve" /\ job[t] \in {"set", "rep"}
      BY StepInvOf DEF StepOf
    <2>2. hand'[t] = <<>> /\ drop'[t] = hand[t] /\ job'[t] = job[t]
      BY DEF HandType
    <2>3. CASE job[t] = "set"
      <3>1. /\ pc'[t] = IF hand[t] = <<>> THEN "putback" ELSE "free"
            /\ elem'[t] = elem[t]
        BY <2>3 DEF CallType
      <3> HIDE DEF ReservePagesFails
      <3> QED
        BY <2>1, <2>2, <2>3, <3>1 DEF StepOf, Owns, Borrows
    <2>4. CASE job[t] = "rep"
      <3>1. pc'[t] = "idle" /\ elem'[t] = NoElement
        BY <2>4 DEF CallType, HandType
      <3>2. hand[t] = <<>>
        <4>1. Len(hand[t]) < 1 /\ hand[t] \in Seq(Chains)
          BY <2>1, <2>4, PieceType DEF StepOf, HandType
        <4> QED
          BY <4>1
      <3> HIDE DEF ReservePagesFails
      <3> QED
        BY <2>1, <2>2, <2>4, <3>1, <3>2 DEF StepOf, Owns, Borrows
    <2> QED
      BY <2>1, <2>3, <2>4
  <1>7. StepInv'
    BY <1>5, <1>6, StepStay
  <1>8. PromisedPagesExist'
    BY DEF PromisedPagesExist
  <1> QED
    BY <1>1, <1>2, <1>3, <1>4, <1>7, <1>8 DEF TypeInv


LEMMA ExpandPageAreaType ==
    ASSUME TypeInv, NEW t \in Threads, ExpandPageArea(t)
    PROVE  TypeInv'
  <1> USE PagesAssumption, TypeParts DEF TypeInv, ExpandPageArea, pageVars, elemVars, tree, frame
  <1> DEFINE new == [i \in 1 .. PageArea |-> pages + i]
  <1>1. PageType' /\ PromisedPagesExist'
    <2>1. pages + PageArea \in 0 .. MaxPages
      BY DEF PageType, RoomForPages
    <2>2. new \in Seq(1 .. MaxPages) /\ Len(new) = PageArea
      BY <2>1 DEF PageType
    <2>3. free \in Seq(1 .. MaxPages) /\ free' = new \o free
      BY DEF PageType, Chains
    <2> HIDE DEF new
    <2>4. free' \in Seq(1 .. MaxPages) /\ Len(free') = PageArea + Len(free)
      <3>1. /\ new \o free \in Seq(1 .. MaxPages)
            /\ Len(new \o free) = Len(new) + Len(free)
            /\ ToSet(new \o free) = ToSet(new) \cup ToSet(free)
            /\ IsInjective(new \o free) <=>
                 IsInjective(new) /\ IsInjective(free) /\ ToSet(new) \cap ToSet(free) = {}
        BY <2>2, <2>3, ConcatFacts
      <3> QED
        BY <2>2, <2>3, <3>1
    <2>5. Len(free) \in Nat /\ freeCount' = freeCount + PageArea /\ freeCount \in Nat
      BY <2>3 DEF PageType
    <2>6. PromisedPagesExist'
      BY <2>4, <2>5 DEF PromisedPagesExist
    <2> QED
      BY <2>1, <2>4, <2>6 DEF PageType, Chains
  <1> HIDE DEF new
  <1>2. ElementType' /\ CallType' /\ HandType'
    BY DEF ElementType, CallType, HandType
  <1>3. StepInv'
    <2>1. Alone(t) /\ StepOf(t)'
      BY StepInvOf DEF StepOf, Owns, Borrows, Pieces, Alone
    <2> QED
      BY <2>1, StepStay
  <1> QED
    BY <1>1, <1>2, <1>3

LEMMA ReservePagesType ==
    ASSUME TypeInv, NEW t \in Threads, ReservePages(t)
    PROVE  TypeInv'
  <1> USE PagesAssumption, TypeParts DEF TypeInv
  <1> DEFINE n == Need[Piece(t)]
             chain == SubSeq(free, 1, n)
  <1>1. /\ StepOf(t) /\ pc[t] = "reserve" /\ job[t] \in {"set", "rep"}
        /\ Len(hand[t]) \in Nat /\ Len(hand[t]) < Len(Pieces(t))
        /\ hand[t] \in Seq(Chains)
    BY StepInvOf, PieceType DEF StepOf, ReservePages, HandType
  <1>2. /\ Piece(t) \in Keys \cup Vals /\ n \in Nat \ {0}
        /\ Len(Pieces(t)) = IF job[t] = "set" THEN 2 ELSE 1
    BY <1>1, PieceType
  <1>3. n <= freeCount /\ freeCount <= Len(free) /\ Len(free) \in Nat /\ freeCount \in Nat
    BY DEF ReservePages, PromisedPagesExist, PageType, Chains
  <1>4. /\ chain \in Chains /\ Len(chain) = n
        /\ SubSeq(free, n + 1, Len(free)) \in Chains
        /\ Len(SubSeq(free, n + 1, Len(free))) = Len(free) - n
    <2>1. free \in Seq(1 .. MaxPages) /\ n \in Nat /\ n <= Len(free)
      BY <1>2, <1>3 DEF PageType, Chains
    <2> HIDE DEF n
    <2>2. /\ SubSeq(free, 1, n) \in Seq(1 .. MaxPages)
          /\ Len(SubSeq(free, 1, n)) = n
          /\ SubSeq(free, n + 1, Len(free)) \in Seq(1 .. MaxPages)
          /\ Len(SubSeq(free, n + 1, Len(free))) = Len(free) - n
      BY <2>1, CutFacts
    <2> QED
      BY <2>2 DEF Chains
  <1>5. /\ free' = SubSeq(free, n + 1, Len(free))
        /\ freeCount' = IF Len(free) > n THEN freeCount - n ELSE 0
        /\ data' = Written(chain, Piece(t)) /\ fpcW' = NoThread /\ pages' = pages
        /\ hand' = [hand EXCEPT ![t] = Append(@, chain)]
        /\ pc' = [pc EXCEPT ![t] = IF ~LastPiece(t) THEN "reserve"
                                   ELSE IF job[t] = "set" THEN "insert" ELSE "free"]
        /\ drop' = [drop EXCEPT ![t] =
                      IF LastPiece(t) /\ job[t] = "rep" THEN <<valOf[elem[t]]>> ELSE @]
        /\ UNCHANGED <<elements, freeElems, elemCount, keyOf, valOf, listed, ckiR, ckiW,
                       job, key, val, elem, got, res, calls>>
    BY DEF ReservePages, TakePages, Goto, elemVars, tree
  <1> HIDE DEF n, chain
  <1>6. /\ Append(hand[t], chain) \in Seq(Chains)
        /\ Len(Append(hand[t], chain)) = Len(hand[t]) + 1
        /\ Append(hand[t], chain) # <<>>
    <2>1. /\ Append(hand[t], chain) \in Seq(Chains)
          /\ Len(Append(hand[t], chain)) = Len(hand[t]) + 1
      BY <1>1, <1>4, AppendProperties
    <2> QED
      BY <1>1, <2>1, SMTT(30)
  <1>7. valOf[elem[t]] \in Chains
    <2>1. elem[t] \in Elements
      BY <1>1 DEF StepOf, Owns, Borrows, HandType
    <2> QED
      BY <2>1 DEF ElementType
  <1>8. PageType'
    <2>1. data' \in [1 .. MaxPages -> Parts]
      BY <1>2, <1>4, <1>5, WrittenType DEF n, PageType
    <2> QED
      BY <1>2, <1>3, <1>4, <1>5, <2>1 DEF PageType
  <1>9. PromisedPagesExist'
    BY <1>2, <1>3, <1>4, <1>5 DEF PromisedPagesExist
  <1>10. ElementType' /\ CallType'
    BY <1>5 DEF ElementType, CallType, Steps
  <1>11. HandType'
    <2>1. <<valOf[elem[t]]>> \in Seq(Chains)
      BY <1>7
    <2> QED
      BY <1>5, <1>6, <2>1 DEF HandType
  <1>12. Alone(t)
    BY <1>5 DEF CallType, HandType, Alone
  <1>13. StepOf(t)'
    <2>1. /\ hand'[t] = Append(hand[t], chain)
          /\ job'[t] = job[t] /\ elem'[t] = elem[t] /\ Pieces(t)' = Pieces(t)
          /\ pc'[t] = IF ~LastPiece(t) THEN "reserve"
                      ELSE IF job[t] = "set" THEN "insert" ELSE "free"
          /\ drop'[t] = IF LastPiece(t) /\ job[t] = "rep" THEN <<valOf[elem[t]]>> ELSE drop[t]
      BY <1>5 DEF CallType, HandType, Pieces
    <2>2. LastPiece(t) <=> Len(hand'[t]) = Len(Pieces(t))
      BY <1>6, <2>1 DEF LastPiece
    <2>3. <<valOf[elem[t]]>> # <<>> /\ drop[t] = <<>> /\ elem[t] # NoElement
      BY <1>1 DEF StepOf, Owns, Borrows
    <2>4. CASE ~LastPiece(t)
      <3>1. Len(hand'[t]) < Len(Pieces(t)) /\ pc'[t] = "reserve" /\ drop'[t] = <<>>
        BY <1>1, <1>2, <1>6, <2>1, <2>2, <2>3, <2>4
      <3> QED
        BY <1>1, <2>1, <2>3, <3>1 DEF StepOf, Owns, Borrows
    <2>5. CASE LastPiece(t) /\ job[t] = "set"
      BY <1>1, <1>2, <1>6, <2>1, <2>2, <2>3, <2>5 DEF StepOf, Owns, Borrows
    <2>6. CASE LastPiece(t) /\ job[t] = "rep"
      BY <1>1, <1>2, <1>6, <2>1, <2>2, <2>3, <2>6 DEF StepOf, Owns, Borrows
    <2> QED
      BY <1>1, <2>4, <2>5, <2>6
  <1>14. StepInv'
    BY <1>12, <1>13, StepStay
  <1> QED
    BY <1>8, <1>9, <1>10, <1>11, <1>14

LEMMA PutBackPagesType ==
    ASSUME TypeInv, NEW t \in Threads, PutBackPages(t)
    PROVE  TypeInv'
  <1> USE PagesAssumption, TypeParts DEF TypeInv
  <1> DEFINE chain == Head(drop[t])
  <1>1. /\ StepOf(t) /\ pc[t] = "free" /\ job[t] # "get" /\ job[t] \in {"get", "del", "set", "rep"}
        /\ drop[t] \in Seq(Chains) /\ drop[t] # <<>>
    BY StepInvOf DEF StepOf, PutBackPages, HandType, CallType
  <1>2. /\ chain \in Chains /\ Tail(drop[t]) \in Seq(Chains)
        /\ Len(drop[t]) \in Nat \ {0} /\ Len(Tail(drop[t])) = Len(drop[t]) - 1
        /\ Tail(drop[t]) # <<>> <=> Len(drop[t]) > 1
    <2>1. /\ chain \in Chains /\ Tail(drop[t]) \in Seq(Chains)
          /\ Len(drop[t]) \in Nat \ {0} /\ Len(Tail(drop[t])) = Len(drop[t]) - 1
      BY <1>1
    <2>2. Tail(drop[t]) # <<>> <=> Len(Tail(drop[t])) # 0
      BY <2>1, EmptyFacts
    <2>3. PICK n \in Nat \ {0} : n = Len(drop[t]) /\ n - 1 = Len(Tail(drop[t]))
      BY <2>1
    <2>4. n - 1 # 0 <=> n > 1
      OBVIOUS
    <2>5. Tail(drop[t]) # <<>> <=> n - 1 # 0
      BY <2>2, <2>3
    <2> QED
      BY <2>1, <2>3, <2>4, <2>5
  <1>3. /\ free' = chain \o free
        /\ freeCount' = IF Len(chain) <= freeCount THEN freeCount + Len(chain) ELSE 0
        /\ data' = [p \in DOMAIN data |-> IF p \in ToSet(chain) THEN <<>> ELSE data[p]]
        /\ drop' = [drop EXCEPT ![t] = Tail(@)]
        /\ pc' = [pc EXCEPT ![t] = IF Len(drop[t]) > 1 THEN "free"
                                   ELSE IF job[t] = "rep" THEN "point" ELSE "putback"]
        /\ UNCHANGED <<pages, fpcW, elements, freeElems, elemCount, keyOf, valOf, listed, ckiR,
                       ckiW, job, key, val, elem, hand, got, res, calls>>
    BY DEF PutBackPages, Goto, elemVars, tree
  <1> HIDE DEF chain
  <1>4. /\ free' \in Chains /\ Len(free') = Len(chain) + Len(free)
        /\ Len(chain) \in Nat /\ Len(free) \in Nat
    <2>1. chain \in Seq(1 .. MaxPages) /\ free \in Seq(1 .. MaxPages)
      BY <1>2 DEF Chains, PageType
    <2>2. chain \o free \in Seq(1 .. MaxPages) /\ Len(chain \o free) = Len(chain) + Len(free)
      BY <2>1, ConcatProperties
    <2> QED
      BY <1>3, <2>1, <2>2 DEF Chains
  <1>5. PageType' /\ PromisedPagesExist'
    <2>1. data' \in [1 .. MaxPages -> Parts]
      BY <1>3 DEF PageType, Parts
    <2> QED
      BY <1>3, <1>4, <2>1 DEF PageType, PromisedPagesExist
  <1>6. ElementType' /\ CallType' /\ HandType'
    BY <1>2, <1>3 DEF ElementType, CallType, HandType, Steps
  <1>7. Alone(t)
    BY <1>3 DEF CallType, HandType, Alone
  <1>8. StepOf(t)'
    <2>1. /\ drop'[t] = Tail(drop[t]) /\ hand'[t] = hand[t]
          /\ job'[t] = job[t] /\ elem'[t] = elem[t]
          /\ pc'[t] = IF Len(drop[t]) > 1 THEN "free"
                      ELSE IF job[t] = "rep" THEN "point" ELSE "putback"
      BY <1>3 DEF CallType, HandType
    <2> QED
      BY <1>1, <1>2, <2>1 DEF StepOf, Owns, Borrows
  <1>9. StepInv'
    BY <1>7, <1>8, StepStay
  <1> QED
    BY <1>5, <1>6, <1>9

LEMMA ReserveElementType ==
    ASSUME TypeInv, NEW t \in Threads, ReserveElement(t)
    PROVE  TypeInv'
  <1> USE PagesAssumption, TypeParts DEF TypeInv
  <1>1. /\ UNCHANGED <<pages, free, freeCount, fpcW, data, keyOf, valOf, listed, ckiR,
                       ckiW, job, key, val, hand, drop, got, res, calls>>
        /\ pc[t] = "alloc"
        /\ pc' = [pc EXCEPT ![t] = "reserve"]
    BY DEF ReserveElement, Goto, pageVars, tree
  <1>2. /\ freeElems' \in Seq(Elements) /\ elemCount' \in Nat /\ elements' \in 0 .. MaxElements
        /\ elem' \in [Threads -> Elements \cup {NoElement}]
        /\ elem'[t] \in Elements
        /\ \A u \in Threads : u # t => elem'[u] = elem[u]
    <2>1. freeElems \in Seq(Elements) /\ elemCount \in Nat /\ elements \in 0 .. MaxElements
      BY DEF ElementType
    <2>2. CASE /\ freeElems # <<>>
               /\ elem' = [elem EXCEPT ![t] = Head(freeElems)]
               /\ freeElems' = Tail(freeElems)
               /\ elemCount' = IF 0 < elemCount THEN elemCount - 1 ELSE 0
               /\ UNCHANGED elements
      <3>1. Head(freeElems) \in Elements /\ Tail(freeElems) \in Seq(Elements)
        BY <2>1, <2>2
      <3> QED
        BY <2>1, <2>2, <3>1 DEF HandType
    <2>3. CASE /\ freeElems = <<>>
               /\ elements + ElementArea <= MaxElements
               /\ elem' = [elem EXCEPT ![t] = elements + 1]
               /\ freeElems' = [i \in 1 .. ElementArea - 1 |-> elements + 1 + i]
               /\ elemCount' = elemCount + ElementArea - 1
               /\ elements' = elements + ElementArea
      <3>1. elements + 1 \in Elements
        BY <2>1, <2>3 DEF Elements
      <3>2. freeElems' \in Seq(Elements)
        <4>1. \A i \in 1 .. ElementArea - 1 : elements + 1 + i \in Elements
          BY <2>1, <2>3 DEF Elements
        <4> QED
          BY <2>3, <4>1
      <3> QED
        BY <2>1, <2>3, <3>1, <3>2 DEF HandType
    <2> QED
      BY <2>2, <2>3 DEF ReserveElement
  <1>3. PageType' /\ CallType' /\ PromisedPagesExist'
    BY <1>1 DEF PageType, CallType, Steps, PromisedPagesExist
  <1>4. ElementType' /\ HandType'
    BY <1>1, <1>2 DEF ElementType, HandType
  <1>5. Alone(t)
    BY <1>1, <1>2 DEF CallType, HandType, Alone
  <1>6. StepOf(t)'
    <2>1. StepOf(t)
      BY StepInvOf
    <2>2. /\ pc'[t] = "reserve" /\ job'[t] = job[t] /\ hand'[t] = hand[t] /\ drop'[t] = drop[t]
          /\ Pieces(t)' = Pieces(t)
      BY <1>1 DEF CallType, Pieces
    <2>3. hand[t] = <<>> /\ job[t] = "set" /\ drop[t] = <<>>
      BY <1>1, <2>1 DEF StepOf
    <2>4. Len(Pieces(t)) = 2 /\ Len(hand[t]) = 0
      BY <2>3, PieceType
    <2>5. elem'[t] # NoElement
      BY <1>2 DEF Elements
    <2> QED
      BY <2>2, <2>3, <2>4, <2>5 DEF StepOf, Owns, Borrows
  <1>7. StepInv'
    BY <1>5, <1>6, StepStay
  <1> QED
    BY <1>3, <1>4, <1>7

LEMMA NextType == TypeInv /\ [Next]_vars => TypeInv'
  <1> SUFFICES ASSUME TypeInv, [Next]_vars PROVE TypeInv'
    OBVIOUS
  <1>1. ASSUME UNCHANGED vars PROVE TypeInv'
    <2>1. UNCHANGED <<pages, free, freeCount, fpcW, data, elements, freeElems, elemCount, keyOf,
                      valOf, listed, ckiR, ckiW, pc, job, key, val, elem, hand, drop, got, res,
                      calls>>
      BY <1>1 DEF vars, pageVars, elemVars, tree, frame
    <2>2. TypeOK'
      BY <2>1 DEF TypeInv, TypeOK
    <2>3. StepInv'
      BY <2>1 DEF TypeInv, StepInv, Owns, Borrows, Pieces
    <2> QED
      BY <2>1, <2>2, <2>3 DEF TypeInv, PromisedPagesExist
  <1>2. ASSUME NEW t \in Threads, NEW j \in {"get", "del", "set", "rep"},
               NEW k \in Keys, NEW v \in Vals, Begin(t, j, k, v)
        PROVE  TypeInv'
    BY <1>2, BeginType
  <1>3. ASSUME NEW t \in Threads, Step(t) PROVE TypeInv'
    BY <1>3, ExpandPageAreaType, ReservePagesType, ReservePagesFailsType, PutBackPagesType,
       ReserveElementType, ReserveElementFailsType, PutBackElementType, TakeOffType,
       RemoveNothingType, LockToInsertType, RetrySetType, InsertElementType, LockToReplaceType,
       ReplaceMissingType, SetValuePointerType, LockToReadType, GetMissingType, LoadPageType,
       ReturnValueType DEF Step
  <1> QED
    BY <1>1, <1>2, <1>3 DEF Next, Done

-----------------------------------------------------------------------------
\* The locks of the CKINDEXes

ReadersKnown == \A c \in CKIndexes, t \in Threads : t \in ckiR[c] <=> pc[t] = "pages" /\ Coll[key[t]] = c
WriterAlone == \A c \in CKIndexes : ckiW[c] # NoThread => ckiR[c] = {}
WriterWorks ==
    \A c \in CKIndexes, t \in Threads :
         ckiW[c] = t => /\ Coll[key[t]] = c
                        /\ pc[t] \in {"alloc", "reserve", "insert", "free", "putback", "point"}
WorkerLocks ==
    \A t \in Threads :
         pc[t] \in {"alloc", "reserve", "insert", "point"} \/ (pc[t] = "free" /\ job[t] = "rep")
            => ckiW[Coll[key[t]]] = t
InsertsAbsent ==
    \A t \in Threads :
         pc[t] \in {"alloc", "insert"} \/ (pc[t] = "reserve" /\ job[t] = "set")
            => listed[key[t]] = NoElement

LEMMA LockParts ==
    /\ LockInv <=> ReadersKnown /\ WriterAlone /\ WriterWorks /\ WorkerLocks /\ InsertsAbsent
    /\ LockInv' <=> (ReadersKnown /\ WriterAlone /\ WriterWorks /\ WorkerLocks /\ InsertsAbsent)'
  BY DEF LockInv, ReadersKnown, WriterAlone, WriterWorks, WorkerLocks, InsertsAbsent

LEMMA InitLocks == Init => LockInv
  BY PagesAssumption DEF Init, LockInv

\* The steps that need the CKINDEX locked, and those that may have it locked.
Keeps(step, j) == step \in {"alloc", "reserve", "insert", "point"} \/ (step = "free" /\ j = "rep")
MayKeep(step) == step \in {"alloc", "reserve", "insert", "free", "putback", "point"}

\* What a thread does to the locks concerns the keys of its own CKINDEX; other
\* threads insert under the lock only, and TakeOff leaves a key absent.
Apart(t) ==
    /\ \A u \in Threads : u # t => pc'[u] = pc[u] /\ job'[u] = job[u] /\ key'[u] = key[u]
    /\ \A k \in Keys : listed'[k] = listed[k] \/ listed'[k] = NoElement \/ ckiW[Coll[k]] = t

\* A thread that neither locks nor unlocks.
LEMMA LocksKept ==
    ASSUME TypeOK, LockInv, NEW t \in Threads, Apart(t), UNCHANGED <<ckiR, ckiW>>,
           key'[t] \in Keys,
           pc[t] # "pages", pc'[t] # "pages",
           ckiW[Coll[key[t]]] = t => key'[t] = key[t] /\ MayKeep(pc'[t]),
           Keeps(pc'[t], job'[t]) => key'[t] = key[t] /\ ckiW[Coll[key[t]]] = t,
           pc'[t] \in {"alloc", "insert"} \/ (pc'[t] = "reserve" /\ job'[t] = "set")
              => listed'[key'[t]] = NoElement
    PROVE  LockInv'
  <1> USE PagesAssumption, LockParts
  <1>1. ReadersKnown'
    BY DEF ReadersKnown, Apart
  <1>2. WriterAlone'
    BY DEF WriterAlone
  <1>3. WriterWorks'
    BY DEF WriterWorks, Apart, MayKeep
  <1>4. WorkerLocks'
    BY DEF WorkerLocks, Apart, Keeps
  <1>5. InsertsAbsent'
    <2>1. ASSUME NEW u \in Threads, u # t,
                 pc[u] \in {"alloc", "insert"} \/ (pc[u] = "reserve" /\ job[u] = "set")
          PROVE  listed'[key[u]] = NoElement
      <3>1. listed[key[u]] = NoElement /\ ckiW[Coll[key[u]]] = u /\ key[u] \in Keys
        BY <2>1 DEF InsertsAbsent, WorkerLocks, TypeOK
      <3> QED
        BY <2>1, <3>1 DEF Apart
    <2> QED
      BY <2>1 DEF InsertsAbsent, Apart
  <1> QED
    BY <1>1, <1>2, <1>3, <1>4, <1>5

\* A thread that unlocks its CKINDEX and is done.
LEMMA LocksFreed ==
    ASSUME TypeOK, LockInv, NEW t \in Threads, Apart(t), UNCHANGED ckiR,
           ckiW[Coll[key[t]]] = t,
           ckiW' = [ckiW EXCEPT ![Coll[key[t]]] = NoThread],
           key'[t] = key[t], pc[t] # "pages", pc'[t] = "idle"
    PROVE  LockInv'
  <1> USE PagesAssumption, LockParts
  <1>1. key[t] \in Keys /\ Coll[key[t]] \in CKIndexes /\ ckiW \in [CKIndexes -> Threads \cup {NoThread}]
    BY DEF TypeOK
  <1>2. ReadersKnown'
    BY DEF ReadersKnown, Apart
  <1>3. WriterAlone'
    BY <1>1 DEF WriterAlone
  <1>4. WriterWorks'
    BY <1>1 DEF WriterWorks, Apart
  <1>5. WorkerLocks'
    <2>1. ASSUME NEW u \in Threads, u # t, Keeps(pc[u], job[u])
          PROVE  ckiW'[Coll[key[u]]] = u
      <3>1. ckiW[Coll[key[u]]] = u /\ key[u] \in Keys
        BY <2>1 DEF WorkerLocks, Keeps, TypeOK
      <3>2. Coll[key[u]] # Coll[key[t]] /\ Coll[key[u]] \in CKIndexes
        BY <2>1, <3>1
      <3> QED
        BY <1>1, <3>1, <3>2
    <2> QED
      BY <2>1 DEF WorkerLocks, Apart, Keeps
  <1>6. InsertsAbsent'
    <2>1. ASSUME NEW u \in Threads, u # t,
                 pc[u] \in {"alloc", "insert"} \/ (pc[u] = "reserve" /\ job[u] = "set")
          PROVE  listed'[key[u]] = NoElement
      <3>1. listed[key[u]] = NoElement /\ ckiW[Coll[key[u]]] = u /\ key[u] \in Keys
        BY <2>1 DEF InsertsAbsent, WorkerLocks, TypeOK
      <3> QED
        BY <2>1, <3>1 DEF Apart
    <2> QED
      BY <2>1 DEF InsertsAbsent, Apart
  <1> QED
    BY <1>2, <1>3, <1>4, <1>5, <1>6

\* A thread that locks its CKINDEX for writing.
LEMMA LocksTaken ==
    ASSUME TypeOK, LockInv, NEW t \in Threads, Apart(t), UNCHANGED <<ckiR, listed>>,
           LockToWrite(t),
           key'[t] = key[t], pc[t] # "pages", MayKeep(pc'[t]), pc'[t] # "pages",
           pc'[t] \in {"alloc", "insert"} \/ (pc'[t] = "reserve" /\ job'[t] = "set")
              => listed[key[t]] = NoElement
    PROVE  LockInv'
  <1> USE PagesAssumption, LockParts
  <1>1. /\ key[t] \in Keys /\ Coll[key[t]] \in CKIndexes
        /\ ckiW \in [CKIndexes -> Threads \cup {NoThread}]
        /\ ckiR[Coll[key[t]]] = {} /\ ckiW[Coll[key[t]]] = NoThread
        /\ ckiW' = [ckiW EXCEPT ![Coll[key[t]]] = t]
    BY DEF TypeOK, LockToWrite, WriteLockable
  <1>2. ReadersKnown'
    BY DEF ReadersKnown, Apart
  <1>3. WriterAlone'
    BY <1>1 DEF WriterAlone
  <1>4. WriterWorks'
    <2>1. ASSUME NEW c \in CKIndexes, NEW u \in Threads, ckiW'[c] = u
          PROVE  Coll[key'[u]] = c /\ MayKeep(pc'[u])
      <3>1. CASE c = Coll[key[t]]
        BY <1>1, <2>1, <3>1
      <3>2. CASE c # Coll[key[t]]
        <4>1. ckiW[c] = u
          BY <1>1, <2>1, <3>2
        <4>2. Coll[key[u]] = c /\ MayKeep(pc[u])
          BY <4>1 DEF WriterWorks, MayKeep
        <4>3. u # t
          BY <3>2, <4>2
        <4> QED
          BY <4>2, <4>3 DEF Apart
      <3> QED
        BY <3>1, <3>2
    <2> QED
      BY <2>1 DEF WriterWorks, MayKeep
  <1>5. WorkerLocks'
    <2>1. ASSUME NEW u \in Threads, u # t, Keeps(pc[u], job[u])
          PROVE  ckiW'[Coll[key[u]]] = u
      <3>1. ckiW[Coll[key[u]]] = u /\ key[u] \in Keys
        BY <2>1 DEF WorkerLocks, Keeps, TypeOK
      <3>2. Coll[key[u]] # Coll[key[t]] /\ Coll[key[u]] \in CKIndexes
        BY <1>1, <2>1, <3>1
      <3> QED
        BY <1>1, <3>1, <3>2
    <2>2. ckiW'[Coll[key'[t]]] = t
      BY <1>1
    <2> QED
      BY <2>1, <2>2 DEF WorkerLocks, Apart, Keeps
  <1>6. InsertsAbsent'
    BY DEF InsertsAbsent, Apart
  <1> QED
    BY <1>2, <1>3, <1>4, <1>5, <1>6

\* Where a thread is tells what it holds.
LEMMA HoldsLock ==
    ASSUME TypeInv, LockInv, NEW t \in Threads
    PROVE  /\ StepOf(t)
           /\ key[t] \in Keys /\ Coll[key[t]] \in CKIndexes
           /\ Keeps(pc[t], job[t]) => ckiW[Coll[key[t]]] = t
           /\ ckiW[Coll[key[t]]] = t => MayKeep(pc[t])
           /\ pc[t] \in {"alloc", "insert"} \/ (pc[t] = "reserve" /\ job[t] = "set")
                 => listed[key[t]] = NoElement
  <1>1. StepOf(t)
    BY StepInvOf DEF TypeInv
  <1>2. key[t] \in Keys /\ Coll[key[t]] \in CKIndexes
    BY PagesAssumption DEF TypeInv, TypeOK
  <1> QED
    BY <1>1, <1>2 DEF LockInv, Keeps, MayKeep

LEMMA BeginLocks ==
    ASSUME TypeInv, LockInv, NEW t \in Threads, NEW j \in {"get", "del", "set", "rep"},
           NEW k \in Keys, NEW v \in Vals, Begin(t, j, k, v)
    PROVE  LockInv'
  <1> USE HoldsLock DEF TypeInv, TypeOK, Begin, Goto, LockToWrite, WriteLockable, pageVars, elemVars, tree, frame
  <1>1. Apart(t)
    BY DEF Apart
  <1>2. pc[t] # "pages" /\ pc'[t] # "pages" /\ UNCHANGED <<ckiR, ckiW>> /\ key'[t] \in Keys
    OBVIOUS
  <1>3. ckiW[Coll[key[t]]] = t => key'[t] = key[t] /\ MayKeep(pc'[t])
    BY DEF MayKeep
  <1>4. Keeps(pc'[t], job'[t]) => key'[t] = key[t] /\ ckiW[Coll[key[t]]] = t
    BY DEF Keeps, StepOf
  <1>5. pc'[t] \in {"alloc", "insert"} \/ (pc'[t] = "reserve" /\ job'[t] = "set")
              => listed'[key'[t]] = NoElement
    BY DEF StepOf
  <1> QED
    BY <1>1, <1>2, <1>3, <1>4, <1>5, LocksKept

LEMMA ExpandPageAreaLocks ==
    ASSUME TypeInv, LockInv, NEW t \in Threads, ExpandPageArea(t)
    PROVE  LockInv'
  <1> USE HoldsLock DEF TypeInv, TypeOK, ExpandPageArea, Goto, LockToWrite, WriteLockable, pageVars, elemVars, tree, frame
  <1>1. Apart(t)
    BY DEF Apart
  <1>2. pc[t] # "pages" /\ pc'[t] # "pages" /\ UNCHANGED <<ckiR, ckiW>> /\ key'[t] \in Keys
    OBVIOUS
  <1>3. ckiW[Coll[key[t]]] = t => key'[t] = key[t] /\ MayKeep(pc'[t])
    BY DEF MayKeep
  <1>4. Keeps(pc'[t], job'[t]) => key'[t] = key[t] /\ ckiW[Coll[key[t]]] = t
    BY DEF Keeps, StepOf
  <1>5. pc'[t] \in {"alloc", "insert"} \/ (pc'[t] = "reserve" /\ job'[t] = "set")
              => listed'[key'[t]] = NoElement
    BY DEF StepOf
  <1> QED
    BY <1>1, <1>2, <1>3, <1>4, <1>5, LocksKept

LEMMA ReservePagesLocks ==
    ASSUME TypeInv, LockInv, NEW t \in Threads, ReservePages(t)
    PROVE  LockInv'
  <1> USE HoldsLock DEF TypeInv, TypeOK, ReservePages, Goto, LockToWrite, WriteLockable, pageVars, elemVars, tree, frame
  <1>1. Apart(t)
    BY DEF Apart
  <1>2. pc[t] # "pages" /\ pc'[t] # "pages" /\ UNCHANGED <<ckiR, ckiW>> /\ key'[t] \in Keys
    OBVIOUS
  <1>3. ckiW[Coll[key[t]]] = t => key'[t] = key[t] /\ MayKeep(pc'[t])
    BY DEF MayKeep
  <1>4. Keeps(pc'[t], job'[t]) => key'[t] = key[t] /\ ckiW[Coll[key[t]]] = t
    BY DEF Keeps, StepOf
  <1>5. pc'[t] \in {"alloc", "insert"} \/ (pc'[t] = "reserve" /\ job'[t] = "set")
              => listed'[key'[t]] = NoElement
    BY DEF StepOf
  <1> QED
    BY <1>1, <1>2, <1>3, <1>4, <1>5, LocksKept

LEMMA PutBackPagesLocks ==
    ASSUME TypeInv, LockInv, NEW t \in Threads, PutBackPages(t)
    PROVE  LockInv'
  <1> USE HoldsLock DEF TypeInv, TypeOK, PutBackPages, Goto, LockToWrite, WriteLockable, pageVars, elemVars, tree, frame
  <1>1. Apart(t)
    BY DEF Apart
  <1>2. pc[t] # "pages" /\ pc'[t] # "pages" /\ UNCHANGED <<ckiR, ckiW>> /\ key'[t] \in Keys
    OBVIOUS
  <1>3. ckiW[Coll[key[t]]] = t => key'[t] = key[t] /\ MayKeep(pc'[t])
    BY DEF MayKeep
  <1>4. Keeps(pc'[t], job'[t]) => key'[t] = key[t] /\ ckiW[Coll[key[t]]] = t
    BY DEF Keeps, StepOf
  <1>5. pc'[t] \in {"alloc", "insert"} \/ (pc'[t] = "reserve" /\ job'[t] = "set")
              => listed'[key'[t]] = NoElement
    BY DEF StepOf
  <1> QED
    BY <1>1, <1>2, <1>3, <1>4, <1>5, LocksKept

LEMMA ReserveElementLocks ==
    ASSUME TypeInv, LockInv, NEW t \in Threads, ReserveElement(t)
    PROVE  LockInv'
  <1> USE HoldsLock DEF TypeInv, TypeOK, ReserveElement, Goto, LockToWrite, WriteLockable, pageVars, elemVars, tree, frame
  <1>1. Apart(t)
    BY DEF Apart
  <1>2. pc[t] # "pages" /\ pc'[t] # "pages" /\ UNCHANGED <<ckiR, ckiW>> /\ key'[t] \in Keys
    OBVIOUS
  <1>3. ckiW[Coll[key[t]]] = t => key'[t] = key[t] /\ MayKeep(pc'[t])
    BY DEF MayKeep
  <1>4. Keeps(pc'[t], job'[t]) => key'[t] = key[t] /\ ckiW[Coll[key[t]]] = t
    BY DEF Keeps, StepOf
  <1>5. pc'[t] \in {"alloc", "insert"} \/ (pc'[t] = "reserve" /\ job'[t] = "set")
              => listed'[key'[t]] = NoElement
    BY DEF StepOf
  <1> QED
    BY <1>1, <1>2, <1>3, <1>4, <1>5, LocksKept

LEMMA TakeOffLocks ==
    ASSUME TypeInv, LockInv, NEW t \in Threads, TakeOff(t)
    PROVE  LockInv'
  <1> USE HoldsLock DEF TypeInv, TypeOK, TakeOff, Goto, LockToWrite, WriteLockable, pageVars, elemVars, tree, frame
  <1>1. Apart(t)
    BY DEF Apart
  <1>2. pc[t] # "pages" /\ pc'[t] # "pages" /\ UNCHANGED <<ckiR, ckiW>> /\ key'[t] \in Keys
    OBVIOUS
  <1>3. ckiW[Coll[key[t]]] = t => key'[t] = key[t] /\ MayKeep(pc'[t])
    BY DEF MayKeep
  <1>4. Keeps(pc'[t], job'[t]) => key'[t] = key[t] /\ ckiW[Coll[key[t]]] = t
    BY DEF Keeps, StepOf
  <1>5. pc'[t] \in {"alloc", "insert"} \/ (pc'[t] = "reserve" /\ job'[t] = "set")
              => listed'[key'[t]] = NoElement
    BY DEF StepOf
  <1> QED
    BY <1>1, <1>2, <1>3, <1>4, <1>5, LocksKept

LEMMA RemoveNothingLocks ==
    ASSUME TypeInv, LockInv, NEW t \in Threads, RemoveNothing(t)
    PROVE  LockInv'
  <1> USE HoldsLock DEF TypeInv, TypeOK, RemoveNothing, Goto, LockToWrite, WriteLockable, pageVars, elemVars, tree, frame
  <1>1. Apart(t)
    BY DEF Apart
  <1>2. pc[t] # "pages" /\ pc'[t] # "pages" /\ UNCHANGED <<ckiR, ckiW>> /\ key'[t] \in Keys
    OBVIOUS
  <1>3. ckiW[Coll[key[t]]] = t => key'[t] = key[t] /\ MayKeep(pc'[t])
    BY DEF MayKeep
  <1>4. Keeps(pc'[t], job'[t]) => key'[t] = key[t] /\ ckiW[Coll[key[t]]] = t
    BY DEF Keeps, StepOf
  <1>5. pc'[t] \in {"alloc", "insert"} \/ (pc'[t] = "reserve" /\ job'[t] = "set")
              => listed'[key'[t]] = NoElement
    BY DEF StepOf
  <1> QED
    BY <1>1, <1>2, <1>3, <1>4, <1>5, LocksKept

LEMMA RetrySetLocks ==
    ASSUME TypeInv, LockInv, NEW t \in Threads, RetrySet(t)
    PROVE  LockInv'
  <1> USE HoldsLock DEF TypeInv, TypeOK, RetrySet, Goto, LockToWrite, WriteLockable, pageVars, elemVars, tree, frame
  <1>1. Apart(t)
    BY DEF Apart
  <1>2. pc[t] # "pages" /\ pc'[t] # "pages" /\ UNCHANGED <<ckiR, ckiW>> /\ key'[t] \in Keys
    OBVIOUS
  <1>3. ckiW[Coll[key[t]]] = t => key'[t] = key[t] /\ MayKeep(pc'[t])
    BY DEF MayKeep
  <1>4. Keeps(pc'[t], job'[t]) => key'[t] = key[t] /\ ckiW[Coll[key[t]]] = t
    BY DEF Keeps, StepOf
  <1>5. pc'[t] \in {"alloc", "insert"} \/ (pc'[t] = "reserve" /\ job'[t] = "set")
              => listed'[key'[t]] = NoElement
    BY DEF StepOf
  <1> QED
    BY <1>1, <1>2, <1>3, <1>4, <1>5, LocksKept

LEMMA ReplaceMissingLocks ==
    ASSUME TypeInv, LockInv, NEW t \in Threads, ReplaceMissing(t)
    PROVE  LockInv'
  <1> USE HoldsLock DEF TypeInv, TypeOK, ReplaceMissing, Goto, LockToWrite, WriteLockable, pageVars, elemVars, tree, frame
  <1>1. Apart(t)
    BY DEF Apart
  <1>2. pc[t] # "pages" /\ pc'[t] # "pages" /\ UNCHANGED <<ckiR, ckiW>> /\ key'[t] \in Keys
    OBVIOUS
  <1>3. ckiW[Coll[key[t]]] = t => key'[t] = key[t] /\ MayKeep(pc'[t])
    BY DEF MayKeep
  <1>4. Keeps(pc'[t], job'[t]) => key'[t] = key[t] /\ ckiW[Coll[key[t]]] = t
    BY DEF Keeps, StepOf
  <1>5. pc'[t] \in {"alloc", "insert"} \/ (pc'[t] = "reserve" /\ job'[t] = "set")
              => listed'[key'[t]] = NoElement
    BY DEF StepOf
  <1> QED
    BY <1>1, <1>2, <1>3, <1>4, <1>5, LocksKept

LEMMA GetMissingLocks ==
    ASSUME TypeInv, LockInv, NEW t \in Threads, GetMissing(t)
    PROVE  LockInv'
  <1> USE HoldsLock DEF TypeInv, TypeOK, GetMissing, Goto, LockToWrite, WriteLockable, pageVars, elemVars, tree, frame
  <1>1. Apart(t)
    BY DEF Apart
  <1>2. pc[t] # "pages" /\ pc'[t] # "pages" /\ UNCHANGED <<ckiR, ckiW>> /\ key'[t] \in Keys
    OBVIOUS
  <1>3. ckiW[Coll[key[t]]] = t => key'[t] = key[t] /\ MayKeep(pc'[t])
    BY DEF MayKeep
  <1>4. Keeps(pc'[t], job'[t]) => key'[t] = key[t] /\ ckiW[Coll[key[t]]] = t
    BY DEF Keeps, StepOf
  <1>5. pc'[t] \in {"alloc", "insert"} \/ (pc'[t] = "reserve" /\ job'[t] = "set")
              => listed'[key'[t]] = NoElement
    BY DEF StepOf
  <1> QED
    BY <1>1, <1>2, <1>3, <1>4, <1>5, LocksKept

LEMMA ReserveElementFailsLocks ==
    ASSUME TypeInv, LockInv, NEW t \in Threads, ReserveElementFails(t)
    PROVE  LockInv'
  <1> USE HoldsLock DEF TypeInv, TypeOK, ReserveElementFails, Unlock, Goto, LockToWrite, WriteLockable, pageVars, elemVars, tree, frame
  <1>1. Apart(t)
    BY PagesAssumption DEF Apart, Keeps
  <1>2. pc[t] # "pages" /\ pc'[t] = "idle" /\ UNCHANGED ckiR /\ key'[t] = key[t]
    OBVIOUS
  <1>3. ckiW[Coll[key[t]]] = t /\ ckiW' = [ckiW EXCEPT ![Coll[key[t]]] = NoThread]
    BY DEF Keeps
  <1> QED
    BY <1>1, <1>2, <1>3, LocksFreed

LEMMA InsertElementLocks ==
    ASSUME TypeInv, LockInv, NEW t \in Threads, InsertElement(t)
    PROVE  LockInv'
  <1> USE HoldsLock DEF TypeInv, TypeOK, InsertElement, Unlock, Goto, LockToWrite, WriteLockable, pageVars, elemVars, tree, frame
  <1>1. Apart(t)
    BY PagesAssumption DEF Apart, Keeps
  <1>2. pc[t] # "pages" /\ pc'[t] = "idle" /\ UNCHANGED ckiR /\ key'[t] = key[t]
    OBVIOUS
  <1>3. ckiW[Coll[key[t]]] = t /\ ckiW' = [ckiW EXCEPT ![Coll[key[t]]] = NoThread]
    BY DEF Keeps
  <1> QED
    BY <1>1, <1>2, <1>3, LocksFreed

LEMMA SetValuePointerLocks ==
    ASSUME TypeInv, LockInv, NEW t \in Threads, SetValuePointer(t)
    PROVE  LockInv'
  <1> USE HoldsLock DEF TypeInv, TypeOK, SetValuePointer, Unlock, Goto, LockToWrite, WriteLockable, pageVars, elemVars, tree, frame
  <1>1. Apart(t)
    BY PagesAssumption DEF Apart, Keeps
  <1>2. pc[t] # "pages" /\ pc'[t] = "idle" /\ UNCHANGED ckiR /\ key'[t] = key[t]
    OBVIOUS
  <1>3. ckiW[Coll[key[t]]] = t /\ ckiW' = [ckiW EXCEPT ![Coll[key[t]]] = NoThread]
    BY DEF Keeps
  <1> QED
    BY <1>1, <1>2, <1>3, LocksFreed

LEMMA LockToInsertLocks ==
    ASSUME TypeInv, LockInv, NEW t \in Threads, LockToInsert(t)
    PROVE  LockInv'
  <1> USE HoldsLock DEF TypeInv, TypeOK, LockToInsert, Goto, pageVars, elemVars, tree, frame
  <1>1. Apart(t) /\ UNCHANGED <<ckiR, listed>>
    BY DEF Apart
  <1>2. pc[t] # "pages" /\ pc'[t] # "pages" /\ key'[t] = key[t] /\ MayKeep(pc'[t])
    BY DEF MayKeep
  <1>3. pc'[t] \in {"alloc", "insert"} \/ (pc'[t] = "reserve" /\ job'[t] = "set")
              => listed[key[t]] = NoElement
    BY DEF StepOf
  <1>4. LockToWrite(t)
    OBVIOUS
  <1> QED
    BY <1>1, <1>2, <1>3, <1>4, LocksTaken

LEMMA LockToReplaceLocks ==
    ASSUME TypeInv, LockInv, NEW t \in Threads, LockToReplace(t)
    PROVE  LockInv'
  <1> USE HoldsLock DEF TypeInv, TypeOK, LockToReplace, Goto, pageVars, elemVars, tree, frame
  <1>1. Apart(t) /\ UNCHANGED <<ckiR, listed>>
    BY DEF Apart
  <1>2. pc[t] # "pages" /\ pc'[t] # "pages" /\ key'[t] = key[t] /\ MayKeep(pc'[t])
    BY DEF MayKeep
  <1>3. pc'[t] \in {"alloc", "insert"} \/ (pc'[t] = "reserve" /\ job'[t] = "set")
              => listed[key[t]] = NoElement
    BY DEF StepOf
  <1>4. LockToWrite(t)
    OBVIOUS
  <1> QED
    BY <1>1, <1>2, <1>3, <1>4, LocksTaken

LEMMA ReservePagesFailsLocks ==
    ASSUME TypeInv, LockInv, NEW t \in Threads, ReservePagesFails(t)
    PROVE  LockInv'
  <1> USE HoldsLock DEF TypeInv, TypeOK, ReservePagesFails, Unlock, Goto, LockToWrite, WriteLockable, pageVars, elemVars, tree, frame
  <1>1. Apart(t) /\ pc[t] # "pages" /\ UNCHANGED ckiR /\ key'[t] = key[t]
    BY DEF Apart
  <1>2. ckiW[Coll[key[t]]] = t
    BY DEF Keeps
  <1>3. CASE job[t] = "set"
    <2>1. pc'[t] \in {"putback", "free"} /\ UNCHANGED ckiW /\ job'[t] = "set"
      BY <1>3
    <2>2. key'[t] \in Keys /\ pc'[t] # "pages" /\ MayKeep(pc'[t]) /\ ~Keeps(pc'[t], job'[t])
      BY <2>1 DEF MayKeep, Keeps
    <2> HIDE DEF ReservePagesFails
    <2> QED
      BY <1>1, <1>2, <2>1, <2>2, LocksKept
  <1>4. CASE job[t] # "set"
    <2>1. pc'[t] = "idle" /\ ckiW' = [ckiW EXCEPT ![Coll[key[t]]] = NoThread]
      BY <1>4
    <2> QED
      BY <1>1, <1>2, <2>1, LocksFreed
  <1> QED
    BY <1>3, <1>4

LEMMA PutBackElementLocks ==
    ASSUME TypeInv, LockInv, NEW t \in Threads, PutBackElement(t)
    PROVE  LockInv'
  <1> USE HoldsLock DEF TypeInv, TypeOK, PutBackElement, Unlock, Goto, LockToWrite, WriteLockable, pageVars, elemVars, tree, frame
  <1>1. Apart(t) /\ pc[t] # "pages" /\ UNCHANGED ckiR /\ key'[t] = key[t]
    BY DEF Apart
  <1>2. CASE ckiW[Coll[key[t]]] = t
    <2>1. pc'[t] = "idle" /\ ckiW' = [ckiW EXCEPT ![Coll[key[t]]] = NoThread]
      BY <1>2
    <2> QED
      BY <1>1, <1>2, <2>1, LocksFreed
  <1>3. CASE ckiW[Coll[key[t]]] # t
    <2>1. pc'[t] \in {"idle", "lock"} /\ UNCHANGED ckiW
      BY <1>3
    <2>2. key'[t] \in Keys /\ pc'[t] # "pages" /\ ~Keeps(pc'[t], job'[t])
      BY <2>1 DEF Keeps
    <2> HIDE DEF PutBackElement
    <2> QED
      BY <1>1, <1>3, <2>1, <2>2, LocksKept
  <1> QED
    BY <1>2, <1>3

LEMMA LockToReadLocks ==
    ASSUME TypeInv, LockInv, NEW t \in Threads, LockToRead(t)
    PROVE  LockInv'
  <1> USE PagesAssumption, LockParts, HoldsLock DEF TypeInv, TypeOK, LockToRead, Goto, LockToWrite, WriteLockable, pageVars, elemVars, tree, frame
  <1>1. ReadersKnown'
    <2>1. ASSUME NEW c \in CKIndexes, NEW u \in Threads
          PROVE  u \in ckiR'[c] <=> pc'[u] = "pages" /\ Coll[key'[u]] = c
      <3>1. u \in ckiR[c] <=> pc[u] = "pages" /\ Coll[key[u]] = c
        BY DEF ReadersKnown
      <3>2. u \in ckiR'[c] <=> u \in ckiR[c] \/ (u = t /\ c = Coll[key[t]])
        OBVIOUS
      <3>3. CASE u = t
        BY <3>1, <3>2, <3>3
      <3>4. CASE u # t
        BY <3>1, <3>2, <3>4
      <3> QED
        BY <3>3, <3>4
    <2> QED
      BY <2>1 DEF ReadersKnown
  <1>2. WriterAlone'
    BY DEF WriterAlone
  <1>3. WriterWorks'
    BY DEF WriterWorks, StepOf
  <1>4. WorkerLocks'
    BY DEF WorkerLocks, WriterWorks, StepOf
  <1>5. InsertsAbsent'
    BY DEF InsertsAbsent, WorkerLocks, StepOf
  <1> QED
    BY <1>1, <1>2, <1>3, <1>4, <1>5

LEMMA LoadPageLocks ==
    ASSUME TypeInv, LockInv, NEW t \in Threads, LoadPage(t)
    PROVE  LockInv'
  <1> USE LockParts DEF TypeInv, TypeOK, LoadPage, Goto, LockToWrite, WriteLockable, pageVars, elemVars, tree, frame
  <1>1. ReadersKnown' /\ WriterAlone' /\ WriterWorks' /\ WorkerLocks' /\ InsertsAbsent'
    BY DEF ReadersKnown, WriterAlone, WriterWorks, WorkerLocks, InsertsAbsent
  <1> QED
    BY <1>1

LEMMA ReturnValueLocks ==
    ASSUME TypeInv, LockInv, NEW t \in Threads, ReturnValue(t)
    PROVE  LockInv'
  <1> USE PagesAssumption, LockParts, HoldsLock DEF TypeInv, TypeOK, ReturnValue, Goto, LockToWrite, WriteLockable, pageVars, elemVars, tree, frame
  <1>1. ReadersKnown'
    BY SMTT(30) DEF ReadersKnown
  <1>2. WriterAlone'
    BY DEF WriterAlone
  <1>3. WriterWorks'
    BY DEF WriterWorks, StepOf
  <1>4. WorkerLocks'
    BY DEF WorkerLocks, WriterWorks, StepOf
  <1>5. InsertsAbsent'
    BY DEF InsertsAbsent, WorkerLocks, StepOf
  <1> QED
    BY <1>1, <1>2, <1>3, <1>4, <1>5

LEMMA NextLocks == TypeInv /\ LockInv /\ [Next]_vars => LockInv'
  <1> SUFFICES ASSUME TypeInv, LockInv, [Next]_vars PROVE LockInv'
    OBVIOUS
  <1>1. ASSUME UNCHANGED vars PROVE LockInv'
    BY <1>1 DEF vars, pageVars, elemVars, tree, frame, LockInv
  <1>2. ASSUME NEW t \in Threads, NEW j \in {"get", "del", "set", "rep"},
               NEW k \in Keys, NEW v \in Vals, Begin(t, j, k, v)
        PROVE  LockInv'
    BY <1>2, BeginLocks
  <1>3. ASSUME NEW t \in Threads, Step(t) PROVE LockInv'
    BY <1>3, ExpandPageAreaLocks, ReservePagesLocks, ReservePagesFailsLocks, PutBackPagesLocks,
       ReserveElementLocks, ReserveElementFailsLocks, PutBackElementLocks, TakeOffLocks,
       RemoveNothingLocks, LockToInsertLocks, RetrySetLocks, InsertElementLocks,
       LockToReplaceLocks, ReplaceMissingLocks, SetValuePointerLocks, LockToReadLocks,
       GetMissingLocks, LoadPageLocks, ReturnValueLocks DEF Step
  <1> QED
    BY <1>1, <1>2, <1>3 DEF Next, Done

-----------------------------------------------------------------------------
\* Elements

FreeElements ==
    /\ elemCount = Len(freeElems)
    /\ IsInjective(freeElems)
    /\ ToSet(freeElems) \subseteq 1 .. elements
ListedElements ==
    /\ \A k \in Keys : listed[k] # NoElement => listed[k] \in (1 .. elements) \ ToSet(freeElems)
    /\ \A k, j \in Keys : listed[k] = listed[j] /\ listed[k] # NoElement => k = j
OwnedElements ==
    \A t \in Threads : Owns(t) =>
         /\ elem[t] \in (1 .. elements) \ ToSet(freeElems)
         /\ \A k \in Keys : listed[k] # elem[t]
         /\ \A u \in Threads : elem[u] = elem[t] => u = t
BorrowedElements == \A t \in Threads : Borrows(t) => elem[t] = listed[key[t]]
OldValue == \A t \in Threads : pc[t] = "free" /\ job[t] = "rep" => drop[t] = <<valOf[elem[t]]>>
EveryElement ==
    \A e \in 1 .. elements :
         \/ e \in ToSet(freeElems)
         \/ \E k \in Keys : listed[k] = e
         \/ \E t \in Threads : Owns(t) /\ elem[t] = e

LEMMA ElementParts ==
    /\ ElementsConserved <=> /\ FreeElements /\ ListedElements /\ OwnedElements
                             /\ BorrowedElements /\ OldValue /\ EveryElement
    /\ ElementsConserved' <=> /\ FreeElements' /\ ListedElements' /\ OwnedElements'
                              /\ BorrowedElements' /\ OldValue' /\ EveryElement'
  BY DEF ElementsConserved, FreeElements, ListedElements, OwnedElements, BorrowedElements,
         OldValue, EveryElement

LEMMA InitElements == Init => ElementsConserved
  <1> SUFFICES ASSUME Init PROVE ElementsConserved
    OBVIOUS
  <1>1. /\ freeElems = [i \in 1 .. ElementArea |-> i]
        /\ elements = ElementArea /\ elemCount = ElementArea /\ ElementArea \in Nat
    BY PagesAssumption DEF Init
  <1>2. Len(freeElems) = ElementArea /\ DOMAIN freeElems = 1 .. ElementArea
    BY <1>1
  <1>3. ToSet(freeElems) = 1 .. ElementArea
    BY <1>1, <1>2 DEF ToSet
  <1>4. FreeElements
    BY <1>1, <1>2, <1>3 DEF FreeElements, IsInjective
  <1>5. EveryElement
    BY <1>1, <1>3 DEF EveryElement
  <1>6. ListedElements /\ OwnedElements /\ BorrowedElements /\ OldValue
    BY DEF Init, ListedElements, OwnedElements, BorrowedElements, OldValue, Owns, Borrows
  <1> QED
    BY <1>4, <1>5, <1>6, ElementParts

LEMMA OthersStay ==
    ASSUME NEW t \in Threads, Alone(t)
    PROVE  \A u \in Threads : u # t =>
             /\ pc'[u] = pc[u] /\ job'[u] = job[u] /\ key'[u] = key[u]
             /\ elem'[u] = elem[u] /\ hand'[u] = hand[u] /\ drop'[u] = drop[u]
             /\ Owns(u)' <=> Owns(u)
             /\ Borrows(u)' <=> Borrows(u)
  BY DEF Alone, Owns, Borrows

\* Elements are numbers, and NoElement is none of them.
LEMMA ElementNames ==
    ASSUME TypeOK
    PROVE  NoElement \notin 1 .. elements /\ 1 .. elements \subseteq Elements
  BY PagesAssumption DEF TypeOK, Elements

\* A step that leaves the free list and the CKINDEXes, and the element of its own,
\* if it has one, as they are.
LEMMA ElementsKept ==
    ASSUME TypeInv, ElementsConserved, NEW t \in Threads, Alone(t),
           UNCHANGED <<elements, freeElems, elemCount, listed>>,
           key'[t] \in Keys,
           Owns(t)' <=> Owns(t),
           Owns(t) => elem'[t] = elem[t],
           ~Owns(t) => elem'[t] \in {NoElement, listed[key'[t]]},
           Borrows(t)' => elem'[t] = listed[key'[t]],
           pc'[t] = "free" /\ job'[t] = "rep" => drop'[t] = <<valOf'[elem'[t]]>>,
           \A u \in Threads : u # t /\ pc[u] = "free" /\ job[u] = "rep" =>
              valOf'[elem[u]] = valOf[elem[u]]
    PROVE  ElementsConserved'
  <1> USE ElementParts, OthersStay
  <1>1. FreeElements' /\ ListedElements'
    BY DEF FreeElements, ListedElements
  <1>2. OwnedElements'
    <2>1. ASSUME NEW u \in Threads, Owns(u)'
          PROVE  /\ elem'[u] \in (1 .. elements) \ ToSet(freeElems)
                 /\ \A k \in Keys : listed[k] # elem'[u]
                 /\ \A w \in Threads : elem'[w] = elem'[u] => w = u
      <3>1. Owns(u) /\ elem'[u] = elem[u]
        BY <2>1
      <3>2. /\ elem[u] \in (1 .. elements) \ ToSet(freeElems)
            /\ \A k \in Keys : listed[k] # elem[u]
            /\ \A w \in Threads : elem[w] = elem[u] => w = u
        BY <3>1 DEF OwnedElements
      <3>3. ASSUME NEW w \in Threads, elem'[w] = elem'[u], w # u PROVE FALSE
        <4>1. w = t /\ ~Owns(t)
          BY <3>1, <3>2, <3>3
        <4>2. elem[u] \in {NoElement, listed[key'[t]]}
          BY <3>1, <3>3, <4>1
        <4> QED
          BY <3>2, <4>2, ElementNames DEF TypeInv
      <3> QED
        BY <3>1, <3>2, <3>3
    <2> QED
      BY <2>1 DEF OwnedElements
  <1>3. BorrowedElements'
    BY DEF BorrowedElements
  <1>4. OldValue'
    BY DEF OldValue
  <1>5. EveryElement'
    <2>1. \A u \in Threads : Owns(u) => Owns(u)' /\ elem'[u] = elem[u]
      OBVIOUS
    <2> QED
      BY <2>1 DEF EveryElement
  <1> QED
    BY <1>1, <1>2, <1>3, <1>4, <1>5

LEMMA BeginElements ==
    ASSUME TypeInv, LockInv, ElementsConserved, NEW t \in Threads, NEW j \in {"get", "del", "set", "rep"},
           NEW k \in Keys, NEW v \in Vals, Begin(t, j, k, v)
    PROVE  ElementsConserved'
  <1> USE HoldsLock DEF TypeInv, TypeOK, Begin, Goto, pageVars, elemVars, tree, frame
  <1>1. Alone(t) /\ UNCHANGED <<elements, freeElems, elemCount, listed>> /\ key'[t] \in Keys
    BY DEF Alone
  <1>2. /\ Owns(t)' <=> Owns(t)
        /\ Owns(t) => elem'[t] = elem[t]
    BY DEF Owns, StepOf
  <1>3. /\ ~Owns(t) => elem'[t] \in {NoElement, listed[key'[t]]}
        /\ Borrows(t)' => elem'[t] = listed[key'[t]]
    BY ElementParts DEF Owns, Borrows, StepOf, BorrowedElements
  <1>4. pc'[t] = "free" /\ job'[t] = "rep" => drop'[t] = <<valOf'[elem'[t]]>>
    BY ElementParts DEF OldValue, StepOf
  <1>5. \A u \in Threads : u # t /\ pc[u] = "free" /\ job[u] = "rep" =>
              valOf'[elem[u]] = valOf[elem[u]]
    OBVIOUS
  <1> QED
    BY <1>1, <1>2, <1>3, <1>4, <1>5, ElementsKept

LEMMA ExpandPageAreaElements ==
    ASSUME TypeInv, LockInv, ElementsConserved, NEW t \in Threads, ExpandPageArea(t)
    PROVE  ElementsConserved'
  <1> USE HoldsLock DEF TypeInv, TypeOK, ExpandPageArea, Goto, pageVars, elemVars, tree, frame
  <1>1. Alone(t) /\ UNCHANGED <<elements, freeElems, elemCount, listed>> /\ key'[t] \in Keys
    BY DEF Alone
  <1>2. /\ Owns(t)' <=> Owns(t)
        /\ Owns(t) => elem'[t] = elem[t]
    BY DEF Owns, StepOf
  <1>3. /\ ~Owns(t) => elem'[t] \in {NoElement, listed[key'[t]]}
        /\ Borrows(t)' => elem'[t] = listed[key'[t]]
    BY ElementParts DEF Owns, Borrows, StepOf, BorrowedElements
  <1>4. pc'[t] = "free" /\ job'[t] = "rep" => drop'[t] = <<valOf'[elem'[t]]>>
    BY ElementParts DEF OldValue, StepOf
  <1>5. \A u \in Threads : u # t /\ pc[u] = "free" /\ job[u] = "rep" =>
              valOf'[elem[u]] = valOf[elem[u]]
    OBVIOUS
  <1> QED
    BY <1>1, <1>2, <1>3, <1>4, <1>5, ElementsKept

LEMMA ReservePagesElements ==
    ASSUME TypeInv, LockInv, ElementsConserved, NEW t \in Threads, ReservePages(t)
    PROVE  ElementsConserved'
  <1> USE HoldsLock DEF TypeInv, TypeOK, ReservePages, Goto, pageVars, elemVars, tree, frame
  <1>1. Alone(t) /\ UNCHANGED <<elements, freeElems, elemCount, listed>> /\ key'[t] \in Keys
    BY DEF Alone
  <1>2. /\ Owns(t)' <=> Owns(t)
        /\ Owns(t) => elem'[t] = elem[t]
    BY DEF Owns, StepOf
  <1>3. /\ ~Owns(t) => elem'[t] \in {NoElement, listed[key'[t]]}
        /\ Borrows(t)' => elem'[t] = listed[key'[t]]
    BY ElementParts DEF Owns, Borrows, StepOf, BorrowedElements
  <1>4. pc'[t] = "free" /\ job'[t] = "rep" => drop'[t] = <<valOf'[elem'[t]]>>
    BY ElementParts DEF OldValue, StepOf
  <1>5. \A u \in Threads : u # t /\ pc[u] = "free" /\ job[u] = "rep" =>
              valOf'[elem[u]] = valOf[elem[u]]
    OBVIOUS
  <1> QED
    BY <1>1, <1>2, <1>3, <1>4, <1>5, ElementsKept

LEMMA ReservePagesFailsElements ==
    ASSUME TypeInv, LockInv, ElementsConserved, NEW t \in Threads, ReservePagesFails(t)
    PROVE  ElementsConserved'
  <1> USE HoldsLock DEF TypeInv, TypeOK, ReservePagesFails, Goto, pageVars, elemVars, tree, frame
  <1>1. Alone(t) /\ UNCHANGED <<elements, freeElems, elemCount, listed>> /\ key'[t] \in Keys
    BY DEF Alone
  <1>2. /\ Owns(t)' <=> Owns(t)
        /\ Owns(t) => elem'[t] = elem[t]
    BY DEF Owns, StepOf
  <1>3. /\ ~Owns(t) => elem'[t] \in {NoElement, listed[key'[t]]}
        /\ Borrows(t)' => elem'[t] = listed[key'[t]]
    BY ElementParts DEF Owns, Borrows, StepOf, BorrowedElements
  <1>4. pc'[t] = "free" /\ job'[t] = "rep" => drop'[t] = <<valOf'[elem'[t]]>>
    BY ElementParts DEF OldValue, StepOf
  <1>5. \A u \in Threads : u # t /\ pc[u] = "free" /\ job[u] = "rep" =>
              valOf'[elem[u]] = valOf[elem[u]]
    OBVIOUS
  <1> QED
    BY <1>1, <1>2, <1>3, <1>4, <1>5, ElementsKept

LEMMA PutBackPagesElements ==
    ASSUME TypeInv, LockInv, ElementsConserved, NEW t \in Threads, PutBackPages(t)
    PROVE  ElementsConserved'
  <1> USE HoldsLock DEF TypeInv, TypeOK, PutBackPages, Goto, pageVars, elemVars, tree, frame
  <1>1. Alone(t) /\ UNCHANGED <<elements, freeElems, elemCount, listed>> /\ key'[t] \in Keys
    BY DEF Alone
  <1>2. /\ Owns(t)' <=> Owns(t)
        /\ Owns(t) => elem'[t] = elem[t]
    BY DEF Owns, StepOf
  <1>3. /\ ~Owns(t) => elem'[t] \in {NoElement, listed[key'[t]]}
        /\ Borrows(t)' => elem'[t] = listed[key'[t]]
    BY ElementParts DEF Owns, Borrows, StepOf, BorrowedElements
  <1>4. ~(pc'[t] = "free" /\ job'[t] = "rep")
    <2>1. job'[t] = job[t] /\ pc[t] = "free"
      OBVIOUS
    <2>2. job[t] = "rep" => drop[t] = <<valOf[elem[t]]>>
      BY <2>1, ElementParts DEF OldValue
    <2>3. Len(<<valOf[elem[t]]>>) = 1
      OBVIOUS
    <2>4. job[t] = "rep" => Len(drop[t]) = 1
      BY <2>2, <2>3
    <2>5. pc'[t] = IF Len(drop[t]) > 1 THEN "free" ELSE IF job[t] = "rep" THEN "point" ELSE "putback"
      OBVIOUS
    <2>6. job[t] = "rep" => ~(Len(drop[t]) > 1)
      <3> DEFINE n == Len(drop[t])
      <3>1. job[t] = "rep" => n = 1
        BY <2>4
      <3> HIDE DEF n
      <3>2. job[t] = "rep" => ~(n > 1)
        BY <3>1
      <3> QED
        BY <3>2 DEF n
    <2>7. CASE job[t] = "rep"
      <3>1. pc'[t] = "point"
        BY <2>5, <2>6, <2>7
      <3> QED
        BY <3>1
    <2> QED
      BY <2>1, <2>7
  <1>5. \A u \in Threads : u # t /\ pc[u] = "free" /\ job[u] = "rep" =>
              valOf'[elem[u]] = valOf[elem[u]]
    OBVIOUS
  <1> QED
    BY <1>1, <1>2, <1>3, <1>4, <1>5, ElementsKept

LEMMA ReserveElementFailsElements ==
    ASSUME TypeInv, LockInv, ElementsConserved, NEW t \in Threads, ReserveElementFails(t)
    PROVE  ElementsConserved'
  <1> USE HoldsLock DEF TypeInv, TypeOK, ReserveElementFails, Goto, pageVars, elemVars, tree, frame
  <1>1. Alone(t) /\ UNCHANGED <<elements, freeElems, elemCount, listed>> /\ key'[t] \in Keys
    BY DEF Alone
  <1>2. /\ Owns(t)' <=> Owns(t)
        /\ Owns(t) => elem'[t] = elem[t]
    BY DEF Owns, StepOf
  <1>3. /\ ~Owns(t) => elem'[t] \in {NoElement, listed[key'[t]]}
        /\ Borrows(t)' => elem'[t] = listed[key'[t]]
    BY ElementParts DEF Owns, Borrows, StepOf, BorrowedElements
  <1>4. pc'[t] = "free" /\ job'[t] = "rep" => drop'[t] = <<valOf'[elem'[t]]>>
    BY ElementParts DEF OldValue, StepOf
  <1>5. \A u \in Threads : u # t /\ pc[u] = "free" /\ job[u] = "rep" =>
              valOf'[elem[u]] = valOf[elem[u]]
    OBVIOUS
  <1> QED
    BY <1>1, <1>2, <1>3, <1>4, <1>5, ElementsKept

LEMMA RemoveNothingElements ==
    ASSUME TypeInv, LockInv, ElementsConserved, NEW t \in Threads, RemoveNothing(t)
    PROVE  ElementsConserved'
  <1> USE HoldsLock DEF TypeInv, TypeOK, RemoveNothing, Goto, pageVars, elemVars, tree, frame
  <1>1. Alone(t) /\ UNCHANGED <<elements, freeElems, elemCount, listed>> /\ key'[t] \in Keys
    BY DEF Alone
  <1>2. /\ Owns(t)' <=> Owns(t)
        /\ Owns(t) => elem'[t] = elem[t]
    BY DEF Owns, StepOf
  <1>3. /\ ~Owns(t) => elem'[t] \in {NoElement, listed[key'[t]]}
        /\ Borrows(t)' => elem'[t] = listed[key'[t]]
    BY ElementParts DEF Owns, Borrows, StepOf, BorrowedElements
  <1>4. pc'[t] = "free" /\ job'[t] = "rep" => drop'[t] = <<valOf'[elem'[t]]>>
    BY ElementParts DEF OldValue, StepOf
  <1>5. \A u \in Threads : u # t /\ pc[u] = "free" /\ job[u] = "rep" =>
              valOf'[elem[u]] = valOf[elem[u]]
    OBVIOUS
  <1> QED
    BY <1>1, <1>2, <1>3, <1>4, <1>5, ElementsKept

LEMMA LockToInsertElements ==
    ASSUME TypeInv, LockInv, ElementsConserved, NEW t \in Threads, LockToInsert(t)
    PROVE  ElementsConserved'
  <1> USE HoldsLock DEF TypeInv, TypeOK, LockToInsert, Goto, pageVars, elemVars, tree, frame
  <1>1. Alone(t) /\ UNCHANGED <<elements, freeElems, elemCount, listed>> /\ key'[t] \in Keys
    BY DEF Alone
  <1>2. /\ Owns(t)' <=> Owns(t)
        /\ Owns(t) => elem'[t] = elem[t]
    BY DEF Owns, StepOf
  <1>3. /\ ~Owns(t) => elem'[t] \in {NoElement, listed[key'[t]]}
        /\ Borrows(t)' => elem'[t] = listed[key'[t]]
    BY ElementParts DEF Owns, Borrows, StepOf, BorrowedElements
  <1>4. pc'[t] = "free" /\ job'[t] = "rep" => drop'[t] = <<valOf'[elem'[t]]>>
    BY ElementParts DEF OldValue, StepOf
  <1>5. \A u \in Threads : u # t /\ pc[u] = "free" /\ job[u] = "rep" =>
              valOf'[elem[u]] = valOf[elem[u]]
    OBVIOUS
  <1> QED
    BY <1>1, <1>2, <1>3, <1>4, <1>5, ElementsKept

LEMMA RetrySetElements ==
    ASSUME TypeInv, LockInv, ElementsConserved, NEW t \in Threads, RetrySet(t)
    PROVE  ElementsConserved'
  <1> USE HoldsLock DEF TypeInv, TypeOK, RetrySet, Goto, pageVars, elemVars, tree, frame
  <1>1. Alone(t) /\ UNCHANGED <<elements, freeElems, elemCount, listed>> /\ key'[t] \in Keys
    BY DEF Alone
  <1>2. /\ Owns(t)' <=> Owns(t)
        /\ Owns(t) => elem'[t] = elem[t]
    BY DEF Owns, StepOf
  <1>3. /\ ~Owns(t) => elem'[t] \in {NoElement, listed[key'[t]]}
        /\ Borrows(t)' => elem'[t] = listed[key'[t]]
    BY ElementParts DEF Owns, Borrows, StepOf, BorrowedElements
  <1>4. pc'[t] = "free" /\ job'[t] = "rep" => drop'[t] = <<valOf'[elem'[t]]>>
    BY ElementParts DEF OldValue, StepOf
  <1>5. \A u \in Threads : u # t /\ pc[u] = "free" /\ job[u] = "rep" =>
              valOf'[elem[u]] = valOf[elem[u]]
    OBVIOUS
  <1> QED
    BY <1>1, <1>2, <1>3, <1>4, <1>5, ElementsKept

LEMMA LockToReplaceElements ==
    ASSUME TypeInv, LockInv, ElementsConserved, NEW t \in Threads, LockToReplace(t)
    PROVE  ElementsConserved'
  <1> USE HoldsLock DEF TypeInv, TypeOK, LockToReplace, Goto, pageVars, elemVars, tree, frame
  <1>1. Alone(t) /\ UNCHANGED <<elements, freeElems, elemCount, listed>> /\ key'[t] \in Keys
    BY DEF Alone
  <1>2. /\ Owns(t)' <=> Owns(t)
        /\ Owns(t) => elem'[t] = elem[t]
    BY DEF Owns, StepOf
  <1>3. /\ ~Owns(t) => elem'[t] \in {NoElement, listed[key'[t]]}
        /\ Borrows(t)' => elem'[t] = listed[key'[t]]
    BY ElementParts DEF Owns, Borrows, StepOf, BorrowedElements
  <1>4. pc'[t] = "free" /\ job'[t] = "rep" => drop'[t] = <<valOf'[elem'[t]]>>
    BY ElementParts DEF OldValue, StepOf
  <1>5. \A u \in Threads : u # t /\ pc[u] = "free" /\ job[u] = "rep" =>
              valOf'[elem[u]] = valOf[elem[u]]
    OBVIOUS
  <1> QED
    BY <1>1, <1>2, <1>3, <1>4, <1>5, ElementsKept

LEMMA ReplaceMissingElements ==
    ASSUME TypeInv, LockInv, ElementsConserved, NEW t \in Threads, ReplaceMissing(t)
    PROVE  ElementsConserved'
  <1> USE HoldsLock DEF TypeInv, TypeOK, ReplaceMissing, Goto, pageVars, elemVars, tree, frame
  <1>1. Alone(t) /\ UNCHANGED <<elements, freeElems, elemCount, listed>> /\ key'[t] \in Keys
    BY DEF Alone
  <1>2. /\ Owns(t)' <=> Owns(t)
        /\ Owns(t) => elem'[t] = elem[t]
    BY DEF Owns, StepOf
  <1>3. /\ ~Owns(t) => elem'[t] \in {NoElement, listed[key'[t]]}
        /\ Borrows(t)' => elem'[t] = listed[key'[t]]
    BY ElementParts DEF Owns, Borrows, StepOf, BorrowedElements
  <1>4. pc'[t] = "free" /\ job'[t] = "rep" => drop'[t] = <<valOf'[elem'[t]]>>
    BY ElementParts DEF OldValue, StepOf
  <1>5. \A u \in Threads : u # t /\ pc[u] = "free" /\ job[u] = "rep" =>
              valOf'[elem[u]] = valOf[elem[u]]
    OBVIOUS
  <1> QED
    BY <1>1, <1>2, <1>3, <1>4, <1>5, ElementsKept

LEMMA SetValuePointerElements ==
    ASSUME TypeInv, LockInv, ElementsConserved, NEW t \in Threads, SetValuePointer(t)
    PROVE  ElementsConserved'
  <1> USE HoldsLock DEF TypeInv, TypeOK, SetValuePointer, Goto, pageVars, elemVars, tree, frame
  <1>1. Alone(t) /\ UNCHANGED <<elements, freeElems, elemCount, listed>> /\ key'[t] \in Keys
    BY DEF Alone
  <1>2. /\ Owns(t)' <=> Owns(t)
        /\ Owns(t) => elem'[t] = elem[t]
    BY DEF Owns, StepOf
  <1>3. /\ ~Owns(t) => elem'[t] \in {NoElement, listed[key'[t]]}
        /\ Borrows(t)' => elem'[t] = listed[key'[t]]
    BY ElementParts DEF Owns, Borrows, StepOf, BorrowedElements
  <1>4. pc'[t] = "free" /\ job'[t] = "rep" => drop'[t] = <<valOf'[elem'[t]]>>
    BY ElementParts DEF OldValue, StepOf
  <1>5. \A u \in Threads : u # t /\ pc[u] = "free" /\ job[u] = "rep" =>
              valOf'[elem[u]] = valOf[elem[u]]
    <2>1. ASSUME NEW u \in Threads, u # t, pc[u] = "free", job[u] = "rep"
          PROVE  elem[u] # elem[t]
      <3>1. ckiW[Coll[key[u]]] = u /\ ckiW[Coll[key[t]]] = t /\ key[u] \in Keys /\ key[t] \in Keys
        BY <2>1 DEF Keeps
      <3>2. elem[u] = listed[key[u]] /\ elem[t] = listed[key[t]]
        BY <2>1, ElementParts DEF BorrowedElements, Borrows
      <3>3. elem[t] # NoElement
        BY DEF StepOf, Borrows
      <3> QED
        BY <2>1, <3>1, <3>2, <3>3, ElementParts DEF ListedElements
    <2> QED
      BY <2>1
  <1> QED
    BY <1>1, <1>2, <1>3, <1>4, <1>5, ElementsKept

LEMMA LockToReadElements ==
    ASSUME TypeInv, LockInv, ElementsConserved, NEW t \in Threads, LockToRead(t)
    PROVE  ElementsConserved'
  <1> USE HoldsLock DEF TypeInv, TypeOK, LockToRead, Goto, pageVars, elemVars, tree, frame
  <1>1. Alone(t) /\ UNCHANGED <<elements, freeElems, elemCount, listed>> /\ key'[t] \in Keys
    BY DEF Alone
  <1>2. /\ Owns(t)' <=> Owns(t)
        /\ Owns(t) => elem'[t] = elem[t]
    BY DEF Owns, StepOf
  <1>3. /\ ~Owns(t) => elem'[t] \in {NoElement, listed[key'[t]]}
        /\ Borrows(t)' => elem'[t] = listed[key'[t]]
    BY ElementParts DEF Owns, Borrows, StepOf, BorrowedElements
  <1>4. pc'[t] = "free" /\ job'[t] = "rep" => drop'[t] = <<valOf'[elem'[t]]>>
    BY ElementParts DEF OldValue, StepOf
  <1>5. \A u \in Threads : u # t /\ pc[u] = "free" /\ job[u] = "rep" =>
              valOf'[elem[u]] = valOf[elem[u]]
    OBVIOUS
  <1> QED
    BY <1>1, <1>2, <1>3, <1>4, <1>5, ElementsKept

LEMMA GetMissingElements ==
    ASSUME TypeInv, LockInv, ElementsConserved, NEW t \in Threads, GetMissing(t)
    PROVE  ElementsConserved'
  <1> USE HoldsLock DEF TypeInv, TypeOK, GetMissing, Goto, pageVars, elemVars, tree, frame
  <1>1. Alone(t) /\ UNCHANGED <<elements, freeElems, elemCount, listed>> /\ key'[t] \in Keys
    BY DEF Alone
  <1>2. /\ Owns(t)' <=> Owns(t)
        /\ Owns(t) => elem'[t] = elem[t]
    BY DEF Owns, StepOf
  <1>3. /\ ~Owns(t) => elem'[t] \in {NoElement, listed[key'[t]]}
        /\ Borrows(t)' => elem'[t] = listed[key'[t]]
    BY ElementParts DEF Owns, Borrows, StepOf, BorrowedElements
  <1>4. pc'[t] = "free" /\ job'[t] = "rep" => drop'[t] = <<valOf'[elem'[t]]>>
    BY ElementParts DEF OldValue, StepOf
  <1>5. \A u \in Threads : u # t /\ pc[u] = "free" /\ job[u] = "rep" =>
              valOf'[elem[u]] = valOf[elem[u]]
    OBVIOUS
  <1> QED
    BY <1>1, <1>2, <1>3, <1>4, <1>5, ElementsKept

LEMMA LoadPageElements ==
    ASSUME TypeInv, LockInv, ElementsConserved, NEW t \in Threads, LoadPage(t)
    PROVE  ElementsConserved'
  <1> USE HoldsLock DEF TypeInv, TypeOK, LoadPage, Goto, pageVars, elemVars, tree, frame
  <1>1. Alone(t) /\ UNCHANGED <<elements, freeElems, elemCount, listed>> /\ key'[t] \in Keys
    BY DEF Alone
  <1>2. /\ Owns(t)' <=> Owns(t)
        /\ Owns(t) => elem'[t] = elem[t]
    BY DEF Owns, StepOf
  <1>3. /\ ~Owns(t) => elem'[t] \in {NoElement, listed[key'[t]]}
        /\ Borrows(t)' => elem'[t] = listed[key'[t]]
    BY ElementParts DEF Owns, Borrows, StepOf, BorrowedElements
  <1>4. pc'[t] = "free" /\ job'[t] = "rep" => drop'[t] = <<valOf'[elem'[t]]>>
    BY ElementParts DEF OldValue, StepOf
  <1>5. \A u \in Threads : u # t /\ pc[u] = "free" /\ job[u] = "rep" =>
              valOf'[elem[u]] = valOf[elem[u]]
    OBVIOUS
  <1> QED
    BY <1>1, <1>2, <1>3, <1>4, <1>5, ElementsKept

LEMMA ReturnValueElements ==
    ASSUME TypeInv, LockInv, ElementsConserved, NEW t \in Threads, ReturnValue(t)
    PROVE  ElementsConserved'
  <1> USE HoldsLock DEF TypeInv, TypeOK, ReturnValue, Goto, pageVars, elemVars, tree, frame
  <1>1. Alone(t) /\ UNCHANGED <<elements, freeElems, elemCount, listed>> /\ key'[t] \in Keys
    BY DEF Alone
  <1>2. /\ Owns(t)' <=> Owns(t)
        /\ Owns(t) => elem'[t] = elem[t]
    BY DEF Owns, StepOf
  <1>3. /\ ~Owns(t) => elem'[t] \in {NoElement, listed[key'[t]]}
        /\ Borrows(t)' => elem'[t] = listed[key'[t]]
    BY ElementParts DEF Owns, Borrows, StepOf, BorrowedElements
  <1>4. pc'[t] = "free" /\ job'[t] = "rep" => drop'[t] = <<valOf'[elem'[t]]>>
    BY ElementParts DEF OldValue, StepOf
  <1>5. \A u \in Threads : u # t /\ pc[u] = "free" /\ job[u] = "rep" =>
              valOf'[elem[u]] = valOf[elem[u]]
    OBVIOUS
  <1> QED
    BY <1>1, <1>2, <1>3, <1>4, <1>5, ElementsKept

\* An element that a thread works on is not free.
LEMMA ElementUsed ==
    ASSUME TypeInv, ElementsConserved, NEW u \in Threads, elem[u] # NoElement
    PROVE  elem[u] \in (1 .. elements) \ ToSet(freeElems)
  <1>1. Owns(u) \/ Borrows(u)
    BY StepInvOf DEF TypeInv, StepOf
  <1>2. key[u] \in Keys
    BY DEF TypeInv, TypeOK
  <1> QED
    BY <1>1, <1>2, ElementParts DEF OwnedElements, BorrowedElements, ListedElements

LEMMA ReserveElementElements ==
    ASSUME TypeInv, LockInv, ElementsConserved, NEW t \in Threads, ReserveElement(t)
    PROVE  ElementsConserved'
  <1> USE ElementParts
  <1> DEFINE e == elem'[t]
             F == ToSet(freeElems)
             G == ToSet(freeElems')
  <1>1. /\ freeElems \in Seq(Elements) /\ elements \in Nat
        /\ elem \in [Threads -> Elements \cup {NoElement}]
        /\ elemCount = Len(freeElems) /\ IsInjective(freeElems) /\ F \subseteq 1 .. elements
    BY PagesAssumption DEF TypeInv, TypeOK, FreeElements
  <1>2. /\ UNCHANGED <<valOf, listed, job, key, val, hand, drop>>
        /\ pc[t] = "alloc" /\ pc' = [pc EXCEPT ![t] = "reserve"]
        /\ \A u \in Threads : u # t => elem'[u] = elem[u]
    BY <1>1 DEF ReserveElement, Goto, tree
  <1>3. /\ elemCount' = Len(freeElems') /\ IsInjective(freeElems') /\ elements' \in Nat
        /\ elements <= elements'
        /\ e \in 1 .. elements' /\ e \notin G /\ e \in F \cup (elements + 1 .. elements')
        /\ G \subseteq 1 .. elements' /\ G \subseteq F \cup (elements + 1 .. elements')
        /\ F \subseteq G \cup {e} /\ 1 .. elements' \subseteq (1 .. elements) \cup G \cup {e}
    <2>1. CASE /\ freeElems # <<>>
               /\ elem' = [elem EXCEPT ![t] = Head(freeElems)]
               /\ freeElems' = Tail(freeElems)
               /\ elemCount' = IF 0 < elemCount THEN elemCount - 1 ELSE 0
               /\ UNCHANGED elements
      <3>1. /\ Head(freeElems) \in Elements
            /\ Tail(freeElems) \in Seq(Elements)
            /\ Len(freeElems) \in Nat \ {0}
            /\ Len(Tail(freeElems)) = Len(freeElems) - 1
            /\ \A i \in 1 .. Len(freeElems) - 1 : Tail(freeElems)[i] = freeElems[i + 1]
            /\ freeElems = <<Head(freeElems)>> \o Tail(freeElems)
            /\ ToSet(freeElems) = {Head(freeElems)} \cup ToSet(Tail(freeElems))
            /\ IsInjective(freeElems) <=>
                 IsInjective(Tail(freeElems)) /\ Head(freeElems) \notin ToSet(Tail(freeElems))
        BY <1>1, <2>1, HeadTailFacts
      <3>2. elemCount' = Len(freeElems')
        <4>1. PICK n \in Nat \ {0} : n = elemCount /\ Len(Tail(freeElems)) = n - 1
          BY <1>1, <3>1
        <4> QED
          BY <2>1, <4>1
      <3>3. e = Head(freeElems) /\ F = {e} \cup G /\ e \notin G /\ IsInjective(freeElems')
        BY <1>1, <2>1, <3>1
      <3> HIDE DEF e, F, G
      <3> QED
        BY <1>1, <2>1, <3>2, <3>3
    <2>2. CASE /\ freeElems = <<>>
               /\ elem' = [elem EXCEPT ![t] = elements + 1]
               /\ freeElems' = [i \in 1 .. ElementArea - 1 |-> elements + 1 + i]
               /\ elemCount' = elemCount + ElementArea - 1
               /\ elements' = elements + ElementArea
      <3>1. ElementArea \in Nat \ {0} /\ ElementArea - 1 \in Nat
        BY PagesAssumption
      <3>2. DOMAIN freeElems' = 1 .. ElementArea - 1 /\ Len(freeElems') = ElementArea - 1
        BY <2>2, <3>1
      <3>3. G = elements + 2 .. elements'
        <4>1. ASSUME NEW x \in elements + 2 .. elements' PROVE x \in G
          <5>1. x - elements - 1 \in 1 .. ElementArea - 1 /\ elements + 1 + (x - elements - 1) = x
            BY <1>1, <2>2, <3>1, <4>1
          <5>2. freeElems'[x - elements - 1] = x
            BY <2>2, <5>1
          <5> QED
            BY <3>2, <5>1, <5>2 DEF ToSet
        <4>2. ASSUME NEW i \in 1 .. ElementArea - 1 PROVE freeElems'[i] \in elements + 2 .. elements'
          BY <1>1, <2>2, <3>1
        <4>3. ASSUME NEW x \in G PROVE x \in elements + 2 .. elements'
          <5>1. PICK i \in DOMAIN freeElems' : freeElems'[i] = x
            BY DEF ToSet
          <5> QED
            BY <3>2, <4>2, <5>1
        <4> QED
          BY <4>1, <4>3
      <3>4. IsInjective(freeElems')
        BY <1>1, <2>2, <3>2 DEF IsInjective
      <3>5. F = {} /\ e = elements + 1 /\ elemCount' = Len(freeElems')
        <4>1. Len(freeElems) = 0 /\ F = {}
          BY <2>2, EmptyFacts
        <4> QED
          BY <1>1, <2>2, <3>1, <3>2, <4>1
      <3> HIDE DEF e, F, G
      <3> QED
        BY <1>1, <2>2, <3>1, <3>3, <3>4, <3>5
    <2> QED
      BY <2>1, <2>2 DEF ReserveElement
  <1>4. /\ \A u \in Threads : u # t => (Owns(u)' <=> Owns(u)) /\ (Borrows(u)' <=> Borrows(u)) /\ pc'[u] = pc[u]
        /\ Owns(t)' /\ ~Borrows(t)' /\ pc'[t] = "reserve" /\ ~Owns(t) /\ ~Borrows(t)
    BY <1>2, StepInvOf DEF TypeInv, TypeOK, StepOf, Owns, Borrows
  <1>5. \A u \in Threads : elem[u] # NoElement => elem[u] \in (1 .. elements) \ F
    BY ElementUsed
  <1>6. e # NoElement
    BY <1>4, StepInvOf, ReserveElementType DEF TypeInv, StepInv
  <1>7. FreeElements'
    BY <1>3 DEF FreeElements
  <1>8. ListedElements'
    BY <1>1, <1>2, <1>3 DEF ListedElements
  <1>9. OwnedElements'
    <2>1. ASSUME NEW k \in Keys PROVE listed[k] # e
      BY <1>1, <1>3, <1>6 DEF ListedElements
    <2>2. ASSUME NEW u \in Threads, u # t PROVE elem[u] # e
      BY <1>1, <1>3, <1>5, <1>6
    <2> HIDE DEF e, F, G
    <2>3. ASSUME NEW u \in Threads, u # t, Owns(u)
          PROVE  /\ elem[u] \in (1 .. elements') \ G
                 /\ \A k \in Keys : listed[k] # elem[u]
                 /\ \A w \in Threads : elem'[w] = elem[u] => w = u
      <3>1. /\ elem[u] \in (1 .. elements) \ F
            /\ \A k \in Keys : listed[k] # elem[u]
            /\ \A w \in Threads : elem[w] = elem[u] => w = u
        BY <2>3 DEF OwnedElements, F
      <3> QED
        BY <1>1, <1>2, <1>3, <2>2, <2>3, <3>1 DEF e
    <2>4. /\ e \in (1 .. elements') \ G
          /\ \A k \in Keys : listed[k] # e
          /\ \A w \in Threads : elem'[w] = e => w = t
      BY <1>2, <1>3, <2>1, <2>2
    <2> QED
      BY <1>2, <1>4, <2>3, <2>4 DEF OwnedElements, e, G
  <1>10. BorrowedElements' /\ OldValue'
    BY <1>2, <1>4 DEF BorrowedElements, OldValue
  <1>11. EveryElement'
    BY <1>2, <1>3, <1>4 DEF EveryElement
  <1> QED
    BY <1>7, <1>8, <1>9, <1>10, <1>11

LEMMA PutBackElementElements ==
    ASSUME TypeInv, LockInv, ElementsConserved, NEW t \in Threads, PutBackElement(t)
    PROVE  ElementsConserved'
  <1> USE ElementParts
  <1> DEFINE e == elem[t]
             F == ToSet(freeElems)
             G == ToSet(freeElems')
  <1>1. /\ freeElems \in Seq(Elements) /\ elements \in Nat /\ key[t] \in Keys
        /\ elem \in [Threads -> Elements \cup {NoElement}]
        /\ elemCount = Len(freeElems) /\ IsInjective(freeElems) /\ F \subseteq 1 .. elements
    BY PagesAssumption DEF TypeInv, TypeOK, FreeElements
  <1>2. /\ UNCHANGED <<elements, listed, job, key, val, hand, drop>>
        /\ pc[t] = "putback" /\ pc'[t] \in {"idle", "lock"}
        /\ elem'[t] = NoElement
        /\ \A u \in Threads : u # t => elem'[u] = elem[u] /\ pc'[u] = pc[u]
        /\ freeElems' = <<e>> \o freeElems /\ elemCount' = elemCount + 1
        /\ valOf' = [valOf EXCEPT ![e] = <<>>]
    BY <1>1 DEF PutBackElement, Goto, TypeInv, TypeOK
  <1>3. /\ e \in (1 .. elements) \ F
        /\ \A k \in Keys : listed[k] # e
        /\ \A u \in Threads : elem[u] = e => u = t
        /\ e \in Elements /\ e # NoElement
    <2>1. Owns(t)
      BY <1>2 DEF Owns
    <2>2. /\ e \in (1 .. elements) \ F
          /\ \A k \in Keys : listed[k] # e
          /\ \A u \in Threads : elem[u] = e => u = t
      BY <2>1 DEF OwnedElements
    <2> QED
      BY <2>2, ElementNames DEF TypeInv
  <1>4. /\ elemCount' = Len(freeElems') /\ IsInjective(freeElems') /\ G = F \cup {e}
    <2>1. /\ <<e>> \o freeElems \in Seq(Elements)
          /\ Len(<<e>> \o freeElems) = Len(freeElems) + 1
          /\ ToSet(<<e>> \o freeElems) = ToSet(freeElems) \cup {e}
          /\ IsInjective(<<e>> \o freeElems) <=> IsInjective(freeElems) /\ e \notin ToSet(freeElems)
      BY <1>1, <1>3, PrependFacts
    <2> QED
      BY <1>1, <1>2, <1>3, <2>1
  <1>5. /\ \A u \in Threads : u # t => (Owns(u)' <=> Owns(u)) /\ (Borrows(u)' <=> Borrows(u))
        /\ ~Owns(t)' /\ ~Borrows(t)' /\ Owns(t)
    BY <1>2 DEF Owns, Borrows
  <1> HIDE DEF e, F, G
  <1>6. FreeElements'
    BY <1>1, <1>2, <1>3, <1>4 DEF FreeElements, F, G
  <1>7. ListedElements'
    BY <1>2, <1>3, <1>4 DEF ListedElements, F, G
  <1>8. OwnedElements'
    <2>1. ASSUME NEW u \in Threads, Owns(u)'
          PROVE  /\ elem'[u] \in (1 .. elements) \ G
                 /\ \A k \in Keys : listed[k] # elem'[u]
                 /\ \A w \in Threads : elem'[w] = elem'[u] => w = u
      <3>1. u # t /\ Owns(u) /\ elem'[u] = elem[u]
        BY <1>2, <1>5, <2>1
      <3>2. /\ elem[u] \in (1 .. elements) \ F
            /\ \A k \in Keys : listed[k] # elem[u]
            /\ \A w \in Threads : elem[w] = elem[u] => w = u
        BY <3>1 DEF OwnedElements, F
      <3>3. elem[u] # e /\ elem[u] # NoElement
        BY <1>3, <3>1, <3>2, ElementNames DEF TypeInv
      <3> QED
        BY <1>2, <1>4, <3>1, <3>2, <3>3
    <2> QED
      BY <1>2, <2>1 DEF OwnedElements, G
  <1>9. BorrowedElements'
    BY <1>2, <1>5 DEF BorrowedElements
  <1>10. OldValue'
    <2>1. ASSUME NEW u \in Threads, pc'[u] = "free", job'[u] = "rep"
          PROVE  drop'[u] = <<valOf'[elem'[u]]>>
      <3>1. u # t /\ pc[u] = "free" /\ job[u] = "rep" /\ elem'[u] = elem[u]
        BY <1>2, <2>1
      <3>2. drop[u] = <<valOf[elem[u]]>> /\ elem[u] # e
        BY <1>3, <3>1 DEF OldValue
      <3>3. valOf'[elem[u]] = valOf[elem[u]]
        BY <1>2, <3>2
      <3> QED
        BY <1>2, <3>1, <3>2, <3>3
    <2> QED
      BY <2>1 DEF OldValue
  <1>11. EveryElement'
    BY <1>2, <1>4, <1>5 DEF EveryElement, F, G, e
  <1> QED
    BY <1>6, <1>7, <1>8, <1>9, <1>10, <1>11

LEMMA TakeOffElements ==
    ASSUME TypeInv, LockInv, ElementsConserved, NEW t \in Threads, TakeOff(t)
    PROVE  ElementsConserved'
  <1> USE ElementParts
  <1> DEFINE e == listed[key[t]]
  <1>1. /\ key[t] \in Keys /\ listed \in [Keys -> Elements \cup {NoElement}]
        /\ elem \in [Threads -> Elements \cup {NoElement}]
        /\ pc[t] = "remove" /\ job[t] # "rep" /\ e # NoElement
        /\ ckiW[Coll[key[t]]] = NoThread /\ ckiR[Coll[key[t]]] = {}
    BY StepInvOf DEF TypeInv, TypeOK, TakeOff, StepOf, WriteLockable
  <1>2. /\ UNCHANGED <<elements, freeElems, elemCount, valOf, job, key, val, hand>>
        /\ listed' = [listed EXCEPT ![key[t]] = NoElement]
        /\ pc'[t] = "free" /\ elem'[t] = e
        /\ \A u \in Threads : u # t => elem'[u] = elem[u] /\ pc'[u] = pc[u] /\ drop'[u] = drop[u]
    BY <1>1 DEF TakeOff, Goto, TypeInv, TypeOK, elemVars
  <1>3. /\ \A u \in Threads : u # t => (Owns(u)' <=> Owns(u)) /\ (Borrows(u)' <=> Borrows(u))
        /\ Owns(t)' /\ ~Borrows(t)' /\ ~Owns(t) /\ ~Borrows(t)
    BY <1>1, <1>2 DEF Owns, Borrows
  <1>4. ASSUME NEW u \in Threads, u # t PROVE elem[u] # e
    <2>1. CASE Owns(u)
      BY <1>1, <2>1 DEF OwnedElements
    <2>2. CASE Borrows(u)
      <3>1. elem[u] = listed[key[u]] /\ key[u] \in Keys
        BY <2>2 DEF BorrowedElements, TypeInv, TypeOK
      <3>2. key[u] # key[t]
        <4>1. CASE pc[u] = "pages"
          BY <1>1, <4>1, HoldsLock DEF LockInv
        <4>2. CASE pc[u] # "pages"
          <5>1. Keeps(pc[u], job[u])
            BY <2>2, <4>2 DEF Borrows, Keeps
          <5>2. ckiW[Coll[key[u]]] = u
            BY <5>1, HoldsLock
          <5> QED
            BY <1>1, <5>2, PagesAssumption
        <4> QED
          BY <4>1, <4>2
      <3> QED
        BY <1>1, <3>1, <3>2 DEF ListedElements
    <2>3. CASE ~Owns(u) /\ ~Borrows(u)
      BY <1>1, <2>3, StepInvOf DEF TypeInv, StepOf
    <2> QED
      BY <2>1, <2>2, <2>3
  <1>5. e \in (1 .. elements) \ ToSet(freeElems) /\ \A k \in Keys : k # key[t] => listed[k] # e
    BY <1>1 DEF ListedElements
  <1>6. \A k \in Keys : listed'[k] = IF k = key[t] THEN NoElement ELSE listed[k]
    BY <1>1, <1>2
  <1> HIDE DEF e
  <1>7. FreeElements'
    BY <1>2 DEF FreeElements
  <1>8. ListedElements'
    BY <1>2, <1>6 DEF ListedElements
  <1>9. OwnedElements'
    <2>1. ASSUME NEW u \in Threads, Owns(u)'
          PROVE  /\ elem'[u] \in (1 .. elements) \ ToSet(freeElems)
                 /\ \A k \in Keys : listed'[k] # elem'[u]
                 /\ \A w \in Threads : elem'[w] = elem'[u] => w = u
      <3>0. NoElement \notin 1 .. elements
        BY ElementNames DEF TypeInv
      <3>1. CASE u = t
        BY <1>2, <1>4, <1>5, <1>6, <3>0, <3>1
      <3>2. CASE u # t
        <4>1. /\ elem[u] \in (1 .. elements) \ ToSet(freeElems)
              /\ \A k \in Keys : listed[k] # elem[u]
              /\ \A w \in Threads : elem[w] = elem[u] => w = u
          BY <1>3, <2>1, <3>2 DEF OwnedElements
        <4> QED
          BY <1>2, <1>4, <1>6, <3>0, <3>2, <4>1
      <3> QED
        BY <3>1, <3>2
    <2> QED
      BY <1>2, <2>1 DEF OwnedElements
  <1>10. BorrowedElements'
    <2>1. ASSUME NEW u \in Threads, Borrows(u)' PROVE elem'[u] = listed'[key[u]]
      <3>1. u # t /\ Borrows(u) /\ elem'[u] = elem[u]
        BY <1>2, <1>3, <2>1
      <3>2. elem[u] = listed[key[u]] /\ key[u] \in Keys
        BY <3>1 DEF BorrowedElements, TypeInv, TypeOK
      <3>3. key[u] # key[t]
        BY <1>4, <3>1, <3>2 DEF e
      <3> QED
        BY <1>6, <3>1, <3>2, <3>3
    <2> QED
      BY <1>2, <2>1 DEF BorrowedElements
  <1>11. OldValue'
    BY <1>1, <1>2 DEF OldValue
  <1>12. EveryElement'
    <2>1. ASSUME NEW x \in 1 .. elements
          PROVE  \/ x \in ToSet(freeElems)
                 \/ \E k \in Keys : listed'[k] = x
                 \/ \E u \in Threads : Owns(u)' /\ elem'[u] = x
      <3>1. CASE \E k \in Keys : listed[k] = x
        BY <1>2, <1>3, <1>6, <3>1 DEF e
      <3>2. CASE \E u \in Threads : Owns(u) /\ elem[u] = x
        BY <1>2, <1>3, <3>2
      <3> QED
        BY <3>1, <3>2 DEF EveryElement
    <2> QED
      BY <1>2, <2>1 DEF EveryElement
  <1> QED
    BY <1>7, <1>8, <1>9, <1>10, <1>11, <1>12

LEMMA InsertElementElements ==
    ASSUME TypeInv, LockInv, ElementsConserved, NEW t \in Threads, InsertElement(t)
    PROVE  ElementsConserved'
  <1> USE ElementParts
  <1> DEFINE e == elem[t]
  <1>1. /\ key[t] \in Keys /\ listed \in [Keys -> Elements \cup {NoElement}]
        /\ elem \in [Threads -> Elements \cup {NoElement}]
        /\ pc[t] = "insert" /\ listed[key[t]] = NoElement
    BY DEF TypeInv, TypeOK, InsertElement, LockInv
  <1>2. /\ UNCHANGED <<elements, freeElems, elemCount, job, key, val, drop>>
        /\ listed' = [listed EXCEPT ![key[t]] = e]
        /\ valOf' = [valOf EXCEPT ![e] = hand[t][2]]
        /\ pc'[t] = "idle" /\ elem'[t] = NoElement
        /\ \A u \in Threads : u # t => elem'[u] = elem[u] /\ pc'[u] = pc[u]
    BY <1>1 DEF InsertElement, Goto, TypeInv, TypeOK, elemVars
  <1>3. /\ \A u \in Threads : u # t => (Owns(u)' <=> Owns(u)) /\ (Borrows(u)' <=> Borrows(u))
        /\ ~Owns(t)' /\ ~Borrows(t)' /\ Owns(t)
    BY <1>1, <1>2 DEF Owns, Borrows
  <1>4. /\ e \in (1 .. elements) \ ToSet(freeElems) /\ e # NoElement
        /\ \A k \in Keys : listed[k] # e
        /\ \A u \in Threads : elem[u] = e => u = t
    BY <1>3, ElementNames DEF TypeInv, OwnedElements
  <1>5. \A k \in Keys : listed'[k] = IF k = key[t] THEN e ELSE listed[k]
    BY <1>1, <1>2
  <1> HIDE DEF e
  <1>6. FreeElements'
    BY <1>2 DEF FreeElements
  <1>7. ListedElements'
    BY <1>2, <1>4, <1>5 DEF ListedElements
  <1>8. OwnedElements'
    <2>1. ASSUME NEW u \in Threads, Owns(u)'
          PROVE  /\ elem'[u] \in (1 .. elements) \ ToSet(freeElems)
                 /\ \A k \in Keys : listed'[k] # elem'[u]
                 /\ \A w \in Threads : elem'[w] = elem'[u] => w = u
      <3>1. u # t /\ Owns(u) /\ elem'[u] = elem[u]
        BY <1>2, <1>3, <2>1
      <3>2. /\ elem[u] \in (1 .. elements) \ ToSet(freeElems)
            /\ \A k \in Keys : listed[k] # elem[u]
            /\ \A w \in Threads : elem[w] = elem[u] => w = u
        BY <3>1 DEF OwnedElements
      <3>3. elem[u] # e /\ elem[u] # NoElement
        BY <1>4, <3>1, <3>2, ElementNames DEF TypeInv
      <3> QED
        BY <1>2, <1>5, <3>1, <3>2, <3>3
    <2> QED
      BY <1>2, <2>1 DEF OwnedElements
  <1>9. BorrowedElements'
    <2>1. ASSUME NEW u \in Threads, Borrows(u)' PROVE elem'[u] = listed'[key[u]]
      <3>1. u # t /\ Borrows(u) /\ elem'[u] = elem[u]
        BY <1>2, <1>3, <2>1
      <3>2. elem[u] = listed[key[u]] /\ key[u] \in Keys /\ elem[u] # NoElement
        BY <3>1, StepInvOf DEF BorrowedElements, TypeInv, TypeOK, StepOf
      <3>3. key[u] # key[t]
        BY <1>1, <3>2
      <3> QED
        BY <1>5, <3>1, <3>2, <3>3
    <2> QED
      BY <1>2, <2>1 DEF BorrowedElements
  <1>10. OldValue'
    <2>1. ASSUME NEW u \in Threads, pc'[u] = "free", job'[u] = "rep"
          PROVE  drop'[u] = <<valOf'[elem'[u]]>>
      <3>1. u # t /\ pc[u] = "free" /\ job[u] = "rep" /\ elem'[u] = elem[u]
        BY <1>2, <2>1
      <3>2. drop[u] = <<valOf[elem[u]]>> /\ elem[u] # e
        BY <1>4, <3>1 DEF OldValue
      <3>3. valOf'[elem[u]] = valOf[elem[u]]
        BY <1>2, <3>2
      <3> QED
        BY <1>2, <3>1, <3>2, <3>3
    <2> QED
      BY <2>1 DEF OldValue
  <1>11. EveryElement'
    <2>1. ASSUME NEW x \in 1 .. elements
          PROVE  \/ x \in ToSet(freeElems)
                 \/ \E k \in Keys : listed'[k] = x
                 \/ \E u \in Threads : Owns(u)' /\ elem'[u] = x
      <3>1. CASE \E k \in Keys : listed[k] = x
        <4>1. PICK k \in Keys : listed[k] = x
          BY <3>1
        <4>2. k # key[t]
          BY <1>1, <4>1, ElementNames DEF TypeInv
        <4> QED
          BY <1>5, <4>1, <4>2
      <3>2. CASE \E u \in Threads : Owns(u) /\ elem[u] = x
        BY <1>1, <1>2, <1>3, <1>5, <3>2 DEF e
      <3> QED
        BY <3>1, <3>2 DEF EveryElement
    <2> QED
      BY <1>2, <2>1 DEF EveryElement
  <1> QED
    BY <1>6, <1>7, <1>8, <1>9, <1>10, <1>11

LEMMA NextElements == TypeInv /\ LockInv /\ ElementsConserved /\ [Next]_vars => ElementsConserved'
  <1> SUFFICES ASSUME TypeInv, LockInv, ElementsConserved, [Next]_vars PROVE ElementsConserved'
    OBVIOUS
  <1>1. ASSUME UNCHANGED vars PROVE ElementsConserved'
    BY <1>1 DEF vars, pageVars, elemVars, tree, frame, ElementsConserved, Owns, Borrows
  <1>2. ASSUME NEW t \in Threads, NEW j \in {"get", "del", "set", "rep"},
               NEW k \in Keys, NEW v \in Vals, Begin(t, j, k, v)
        PROVE  ElementsConserved'
    BY <1>2, BeginElements
  <1>3. ASSUME NEW t \in Threads, Step(t) PROVE ElementsConserved'
    BY <1>3, ExpandPageAreaElements, ReservePagesElements, ReservePagesFailsElements,
       PutBackPagesElements, ReserveElementElements, ReserveElementFailsElements,
       PutBackElementElements, TakeOffElements, RemoveNothingElements, LockToInsertElements,
       RetrySetElements, InsertElementElements, LockToReplaceElements, ReplaceMissingElements,
       SetValuePointerElements, LockToReadElements, GetMissingElements, LoadPageElements,
       ReturnValueElements DEF Step
  <1> QED
    BY <1>1, <1>2, <1>3 DEF Next, Done

-----------------------------------------------------------------------------
\* Pages

\* The key that a Replace is putting the old value of back.
Behind(k) == \E t \in Threads : pc[t] \in {"free", "point"} /\ job[t] = "rep" /\ key[t] = k

\* The five kinds of places of a page: in the list, in a chain of a thread, in a
\* chain of a key.
IsFree(p) == p \in ToSet(free)
InHand(p, t, i) == i \in DOMAIN hand[t] /\ p \in ToSet(hand[t][i])
ToDrop(p, t, i) == i \in DOMAIN drop[t] /\ p \in ToSet(drop[t][i])
OfKey(p, k) == listed[k] # NoElement /\ p \in ToSet(keyOf[listed[k]])
OfValue(p, k) == listed[k] # NoElement /\ ~Behind(k) /\ p \in ToSet(valOf[listed[k]])

\* A page is in one place if it is a page of the file, and in none otherwise.
InFile(p) ==
    \/ IsFree(p)
    \/ \E t \in Threads, i \in Nat : InHand(p, t, i) \/ ToDrop(p, t, i)
    \/ \E k \in Keys : OfKey(p, k) \/ OfValue(p, k)

OneHome(p) ==
    /\ InFile(p) <=> p \in 1 .. pages
    /\ IsFree(p) => /\ \A t \in Threads, i \in Nat : ~InHand(p, t, i) /\ ~ToDrop(p, t, i)
                    /\ \A k \in Keys : ~OfKey(p, k) /\ ~OfValue(p, k)
    /\ \A t, u \in Threads, i, j \in Nat :
         /\ InHand(p, t, i) /\ InHand(p, u, j) => t = u /\ i = j
         /\ ToDrop(p, t, i) /\ ToDrop(p, u, j) => t = u /\ i = j
         /\ ~(InHand(p, t, i) /\ ToDrop(p, u, j))
    /\ \A k \in Keys, t \in Threads, i \in Nat :
         /\ ~(OfKey(p, k) /\ InHand(p, t, i)) /\ ~(OfKey(p, k) /\ ToDrop(p, t, i))
         /\ ~(OfValue(p, k) /\ InHand(p, t, i)) /\ ~(OfValue(p, k) /\ ToDrop(p, t, i))
    /\ \A j, k \in Keys :
         /\ OfKey(p, j) /\ OfKey(p, k) => j = k
         /\ OfValue(p, j) /\ OfValue(p, k) => j = k
         /\ ~(OfKey(p, j) /\ OfValue(p, k))

PagesApart == \A p \in 1 .. MaxPages : OneHome(p)

\* What the steps of this layer build on.
FileInv == TypeInv /\ LockInv /\ ElementsConserved /\ PagesApart

\* An element is being replaced when its key is.
LEMMA ReplacingBehind ==
    ASSUME TypeInv, ElementsConserved, NEW k \in Keys, listed[k] # NoElement
    PROVE  Replacing(listed[k]) <=> Behind(k)
  <1>1. \A t \in Threads : pc[t] \in {"free", "point"} /\ job[t] = "rep" =>
           elem[t] = listed[key[t]] /\ key[t] \in Keys
    BY DEF TypeInv, TypeOK, ElementsConserved, Borrows
  <1>2. \A j \in Keys : listed[j] = listed[k] => j = k
    BY DEF ElementsConserved
  <1> QED
    BY <1>1, <1>2 DEF Replacing, Behind

\* It has its CKINDEX locked, so no other thread replaces, inserts or takes off.
LEMMA BehindLocks ==
    ASSUME TypeInv, LockInv, NEW t \in Threads, Behind(key[t])
    PROVE  /\ ckiW[Coll[key[t]]] # NoThread
           /\ ckiW[Coll[key[t]]] = t =>
                 pc[t] \in {"free", "point"} /\ job[t] = "rep"
  <1>1. PICK u \in Threads : pc[u] \in {"free", "point"} /\ job[u] = "rep" /\ key[u] = key[t]
    BY DEF Behind
  <1>2. ckiW[Coll[key[u]]] = u
    BY <1>1 DEF LockInv
  <1> QED
    BY <1>1, <1>2, PagesAssumption

LEMMA InitPages == Init => PagesApart
  <1> SUFFICES ASSUME Init PROVE PagesApart
    OBVIOUS
  <1>1. /\ free = [i \in 1 .. PageArea |-> i] /\ pages = PageArea /\ PageArea \in Nat
        /\ \A t \in Threads : DOMAIN hand[t] = {} /\ DOMAIN drop[t] = {}
        /\ \A k \in Keys : listed[k] = NoElement
    BY PagesAssumption DEF Init
  <1>2. \A p : p \in ToSet(free) <=> p \in 1 .. PageArea
    BY <1>1 DEF ToSet
  <1>3. ASSUME NEW p \in 1 .. MaxPages PROVE OneHome(p)
    <2>1. /\ \A t \in Threads, i \in Nat : ~InHand(p, t, i) /\ ~ToDrop(p, t, i)
          /\ \A k \in Keys : ~OfKey(p, k) /\ ~OfValue(p, k)
      BY <1>1 DEF InHand, ToDrop, OfKey, OfValue
    <2>2. IsFree(p) <=> p \in 1 .. pages
      BY <1>1, <1>2 DEF IsFree
    <2> QED
      BY <2>1, <2>2 DEF OneHome, InFile
  <1> QED
    BY <1>3 DEF PagesApart

\* A step that leaves all places as they are.
SamePlaces ==
    /\ \A k \in Keys : Behind(k)' <=> Behind(k)
    /\ \A k \in Keys : /\ listed'[k] = listed[k]
                       /\ listed[k] # NoElement => /\ keyOf'[listed[k]] = keyOf[listed[k]]
                                                   /\ valOf'[listed[k]] = valOf[listed[k]]
    /\ UNCHANGED <<pages, free>>
    /\ \A t \in Threads : hand'[t] = hand[t] /\ drop'[t] = drop[t]

LEMMA PagesKept ==
    ASSUME PagesApart, SamePlaces
    PROVE  PagesApart'
  <1>1. ASSUME NEW p \in 1 .. MaxPages PROVE OneHome(p)'
    <2>1. /\ IsFree(p)' <=> IsFree(p)
          /\ \A t \in Threads, i \in Nat : /\ InHand(p, t, i)' <=> InHand(p, t, i)
                                           /\ ToDrop(p, t, i)' <=> ToDrop(p, t, i)
          /\ \A k \in Keys : OfKey(p, k)' <=> OfKey(p, k)
      BY DEF SamePlaces, IsFree, InHand, ToDrop, OfKey
    <2>2. \A k \in Keys : OfValue(p, k)' <=> OfValue(p, k)
      BY DEF SamePlaces, OfValue
    <2>3. OneHome(p) /\ pages' = pages
      BY DEF PagesApart, SamePlaces
    <2> QED
      BY <2>1, <2>2, <2>3 DEF OneHome, InFile
  <1> QED
    BY <1>1 DEF PagesApart

LEMMA UnchangedPages ==
    ASSUME UNCHANGED <<pages, free, keyOf, valOf, listed, pc, job, key, hand, drop>>
    PROVE  SamePlaces
  BY DEF SamePlaces, Behind

LEMMA BeginSame ==
    ASSUME TypeInv, LockInv, ElementsConserved, NEW t \in Threads, NEW j \in {"get", "del", "set", "rep"},
           NEW k \in Keys, NEW v \in Vals, Begin(t, j, k, v)
    PROVE  SamePlaces
  <1> USE StepInvOf DEF TypeInv, TypeOK, Begin, Goto, pageVars, elemVars, tree, frame
  <1>1. \A x \in Keys : Behind(x)' <=> Behind(x)
    <2>1. ~(pc[t] \in {"free", "point"} /\ job[t] = "rep") /\ ~(pc'[t] \in {"free", "point"} /\ job'[t] = "rep")
      BY DEF StepOf
    <2>2. \A u \in Threads : u # t => pc'[u] = pc[u] /\ job'[u] = job[u] /\ key'[u] = key[u]
      OBVIOUS
    <2> QED
      BY <2>1, <2>2 DEF Behind
  <1> QED
    BY <1>1 DEF SamePlaces

LEMMA ReserveElementSame ==
    ASSUME TypeInv, LockInv, ElementsConserved, NEW t \in Threads, ReserveElement(t)
    PROVE  SamePlaces
  <1> USE StepInvOf DEF TypeInv, TypeOK, ReserveElement, Goto, pageVars, elemVars, tree, frame
  <1>1. \A x \in Keys : Behind(x)' <=> Behind(x)
    <2>1. ~(pc[t] \in {"free", "point"} /\ job[t] = "rep") /\ ~(pc'[t] \in {"free", "point"} /\ job'[t] = "rep")
      BY DEF StepOf
    <2>2. \A u \in Threads : u # t => pc'[u] = pc[u] /\ job'[u] = job[u] /\ key'[u] = key[u]
      OBVIOUS
    <2> QED
      BY <2>1, <2>2 DEF Behind
  <1> QED
    BY <1>1 DEF SamePlaces

LEMMA ReserveElementFailsSame ==
    ASSUME TypeInv, LockInv, ElementsConserved, NEW t \in Threads, ReserveElementFails(t)
    PROVE  SamePlaces
  <1> USE StepInvOf DEF TypeInv, TypeOK, ReserveElementFails, Goto, pageVars, elemVars, tree, frame
  <1>1. \A x \in Keys : Behind(x)' <=> Behind(x)
    <2>1. ~(pc[t] \in {"free", "point"} /\ job[t] = "rep") /\ ~(pc'[t] \in {"free", "point"} /\ job'[t] = "rep")
      BY DEF StepOf
    <2>2. \A u \in Threads : u # t => pc'[u] = pc[u] /\ job'[u] = job[u] /\ key'[u] = key[u]
      OBVIOUS
    <2> QED
      BY <2>1, <2>2 DEF Behind
  <1> QED
    BY <1>1 DEF SamePlaces

LEMMA PutBackElementSame ==
    ASSUME TypeInv, LockInv, ElementsConserved, NEW t \in Threads, PutBackElement(t)
    PROVE  SamePlaces
  <1> USE StepInvOf DEF TypeInv, TypeOK, PutBackElement, Goto, pageVars, elemVars, tree, frame
  <1>1. \A x \in Keys : Behind(x)' <=> Behind(x)
    <2>1. ~(pc[t] \in {"free", "point"} /\ job[t] = "rep") /\ ~(pc'[t] \in {"free", "point"} /\ job'[t] = "rep")
      BY DEF StepOf
    <2>2. \A u \in Threads : u # t => pc'[u] = pc[u] /\ job'[u] = job[u] /\ key'[u] = key[u]
      OBVIOUS
    <2> QED
      BY <2>1, <2>2 DEF Behind
  <1>2. \A x \in Keys : listed[x] # elem[t]
    BY DEF ElementsConserved, Owns
  <1> QED
    BY <1>1, <1>2 DEF SamePlaces

LEMMA RemoveNothingSame ==
    ASSUME TypeInv, LockInv, ElementsConserved, NEW t \in Threads, RemoveNothing(t)
    PROVE  SamePlaces
  <1> USE StepInvOf DEF TypeInv, TypeOK, RemoveNothing, Goto, pageVars, elemVars, tree, frame
  <1>1. \A x \in Keys : Behind(x)' <=> Behind(x)
    <2>1. ~(pc[t] \in {"free", "point"} /\ job[t] = "rep") /\ ~(pc'[t] \in {"free", "point"} /\ job'[t] = "rep")
      BY DEF StepOf
    <2>2. \A u \in Threads : u # t => pc'[u] = pc[u] /\ job'[u] = job[u] /\ key'[u] = key[u]
      OBVIOUS
    <2> QED
      BY <2>1, <2>2 DEF Behind
  <1> QED
    BY <1>1 DEF SamePlaces

LEMMA LockToInsertSame ==
    ASSUME TypeInv, LockInv, ElementsConserved, NEW t \in Threads, LockToInsert(t)
    PROVE  SamePlaces
  <1> USE StepInvOf DEF TypeInv, TypeOK, LockToInsert, Goto, pageVars, elemVars, tree, frame
  <1>1. \A x \in Keys : Behind(x)' <=> Behind(x)
    <2>1. ~(pc[t] \in {"free", "point"} /\ job[t] = "rep") /\ ~(pc'[t] \in {"free", "point"} /\ job'[t] = "rep")
      BY DEF StepOf
    <2>2. \A u \in Threads : u # t => pc'[u] = pc[u] /\ job'[u] = job[u] /\ key'[u] = key[u]
      OBVIOUS
    <2> QED
      BY <2>1, <2>2 DEF Behind
  <1> QED
    BY <1>1 DEF SamePlaces

LEMMA RetrySetSame ==
    ASSUME TypeInv, LockInv, ElementsConserved, NEW t \in Threads, RetrySet(t)
    PROVE  SamePlaces
  <1> USE StepInvOf DEF TypeInv, TypeOK, RetrySet, Goto, pageVars, elemVars, tree, frame
  <1>1. \A x \in Keys : Behind(x)' <=> Behind(x)
    <2>1. ~(pc[t] \in {"free", "point"} /\ job[t] = "rep") /\ ~(pc'[t] \in {"free", "point"} /\ job'[t] = "rep")
      BY DEF StepOf
    <2>2. \A u \in Threads : u # t => pc'[u] = pc[u] /\ job'[u] = job[u] /\ key'[u] = key[u]
      OBVIOUS
    <2> QED
      BY <2>1, <2>2 DEF Behind
  <1> QED
    BY <1>1 DEF SamePlaces

LEMMA LockToReplaceSame ==
    ASSUME TypeInv, LockInv, ElementsConserved, NEW t \in Threads, LockToReplace(t)
    PROVE  SamePlaces
  <1> USE StepInvOf DEF TypeInv, TypeOK, LockToReplace, Goto, pageVars, elemVars, tree, frame
  <1>1. \A x \in Keys : Behind(x)' <=> Behind(x)
    <2>1. ~(pc[t] \in {"free", "point"} /\ job[t] = "rep") /\ ~(pc'[t] \in {"free", "point"} /\ job'[t] = "rep")
      BY DEF StepOf
    <2>2. \A u \in Threads : u # t => pc'[u] = pc[u] /\ job'[u] = job[u] /\ key'[u] = key[u]
      OBVIOUS
    <2> QED
      BY <2>1, <2>2 DEF Behind
  <1> QED
    BY <1>1 DEF SamePlaces

LEMMA ReplaceMissingSame ==
    ASSUME TypeInv, LockInv, ElementsConserved, NEW t \in Threads, ReplaceMissing(t)
    PROVE  SamePlaces
  <1> USE StepInvOf DEF TypeInv, TypeOK, ReplaceMissing, Goto, pageVars, elemVars, tree, frame
  <1>1. \A x \in Keys : Behind(x)' <=> Behind(x)
    <2>1. ~(pc[t] \in {"free", "point"} /\ job[t] = "rep") /\ ~(pc'[t] \in {"free", "point"} /\ job'[t] = "rep")
      BY DEF StepOf
    <2>2. \A u \in Threads : u # t => pc'[u] = pc[u] /\ job'[u] = job[u] /\ key'[u] = key[u]
      OBVIOUS
    <2> QED
      BY <2>1, <2>2 DEF Behind
  <1> QED
    BY <1>1 DEF SamePlaces

LEMMA LockToReadSame ==
    ASSUME TypeInv, LockInv, ElementsConserved, NEW t \in Threads, LockToRead(t)
    PROVE  SamePlaces
  <1> USE StepInvOf DEF TypeInv, TypeOK, LockToRead, Goto, pageVars, elemVars, tree, frame
  <1>1. \A x \in Keys : Behind(x)' <=> Behind(x)
    <2>1. ~(pc[t] \in {"free", "point"} /\ job[t] = "rep") /\ ~(pc'[t] \in {"free", "point"} /\ job'[t] = "rep")
      BY DEF StepOf
    <2>2. \A u \in Threads : u # t => pc'[u] = pc[u] /\ job'[u] = job[u] /\ key'[u] = key[u]
      OBVIOUS
    <2> QED
      BY <2>1, <2>2 DEF Behind
  <1> QED
    BY <1>1 DEF SamePlaces

LEMMA GetMissingSame ==
    ASSUME TypeInv, LockInv, ElementsConserved, NEW t \in Threads, GetMissing(t)
    PROVE  SamePlaces
  <1> USE StepInvOf DEF TypeInv, TypeOK, GetMissing, Goto, pageVars, elemVars, tree, frame
  <1>1. \A x \in Keys : Behind(x)' <=> Behind(x)
    <2>1. ~(pc[t] \in {"free", "point"} /\ job[t] = "rep") /\ ~(pc'[t] \in {"free", "point"} /\ job'[t] = "rep")
      BY DEF StepOf
    <2>2. \A u \in Threads : u # t => pc'[u] = pc[u] /\ job'[u] = job[u] /\ key'[u] = key[u]
      OBVIOUS
    <2> QED
      BY <2>1, <2>2 DEF Behind
  <1> QED
    BY <1>1 DEF SamePlaces

LEMMA LoadPageSame ==
    ASSUME TypeInv, LockInv, ElementsConserved, NEW t \in Threads, LoadPage(t)
    PROVE  SamePlaces
  <1> USE StepInvOf DEF TypeInv, TypeOK, LoadPage, Goto, pageVars, elemVars, tree, frame
  <1>1. \A x \in Keys : Behind(x)' <=> Behind(x)
    <2>1. ~(pc[t] \in {"free", "point"} /\ job[t] = "rep") /\ ~(pc'[t] \in {"free", "point"} /\ job'[t] = "rep")
      BY DEF StepOf
    <2>2. \A u \in Threads : u # t => pc'[u] = pc[u] /\ job'[u] = job[u] /\ key'[u] = key[u]
      OBVIOUS
    <2> QED
      BY <2>1, <2>2 DEF Behind
  <1> QED
    BY <1>1 DEF SamePlaces

LEMMA ReturnValueSame ==
    ASSUME TypeInv, LockInv, ElementsConserved, NEW t \in Threads, ReturnValue(t)
    PROVE  SamePlaces
  <1> USE StepInvOf DEF TypeInv, TypeOK, ReturnValue, Goto, pageVars, elemVars, tree, frame
  <1>1. \A x \in Keys : Behind(x)' <=> Behind(x)
    <2>1. ~(pc[t] \in {"free", "point"} /\ job[t] = "rep") /\ ~(pc'[t] \in {"free", "point"} /\ job'[t] = "rep")
      BY DEF StepOf
    <2>2. \A u \in Threads : u # t => pc'[u] = pc[u] /\ job'[u] = job[u] /\ key'[u] = key[u]
      OBVIOUS
    <2> QED
      BY <2>1, <2>2 DEF Behind
  <1> QED
    BY <1>1 DEF SamePlaces

\* The steps that move pages.

LEMMA ExpandPageAreaPages ==
    ASSUME FileInv, NEW t \in Threads, ExpandPageArea(t)
    PROVE  PagesApart'
  <1> DEFINE new == [i \in 1 .. PageArea |-> pages + i]
  <1>1. /\ pages' = pages + PageArea /\ free' = new \o free /\ PageArea \in Nat \ {0}
        /\ pages \in Nat /\ free \in Seq(1 .. MaxPages) /\ pages + PageArea <= MaxPages
        /\ UNCHANGED <<keyOf, valOf, listed, pc, job, key, hand, drop>>
    BY PagesAssumption DEF ExpandPageArea, RoomForPages, FileInv, TypeInv, TypeOK, Chains, tree, frame
  <1>2. new \in Seq(1 .. MaxPages) /\ DOMAIN new = 1 .. PageArea
    <2>1. \A i \in 1 .. PageArea : pages + i \in 1 .. MaxPages
      BY <1>1, PagesAssumption
    <2> QED
      BY <1>1, <2>1
  <1>3. \A p : p \in ToSet(new) <=> p \in pages + 1 .. pages + PageArea
    <2>1. ASSUME NEW p \in pages + 1 .. pages + PageArea PROVE p \in ToSet(new)
      <3>1. p - pages \in 1 .. PageArea /\ new[p - pages] = p
        BY <1>1, <2>1
      <3> QED
        BY <1>2, <3>1 DEF ToSet
    <2>2. ASSUME NEW p \in ToSet(new) PROVE p \in pages + 1 .. pages + PageArea
      BY <1>1, <1>2, <2>2 DEF ToSet
    <2> QED
      BY <2>1, <2>2
  <1> HIDE DEF new
  <1>4. ToSet(free') = ToSet(new) \cup ToSet(free)
    <2>1. /\ new \o free \in Seq(1 .. MaxPages)
          /\ Len(new \o free) = Len(new) + Len(free)
          /\ ToSet(new \o free) = ToSet(new) \cup ToSet(free)
          /\ IsInjective(new \o free) <=>
               IsInjective(new) /\ IsInjective(free) /\ ToSet(new) \cap ToSet(free) = {}
      BY <1>1, <1>2, ConcatFacts
    <2> QED
      BY <1>1, <2>1
  <1>5. ASSUME NEW p \in 1 .. MaxPages PROVE OneHome(p)'
    <2>1. IsFree(p)' <=> IsFree(p) \/ p \in pages + 1 .. pages + PageArea
      BY <1>3, <1>4 DEF IsFree
    <2>2. /\ \A u \in Threads, i \in Nat : /\ InHand(p, u, i)' <=> InHand(p, u, i)
                                           /\ ToDrop(p, u, i)' <=> ToDrop(p, u, i)
          /\ \A k \in Keys : OfKey(p, k)' <=> OfKey(p, k)
          /\ \A k \in Keys : OfValue(p, k)' <=> OfValue(p, k)
      BY <1>1 DEF InHand, ToDrop, OfKey, OfValue, Behind
    <2>3. OneHome(p)
      BY DEF FileInv, PagesApart
    <2>4. /\ p \in 1 .. pages' <=> p \in 1 .. pages \/ p \in pages + 1 .. pages + PageArea
          /\ p \in pages + 1 .. pages + PageArea => p \notin 1 .. pages
      BY <1>1
    <2> QED
      BY <2>1, <2>2, <2>3, <2>4 DEF OneHome, InFile
  <1> QED
    BY <1>5 DEF PagesApart

\* What ReservePages cuts off the list, and what it leaves.
LEMMA ReservedChain ==
    ASSUME FileInv, NEW t \in Threads, ReservePages(t)
    PROVE  LET n == Need[Piece(t)]
               chain == SubSeq(free, 1, n)
           IN  /\ chain \in Chains /\ Len(chain) = n /\ free \in Chains /\ free' \in Chains
               /\ ToSet(free) = ToSet(chain) \cup ToSet(free')
               /\ IsInjective(free) =>
                    /\ IsInjective(chain) /\ IsInjective(free')
                    /\ ToSet(chain) \cap ToSet(free') = {}
               /\ data' = Written(chain, Piece(t))
               /\ Piece(t) \in Keys \cup Vals
               /\ Len(hand[t]) \in Nat /\ Len(hand[t]) < Len(Pieces(t))
               /\ hand[t] \in Seq(Chains) /\ drop[t] = <<>>
               /\ hand' = [hand EXCEPT ![t] = Append(@, chain)]
  <1> DEFINE n == Need[Piece(t)]
  <1>1. /\ StepOf(t) /\ pc[t] = "reserve"
        /\ Len(hand[t]) \in Nat /\ Len(hand[t]) < Len(Pieces(t))
        /\ hand[t] \in Seq(Chains) /\ drop[t] = <<>>
    BY StepInvOf, PieceType, TypeParts DEF StepOf, ReservePages, HandType, FileInv, TypeInv
  <1>2. Piece(t) \in Keys \cup Vals /\ n \in Nat
    BY <1>1, PieceType DEF FileInv, TypeInv
  <1>3. n <= Len(free) /\ free \in Seq(1 .. MaxPages)
    <2>1. n <= freeCount /\ freeCount <= Len(free) /\ free \in Seq(1 .. MaxPages) /\ freeCount \in Nat
      BY DEF ReservePages, PromisedPagesExist, FileInv, TypeInv, TypeOK, Chains
    <2> QED
      BY <1>2, <2>1
  <1>4. /\ free' = SubSeq(free, n + 1, Len(free))
        /\ data' = Written(SubSeq(free, 1, n), Piece(t))
        /\ hand' = [hand EXCEPT ![t] = Append(@, SubSeq(free, 1, n))]
    BY DEF ReservePages, TakePages
  <1> HIDE DEF n
  <1>5. /\ SubSeq(free, 1, n) \in Seq(1 .. MaxPages)
        /\ Len(SubSeq(free, 1, n)) = n
        /\ SubSeq(free, n + 1, Len(free)) \in Seq(1 .. MaxPages)
        /\ Len(SubSeq(free, n + 1, Len(free))) = Len(free) - n
        /\ SubSeq(free, 1, n) \o SubSeq(free, n + 1, Len(free)) = free
    BY <1>2, <1>3, CutFacts
  <1>6. /\ ToSet(free) = ToSet(SubSeq(free, 1, n)) \cup ToSet(SubSeq(free, n + 1, Len(free)))
        /\ IsInjective(free) =>
             /\ IsInjective(SubSeq(free, 1, n)) /\ IsInjective(SubSeq(free, n + 1, Len(free)))
             /\ ToSet(SubSeq(free, 1, n)) \cap ToSet(SubSeq(free, n + 1, Len(free))) = {}
    BY <1>2, <1>3, CutSets
  <1> QED
    BY <1>1, <1>2, <1>3, <1>4, <1>5, <1>6 DEF n, Chains

LEMMA ReservePagesPages ==
    ASSUME FileInv, ChainInv, NEW t \in Threads, ReservePages(t)
    PROVE  PagesApart'
  <1> DEFINE chain == SubSeq(free, 1, Need[Piece(t)])
             n == Len(hand[t]) + 1
             last == LastPiece(t) /\ job[t] = "rep"
  <1>1. /\ ToSet(free) = ToSet(chain) \cup ToSet(free') /\ ToSet(chain) \cap ToSet(free') = {}
        /\ Len(hand[t]) \in Nat /\ hand[t] \in Seq(Chains) /\ chain \in Chains
        /\ hand' = [hand EXCEPT ![t] = Append(@, chain)]
        /\ drop[t] = <<>>
    BY ReservedChain DEF ChainInv
  <1>2. /\ hand \in [Threads -> Seq(Chains)] /\ drop \in [Threads -> Seq(Chains)]
        /\ pc \in [Threads -> Steps] /\ key[t] \in Keys /\ StepOf(t)
    BY StepInvOf DEF FileInv, TypeInv, TypeOK
  <1>3. /\ UNCHANGED <<pages, keyOf, valOf, listed, job, key, elem>>
        /\ pc[t] = "reserve"
        /\ pc' = [pc EXCEPT ![t] = IF ~LastPiece(t) THEN "reserve"
                                   ELSE IF job[t] = "set" THEN "insert" ELSE "free"]
        /\ drop' = [drop EXCEPT ![t] = IF last THEN <<valOf[elem[t]]>> ELSE @]
    BY DEF ReservePages, Goto, elemVars, tree
  <1>4. /\ \A i \in 1 .. Len(hand[t]) : Append(hand[t], chain)[i] = hand[t][i]
        /\ Append(hand[t], chain)[n] = chain
        /\ DOMAIN Append(hand[t], chain) = 1 .. n /\ DOMAIN hand[t] = 1 .. Len(hand[t])
        /\ n \in Nat
    <2> HIDE DEF chain
    <2>1. /\ Append(hand[t], chain) \in Seq(Chains)
          /\ Len(Append(hand[t], chain)) = Len(hand[t]) + 1
          /\ \A i \in 1 .. Len(hand[t]) : Append(hand[t], chain)[i] = hand[t][i]
          /\ Append(hand[t], chain)[Len(hand[t]) + 1] = chain
          /\ ToSet(Append(hand[t], chain)) = ToSet(hand[t]) \cup {chain}
          /\ IsInjective(Append(hand[t], chain)) <=> IsInjective(hand[t]) /\ chain \notin ToSet(hand[t])
      BY <1>1, AppendFacts
    <2>2. DOMAIN Append(hand[t], chain) = 1 .. Len(Append(hand[t], chain))
      BY <2>1, LenProperties
    <2> QED
      BY <1>1, <2>1, <2>2
  <1>5. last => /\ elem[t] = listed[key[t]] /\ listed[key[t]] # NoElement
                /\ ~Behind(key[t])
    <2>1. ASSUME last PROVE elem[t] = listed[key[t]] /\ listed[key[t]] # NoElement
      <3>1. Borrows(t)
        BY <1>3, <2>1 DEF Borrows
      <3> QED
        BY <1>2, <3>1 DEF FileInv, ElementsConserved, StepOf
    <2>2. ~Behind(key[t])
      BY <1>3, BehindLocks DEF FileInv, LockInv
    <2> QED
      BY <2>1, <2>2
  <1>6. \A k \in Keys : Behind(k)' <=> Behind(k) \/ (last /\ k = key[t])
    <2>1. \A u \in Threads : u # t => pc'[u] = pc[u]
      BY <1>2, <1>3
    <2>2. pc'[t] \in {"free", "point"} /\ job[t] = "rep" <=> last
      <3>1. pc'[t] = IF ~LastPiece(t) THEN "reserve" ELSE IF job[t] = "set" THEN "insert" ELSE "free"
        BY <1>2, <1>3
      <3> QED
        BY <3>1
    <2> HIDE DEF last
    <2> QED
      BY <1>3, <2>1, <2>2 DEF Behind
  <1>7. drop'[t] = IF last THEN <<valOf[elem[t]]>> ELSE <<>>
    BY <1>1, <1>2, <1>3
  <1> HIDE DEF chain, n, last
  <1>8. ASSUME NEW p \in 1 .. MaxPages PROVE OneHome(p)'
    <2>1. /\ IsFree(p) <=> p \in ToSet(chain) \/ IsFree(p)'
          /\ ~(p \in ToSet(chain) /\ IsFree(p)')
      BY <1>1 DEF IsFree
    <2>2. \A u \in Threads, i \in Nat :
             InHand(p, u, i)' <=> InHand(p, u, i) \/ (u = t /\ i = n /\ p \in ToSet(chain))
      <3>1. ASSUME NEW i \in Nat
            PROVE  InHand(p, t, i)' <=> InHand(p, t, i) \/ (i = n /\ p \in ToSet(chain))
        <4>1. hand'[t] = Append(hand[t], chain)
          BY <1>1, <1>2
        <4>2. n = Len(hand[t]) + 1
          BY DEF n
        <4>3. CASE i = n
          <5>1. i \notin DOMAIN hand[t]
            BY <1>1, <1>4, <4>2, <4>3
          <5> QED
            BY <1>4, <4>1, <4>3, <5>1 DEF InHand
        <4>4. CASE i # n
          <5>1. i \in 1 .. n <=> i \in 1 .. Len(hand[t])
            BY <1>1, <4>2, <4>4
          <5> QED
            BY <1>4, <4>1, <4>4, <5>1 DEF InHand
        <4> QED
          BY <4>3, <4>4
      <3>2. \A u \in Threads : u # t => hand'[u] = hand[u]
        BY <1>1, <1>2
      <3> QED
        BY <3>1, <3>2 DEF InHand
    <2>3. \A u \in Threads, i \in Nat :
             ToDrop(p, u, i)' <=> ToDrop(p, u, i) \/ (u = t /\ i = 1 /\ last /\ OfValue(p, key[t]))
      <3>1. ASSUME NEW i \in Nat
            PROVE  ToDrop(p, t, i)' <=> ToDrop(p, t, i) \/ (i = 1 /\ last /\ OfValue(p, key[t]))
        <4>1. ~ToDrop(p, t, i)
          BY <1>1 DEF ToDrop
        <4>2. CASE last
          <5>1. drop'[t] = <<valOf[elem[t]]>>
            BY <1>7, <4>2
          <5>2. ToDrop(p, t, i)' <=> i = 1 /\ p \in ToSet(valOf[elem[t]])
            BY <5>1 DEF ToDrop
          <5> QED
            BY <1>5, <4>1, <4>2, <5>2 DEF OfValue
        <4>3. CASE ~last
          <5>1. drop'[t] = <<>>
            BY <1>7, <4>3
          <5> QED
            BY <4>1, <4>3, <5>1 DEF ToDrop
        <4> QED
          BY <4>2, <4>3
      <3>2. \A u \in Threads : u # t => drop'[u] = drop[u]
        BY <1>2, <1>3
      <3> QED
        BY <3>1, <3>2 DEF ToDrop
    <2>4. \A k \in Keys : OfKey(p, k)' <=> OfKey(p, k)
      BY <1>3 DEF OfKey
    <2>5. \A k \in Keys : OfValue(p, k)' <=> OfValue(p, k) /\ ~(last /\ k = key[t])
      BY <1>3, <1>6 DEF OfValue
    <2>6. \A i \in Nat : ~InHand(p, t, n) /\ ~ToDrop(p, t, i)
      <3>1. n \notin DOMAIN hand[t]
        BY <1>1, <1>4 DEF n
      <3> QED
        BY <1>1, <3>1 DEF InHand, ToDrop
    <2>7. OneHome(p) /\ pages' = pages
      BY <1>3 DEF FileInv, PagesApart
    <2>8. InFile(p)' <=> InFile(p)
      BY <1>2, <1>4, <2>1, <2>2, <2>3, <2>4, <2>5, <2>6 DEF InFile
    <2>9. IsFree(p)' => /\ \A u \in Threads, i \in Nat : ~InHand(p, u, i)' /\ ~ToDrop(p, u, i)'
                        /\ \A k \in Keys : ~OfKey(p, k)' /\ ~OfValue(p, k)'
      BY <1>2, <2>1, <2>2, <2>3, <2>4, <2>5, <2>7 DEF OneHome
    <2>10. \A a, u \in Threads, i, j \in Nat :
             /\ InHand(p, a, i)' /\ InHand(p, u, j)' => a = u /\ i = j
             /\ ToDrop(p, a, i)' /\ ToDrop(p, u, j)' => a = u /\ i = j
             /\ ~(InHand(p, a, i)' /\ ToDrop(p, u, j)')
      BY <1>2, <2>1, <2>2, <2>3, <2>6, <2>7 DEF OneHome
    <2>11. \A k \in Keys, u \in Threads, i \in Nat :
             /\ ~(OfKey(p, k)' /\ InHand(p, u, i)') /\ ~(OfKey(p, k)' /\ ToDrop(p, u, i)')
             /\ ~(OfValue(p, k)' /\ InHand(p, u, i)') /\ ~(OfValue(p, k)' /\ ToDrop(p, u, i)')
      BY <1>2, <2>1, <2>2, <2>3, <2>4, <2>5, <2>7 DEF OneHome
    <2>12. \A j, k \in Keys :
             /\ OfKey(p, j)' /\ OfKey(p, k)' => j = k
             /\ OfValue(p, j)' /\ OfValue(p, k)' => j = k
             /\ ~(OfKey(p, j)' /\ OfValue(p, k)')
      BY <2>4, <2>5, <2>7 DEF OneHome
    <2> QED
      BY <2>7, <2>8, <2>9, <2>10, <2>11, <2>12 DEF OneHome
  <1> QED
    BY <1>8 DEF PagesApart

LEMMA ReservePagesFailsPages ==
    ASSUME FileInv, NEW t \in Threads, ReservePagesFails(t)
    PROVE  PagesApart'
  <1>1. /\ hand \in [Threads -> Seq(Chains)] /\ drop \in [Threads -> Seq(Chains)]
        /\ pc \in [Threads -> Steps] /\ StepOf(t) /\ pc[t] = "reserve"
    BY StepInvOf DEF FileInv, TypeInv, TypeOK, ReservePagesFails
  <1>2. /\ UNCHANGED <<pages, free, keyOf, valOf, listed, job, key>>
        /\ \A u \in Threads : u # t => hand'[u] = hand[u] /\ drop'[u] = drop[u] /\ pc'[u] = pc[u]
        /\ hand'[t] = <<>> /\ drop'[t] = hand[t] /\ drop[t] = <<>>
    BY <1>1 DEF ReservePagesFails, Goto, elemVars, tree, StepOf
  <1>3. ~(pc'[t] \in {"free", "point"} /\ job'[t] = "rep")
    BY <1>1 DEF ReservePagesFails, Goto
  <1>4. \A k \in Keys : Behind(k)' <=> Behind(k)
    BY <1>1, <1>2, <1>3 DEF Behind
  <1>8. ASSUME NEW p \in 1 .. MaxPages PROVE OneHome(p)'
    <2>1. IsFree(p)' <=> IsFree(p)
      BY <1>2 DEF IsFree
    <2>2. \A u \in Threads, i \in Nat : InHand(p, u, i)' <=> u # t /\ InHand(p, u, i)
      BY <1>2 DEF InHand
    <2>3. \A u \in Threads, i \in Nat :
             ToDrop(p, u, i)' <=> (u # t /\ ToDrop(p, u, i)) \/ (u = t /\ InHand(p, t, i))
      BY <1>2 DEF ToDrop, InHand
    <2>4. \A i \in Nat : ~ToDrop(p, t, i)
      BY <1>2 DEF ToDrop
    <2>5. \A k \in Keys : (OfKey(p, k)' <=> OfKey(p, k)) /\ (OfValue(p, k)' <=> OfValue(p, k))
      BY <1>2, <1>4 DEF OfKey, OfValue
    <2>7. OneHome(p) /\ pages' = pages
      BY <1>2 DEF FileInv, PagesApart
    <2>8. InFile(p)' <=> InFile(p)
      BY <2>1, <2>2, <2>3, <2>4, <2>5, <2>7 DEF InFile
    <2>9. IsFree(p)' => /\ \A u \in Threads, i \in Nat : ~InHand(p, u, i)' /\ ~ToDrop(p, u, i)'
                        /\ \A k \in Keys : ~OfKey(p, k)' /\ ~OfValue(p, k)'
      BY <2>1, <2>2, <2>3, <2>4, <2>5, <2>7 DEF OneHome
    <2>10. \A a, u \in Threads, i, j \in Nat :
             /\ InHand(p, a, i)' /\ InHand(p, u, j)' => a = u /\ i = j
             /\ ToDrop(p, a, i)' /\ ToDrop(p, u, j)' => a = u /\ i = j
             /\ ~(InHand(p, a, i)' /\ ToDrop(p, u, j)')
      BY <2>1, <2>2, <2>3, <2>4, <2>5, <2>7 DEF OneHome
    <2>11. \A k \in Keys, u \in Threads, i \in Nat :
             /\ ~(OfKey(p, k)' /\ InHand(p, u, i)') /\ ~(OfKey(p, k)' /\ ToDrop(p, u, i)')
             /\ ~(OfValue(p, k)' /\ InHand(p, u, i)') /\ ~(OfValue(p, k)' /\ ToDrop(p, u, i)')
      BY <2>1, <2>2, <2>3, <2>4, <2>5, <2>7 DEF OneHome
    <2>12. \A j, k \in Keys :
             /\ OfKey(p, j)' /\ OfKey(p, k)' => j = k
             /\ OfValue(p, j)' /\ OfValue(p, k)' => j = k
             /\ ~(OfKey(p, j)' /\ OfValue(p, k)')
      BY <2>1, <2>2, <2>3, <2>4, <2>5, <2>7 DEF OneHome
    <2> QED
      BY <2>7, <2>8, <2>9, <2>10, <2>11, <2>12 DEF OneHome
  <1> QED
    BY <1>8 DEF PagesApart

\* The chain that PutBackPages puts before the free pages.
LEMMA ReturnedChain ==
    ASSUME TypeInv, NEW t \in Threads, PutBackPages(t)
    PROVE  LET chain == Head(drop[t])
           IN  /\ StepOf(t) /\ pc[t] = "free"
               /\ drop[t] \in Seq(Chains) /\ drop[t] # <<>> /\ Len(drop[t]) \in Nat \ {0}
               /\ chain \in Chains /\ free \in Chains /\ free' \in Chains
               /\ chain = drop[t][1]
               /\ ToSet(free') = ToSet(chain) \cup ToSet(free)
               /\ IsInjective(free') <=>
                    IsInjective(chain) /\ IsInjective(free) /\ ToSet(chain) \cap ToSet(free) = {}
               /\ drop'[t] = Tail(drop[t]) /\ drop'[t] \in Seq(Chains)
               /\ DOMAIN drop'[t] = 1 .. Len(drop[t]) - 1 /\ DOMAIN drop[t] = 1 .. Len(drop[t])
               /\ \A i \in 1 .. Len(drop[t]) - 1 : drop'[t][i] = drop[t][i + 1]
               /\ data' = [p \in DOMAIN data |-> IF p \in ToSet(chain) THEN <<>> ELSE data[p]]
  <1> DEFINE chain == Head(drop[t])
  <1>1. /\ StepOf(t) /\ pc[t] = "free" /\ drop \in [Threads -> Seq(Chains)]
        /\ drop[t] \in Seq(Chains) /\ drop[t] # <<>> /\ free \in Seq(1 .. MaxPages)
    BY StepInvOf DEF TypeInv, TypeOK, StepOf, PutBackPages, Chains
  <1>2. /\ Head(drop[t]) \in Chains
        /\ Tail(drop[t]) \in Seq(Chains)
        /\ Len(drop[t]) \in Nat \ {0}
        /\ Len(Tail(drop[t])) = Len(drop[t]) - 1
        /\ \A i \in 1 .. Len(drop[t]) - 1 : Tail(drop[t])[i] = drop[t][i + 1]
        /\ drop[t] = <<Head(drop[t])>> \o Tail(drop[t])
        /\ ToSet(drop[t]) = {Head(drop[t])} \cup ToSet(Tail(drop[t]))
        /\ IsInjective(drop[t]) <=>
             IsInjective(Tail(drop[t])) /\ Head(drop[t]) \notin ToSet(Tail(drop[t]))
    BY <1>1, HeadTailFacts
  <1>3. /\ drop'[t] = Tail(drop[t]) /\ free' = chain \o free
        /\ data' = [p \in DOMAIN data |-> IF p \in ToSet(chain) THEN <<>> ELSE data[p]]
    BY <1>1 DEF PutBackPages
  <1>4. chain = drop[t][1]
    BY <1>1
  <1>5. chain \in Seq(1 .. MaxPages)
    BY <1>2 DEF Chains
  <1> HIDE DEF chain
  <1>6. /\ chain \o free \in Seq(1 .. MaxPages)
        /\ Len(chain \o free) = Len(chain) + Len(free)
        /\ ToSet(chain \o free) = ToSet(chain) \cup ToSet(free)
        /\ IsInjective(chain \o free) <=>
             IsInjective(chain) /\ IsInjective(free) /\ ToSet(chain) \cap ToSet(free) = {}
    BY <1>1, <1>5, ConcatFacts
  <1>7. DOMAIN drop'[t] = 1 .. Len(drop[t]) - 1 /\ DOMAIN drop[t] = 1 .. Len(drop[t])
    BY <1>1, <1>2, <1>3, LenProperties
  <1> QED
    BY <1>1, <1>2, <1>3, <1>4, <1>5, <1>6, <1>7 DEF chain, Chains

LEMMA PutBackPagesPages ==
    ASSUME FileInv, NEW t \in Threads, PutBackPages(t)
    PROVE  PagesApart'
  <1> DEFINE chain == Head(drop[t])
             n == Len(drop[t])
  <1>1. /\ StepOf(t) /\ pc[t] = "free" /\ n \in Nat \ {0}
        /\ chain = drop[t][1]
        /\ ToSet(free') = ToSet(chain) \cup ToSet(free)
        /\ DOMAIN drop'[t] = 1 .. n - 1 /\ DOMAIN drop[t] = 1 .. n
        /\ \A i \in 1 .. n - 1 : drop'[t][i] = drop[t][i + 1]
    BY ReturnedChain DEF FileInv
  <1>2. /\ UNCHANGED <<pages, keyOf, valOf, listed, job, key, hand>>
        /\ \A u \in Threads : u # t => drop'[u] = drop[u] /\ pc'[u] = pc[u]
        /\ pc'[t] = IF n > 1 THEN "free" ELSE IF job[t] = "rep" THEN "point" ELSE "putback"
    BY DEF PutBackPages, Goto, elemVars, tree, FileInv, TypeInv, TypeOK
  <1> HIDE DEF chain, n
  <1>3. \A k \in Keys : Behind(k)' <=> Behind(k)
    <2>1. pc'[t] \in {"free", "point"} /\ job[t] = "rep" <=> pc[t] \in {"free", "point"} /\ job[t] = "rep"
      BY <1>1, <1>2
    <2> QED
      BY <1>2, <2>1 DEF Behind
  <1>8. ASSUME NEW p \in 1 .. MaxPages PROVE OneHome(p)'
    <2>1. IsFree(p)' <=> IsFree(p) \/ ToDrop(p, t, 1)
      <3>1. 1 \in DOMAIN drop[t]
        BY <1>1
      <3> QED
        BY <1>1, <3>1 DEF IsFree, ToDrop
    <2>2. \A u \in Threads, i \in Nat : InHand(p, u, i)' <=> InHand(p, u, i)
      BY <1>2 DEF InHand
    <2>3. \A u \in Threads, i \in Nat : u # t => (ToDrop(p, u, i)' <=> ToDrop(p, u, i))
      BY <1>2 DEF ToDrop
    <2>4. \A i \in Nat : ToDrop(p, t, i)' <=> i # 0 /\ ToDrop(p, t, i + 1)
      <3>1. ASSUME NEW i \in Nat PROVE i \in 1 .. n - 1 <=> i # 0 /\ i + 1 \in 1 .. n
        BY <1>1
      <3> QED
        BY <1>1, <3>1 DEF ToDrop
    <2>5. \A k \in Keys : (OfKey(p, k)' <=> OfKey(p, k)) /\ (OfValue(p, k)' <=> OfValue(p, k))
      BY <1>2, <1>3 DEF OfKey, OfValue
    <2>6. /\ ~ToDrop(p, t, 0)
          /\ \A i \in Nat : ToDrop(p, t, i) => i = 1 \/ (i - 1 \in Nat /\ ToDrop(p, t, i - 1)')
      <3>1. ~ToDrop(p, t, 0)
        BY <1>1 DEF ToDrop
      <3>2. ASSUME NEW i \in Nat, ToDrop(p, t, i), i # 1
            PROVE  i - 1 \in Nat /\ ToDrop(p, t, i - 1)'
        <4>1. i # 0
          BY <3>1, <3>2
        <4>2. i - 1 \in Nat /\ i - 1 # 0 /\ (i - 1) + 1 = i
          BY <3>2, <4>1
        <4> QED
          BY <2>4, <3>2, <4>2
      <3> QED
        BY <3>1, <3>2
    <2>7. OneHome(p) /\ pages' = pages
      BY <1>2 DEF FileInv, PagesApart
    <2>8. InFile(p)' <=> InFile(p)
      BY <2>1, <2>2, <2>3, <2>4, <2>5, <2>6, <2>7 DEF InFile
    <2>9. IsFree(p)' => /\ \A u \in Threads, i \in Nat : ~InHand(p, u, i)' /\ ~ToDrop(p, u, i)'
                        /\ \A k \in Keys : ~OfKey(p, k)' /\ ~OfValue(p, k)'
      BY <2>1, <2>2, <2>3, <2>4, <2>5, <2>6, <2>7 DEF OneHome
    <2>10. \A a, u \in Threads, i, j \in Nat :
             /\ InHand(p, a, i)' /\ InHand(p, u, j)' => a = u /\ i = j
             /\ ToDrop(p, a, i)' /\ ToDrop(p, u, j)' => a = u /\ i = j
             /\ ~(InHand(p, a, i)' /\ ToDrop(p, u, j)')
      BY <2>1, <2>2, <2>3, <2>4, <2>5, <2>6, <2>7 DEF OneHome
    <2>11. \A k \in Keys, u \in Threads, i \in Nat :
             /\ ~(OfKey(p, k)' /\ InHand(p, u, i)') /\ ~(OfKey(p, k)' /\ ToDrop(p, u, i)')
             /\ ~(OfValue(p, k)' /\ InHand(p, u, i)') /\ ~(OfValue(p, k)' /\ ToDrop(p, u, i)')
      BY <2>1, <2>2, <2>3, <2>4, <2>5, <2>6, <2>7 DEF OneHome
    <2>12. \A j, k \in Keys :
             /\ OfKey(p, j)' /\ OfKey(p, k)' => j = k
             /\ OfValue(p, j)' /\ OfValue(p, k)' => j = k
             /\ ~(OfKey(p, j)' /\ OfValue(p, k)')
      BY <2>1, <2>2, <2>3, <2>4, <2>5, <2>6, <2>7 DEF OneHome
    <2> QED
      BY <2>7, <2>8, <2>9, <2>10, <2>11, <2>12 DEF OneHome
  <1> QED
    BY <1>8 DEF PagesApart

LEMMA TakeOffPages ==
    ASSUME FileInv, NEW t \in Threads, TakeOff(t)
    PROVE  PagesApart'
  <1> DEFINE e == listed[key[t]]
  <1>1. /\ drop \in [Threads -> Seq(Chains)] /\ listed \in [Keys -> Elements \cup {NoElement}]
        /\ pc \in [Threads -> Steps] /\ StepOf(t) /\ pc[t] = "remove" /\ key[t] \in Keys
        /\ e # NoElement /\ job[t] # "rep"
    BY StepInvOf DEF FileInv, TypeInv, TypeOK, TakeOff, StepOf
  <1>2. /\ UNCHANGED <<pages, free, keyOf, valOf, job, key, hand>>
        /\ \A u \in Threads : u # t => drop'[u] = drop[u] /\ pc'[u] = pc[u]
        /\ drop'[t] = <<valOf[e], keyOf[e]>> /\ drop[t] = <<>>
        /\ \A k \in Keys : listed'[k] = IF k = key[t] THEN NoElement ELSE listed[k]
    BY <1>1 DEF TakeOff, Goto, pageVars, elemVars, StepOf
  <1>3. \A k \in Keys : Behind(k)' <=> Behind(k)
    BY <1>1, <1>2 DEF Behind
  <1>4. ~Behind(key[t])
    BY BehindLocks DEF TakeOff, WriteLockable, FileInv
  <1>8. ASSUME NEW p \in 1 .. MaxPages PROVE OneHome(p)'
    <2>1. IsFree(p)' <=> IsFree(p)
      BY <1>2 DEF IsFree
    <2>2. \A u \in Threads, i \in Nat : InHand(p, u, i)' <=> InHand(p, u, i)
      BY <1>2 DEF InHand
    <2>3. \A u \in Threads, i \in Nat : u # t => (ToDrop(p, u, i)' <=> ToDrop(p, u, i))
      BY <1>2 DEF ToDrop
    <2>4. \A i \in Nat : ToDrop(p, t, i)' <=> (i = 1 /\ OfValue(p, key[t])) \/ (i = 2 /\ OfKey(p, key[t]))
      <3>1. \A i \in Nat : ToDrop(p, t, i)' <=>
               (i = 1 /\ p \in ToSet(valOf[e])) \/ (i = 2 /\ p \in ToSet(keyOf[e]))
        BY <1>2 DEF ToDrop
      <3> QED
        BY <1>1, <1>4, <3>1 DEF OfValue, OfKey
    <2>5. \A k \in Keys : /\ OfKey(p, k)' <=> k # key[t] /\ OfKey(p, k)
                          /\ OfValue(p, k)' <=> k # key[t] /\ OfValue(p, k)
      BY <1>2, <1>3 DEF OfKey, OfValue
    <2>6. (\A i \in Nat : ~ToDrop(p, t, i)) /\ key[t] \in Keys
      BY <1>1, <1>2 DEF ToDrop
    <2>7. OneHome(p) /\ pages' = pages
      BY <1>2 DEF FileInv, PagesApart
    <2>8. InFile(p)' <=> InFile(p)
      BY <2>1, <2>2, <2>3, <2>4, <2>5, <2>6, <2>7 DEF InFile
    <2>9. IsFree(p)' => /\ \A u \in Threads, i \in Nat : ~InHand(p, u, i)' /\ ~ToDrop(p, u, i)'
                        /\ \A k \in Keys : ~OfKey(p, k)' /\ ~OfValue(p, k)'
      BY <2>1, <2>2, <2>3, <2>4, <2>5, <2>6, <2>7 DEF OneHome
    <2>10. \A a, u \in Threads, i, j \in Nat :
             /\ InHand(p, a, i)' /\ InHand(p, u, j)' => a = u /\ i = j
             /\ ToDrop(p, a, i)' /\ ToDrop(p, u, j)' => a = u /\ i = j
             /\ ~(InHand(p, a, i)' /\ ToDrop(p, u, j)')
      BY <2>1, <2>2, <2>3, <2>4, <2>5, <2>6, <2>7 DEF OneHome
    <2>11. \A k \in Keys, u \in Threads, i \in Nat :
             /\ ~(OfKey(p, k)' /\ InHand(p, u, i)') /\ ~(OfKey(p, k)' /\ ToDrop(p, u, i)')
             /\ ~(OfValue(p, k)' /\ InHand(p, u, i)') /\ ~(OfValue(p, k)' /\ ToDrop(p, u, i)')
      BY <2>1, <2>2, <2>3, <2>4, <2>5, <2>6, <2>7 DEF OneHome
    <2>12. \A j, k \in Keys :
             /\ OfKey(p, j)' /\ OfKey(p, k)' => j = k
             /\ OfValue(p, j)' /\ OfValue(p, k)' => j = k
             /\ ~(OfKey(p, j)' /\ OfValue(p, k)')
      BY <2>1, <2>2, <2>3, <2>4, <2>5, <2>6, <2>7 DEF OneHome
    <2> QED
      BY <2>7, <2>8, <2>9, <2>10, <2>11, <2>12 DEF OneHome
  <1> QED
    BY <1>8 DEF PagesApart

LEMMA InsertElementPages ==
    ASSUME FileInv, NEW t \in Threads, InsertElement(t)
    PROVE  PagesApart'
  <1> DEFINE e == elem[t]
  <1>1. /\ hand \in [Threads -> Seq(Chains)] /\ listed \in [Keys -> Elements \cup {NoElement}]
        /\ keyOf \in [Elements -> Chains] /\ valOf \in [Elements -> Chains]
        /\ pc \in [Threads -> Steps] /\ StepOf(t) /\ pc[t] = "insert" /\ key[t] \in Keys
        /\ listed[key[t]] = NoElement /\ ckiW[Coll[key[t]]] = t
        /\ e \in Elements /\ e # NoElement /\ \A k \in Keys : listed[k] # e
        /\ Len(hand[t]) = 2 /\ DOMAIN hand[t] = 1 .. 2
    <2>1. /\ hand \in [Threads -> Seq(Chains)] /\ listed \in [Keys -> Elements \cup {NoElement}]
          /\ keyOf \in [Elements -> Chains] /\ valOf \in [Elements -> Chains]
          /\ pc \in [Threads -> Steps] /\ StepOf(t) /\ pc[t] = "insert" /\ key[t] \in Keys
      BY StepInvOf DEF FileInv, TypeInv, TypeOK, InsertElement
    <2>2. listed[key[t]] = NoElement /\ ckiW[Coll[key[t]]] = t
      BY <2>1 DEF FileInv, LockInv
    <2>3. e \in Elements /\ e # NoElement /\ \A k \in Keys : listed[k] # e
      BY <2>1, ElementNames DEF FileInv, TypeInv, ElementsConserved, Owns
    <2>4. Len(hand[t]) = 2 /\ DOMAIN hand[t] = 1 .. 2
      BY <2>1, LenProperties DEF StepOf
    <2> QED
      BY <2>1, <2>2, <2>3, <2>4
  <1>2. /\ UNCHANGED <<pages, free, job, key, drop>>
        /\ \A u \in Threads : u # t => hand'[u] = hand[u] /\ pc'[u] = pc[u]
        /\ hand'[t] = <<>> /\ pc'[t] = "idle"
        /\ \A k \in Keys : listed'[k] = IF k = key[t] THEN e ELSE listed[k]
        /\ \A x \in Elements : /\ keyOf'[x] = IF x = e THEN hand[t][1] ELSE keyOf[x]
                               /\ valOf'[x] = IF x = e THEN hand[t][2] ELSE valOf[x]
    BY <1>1 DEF InsertElement, Goto, pageVars, elemVars
  <1>3. \A k \in Keys : Behind(k)' <=> Behind(k)
    BY <1>1, <1>2 DEF Behind
  <1>4. ~Behind(key[t])
    BY <1>1, BehindLocks DEF FileInv
  <1> HIDE DEF e
  <1>8. ASSUME NEW p \in 1 .. MaxPages PROVE OneHome(p)'
    <2>1. IsFree(p)' <=> IsFree(p)
      BY <1>2 DEF IsFree
    <2>2. \A u \in Threads, i \in Nat : /\ InHand(p, u, i)' <=> u # t /\ InHand(p, u, i)
                                        /\ InHand(p, t, i) => i \in {1, 2}
      BY <1>1, <1>2 DEF InHand
    <2>3. \A u \in Threads, i \in Nat : ToDrop(p, u, i)' <=> ToDrop(p, u, i)
      BY <1>2 DEF ToDrop
    <2>4. /\ OfKey(p, key[t])' <=> InHand(p, t, 1)
          /\ OfValue(p, key[t])' <=> InHand(p, t, 2)
          /\ ~OfKey(p, key[t]) /\ ~OfValue(p, key[t])
      BY <1>1, <1>2, <1>3, <1>4 DEF OfKey, OfValue, InHand
    <2>5. \A k \in Keys : k # key[t] => /\ OfKey(p, k)' <=> OfKey(p, k)
                                        /\ OfValue(p, k)' <=> OfValue(p, k)
      <3>1. \A k \in Keys : k # key[t] /\ listed[k] # NoElement => listed[k] \in Elements /\ listed[k] # e
        BY <1>1
      <3> QED
        BY <1>2, <1>3, <3>1 DEF OfKey, OfValue
    <2>6. key[t] \in Keys /\ UNCHANGED key
      BY <1>1, <1>2
    <2>7. OneHome(p) /\ pages' = pages
      BY <1>2 DEF FileInv, PagesApart
    <2>8. InFile(p)' <=> InFile(p)
      BY <2>1, <2>2, <2>3, <2>4, <2>5, <2>6, <2>7 DEF InFile
    <2>9. IsFree(p)' => /\ \A u \in Threads, i \in Nat : ~InHand(p, u, i)' /\ ~ToDrop(p, u, i)'
                        /\ \A k \in Keys : ~OfKey(p, k)' /\ ~OfValue(p, k)'
      BY <2>1, <2>2, <2>3, <2>4, <2>5, <2>6, <2>7 DEF OneHome
    <2>10. \A a, u \in Threads, i, j \in Nat :
             /\ InHand(p, a, i)' /\ InHand(p, u, j)' => a = u /\ i = j
             /\ ToDrop(p, a, i)' /\ ToDrop(p, u, j)' => a = u /\ i = j
             /\ ~(InHand(p, a, i)' /\ ToDrop(p, u, j)')
      BY <2>1, <2>2, <2>3, <2>4, <2>5, <2>6, <2>7 DEF OneHome
    <2>11. \A k \in Keys, u \in Threads, i \in Nat :
             /\ ~(OfKey(p, k)' /\ InHand(p, u, i)') /\ ~(OfKey(p, k)' /\ ToDrop(p, u, i)')
             /\ ~(OfValue(p, k)' /\ InHand(p, u, i)') /\ ~(OfValue(p, k)' /\ ToDrop(p, u, i)')
      BY <2>1, <2>2, <2>3, <2>4, <2>5, <2>6, <2>7 DEF OneHome
    <2>12. \A j, k \in Keys :
             /\ OfKey(p, j)' /\ OfKey(p, k)' => j = k
             /\ OfValue(p, j)' /\ OfValue(p, k)' => j = k
             /\ ~(OfKey(p, j)' /\ OfValue(p, k)')
      BY <2>1, <2>2, <2>3, <2>4, <2>5, <2>6, <2>7 DEF OneHome
    <2> QED
      BY <2>7, <2>8, <2>9, <2>10, <2>11, <2>12 DEF OneHome
  <1> QED
    BY <1>8 DEF PagesApart

LEMMA SetValuePointerPages ==
    ASSUME FileInv, NEW t \in Threads, SetValuePointer(t)
    PROVE  PagesApart'
  <1> DEFINE e == elem[t]
  <1>1. /\ hand \in [Threads -> Seq(Chains)] /\ listed \in [Keys -> Elements \cup {NoElement}]
        /\ valOf \in [Elements -> Chains]
        /\ pc \in [Threads -> Steps] /\ StepOf(t) /\ pc[t] = "point" /\ key[t] \in Keys
        /\ ckiW[Coll[key[t]]] = t /\ job[t] = "rep"
        /\ e \in Elements /\ e # NoElement /\ listed[key[t]] = e
        /\ \A k \in Keys : k # key[t] => listed[k] # e
        /\ Len(hand[t]) = 1 /\ DOMAIN hand[t] = 1 .. 1
    <2>1. /\ hand \in [Threads -> Seq(Chains)] /\ listed \in [Keys -> Elements \cup {NoElement}]
          /\ valOf \in [Elements -> Chains]
          /\ pc \in [Threads -> Steps] /\ StepOf(t) /\ pc[t] = "point" /\ key[t] \in Keys
          /\ elem[t] \in Elements \cup {NoElement}
      BY StepInvOf DEF FileInv, TypeInv, TypeOK, SetValuePointer
    <2>2. ckiW[Coll[key[t]]] = t /\ job[t] = "rep"
      BY <2>1 DEF FileInv, LockInv, StepOf
    <2>3. e \in Elements /\ e # NoElement /\ listed[key[t]] = e
      BY <2>1 DEF FileInv, ElementsConserved, Borrows, StepOf
    <2>4. \A k \in Keys : k # key[t] => listed[k] # e
      BY <2>1, <2>3 DEF FileInv, ElementsConserved
    <2>5. Len(hand[t]) = 1 /\ DOMAIN hand[t] = 1 .. 1
      BY <2>1, LenProperties DEF StepOf
    <2> QED
      BY <2>1, <2>2, <2>3, <2>4, <2>5
  <1>2. /\ UNCHANGED <<pages, free, job, key, drop, keyOf, listed>>
        /\ \A u \in Threads : u # t => hand'[u] = hand[u] /\ pc'[u] = pc[u]
        /\ hand'[t] = <<>> /\ pc'[t] = "idle"
        /\ \A x \in Elements : valOf'[x] = IF x = e THEN hand[t][1] ELSE valOf[x]
    BY <1>1 DEF SetValuePointer, Goto, pageVars, elemVars
  <1>3. \A k \in Keys : Behind(k)' <=> Behind(k) /\ k # key[t]
    <2>1. ASSUME NEW u \in Threads, pc[u] \in {"free", "point"}, job[u] = "rep", key[u] = key[t]
          PROVE  u = t
      <3>1. ckiW[Coll[key[u]]] = u
        BY <2>1 DEF FileInv, LockInv
      <3> QED
        BY <1>1, <2>1, <3>1
    <2> QED
      BY <1>1, <1>2, <2>1 DEF Behind
  <1>4. Behind(key[t])
    BY <1>1 DEF Behind
  <1> HIDE DEF e
  <1>8. ASSUME NEW p \in 1 .. MaxPages PROVE OneHome(p)'
    <2>1. IsFree(p)' <=> IsFree(p)
      BY <1>2 DEF IsFree
    <2>2. \A u \in Threads, i \in Nat : /\ InHand(p, u, i)' <=> u # t /\ InHand(p, u, i)
                                        /\ InHand(p, t, i) => i = 1
      BY <1>1, <1>2 DEF InHand
    <2>3. \A u \in Threads, i \in Nat : ToDrop(p, u, i)' <=> ToDrop(p, u, i)
      BY <1>2 DEF ToDrop
    <2>4. /\ OfValue(p, key[t])' <=> InHand(p, t, 1)
          /\ ~OfValue(p, key[t])
      BY <1>1, <1>2, <1>3, <1>4 DEF OfValue, InHand
    <2>5. \A k \in Keys : /\ OfKey(p, k)' <=> OfKey(p, k)
                          /\ k # key[t] => (OfValue(p, k)' <=> OfValue(p, k))
      <3>1. \A k \in Keys : k # key[t] /\ listed[k] # NoElement => listed[k] \in Elements /\ listed[k] # e
        BY <1>1
      <3> QED
        BY <1>2, <1>3, <3>1 DEF OfKey, OfValue
    <2>6. key[t] \in Keys /\ UNCHANGED key
      BY <1>1, <1>2
    <2>7. OneHome(p) /\ pages' = pages
      BY <1>2 DEF FileInv, PagesApart
    <2>8. InFile(p)' <=> InFile(p)
      BY <2>1, <2>2, <2>3, <2>4, <2>5, <2>6, <2>7 DEF InFile
    <2>9. IsFree(p)' => /\ \A u \in Threads, i \in Nat : ~InHand(p, u, i)' /\ ~ToDrop(p, u, i)'
                        /\ \A k \in Keys : ~OfKey(p, k)' /\ ~OfValue(p, k)'
      BY <2>1, <2>2, <2>3, <2>4, <2>5, <2>6, <2>7 DEF OneHome
    <2>10. \A a, u \in Threads, i, j \in Nat :
             /\ InHand(p, a, i)' /\ InHand(p, u, j)' => a = u /\ i = j
             /\ ToDrop(p, a, i)' /\ ToDrop(p, u, j)' => a = u /\ i = j
             /\ ~(InHand(p, a, i)' /\ ToDrop(p, u, j)')
      BY <2>1, <2>2, <2>3, <2>4, <2>5, <2>6, <2>7 DEF OneHome
    <2>11. \A k \in Keys, u \in Threads, i \in Nat :
             /\ ~(OfKey(p, k)' /\ InHand(p, u, i)') /\ ~(OfKey(p, k)' /\ ToDrop(p, u, i)')
             /\ ~(OfValue(p, k)' /\ InHand(p, u, i)') /\ ~(OfValue(p, k)' /\ ToDrop(p, u, i)')
      BY <2>1, <2>2, <2>3, <2>4, <2>5, <2>6, <2>7 DEF OneHome
    <2>12. \A j, k \in Keys :
             /\ OfKey(p, j)' /\ OfKey(p, k)' => j = k
             /\ OfValue(p, j)' /\ OfValue(p, k)' => j = k
             /\ ~(OfKey(p, j)' /\ OfValue(p, k)')
      BY <2>1, <2>2, <2>3, <2>4, <2>5, <2>6, <2>7 DEF OneHome
    <2> QED
      BY <2>7, <2>8, <2>9, <2>10, <2>11, <2>12 DEF OneHome
  <1> QED
    BY <1>8 DEF PagesApart

LEMMA NextPages == FileInv /\ ChainInv /\ [Next]_vars => PagesApart'
  <1> SUFFICES ASSUME FileInv, ChainInv, [Next]_vars PROVE PagesApart'
    OBVIOUS
  <1>1. ASSUME UNCHANGED vars PROVE PagesApart'
    <2>1. SamePlaces
      BY <1>1, UnchangedPages DEF vars, pageVars, elemVars, tree, frame
    <2> QED
      BY <2>1, PagesKept DEF FileInv
  <1>2. ASSUME NEW t \in Threads, NEW j \in {"get", "del", "set", "rep"},
               NEW k \in Keys, NEW v \in Vals, Begin(t, j, k, v)
        PROVE  PagesApart'
    <2>1. SamePlaces
      BY <1>2, BeginSame DEF FileInv
    <2> QED
      BY <2>1, PagesKept DEF FileInv
  <1>3. ASSUME NEW t \in Threads, Step(t) PROVE PagesApart'
    <2>1. CASE \/ ExpandPageArea(t) \/ ReservePages(t) \/ ReservePagesFails(t)
               \/ PutBackPages(t) \/ TakeOff(t) \/ InsertElement(t) \/ SetValuePointer(t)
      BY <2>1, ExpandPageAreaPages, ReservePagesPages, ReservePagesFailsPages, PutBackPagesPages,
         TakeOffPages, InsertElementPages, SetValuePointerPages
    <2>2. CASE ~ \/ ExpandPageArea(t) \/ ReservePages(t) \/ ReservePagesFails(t)
                 \/ PutBackPages(t) \/ TakeOff(t) \/ InsertElement(t) \/ SetValuePointer(t)
      <3>1. SamePlaces
        BY <1>3, <2>2, ReserveElementSame, ReserveElementFailsSame, PutBackElementSame,
           RemoveNothingSame, LockToInsertSame, RetrySetSame, LockToReplaceSame,
           ReplaceMissingSame, LockToReadSame, GetMissingSame, LoadPageSame, ReturnValueSame
           DEF Step, FileInv
      <3> QED
        BY <3>1, PagesKept DEF FileInv
    <2> QED
      BY <2>1, <2>2
  <1> QED
    BY <1>1, <1>2, <1>3 DEF Next, Done

-----------------------------------------------------------------------------
\* What the pages hold

\* A chain without repetition whose pages hold x, d being what the pages hold.
Whole(d, chain, x) == IsInjective(chain) /\ [i \in DOMAIN chain |-> d[chain[i]]] = Bytes(x)

ChainsWhole ==
    /\ IsInjective(free)
    /\ \A t \in Threads :
         /\ \A i \in DOMAIN hand[t] : Whole(data, hand[t][i], Pieces(t)[i])
         /\ \A i \in DOMAIN drop[t] : IsInjective(drop[t][i])
    /\ \A k \in Keys : listed[k] # NoElement =>
         /\ Whole(data, keyOf[listed[k]], k)
         /\ Behind(k) \/ \E v \in Vals : Whole(data, valOf[listed[k]], v)

\* It is ChainInv and WrittenFirst together.
LEMMA WholeParts ==
    ASSUME TypeInv, ElementsConserved, ChainsWhole
    PROVE  ChainInv /\ WrittenFirst
  <1>1. \A k \in Keys : listed[k] # NoElement => (Replacing(listed[k]) <=> Behind(k))
    BY ReplacingBehind
  <1>2. ChainInv
    BY <1>1 DEF ChainsWhole, ChainInv, Whole
  <1>3. WrittenFirst
    BY <1>1 DEF ChainsWhole, WrittenFirst, Whole, Holds
  <1> QED
    BY <1>2, <1>3

LEMMA InitWhole == Init => ChainsWhole
  <1> SUFFICES ASSUME Init PROVE ChainsWhole
    OBVIOUS
  <1>1. free = [i \in 1 .. PageArea |-> i] /\ IsInjective(free)
    BY DEF Init, IsInjective
  <1>2. /\ \A t \in Threads : DOMAIN hand[t] = {} /\ DOMAIN drop[t] = {}
        /\ \A k \in Keys : listed[k] = NoElement
    BY DEF Init
  <1> QED
    BY <1>1, <1>2 DEF ChainsWhole

\* A step that changes neither places nor data.
LEMMA WholeKept ==
    ASSUME ChainsWhole, SamePlaces, UNCHANGED data,
           \A t \in Threads : hand[t] = <<>> \/ Pieces(t)' = Pieces(t)
    PROVE  ChainsWhole'
  <1>1. \A chain, x : Whole(data', chain, x) <=> Whole(data, chain, x)
    BY DEF Whole, Holds
  <1>2. ASSUME NEW t \in Threads, NEW i \in DOMAIN hand'[t]
        PROVE  Whole(data, hand'[t][i], Pieces(t)'[i])
    <2>1. hand'[t] = hand[t] /\ i \in DOMAIN hand[t] /\ hand[t] # <<>>
      BY <1>2 DEF SamePlaces
    <2> QED
      BY <2>1 DEF ChainsWhole
  <1>3. ASSUME NEW k \in Keys, listed'[k] # NoElement
        PROVE  /\ Whole(data, keyOf'[listed'[k]], k)
               /\ Behind(k)' \/ \E v \in Vals : Whole(data, valOf'[listed'[k]], v)
    BY <1>3 DEF SamePlaces, ChainsWhole
  <1>4. \A t \in Threads : \A i \in DOMAIN drop'[t] : IsInjective(drop'[t][i])
    BY DEF SamePlaces, ChainsWhole
  <1>5. IsInjective(free')
    BY DEF SamePlaces, ChainsWhole
  <1> QED
    BY <1>1, <1>2, <1>3, <1>4, <1>5 DEF ChainsWhole

LEMMA BeginPieces ==
    ASSUME TypeInv, NEW t \in Threads, NEW j \in {"get", "del", "set", "rep"},
           NEW k \in Keys, NEW v \in Vals, Begin(t, j, k, v)
    PROVE  UNCHANGED data /\ \A u \in Threads : hand[u] = <<>> \/ Pieces(u)' = Pieces(u)
  <1> USE StepInvOf DEF TypeInv, TypeOK, Begin, Goto, pageVars, elemVars, tree, frame
  <1>1. hand[t] = <<>> /\ UNCHANGED data
    BY DEF StepOf
  <1>2. \A u \in Threads : u # t => job'[u] = job[u] /\ key'[u] = key[u] /\ val'[u] = val[u]
    OBVIOUS
  <1> QED
    BY <1>1, <1>2 DEF Pieces

LEMMA ReserveElementPieces ==
    ASSUME TypeInv, NEW t \in Threads, ReserveElement(t)
    PROVE  UNCHANGED data /\ \A u \in Threads : hand[u] = <<>> \/ Pieces(u)' = Pieces(u)
  BY DEF ReserveElement, Goto, pageVars, elemVars, tree, frame, Pieces

LEMMA ReserveElementFailsPieces ==
    ASSUME TypeInv, NEW t \in Threads, ReserveElementFails(t)
    PROVE  UNCHANGED data /\ \A u \in Threads : hand[u] = <<>> \/ Pieces(u)' = Pieces(u)
  BY DEF ReserveElementFails, Goto, pageVars, elemVars, tree, frame, Pieces

LEMMA PutBackElementPieces ==
    ASSUME TypeInv, NEW t \in Threads, PutBackElement(t)
    PROVE  UNCHANGED data /\ \A u \in Threads : hand[u] = <<>> \/ Pieces(u)' = Pieces(u)
  BY DEF PutBackElement, Goto, pageVars, elemVars, tree, frame, Pieces

LEMMA RemoveNothingPieces ==
    ASSUME TypeInv, NEW t \in Threads, RemoveNothing(t)
    PROVE  UNCHANGED data /\ \A u \in Threads : hand[u] = <<>> \/ Pieces(u)' = Pieces(u)
  BY DEF RemoveNothing, Goto, pageVars, elemVars, tree, frame, Pieces

LEMMA LockToInsertPieces ==
    ASSUME TypeInv, NEW t \in Threads, LockToInsert(t)
    PROVE  UNCHANGED data /\ \A u \in Threads : hand[u] = <<>> \/ Pieces(u)' = Pieces(u)
  BY DEF LockToInsert, Goto, pageVars, elemVars, tree, frame, Pieces

LEMMA RetrySetPieces ==
    ASSUME TypeInv, NEW t \in Threads, RetrySet(t)
    PROVE  UNCHANGED data /\ \A u \in Threads : hand[u] = <<>> \/ Pieces(u)' = Pieces(u)
  BY DEF RetrySet, Goto, pageVars, elemVars, tree, frame, Pieces

LEMMA LockToReplacePieces ==
    ASSUME TypeInv, NEW t \in Threads, LockToReplace(t)
    PROVE  UNCHANGED data /\ \A u \in Threads : hand[u] = <<>> \/ Pieces(u)' = Pieces(u)
  BY DEF LockToReplace, Goto, pageVars, elemVars, tree, frame, Pieces

LEMMA ReplaceMissingPieces ==
    ASSUME TypeInv, NEW t \in Threads, ReplaceMissing(t)
    PROVE  UNCHANGED data /\ \A u \in Threads : hand[u] = <<>> \/ Pieces(u)' = Pieces(u)
  <1> USE StepInvOf DEF TypeInv, TypeOK, ReplaceMissing, Goto, pageVars, elemVars, tree, frame
  <1>1. hand[t] = <<>> /\ UNCHANGED data
    BY DEF StepOf
  <1>2. \A u \in Threads : u # t => job'[u] = job[u] /\ key'[u] = key[u] /\ val'[u] = val[u]
    OBVIOUS
  <1> QED
    BY <1>1, <1>2 DEF Pieces

LEMMA LockToReadPieces ==
    ASSUME TypeInv, NEW t \in Threads, LockToRead(t)
    PROVE  UNCHANGED data /\ \A u \in Threads : hand[u] = <<>> \/ Pieces(u)' = Pieces(u)
  BY DEF LockToRead, Goto, pageVars, elemVars, tree, frame, Pieces

LEMMA GetMissingPieces ==
    ASSUME TypeInv, NEW t \in Threads, GetMissing(t)
    PROVE  UNCHANGED data /\ \A u \in Threads : hand[u] = <<>> \/ Pieces(u)' = Pieces(u)
  BY DEF GetMissing, Goto, pageVars, elemVars, tree, frame, Pieces

LEMMA LoadPagePieces ==
    ASSUME TypeInv, NEW t \in Threads, LoadPage(t)
    PROVE  UNCHANGED data /\ \A u \in Threads : hand[u] = <<>> \/ Pieces(u)' = Pieces(u)
  BY DEF LoadPage, Goto, pageVars, elemVars, tree, frame, Pieces

LEMMA ReturnValuePieces ==
    ASSUME TypeInv, NEW t \in Threads, ReturnValue(t)
    PROVE  UNCHANGED data /\ \A u \in Threads : hand[u] = <<>> \/ Pieces(u)' = Pieces(u)
  BY DEF ReturnValue, Goto, pageVars, elemVars, tree, frame, Pieces

\* Data of other pages says nothing about a chain.
LEMMA WholeElsewhere ==
    ASSUME NEW chain \in Chains, \A q \in ToSet(chain) : data'[q] = data[q]
    PROVE  \A x : Whole(data', chain, x) <=> Whole(data, chain, x)
  <1>1. \A i \in DOMAIN chain : data'[chain[i]] = data[chain[i]]
    BY DEF ToSet
  <1>2. [i \in DOMAIN chain |-> data'[chain[i]]] = [i \in DOMAIN chain |-> data[chain[i]]]
    BY <1>1
  <1> QED
    BY <1>2 DEF Whole, Holds

\* After SetData a chain without repetition holds what was written over it.
LEMMA WrittenHolds ==
    ASSUME data \in [1 .. MaxPages -> Parts], NEW x \in Keys \cup Vals,
           NEW chain \in Chains, Len(chain) = Need[x], IsInjective(chain),
           data' = Written(chain, x)
    PROVE  /\ Whole(data', chain, x)
           /\ \A q \in 1 .. MaxPages : q \notin ToSet(chain) => data'[q] = data[q]
  <1>1. Need[x] \in Nat
    BY PagesAssumption
  <1>2. DOMAIN chain = 1 .. Need[x] /\ \A i \in 1 .. Need[x] : chain[i] \in 1 .. MaxPages
    BY <1>1, ElementOfSeq, LenProperties DEF Chains
  <1>3. DOMAIN Bytes(x) = 1 .. Need[x]
    BY DEF Bytes
  <1>4. \A q \in 1 .. MaxPages : data'[q] =
           LET at == {i \in DOMAIN chain : chain[i] = q}
           IN  IF at = {} THEN data[q] ELSE Bytes(x)[CHOOSE i \in at : TRUE]
    BY DEF Written
  <1>5. ASSUME NEW i \in 1 .. Need[x] PROVE data'[chain[i]] = Bytes(x)[i]
    <2> DEFINE at == {j \in DOMAIN chain : chain[j] = chain[i]}
    <2>1. at = {i}
      BY <1>2, <1>5 DEF IsInjective
    <2>2. (CHOOSE j \in at : TRUE) = i
      BY <2>1
    <2>3. chain[i] \in 1 .. MaxPages
      BY <1>2
    <2>4. data'[chain[i]] = IF at = {} THEN data[chain[i]] ELSE Bytes(x)[CHOOSE j \in at : TRUE]
      BY <1>4, <2>3
    <2> QED
      BY <2>1, <2>2, <2>4
  <1>6. [i \in DOMAIN chain |-> data'[chain[i]]] = Bytes(x)
    BY <1>2, <1>5 DEF Bytes
  <1>7. ASSUME NEW q \in 1 .. MaxPages, q \notin ToSet(chain) PROVE data'[q] = data[q]
    <2>1. {i \in DOMAIN chain : chain[i] = q} = {}
      BY <1>7 DEF ToSet
    <2> QED
      BY <1>4, <2>1
  <1> QED
    BY <1>6, <1>7 DEF Whole, Holds

LEMMA ExpandPageAreaWhole ==
    ASSUME FileInv, ChainsWhole, NEW t \in Threads, ExpandPageArea(t)
    PROVE  ChainsWhole'
  <1> DEFINE new == [i \in 1 .. PageArea |-> pages + i]
  <1>1. /\ free' = new \o free /\ PageArea \in Nat \ {0}
        /\ pages \in Nat /\ free \in Seq(1 .. MaxPages) /\ pages + PageArea <= MaxPages
        /\ UNCHANGED <<data, keyOf, valOf, listed, pc, job, key, val, hand, drop>>
    BY PagesAssumption DEF ExpandPageArea, RoomForPages, FileInv, TypeInv, TypeOK, Chains, tree, frame
  <1>2. new \in Seq(1 .. MaxPages) /\ DOMAIN new = 1 .. PageArea /\ IsInjective(new)
    <2>1. \A i \in 1 .. PageArea : pages + i \in 1 .. MaxPages
      BY <1>1, PagesAssumption
    <2>2. new \in Seq(1 .. MaxPages) /\ DOMAIN new = 1 .. PageArea
      BY <1>1, <2>1
    <2> QED
      BY <1>1, <2>2 DEF IsInjective
  <1>3. ToSet(new) \cap ToSet(free) = {}
    <2>1. ASSUME NEW q \in ToSet(new), q \in ToSet(free) PROVE FALSE
      <3>1. ~(q \in 1 .. pages)
        BY <1>1, <1>2, <2>1 DEF ToSet
      <3>2. q \in 1 .. MaxPages /\ IsFree(q)
        BY <1>1, <2>1, MemberFacts DEF IsFree
      <3> QED
        BY <3>1, <3>2 DEF FileInv, PagesApart, OneHome, InFile
    <2> QED
      BY <2>1
  <1> HIDE DEF new
  <1>4. IsInjective(free')
    <2>1. /\ new \o free \in Seq(1 .. MaxPages)
          /\ Len(new \o free) = Len(new) + Len(free)
          /\ ToSet(new \o free) = ToSet(new) \cup ToSet(free)
          /\ IsInjective(new \o free) <=>
               IsInjective(new) /\ IsInjective(free) /\ ToSet(new) \cap ToSet(free) = {}
      BY <1>1, <1>2, ConcatFacts
    <2> QED
      BY <1>1, <1>2, <1>3, <2>1 DEF ChainsWhole
  <1>5. (\A k \in Keys : Behind(k)' <=> Behind(k)) /\ \A u \in Threads : Pieces(u)' = Pieces(u)
    BY <1>1 DEF Behind, Pieces
  <1>6. \A chain, x : Whole(data', chain, x) <=> Whole(data, chain, x)
    <2>1. data' = data
      BY <1>1
    <2> QED
      BY <2>1
  <1>7. \A u \in Threads : /\ \A i \in DOMAIN hand'[u] : Whole(data', hand'[u][i], Pieces(u)'[i])
                           /\ \A i \in DOMAIN drop'[u] : IsInjective(drop'[u][i])
    BY <1>1, <1>5, <1>6 DEF ChainsWhole
  <1>8. \A k \in Keys : listed'[k] # NoElement =>
           /\ Whole(data', keyOf'[listed'[k]], k)
           /\ Behind(k)' \/ \E v \in Vals : Whole(data', valOf'[listed'[k]], v)
    BY <1>1, <1>5, <1>6 DEF ChainsWhole
  <1> QED
    BY <1>4, <1>7, <1>8 DEF ChainsWhole

LEMMA ReservePagesWhole ==
    ASSUME FileInv, ChainsWhole, NEW t \in Threads, ReservePages(t)
    PROVE  ChainsWhole'
  <1> DEFINE chain == SubSeq(free, 1, Need[Piece(t)])
             x == Piece(t)
             n == Len(hand[t]) + 1
             last == LastPiece(t) /\ job[t] = "rep"
  <1>1. /\ chain \in Chains /\ Len(chain) = Need[x] /\ free \in Chains /\ free' \in Chains
        /\ ToSet(free) = ToSet(chain) \cup ToSet(free')
        /\ IsInjective(chain) /\ IsInjective(free')
        /\ ToSet(chain) \cap ToSet(free') = {}
        /\ data' = Written(chain, x)
        /\ x \in Keys \cup Vals
        /\ Len(hand[t]) \in Nat /\ Len(hand[t]) < Len(Pieces(t))
        /\ hand[t] \in Seq(Chains) /\ drop[t] = <<>>
        /\ hand' = [hand EXCEPT ![t] = Append(@, chain)]
    BY ReservedChain DEF ChainsWhole
  <1>2. /\ hand \in [Threads -> Seq(Chains)] /\ drop \in [Threads -> Seq(Chains)]
        /\ pc \in [Threads -> Steps] /\ key[t] \in Keys /\ data \in [1 .. MaxPages -> Parts]
        /\ keyOf \in [Elements -> Chains] /\ valOf \in [Elements -> Chains]
        /\ listed \in [Keys -> Elements \cup {NoElement}]
    BY DEF FileInv, TypeInv, TypeOK
  <1>3. /\ UNCHANGED <<keyOf, valOf, listed, job, key, val, elem>>
        /\ pc[t] = "reserve"
        /\ pc' = [pc EXCEPT ![t] = IF ~LastPiece(t) THEN "reserve"
                                   ELSE IF job[t] = "set" THEN "insert" ELSE "free"]
        /\ drop' = [drop EXCEPT ![t] = IF last THEN <<valOf[elem[t]]>> ELSE @]
    BY DEF ReservePages, Goto, elemVars, tree
  <1>4. \A u \in Threads : Pieces(u)' = Pieces(u)
    BY <1>3 DEF Pieces
  <1>5. Pieces(t)[n] = x
    BY DEF Piece
  <1> HIDE DEF chain
  <1>6. /\ hand'[t] = Append(hand[t], chain)
        /\ \A i \in 1 .. Len(hand[t]) : hand'[t][i] = hand[t][i]
        /\ hand'[t][n] = chain
        /\ DOMAIN hand'[t] = 1 .. n /\ DOMAIN hand[t] = 1 .. Len(hand[t])
    <2>1. /\ Append(hand[t], chain) \in Seq(Chains)
          /\ Len(Append(hand[t], chain)) = Len(hand[t]) + 1
          /\ \A i \in 1 .. Len(hand[t]) : Append(hand[t], chain)[i] = hand[t][i]
          /\ Append(hand[t], chain)[Len(hand[t]) + 1] = chain
          /\ ToSet(Append(hand[t], chain)) = ToSet(hand[t]) \cup {chain}
          /\ IsInjective(Append(hand[t], chain)) <=> IsInjective(hand[t]) /\ chain \notin ToSet(hand[t])
      BY <1>1, AppendFacts
    <2>2. DOMAIN Append(hand[t], chain) = 1 .. Len(Append(hand[t], chain))
      BY <2>1, LenProperties
    <2>3. hand'[t] = Append(hand[t], chain)
      BY <1>1, <1>2
    <2> QED
      BY <1>1, <2>1, <2>2, <2>3
  <1>7. /\ Whole(data', chain, x)
        /\ \A q \in 1 .. MaxPages : q \notin ToSet(chain) => data'[q] = data[q]
    BY <1>1, <1>2, WrittenHolds
  <1>8. last => elem[t] = listed[key[t]] /\ listed[key[t]] # NoElement /\ ~Behind(key[t])
    <2>1. ASSUME last PROVE elem[t] = listed[key[t]] /\ listed[key[t]] # NoElement
      <3>1. Borrows(t)
        BY <1>3, <2>1 DEF Borrows
      <3>2. StepOf(t)
        BY StepInvOf DEF FileInv, TypeInv
      <3> QED
        BY <3>1, <3>2 DEF FileInv, ElementsConserved, StepOf
    <2>2. ~Behind(key[t])
      BY <1>3, BehindLocks DEF FileInv, LockInv
    <2> QED
      BY <2>1, <2>2
  <1>9. \A k \in Keys : /\ Behind(k) => Behind(k)'
                        /\ Behind(k)' => Behind(k) \/ last
    <2>1. \A u \in Threads : u # t => pc'[u] = pc[u]
      BY <1>2, <1>3
    <2>2. pc'[t] \in {"free", "point"} /\ job[t] = "rep" => last
      <3>1. pc'[t] = IF ~LastPiece(t) THEN "reserve" ELSE IF job[t] = "set" THEN "insert" ELSE "free"
        BY <1>2, <1>3
      <3> QED
        BY <3>1
    <2> HIDE DEF last
    <2> QED
      BY <1>3, <2>1, <2>2 DEF Behind
  <1> HIDE DEF x, n, last
  <1>10. \A q \in 1 .. MaxPages : q \in ToSet(chain) => IsFree(q)
    BY <1>1 DEF IsFree
  <1>11. ASSUME NEW c \in Chains, \A q \in ToSet(c) : ~IsFree(q)
         PROVE  \A y : Whole(data', c, y) <=> Whole(data, c, y)
    <2>1. \A q \in ToSet(c) : q \in 1 .. MaxPages
      BY MemberFacts DEF Chains
    <2>2. \A q \in ToSet(c) : data'[q] = data[q]
      BY <1>7, <1>10, <1>11, <2>1
    <2> QED
      BY <2>2, WholeElsewhere
  <1>12. ASSUME NEW u \in Threads, NEW i \in DOMAIN hand[u]
         PROVE  Whole(data', hand[u][i], Pieces(u)[i])
    <2>1. hand[u][i] \in Chains /\ i \in Nat
      BY <1>2, MemberFacts, ElementOfSeq
    <2>2. \A q \in ToSet(hand[u][i]) : q \in 1 .. MaxPages /\ InHand(q, u, i)
      BY <2>1, MemberFacts DEF Chains, InHand
    <2>3. \A q \in ToSet(hand[u][i]) : ~IsFree(q)
      BY <2>1, <2>2 DEF FileInv, PagesApart, OneHome
    <2>4. \A y : Whole(data', hand[u][i], y) <=> Whole(data, hand[u][i], y)
      BY <1>11, <2>1, <2>3
    <2> QED
      BY <1>4, <2>4 DEF ChainsWhole
  <1>13. ASSUME NEW u \in Threads, NEW i \in DOMAIN hand'[u]
         PROVE  Whole(data', hand'[u][i], Pieces(u)'[i])
    <2>1. CASE u # t
      BY <1>1, <1>2, <1>4, <1>12, <2>1
    <2>2. CASE u = t /\ i = n
      BY <1>4, <1>5, <1>6, <1>7, <2>2
    <2>3. CASE u = t /\ i # n
      <3>1. i \in DOMAIN hand[t] /\ hand'[t][i] = hand[t][i]
        BY <1>1, <1>6, <2>3 DEF n
      <3> QED
        BY <1>4, <1>12, <2>3, <3>1
    <2> QED
      BY <2>1, <2>2, <2>3
  <1>14. ASSUME NEW u \in Threads, NEW i \in DOMAIN drop'[u]
         PROVE  IsInjective(drop'[u][i])
    <2>1. CASE u = t /\ last
      <3>1. drop'[t] = <<valOf[elem[t]]>>
        BY <1>2, <1>3, <2>1
      <3>2. IsInjective(valOf[listed[key[t]]])
        BY <1>2, <1>8, <2>1 DEF ChainsWhole, Whole
      <3>3. DOMAIN drop'[t] = {1} /\ drop'[t][1] = valOf[elem[t]]
        BY <3>1
      <3> QED
        BY <1>8, <2>1, <3>2, <3>3
    <2>2. CASE ~(u = t /\ last)
      <3>1. drop'[u] = drop[u]
        BY <1>2, <1>3, <2>2
      <3> QED
        BY <3>1 DEF ChainsWhole
    <2> QED
      BY <2>1, <2>2
  <1>15. ASSUME NEW k \in Keys, listed[k] # NoElement
         PROVE  /\ Whole(data', keyOf[listed[k]], k)
                /\ Behind(k) \/ \E v \in Vals : Whole(data', valOf[listed[k]], v)
    <2>1. keyOf[listed[k]] \in Chains /\ valOf[listed[k]] \in Chains
      BY <1>2, <1>15
    <2>2. \A q \in ToSet(keyOf[listed[k]]) : q \in 1 .. MaxPages /\ OfKey(q, k)
      BY <1>15, <2>1, MemberFacts DEF Chains, OfKey
    <2>3. \A q \in ToSet(keyOf[listed[k]]) : ~IsFree(q)
      BY <2>2 DEF FileInv, PagesApart, OneHome
    <2>4. Whole(data', keyOf[listed[k]], k)
      BY <1>11, <1>15, <2>1, <2>3 DEF ChainsWhole
    <2>5. ASSUME ~Behind(k) PROVE \E v \in Vals : Whole(data', valOf[listed[k]], v)
      <3>1. \A q \in ToSet(valOf[listed[k]]) : q \in 1 .. MaxPages /\ OfValue(q, k)
        BY <1>15, <2>1, <2>5, MemberFacts DEF Chains, OfValue
      <3>2. \A q \in ToSet(valOf[listed[k]]) : ~IsFree(q)
        BY <3>1 DEF FileInv, PagesApart, OneHome
      <3>3. \A y : Whole(data', valOf[listed[k]], y) <=> Whole(data, valOf[listed[k]], y)
        BY <1>11, <2>1, <3>2
      <3> QED
        BY <1>15, <2>5, <3>3 DEF ChainsWhole
    <2> QED
      BY <2>4, <2>5
  <1>16. \A k \in Keys : listed'[k] # NoElement =>
           /\ Whole(data', keyOf'[listed'[k]], k)
           /\ Behind(k)' \/ \E v \in Vals : Whole(data', valOf'[listed'[k]], v)
    BY <1>3, <1>9, <1>15
  <1> QED
    BY <1>1, <1>13, <1>14, <1>16 DEF ChainsWhole

LEMMA ReservePagesFailsWhole ==
    ASSUME FileInv, ChainsWhole, NEW t \in Threads, ReservePagesFails(t)
    PROVE  ChainsWhole'
  <1>1. /\ hand \in [Threads -> Seq(Chains)] /\ drop \in [Threads -> Seq(Chains)]
        /\ pc \in [Threads -> Steps] /\ pc[t] = "reserve"
    BY DEF FileInv, TypeInv, TypeOK, ReservePagesFails
  <1>2. /\ UNCHANGED <<free, data, keyOf, valOf, listed, job, key, val>>
        /\ \A u \in Threads : u # t => hand'[u] = hand[u] /\ drop'[u] = drop[u] /\ pc'[u] = pc[u]
        /\ hand'[t] = <<>> /\ drop'[t] = hand[t]
    BY <1>1 DEF ReservePagesFails, Goto, elemVars, tree
  <1>3. ~(pc'[t] \in {"free", "point"} /\ job'[t] = "rep")
    BY <1>1 DEF ReservePagesFails, Goto
  <1>4. (\A k \in Keys : Behind(k)' <=> Behind(k)) /\ \A u \in Threads : Pieces(u)' = Pieces(u)
    BY <1>1, <1>2, <1>3 DEF Behind, Pieces
  <1>5. \A chain, x : Whole(data', chain, x) <=> Whole(data, chain, x)
    BY <1>2 DEF Whole, Holds
  <1>6. \A u \in Threads : /\ \A i \in DOMAIN hand'[u] : Whole(data', hand'[u][i], Pieces(u)'[i])
                           /\ \A i \in DOMAIN drop'[u] : IsInjective(drop'[u][i])
    <2>1. ASSUME NEW u \in Threads, u # t
          PROVE  /\ \A i \in DOMAIN hand'[u] : Whole(data', hand'[u][i], Pieces(u)'[i])
                 /\ \A i \in DOMAIN drop'[u] : IsInjective(drop'[u][i])
      BY <1>2, <1>4, <1>5, <2>1 DEF ChainsWhole
    <2>2. \A i \in DOMAIN drop'[t] : IsInjective(drop'[t][i])
      BY <1>2 DEF ChainsWhole, Whole
    <2>3. DOMAIN hand'[t] = {}
      BY <1>2
    <2> QED
      BY <2>1, <2>2, <2>3
  <1>7. \A k \in Keys : listed'[k] # NoElement =>
           /\ Whole(data', keyOf'[listed'[k]], k)
           /\ Behind(k)' \/ \E v \in Vals : Whole(data', valOf'[listed'[k]], v)
    BY <1>2, <1>4, <1>5 DEF ChainsWhole
  <1> QED
    BY <1>2, <1>6, <1>7 DEF ChainsWhole

LEMMA PutBackPagesWhole ==
    ASSUME FileInv, ChainsWhole, NEW t \in Threads, PutBackPages(t)
    PROVE  ChainsWhole'
  <1> DEFINE chain == Head(drop[t])
             n == Len(drop[t])
  <1>1. /\ StepOf(t) /\ pc[t] = "free" /\ n \in Nat \ {0}
        /\ chain = drop[t][1] /\ chain \in Chains
        /\ IsInjective(free') <=>
             IsInjective(chain) /\ IsInjective(free) /\ ToSet(chain) \cap ToSet(free) = {}
        /\ free \in Chains
        /\ DOMAIN drop'[t] = 1 .. n - 1 /\ DOMAIN drop[t] = 1 .. n
        /\ \A i \in 1 .. n - 1 : drop'[t][i] = drop[t][i + 1]
        /\ data' = [p \in DOMAIN data |-> IF p \in ToSet(chain) THEN <<>> ELSE data[p]]
    BY ReturnedChain DEF FileInv
  <1>2. /\ hand \in [Threads -> Seq(Chains)]
        /\ pc \in [Threads -> Steps] /\ data \in [1 .. MaxPages -> Parts]
        /\ keyOf \in [Elements -> Chains] /\ valOf \in [Elements -> Chains]
        /\ listed \in [Keys -> Elements \cup {NoElement}]
    BY DEF FileInv, TypeInv, TypeOK
  <1>3. /\ UNCHANGED <<keyOf, valOf, listed, job, key, val, hand>>
        /\ \A u \in Threads : u # t => drop'[u] = drop[u] /\ pc'[u] = pc[u]
        /\ pc'[t] = IF n > 1 THEN "free" ELSE IF job[t] = "rep" THEN "point" ELSE "putback"
    BY DEF PutBackPages, Goto, elemVars, tree, FileInv, TypeInv, TypeOK
  <1> HIDE DEF chain, n
  <1>4. (\A k \in Keys : Behind(k)' <=> Behind(k)) /\ \A u \in Threads : Pieces(u)' = Pieces(u)
    <2>1. pc'[t] \in {"free", "point"} /\ job[t] = "rep" <=> pc[t] \in {"free", "point"} /\ job[t] = "rep"
      BY <1>1, <1>3
    <2> QED
      BY <1>3, <2>1 DEF Behind, Pieces
  <1>5. 1 \in DOMAIN drop[t] /\ \A q \in ToSet(chain) : q \in 1 .. MaxPages /\ ToDrop(q, t, 1)
    <2>1. 1 \in DOMAIN drop[t]
      BY <1>1
    <2>2. \A q \in ToSet(chain) : q \in 1 .. MaxPages
      <3>1. chain \in Seq(1 .. MaxPages)
        BY <1>1 DEF Chains
      <3> QED
        BY <3>1, MemberFacts
    <2> QED
      BY <1>1, <2>1, <2>2 DEF ToDrop
  <1>6. IsInjective(free')
    <2>1. IsInjective(chain) /\ IsInjective(free)
      BY <1>1, <1>5 DEF ChainsWhole
    <2>2. \A q \in ToSet(chain) : ~IsFree(q)
      BY <1>5 DEF FileInv, PagesApart, OneHome
    <2> QED
      BY <1>1, <2>1, <2>2 DEF IsFree
  <1>7. ASSUME NEW c \in Chains, \A q \in ToSet(c) : ~ToDrop(q, t, 1)
        PROVE  \A y : Whole(data', c, y) <=> Whole(data, c, y)
    <2>1. \A q \in ToSet(c) : q \in 1 .. MaxPages
      BY MemberFacts DEF Chains
    <2>2. \A q \in ToSet(c) : data'[q] = data[q]
      BY <1>1, <1>2, <1>5, <1>7, <2>1
    <2> QED
      BY <2>2, WholeElsewhere
  <1>8. ASSUME NEW u \in Threads, NEW i \in DOMAIN hand[u]
        PROVE  Whole(data', hand[u][i], Pieces(u)[i])
    <2>1. hand[u][i] \in Chains /\ i \in Nat
      BY <1>2, MemberFacts, ElementOfSeq
    <2>2. \A q \in ToSet(hand[u][i]) : q \in 1 .. MaxPages /\ InHand(q, u, i)
      BY <2>1, MemberFacts DEF Chains, InHand
    <2>3. \A q \in ToSet(hand[u][i]) : ~ToDrop(q, t, 1)
      BY <2>1, <2>2 DEF FileInv, PagesApart, OneHome
    <2>4. \A y : Whole(data', hand[u][i], y) <=> Whole(data, hand[u][i], y)
      BY <1>7, <2>1, <2>3
    <2> QED
      BY <1>4, <2>4 DEF ChainsWhole
  <1>9. ASSUME NEW u \in Threads, NEW i \in DOMAIN drop'[u]
        PROVE  IsInjective(drop'[u][i])
    <2>1. CASE u = t
      <3>1. i \in 1 .. n - 1 /\ i + 1 \in 1 .. n
        BY <1>1, <2>1
      <3>2. drop'[t][i] = drop[t][i + 1] /\ i + 1 \in DOMAIN drop[t]
        BY <1>1, <3>1
      <3> QED
        BY <2>1, <3>2 DEF ChainsWhole
    <2>2. CASE u # t
      BY <1>3, <2>2 DEF ChainsWhole
    <2> QED
      BY <2>1, <2>2
  <1>10. ASSUME NEW k \in Keys, listed[k] # NoElement
         PROVE  /\ Whole(data', keyOf[listed[k]], k)
                /\ Behind(k) \/ \E v \in Vals : Whole(data', valOf[listed[k]], v)
    <2>1. keyOf[listed[k]] \in Chains /\ valOf[listed[k]] \in Chains
      BY <1>2, <1>10
    <2>2. \A q \in ToSet(keyOf[listed[k]]) : q \in 1 .. MaxPages /\ OfKey(q, k)
      BY <1>10, <2>1, MemberFacts DEF Chains, OfKey
    <2>3. \A q \in ToSet(keyOf[listed[k]]) : ~ToDrop(q, t, 1)
      BY <2>2 DEF FileInv, PagesApart, OneHome
    <2>4. Whole(data', keyOf[listed[k]], k)
      BY <1>7, <1>10, <2>1, <2>3 DEF ChainsWhole
    <2>5. ASSUME ~Behind(k) PROVE \E v \in Vals : Whole(data', valOf[listed[k]], v)
      <3>1. \A q \in ToSet(valOf[listed[k]]) : q \in 1 .. MaxPages /\ OfValue(q, k)
        BY <1>10, <2>1, <2>5, MemberFacts DEF Chains, OfValue
      <3>2. \A q \in ToSet(valOf[listed[k]]) : ~ToDrop(q, t, 1)
        BY <3>1 DEF FileInv, PagesApart, OneHome
      <3>3. \A y : Whole(data', valOf[listed[k]], y) <=> Whole(data, valOf[listed[k]], y)
        BY <1>7, <2>1, <3>2
      <3> QED
        BY <1>10, <2>5, <3>3 DEF ChainsWhole
    <2> QED
      BY <2>4, <2>5
  <1>11. \A u \in Threads : \A i \in DOMAIN hand'[u] : Whole(data', hand'[u][i], Pieces(u)'[i])
    BY <1>3, <1>4, <1>8
  <1>12. \A k \in Keys : listed'[k] # NoElement =>
           /\ Whole(data', keyOf'[listed'[k]], k)
           /\ Behind(k)' \/ \E v \in Vals : Whole(data', valOf'[listed'[k]], v)
    BY <1>3, <1>4, <1>10
  <1> QED
    BY <1>6, <1>9, <1>11, <1>12 DEF ChainsWhole

LEMMA TakeOffWhole ==
    ASSUME FileInv, ChainsWhole, NEW t \in Threads, TakeOff(t)
    PROVE  ChainsWhole'
  <1> DEFINE e == listed[key[t]]
  <1>1. /\ drop \in [Threads -> Seq(Chains)] /\ listed \in [Keys -> Elements \cup {NoElement}]
        /\ pc \in [Threads -> Steps] /\ StepOf(t) /\ pc[t] = "remove" /\ key[t] \in Keys
        /\ e # NoElement /\ job[t] # "rep"
    BY StepInvOf DEF FileInv, TypeInv, TypeOK, TakeOff, StepOf
  <1>2. /\ UNCHANGED <<free, data, keyOf, valOf, job, key, val, hand>>
        /\ \A u \in Threads : u # t => drop'[u] = drop[u] /\ pc'[u] = pc[u]
        /\ drop'[t] = <<valOf[e], keyOf[e]>>
        /\ \A k \in Keys : listed'[k] = IF k = key[t] THEN NoElement ELSE listed[k]
    BY <1>1 DEF TakeOff, Goto, pageVars, elemVars, StepOf
  <1>3. \A k \in Keys : Behind(k)' <=> Behind(k)
    BY <1>1, <1>2 DEF Behind
  <1>4. ~Behind(key[t])
    BY BehindLocks DEF TakeOff, WriteLockable, FileInv
  <1>5. \A chain, x : Whole(data', chain, x) <=> Whole(data, chain, x)
    BY <1>2 DEF Whole, Holds
  <1>6. \A u \in Threads : Pieces(u)' = Pieces(u)
    BY <1>2 DEF Pieces
  <1>7. \A u \in Threads : \A i \in DOMAIN hand'[u] : Whole(data', hand'[u][i], Pieces(u)'[i])
    BY <1>2, <1>5, <1>6 DEF ChainsWhole
  <1>8. ASSUME NEW u \in Threads, NEW i \in DOMAIN drop'[u]
        PROVE  IsInjective(drop'[u][i])
    <2>1. CASE u = t
      <3>1. IsInjective(keyOf[e]) /\ IsInjective(valOf[e])
        BY <1>1, <1>4 DEF ChainsWhole, Whole
      <3>2. DOMAIN drop'[t] = {1, 2} /\ drop'[t][1] = valOf[e] /\ drop'[t][2] = keyOf[e]
        BY <1>2
      <3> QED
        BY <2>1, <3>1, <3>2
    <2>2. CASE u # t
      BY <1>2, <2>2 DEF ChainsWhole
    <2> QED
      BY <2>1, <2>2
  <1>9. \A k \in Keys : listed'[k] # NoElement =>
           /\ Whole(data', keyOf'[listed'[k]], k)
           /\ Behind(k)' \/ \E v \in Vals : Whole(data', valOf'[listed'[k]], v)
    BY <1>2, <1>3, <1>5 DEF ChainsWhole
  <1> QED
    BY <1>2, <1>7, <1>8, <1>9 DEF ChainsWhole

LEMMA InsertElementWhole ==
    ASSUME FileInv, ChainsWhole, NEW t \in Threads, InsertElement(t)
    PROVE  ChainsWhole'
  <1> DEFINE e == elem[t]
  <1>1. /\ hand \in [Threads -> Seq(Chains)] /\ listed \in [Keys -> Elements \cup {NoElement}]
        /\ keyOf \in [Elements -> Chains] /\ valOf \in [Elements -> Chains]
        /\ pc \in [Threads -> Steps] /\ StepOf(t) /\ pc[t] = "insert" /\ key[t] \in Keys
        /\ val[t] \in Vals /\ Pieces(t) = <<key[t], val[t]>>
    BY StepInvOf DEF FileInv, TypeInv, TypeOK, InsertElement, StepOf, Pieces
  <1>2. e \in Elements /\ e # NoElement /\ \A k \in Keys : listed[k] # e
    BY <1>1, ElementNames DEF FileInv, TypeInv, ElementsConserved, Owns
  <1>3. DOMAIN hand[t] = 1 .. 2
    BY <1>1, LenProperties DEF StepOf
  <1>4. /\ UNCHANGED <<free, data, job, key, val, drop>>
        /\ \A u \in Threads : u # t => hand'[u] = hand[u] /\ pc'[u] = pc[u]
        /\ hand'[t] = <<>> /\ pc'[t] = "idle"
        /\ \A k \in Keys : listed'[k] = IF k = key[t] THEN e ELSE listed[k]
        /\ \A x \in Elements : /\ keyOf'[x] = IF x = e THEN hand[t][1] ELSE keyOf[x]
                               /\ valOf'[x] = IF x = e THEN hand[t][2] ELSE valOf[x]
    BY <1>1, <1>2 DEF InsertElement, Goto, pageVars, elemVars
  <1> HIDE DEF e
  <1>5. \A k \in Keys : Behind(k)' <=> Behind(k)
    BY <1>1, <1>4 DEF Behind
  <1>6. (\A chain, x : Whole(data', chain, x) <=> Whole(data, chain, x)) /\ \A u \in Threads : Pieces(u)' = Pieces(u)
    BY <1>4 DEF Whole, Holds, Pieces
  <1>7. \A u \in Threads : /\ \A i \in DOMAIN hand'[u] : Whole(data', hand'[u][i], Pieces(u)'[i])
                           /\ \A i \in DOMAIN drop'[u] : IsInjective(drop'[u][i])
    <2>1. ASSUME NEW u \in Threads, u # t
          PROVE  \A i \in DOMAIN hand'[u] : Whole(data', hand'[u][i], Pieces(u)'[i])
      BY <1>4, <1>6, <2>1 DEF ChainsWhole
    <2>2. DOMAIN hand'[t] = {}
      BY <1>4
    <2>3. \A u \in Threads : \A i \in DOMAIN drop'[u] : IsInjective(drop'[u][i])
      BY <1>4 DEF ChainsWhole
    <2> QED
      BY <2>1, <2>2, <2>3
  <1>8. Whole(data', hand[t][1], key[t]) /\ Whole(data', hand[t][2], val[t])
    <2>1. 1 \in DOMAIN hand[t] /\ 2 \in DOMAIN hand[t] /\ Pieces(t)[1] = key[t] /\ Pieces(t)[2] = val[t]
      BY <1>1, <1>3
    <2>2. Whole(data, hand[t][1], key[t]) /\ Whole(data, hand[t][2], val[t])
      BY <2>1 DEF ChainsWhole
    <2> QED
      BY <1>4, <1>6, <2>2
  <1>9. ASSUME NEW k \in Keys, listed'[k] # NoElement
        PROVE  /\ Whole(data', keyOf'[listed'[k]], k)
               /\ Behind(k)' \/ \E v \in Vals : Whole(data', valOf'[listed'[k]], v)
    <2>1. CASE k = key[t]
      <3>1. keyOf'[listed'[k]] = hand[t][1] /\ valOf'[listed'[k]] = hand[t][2]
        BY <1>2, <1>4, <2>1
      <3> QED
        BY <1>1, <1>4, <1>8, <2>1, <3>1
    <2>2. CASE k # key[t]
      <3>1. listed'[k] = listed[k] /\ listed[k] \in Elements /\ listed[k] # e
        BY <1>1, <1>2, <1>4, <1>9, <2>2
      <3>2. keyOf'[listed'[k]] = keyOf[listed[k]] /\ valOf'[listed'[k]] = valOf[listed[k]]
        BY <1>4, <3>1
      <3> QED
        BY <1>5, <1>6, <1>9, <3>1, <3>2 DEF ChainsWhole
    <2> QED
      BY <2>1, <2>2
  <1> QED
    BY <1>4, <1>7, <1>9 DEF ChainsWhole

LEMMA SetValuePointerWhole ==
    ASSUME FileInv, ChainsWhole, NEW t \in Threads, SetValuePointer(t)
    PROVE  ChainsWhole'
  <1> DEFINE e == elem[t]
  <1>1. /\ hand \in [Threads -> Seq(Chains)] /\ listed \in [Keys -> Elements \cup {NoElement}]
        /\ keyOf \in [Elements -> Chains] /\ valOf \in [Elements -> Chains]
        /\ pc \in [Threads -> Steps] /\ StepOf(t) /\ pc[t] = "point" /\ key[t] \in Keys
        /\ val[t] \in Vals /\ Pieces(t) = <<val[t]>>
        /\ elem[t] \in Elements \cup {NoElement}
    BY StepInvOf DEF FileInv, TypeInv, TypeOK, SetValuePointer, StepOf, Pieces
  <1>2. e \in Elements /\ e # NoElement /\ listed[key[t]] = e
    BY <1>1 DEF FileInv, ElementsConserved, Borrows, StepOf
  <1>3. \A k \in Keys : k # key[t] => listed[k] # e
    BY <1>1, <1>2 DEF FileInv, ElementsConserved
  <1>4. DOMAIN hand[t] = 1 .. 1
    BY <1>1, LenProperties DEF StepOf
  <1>5. /\ UNCHANGED <<free, data, keyOf, listed, job, key, val, drop>>
        /\ \A u \in Threads : u # t => hand'[u] = hand[u] /\ pc'[u] = pc[u]
        /\ hand'[t] = <<>> /\ pc'[t] = "idle"
        /\ \A x \in Elements : valOf'[x] = IF x = e THEN hand[t][1] ELSE valOf[x]
    BY <1>1, <1>2 DEF SetValuePointer, Goto, pageVars, elemVars
  <1> HIDE DEF e
  <1>6. \A k \in Keys : k # key[t] => (Behind(k)' <=> Behind(k))
    BY <1>1, <1>5 DEF Behind
  <1>7. (\A chain, x : Whole(data', chain, x) <=> Whole(data, chain, x)) /\ \A u \in Threads : Pieces(u)' = Pieces(u)
    BY <1>5 DEF Whole, Holds, Pieces
  <1>8. \A u \in Threads : /\ \A i \in DOMAIN hand'[u] : Whole(data', hand'[u][i], Pieces(u)'[i])
                           /\ \A i \in DOMAIN drop'[u] : IsInjective(drop'[u][i])
    <2>1. ASSUME NEW u \in Threads, u # t
          PROVE  \A i \in DOMAIN hand'[u] : Whole(data', hand'[u][i], Pieces(u)'[i])
      BY <1>5, <1>7, <2>1 DEF ChainsWhole
    <2>2. DOMAIN hand'[t] = {}
      BY <1>5
    <2>3. \A u \in Threads : \A i \in DOMAIN drop'[u] : IsInjective(drop'[u][i])
      BY <1>5 DEF ChainsWhole
    <2> QED
      BY <2>1, <2>2, <2>3
  <1>9. Whole(data', hand[t][1], val[t])
    <2>1. 1 \in DOMAIN hand[t] /\ Pieces(t)[1] = val[t]
      BY <1>1, <1>4
    <2>2. Whole(data, hand[t][1], val[t])
      BY <2>1 DEF ChainsWhole
    <2> QED
      BY <1>5, <1>7, <2>2
  <1>10. ASSUME NEW k \in Keys, listed'[k] # NoElement
         PROVE  /\ Whole(data', keyOf'[listed'[k]], k)
                /\ Behind(k)' \/ \E v \in Vals : Whole(data', valOf'[listed'[k]], v)
    <2>1. CASE k = key[t]
      <3>1. valOf'[listed'[k]] = hand[t][1]
        BY <1>2, <1>5, <2>1
      <3>2. Whole(data', keyOf'[listed'[k]], k)
        BY <1>5, <1>7, <1>10 DEF ChainsWhole
      <3> QED
        BY <1>1, <1>5, <1>9, <3>1, <3>2
    <2>2. CASE k # key[t]
      <3>1. listed'[k] = listed[k] /\ listed[k] \in Elements /\ listed[k] # e
        BY <1>1, <1>3, <1>5, <1>10, <2>2
      <3>2. keyOf'[listed'[k]] = keyOf[listed[k]] /\ valOf'[listed'[k]] = valOf[listed[k]]
        BY <1>5, <3>1
      <3> QED
        BY <1>6, <1>7, <1>10, <2>2, <3>1, <3>2 DEF ChainsWhole
    <2> QED
      BY <2>1, <2>2
  <1> QED
    BY <1>5, <1>8, <1>10 DEF ChainsWhole

LEMMA NextWhole == FileInv /\ ChainsWhole /\ [Next]_vars => ChainsWhole'
  <1> SUFFICES ASSUME FileInv, ChainsWhole, [Next]_vars PROVE ChainsWhole'
    OBVIOUS
  <1>1. ASSUME UNCHANGED vars PROVE ChainsWhole'
    <2>1. SamePlaces
      BY <1>1, UnchangedPages DEF vars, pageVars, elemVars, tree, frame
    <2>2. UNCHANGED data /\ \A u \in Threads : Pieces(u)' = Pieces(u)
      BY <1>1 DEF vars, pageVars, elemVars, tree, frame, Pieces
    <2> QED
      BY <2>1, <2>2, WholeKept
  <1>2. ASSUME NEW t \in Threads, NEW j \in {"get", "del", "set", "rep"},
               NEW k \in Keys, NEW v \in Vals, Begin(t, j, k, v)
        PROVE  ChainsWhole'
    <2>1. SamePlaces
      BY <1>2, BeginSame DEF FileInv
    <2>2. UNCHANGED data /\ \A u \in Threads : hand[u] = <<>> \/ Pieces(u)' = Pieces(u)
      BY <1>2, BeginPieces DEF FileInv
    <2> QED
      BY <2>1, <2>2, WholeKept
  <1>3. ASSUME NEW t \in Threads, Step(t) PROVE ChainsWhole'
    <2>1. CASE \/ ExpandPageArea(t) \/ ReservePages(t) \/ ReservePagesFails(t)
               \/ PutBackPages(t) \/ TakeOff(t) \/ InsertElement(t) \/ SetValuePointer(t)
      BY <2>1, ExpandPageAreaWhole, ReservePagesWhole, ReservePagesFailsWhole, PutBackPagesWhole,
         TakeOffWhole, InsertElementWhole, SetValuePointerWhole
    <2>2. CASE ~ \/ ExpandPageArea(t) \/ ReservePages(t) \/ ReservePagesFails(t)
                 \/ PutBackPages(t) \/ TakeOff(t) \/ InsertElement(t) \/ SetValuePointer(t)
      <3>1. SamePlaces
        BY <1>3, <2>2, ReserveElementSame, ReserveElementFailsSame, PutBackElementSame,
           RemoveNothingSame, LockToInsertSame, RetrySetSame, LockToReplaceSame,
           ReplaceMissingSame, LockToReadSame, GetMissingSame, LoadPageSame, ReturnValueSame
           DEF Step, FileInv
      <3>2. UNCHANGED data /\ \A u \in Threads : hand[u] = <<>> \/ Pieces(u)' = Pieces(u)
        BY <1>3, <2>2, ReserveElementPieces, ReserveElementFailsPieces, PutBackElementPieces,
           RemoveNothingPieces, LockToInsertPieces, RetrySetPieces, LockToReplacePieces,
           ReplaceMissingPieces, LockToReadPieces, GetMissingPieces, LoadPagePieces,
           ReturnValuePieces DEF Step, FileInv
      <3> QED
        BY <3>1, <3>2, WholeKept
    <2> QED
      BY <2>1, <2>2
  <1> QED
    BY <1>1, <1>2, <1>3 DEF Next, Done

-----------------------------------------------------------------------------
\* One place for every page, counted

LEMMA OnePlace ==
    ASSUME FileInv, ChainInv, NEW p \in 1 .. pages
    PROVE  Cardinality(Places(p)) = 1
  <1> DEFINE inFree == {<<"free", i>> : i \in {i \in DOMAIN free : free[i] = p}}
             inHand == UNION {{<<"hand", t, i>> : i \in {i \in DOMAIN hand[t] : p \in ToSet(hand[t][i])}} : t \in Threads}
             inDrop == UNION {{<<"drop", t, i>> : i \in {i \in DOMAIN drop[t] : p \in ToSet(drop[t][i])}} : t \in Threads}
             inKey == {<<"key", k>> : k \in {k \in Keys : listed[k] # NoElement /\ p \in ToSet(keyOf[listed[k]])}}
             inValue == {<<"value", k>> : k \in {k \in Keys : /\ listed[k] # NoElement
                                                              /\ ~Replacing(listed[k])
                                                              /\ p \in ToSet(valOf[listed[k]])}}
  <1>1. Places(p) = inFree \cup inHand \cup inDrop \cup inKey \cup inValue
    BY DEF Places
  <1>2. OneHome(p) /\ InFile(p)
    <2>1. p \in 1 .. MaxPages
      BY PagesAssumption DEF FileInv, TypeInv, TypeOK
    <2> QED
      BY <2>1 DEF FileInv, PagesApart, OneHome
  <1>3. /\ \A t \in Threads : \A i \in DOMAIN hand[t] : i \in Nat
        /\ \A t \in Threads : \A i \in DOMAIN drop[t] : i \in Nat
    <2>1. hand \in [Threads -> Seq(Chains)] /\ drop \in [Threads -> Seq(Chains)]
      BY DEF FileInv, TypeInv, TypeOK
    <2>2. \A c \in Seq(Chains) : \A i \in DOMAIN c : i \in Nat
      BY LenProperties
    <2> QED
      BY <2>1, <2>2
  <1>4. /\ ~IsFree(p) => inFree = {}
        /\ IsFree(p) => \E x : inFree = {x}
    <2>1. ~IsFree(p) => inFree = {}
      BY DEF IsFree, ToSet
    <2>2. ASSUME IsFree(p) PROVE \E x : inFree = {x}
      <3>1. PICK i \in DOMAIN free : free[i] = p
        BY <2>2 DEF IsFree, ToSet
      <3>2. {n \in DOMAIN free : free[n] = p} = {i}
        BY <3>1 DEF ChainInv, IsInjective
      <3>3. inFree = {<<"free", i>>}
        BY <3>2
      <3> QED
        BY <3>3
    <2> QED
      BY <2>1, <2>2
  <1>5. /\ (\A t \in Threads, i \in Nat : ~InHand(p, t, i)) => inHand = {}
        /\ (\E t \in Threads, i \in Nat : InHand(p, t, i)) => \E x : inHand = {x}
    <2>1. (\A t \in Threads, i \in Nat : ~InHand(p, t, i)) => inHand = {}
      BY <1>3 DEF InHand
    <2>2. ASSUME NEW t \in Threads, NEW i \in Nat, InHand(p, t, i) PROVE inHand = {<<"hand", t, i>>}
      <3>1. \A u \in Threads : \A j \in DOMAIN hand[u] : p \in ToSet(hand[u][j]) => u = t /\ j = i
        BY <1>2, <1>3, <2>2 DEF OneHome, InHand
      <3>2. i \in DOMAIN hand[t] /\ p \in ToSet(hand[t][i])
        BY <2>2 DEF InHand
      <3>3. <<"hand", t, i>> \in inHand
        BY <3>2
      <3>4. \A y \in inHand : y = <<"hand", t, i>>
        BY <3>1
      <3> HIDE DEF inHand
      <3> QED
        BY <3>3, <3>4
    <2> QED
      BY <2>1, <2>2
  <1>6. /\ (\A t \in Threads, i \in Nat : ~ToDrop(p, t, i)) => inDrop = {}
        /\ (\E t \in Threads, i \in Nat : ToDrop(p, t, i)) => \E x : inDrop = {x}
    <2>1. (\A t \in Threads, i \in Nat : ~ToDrop(p, t, i)) => inDrop = {}
      BY <1>3 DEF ToDrop
    <2>2. ASSUME NEW t \in Threads, NEW i \in Nat, ToDrop(p, t, i) PROVE inDrop = {<<"drop", t, i>>}
      <3>1. \A u \in Threads : \A j \in DOMAIN drop[u] : p \in ToSet(drop[u][j]) => u = t /\ j = i
        BY <1>2, <1>3, <2>2 DEF OneHome, ToDrop
      <3>2. i \in DOMAIN drop[t] /\ p \in ToSet(drop[t][i])
        BY <2>2 DEF ToDrop
      <3>3. <<"drop", t, i>> \in inDrop
        BY <3>2
      <3>4. \A y \in inDrop : y = <<"drop", t, i>>
        BY <3>1
      <3> HIDE DEF inDrop
      <3> QED
        BY <3>3, <3>4
    <2> QED
      BY <2>1, <2>2
  <1>7. /\ (\A k \in Keys : ~OfKey(p, k)) => inKey = {}
        /\ (\E k \in Keys : OfKey(p, k)) => \E x : inKey = {x}
    <2>1. inKey = {<<"key", k>> : k \in {k \in Keys : OfKey(p, k)}}
      BY DEF OfKey
    <2>2. ASSUME NEW k \in Keys, OfKey(p, k) PROVE {j \in Keys : OfKey(p, j)} = {k}
      BY <1>2, <2>2 DEF OneHome
    <2>3. ASSUME NEW k \in Keys, OfKey(p, k) PROVE inKey = {<<"key", k>>}
      BY <2>1, <2>2, <2>3
    <2> QED
      BY <2>1, <2>3
  <1>8. /\ (\A k \in Keys : ~OfValue(p, k)) => inValue = {}
        /\ (\E k \in Keys : OfValue(p, k)) => \E x : inValue = {x}
    <2>1. inValue = {<<"value", k>> : k \in {k \in Keys : OfValue(p, k)}}
      BY ReplacingBehind DEF OfValue, FileInv
    <2>2. ASSUME NEW k \in Keys, OfValue(p, k) PROVE {j \in Keys : OfValue(p, j)} = {k}
      BY <1>2, <2>2 DEF OneHome
    <2>3. ASSUME NEW k \in Keys, OfValue(p, k) PROVE inValue = {<<"value", k>>}
      BY <2>1, <2>2, <2>3
    <2> QED
      BY <2>1, <2>3
  <1> HIDE DEF inFree, inHand, inDrop, inKey, inValue
  <1>9. \E x : Places(p) = {x}
    <2>1. CASE IsFree(p)
      <3>1. inHand = {} /\ inDrop = {} /\ inKey = {} /\ inValue = {}
        BY <1>2, <1>5, <1>6, <1>7, <1>8, <2>1 DEF OneHome
      <3> QED
        BY <1>1, <1>4, <2>1, <3>1
    <2>2. CASE \E t \in Threads, i \in Nat : InHand(p, t, i)
      <3>1. inFree = {} /\ inDrop = {} /\ inKey = {} /\ inValue = {}
        BY <1>2, <1>4, <1>6, <1>7, <1>8, <2>2 DEF OneHome
      <3> QED
        BY <1>1, <1>5, <2>2, <3>1
    <2>3. CASE \E t \in Threads, i \in Nat : ToDrop(p, t, i)
      <3>1. inFree = {} /\ inHand = {} /\ inKey = {} /\ inValue = {}
        BY <1>2, <1>4, <1>5, <1>7, <1>8, <2>3 DEF OneHome
      <3> QED
        BY <1>1, <1>6, <2>3, <3>1
    <2>4. CASE \E k \in Keys : OfKey(p, k)
      <3>1. inFree = {} /\ inHand = {} /\ inDrop = {} /\ inValue = {}
        BY <1>2, <1>4, <1>5, <1>6, <1>8, <2>4 DEF OneHome
      <3> QED
        BY <1>1, <1>7, <2>4, <3>1
    <2>5. CASE \E k \in Keys : OfValue(p, k)
      <3>1. inFree = {} /\ inHand = {} /\ inDrop = {} /\ inKey = {}
        BY <1>2, <1>4, <1>5, <1>6, <1>7, <2>5 DEF OneHome
      <3> QED
        BY <1>1, <1>8, <2>5, <3>1
    <2> QED
      BY <1>2, <2>1, <2>2, <2>3, <2>4, <2>5 DEF InFile
  <1> QED
    BY <1>9, FS_Singleton

-----------------------------------------------------------------------------
\* Readers

\* What a Get reads is the value of the listed element of its key, and no Replace
\* is putting that value back.
LEMMA ReadingAt ==
    ASSUME FileInv, NEW t \in Threads, pc[t] = "pages"
    PROVE  /\ elem[t] \in Elements /\ valOf[elem[t]] \in Chains
           /\ listed[key[t]] = elem[t] /\ ~Behind(key[t]) /\ listed[key[t]] # NoElement
  <1>1. /\ elem[t] \in Elements \cup {NoElement} /\ key[t] \in Keys
        /\ valOf \in [Elements -> Chains] /\ StepOf(t) /\ Borrows(t)
    BY StepInvOf DEF FileInv, TypeInv, TypeOK, Borrows
  <1>2. elem[t] \in Elements /\ listed[key[t]] = elem[t] /\ elem[t] # NoElement
    BY <1>1 DEF StepOf, FileInv, ElementsConserved
  <1>3. ckiW[Coll[key[t]]] = NoThread
    <2>1. t \in ckiR[Coll[key[t]]] /\ Coll[key[t]] \in CKIndexes
      BY <1>1, PagesAssumption DEF FileInv, LockInv
    <2> QED
      BY <2>1 DEF FileInv, LockInv
  <1>4. ~Behind(key[t])
    BY <1>3, BehindLocks DEF FileInv
  <1> QED
    BY <1>1, <1>2, <1>4

\* Nobody changes the value, or the pages of the value, that a Get is reading.
LEMMA ReadersUndisturbed ==
    ASSUME FileInv, NEW t \in Threads, pc[t] = "pages", [Next]_vars
    PROVE  /\ elem[t] \in Elements /\ valOf[elem[t]] \in Chains
           /\ listed[key[t]] = elem[t] /\ ~Behind(key[t]) /\ listed[key[t]] # NoElement
           /\ valOf'[elem[t]] = valOf[elem[t]]
           /\ \A q \in ToSet(valOf[elem[t]]) : data'[q] = data[q]
  <1>1. /\ elem[t] \in Elements \cup {NoElement} /\ key[t] \in Keys
        /\ valOf \in [Elements -> Chains] /\ data \in [1 .. MaxPages -> Parts]
        /\ StepOf(t) /\ Borrows(t)
    BY StepInvOf DEF FileInv, TypeInv, TypeOK, Borrows
  <1>2. elem[t] \in Elements /\ listed[key[t]] = elem[t] /\ elem[t] # NoElement
    BY <1>1 DEF StepOf, FileInv, ElementsConserved
  <1>3. ckiW[Coll[key[t]]] = NoThread
    <2>1. t \in ckiR[Coll[key[t]]] /\ Coll[key[t]] \in CKIndexes
      BY <1>1, PagesAssumption DEF FileInv, LockInv
    <2> QED
      BY <2>1 DEF FileInv, LockInv
  <1>4. ~Behind(key[t])
    BY <1>3, BehindLocks DEF FileInv
  <1>5. valOf[elem[t]] \in Chains
    BY <1>1, <1>2
  <1>6. \A q \in ToSet(valOf[elem[t]]) : q \in 1 .. MaxPages /\ OfValue(q, key[t])
    BY <1>2, <1>4, <1>5, MemberFacts DEF Chains, OfValue
  <1>7. \A q \in ToSet(valOf[elem[t]]) : ~IsFree(q) /\ \A u \in Threads : ~ToDrop(q, u, 1)
    BY <1>1, <1>6 DEF FileInv, PagesApart, OneHome
  <1>8. ASSUME NEW u \in Threads, Owns(u) PROVE elem[u] # elem[t]
    BY <1>1, <1>2, <1>8 DEF FileInv, ElementsConserved
  <1>9. ASSUME NEW u \in Threads, InsertElement(u) \/ PutBackElement(u)
        PROVE  valOf'[elem[t]] = valOf[elem[t]]
    <2>1. elem[u] # elem[t]
      BY <1>8, <1>9 DEF InsertElement, PutBackElement, Owns
    <2> QED
      BY <1>1, <1>2, <1>9, <2>1 DEF InsertElement, PutBackElement
  <1>10. ASSUME NEW u \in Threads, SetValuePointer(u)
         PROVE  valOf'[elem[t]] = valOf[elem[t]]
    <2>1. elem[u] = listed[key[u]] /\ ckiW[Coll[key[u]]] = u /\ key[u] \in Keys
      BY <1>10 DEF SetValuePointer, FileInv, ElementsConserved, LockInv, Borrows, TypeInv, TypeOK
    <2>2. elem[u] # elem[t]
      BY <1>1, <1>2, <1>3, <2>1, PagesAssumption DEF FileInv, ElementsConserved
    <2> QED
      BY <1>1, <1>2, <1>10, <2>2 DEF SetValuePointer
  <1>11. ASSUME NEW u \in Threads, ReservePages(u)
         PROVE  \A q \in ToSet(valOf[elem[t]]) : data'[q] = data[q]
    <2> DEFINE chain == SubSeq(free, 1, Need[Piece(u)])
    <2>1. data' = Written(chain, Piece(u)) /\ ToSet(free) = ToSet(chain) \cup ToSet(free')
      BY <1>11, ReservedChain
    <2> HIDE DEF chain
    <2>2. \A q \in 1 .. MaxPages : q \notin ToSet(chain) => data'[q] = data[q]
      <3>1. ASSUME NEW q \in 1 .. MaxPages, q \notin ToSet(chain) PROVE data'[q] = data[q]
        <4>1. {i \in DOMAIN chain : chain[i] = q} = {}
          BY <3>1 DEF ToSet
        <4> QED
          BY <1>1, <2>1, <4>1 DEF Written
      <3> QED
        BY <3>1
    <2> QED
      BY <1>6, <1>7, <2>1, <2>2 DEF IsFree
  <1>12. ASSUME NEW u \in Threads, PutBackPages(u)
         PROVE  \A q \in ToSet(valOf[elem[t]]) : data'[q] = data[q]
    <2> DEFINE chain == Head(drop[u])
    <2>1. /\ chain = drop[u][1] /\ Len(drop[u]) \in Nat \ {0} /\ DOMAIN drop[u] = 1 .. Len(drop[u])
          /\ data' = [p \in DOMAIN data |-> IF p \in ToSet(chain) THEN <<>> ELSE data[p]]
      BY <1>12, ReturnedChain DEF FileInv
    <2> HIDE DEF chain
    <2>2. \A q \in ToSet(valOf[elem[t]]) : q \notin ToSet(chain)
      BY <1>7, <2>1 DEF ToDrop
    <2> QED
      BY <1>1, <1>6, <2>1, <2>2
  <1>13. valOf'[elem[t]] = valOf[elem[t]]
    <2>1. ASSUME UNCHANGED vars PROVE UNCHANGED valOf
      BY <2>1 DEF vars, tree
    <2>2. ASSUME NEW u \in Threads, NEW j \in {"get", "del", "set", "rep"},
                 NEW k \in Keys, NEW v \in Vals, Begin(u, j, k, v)
          PROVE  UNCHANGED valOf
      BY <2>2 DEF Begin, tree
    <2>3. ASSUME NEW u \in Threads, Step(u),
                 ~(InsertElement(u) \/ PutBackElement(u) \/ SetValuePointer(u))
          PROVE  UNCHANGED valOf
      BY <2>3 DEF Step, ExpandPageArea, ReservePages, ReservePagesFails, PutBackPages,
         ReserveElement, ReserveElementFails, TakeOff, RemoveNothing, LockToInsert, RetrySet,
         LockToReplace, ReplaceMissing, LockToRead, GetMissing, LoadPage, ReturnValue, tree
    <2> QED
      BY <1>9, <1>10, <2>1, <2>2, <2>3 DEF Next, Done
  <1>14. \A q \in ToSet(valOf[elem[t]]) : data'[q] = data[q]
    <2>1. ASSUME UNCHANGED vars PROVE UNCHANGED data
      BY <2>1 DEF vars, pageVars
    <2>2. ASSUME NEW u \in Threads, NEW j \in {"get", "del", "set", "rep"},
                 NEW k \in Keys, NEW v \in Vals, Begin(u, j, k, v)
          PROVE  UNCHANGED data
      BY <2>2 DEF Begin, pageVars
    <2>3. ASSUME NEW u \in Threads, Step(u), ~(ReservePages(u) \/ PutBackPages(u))
          PROVE  UNCHANGED data
      BY <2>3 DEF Step, ExpandPageArea, ReservePagesFails, ReserveElement, ReserveElementFails,
         PutBackElement, TakeOff, RemoveNothing, LockToInsert, RetrySet, InsertElement,
         LockToReplace, ReplaceMissing, SetValuePointer, LockToRead, GetMissing, LoadPage,
         ReturnValue, pageVars
    <2> QED
      BY <1>11, <1>12, <2>1, <2>2, <2>3 DEF Next, Done
  <1> QED
    BY <1>2, <1>4, <1>5, <1>13, <1>14

\* What NoTornRead says of one thread.
ReadOf(t) ==
    /\ res[t] # Torn
    /\ pc[t] = "pages" =>
         /\ Len(got[t]) <= Len(valOf[elem[t]])
         /\ \A i \in DOMAIN got[t] : got[t][i] = data[valOf[elem[t]][i]]

LEMMA ReadInvOf == NoTornRead <=> \A t \in Threads : ReadOf(t)
  BY DEF NoTornRead, NotTorn, StillThere, ReadOf

\* What is only about the thread's own Get.
OwnRead(t) ==
    \A u \in Threads : u # t =>
        pc'[u] = pc[u] /\ elem'[u] = elem[u] /\ got'[u] = got[u] /\ res'[u] = res[u]

\* A Get that does not go on itself is not disturbed.
LEMMA ReadKept ==
    ASSUME FileInv, NoTornRead, [Next]_vars, NEW t \in Threads,
           pc'[t] = pc[t], elem'[t] = elem[t], got'[t] = got[t], res'[t] = res[t]
    PROVE  ReadOf(t)'
  <1>1. ReadOf(t)
    BY ReadInvOf
  <1>2. CASE pc[t] # "pages"
    BY <1>1, <1>2 DEF ReadOf
  <1>3. CASE pc[t] = "pages"
    <2>1. /\ valOf[elem[t]] \in Seq(1 .. MaxPages)
          /\ valOf'[elem[t]] = valOf[elem[t]]
          /\ \A q \in ToSet(valOf[elem[t]]) : data'[q] = data[q]
      BY <1>3, ReadersUndisturbed DEF Chains
    <2>2. got[t] \in Seq(Parts)
      BY DEF FileInv, TypeInv, TypeOK
    <2>3. \A i \in DOMAIN got[t] : i \in 1 .. Len(valOf[elem[t]])
      <3>1. Len(got[t]) \in Nat /\ DOMAIN got[t] = 1 .. Len(got[t]) /\ Len(valOf[elem[t]]) \in Nat
        BY <2>1, <2>2, LenProperties
      <3> QED
        BY <1>1, <1>3, <3>1 DEF ReadOf
    <2>4. \A i \in DOMAIN got[t] : valOf[elem[t]][i] \in ToSet(valOf[elem[t]])
      BY <2>1, <2>3, MemberFacts
    <2> QED
      BY <1>1, <1>3, <2>1, <2>4 DEF ReadOf
  <1> QED
    BY <1>2, <1>3

\* A step that does not lead to the reading of pages has nothing to keep.
LEMMA ReadElsewhere ==
    ASSUME NoTornRead, NEW t \in Threads, pc'[t] # "pages", res'[t] = res[t] \/ res'[t] # Torn
    PROVE  ReadOf(t)'
  BY ReadInvOf DEF ReadOf

LEMMA LockToReadRead ==
    ASSUME FileInv, NoTornRead, NEW t \in Threads, LockToRead(t)
    PROVE  ReadOf(t)' /\ OwnRead(t)
  <1>1. /\ pc \in [Threads -> Steps] /\ got \in [Threads -> Seq(Parts)]
        /\ elem \in [Threads -> Elements \cup {NoElement}] /\ valOf \in [Elements -> Chains]
        /\ listed \in [Keys -> Elements \cup {NoElement}] /\ key[t] \in Keys
    BY DEF FileInv, TypeInv, TypeOK
  <1>2. /\ got'[t] = <<>> /\ elem'[t] = listed[key[t]] /\ UNCHANGED <<valOf, res>>
        /\ listed[key[t]] # NoElement
    BY <1>1 DEF LockToRead, tree
  <1>3. valOf[listed[key[t]]] \in Seq(1 .. MaxPages)
    BY <1>1, <1>2 DEF Chains
  <1>4. Len(valOf[listed[key[t]]]) \in Nat
    BY <1>3
  <1>5. ReadOf(t)'
    BY <1>2, <1>4, ReadInvOf DEF ReadOf
  <1>6. OwnRead(t)
    BY <1>1, <1>2 DEF LockToRead, Goto, OwnRead
  <1> QED
    BY <1>5, <1>6

LEMMA LoadPageRead ==
    ASSUME FileInv, NoTornRead, NEW t \in Threads, LoadPage(t)
    PROVE  ReadOf(t)' /\ OwnRead(t)
  <1> DEFINE chain == valOf[elem[t]]
             page == data[chain[Len(got[t]) + 1]]
  <1>1. /\ got \in [Threads -> Seq(Parts)] /\ pc[t] = "pages"
        /\ UNCHANGED <<pc, elem, res, data, valOf>>
        /\ got' = [got EXCEPT ![t] = Append(@, page)]
        /\ Len(got[t]) < Len(chain)
    BY DEF FileInv, TypeInv, TypeOK, LoadPage, pageVars, tree
  <1>2. got'[t] = Append(got[t], page) /\ got[t] \in Seq(Parts)
    BY <1>1
  <1>3. chain \in Seq(1 .. MaxPages)
    BY <1>1, ReadingAt DEF Chains
  <1>4. ReadOf(t)
    BY ReadInvOf
  <1>5. Len(got'[t]) <= Len(chain)
    BY <1>1, <1>2, <1>3
  <1>6. ASSUME NEW i \in DOMAIN got'[t] PROVE got'[t][i] = data[chain[i]]
    <2>1. i \in 1 .. Len(got[t]) \/ i = Len(got[t]) + 1
      BY <1>2, <1>6
    <2>2. CASE i \in 1 .. Len(got[t])
      <3>1. got'[t][i] = got[t][i] /\ i \in DOMAIN got[t]
        BY <1>2, <2>2
      <3> QED
        BY <1>1, <1>4, <3>1 DEF ReadOf
    <2>3. CASE i = Len(got[t]) + 1
      BY <1>2, <2>3
    <2> QED
      BY <2>1, <2>2, <2>3
  <1>7. ReadOf(t)'
    BY <1>1, <1>4, <1>5, <1>6 DEF ReadOf
  <1>8. OwnRead(t)
    BY <1>1 DEF OwnRead
  <1> QED
    BY <1>7, <1>8

\* All pages of a value have been read, and nobody has changed one: the bytes are
\* those of a value.
LEMMA ReturnValueRead ==
    ASSUME FileInv, ChainsWhole, NoTornRead, NEW t \in Threads, ReturnValue(t)
    PROVE  ReadOf(t)' /\ OwnRead(t)
  <1> DEFINE chain == valOf[elem[t]]
             same(v) == got[t] = Bytes(v)
  <1>1. /\ got \in [Threads -> Seq(Parts)] /\ res \in [Threads -> Vals \cup {Missing, Torn}]
        /\ elem \in [Threads -> Elements \cup {NoElement}] /\ pc \in [Threads -> Steps]
        /\ pc[t] = "pages" /\ pc' = [pc EXCEPT ![t] = "idle"]
        /\ res' = [res EXCEPT ![t] = IF \E v \in Vals : same(v)
                                       THEN CHOOSE v \in Vals : same(v) ELSE Torn]
        /\ got' = [got EXCEPT ![t] = <<>>] /\ elem' = [elem EXCEPT ![t] = NoElement]
        /\ Len(got[t]) >= Len(chain)
    BY DEF FileInv, TypeInv, TypeOK, ReturnValue, Goto
  <1>2. /\ chain \in Seq(1 .. MaxPages) /\ listed[key[t]] = elem[t]
        /\ ~Behind(key[t]) /\ listed[key[t]] # NoElement /\ key[t] \in Keys
    BY <1>1, ReadingAt DEF Chains, FileInv, TypeInv, TypeOK
  <1>3. ReadOf(t) /\ got[t] \in Seq(Parts)
    BY <1>1, ReadInvOf
  <1>4. Len(got[t]) = Len(chain)
    BY <1>1, <1>2, <1>3 DEF ReadOf
  <1>5. \E v \in Vals : same(v)
    <2>1. PICK v \in Vals : Whole(data, chain, v)
      BY <1>2 DEF ChainsWhole
    <2>2. [i \in DOMAIN chain |-> data[chain[i]]] = Bytes(v)
      BY <2>1 DEF Whole
    <2>3. DOMAIN got[t] = DOMAIN chain
      BY <1>2, <1>3, <1>4
    <2>4. \A i \in DOMAIN chain : got[t][i] = data[chain[i]]
      BY <1>1, <1>3, <2>3 DEF ReadOf
    <2>5. got[t] = [i \in DOMAIN chain |-> data[chain[i]]]
      BY <1>3, <2>3, <2>4
    <2> QED
      BY <2>2, <2>5
  <1> HIDE DEF same
  <1>6. res'[t] \in Vals
    BY <1>1, <1>5
  <1>7. ReadOf(t)'
    BY <1>1, <1>6, PagesAssumption DEF ReadOf
  <1>8. OwnRead(t)
    BY <1>1 DEF OwnRead
  <1> QED
    BY <1>7, <1>8

LEMMA GetMissingRead ==
    ASSUME FileInv, NoTornRead, NEW t \in Threads, GetMissing(t)
    PROVE  ReadOf(t)' /\ OwnRead(t)
  <1>1. /\ pc \in [Threads -> Steps] /\ res \in [Threads -> Vals \cup {Missing, Torn}]
    BY DEF FileInv, TypeInv, TypeOK
  <1>2. pc'[t] = "idle" /\ res'[t] = Missing
    BY <1>1 DEF GetMissing, Goto
  <1>3. OwnRead(t)
    BY <1>1 DEF GetMissing, Goto, OwnRead
  <1> QED
    BY <1>2, <1>3, PagesAssumption DEF ReadOf

\* No other step is a step of a Get that reads.
LEMMA OtherRead ==
    ASSUME FileInv, NoTornRead, NEW t \in Threads, Step(t),
           ~(LockToRead(t) \/ LoadPage(t) \/ ReturnValue(t) \/ GetMissing(t))
    PROVE  ReadOf(t)' /\ OwnRead(t)
  <1>1. pc \in [Threads -> Steps] /\ elem \in [Threads -> Elements \cup {NoElement}]
    BY DEF FileInv, TypeInv, TypeOK
  <1>2. /\ UNCHANGED <<got, res>> /\ pc'[t] # "pages"
        /\ \A u \in Threads : u # t => pc'[u] = pc[u] /\ elem'[u] = elem[u]
    <2>1. CASE \/ ExpandPageArea(t) \/ ReservePages(t) \/ ReservePagesFails(t) \/ PutBackPages(t)
      BY <1>1, <2>1 DEF ExpandPageArea, ReservePages, ReservePagesFails, PutBackPages, Goto, frame
    <2>2. CASE \/ ReserveElement(t) \/ ReserveElementFails(t) \/ PutBackElement(t)
      BY <1>1, <2>2 DEF ReserveElement, ReserveElementFails, PutBackElement, Goto, frame
    <2>3. CASE \/ TakeOff(t) \/ RemoveNothing(t) \/ LockToInsert(t) \/ RetrySet(t) \/ InsertElement(t)
      BY <1>1, <2>3 DEF TakeOff, RemoveNothing, LockToInsert, RetrySet, InsertElement, Goto, frame
    <2>4. CASE LockToReplace(t) \/ ReplaceMissing(t) \/ SetValuePointer(t)
      BY <1>1, <2>4 DEF LockToReplace, ReplaceMissing, SetValuePointer, Goto, frame
    <2> QED
      BY <2>1, <2>2, <2>3, <2>4 DEF Step
  <1>3. ReadOf(t)'
    BY <1>2, ReadElsewhere
  <1> QED
    BY <1>2, <1>3 DEF OwnRead

LEMMA NextRead == FileInv /\ ChainsWhole /\ NoTornRead /\ [Next]_vars => NoTornRead'
  <1> SUFFICES ASSUME FileInv, ChainsWhole, NoTornRead, [Next]_vars PROVE NoTornRead'
    OBVIOUS
  <1>1. ASSUME NEW t \in Threads, OwnRead(t), ReadOf(t)' PROVE \A u \in Threads : ReadOf(u)'
    BY <1>1, ReadKept DEF OwnRead
  <1>2. ASSUME UNCHANGED vars PROVE \A u \in Threads : ReadOf(u)'
    BY <1>2, ReadKept DEF vars, frame
  <1>3. ASSUME NEW t \in Threads, NEW j \in {"get", "del", "set", "rep"},
               NEW k \in Keys, NEW v \in Vals, Begin(t, j, k, v)
        PROVE  \A u \in Threads : ReadOf(u)'
    <2>1. pc \in [Threads -> Steps]
      BY DEF FileInv, TypeInv, TypeOK
    <2>2. pc'[t] # "pages" /\ UNCHANGED <<elem, got, res>>
      BY <1>3, <2>1 DEF Begin, Goto
    <2>3. OwnRead(t)
      BY <1>3, <2>1, <2>2 DEF Begin, Goto, OwnRead
    <2>4. ReadOf(t)'
      BY <2>2, ReadElsewhere
    <2> QED
      BY <1>1, <2>3, <2>4
  <1>4. ASSUME NEW t \in Threads, Step(t) PROVE \A u \in Threads : ReadOf(u)'
    <2>1. ReadOf(t)' /\ OwnRead(t)
      BY <1>4, LockToReadRead, LoadPageRead, ReturnValueRead, GetMissingRead, OtherRead
    <2> QED
      BY <1>1, <2>1
  <1>5. \A u \in Threads : ReadOf(u)'
    BY <1>2, <1>3, <1>4 DEF Next, Done
  <1> QED
    BY <1>5 DEF NoTornRead, NotTorn, StillThere, ReadOf

-----------------------------------------------------------------------------
\* The theorems

\* The inductive invariant.
PagesInv == FileInv /\ ChainsWhole /\ NoTornRead

LEMMA InitInv == Init => PagesInv
  <1> SUFFICES ASSUME Init PROVE PagesInv
    OBVIOUS
  <1>1. TypeInv /\ LockInv /\ ElementsConserved /\ PagesApart /\ ChainsWhole
    BY InitType, InitLocks, InitElements, InitPages, InitWhole
  <1>2. NoTornRead
    BY PagesAssumption DEF Init, NoTornRead, NotTorn, StillThere
  <1> QED
    BY <1>1, <1>2 DEF PagesInv, FileInv

LEMMA NextInv == PagesInv /\ [Next]_vars => PagesInv'
  <1> SUFFICES ASSUME PagesInv, [Next]_vars PROVE PagesInv'
    OBVIOUS
  <1>1. FileInv /\ ChainsWhole /\ NoTornRead
    BY DEF PagesInv
  <1>2. TypeInv /\ LockInv /\ ElementsConserved /\ PagesApart
    BY <1>1 DEF FileInv
  <1>3. ChainInv
    BY <1>1, <1>2, WholeParts
  <1>4. TypeInv' /\ LockInv' /\ ElementsConserved'
    BY <1>2, NextType, NextLocks, NextElements
  <1>5. PagesApart' /\ ChainsWhole' /\ NoTornRead'
    BY <1>1, <1>3, NextPages, NextWhole, NextRead
  <1> QED
    BY <1>4, <1>5 DEF PagesInv, FileInv

LEMMA AlwaysInv == Spec => []PagesInv
  BY InitInv, NextInv, PTL DEF Spec

\* Every variable stays of its type: no list is cut beyond its end, no index
\* leaves its list, and a thread works only on elements there are.
THEOREM TypeCorrect == Spec => []TypeOK
  <1>1. PagesInv => TypeOK
    BY DEF PagesInv, FileInv, TypeInv
  <1> QED
    BY <1>1, AlwaysInv, PTL

\* ReservePages cuts off as many pages as free_page_count promises without
\* looking for the end of the list: the list is never shorter.
THEOREM PromisedPages == Spec => []PromisedPagesExist
  <1>1. PagesInv => PromisedPagesExist
    BY DEF PagesInv, FileInv, TypeInv
  <1> QED
    BY <1>1, AlwaysInv, PTL

\* Whatever threads reserve, put back, insert, take off and replace at once, and
\* after every call that ran out of room, each page and each element of the file
\* is in exactly one place.
THEOREM FileIsConserved == Spec => []FileConserved
  <1>1. PagesInv => FileConserved
    <2> SUFFICES ASSUME PagesInv PROVE FileConserved
      OBVIOUS
    <2>1. FileInv /\ ChainInv /\ ElementsConserved /\ StepInv /\ LockInv
      BY WholeParts DEF PagesInv, FileInv, TypeInv
    <2>2. PagesConserved
      BY <2>1, OnePlace DEF PagesConserved
    <2> QED
      BY <2>1, <2>2 DEF FileConserved
  <1> QED
    BY <1>1, AlwaysInv, PTL

\* A key that no writer has locked has an element that holds this key and one
\* whole value: SetData fills the pages before they are put into an element, and
\* Replace keeps the lock while the element points at pages it has put back.
THEOREM StoredIsWhole == Spec => []StoredWhole
  <1>1. PagesInv => StoredWhole
    <2> SUFFICES ASSUME PagesInv PROVE StoredWhole
      OBVIOUS
    <2>1. FileInv /\ ChainsWhole /\ WrittenFirst /\ LockInv
      BY WholeParts DEF PagesInv, FileInv
    <2>2. ASSUME NEW k \in Keys, listed[k] # NoElement, ckiW[Coll[k]] = NoThread
          PROVE  Holds(keyOf[listed[k]], k) /\ \E v \in Vals : Holds(valOf[listed[k]], v)
      <3>1. ~Behind(k)
        BY <2>1, <2>2, PagesAssumption DEF Behind, LockInv
      <3>2. Whole(data, keyOf[listed[k]], k) /\ \E v \in Vals : Whole(data, valOf[listed[k]], v)
        BY <2>1, <2>2, <3>1 DEF ChainsWhole
      <3> QED
        BY <3>2 DEF Whole, Holds
    <2>3. ListedWhole
      BY <2>2 DEF ListedWhole
    <2> QED
      BY <2>1, <2>3 DEF StoredWhole
  <1> QED
    BY <1>1, AlwaysInv, PTL

\* A Get never returns bytes of two values, nor of pages that were put back
\* while it was reading: its reading lock keeps Replace and removal away.
THEOREM NoReadIsTorn == Spec => []NoTornRead
  <1>1. PagesInv => NoTornRead
    BY DEF PagesInv
  <1> QED
    BY <1>1, AlwaysInv, PTL

=============================================================================
