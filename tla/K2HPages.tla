------------------------------ MODULE K2HPages ------------------------------
(***************************************************************************)
(* Where the bytes of an element live (src/lib/k2hshm.cc): elements come    *)
(* from a list of free elements, and the key and the value of an element    *)
(* are chains of pages that come from a list of free pages.  Each list has  *)
(* a lock and a count of its own; both are extended, at the end of the      *)
(* file, when they run out.  An element is reached through its CKINDEX,     *)
(* whose lock protects its pointers, but pages and elements are reserved    *)
(* and put back by threads that hold different CKINDEX locks or none.       *)
(*                                                                          *)
(* One action is one critical section of the lock it names; what a thread   *)
(* does with pages that only it can reach goes with the step before it.     *)
(* Subkeys and attributes are two more chains of the same kind and are left  *)
(* out.  Which KINDEX a key is under is the subject of K2HKeyIndex.         *)
(***************************************************************************)
EXTENDS Integers, Sequences, FiniteSets, SequencesExt

CONSTANTS
    Threads,        \* threads (of any process) attached to the same k2hash
    NoThread,       \* not a thread: owner of a free lock
    Keys,
    Vals,
    NoElement,      \* NULL
    Missing,        \* what a Get of an absent key returns
    Torn,           \* what a Get returns whose bytes are not those of a value
    CKIndexes,
    Coll,           \* Coll[k]: the CKINDEX of key k
    Need,           \* Need[x]: how many pages the bytes of key or value x take
    PageArea,       \* pages that ExpandPageArea adds
    ElementArea,    \* elements that ExpandElementArea adds
    MaxPages,       \* what the device has room for: beyond it ExpandArea fails
    MaxElements,
    MaxCalls        \* bound on the number of calls, shared by the threads

ASSUME PagesAssumption ==
    /\ NoThread \notin Threads
    /\ Keys # {} /\ Vals # {} /\ Keys \cap Vals = {}
    /\ Missing \notin Vals /\ Torn \notin Vals /\ Missing # Torn
    /\ Coll \in [Keys -> CKIndexes]
    /\ Need \in [Keys \cup Vals -> Nat \ {0}]
    /\ PageArea \in Nat \ {0} /\ MaxPages \in Nat /\ PageArea <= MaxPages
    /\ ElementArea \in Nat \ {0} /\ MaxElements \in Nat /\ ElementArea <= MaxElements
    /\ NoElement \notin 1 .. MaxElements
    /\ MaxCalls \in Nat

VARIABLES
    pages,      \* pages made so far: the page areas of the file hold 1 .. pages
    free,       \* the chain that starts at pfree_pages
    freeCount,  \* free_page_count
    fpcW,       \* the thread that keeps the lock on free_page_count
    data,       \* data[p]: what page p holds; <<>> when its length is 0
    elements,   \* elements made so far
    freeElems,  \* the chain that starts at pfree_elements
    elemCount,  \* free_element_count
    keyOf,      \* keyOf[e]: the chain of pages that e->key starts
    valOf,      \* valOf[e]: the chain of pages that e->value starts
    listed,     \* listed[k]: the element of key k in its CKINDEX
    ckiR,       \* ckiR[c]: the threads holding CKINDEX c for reading
    ckiW,       \* ckiW[c]: the thread holding it for writing
    pc,         \* where each thread is
    job,        \* the call it is in
    key,        \* the key of its call
    val,        \* the value of its call
    elem,       \* the element it works on
    hand,       \* the chains it has reserved and not yet put into an element
    drop,       \* the chains it has still to put back
    got,        \* what its Get has read so far
    res,        \* the result of its last Get
    calls       \* calls begun so far

pageVars == <<pages, free, freeCount, fpcW, data>>
elemVars == <<elements, freeElems, elemCount>>
tree     == <<keyOf, valOf, listed>>
frame    == <<job, key, val, elem, hand, drop, got, res>>
vars     == <<pageVars, elemVars, tree, ckiR, ckiW, frame, pc, calls>>

-----------------------------------------------------------------------------

\* The bytes of a key or value, cut into pages.
Bytes(x) == [i \in 1 .. Need[x] |-> <<x, i>>]

Parts == {<<>>} \cup ((Keys \cup Vals) \X Nat)
Chains == Seq(1 .. MaxPages)
Elements == 1 .. MaxElements

Steps == {"idle", "read", "pages", "remove", "free", "putback", "lock",
          "alloc", "reserve", "insert", "replace", "point"}

TypeOK ==
    /\ pages \in 0 .. MaxPages
    /\ free \in Chains
    /\ freeCount \in Nat
    /\ fpcW \in Threads \cup {NoThread}
    /\ data \in [1 .. MaxPages -> Parts]
    /\ elements \in 0 .. MaxElements
    /\ freeElems \in Seq(Elements)
    /\ elemCount \in Nat
    /\ keyOf \in [Elements -> Chains]
    /\ valOf \in [Elements -> Chains]
    /\ listed \in [Keys -> Elements \cup {NoElement}]
    /\ ckiR \in [CKIndexes -> SUBSET Threads]
    /\ ckiW \in [CKIndexes -> Threads \cup {NoThread}]
    /\ pc \in [Threads -> Steps]
    /\ job \in [Threads -> {"get", "del", "set", "rep"}]
    /\ key \in [Threads -> Keys]
    /\ val \in [Threads -> Vals]
    /\ elem \in [Threads -> Elements \cup {NoElement}]
    /\ hand \in [Threads -> Seq(Chains)]
    /\ drop \in [Threads -> Seq(Chains)]
    /\ got \in [Threads -> Seq(Parts)]
    /\ res \in [Threads -> Vals \cup {Missing, Torn}]
    /\ calls \in 0 .. MaxCalls

\* The first area of each kind is in the free lists when the file is made.
Init ==
    /\ pages = PageArea
    /\ free = [i \in 1 .. PageArea |-> i]
    /\ freeCount = PageArea
    /\ fpcW = NoThread
    /\ data = [p \in 1 .. MaxPages |-> <<>>]
    /\ elements = ElementArea
    /\ freeElems = [i \in 1 .. ElementArea |-> i]
    /\ elemCount = ElementArea
    /\ keyOf = [e \in Elements |-> <<>>]
    /\ valOf = [e \in Elements |-> <<>>]
    /\ listed = [k \in Keys |-> NoElement]
    /\ ckiR = [c \in CKIndexes |-> {}]
    /\ ckiW = [c \in CKIndexes |-> NoThread]
    /\ pc = [t \in Threads |-> "idle"]
    /\ job = [t \in Threads |-> "get"]
    /\ key = [t \in Threads |-> CHOOSE k \in Keys : TRUE]
    /\ val = [t \in Threads |-> CHOOSE v \in Vals : TRUE]
    /\ elem = [t \in Threads |-> NoElement]
    /\ hand = [t \in Threads |-> <<>>]
    /\ drop = [t \in Threads |-> <<>>]
    /\ got = [t \in Threads |-> <<>>]
    /\ res = [t \in Threads |-> Missing]
    /\ calls = 0

Goto(t, step) == pc' = [pc EXCEPT ![t] = step]

\* The lock of the CKINDEX of the thread's key.
WriteLockable(t) == ckiR[Coll[key[t]]] = {} /\ ckiW[Coll[key[t]]] = NoThread
LockToWrite(t) == WriteLockable(t) /\ ckiW' = [ckiW EXCEPT ![Coll[key[t]]] = t]
Unlock(t) == ckiW' = [ckiW EXCEPT ![Coll[key[t]]] = NoThread]

Begin(t, j, k, v) ==
    /\ pc[t] = "idle"
    /\ calls < MaxCalls
    /\ calls' = calls + 1
    /\ job' = [job EXCEPT ![t] = j]
    /\ key' = [key EXCEPT ![t] = k]
    /\ val' = [val EXCEPT ![t] = v]
    /\ Goto(t, CASE j = "get" -> "read"
                 [] j = "rep" -> "replace"
                 [] OTHER -> "remove")
    /\ UNCHANGED <<pageVars, elemVars, tree, ckiR, ckiW, elem, hand, drop, got, res>>

-----------------------------------------------------------------------------
\* The list of free pages, under the lock on free_page_count

FreePagesLockable(t) == fpcW \in {NoThread, t}

\* What the thread reserves pages for, in this order: the key and the value of
\* a new element, or the new value of an old one.
Pieces(t) == IF job[t] = "set" THEN <<key[t], val[t]>> ELSE <<val[t]>>
Piece(t) == Pieces(t)[Len(hand[t]) + 1]
LastPiece(t) == Len(hand[t]) + 1 = Len(Pieces(t))

\* Mutant: only a device that is already full is noticed.
RoomForPages_Partial == pages < MaxPages

RoomForPages == pages + PageArea <= MaxPages

\* ReservePages finds the count too small: ExpandPageArea puts a new area
\* before the free pages.  The lock is kept for the next round.
ExpandPageArea(t) ==
    /\ pc[t] = "reserve"
    /\ FreePagesLockable(t)
    /\ freeCount < Need[Piece(t)]
    /\ RoomForPages
    /\ pages' = pages + PageArea
    /\ free' = [i \in 1 .. PageArea |-> pages + i] \o free
    /\ freeCount' = freeCount + PageArea
    /\ fpcW' = t
    /\ UNCHANGED <<data, elemVars, tree, ckiR, ckiW, frame, pc, calls>>

\* Mutant: the count is left as it was.
TakePages_NotCounted(n) ==
    /\ free' = SubSeq(free, n + 1, Len(free))
    /\ UNCHANGED freeCount

\* The first n pages leave the list.  When none is left the count is reset;
\* it may have promised fewer pages than there were.
TakePages(n) ==
    /\ free' = SubSeq(free, n + 1, Len(free))
    /\ freeCount' = IF Len(free) > n THEN freeCount - n ELSE 0

\* The pages after SetData has cut x over the chain.
Written(chain, x) ==
    [p \in DOMAIN data |->
        LET at == {i \in DOMAIN chain : chain[i] = p}
        IN  IF at = {} THEN data[p] ELSE Bytes(x)[CHOOSE i \in at : TRUE]]

\* ReservePages takes the pages, and SetData fills them.
ReservePages(t) ==
    LET chain == SubSeq(free, 1, Need[Piece(t)])
    IN  /\ pc[t] = "reserve"
        /\ FreePagesLockable(t)
        /\ freeCount >= Need[Piece(t)]
        /\ TakePages(Need[Piece(t)])
        /\ data' = Written(chain, Piece(t))
        /\ fpcW' = NoThread
        /\ hand' = [hand EXCEPT ![t] = Append(@, chain)]
        /\ Goto(t, IF ~LastPiece(t) THEN "reserve"
                   ELSE IF job[t] = "set" THEN "insert" ELSE "free")
        /\ drop' = [drop EXCEPT ![t] =
                      IF LastPiece(t) /\ job[t] = "rep" THEN <<valOf[elem[t]]>> ELSE @]
        /\ UNCHANGED <<pages, elemVars, tree, ckiR, ckiW, job, key, val, elem, got, res, calls>>

\* Mutant: the pages reserved before the failure are forgotten.
ReservePagesFails_Leaks(t) ==
    /\ pc[t] = "reserve"
    /\ FreePagesLockable(t)
    /\ freeCount < Need[Piece(t)]
    /\ ~RoomForPages
    /\ fpcW' = NoThread
    /\ hand' = [hand EXCEPT ![t] = <<>>]
    /\ IF job[t] = "set"
         THEN Goto(t, "putback") /\ UNCHANGED <<ckiW, elem>>
         ELSE /\ Goto(t, "idle")
              /\ Unlock(t)
              /\ elem' = [elem EXCEPT ![t] = NoElement]
    /\ UNCHANGED <<pages, free, freeCount, data, elemVars, tree, ckiR, job, key, val, drop, got, res, calls>>

\* ExpandPageArea fails.  AllocateElement puts back what it has reserved, pages
\* and then element; Replace has reserved nothing else and returns.
ReservePagesFails(t) ==
    /\ pc[t] = "reserve"
    /\ FreePagesLockable(t)
    /\ freeCount < Need[Piece(t)]
    /\ ~RoomForPages
    /\ fpcW' = NoThread
    /\ hand' = [hand EXCEPT ![t] = <<>>]
    /\ drop' = [drop EXCEPT ![t] = hand[t]]
    /\ IF job[t] = "set"
         THEN /\ Goto(t, IF hand[t] = <<>> THEN "putback" ELSE "free")
              /\ UNCHANGED <<ckiW, elem>>
         ELSE /\ Goto(t, "idle")
              /\ Unlock(t)
              /\ elem' = [elem EXCEPT ![t] = NoElement]
    /\ UNCHANGED <<pages, free, freeCount, data, elemVars, tree, ckiR, job, key, val, got, res, calls>>

\* Free clears the lengths of a chain of pages, and PutBackPages puts it before
\* the free pages.  The count is only raised when it is no smaller than the
\* number of pages that come back; otherwise it is reset.
PutBackPages(t) ==
    LET chain == Head(drop[t])
    IN  /\ pc[t] = "free"
        /\ fpcW = NoThread
        /\ free' = chain \o free
        /\ freeCount' = IF Len(chain) <= freeCount THEN freeCount + Len(chain) ELSE 0
        /\ data' = [p \in DOMAIN data |-> IF p \in ToSet(chain) THEN <<>> ELSE data[p]]
        /\ drop' = [drop EXCEPT ![t] = Tail(@)]
        /\ Goto(t, IF Len(drop[t]) > 1 THEN "free"
                   ELSE IF job[t] = "rep" THEN "point" ELSE "putback")
        /\ UNCHANGED <<pages, fpcW, elemVars, tree, ckiR, ckiW, job, key, val, elem, hand, got, res, calls>>

-----------------------------------------------------------------------------
\* The list of free elements, under the lock on free_element_count

\* ReserveElement: ExpandElementArea first, if the list is empty.
ReserveElement(t) ==
    /\ pc[t] = "alloc"
    /\ \/ /\ freeElems # <<>>
          /\ elem' = [elem EXCEPT ![t] = Head(freeElems)]
          /\ freeElems' = Tail(freeElems)
          /\ elemCount' = IF 0 < elemCount THEN elemCount - 1 ELSE 0
          /\ UNCHANGED elements
       \/ /\ freeElems = <<>>
          /\ elements + ElementArea <= MaxElements
          /\ elem' = [elem EXCEPT ![t] = elements + 1]
          /\ freeElems' = [i \in 1 .. ElementArea - 1 |-> elements + 1 + i]
          /\ elemCount' = elemCount + ElementArea - 1
          /\ elements' = elements + ElementArea
    /\ Goto(t, "reserve")
    /\ UNCHANGED <<pageVars, tree, ckiR, ckiW, job, key, val, hand, drop, got, res, calls>>

\* ExpandElementArea fails, and so does Set.
ReserveElementFails(t) ==
    /\ pc[t] = "alloc"
    /\ freeElems = <<>>
    /\ elements + ElementArea > MaxElements
    /\ Unlock(t)
    /\ Goto(t, "idle")
    /\ UNCHANGED <<pageVars, elemVars, tree, ckiR, frame, calls>>

\* PutBackElement, at the end of the removal, after which Set goes on, or of a
\* failed AllocateElement, after which Set returns and so unlocks its CKINDEX.
PutBackElement(t) ==
    /\ pc[t] = "putback"
    /\ freeElems' = <<elem[t]>> \o freeElems
    /\ elemCount' = elemCount + 1
    /\ keyOf' = [keyOf EXCEPT ![elem[t]] = <<>>]
    /\ valOf' = [valOf EXCEPT ![elem[t]] = <<>>]
    /\ elem' = [elem EXCEPT ![t] = NoElement]
    /\ IF ckiW[Coll[key[t]]] = t
         THEN Unlock(t) /\ Goto(t, "idle")
         ELSE Goto(t, IF job[t] = "set" THEN "lock" ELSE "idle") /\ UNCHANGED ckiW
    /\ UNCHANGED <<pageVars, elements, listed, ckiR, job, key, val, hand, drop, got, res, calls>>

-----------------------------------------------------------------------------
\* Set and Remove

\* RemoveEx finds the key and takes its element off under the lock of the
\* CKINDEX.  It puts the value, the key and the element back after unlocking.
TakeOff(t) ==
    /\ pc[t] = "remove"
    /\ WriteLockable(t)
    /\ listed[key[t]] # NoElement
    /\ listed' = [listed EXCEPT ![key[t]] = NoElement]
    /\ elem' = [elem EXCEPT ![t] = listed[key[t]]]
    /\ drop' = [drop EXCEPT ![t] = <<valOf[listed[key[t]]], keyOf[listed[key[t]]]>>]
    /\ Goto(t, "free")
    /\ UNCHANGED <<pageVars, elemVars, keyOf, valOf, ckiR, ckiW, job, key, val, hand, got, res, calls>>

RemoveNothing(t) ==
    /\ pc[t] = "remove"
    /\ WriteLockable(t)
    /\ listed[key[t]] = NoElement
    /\ Goto(t, IF job[t] = "set" THEN "lock" ELSE "idle")
    /\ UNCHANGED <<pageVars, elemVars, tree, ckiR, ckiW, frame, calls>>

\* Set locks its CKINDEX again, to keep it until it returns, and finds the key
\* still removed ...
LockToInsert(t) ==
    /\ pc[t] = "lock"
    /\ LockToWrite(t)
    /\ listed[key[t]] = NoElement
    /\ Goto(t, "alloc")
    /\ UNCHANGED <<pageVars, elemVars, tree, ckiR, frame, calls>>

\* ... or there again, and starts over.
RetrySet(t) ==
    /\ pc[t] = "lock"
    /\ WriteLockable(t)
    /\ listed[key[t]] # NoElement
    /\ Goto(t, "remove")
    /\ UNCHANGED <<pageVars, elemVars, tree, ckiR, ckiW, frame, calls>>

InsertElement(t) ==
    /\ pc[t] = "insert"
    /\ keyOf' = [keyOf EXCEPT ![elem[t]] = hand[t][1]]
    /\ valOf' = [valOf EXCEPT ![elem[t]] = hand[t][2]]
    /\ listed' = [listed EXCEPT ![key[t]] = elem[t]]
    /\ elem' = [elem EXCEPT ![t] = NoElement]
    /\ hand' = [hand EXCEPT ![t] = <<>>]
    /\ Unlock(t)
    /\ Goto(t, "idle")
    /\ UNCHANGED <<pageVars, elemVars, ckiR, job, key, val, drop, got, res, calls>>

-----------------------------------------------------------------------------
\* Replace

\* Mutant: the writing lock does not wait for the readers.
LockToReplace_PastReaders(t) ==
    /\ pc[t] = "replace"
    /\ ckiW[Coll[key[t]]] = NoThread
    /\ ckiW' = [ckiW EXCEPT ![Coll[key[t]]] = t]
    /\ listed[key[t]] # NoElement
    /\ elem' = [elem EXCEPT ![t] = listed[key[t]]]
    /\ Goto(t, "reserve")
    /\ UNCHANGED <<pageVars, elemVars, tree, ckiR, job, key, val, hand, drop, got, res, calls>>

\* Replace finds the key: it reserves pages for the new value, puts the old
\* ones back, and then points the element at the new ones.
LockToReplace(t) ==
    /\ pc[t] = "replace"
    /\ LockToWrite(t)
    /\ listed[key[t]] # NoElement
    /\ elem' = [elem EXCEPT ![t] = listed[key[t]]]
    /\ Goto(t, "reserve")
    /\ UNCHANGED <<pageVars, elemVars, tree, ckiR, job, key, val, hand, drop, got, res, calls>>

\* It does not find the key: it unlocks and calls Set.
ReplaceMissing(t) ==
    /\ pc[t] = "replace"
    /\ WriteLockable(t)
    /\ listed[key[t]] = NoElement
    /\ job' = [job EXCEPT ![t] = "set"]
    /\ Goto(t, "remove")
    /\ UNCHANGED <<pageVars, elemVars, tree, ckiR, ckiW, key, val, elem, hand, drop, got, res, calls>>

\* Mutant: the element keeps pointing at the pages that were put back.
SetValuePointer_Old(t) ==
    /\ pc[t] = "point"
    /\ elem' = [elem EXCEPT ![t] = NoElement]
    /\ hand' = [hand EXCEPT ![t] = <<>>]
    /\ Unlock(t)
    /\ Goto(t, "idle")
    /\ UNCHANGED <<pageVars, elemVars, tree, ckiR, job, key, val, drop, got, res, calls>>

SetValuePointer(t) ==
    /\ pc[t] = "point"
    /\ valOf' = [valOf EXCEPT ![elem[t]] = hand[t][1]]
    /\ elem' = [elem EXCEPT ![t] = NoElement]
    /\ hand' = [hand EXCEPT ![t] = <<>>]
    /\ Unlock(t)
    /\ Goto(t, "idle")
    /\ UNCHANGED <<pageVars, elemVars, keyOf, listed, ckiR, job, key, val, drop, got, res, calls>>

-----------------------------------------------------------------------------
\* Get

\* Get finds the key and keeps its CKINDEX locked while it loads the pages.
LockToRead(t) ==
    /\ pc[t] = "read"
    /\ ckiW[Coll[key[t]]] = NoThread
    /\ listed[key[t]] # NoElement
    /\ ckiR' = [ckiR EXCEPT ![Coll[key[t]]] = @ \cup {t}]
    /\ elem' = [elem EXCEPT ![t] = listed[key[t]]]
    /\ got' = [got EXCEPT ![t] = <<>>]
    /\ Goto(t, "pages")
    /\ UNCHANGED <<pageVars, elemVars, tree, ckiW, job, key, val, hand, drop, res, calls>>

GetMissing(t) ==
    /\ pc[t] = "read"
    /\ ckiW[Coll[key[t]]] = NoThread
    /\ listed[key[t]] = NoElement
    /\ res' = [res EXCEPT ![t] = Missing]
    /\ Goto(t, "idle")
    /\ UNCHANGED <<pageVars, elemVars, tree, ckiR, ckiW, job, key, val, elem, hand, drop, got, calls>>

\* LoadData reads the next page of the chain.
LoadPage(t) ==
    /\ pc[t] = "pages"
    /\ Len(got[t]) < Len(valOf[elem[t]])
    /\ got' = [got EXCEPT ![t] = Append(@, data[valOf[elem[t]][Len(@) + 1]])]
    /\ UNCHANGED <<pageVars, elemVars, tree, ckiR, ckiW, job, key, val, elem, hand, drop, res, pc, calls>>

ReturnValue(t) ==
    /\ pc[t] = "pages"
    /\ Len(got[t]) >= Len(valOf[elem[t]])
    /\ res' = [res EXCEPT ![t] = IF \E v \in Vals : got[t] = Bytes(v)
                                   THEN CHOOSE v \in Vals : got[t] = Bytes(v)
                                   ELSE Torn]
    /\ got' = [got EXCEPT ![t] = <<>>]
    /\ elem' = [elem EXCEPT ![t] = NoElement]
    /\ ckiR' = [ckiR EXCEPT ![Coll[key[t]]] = @ \ {t}]
    /\ Goto(t, "idle")
    /\ UNCHANGED <<pageVars, elemVars, tree, ckiW, job, key, val, hand, drop, calls>>

-----------------------------------------------------------------------------

Step(t) ==
    \/ ExpandPageArea(t)
    \/ ReservePages(t)
    \/ ReservePagesFails(t)
    \/ PutBackPages(t)
    \/ ReserveElement(t)
    \/ ReserveElementFails(t)
    \/ PutBackElement(t)
    \/ TakeOff(t)
    \/ RemoveNothing(t)
    \/ LockToInsert(t)
    \/ RetrySet(t)
    \/ InsertElement(t)
    \/ LockToReplace(t)
    \/ ReplaceMissing(t)
    \/ SetValuePointer(t)
    \/ LockToRead(t)
    \/ GetMissing(t)
    \/ LoadPage(t)
    \/ ReturnValue(t)

\* Every call has been made and has returned.
Finished == calls = MaxCalls /\ \A t \in Threads : pc[t] = "idle"

Done == Finished /\ UNCHANGED vars

Next ==
    \/ \E t \in Threads :
         \/ \E j \in {"get", "del", "set", "rep"}, k \in Keys, v \in Vals : Begin(t, j, k, v)
         \/ Step(t)
    \/ Done

Spec == Init /\ [][Next]_vars

-----------------------------------------------------------------------------
\* Properties

\* The places where page p can be: in the list of free pages, in the chains a
\* thread has in hand or has still to put back, and in the chains of the listed
\* elements.  While Replace puts the old pages back the element still points at
\* them, behind the lock of its CKINDEX: they count as the thread's.
Replacing(e) == \E t \in Threads : pc[t] \in {"free", "point"} /\ job[t] = "rep" /\ elem[t] = e

Places(p) ==
    {<<"free", i>> : i \in {i \in DOMAIN free : free[i] = p}}
    \cup (UNION {{<<"hand", t, i>> : i \in {i \in DOMAIN hand[t] : p \in ToSet(hand[t][i])}} : t \in Threads})
    \cup (UNION {{<<"drop", t, i>> : i \in {i \in DOMAIN drop[t] : p \in ToSet(drop[t][i])}} : t \in Threads})
    \cup {<<"key", k>> : k \in {k \in Keys : listed[k] # NoElement /\ p \in ToSet(keyOf[listed[k]])}}
    \cup {<<"value", k>> : k \in {k \in Keys : /\ listed[k] # NoElement
                                               /\ ~Replacing(listed[k])
                                               /\ p \in ToSet(valOf[listed[k]])}}

\* Every page of the file is in exactly one place, whatever threads reserve, put
\* back and replace at once, and also after an AllocateElement that ran out of
\* room half-way: no page is lost and no two chains share one.
PagesConserved == \A p \in 1 .. pages : Cardinality(Places(p)) = 1

\* A thread has an element of its own from ReserveElement or TakeOff until it
\* lists it or puts it back; in Get and Replace it works on a listed one.
Owns(t) ==
    \/ pc[t] \in {"insert", "putback"}
    \/ pc[t] \in {"reserve", "free"} /\ job[t] # "rep"
Borrows(t) ==
    \/ pc[t] \in {"pages", "point"}
    \/ pc[t] \in {"reserve", "free"} /\ job[t] = "rep"

\* So is every element: it is free, listed, or one thread's own; and
\* free_element_count is the length of the list.
ElementsConserved ==
    /\ elemCount = Len(freeElems)
    /\ IsInjective(freeElems)
    /\ ToSet(freeElems) \subseteq 1 .. elements
    /\ \A k \in Keys : listed[k] # NoElement => listed[k] \in (1 .. elements) \ ToSet(freeElems)
    /\ \A k, j \in Keys : listed[k] = listed[j] /\ listed[k] # NoElement => k = j
    /\ \A t \in Threads : Owns(t) =>
         /\ elem[t] \in (1 .. elements) \ ToSet(freeElems)
         /\ \A k \in Keys : listed[k] # elem[t]
         /\ \A u \in Threads : elem[u] = elem[t] => u = t
    /\ \A t \in Threads : Borrows(t) => elem[t] = listed[key[t]]
    /\ \A t \in Threads : pc[t] = "free" /\ job[t] = "rep" => drop[t] = <<valOf[elem[t]]>>
    /\ \A e \in 1 .. elements :
         \/ e \in ToSet(freeElems)
         \/ \E k \in Keys : listed[k] = e
         \/ \E t \in Threads : Owns(t) /\ elem[t] = e

\* Why.  What a thread has in hand, and has to put back, at each step of a call.
StepInv ==
    \A t \in Threads :
        /\ pc[t] \in {"read", "pages"} => job[t] = "get"
        /\ pc[t] \in {"remove", "putback"} => job[t] \in {"set", "del"}
        /\ pc[t] \in {"lock", "alloc", "insert"} => job[t] = "set"
        /\ pc[t] \in {"replace", "point"} => job[t] = "rep"
        /\ pc[t] = "reserve" => job[t] \in {"set", "rep"} /\ Len(hand[t]) < Len(Pieces(t))
        /\ pc[t] = "free" => job[t] # "get"
        /\ pc[t] = "insert" => Len(hand[t]) = 2
        /\ pc[t] = "point" \/ (pc[t] = "free" /\ job[t] = "rep") => Len(hand[t]) = 1
        /\ hand[t] # <<>> =>
             pc[t] \in {"reserve", "insert", "point"} \/ (pc[t] = "free" /\ job[t] = "rep")
        /\ drop[t] # <<>> <=> pc[t] = "free"
        /\ elem[t] # NoElement <=> Owns(t) \/ Borrows(t)

\* Who has a CKINDEX locked: a writer has it alone, until it has finished with
\* the element; Set and Remove take one off and put it back without the lock.
LockInv ==
    /\ \A c \in CKIndexes, t \in Threads : t \in ckiR[c] <=> pc[t] = "pages" /\ Coll[key[t]] = c
    /\ \A c \in CKIndexes : ckiW[c] # NoThread => ckiR[c] = {}
    /\ \A c \in CKIndexes, t \in Threads :
         ckiW[c] = t => /\ Coll[key[t]] = c
                        /\ pc[t] \in {"alloc", "reserve", "insert", "free", "putback", "point"}
    /\ \A t \in Threads :
         pc[t] \in {"alloc", "reserve", "insert", "point"} \/ (pc[t] = "free" /\ job[t] = "rep")
            => ckiW[Coll[key[t]]] = t
    /\ \A t \in Threads :
         pc[t] \in {"alloc", "insert"} \/ (pc[t] = "reserve" /\ job[t] = "set")
            => listed[key[t]] = NoElement

\* No chain has a page twice.
ChainInv ==
    /\ IsInjective(free)
    /\ \A t \in Threads :
         /\ \A i \in DOMAIN hand[t] : IsInjective(hand[t][i])
         /\ \A i \in DOMAIN drop[t] : IsInjective(drop[t][i])
    /\ \A k \in Keys : listed[k] # NoElement =>
         /\ IsInjective(keyOf[listed[k]])
         /\ Replacing(listed[k]) \/ IsInjective(valOf[listed[k]])

\* Nothing of the file is lost or used twice.
FileConserved ==
    /\ PagesConserved
    /\ ElementsConserved
    /\ StepInv /\ LockInv /\ ChainInv

\* ReservePages walks as many pages as free_page_count promises without looking
\* for the end of the list: the list is never shorter than the count.
PromisedPagesExist == freeCount <= Len(free)

\* The pages of the chain hold x, all of it and nothing else.
Holds(chain, x) == [i \in DOMAIN chain |-> data[chain[i]]] = Bytes(x)

\* A key whose CKINDEX nobody has locked for writing has an element whose pages
\* hold that key and one whole value.
ListedWhole ==
    \A k \in Keys : listed[k] # NoElement /\ ckiW[Coll[k]] = NoThread =>
        Holds(keyOf[listed[k]], k) /\ \E v \in Vals : Holds(valOf[listed[k]], v)

\* Why: pages are written before they are put into an element, and Replace alone
\* lets an element point at pages that it has put back.
WrittenFirst ==
    /\ \A t \in Threads : \A i \in DOMAIN hand[t] : Holds(hand[t][i], Pieces(t)[i])
    /\ \A k \in Keys : listed[k] # NoElement =>
         /\ Holds(keyOf[listed[k]], k)
         /\ Replacing(listed[k]) \/ \E v \in Vals : Holds(valOf[listed[k]], v)

StoredWhole == ListedWhole /\ WrittenFirst

\* A Get never returns bytes of two values, or of pages that were put back
\* while it was reading.
NotTorn == \A t \in Threads : res[t] # Torn

\* Why: what it has read is still there.
StillThere ==
    \A t \in Threads : pc[t] = "pages" =>
        /\ Len(got[t]) <= Len(valOf[elem[t]])
        /\ \A i \in DOMAIN got[t] : got[t][i] = data[valOf[elem[t]][i]]

NoTornRead == NotTorn /\ StillThere
=============================================================================
