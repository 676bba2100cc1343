------------------------------- MODULE K2HWalk -------------------------------
(***************************************************************************)
(* The two ways of going through every element of a file while others write  *)
(* in it and the key index grows:                                           *)
(*                                                                         *)
(*   an iterator goes through the area of elements by address (k2hfind.cc,   *)
(*   begin and FindNextElement of k2hshm.cc, next of k2hmmapinfo.cc); Save   *)
(*   of an archive and the search functions of the API are made of it;       *)
(*                                                                         *)
(*   GetElementsByHash goes through the key index by hash and gives what     *)
(*   another node needs, which SetElementByBinArray merges into the store    *)
(*   of that node (k2hshmdirect.cc).                                        *)
(*                                                                         *)
(* What a writer does under the lock of one CKINDEX is one step; freeing an  *)
(* element and every look of an iterator happen without that lock and are    *)
(* steps of their own.  That the index is right is the subject of            *)
(* K2HKeyIndex: here an element is where its hash and the assigned KINDEXes  *)
(* say.  The collision mask is 0.                                           *)
(***************************************************************************)
EXTENDS Naturals, Sequences, FiniteSets, SequencesExt

CONSTANTS
    Keys,
    Writers,
    Hash,           \* the hash of each key
    InitBits,       \* the bits of the mask at first
    MaxBits,        \* and at most
    MaxTime,        \* the last time of the clock
    Uses,           \* the elements at first, the walk, and the calls made during it
    GrowsInCall     \* may the mask grow during one GetElementsByHash?

NoKey == "no key"
NoTime == 0         \* the element has no such attribute

\* What an area of an element may hold, and the times of an element elsewhere.
Elements == [key : Keys \cup {NoKey}, mtime : Nat, expire : Nat, linked : BOOLEAN]
Times == [mtime : Nat, expire : Nat]

\* Is a hash in a range of `range' values of a ring of `max', from `start' on?
InRange(u, h, start, max) ==
    LET end == (start + u.range - 1) % max
    IN  IF start <= end THEN h % max \in start .. end
        ELSE ~(end < h % max /\ h % max < start)
InTarget(u, e) == InRange(u, Hash[e.key], u.target, u.targetMax)
InOld(u, e) == \E old \in u.old : InRange(u, Hash[e.key], old, u.oldMax)

\* The other node has had the element since before the merge: as new as it is here,
\* or written there since the merge began.
Before(u, e) == e.mtime # NoTime /\ e.mtime < u.startts /\ InTarget(u, e) /\ InOld(u, e)
HasOf(u, store, e) ==
    /\ e.key \in DOMAIN store
    /\ \/ store[e.key].mtime >= Min({e.mtime, u.pts})
       \/ store[e.key].mtime = NoTime

ASSUME BitsAssumption == InitBits \in Nat /\ MaxBits \in Nat /\ InitBits <= MaxBits
ASSUME HashAssumption == Hash \in [Keys -> Nat] /\ NoKey \notin Keys

\* (arithmetic, which the proofs take from here)
ASSUME PowersAssumption == \A b \in 0 .. MaxBits : 2^b \in Nat \ {0} /\ 2^(b + 1) = 2 * 2^b

\* At first the elements are in order, none newer than the time.
ASSUME UsesAssumption ==
    \A u \in Uses :
       /\ u.slots \in Seq(Elements)
       /\ \A s, r \in DOMAIN u.slots :
             /\ u.slots[s].linked <=> u.slots[s].key # NoKey
             /\ u.slots[s].linked /\ u.slots[s].key = u.slots[r].key => s = r
             /\ u.slots[s].mtime <= u.now
       /\ u.now \in Nat
       /\ u.parent \in Keys /\ u.subkeys \in Seq(Keys)

\* A merge asks for what was written from a time on that has come, and the other node
\* has what it held before (the parameters of GetElementsByHash).
ASSUME MergeAssumption ==
    \A u \in Uses :
       /\ u.startts \in Nat /\ u.endts \in Nat /\ u.pts \in Nat
       /\ u.startts <= u.now
       /\ DOMAIN u.other \subseteq Keys
       /\ \A k \in DOMAIN u.other : u.other[k] \in Times
       /\ \A s \in DOMAIN u.slots :
             u.slots[s].linked /\ Before(u, u.slots[s]) => HasOf(u, u.other, u.slots[s])

VARIABLES
    use,        \* one of Uses
    bits,       \* the bits of cur_mask
    assigned,   \* the numbers of the assigned KINDEXes
    slots,      \* the areas of elements, by address
    free,       \* the list of free elements, as slots
    task,       \* what each writer is at
    calls,      \* how many calls of writers have begun
    now,        \* the time
    find,       \* the iterator
    got,        \* how often the iterator came to each slot
    walk,       \* the walk by hash
    stay,       \* the slots linked since the walk began
    other       \* the store of the other node: key -> its attributes

index == <<bits, assigned>>
ours == <<slots, free, task, calls>>
finding == <<find, got>>
vars == <<use, bits, assigned, slots, free, task, calls, now, find, got, walk, stay, other>>

Free == [key |-> NoKey, mtime |-> NoTime, expire |-> NoTime, linked |-> FALSE]
Attrs(e) == [mtime |-> e.mtime, expire |-> e.expire]
IsExpire(attrs) == attrs.expire # NoTime /\ attrs.expire < now

-----------------------------------------------------------------------------
\* The key index.
Path(h) == {h % 2^b : b \in InitBits .. bits}
Top(h) == h % 2^bits

\* What GetKIndex leaves assigned when it merges the levels of a hash.
Arranged(h) == IF Top(h) \in assigned THEN assigned ELSE assigned \cup Path(h)

\* The KINDEX GetKIndex finds, among those assigned: that of the longest mask.
Where(h, as) == h % 2^Max({b \in InitBits .. bits : h % 2^b \in as})

\* Mutant: arranging locks nothing.
CanArrange_PastReaders(h) == TRUE

\* Arranging locks every level it goes through; the lock an iterator holds on one
\* of them keeps it waiting.
CanArrange(h) == Top(h) \notin assigned => find.held \cap Path(h) = {}

\* A writer arranges the levels of a hash and locks its CKINDEX.
Lock(h) == CanArrange(h) /\ Top(h) \notin find.held /\ assigned' = Arranged(h)

Linked(s) == slots[s].linked
SlotsOf(k) == {s \in DOMAIN slots : Linked(s) /\ slots[s].key = k}

Init ==
    /\ use \in Uses
    /\ bits = InitBits /\ assigned = 0 .. 2^InitBits - 1
    /\ slots = use.slots
    /\ free = SetToSeq({s \in DOMAIN use.slots : use.slots[s].key = NoKey})
    /\ task = [w \in Writers |-> [pc |-> "idle", key |-> NoKey, set |-> FALSE, slot |-> 0]]
    /\ calls = 0 /\ now = use.now
    /\ find = [pc |-> "idle", at |-> 0, first |-> FALSE, list |-> <<>>, going |-> {},
               held |-> {}]
    /\ got = <<>>
    /\ walk = [pc |-> "idle", test |-> 0, max |-> 0, next |-> 0, data |-> {}]
    /\ stay = {}
    /\ other = use.other

-----------------------------------------------------------------------------
\* Set and Remove.

Call(w, k, set) ==
    /\ task[w].pc = "idle" /\ calls < use.maxCalls
    /\ task' = [task EXCEPT ![w] = [pc |-> "remove", key |-> k, set |-> set, slot |-> 0]]
    /\ calls' = calls + 1
    /\ UNCHANGED <<use, index, slots, free, now, finding, walk, stay, other>>

After(w) == IF task[w].set THEN "insert" ELSE "idle"

\* RemoveEx takes the element off under the lock,
TakeOff(w) ==
    /\ task[w].pc = "remove"
    /\ Lock(Hash[task[w].key])
    /\ \/ /\ SlotsOf(task[w].key) = {}
          /\ task' = [task EXCEPT ![w].pc = After(w)]
          /\ UNCHANGED <<slots, stay>>
       \/ \E s \in SlotsOf(task[w].key) :
             /\ slots' = [slots EXCEPT ![s].linked = FALSE]
             /\ task' = [task EXCEPT ![w].pc = "free", ![w].slot = s]
             /\ stay' = stay \ {s}
    /\ UNCHANGED <<use, bits, free, calls, now, finding, walk, other>>

\* and frees it when the lock is gone.
FreeElement(w) ==
    /\ task[w].pc = "free"
    /\ slots' = [slots EXCEPT ![task[w].slot] = Free]
    /\ free' = <<task[w].slot>> \o free
    /\ task' = [task EXCEPT ![w].pc = After(w)]
    /\ UNCHANGED <<use, index, calls, now, finding, walk, stay, other>>

\* ReserveElement: the first of the free list, or else of a new area.
Reserved == IF free = <<>> THEN Len(slots) + 1 ELSE Head(free)

\* Mutant: the element stays on the free list.
StillFree_Kept == free

\* It leaves the free list.
StillFree == IF free = <<>> THEN <<>> ELSE Tail(free)

\* The new element, filled and linked under the lock.  A key that another writer
\* has inserted meanwhile is removed first.
InsertElement(w) ==
    LET k == task[w].key
        e == [key |-> k, mtime |-> IF use.mtime THEN now ELSE NoTime, expire |-> NoTime,
              linked |-> TRUE]
    IN  /\ task[w].pc = "insert"
        /\ Lock(Hash[k])
        /\ \/ /\ SlotsOf(k) # {}
              /\ task' = [task EXCEPT ![w].pc = "remove"]
              /\ UNCHANGED <<slots, free>>
           \/ /\ SlotsOf(k) = {}
              /\ slots' = [s \in DOMAIN slots \cup {Reserved} |->
                              IF s = Reserved THEN e ELSE slots[s]]
              /\ free' = StillFree
              /\ task' = [task EXCEPT ![w].pc = "idle"]
        /\ UNCHANGED <<use, bits, calls, now, finding, walk, stay, other>>

\* Get, or any other call that looks a key up, arranges its levels too.
Get(k) ==
    /\ Top(Hash[k]) \notin assigned /\ CanArrange(Hash[k])
    /\ assigned' = Arranged(Hash[k])
    /\ UNCHANGED <<use, bits, ours, now, finding, walk, stay, other>>

\* CheckExpandingKeyArea: one more bit, with no KINDEX of its level assigned.
Expand ==
    /\ bits < MaxBits
    /\ GrowsInCall \/ walk.pc # "test"
    /\ bits' = bits + 1
    /\ UNCHANGED <<use, assigned, ours, now, finding, walk, stay, other>>

Tick ==
    /\ now < MaxTime
    /\ now' = now + 1
    /\ UNCHANGED <<use, index, ours, finding, walk, stay, other>>

-----------------------------------------------------------------------------
\* The iterators.  Both ask for the lock of the CKINDEX of their next element in two
\* steps: GetCKIndex first finds the KINDEX, arranging it only if the iterator holds
\* no lock yet, then waits for the lock.  The lock of the element before is gone
\* by then, or still held by the copy that the postfix ++ has made of the iterator.

Looking(walker) == use.walker = walker /\ find.pc = "look"
Came(s) == [t \in DOMAIN got \cup {s} |->
              (IF t \in DOMAIN got THEN got[t] ELSE 0) + (IF t = s THEN 1 ELSE 0)]

GetCKIndex(h, at) ==
    /\ find.held = {} => CanArrange(h)
    /\ assigned' = IF find.held = {} THEN Arranged(h) ELSE assigned
    /\ \E kept \in {{}, find.held} :
          find' = [find EXCEPT !.pc = "lock", !.at = at, !.going = {Where(h, assigned')},
                               !.held = kept]
    /\ UNCHANGED bits

Start(linked) ==
    /\ stay' = linked
    /\ got' = [s \in DOMAIN slots |-> 0]

\* begin(): from the first slot on.
Begin ==
    /\ use.walker = "find" /\ find.pc = "idle"
    /\ find' = [find EXCEPT !.pc = "look"]
    /\ Start({s \in DOMAIN slots : Linked(s)})
    /\ UNCHANGED <<use, index, ours, now, walk, other>>

\* Mutant: the step is two elements wide.
NextSlot_Skips == find.at + (IF find.at = 0 THEN 1 ELSE 2)

\* next of K2HMmapInfo goes from the end of an area to the next area of elements.
NextSlot == find.at + 1

\* FindNextElement looks for a slot with a key without any lock.
PassOver ==
    /\ Looking("find") /\ NextSlot \in DOMAIN slots
    /\ slots[NextSlot].key = NoKey
    /\ find' = [find EXCEPT !.at = NextSlot]
    /\ UNCHANGED <<use, index, ours, now, got, walk, stay, other>>

FindElement ==
    /\ Looking("find") /\ NextSlot \in DOMAIN slots
    /\ slots[NextSlot].key # NoKey
    /\ GetCKIndex(Hash[slots[NextSlot].key], NextSlot)
    /\ UNCHANGED <<use, ours, now, got, walk, stay, other>>

\* The lock is there, and the owner of the iterator reads the element.
ReadElement ==
    /\ use.walker = "find" /\ find.pc = "lock"
    /\ find' = [find EXCEPT !.pc = "look", !.held = find.going]
    /\ got' = Came(find.at)
    /\ UNCHANGED <<use, index, ours, now, walk, stay, other>>

\* The end of the last area.
FindEnd ==
    /\ Looking("find") /\ NextSlot \notin DOMAIN slots
    /\ find' = [find EXCEPT !.pc = "end", !.held = {}]
    /\ UNCHANGED <<use, index, ours, now, got, walk, stay, other>>

\* begin(key): the lock of the parent, and a copy of its list of subkeys.
BeginSubkeys ==
    /\ use.walker = "subkeys" /\ find.pc = "idle"
    /\ CanArrange(Hash[use.parent]) /\ assigned' = Arranged(Hash[use.parent])
    /\ IF SlotsOf(use.parent) = {}
       THEN /\ find' = [find EXCEPT !.pc = "end"]
            /\ Start({})
       ELSE /\ find' = [find EXCEPT !.pc = "look", !.first = TRUE, !.list = use.subkeys,
                                    !.held = {Top(Hash[use.parent])}]
            /\ Start({s \in DOMAIN slots : Linked(s)})
    /\ UNCHANGED <<use, bits, ours, now, walk, other>>

NextSubkey ==
    /\ Looking("subkeys") /\ find.list # <<>>
    /\ GetCKIndex(Hash[Head(find.list)], 0)
    /\ UNCHANGED <<use, ours, now, got, walk, stay, other>>

\* GetElement under the lock.  A subkey that is not there is passed over by Next, and
\* is the end of the search if it is the first.
FindSubkey ==
    LET k == Head(find.list)
        there == {s \in SlotsOf(k) : Where(Hash[k], assigned) \in find.going}
        next == [find EXCEPT !.pc = "look", !.first = FALSE, !.list = Tail(find.list),
                             !.held = find.going]
    IN  /\ use.walker = "subkeys" /\ find.pc = "lock"
        /\ \/ \E s \in there :
                 /\ find' = [next EXCEPT !.at = s]
                 /\ got' = Came(s)
           \/ /\ there = {}
              /\ find' = IF find.first THEN [next EXCEPT !.pc = "end", !.held = {}] ELSE next
              /\ UNCHANGED got
        /\ UNCHANGED <<use, index, ours, now, walk, stay, other>>

SubkeysEnd ==
    /\ Looking("subkeys") /\ find.list = <<>>
    /\ find' = [find EXCEPT !.pc = "end", !.held = {}]
    /\ UNCHANGED <<use, index, ours, now, got, walk, stay, other>>

-----------------------------------------------------------------------------
\* The walk by hash.

\* Mutant: it asks of every element how old it is.
InTime_Anywhere(e) == e.mtime # NoTime => use.startts <= e.mtime /\ e.mtime <= use.endts

\* GetElementListToBinary takes an element without a time of modification at any
\* time, and asks how old it is only where the other node has had it before.
InTime(e) ==
    e.mtime # NoTime => /\ InOld(use, e) => use.startts <= e.mtime
                        /\ e.mtime <= use.endts
GetElementToBinary(e) == [key |-> e.key, attrs |-> Attrs(e)]
Taken(s) == InTarget(use, slots[s]) /\ ~IsExpire(Attrs(slots[s])) /\ InTime(slots[s])

\* One call of GetElementsByHash begins: from 0, or where the last one left off.
GetElementsByHash ==
    /\ use.walker = "get"
    /\ \/ walk.pc = "idle" /\ stay' = {s \in DOMAIN slots : Linked(s)}
       \/ walk.pc = "put" /\ walk.data = {} /\ walk.next # 0 /\ UNCHANGED stay
    /\ walk' = [pc |-> "test", test |-> walk.next, max |-> 2^bits - 1, next |-> 0, data |-> {}]
    /\ UNCHANGED <<use, index, ours, now, finding, other>>

\* It looks under one hash, and returns with the first elements it finds.
TestHash ==
    /\ walk.pc = "test" /\ walk.test <= walk.max
    /\ CanArrange(walk.test) /\ assigned' = Arranged(walk.test)
    /\ LET here == {s \in DOMAIN slots :
                       Linked(s) /\ Where(Hash[slots[s].key], assigned') = Top(walk.test)}
           taken == {s \in here : Taken(s)}
           next == walk.test + 1
       IN  walk' = IF taken = {} THEN [walk EXCEPT !.test = next]
                      ELSE [walk EXCEPT !.pc = "put",
                                        !.data = {GetElementToBinary(slots[s]) : s \in taken},
                                        !.next = IF next <= walk.max THEN next ELSE 0]
    /\ UNCHANGED <<use, bits, ours, now, finding, stay, other>>

\* No data from here on, or none after what the last call gave.
GetEnd ==
    /\ \/ walk.pc = "test" /\ walk.test > walk.max
       \/ walk.pc = "put" /\ walk.data = {} /\ walk.next = 0
    /\ walk' = [walk EXCEPT !.pc = "end"]
    /\ UNCHANGED <<use, index, ours, now, finding, stay, other>>

\* What the other node has stays: unless it has expired or tells no time of
\* modification, when it was written since the merge began, or is as new as what
\* comes, or that tells no time.
Kept(old, new) ==
    /\ ~IsExpire(old) /\ old.mtime # NoTime
    /\ \/ use.pts <= old.mtime
       \/ new.mtime = NoTime
       \/ new.mtime <= old.mtime

\* The element there is replaced, or a new one is inserted.
OtherWith(k, attrs) == [j \in DOMAIN other \cup {k} |-> IF j = k THEN attrs ELSE other[j]]

SetElementByBinArray(d) ==
    /\ walk.pc = "put" /\ d \in walk.data
    /\ walk' = [walk EXCEPT !.data = @ \ {d}]
    /\ other' = IF d.key \in DOMAIN other /\ Kept(other[d.key], d.attrs) THEN other
                ELSE OtherWith(d.key, d.attrs)
    /\ UNCHANGED <<use, index, ours, now, finding, stay>>

\* A Set at the other node.
SetOther(k) ==
    /\ use.walker = "get" /\ calls < use.maxCalls
    /\ calls' = calls + 1
    /\ other' = OtherWith(k, [mtime |-> IF use.mtime THEN now ELSE NoTime, expire |-> NoTime])
    /\ UNCHANGED <<use, index, slots, free, task, now, finding, walk, stay>>

-----------------------------------------------------------------------------
Done ==
    /\ find.pc = "end" \/ walk.pc = "end"
    /\ \A w \in Writers : task[w].pc = "idle"
    /\ UNCHANGED vars

Next ==
    \/ \E w \in Writers :
          \/ \E k \in Keys, set \in BOOLEAN : Call(w, k, set)
          \/ TakeOff(w) \/ FreeElement(w) \/ InsertElement(w)
    \/ \E k \in Keys : Get(k)
    \/ Expand \/ Tick
    \/ Begin \/ PassOver \/ FindElement \/ ReadElement \/ FindEnd
    \/ BeginSubkeys \/ NextSubkey \/ FindSubkey \/ SubkeysEnd
    \/ GetElementsByHash \/ TestHash \/ GetEnd
    \/ \E d \in walk.data : SetElementByBinArray(d)
    \/ \E k \in Keys : SetOther(k)
    \/ Done

Spec == Init /\ [][Next]_vars

-----------------------------------------------------------------------------
\* A slot is on the free list once, or has one key, which no other linked slot has.
TypeOK ==
    /\ bits \in InitBits .. MaxBits /\ assigned \subseteq 0 .. 2^bits - 1
    /\ \A s \in DOMAIN slots : slots[s].key \in Keys \cup {NoKey}
    /\ \A k \in Keys : Cardinality(SlotsOf(k)) <= 1
    /\ IsInjective(free)
    /\ Range(free) = {s \in DOMAIN slots : slots[s].key = NoKey}
    /\ stay \subseteq {s \in DOMAIN slots : Linked(s)}
    /\ find.at \in 0 .. Len(slots) /\ walk.test \in 0 .. walk.max + 1

\* An iterator gives every element that is in the file from begin to end exactly
\* once, though others write, free elements are used again, areas are added and the
\* index moves elements about (the comment above FindNextElement).
FoundOnce ==
    \A s \in stay : use.walker = "find" /\ find.pc # "idle" =>
        got[s] = IF s <= find.at /\ ~(s = find.at /\ find.pc = "lock") THEN 1 ELSE 0

\* When the walk by hash is over, the other node has every element of its range that
\* was in the file all along, has not expired and was not written after the end of
\* the merge: as new as it is here, or as written there since the merge began.
MergeComplete ==
    walk.pc = "end" => \A s \in stay :
        LET e == slots[s]
        IN  InTarget(use, e) /\ ~IsExpire(Attrs(e)) /\ e.mtime <= use.endts =>
               HasOf(use, other, e)

\* The subkey that an iterator over subkeys stands on stays in the file, and in the
\* CKINDEX whose lock it holds, until it goes on.
SubkeyHeld ==
    Looking("subkeys") /\ find.at # 0 =>
        Linked(find.at) /\ Where(Hash[slots[find.at].key], assigned) \in find.held

\* It finds every subkey of the list that is in the file from begin to end: one that
\* is not found has been removed (the comment in Next, k2hfind.cc:154).
SubkeysFound ==
    use.walker = "subkeys" /\ find.pc = "end" =>
        \A s \in stay : slots[s].key \in Range(use.subkeys) => got[s] = 1
=============================================================================
