---------------------------- MODULE K2HKeyIndex ----------------------------
(***************************************************************************)
(* The two-level key index of K2HShm (src/lib/k2hshm.cc) and the calls that *)
(* go through it, at the granularity of its locks.                          *)
(*                                                                          *)
(* A key is hashed; the hash, shifted right by the collision mask's bits,   *)
(* selects a KINDEX through the current mask cur_mask, and the low bits     *)
(* select a CKINDEX (collision key index) inside it.  When a CKINDEX gets   *)
(* too long cur_mask grows by one bit and a new array of KINDEXes, not yet  *)
(* "assigned", is appended; elements are moved up lazily, by the first call *)
(* that needs an unassigned KINDEX.                                         *)
(*                                                                          *)
(* The shifted hash of a key is modelled as the set of its one bits, and a  *)
(* mask of b bits as 1..b, so that masking is intersection: the KINDEX a    *)
(* key has under b bits is the set Slot(k, b).  A masked value and the pair *)
(* (KIPtrArrayPos, KIArrayPos) determine each other, so the set names the   *)
(* KINDEX.                                                                  *)
(*                                                                          *)
(* The elements of a CKINDEX are kept per key, in the order of their "same" *)
(* chain; the binary tree over them is the subject of another module.       *)
(***************************************************************************)
EXTENDS Integers, Sequences, FiniteSets, SequencesExt

CONSTANTS
    Threads,        \* threads (of any process) attached to the same k2hash
    NoThread,       \* not a thread: owner of a free lock
    Keys,
    Vals,
    Missing,        \* what a Get of an absent key returns
    Hash,           \* Hash[k]: the one bits of the shifted hash of k
    Coll,           \* Coll[k]: hash & collision_mask
    CollMask,       \* collision_mask
    InitBits,       \* bits of cur_mask when the file is created
    MaxBits,        \* bits of max_mask
    MaxElements,    \* max_element_count
    MaxCalls        \* bound on the number of calls, shared by the threads

ASSUME KeyIndexAssumption ==
    /\ NoThread \notin Threads
    /\ Keys # {}
    /\ Vals # {} /\ Missing \notin Vals
    /\ InitBits \in Nat /\ InitBits >= 2
    /\ MaxBits \in Nat /\ MaxBits >= InitBits
    /\ Hash \in [Keys -> SUBSET (1 .. MaxBits)]
    /\ CollMask \in Nat
    /\ Coll \in [Keys -> 0 .. CollMask]
    /\ MaxElements \in Nat
    /\ MaxCalls \in Nat

VARIABLES
    bits,       \* number of one bits of cur_mask
    assigned,   \* the KINDEXes whose assign is KINDEX_ASSIGNED
    chain,      \* chain[s][k]: the elements of key k listed under KINDEX s
    maskR,      \* threads holding the lock on cur_mask for reading
    maskW,      \* the thread holding it for writing
    ckiW,       \* ckiW[s][c]: the thread holding CKINDEX c of KINDEX s for writing
    pc,         \* where each thread is
    job,        \* the call it is in ("ins" is the second half of a Set)
    key,        \* the key of its call
    val,        \* the value of its Set
    kidx,       \* the KINDEX that GetKIndex returned to it
    lvl,        \* bits of the mask ArrangeToUpperKIndex is working on
    pos,        \* CKIndexPos in its loop
    res,        \* the result of its last Get
    calls,      \* calls begun so far
    stale       \* (auxiliary) some CKINDEX was locked after cur_mask had
                \* moved its key elsewhere

index == <<bits, assigned, chain>>
locks == <<maskR, maskW, ckiW>>
frame == <<job, key, val, kidx, lvl, pos, res>>
vars  == <<index, locks, frame, pc, calls, stale>>

-----------------------------------------------------------------------------

\* shifted_hash & mask, for a mask of b bits.
Slot(k, b) == Hash[k] \cap (1 .. b)

KIndexes == SUBSET (1 .. MaxBits)

\* The KINDEX of the key of thread t under the mask of its arrangement, and
\* under that mask shifted right by one.
Upper(t) == Slot(key[t], lvl[t])
Lower(t) == Slot(key[t], lvl[t] - 1)

\* element_count of a collision key index.
ElementCount(s, c) ==
    MapThenSumSet(LAMBDA k : Len(chain[s][k]), {k \in Keys : Coll[k] = c})

Steps == {"idle", "find", "arrange", "move", "access",
          "check", "count", "expand", "grow"}

TypeOK ==
    /\ bits \in InitBits .. MaxBits
    /\ assigned \subseteq KIndexes
    /\ chain \in [KIndexes -> [Keys -> Seq(Vals)]]
    /\ maskR \subseteq Threads
    /\ maskW \in Threads \cup {NoThread}
    /\ ckiW \in [KIndexes -> [0 .. CollMask -> Threads \cup {NoThread}]]
    /\ pc \in [Threads -> Steps]
    /\ job \in [Threads -> {"get", "del", "set", "ins"}]
    /\ key \in [Threads -> Keys]
    /\ val \in [Threads -> Vals]
    /\ kidx \in [Threads -> KIndexes]
    /\ lvl \in [Threads -> 1 .. MaxBits + 1]
    /\ pos \in [Threads -> 0 .. CollMask + 1]
    /\ res \in [Threads -> Vals \cup {Missing}]
    /\ calls \in 0 .. MaxCalls
    /\ stale \in BOOLEAN
    /\ \A t \in Threads : pc[t] = "move" => pos[t] <= CollMask

Init ==
    /\ bits = InitBits
    /\ assigned = SUBSET (1 .. InitBits)
    /\ chain = [s \in KIndexes |-> [k \in Keys |-> <<>>]]
    /\ maskR = {}
    /\ maskW = NoThread
    /\ ckiW = [s \in KIndexes |-> [c \in 0 .. CollMask |-> NoThread]]
    /\ pc = [t \in Threads |-> "idle"]
    /\ job = [t \in Threads |-> "get"]
    /\ key = [t \in Threads |-> CHOOSE k \in Keys : TRUE]
    /\ val = [t \in Threads |-> CHOOSE v \in Vals : TRUE]
    /\ kidx = [t \in Threads |-> {}]
    /\ lvl = [t \in Threads |-> 1]
    /\ pos = [t \in Threads |-> 0]
    /\ res = [t \in Threads |-> Missing]
    /\ calls = 0
    /\ stale = FALSE

Goto(t, step) == pc' = [pc EXCEPT ![t] = step]

-----------------------------------------------------------------------------
\* Calls

\* A caller enters Get, Remove or Set.
Begin(t, j, k, v) ==
    /\ pc[t] = "idle"
    /\ calls < MaxCalls
    /\ calls' = calls + 1
    /\ job' = [job EXCEPT ![t] = j]
    /\ key' = [key EXCEPT ![t] = k]
    /\ val' = [val EXCEPT ![t] = v]
    /\ Goto(t, "find")
    /\ UNCHANGED <<index, locks, kidx, lvl, pos, res, stale>>

-----------------------------------------------------------------------------
\* GetKIndex and ArrangeToUpperKIndex

\* GetKIndex under the reading lock on cur_mask, which it releases on return.
FindAssigned(t) ==
    /\ pc[t] = "find"
    /\ maskW = NoThread
    /\ Slot(key[t], bits) \in assigned
    /\ kidx' = [kidx EXCEPT ![t] = Slot(key[t], bits)]
    /\ Goto(t, "access")
    /\ UNCHANGED <<index, locks, job, key, val, lvl, pos, res, calls, stale>>

\* GetKIndex finds the KINDEX not assigned: it keeps the reading lock on
\* cur_mask and arranges the elements of the lower KINDEXes, from mask 3 up.
StartArrange(t) ==
    /\ pc[t] = "find"
    /\ maskW = NoThread
    /\ Slot(key[t], bits) \notin assigned
    /\ maskR' = maskR \cup {t}
    /\ lvl' = [lvl EXCEPT ![t] = 2]
    /\ pos' = [pos EXCEPT ![t] = 0]
    /\ Goto(t, "arrange")
    /\ UNCHANGED <<index, maskW, ckiW, job, key, val, kidx, res, calls, stale>>

\* The upper and the lower mask select the same KINDEX: nothing to arrange.
SkipLevel(t) ==
    /\ pc[t] = "arrange"
    /\ lvl[t] <= bits
    /\ Upper(t) = Lower(t)
    /\ lvl' = [lvl EXCEPT ![t] = @ + 1]
    /\ UNCHANGED <<index, locks, pc, job, key, val, kidx, pos, res, calls, stale>>

\* Lock the lower CKINDEX of the pair at this position first.
LockLower(t) ==
    /\ pc[t] = "arrange"
    /\ lvl[t] <= bits
    /\ Upper(t) # Lower(t)
    /\ pos[t] <= CollMask
    /\ ckiW[Lower(t)][pos[t]] = NoThread
    /\ ckiW' = [ckiW EXCEPT ![Lower(t)][pos[t]] = t]
    /\ Goto(t, "move")
    /\ UNCHANGED <<index, maskR, maskW, frame, calls, stale>>

\* Mutant: every element of the lower list is taken, whatever its hash.
Moving_All(t) == {k \in Keys : Coll[k] = pos[t]}

\* The keys that MoveElementToUpperMask takes off the lower CKINDEX: those
\* whose hash, under the upper mask, is the one being arranged.
Moving(t) ==
    {k \in Keys : Coll[k] = pos[t] /\ Slot(k, lvl[t]) = Upper(t)}

\* Mutant: the elements are inserted above but not taken off below.
MoveUp_Copies(t) ==
    /\ pc[t] = "move"
    /\ ckiW[Upper(t)][pos[t]] = NoThread
    /\ chain' = [chain EXCEPT
         ![Upper(t)] = [k \in Keys |-> IF k \in Moving(t)
                                         THEN @[k] \o Reverse(chain[Lower(t)][k])
                                         ELSE @[k]]]
    /\ ckiW' = [ckiW EXCEPT ![Lower(t)][pos[t]] = NoThread]
    /\ pos' = [pos EXCEPT ![t] = @ + 1]
    /\ Goto(t, "arrange")
    /\ UNCHANGED <<bits, assigned, maskR, maskW, job, key, val, kidx, lvl, res, calls, stale>>

\* Mutant: the elements are taken off below but not inserted above.
MoveUp_Drops(t) ==
    /\ pc[t] = "move"
    /\ ckiW[Upper(t)][pos[t]] = NoThread
    /\ chain' = [chain EXCEPT
         ![Lower(t)] = [k \in Keys |-> IF k \in Moving(t) THEN <<>> ELSE @[k]]]
    /\ ckiW' = [ckiW EXCEPT ![Lower(t)][pos[t]] = NoThread]
    /\ pos' = [pos EXCEPT ![t] = @ + 1]
    /\ Goto(t, "arrange")
    /\ UNCHANGED <<bits, assigned, maskR, maskW, job, key, val, kidx, lvl, res, calls, stale>>

\* Lock the upper CKINDEX too, move the elements, unlock both.  A "same" chain
\* is visited from its end, so it arrives in the opposite order.
MoveUp(t) ==
    /\ pc[t] = "move"
    /\ ckiW[Upper(t)][pos[t]] = NoThread
    /\ chain' = [chain EXCEPT
         ![Upper(t)] = [k \in Keys |-> IF k \in Moving(t)
                                         THEN @[k] \o Reverse(chain[Lower(t)][k])
                                         ELSE @[k]],
         ![Lower(t)] = [k \in Keys |-> IF k \in Moving(t) THEN <<>> ELSE @[k]]]
    /\ ckiW' = [ckiW EXCEPT ![Lower(t)][pos[t]] = NoThread]
    /\ pos' = [pos EXCEPT ![t] = @ + 1]
    /\ Goto(t, "arrange")
    /\ UNCHANGED <<bits, assigned, maskR, maskW, job, key, val, kidx, lvl, res, calls, stale>>

\* After the last position the upper KINDEX is assigned, with no CKINDEX locked.
AssignUpper(t) ==
    /\ pc[t] = "arrange"
    /\ lvl[t] <= bits
    /\ Upper(t) # Lower(t)
    /\ pos[t] > CollMask
    /\ assigned' = assigned \cup {Upper(t)}
    /\ lvl' = [lvl EXCEPT ![t] = @ + 1]
    /\ pos' = [pos EXCEPT ![t] = 0]
    /\ UNCHANGED <<bits, chain, locks, pc, job, key, val, kidx, res, calls, stale>>

\* All levels are arranged: GetKIndex searches again, without merging, from
\* cur_mask down to the first assigned KINDEX and returns it.
ArrangeDone(t) ==
    /\ pc[t] = "arrange"
    /\ lvl[t] > bits
    /\ \E b \in 1 .. bits :
         /\ Slot(key[t], b) \in assigned
         /\ \A c \in b + 1 .. bits : Slot(key[t], c) \notin assigned
         /\ kidx' = [kidx EXCEPT ![t] = Slot(key[t], b)]
    /\ maskR' = maskR \ {t}
    /\ lvl' = [lvl EXCEPT ![t] = 1]
    /\ Goto(t, "access")
    /\ UNCHANGED <<index, maskW, ckiW, job, key, val, pos, res, calls, stale>>

-----------------------------------------------------------------------------
\* Work under the lock of a CKINDEX

\* GetCKIndex locks the CKINDEX of the KINDEX it was given, whatever has
\* happened to cur_mask since GetKIndex released it.
LockCKIndex(t) ==
    /\ pc[t] = "access"
    /\ ckiW[kidx[t]][Coll[key[t]]] = NoThread
    /\ stale' = (stale \/ kidx[t] # Slot(key[t], bits))

Found(t) == chain[kidx[t]][key[t]]

\* Get: read the first element of the key.
GetElement(t) ==
    /\ job[t] = "get"
    /\ LockCKIndex(t)
    /\ res' = [res EXCEPT ![t] = IF Found(t) = <<>> THEN Missing ELSE Head(Found(t))]
    /\ Goto(t, "idle")
    /\ UNCHANGED <<index, locks, job, key, val, kidx, lvl, pos, calls>>

\* RemoveEx: take the first element of the key off, if there is one.  Remove
\* returns; Set looks its CKINDEX up again to insert the new element.
RemoveEx(t) ==
    /\ job[t] \in {"del", "set"}
    /\ LockCKIndex(t)
    /\ chain' = IF Found(t) = <<>> THEN chain
                ELSE [chain EXCEPT ![kidx[t]][key[t]] = Tail(@)]
    /\ IF job[t] = "set"
         THEN /\ job' = [job EXCEPT ![t] = "ins"]
              /\ Goto(t, "find")
         ELSE /\ Goto(t, "idle")
              /\ UNCHANGED job
    /\ UNCHANGED <<bits, assigned, locks, key, val, kidx, lvl, pos, res, calls>>

\* Mutant: Set does not look again whether the key was made meanwhile.
InsertElement_Unchecked(t) ==
    /\ job[t] = "ins"
    /\ LockCKIndex(t)
    /\ chain' = [chain EXCEPT ![kidx[t]][key[t]] = Append(@, val[t])]
    /\ Goto(t, "check")
    /\ UNCHANGED <<bits, assigned, locks, frame, calls>>

\* Set finds the key removed: it inserts its element.
InsertElement(t) ==
    /\ job[t] = "ins"
    /\ LockCKIndex(t)
    /\ Found(t) = <<>>
    /\ chain' = [chain EXCEPT ![kidx[t]][key[t]] = Append(@, val[t])]
    /\ Goto(t, "check")
    /\ UNCHANGED <<bits, assigned, locks, frame, calls>>

\* Mutant: the retry looks the CKINDEX up again but does not remove the key.
RetrySet_NoRemoval(t) ==
    /\ job[t] = "ins"
    /\ LockCKIndex(t)
    /\ Found(t) # <<>>
    /\ Goto(t, "find")
    /\ UNCHANGED <<index, locks, frame, calls>>

\* Set finds the key there again, made by another Set while it held no lock:
\* it unlocks and starts over from the removal.
RetrySet(t) ==
    /\ job[t] = "ins"
    /\ LockCKIndex(t)
    /\ Found(t) # <<>>
    /\ job' = [job EXCEPT ![t] = "set"]
    /\ Goto(t, "find")
    /\ UNCHANGED <<index, locks, key, val, kidx, lvl, pos, res, calls>>

-----------------------------------------------------------------------------
\* CheckExpandingKeyArea, at the end of a Set

\* It takes the reading lock on cur_mask ...
LockMaskToCount(t) ==
    /\ pc[t] = "check"
    /\ maskW = NoThread
    /\ maskR' = maskR \cup {t}
    /\ Goto(t, "count")
    /\ UNCHANGED <<index, maskW, ckiW, frame, calls, stale>>

\* Mutant: max_mask is ignored.
TooLong_NoMaxMask(t) == ElementCount(kidx[t], Coll[key[t]]) > MaxElements

TooLong(t) == ElementCount(kidx[t], Coll[key[t]]) > MaxElements /\ bits < MaxBits

\* ... then the reading lock on the CKINDEX, looks, and releases both.
CountElements(t) ==
    /\ pc[t] = "count"
    /\ ckiW[kidx[t]][Coll[key[t]]] = NoThread
    /\ maskR' = maskR \ {t}
    /\ Goto(t, IF TooLong(t) THEN "expand" ELSE "idle")
    /\ UNCHANGED <<index, maskW, ckiW, frame, calls, stale>>

\* Mutant: the writing lock on cur_mask does not wait for its readers.
LockMaskToExpand_PastReaders(t) ==
    /\ pc[t] = "expand"
    /\ maskW = NoThread
    /\ maskW' = t
    /\ Goto(t, "grow")
    /\ UNCHANGED <<index, maskR, ckiW, frame, calls, stale>>

\* It comes back with the writing lock on cur_mask ...
LockMaskToExpand(t) ==
    /\ pc[t] = "expand"
    /\ maskW = NoThread
    /\ maskR = {}
    /\ maskW' = t
    /\ Goto(t, "grow")
    /\ UNCHANGED <<index, maskR, ckiW, frame, calls, stale>>

\* ... looks again under the lock on the CKINDEX, and ExpandKIndexArea adds
\* the KINDEXes of one more bit, none of them assigned.
ExpandKIndexArea(t) ==
    /\ pc[t] = "grow"
    /\ ckiW[kidx[t]][Coll[key[t]]] = NoThread
    /\ bits' = IF TooLong(t) THEN bits + 1 ELSE bits
    /\ maskW' = NoThread
    /\ Goto(t, "idle")
    /\ UNCHANGED <<assigned, chain, maskR, ckiW, frame, calls, stale>>

-----------------------------------------------------------------------------

Step(t) ==
    \/ FindAssigned(t)
    \/ StartArrange(t)
    \/ SkipLevel(t)
    \/ LockLower(t)
    \/ MoveUp(t)
    \/ AssignUpper(t)
    \/ ArrangeDone(t)
    \/ GetElement(t)
    \/ RemoveEx(t)
    \/ InsertElement(t)
    \/ RetrySet(t)
    \/ LockMaskToCount(t)
    \/ CountElements(t)
    \/ LockMaskToExpand(t)
    \/ ExpandKIndexArea(t)

\* Every call has been made and has returned.
Finished == calls = MaxCalls /\ \A t \in Threads : pc[t] = "idle"

Done == Finished /\ UNCHANGED vars

Next ==
    \/ \E t \in Threads :
         \/ \E j \in {"get", "del", "set"}, k \in Keys, v \in Vals : Begin(t, j, k, v)
         \/ Step(t)
    \/ Done

Spec == Init /\ [][Next]_vars

\* A thread inside a call keeps running; nobody has to make another call.
FairSpec == Spec /\ \A t \in Threads : WF_vars(Step(t))

-----------------------------------------------------------------------------
\* Properties

\* The number of elements that carry key k, in the whole file.
Copies(k) == MapThenSumSet(LAMBDA s : Len(chain[s][k]), KIndexes)

\* The KINDEXes under which an element with key k is listed.
Listed(k) == {s \in KIndexes : chain[s][k] # <<>>}

\* An element is listed only under a KINDEX its own hash selects with the
\* current mask or a shorter one, whatever expansions and moves it has been
\* through: a KINDEX on the path that GetKIndex and ArrangeToUpperKIndex walk.
Placement ==
    \A k \in Keys : \A s \in Listed(k) : \E b \in 1 .. bits : s = Slot(k, b)

\* GetKIndex stops at the first assigned KINDEX on the way down and never
\* looks below it; that is sound because KINDEXes are assigned from the
\* bottom of each path: below an assigned one there is no unassigned one.
AssignedFromBelow ==
    \A k \in Keys, b \in 2 .. bits :
        Slot(k, b) \in assigned => Slot(k, b - 1) \in assigned

\* Elements are under an unassigned KINDEX, where a lookup that does not merge
\* would step over them, only while a thread that keeps cur_mask locked for
\* reading is moving elements there.
UnassignedOnlyInTransit ==
    \A k \in Keys : \A s \in Listed(k) \ assigned :
        \E t \in maskR : pc[t] \in {"arrange", "move"} /\ Upper(t) = s

\* Two threads may arrange the same or overlapping KINDEXes at once, and each
\* locks one CKINDEX pair at a time.  Still, as long as no CKINDEX was locked
\* with a KINDEX that cur_mask had outgrown, a key has at most one element and,
\* once the KINDEX of the current mask is assigned, has it there: the one
\* window that can break lookups is the one between GetKIndex releasing
\* cur_mask and GetCKIndex locking the CKINDEX.
LookupExact ==
    ~stale =>
        \A k \in Keys : \A s \in Listed(k) :
            /\ Len(chain[s][k]) = 1
            /\ \A r \in Listed(k) : r = s
            /\ Slot(k, bits) \in assigned => s = Slot(k, bits)

\* Arranging neither loses nor copies elements, even when it merges two lists
\* or runs against another arrangement: the number of elements of a key only
\* changes in a step of a Set or Remove of that key under its CKINDEX lock.
ArrangeConserves ==
    [][UNCHANGED chain \/
       \A k \in Keys : Copies(k)' # Copies(k) =>
          \E t \in Threads : /\ key[t] = k
                             /\ pc[t] = "access"
                             /\ job[t] \in {"del", "set", "ins"}
                             /\ pc'[t] # "access"]_vars

\* cur_mask does not grow under a thread that is arranging with it or counting
\* elements against it: the reading lock on cur_mask keeps expansion out.
MaskStableForReaders ==
    [][bits' # bits => \A t \in Threads : pc[t] \notin {"arrange", "move", "count"}]_vars

\* README.md:23, "Supports multi-threading and multi-processing program.": when
\* no call is running, a key that has an element is found by the next Get.
\* Where the KINDEX of the current mask is assigned, that Get looks only there.
SettledKeysAreFound ==
    (\A t \in Threads : pc[t] = "idle") =>
        \A k \in Keys :
            Listed(k) # {} /\ Slot(k, bits) \in assigned => Slot(k, bits) \in Listed(k)

\* Every call returns: no deadlock among the locks on cur_mask and the pairs of
\* CKINDEX locks, and no endless chase between Sets that retry each other.
CallsReturn ==
    \A t \in Threads : pc[t] # "idle" ~> pc[t] = "idle"

-----------------------------------------------------------------------------
\* The inductive invariant behind Placement, AssignedFromBelow,
\* UnassignedOnlyInTransit, MaskStableForReaders and LookupExact.

Arranging(t) == pc[t] \in {"arrange", "move"}

\* Who holds cur_mask, by where the threads are.
MaskLockInv ==
    /\ \A t \in Threads : Arranging(t) \/ pc[t] = "count" => t \in maskR
    /\ \A t \in Threads : pc[t] = "grow" => maskW = t /\ maskR = {}

\* What an arranging thread has done: the levels below its own are assigned,
\* and a level at which the mask selects the same KINDEX has no positions.
LevelsAssigned(t) ==
    /\ lvl[t] \in 2 .. bits + 1
    /\ \A b \in 1 .. lvl[t] - 1 : Slot(key[t], b) \in assigned
    /\ Upper(t) = Lower(t) => pos[t] = 0
    /\ pc[t] = "move" => lvl[t] <= bits /\ Upper(t) # Lower(t)

ArrangingInv == \A t \in Threads : Arranging(t) => LevelsAssigned(t)

\* Assigned KINDEXes exist, and with each one all those its hash selects under
\* shorter masks are assigned.
AssignedInv ==
    /\ \A k \in Keys : Slot(k, 1) \in assigned
    /\ \A s \in assigned :
         /\ s \subseteq 1 .. bits
         /\ \A b \in 1 .. bits : s \cap (1 .. b) \in assigned

\* GetKIndex returns an assigned KINDEX of the key.
AccessInv ==
    \A t \in Threads : pc[t] = "access" =>
        /\ kidx[t] \in assigned
        /\ \E b \in 1 .. bits : kidx[t] = Slot(key[t], b)

\* Before anybody used an outgrown KINDEX, no element is left below the levels
\* and positions an arranging thread has passed.
NothingLeftBehind(t) ==
    \A k \in Keys : \A s \in Listed(k) :
        /\ Slot(k, lvl[t] - 1) = Lower(t) => Lower(t) \subseteq s
        /\ /\ lvl[t] <= bits
           /\ Slot(k, lvl[t]) = Upper(t)
           /\ Coll[k] < pos[t]
           => Upper(t) \subseteq s

PassedInv == ~stale => \A t \in Threads : Arranging(t) => NothingLeftBehind(t)

IndexInv ==
    /\ MaskLockInv
    /\ ArrangingInv
    /\ AssignedInv
    /\ Placement
    /\ UnassignedOnlyInTransit
    /\ AccessInv
    /\ LookupExact
    /\ PassedInv

=============================================================================
