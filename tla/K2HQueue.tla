------------------------------ MODULE K2HQueue ------------------------------
(***************************************************************************)
(* The queues that K2HShm builds out of ordinary keys                       *)
(* (src/lib/k2hshmque.cc, src/lib/k2hqueue.cc).  A queued key has the next  *)
(* one as its only subkey; a marker, a key of its own, names the first and  *)
(* the last.  There is no lock on a queue: a call locks the CKINDEX of the  *)
(* marker, or of one queued key, for one look or one change at a time, and  *)
(* compares what it reads then with what it read before.                    *)
(*                                                                          *)
(* One action is what a call does under one such lock.  A Set of the marker *)
(* is made under the lock of the marker, which the code takes twice and     *)
(* notes to be harmless.  Left out: what the values are, attributes and     *)
(* expiry, and a Set that finds no room.                                    *)
(***************************************************************************)
EXTENDS Naturals, Sequences, FiniteSets, SequencesExt

CONSTANTS
    Threads,        \* threads (of any process) that use the queue
    Keys,           \* the unique key names GetUniqKey makes
    NoKey,          \* a name of length 0
    Failed,         \* the result of a call that returns false
    Together,       \* Together[fifo]: the sets of kinds of calls that the
                    \* callers of a queue of that kind let overlap
    MaxCalls,       \* bound on the number of calls, shared by the threads
    MaxCount        \* bound on the count of a RemoveQueue

ASSUME QueueAssumption ==
    /\ Keys # {} /\ IsFiniteSet(Keys) /\ NoKey \notin Keys /\ Failed \notin Keys /\ Failed # NoKey
    /\ Together \in [BOOLEAN -> SUBSET SUBSET {"push", "pop", "rem"}]
    /\ MaxCalls \in Nat /\ MaxCount \in Nat

VARIABLES
    marker,     \* the marker: the names of its start and end keys
    exists,     \* the queued keys that are in the k2hash
    next,       \* next[k]: the subkey of key k
    fresh,      \* names not made yet
    fifo,       \* is_fifo of the queue, given when it is opened
    pc,         \* where each thread is
    job,        \* the call it is in
    key,        \* the key it pushes
    before,     \* the marker it read without keeping the lock
    last,       \* last_endkey
    nxt,        \* the name it read from the subkeys of the start key, or of top
    junk,       \* what its Set has still to remove: a chain of subkeys
    top,        \* ptopkey of RemoveQueue
    held,       \* it has got the value of the key to take
    left,       \* rounds left of RemoveQueue
    res,        \* the result of its last Pop
    calls,      \* calls begun so far
    pushed,     \* (auxiliary) keys whose push has returned true
    taken,      \* (auxiliary) keys that a call has taken off the marker
    met         \* (auxiliary) the kinds of calls that have overlapped so far

store == <<marker, exists, next, fresh, fifo>>
frame == <<key, before, last, nxt, junk, top, held, left>>
aux   == <<pushed, taken>>
vars  == <<store, pc, job, frame, res, calls, aux, met>>

-----------------------------------------------------------------------------

Kinds == {{j, i} : j, i \in {"push", "pop", "rem"}}
Names == Keys \cup {NoKey}
Markers == [start : Names, end : Names]
NoMarker == [start |-> NoKey, end |-> NoKey]

Steps == {"idle", "read", "link", "mark", "check", "set", "erase",
          "next", "value", "ask", "unmark", "drop", "rest", "after", "cut"}

TypeOK ==
    /\ marker \in Markers
    /\ exists \subseteq Keys
    /\ next \in [Keys -> Names]
    /\ fresh \subseteq Keys
    /\ fifo \in BOOLEAN
    /\ pc \in [Threads -> Steps]
    /\ job \in [Threads -> {"push", "pop", "rem"}]
    /\ key \in [Threads -> Keys]
    /\ before \in [Threads -> Markers]
    /\ last \in [Threads -> Names]
    /\ nxt \in [Threads -> Names]
    /\ junk \in [Threads -> Names]
    /\ top \in [Threads -> Names]
    /\ held \in [Threads -> BOOLEAN]
    /\ left \in [Threads -> 0 .. MaxCount]
    /\ res \in [Threads -> Names \cup {Failed}]
    /\ calls \in 0 .. MaxCalls
    /\ pushed \subseteq Keys
    /\ taken \subseteq Keys
    /\ met \subseteq Kinds

Init ==
    /\ marker = NoMarker
    /\ exists = {}
    /\ next = [k \in Keys |-> NoKey]
    /\ fresh = Keys
    /\ fifo \in BOOLEAN
    /\ pc = [t \in Threads |-> "idle"]
    /\ job = [t \in Threads |-> "pop"]
    /\ key = [t \in Threads |-> CHOOSE k \in Keys : TRUE]
    /\ before = [t \in Threads |-> NoMarker]
    /\ last = [t \in Threads |-> NoKey]
    /\ nxt = [t \in Threads |-> NoKey]
    /\ junk = [t \in Threads |-> NoKey]
    /\ top = [t \in Threads |-> NoKey]
    /\ held = [t \in Threads |-> FALSE]
    /\ left = [t \in Threads |-> 0]
    /\ res = [t \in Threads |-> NoKey]
    /\ calls = 0
    /\ pushed = {}
    /\ taken = {}
    /\ met = {}

Goto(t, step) == pc' = [pc EXCEPT ![t] = step]

\* GetMarker returns NULL when the marker has no start key.
GetMarker == IF marker.start = NoKey THEN NoMarker ELSE marker

\* GetSubKeys: the first subkey of a key that is there.
SubKey(k) == IF k \in exists THEN next[k] ELSE NoKey

\* The call ends, and what it kept in its frame with it.
Return(t) ==
    /\ Goto(t, "idle")
    /\ before' = [before EXCEPT ![t] = NoMarker]
    /\ last' = [last EXCEPT ![t] = NoKey]
    /\ nxt' = [nxt EXCEPT ![t] = NoKey]
    /\ top' = [top EXCEPT ![t] = NoKey]
    /\ held' = [held EXCEPT ![t] = FALSE]
    /\ left' = [left EXCEPT ![t] = 0]
    /\ UNCHANGED <<job, key, junk>>

\* Calls that take keys may overlap without harm, and so may FIFO pushes.
Harmless == {{"pop"}, {"rem"}, {"pop", "rem"}} \cup (IF fifo THEN {{"push"}} ELSE {})

\* A push has overlapped with a call that takes keys, or a LIFO push with another.
mixed == ~ (met \subseteq Harmless)

\* Callers let only the calls of Together[fifo] overlap.
Begin(t, j, step) ==
    /\ pc[t] = "idle"
    /\ calls < MaxCalls
    /\ \A u \in Threads \ {t} : pc[u] # "idle" => {j, job[u]} \in Together[fifo]
    /\ calls' = calls + 1
    /\ job' = [job EXCEPT ![t] = j]
    /\ Goto(t, step)
    /\ met' = met \cup {{j, job[u]} : u \in {v \in Threads \ {t} : pc[v] # "idle"}}
    /\ UNCHANGED <<res, aux>>

-----------------------------------------------------------------------------
\* AddFifoQueue and AddLifoQueue

\* GetUniqKey: a name not made yet.  Names differ in nothing else, so one of
\* them stands for all.
UniqKey == CHOOSE k \in fresh : TRUE

\* A Push has made a new name.  AddFifoQueue sets the new key right away,
\* AddLifoQueue once it has read the marker.
BeginPush(t) ==
    /\ Begin(t, "push", "read")
    /\ fresh # {}
    /\ fresh' = fresh \ {UniqKey}
    /\ key' = [key EXCEPT ![t] = UniqKey]
    /\ exists' = IF fifo THEN exists \cup {UniqKey} ELSE exists
    /\ UNCHANGED <<marker, next, fifo, before, last, nxt, junk, top, held, left>>

\* The marker is read and its lock released.
ReadMarker(t) ==
    /\ pc[t] = "read"
    /\ job[t] = "push"
    /\ before' = [before EXCEPT ![t] = GetMarker]
    /\ last' = [last EXCEPT ![t] = IF GetMarker = NoMarker THEN NoKey ELSE @]
    /\ Goto(t, IF ~fifo THEN "set" ELSE IF GetMarker = NoMarker THEN "mark" ELSE "link")
    /\ UNCHANGED <<store, job, key, nxt, junk, top, held, left, res, calls, aux>>

\* FIFO, under the lock of the end key: the new key becomes its subkey ...
Link(t) ==
    /\ pc[t] = "link"
    /\ before[t].end \in exists
    /\ next[before[t].end] = NoKey
    /\ next' = [next EXCEPT ![before[t].end] = key[t]]
    /\ last' = [last EXCEPT ![t] = NoKey]
    /\ Goto(t, "mark")
    /\ UNCHANGED <<marker, exists, fresh, fifo, job, key, before, nxt, junk, top, held, left, res, calls, aux>>

\* ... unless it has one already: the marker is read again ...
LinkTaken(t) ==
    /\ pc[t] = "link"
    /\ before[t].end \in exists
    /\ next[before[t].end] # NoKey
    /\ last' = [last EXCEPT ![t] = NoKey]
    /\ Goto(t, "read")
    /\ UNCHANGED <<store, job, key, before, nxt, junk, top, held, left, res, calls, aux>>

\* ... or the end key is gone: the marker is read again, and the second time
\* the same key is not found the push fails.  The new key stays.
LinkGone(t) ==
    /\ pc[t] = "link"
    /\ before[t].end \notin exists
    /\ IF before[t].end = last[t]
         THEN Return(t)
         ELSE /\ last' = [last EXCEPT ![t] = before[t].end]
              /\ Goto(t, "read")
              /\ UNCHANGED <<job, key, before, nxt, junk, top, held, left>>
    /\ UNCHANGED <<store, res, calls, aux>>

\* LIFO: Set makes the new key, with the start key as its subkey.  If it is not
\* the first try the key is there already, with the start key of the last try
\* as its subkey, and Set goes on to remove that subkey.
SetNewKey(t) ==
    LET old == SubKey(key[t])
    IN  /\ pc[t] = "set"
        /\ exists' = exists \cup {key[t]}
        /\ next' = [next EXCEPT ![key[t]] = before[t].start]
        /\ IF old \in {NoKey, before[t].start}
             THEN Goto(t, "mark") /\ UNCHANGED junk
             ELSE Goto(t, "erase") /\ junk' = [junk EXCEPT ![t] = old]
        /\ UNCHANGED <<marker, fresh, fifo, job, key, before, last, nxt, top, held, left, res, calls, aux>>

\* RemoveSubkeys: one key after another, each with the subkey it has.
EraseSubKey(t) ==
    /\ pc[t] = "erase"
    /\ exists' = exists \ {junk[t]}
    /\ next' = [next EXCEPT ![junk[t]] = NoKey]
    /\ junk' = [junk EXCEPT ![t] = SubKey(@)]
    /\ Goto(t, IF SubKey(junk[t]) = NoKey THEN "mark" ELSE "erase")
    /\ UNCHANGED <<marker, fresh, fifo, job, key, before, last, nxt, top, held, left, res, calls, aux>>

\* The name in a marker next to which a push adds its key.
Edge(m) == IF fifo THEN m.end ELSE m.start

\* UpdateK2HMarker
Updated(m, k) ==
    CASE m = NoMarker -> [start |-> k, end |-> k]
      [] m # NoMarker /\ fifo -> [m EXCEPT !.end = k]
      [] m # NoMarker /\ ~fifo -> [m EXCEPT !.start = k]

PushReturns(t) ==
    /\ Return(t)
    /\ pushed' = pushed \cup {key[t]}
    /\ UNCHANGED taken

\* Mutant: the marker is not compared with what it was before.
Mark_Unchecked(t) ==
    /\ pc[t] = "mark"
    /\ marker' = Updated(GetMarker, key[t])
    /\ PushReturns(t)
    /\ UNCHANGED <<exists, next, fresh, fifo, res, calls>>

\* Under the lock of the marker: it is as it was before, and now names the new
\* key.
Mark(t) ==
    /\ pc[t] = "mark"
    /\ Edge(GetMarker) = Edge(before[t])
    /\ marker' = Updated(GetMarker, key[t])
    /\ PushReturns(t)
    /\ UNCHANGED <<exists, next, fresh, fifo, res, calls>>

\* Mutant: a push that lost the race goes on with the marker it has.
MarkAgain_Stale(t) ==
    /\ pc[t] = "mark"
    /\ Edge(GetMarker) # Edge(before[t])
    /\ fifo => before[t] = NoMarker
    /\ Goto(t, IF fifo THEN "mark" ELSE "set")
    /\ UNCHANGED <<store, job, frame, res, calls, aux>>

\* FIFO: the queue has become empty since.  The new key was the subkey of its
\* end key, so it is taken to have been popped.
MarkAfterEmptied(t) ==
    /\ pc[t] = "mark"
    /\ fifo
    /\ GetMarker = NoMarker
    /\ before[t] # NoMarker
    /\ PushReturns(t)
    /\ UNCHANGED <<store, res, calls>>

\* The queue was empty and is not any more, or, LIFO, has another start key
\* (never the new one, which no marker names yet): all over again.
MarkAgain(t) ==
    /\ pc[t] = "mark"
    /\ Edge(GetMarker) # Edge(before[t])
    /\ fifo => before[t] = NoMarker
    /\ Goto(t, "read")
    /\ UNCHANGED <<store, job, frame, res, calls, aux>>

\* FIFO: the queue has another end key, the new one or not.
MarkOther(t) ==
    /\ pc[t] = "mark"
    /\ fifo
    /\ before[t] # NoMarker /\ GetMarker # NoMarker
    /\ GetMarker.end # before[t].end
    /\ IF GetMarker.end = key[t]
         THEN PushReturns(t)
         ELSE /\ before' = [before EXCEPT ![t] = GetMarker]
              /\ Goto(t, "check")
              /\ UNCHANGED <<job, key, last, nxt, junk, top, held, left, aux>>
    /\ UNCHANGED <<store, res, calls>>

\* Under the lock of the new key: it is gone, or has a subkey, so it has been
\* queued; otherwise all over again from the marker last read.
CheckNewKey(t) ==
    /\ pc[t] = "check"
    /\ IF key[t] \notin exists \/ SubKey(key[t]) # NoKey
         THEN PushReturns(t)
         ELSE Goto(t, "link") /\ UNCHANGED <<job, frame, aux>>
    /\ UNCHANGED <<store, res, calls>>

-----------------------------------------------------------------------------
\* PopQueueEx, and RemoveQueue of the start key

BeginPop(t) ==
    /\ Begin(t, "pop", "read")
    /\ UNCHANGED <<store, frame>>

BeginRemove(t, n) ==
    /\ Begin(t, "rem", "read")
    /\ left' = [left EXCEPT ![t] = n]
    /\ UNCHANGED <<store, key, before, last, nxt, junk, top, held>>

\* Mutant: one round too many.
ReadStart_OneMore(t) ==
    /\ pc[t] = "read"
    /\ job[t] \in {"pop", "rem"}
    /\ IF GetMarker = NoMarker
         THEN /\ Return(t)
              /\ res' = [res EXCEPT ![t] = IF job[t] = "pop" THEN NoKey ELSE @]
         ELSE /\ before' = [before EXCEPT ![t] = GetMarker]
              /\ Goto(t, "next")
              /\ UNCHANGED <<job, key, last, nxt, junk, top, held, left, res>>
    /\ UNCHANGED <<store, calls, aux>>

\* The marker is read ...
ReadStart(t) ==
    /\ pc[t] = "read"
    /\ job[t] = "pop" \/ (job[t] = "rem" /\ left[t] > 0)
    /\ IF GetMarker = NoMarker
         THEN /\ Return(t)
              /\ res' = [res EXCEPT ![t] = IF job[t] = "pop" THEN NoKey ELSE @]
         ELSE /\ before' = [before EXCEPT ![t] = GetMarker]
              /\ Goto(t, "next")
              /\ UNCHANGED <<job, key, last, nxt, junk, top, held, left, res>>
    /\ UNCHANGED <<store, calls, aux>>

\* ... and then the subkey of its start key, the next start key ...
ReadNext(t) ==
    /\ pc[t] = "next"
    /\ nxt' = [nxt EXCEPT ![t] = SubKey(before[t].start)]
    /\ Goto(t, "value")
    /\ UNCHANGED <<store, job, key, before, last, junk, top, held, left, res, calls, aux>>

\* ... and the value of the key to take, the start key or, in RemoveQueue, the
\* key behind top.  RemoveQueue asks its callback about a value it has got.
ReadValue(t) ==
    LET victim == IF top[t] = NoKey THEN before[t].start ELSE nxt[t]
    IN  /\ pc[t] = "value"
        /\ held' = [held EXCEPT ![t] = victim \in exists]
        /\ Goto(t, IF job[t] = "rem" /\ victim \in exists THEN "ask"
                   ELSE IF top[t] = NoKey THEN "unmark" ELSE "cut")
        /\ UNCHANGED <<store, job, key, before, last, nxt, junk, top, left, res, calls, aux>>

\* A round of RemoveQueue is over.
EndRound(t, step) ==
    /\ Goto(t, step)
    /\ left' = [left EXCEPT ![t] = @ - 1]

\* Mutant: the marker is not compared with what it was before.
Unmark_Unchecked(t) ==
    /\ pc[t] = "unmark"
    /\ GetMarker # NoMarker
    /\ marker' = [marker EXCEPT !.start = nxt[t]]
    /\ taken' = taken \cup {before[t].start}
    /\ Goto(t, "drop")
    /\ UNCHANGED <<exists, next, fresh, fifo, job, frame, res, calls, pushed>>

\* Under the lock of the marker: it has the start key it had before, and its
\* subkey becomes the start key; the end key stays.
Unmark(t) ==
    /\ pc[t] = "unmark"
    /\ GetMarker # NoMarker /\ GetMarker.start = before[t].start
    /\ marker' = [marker EXCEPT !.start = nxt[t]]
    /\ taken' = taken \cup {before[t].start}
    /\ Goto(t, "drop")
    /\ UNCHANGED <<exists, next, fresh, fifo, job, frame, res, calls, pushed>>

\* It has another one: a Pop starts over, and a RemoveQueue has lost a round.
UnmarkAgain(t) ==
    /\ pc[t] = "unmark"
    /\ GetMarker # NoMarker /\ GetMarker.start # before[t].start
    /\ IF job[t] = "rem" THEN EndRound(t, "read") ELSE Goto(t, "read") /\ UNCHANGED left
    /\ UNCHANGED <<store, job, key, before, last, nxt, junk, top, held, res, calls, aux>>

\* It has none: a Pop returns false.
UnmarkEmpty(t) ==
    /\ pc[t] = "unmark"
    /\ GetMarker = NoMarker
    /\ Return(t)
    /\ res' = [res EXCEPT ![t] = IF job[t] = "pop" THEN Failed ELSE @]
    /\ UNCHANGED <<store, calls, aux>>

\* Mutant: the key is removed with its subkey.
Dropped_WithSubKey(t) ==
    /\ exists' = exists \ {before[t].start, SubKey(before[t].start)}
    /\ next' = [next EXCEPT ![before[t].start] = NoKey]

\* Remove, after unlocking the marker: the key goes.
Dropped(t) ==
    /\ exists' = exists \ {before[t].start}
    /\ next' = [next EXCEPT ![before[t].start] = NoKey]

Drop(t) ==
    /\ pc[t] = "drop"
    /\ job[t] = "pop"
    /\ Dropped(t)
    /\ Return(t)
    /\ res' = [res EXCEPT ![t] = before[t].start]
    /\ UNCHANGED <<marker, fresh, fifo, calls, aux>>

\* RemoveQueue then also removes the ordinary key whose name is the value it
\* got, under a lock of its own; no queue reads that key.
DropWithValue(t) ==
    /\ pc[t] = "drop"
    /\ job[t] = "rem"
    /\ Dropped(t)
    /\ EndRound(t, "read")
    /\ UNCHANGED <<marker, fresh, fifo, job, key, before, last, nxt, junk, top, held, res, calls, aux>>

-----------------------------------------------------------------------------
\* RemoveQueue

\* The callback is asked about a value: to remove it or to keep it.  The answers
\* that are to end the removal are taken for those that go on; an error ends it.

\* About the start key: to remove it, or to leave it where it is and go on
\* behind it.
AskTop(t, answer) ==
    /\ pc[t] = "ask" /\ top[t] = NoKey
    /\ IF answer = "remove"
         THEN Goto(t, "unmark") /\ UNCHANGED <<top, left>>
         ELSE /\ top' = [top EXCEPT ![t] = before[t].start]
              /\ EndRound(t, "rest")
    /\ UNCHANGED <<store, job, key, before, last, nxt, junk, held, res, calls, aux>>

\* Behind a key that stays: the marker is read ...
ReadEnd(t) ==
    /\ pc[t] = "rest"
    /\ left[t] > 0
    /\ IF GetMarker = NoMarker \/ GetMarker.end = top[t]
         THEN Return(t)
         ELSE Goto(t, "after") /\ UNCHANGED <<job, frame>>
    /\ UNCHANGED <<store, res, calls, aux>>

\* ... and the subkey of that key, and then its value.
ReadAfter(t) ==
    /\ pc[t] = "after"
    /\ SubKey(top[t]) # NoKey
    /\ nxt' = [nxt EXCEPT ![t] = SubKey(top[t])]
    /\ Goto(t, "value")
    /\ UNCHANGED <<store, job, key, before, last, junk, top, held, left, res, calls, aux>>

AskAfter(t, answer) ==
    /\ pc[t] = "ask" /\ top[t] # NoKey
    /\ IF answer = "remove"
         THEN Goto(t, "cut") /\ UNCHANGED <<top, left>>
         ELSE top' = [top EXCEPT ![t] = nxt[t]] /\ EndRound(t, "rest")
    /\ UNCHANGED <<store, job, key, before, last, nxt, junk, held, res, calls, aux>>

AfterLast(t) ==
    /\ pc[t] = "after"
    /\ SubKey(top[t]) = NoKey
    /\ Return(t)
    /\ UNCHANGED <<store, res, calls, aux>>

AskFails(t) ==
    /\ pc[t] = "ask"
    /\ Return(t)
    /\ UNCHANGED <<store, res, calls, aux>>

\* Under the lock of the key that stays its subkey is read again, and the call
\* stops if it is gone or if it is still the same.  What the code would do with
\* a different one is left out: a subkey of a queued key is never replaced.
StopCutting(t) ==
    /\ pc[t] = "cut"
    /\ SubKey(top[t]) \in {NoKey, nxt[t]}
    /\ Return(t)
    /\ UNCHANGED <<store, res, calls, aux>>

RoundsOver(t) ==
    /\ pc[t] \in {"read", "rest"}
    /\ job[t] = "rem"
    /\ left[t] = 0
    /\ Return(t)
    /\ UNCHANGED <<store, res, calls, aux>>

-----------------------------------------------------------------------------

Step(t) ==
    /\ UNCHANGED met
    /\ \/ ReadMarker(t)
       \/ Link(t)
       \/ LinkTaken(t)
       \/ LinkGone(t)
       \/ SetNewKey(t)
       \/ EraseSubKey(t)
       \/ Mark(t)
       \/ MarkAfterEmptied(t)
       \/ MarkAgain(t)
       \/ MarkOther(t)
       \/ CheckNewKey(t)
       \/ ReadStart(t)
       \/ ReadNext(t)
       \/ ReadValue(t)
       \/ Unmark(t)
       \/ UnmarkAgain(t)
       \/ UnmarkEmpty(t)
       \/ Drop(t)
       \/ DropWithValue(t)
       \/ \E answer \in {"remove", "keep"} : AskTop(t, answer)
       \/ \E answer \in {"remove", "keep"} : AskAfter(t, answer)
       \/ AskFails(t)
       \/ ReadEnd(t)
       \/ ReadAfter(t)
       \/ AfterLast(t)
       \/ StopCutting(t)
       \/ RoundsOver(t)

\* Every call has been made and has returned.
Done ==
    /\ calls = MaxCalls \/ fresh = {}
    /\ \A t \in Threads : pc[t] = "idle"
    /\ UNCHANGED vars

Next ==
    \/ \E t \in Threads :
         \/ BeginPush(t)
         \/ BeginPop(t)
         \/ \E n \in 1 .. MaxCount : BeginRemove(t, n)
         \/ Step(t)
    \/ Done

Spec == Init /\ [][Next]_vars

\* A thread that can go on does; what locks it waits for are released in the
\* same step, so that weak fairness is enough.
FairSpec == Spec /\ \A t \in Threads : WF_vars(Step(t))

-----------------------------------------------------------------------------
\* Properties

\* The keys that Pop after Pop would return: the start key, its subkey, and so
\* on.  The end key plays no part.
Chain ==
    LET f[n \in 0 .. Cardinality(Keys)] ==
          IF n = 0
            THEN IF marker.start = NoKey THEN <<>> ELSE <<marker.start>>
            ELSE LET prev == f[n - 1]
                 IN  IF prev = <<>> \/ SubKey(Last(prev)) = NoKey
                       THEN prev
                       ELSE Append(prev, SubKey(Last(prev)))
    IN  f[Cardinality(Keys)]

\* A key whose push has returned true is in the queue until a Pop or a
\* RemoveQueue takes it (AddFifoQueue, AddLifoQueue, PopQueueEx).
NothingLost == pushed \ taken \subseteq ToSet(Chain) \cap exists

\* It is, as long as pushes overlap with no call that takes keys, nor LIFO pushes
\* with each other.
NothingLostApart == ~mixed => NothingLost

\* What that needs to be kept apart: of a FIFO queue, pushes from each other or from
\* the calls that take keys; of a LIFO queue, pushes from every other call.
PushesApart == ~mixed \/ (fifo /\ {"push"} \notin met)

\* Then no key is taken off the queue twice, even where a pushed key may be lost: what a
\* Pop has returned no other Pop or RemoveQueue gets; and a Pop that takes a key has got
\* its value, which it reads before and does without if there is none (PopQueueEx).
TakenOnceAndWhole ==
    [][\A t \in Threads :
         PushesApart /\ pc[t] = "unmark" /\ pc'[t] = "drop" =>
             /\ before[t].start \notin taken
             /\ job[t] = "pop" => held[t]]_vars

\* Every call comes to an end, retries included.
CallsReturn == \A t \in Threads : pc[t] # "idle" ~> pc[t] = "idle"
=============================================================================
