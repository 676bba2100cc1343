---------------------------- MODULE K2HQueueSpec ----------------------------
(***************************************************************************)
(* What a queue of K2HShm promises its callers: a sequence of keys, from    *)
(* whose top a Pop or a Remove takes one, and to whose end (FIFO) or top    *)
(* (LIFO) a Push adds one, each in one instant.                             *)
(***************************************************************************)
EXTENDS Sequences

CONSTANTS
    Threads,
    Keys,
    NoKey,      \* a Pop of an empty queue
    Failed      \* a Pop that returns false

VARIABLES
    items,      \* the queued keys, from the top
    fifo,       \* which end a Push adds to
    job,        \* what each thread is doing
    key,        \* the key of its Push
    res         \* what its last Pop returned

queueVars == <<items, fifo, job, key, res>>

QueueInit ==
    /\ items = <<>>
    /\ fifo \in BOOLEAN
    /\ job = [t \in Threads |-> "idle"]
    /\ key \in [Threads -> Keys]
    /\ res = [t \in Threads |-> NoKey]

Call(t, j, k) ==
    /\ job[t] = "idle"
    /\ job' = [job EXCEPT ![t] = j]
    /\ key' = [key EXCEPT ![t] = k]
    /\ UNCHANGED <<items, fifo, res>>

Push(t) ==
    /\ job[t] = "push"
    /\ items' = IF fifo THEN Append(items, key[t]) ELSE <<key[t]>> \o items
    /\ job' = [job EXCEPT ![t] = "idle"]
    /\ UNCHANGED <<fifo, key, res>>

Pop(t) ==
    /\ job[t] = "pop"
    /\ items # <<>>
    /\ items' = Tail(items)
    /\ res' = [res EXCEPT ![t] = Head(items)]
    /\ job' = [job EXCEPT ![t] = "idle"]
    /\ UNCHANGED <<fifo, key>>

\* Nothing to pop.  A Pop that has seen a key which another one took before it
\* returns false instead.
PopNothing(t) ==
    /\ job[t] = "pop"
    /\ items = <<>>
    /\ \E r \in {NoKey, Failed} : res' = [res EXCEPT ![t] = r]
    /\ job' = [job EXCEPT ![t] = "idle"]
    /\ UNCHANGED <<items, fifo, key>>

\* A Remove takes any number of keys.
Take(t) ==
    /\ job[t] = "rem"
    /\ items # <<>>
    /\ items' = Tail(items)
    /\ UNCHANGED <<fifo, job, key, res>>

Removed(t) ==
    /\ job[t] = "rem"
    /\ job' = [job EXCEPT ![t] = "idle"]
    /\ UNCHANGED <<items, fifo, key, res>>

QueueNext ==
    \E t \in Threads :
        \/ \E j \in {"push", "pop", "rem"}, k \in Keys : Call(t, j, k)
        \/ Push(t)
        \/ Pop(t)
        \/ PopNothing(t)
        \/ Take(t)
        \/ Removed(t)

QueueSpec == QueueInit /\ [][QueueNext]_queueVars
=============================================================================
