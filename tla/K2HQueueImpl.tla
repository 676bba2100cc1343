---------------------------- MODULE K2HQueueImpl ----------------------------
(***************************************************************************)
(* K2HQueue as an implementation of K2HQueueSpec.  A push takes effect when *)
(* the new key becomes the subkey of the end key, or, into an empty queue   *)
(* and for LIFO, when the marker names it; a Pop when the marker stops      *)
(* naming the popped key; the rest of each call is invisible.               *)
(***************************************************************************)
EXTENDS K2HQueue

\* A push whose key is in the chain, and a Pop which has taken its key, are over.
TookEffect(t) ==
    \/ job[t] = "push" /\ fifo /\ pc[t] = "mark" /\ before[t] # NoMarker
    \/ job[t] = "push" /\ pc[t] = "check"
    \/ job[t] = "pop" /\ pc[t] = "drop"

JobBar == [t \in Threads |-> IF pc[t] = "idle" \/ TookEffect(t) THEN "idle" ELSE job[t]]

ResBar == [t \in Threads |->
             IF job[t] = "pop" /\ pc[t] = "drop" THEN before[t].start ELSE res[t]]

Abstract == INSTANCE K2HQueueSpec WITH items <- Chain, job <- JobBar, res <- ResBar

\* Until a push overlaps with a call that takes keys, or a LIFO push with another,
\* every call adds or takes in one instant what a queue of its kind would, and a
\* Pop returns that key (AddFifoQueue, AddLifoQueue, PopQueueEx, RemoveQueue).
ImplementsQueue ==
    /\ Abstract!QueueInit
    /\ [][Abstract!QueueNext \/ mixed']_<<Chain, fifo, JobBar, key, ResBar>>
=============================================================================
