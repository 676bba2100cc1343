------------------------------ MODULE K2HStore ------------------------------
(***************************************************************************)
(* What the key index promises its callers, with every lock, index and     *)
(* expansion forgotten: a map from keys to values on which each call of a   *)
(* thread takes effect in one instant.  A Set takes effect in two: the old  *)
(* element is removed and its lock released before the new element is       *)
(* inserted (K2HShm::Set, src/lib/k2hshm.cc:2120), so other threads can see *)
(* the key absent in between and a competing Set can get there first.       *)
(***************************************************************************)
EXTENDS Naturals

CONSTANTS
    Threads,    \* callers
    Keys,
    Vals,
    Missing     \* what a Get of an absent key returns; not a value

VARIABLES
    store,      \* the value of every key, or Missing
    job,        \* what each thread is doing
    key,        \* the key of its call
    val,        \* the value of its Set
    res         \* the result of its last Get

storeVars == <<store, job, key, val, res>>

Jobs == {"idle", "get", "del", "set", "ins"}

StoreTypeOK ==
    /\ store \in [Keys -> Vals \cup {Missing}]
    /\ job \in [Threads -> Jobs]
    /\ key \in [Threads -> Keys]
    /\ val \in [Threads -> Vals]
    /\ res \in [Threads -> Vals \cup {Missing}]

StoreInit ==
    /\ store = [k \in Keys |-> Missing]
    /\ job = [t \in Threads |-> "idle"]
    /\ key \in [Threads -> Keys]
    /\ val \in [Threads -> Vals]
    /\ res = [t \in Threads |-> Missing]

Call(t, j, k, v) ==
    /\ job[t] = "idle"
    /\ job' = [job EXCEPT ![t] = j]
    /\ key' = [key EXCEPT ![t] = k]
    /\ val' = [val EXCEPT ![t] = v]
    /\ UNCHANGED <<store, res>>

Read(t) ==
    /\ job[t] = "get"
    /\ res' = [res EXCEPT ![t] = store[key[t]]]
    /\ job' = [job EXCEPT ![t] = "idle"]
    /\ UNCHANGED <<store, key, val>>

Delete(t) ==
    /\ job[t] = "del"
    /\ store' = [store EXCEPT ![key[t]] = Missing]
    /\ job' = [job EXCEPT ![t] = "idle"]
    /\ UNCHANGED <<key, val, res>>

\* First instant of a Set: the old value goes.
Clear(t) ==
    /\ job[t] = "set"
    /\ store' = [store EXCEPT ![key[t]] = Missing]
    /\ job' = [job EXCEPT ![t] = "ins"]
    /\ UNCHANGED <<key, val, res>>

\* Second instant of a Set: the new value appears, unless another Set of the
\* same key came first, in which case this one starts again.
Put(t) ==
    /\ job[t] = "ins"
    /\ IF store[key[t]] = Missing
         THEN /\ store' = [store EXCEPT ![key[t]] = val[t]]
              /\ job' = [job EXCEPT ![t] = "idle"]
         ELSE /\ job' = [job EXCEPT ![t] = "set"]
              /\ UNCHANGED store
    /\ UNCHANGED <<key, val, res>>

StoreNext ==
    \E t \in Threads :
        \/ \E j \in {"get", "del", "set"}, k \in Keys, v \in Vals : Call(t, j, k, v)
        \/ Read(t)
        \/ Delete(t)
        \/ Clear(t)
        \/ Put(t)

StoreSpec == StoreInit /\ [][StoreNext]_storeVars
=============================================================================
