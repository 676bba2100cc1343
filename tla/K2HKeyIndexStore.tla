-------------------------- MODULE K2HKeyIndexStore --------------------------
(***************************************************************************)
(* The key index implements the store as long as no thread is overtaken by  *)
(* an expansion between its lookup and its lock.                            *)
(***************************************************************************)
EXTENDS K2HKeyIndex

\* The value of a key is that of its element, wherever the index has it.
StoreBar ==
    [k \in Keys |->
        IF \E s \in KIndexes : chain[s][k] # <<>>
          THEN Head(chain[CHOOSE s \in KIndexes : chain[s][k] # <<>>][k])
          ELSE Missing]

\* A Set is over for its callers when its element is in the list; what it does
\* about the length of the list comes after.
JobBar ==
    [t \in Threads |->
        IF pc[t] \in {"find", "arrange", "move", "access"} THEN job[t] ELSE "idle"]

Abstract == INSTANCE K2HStore WITH store <- StoreBar, job <- JobBar

\* Until a call uses an outgrown KINDEX, every read returns what the last write
\* left, whatever arrangement and expansion happened between them, and a Set
\* never leaves two values behind: each step of the key index is a step of the
\* store or changes nothing in it (Get, Set, Remove of K2HShm).
ImplementsStore ==
    /\ Abstract!StoreInit
    /\ [][Abstract!StoreNext \/ stale']_<<StoreBar, JobBar, key, val, res>>
=============================================================================
