----------------------------- MODULE MCDAccess -----------------------------
(***************************************************************************)
(* K2HDAccess on small instances: pages of two bytes, values of up to three  *)
(* pages.                                                                   *)
(***************************************************************************)
EXTENDS K2HDAccess

CONSTANTS t1, t2

MCThreads == {t1, t2}
MCTexts == {<<1>>, <<2, 3, 1>>}

\* Two processes that map the whole file, both of which write.
Mapped == [mapped |-> [t \in MCThreads |-> TRUE],
           modes |-> (t1 :> {"rw"}) @@ (t2 :> {"read", "write"}),
           longest |-> 5, growFull |-> FALSE]

\* One process does not map the whole file; it reads and writes with one object,
\* up to two pages, and the other writes beside it.
FileWriter == [mapped |-> (t1 :> FALSE) @@ (t2 :> TRUE),
               modes |-> (t1 :> {"write", "rw"}) @@ (t2 :> {"read", "write"}),
               longest |-> 4, growFull |-> FALSE]

\* The one that reads long values does not map the whole file.
FileReader == [mapped |-> (t1 :> TRUE) @@ (t2 :> FALSE),
               modes |-> (t1 :> {"write"}) @@ (t2 :> {"read"}),
               longest |-> 5, growFull |-> FALSE]

\* No process maps the whole file.
Files == [mapped |-> [t \in MCThreads |-> FALSE],
          modes |-> (t1 :> {"rw"}) @@ (t2 :> {"write"}),
          longest |-> 4, growFull |-> FALSE]

MCCallers == {Mapped, FileWriter, FileReader, Files}

\* One process that does not map the whole file writes more than two pages.
MCLongFile == {[mapped |-> [t \in MCThreads |-> FALSE],
                modes |-> (t1 :> {"write"}) @@ (t2 :> {"read"}),
                longest |-> 6, growFull |-> FALSE]}
=============================================================================
