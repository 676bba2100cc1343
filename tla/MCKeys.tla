------------------------------- MODULE MCKeys -------------------------------
(***************************************************************************)
(* K2HKeys on small instances: two threads, three names, three or four calls.*)
(***************************************************************************)
EXTENDS K2HKeys, TLC

CONSTANTS t1, t2

MCThreads == {t1, t2}

Call(op, n) == [NoCall EXCEPT !.op = op, !.key = n, !.text = "a"]
SetTo(n, text, pass) == [Call("set", n) EXCEPT !.text = text, !.pass = pass]
SetFor(n, secs) == [Call("set", n) EXCEPT !.expire = secs]
SetWith(n, list) == [Call("setall", n) EXCEPT !.list = list]
SetList(n, list) == [Call("setsubkeys", n) EXCEPT !.list = list]
SubkeyTo(op, n, sub) == [Call(op, n) EXCEPT !.arg = sub]
RemoveAll(n) == [Call("remove", n) EXCEPT !.rm = TRUE]
NewPass(pass, isDefault) == [Call("addpass", 0) EXCEPT !.pass = pass, !.rm = isDefault]

Plain == [mtime |-> FALSE, history |-> FALSE, expire |-> NotExpire, defenc |-> FALSE,
          type |-> "pbkdf2", file |-> <<>>]
Both(settings) == [t \in MCThreads |-> settings]

E(text, subs) == ElementOf(Stored(text, NoPass, "pbkdf2"), subs, NoAttrs)

\* A key with two subkeys, the first of which has the second below it too.
Tree == (1 :> E("a", <<2, 3>>)) @@ (2 :> E("a", <<3>>)) @@ (3 :> E("a", <<>>))
One == 1 :> E("a", <<>>)

\* Sets, removals and lists of subkeys of one tree.
Trees == [settings |-> Both(Plain), start |-> Tree, maxCalls |-> 3, maxTime |-> 0, toFreeName |-> TRUE,
          calls |-> (t1 :> {SetWith(1, <<3, 2>>), SetWith(1, <<3>>), RemoveAll(1), SetList(2, <<1, 3>>),
                            SubkeyTo("addsubkey", 1, 2), SubkeyTo("removesubkey", 1, 2)})
                 @@ (t2 :> {SetTo(1, "b", NoPass), RemoveAll(2), Call("remove", 1),
                            SubkeyTo("addsubkey", 2, 1), Call("addattr", 3)})]

\* Every operation on one key, with a free name to rename it to.
Singles == [settings |-> Both([Plain EXCEPT !.mtime = TRUE]), start |-> One,
            maxCalls |-> 4, maxTime |-> 1, toFreeName |-> TRUE,
            calls |-> (t1 :> {SetTo(1, "b", NoPass), SetWith(2, <<1>>), SubkeyTo("rename", 1, 3)})
                   @@ (t2 :> {SetTo(1, "a", NoPass), Call("addattr", 1), Call("remove", 1)})]

\* History mode.
Versioned == [settings |-> Both([Plain EXCEPT !.history = TRUE]), start |-> One,
              maxCalls |-> 4, maxTime |-> 0, toFreeName |-> TRUE,
              calls |-> (t1 :> {SetTo(1, "b", NoPass), SetTo(1, "b", "p1"), SetWith(2, <<1>>),
                                RemoveAll(2)})
                     @@ (t2 :> {SetTo(1, "a", NoPass), Call("remove", 1), SubkeyTo("rename", 1, 3)})]

\* Encryption by default in one process, on demand in the other, and expiry.
Secrets == [settings |-> (t1 :> [Plain EXCEPT !.defenc = TRUE, !.file = <<"p1", "p2">>])
                      @@ (t2 :> Plain),
            start |-> One, maxCalls |-> 4, maxTime |-> 1, toFreeName |-> TRUE,
            calls |-> (t1 :> {SetTo(1, "b", NoPass), SetTo(1, "b", "p2"), SetFor(1, 0)})
                   @@ (t2 :> {SetTo(1, "a", NoPass), Call("addattr", 1), NewPass("p1", TRUE),
                              [Call("gettrial", 1) EXCEPT !.pass = "p2"]})]

MCUses == {Trees, Singles, Versioned, Secrets}

ASSUME HypothesesAssumption == \A u \in MCUses : OneEncryption(u) /\ OneHistory(u) /\ FreeNames(u)
=============================================================================
