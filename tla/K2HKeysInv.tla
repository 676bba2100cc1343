------------------------------ MODULE K2HKeysInv ------------------------------
(***************************************************************************)
(* What the proofs about K2HKeys speak of.  TypeInv is the shape of the data,*)
(* ReadInv that an element is stored as its attributes say, OneInv who is    *)
(* alone at a name and where a unique id can be, ReplayInv that what a call   *)
(* has stacked makes up for what it has changed, VersionInv which version an *)
(* element follows.  Step, Writes and Trace are what OneInv, ReplayInv and    *)
(* VersionInv need to know of a step.                                        *)
(***************************************************************************)
EXTENDS K2HKeys, K2HSequences

\* Commands of an archive.
CommandTypes == {"SET_ALL", "REPLACE_SKEY", "REPLACE_ATTRS", "DEL_KEY", "RENAME"}
IsCommands(s) == IsList(s) /\ \A c \in ToSet(s) : c.type \in CommandTypes

IsPack(p) == p = [mtime |-> p.mtime, history |-> p.history, expire |-> p.expire,
                  defenc |-> p.defenc, passes |-> p.passes, default |-> p.default,
                  type |-> p.type]

IsElem(e) ==
    /\ e = [value |-> e.value, subs |-> e.subs, attrs |-> e.attrs, past |-> e.past]
    /\ e.subs \in Seq(Names) /\ Ascending(e.subs)
    /\ IsList(e.past)

StoreOK(store) ==
    /\ IsFunction(store) /\ DOMAIN store = Keys
    /\ \A k \in Keys : IsList(store[k]) /\ \A e \in ToSet(store[k]) : IsElem(e)

IsTask(k) == k = [pc |-> k.pc, call |-> k.call, at |-> k.at, text |-> k.text, rm |-> k.rm,
                  subs |-> k.subs, attrs |-> k.attrs, doomed |-> k.doomed, stack |-> k.stack,
                  old |-> k.old, under |-> k.under, then |-> k.then, puid |-> k.puid,
                  past |-> k.past, held |-> k.held, used |-> k.used]

Steps == {"idle", "get", "subs", "attrs", "take", "shelve", "shelved",
          "insert", "below", "replace", "unlist", "move", "moved"}
WithArg == {"addsubkey", "removesubkey", "rename"}

\* A task, of a process with or without history.
TaskOK(k, history) ==
    /\ IsTask(k)
    /\ k.pc \in Steps
    /\ k.used \subseteq Names
    /\ k.subs \in Seq(Names) /\ Ascending(k.subs)
    /\ k.doomed \in Seq(Names) /\ k.under \in Seq(Names)
    /\ IsList(k.past) /\ IsCommands(k.stack)
    /\ k.pc = "idle" => k.used = {} /\ k.call = NoCall
    /\ k.pc # "idle" => /\ k.at \in Names /\ k.call.key \in Names
                        /\ k.call.op \in WithArg => k.call.arg \in Names
    /\ k.pc \in {"shelve", "shelved"} => k.old \in Names /\ k.then \in {"insert", "below"} /\ history
    /\ k.pc \in {"shelved", "moved"} => IsElem(k.held)
    /\ k.pc = "shelved" => k.puid # 0
    /\ k.pc \in {"move", "moved"} <=> k.call.op = "rename" /\ k.pc \notin {"below"}
    /\ k.call.op = "rename" => k.doomed = <<>>
    /\ k.pc = "unlist" => k.call.op = "removesubkey"

Bounds ==
    /\ use \in Uses
    /\ nextUid \in 1 .. MaxUid + 1 /\ now \in 0 .. use.maxTime /\ calls \in 0 .. use.maxCalls
    /\ shared \subseteq Names /\ overlaid \subseteq Names

PacksOK ==
    /\ IsFunction(packs) /\ DOMAIN packs = Threads
    /\ \A t \in Threads : /\ IsPack(packs[t])
                          /\ packs[t].type = use.settings[t].type
                          /\ packs[t].history = use.settings[t].history

TasksOK ==
    /\ DOMAIN task = Threads
    /\ \A t \in Threads : TaskOK(task[t], packs[t].history)

TypeInv == Bounds /\ PacksOK /\ StoreOK(elems) /\ TasksOK /\ DOMAIN copy = Keys

\* The first element of a key is another one.
Changed(s, k, e) == [s EXCEPT ![k] = [s[k] EXCEPT ![1] = e]]

\* The two ways in which the code changes an element where it stands.
Reattributed(s, k, x) == [s EXCEPT ![k][1].attrs = x]
Relisted(s, k, x) == [s EXCEPT ![k][1].subs = x]
WithAttrs(e, x) == [e EXCEPT !.attrs = x]
WithSubs(e, x) == [e EXCEPT !.subs = x]

-----------------------------------------------------------------------------
\* A task at name n with other values of some fields.
WithPc(k, n, pc) ==
    [pc |-> pc, call |-> k.call, at |-> k.at, text |-> k.text, rm |-> k.rm,
     subs |-> k.subs, attrs |-> k.attrs, doomed |-> k.doomed, stack |-> k.stack,
     old |-> k.old, under |-> k.under, then |-> k.then, puid |-> k.puid, past |-> k.past,
     held |-> k.held, used |-> k.used \cup {n}]

WithPcSubs(k, n, pc, subs) ==
    [pc |-> pc, call |-> k.call, at |-> k.at, text |-> k.text, rm |-> k.rm,
     subs |-> subs, attrs |-> k.attrs, doomed |-> k.doomed, stack |-> k.stack,
     old |-> k.old, under |-> k.under, then |-> k.then, puid |-> k.puid, past |-> k.past,
     held |-> k.held, used |-> k.used \cup {n}]

WithPcHeldAttrs(k, n, pc, held, attrs) ==
    [pc |-> pc, call |-> k.call, at |-> k.at, text |-> k.text, rm |-> k.rm,
     subs |-> k.subs, attrs |-> attrs, doomed |-> k.doomed, stack |-> k.stack,
     old |-> k.old, under |-> k.under, then |-> k.then, puid |-> k.puid, past |-> k.past,
     held |-> held, used |-> k.used \cup {n}]

WithPcAttrs(k, n, pc, attrs) ==
    [pc |-> pc, call |-> k.call, at |-> k.at, text |-> k.text, rm |-> k.rm,
     subs |-> k.subs, attrs |-> attrs, doomed |-> k.doomed, stack |-> k.stack,
     old |-> k.old, under |-> k.under, then |-> k.then, puid |-> k.puid, past |-> k.past,
     held |-> k.held, used |-> k.used \cup {n}]

WithPcDoomedStack(k, n, pc, doomed, stack) ==
    [pc |-> pc, call |-> k.call, at |-> k.at, text |-> k.text, rm |-> k.rm,
     subs |-> k.subs, attrs |-> k.attrs, doomed |-> doomed, stack |-> stack,
     old |-> k.old, under |-> k.under, then |-> k.then, puid |-> k.puid, past |-> k.past,
     held |-> k.held, used |-> k.used \cup {n}]

WithPcOldUnderThen(k, n, pc, old, under, then) ==
    [pc |-> pc, call |-> k.call, at |-> k.at, text |-> k.text, rm |-> k.rm,
     subs |-> k.subs, attrs |-> k.attrs, doomed |-> k.doomed, stack |-> k.stack,
     old |-> old, under |-> under, then |-> then, puid |-> k.puid, past |-> k.past,
     held |-> k.held, used |-> k.used \cup {n}]

WithPcUnder(k, n, pc, under) ==
    [pc |-> pc, call |-> k.call, at |-> k.at, text |-> k.text, rm |-> k.rm,
     subs |-> k.subs, attrs |-> k.attrs, doomed |-> k.doomed, stack |-> k.stack,
     old |-> k.old, under |-> under, then |-> k.then, puid |-> k.puid, past |-> k.past,
     held |-> k.held, used |-> k.used \cup {n}]

WithPcPuidHeld(k, n, pc, puid, held) ==
    [pc |-> pc, call |-> k.call, at |-> k.at, text |-> k.text, rm |-> k.rm,
     subs |-> k.subs, attrs |-> k.attrs, doomed |-> k.doomed, stack |-> k.stack,
     old |-> k.old, under |-> k.under, then |-> k.then, puid |-> puid, past |-> k.past,
     held |-> held, used |-> k.used \cup {n}]

WithShelved(k, n, pc, held, under, doomed, past, stack) ==
    [pc |-> pc, call |-> k.call, at |-> k.at, text |-> k.text, rm |-> k.rm,
     subs |-> k.subs, attrs |-> k.attrs, doomed |-> doomed, stack |-> stack,
     old |-> k.old, under |-> under, then |-> k.then, puid |-> k.puid, past |-> past,
     held |-> held, used |-> k.used \cup {n}]

WithAgain(k, n, pc, puid, past, doomed) ==
    [pc |-> pc, call |-> k.call, at |-> k.at, text |-> k.text, rm |-> k.rm,
     subs |-> k.subs, attrs |-> k.attrs, doomed |-> doomed, stack |-> k.stack,
     old |-> k.old, under |-> k.under, then |-> k.then, puid |-> puid, past |-> past,
     held |-> k.held, used |-> k.used \cup {n}]

WithDoomed(k, n, doomed) ==
    [pc |-> k.pc, call |-> k.call, at |-> k.at, text |-> k.text, rm |-> k.rm,
     subs |-> k.subs, attrs |-> k.attrs, doomed |-> doomed, stack |-> k.stack,
     old |-> k.old, under |-> k.under, then |-> k.then, puid |-> k.puid, past |-> k.past,
     held |-> k.held, used |-> k.used \cup {n}]

WithDoomedStack(k, n, doomed, stack) ==
    [pc |-> k.pc, call |-> k.call, at |-> k.at, text |-> k.text, rm |-> k.rm,
     subs |-> k.subs, attrs |-> k.attrs, doomed |-> doomed, stack |-> stack,
     old |-> k.old, under |-> k.under, then |-> k.then, puid |-> k.puid, past |-> k.past,
     held |-> k.held, used |-> k.used \cup {n}]

WithDoomedOldThenUnder(k, n, doomed, pc, old, then, under) ==
    [pc |-> pc, call |-> k.call, at |-> k.at, text |-> k.text, rm |-> k.rm,
     subs |-> k.subs, attrs |-> k.attrs, doomed |-> doomed, stack |-> k.stack,
     old |-> old, under |-> under, then |-> then, puid |-> k.puid, past |-> k.past,
     held |-> k.held, used |-> k.used \cup {n}]

WithPcAtStack(k, n, pc, at, stack) ==
    [pc |-> pc, call |-> k.call, at |-> at, text |-> k.text, rm |-> k.rm,
     subs |-> k.subs, attrs |-> k.attrs, doomed |-> k.doomed, stack |-> stack,
     old |-> k.old, under |-> k.under, then |-> k.then, puid |-> k.puid, past |-> k.past,
     held |-> k.held, used |-> k.used \cup {n}]

WithAfresh(k, n, pc, at, text, rm, puid, past, held) ==
    [pc |-> pc, call |-> k.call, at |-> at, text |-> text, rm |-> rm, subs |-> k.subs,
     attrs |-> k.attrs, doomed |-> k.doomed, stack |-> k.stack, old |-> k.old,
     under |-> k.under, then |-> k.then, puid |-> puid, past |-> past, held |-> held,
     used |-> k.used \cup {n}]

WithPcDoomed(k, n, pc, doomed) ==
    [pc |-> pc, call |-> k.call, at |-> k.at, text |-> k.text, rm |-> k.rm,
     subs |-> k.subs, attrs |-> k.attrs, doomed |-> doomed, stack |-> k.stack,
     old |-> k.old, under |-> k.under, then |-> k.then, puid |-> k.puid, past |-> k.past,
     held |-> k.held, used |-> k.used \cup {n}]

WithPcHeld(k, n, pc, held) ==
    [pc |-> pc, call |-> k.call, at |-> k.at, text |-> k.text, rm |-> k.rm,
     subs |-> k.subs, attrs |-> k.attrs, doomed |-> k.doomed, stack |-> k.stack,
     old |-> k.old, under |-> k.under, then |-> k.then, puid |-> k.puid, past |-> k.past,
     held |-> held, used |-> k.used \cup {n}]

WithMoved(k, n, pc, held, stack) ==
    [pc |-> pc, call |-> k.call, at |-> k.at, text |-> k.text, rm |-> k.rm,
     subs |-> k.subs, attrs |-> k.attrs, doomed |-> k.doomed, stack |-> stack,
     old |-> k.old, under |-> k.under, then |-> k.then, puid |-> k.puid, past |-> k.past,
     held |-> held, used |-> k.used \cup {n}]

\* Beginning a call, and the steps that follow.
Calls(t) ==
    \/ CallSet(t) \/ CallSetAll(t) \/ CallSetSubkeys(t) \/ CallAddSubkey(t)
    \/ CallAddAttr(t) \/ CallRemove(t) \/ CallRemoveSubkey(t) \/ CallRename(t)
    \/ CallGetTrial(t)
Acts(t) ==
    \/ GetTrial(t) \/ ReadSubs(t) \/ ReadAttrs(t)
    \/ TakeOld(t) \/ Shelve(t) \/ Shelved(t) \/ InsertNew(t) \/ Below(t)
    \/ PutStack(t) \/ Replaced(t) \/ Unlist(t) \/ Move(t) \/ Moved(t)

\* The other calls stay as they are.
Others(t) == DOMAIN task' = Threads /\ \A u \in Threads \ {t} : task'[u] = task[u]

\* The task of a call that begins.
Begun(c, op, pc) ==
    [pc |-> pc, call |-> c, at |-> IF op = "addsubkey" THEN c.arg ELSE c.key,
     text |-> c.text, rm |-> c.rm, subs |-> Collected(c.list), attrs |-> NoAttrs,
     doomed |-> <<>>, stack |-> <<>>, old |-> 0, under |-> <<>>, then |-> "none",
     puid |-> 0, past |-> <<>>, held |-> <<>>, used |-> {}]

\* Both names of a Rename, if the old one is among the names.
BothNames(names, old, new) == IF old \in names THEN names \cup {new} ELSE names

\* What an action does, with the task that it leaves as a record.
GetTrialDoes(t) ==
    LET k == task[t]
    IN  /\ k.pc = "get"
        /\ UNCHANGED <<use, packs, elems, copy, nextUid, now, calls, overlaid>>
        /\ \/ /\ At(t, k.at) /\ Others(t)
              /\ task'[t] = Idle
           \/ /\ At(t, k.at) /\ Others(t)
              /\ task'[t] = WithPc(k, k.at, "subs")

ReadSubsDoes(t) ==
    LET k == task[t]
        subs == GetSubKeys(k.at)
    IN  /\ k.pc = "subs"
        /\ UNCHANGED <<use, packs, elems, copy, nextUid, now, calls, overlaid>>
        /\ \/ /\ k.call.op = "addsubkey"
              /\ At(t, k.at) /\ Others(t)
              /\ task'[t] = WithPcSubs(k, k.at, "replace", Insert(subs, k.call.arg))
           \/ /\ k.call.op # "addsubkey"
              /\ At(t, k.at) /\ Others(t)
              /\ task'[t] = WithPcSubs(k, k.at, "attrs", subs)

ReadAttrsDoes(t) ==
    LET k == task[t]
        attrs == GetAttrs(k.at)
    IN  /\ k.pc = "attrs"
        /\ UNCHANGED <<use, packs, elems, copy, nextUid, now, calls, overlaid>>
        /\ \/ /\ k.call.op = "addattr"
              /\ At(t, k.at) /\ Others(t)
              /\ task'[t] = WithPcHeldAttrs(k, k.at, "replace", attrs, SetAttr(attrs, "user", k.call.text))
           \/ /\ k.call.op # "addattr"
              /\ At(t, k.at) /\ Others(t)
              /\ task'[t] = WithPcAttrs(k, k.at, "take", attrs)

TakeOldDoes(t) ==
    LET k == task[t]
        next == IF k.call.op = "remove" THEN "below" ELSE "insert"
        subs == SubKeysOf(k.at, k.rm)
        stack == Stacked(k, k.at)
    IN  /\ k.pc = "take"
        /\ UNCHANGED <<use, packs, copy, nextUid, now, calls, overlaid>>
        /\ \/ /\ Missing(elems, Live(k.at))
              /\ UNCHANGED elems
              /\ At(t, k.at) /\ Others(t)
              /\ task'[t] = WithPc(k, k.at, next)
           \/ /\ ~Missing(elems, Live(k.at))
              /\ ~packs[t].history
              /\ elems' = Take(elems, Live(k.at))
              /\ At(t, k.at) /\ Others(t)
              /\ task'[t] = WithPcDoomedStack(k, k.at, next, subs, stack)
           \/ /\ ~Missing(elems, Live(k.at))
              /\ packs[t].history
              /\ UNCHANGED elems
              /\ At(t, k.at) /\ Others(t)
              /\ task'[t] = WithPcOldUnderThen(k, k.at, "shelve", k.at, subs, next)

ShelveDoes(t) ==
    LET k == task[t]
        e == Found(elems, Live(k.old))
        known == GetUniqId(e.attrs)
        named == IF known = 0 THEN DirectSetUniqId(packs[t], e.attrs, 0, nextUid) ELSE e.attrs
        puid == GetUniqId(named)
        held == WithAttrs(e, MarkHistory(named))
        none == <<>>
    IN  /\ k.pc = "shelve"
        /\ UNCHANGED <<use, packs, copy, now, calls, overlaid>>
        /\ \/ /\ Missing(elems, Live(k.old))
              /\ k.then = "insert"
              /\ UNCHANGED <<elems, nextUid>>
              /\ At(t, k.old) /\ Others(t)
              /\ task'[t] = Idle
           \/ /\ Missing(elems, Live(k.old))
              /\ k.then # "insert"
              /\ UNCHANGED <<elems, nextUid>>
              /\ At(t, k.old) /\ Others(t)
              /\ task'[t] = WithPcUnder(k, k.old, "below", none)
           \/ /\ ~Missing(elems, Live(k.old))
              /\ known = 0 => nextUid <= MaxUid
              /\ elems' = Take(elems, Live(k.old))
              /\ nextUid' = IF known = 0 THEN nextUid + 1 ELSE nextUid
              /\ At(t, k.old) /\ Others(t)
              /\ task'[t] = WithPcPuidHeld(k, k.old, "shelved", puid, held)

ShelvedDoes(t) ==
    LET k == task[t]
        version == MakeHistoryKey(k.old, k.puid)
        none == <<>>
        doomed == k.under \o k.doomed
        past == Append(k.held.past, k.held.value.text)
        stack == Append(k.stack, Rename(Live(k.old), version, k.held.attrs))
    IN  /\ k.pc = "shelved"
        /\ elems' = Put(elems, version, k.held)
        /\ UNCHANGED <<use, packs, copy, nextUid, now, calls, overlaid>>
        /\ At(t, k.old) /\ Others(t)
        /\ task'[t] = WithShelved(k, k.old, k.then, none, none, doomed, past, stack)

InsertNewDoes(t) ==
    LET k == task[t]
        new == NewElement(t)
        none == <<>>
        doomed == Without(k.doomed, k.subs)
        stack == Append(k.stack, SetAll(Live(k.at), new.e))
    IN  /\ k.pc = "insert"
        /\ UNCHANGED <<use, packs, copy, now, calls, overlaid>>
        /\ \/ /\ ~Missing(elems, Live(k.at))
              /\ UNCHANGED <<elems, nextUid>>
              /\ At(t, k.at) /\ Others(t)
              /\ task'[t] = WithAgain(k, k.at, "take", 0, none, none)
           \/ /\ Missing(elems, Live(k.at))
              /\ new.uid <= MaxUid + 1
              /\ elems' = Put(elems, Live(k.at), WithPast(new.e, k.past))
              /\ nextUid' = new.uid
              /\ At(t, k.at) /\ Others(t)
              /\ task'[t] = WithPcDoomedStack(k, k.at, "below", doomed, stack)

PutStackDoes(t) ==
    LET k == task[t]
        none == <<>>
    IN  /\ k.pc = "below"
        /\ k.doomed = <<>>
        /\ copy' = LoadAll(copy, k.stack)
        /\ UNCHANGED <<use, packs, elems, nextUid, now, calls, overlaid>>
        /\ \/ /\ k.call.op = "addsubkey"
              /\ k.at = k.call.arg
              /\ At(t, k.at) /\ Others(t)
              /\ task'[t] = WithPcAtStack(k, k.at, "subs", k.call.key, none)
           \/ /\ At(t, k.at) /\ Others(t)
              /\ task'[t] = Idle

ReplacedDoes(t) ==
    LET k == task[t]
        key == k.call.key
        none == <<>>
        no == FALSE
    IN  /\ k.pc = "replace"
        /\ UNCHANGED <<use, packs, nextUid, now, calls>>
        /\ \/ /\ Missing(elems, Live(key))
              /\ UNCHANGED <<elems, copy, overlaid>>
              /\ At(t, key) /\ Others(t)
              /\ task'[t] = WithAfresh(k, key, "take", key, NoText, no, 0, none, none)
           \/ /\ ~Missing(elems, Live(key))
              /\ k.call.op = "addattr"
              /\ elems' = Reattributed(elems, Live(key), k.attrs)
              /\ copy' = Load(copy, ReplaceAttrs(Live(key), k.attrs))
              /\ overlaid' = IF Found(elems, Live(key)).attrs = k.held THEN overlaid ELSE overlaid \cup {key}
              /\ At(t, key) /\ Others(t)
              /\ task'[t] = Idle
           \/ /\ ~Missing(elems, Live(key))
              /\ k.call.op # "addattr"
              /\ elems' = Relisted(elems, Live(key), k.subs)
              /\ copy' = Load(copy, ReplaceSKey(Live(key), k.subs))
              /\ UNCHANGED overlaid
              /\ At(t, key) /\ Others(t)
              /\ task'[t] = Idle

UnlistDoes(t) ==
    LET k == task[t]
        e == Found(elems, Live(k.at))
        subs == Erase(e.subs, k.call.arg)
        one == <<k.call.arg>>
    IN  /\ k.pc = "unlist"
        /\ UNCHANGED <<use, packs, nextUid, now, calls, overlaid>>
        /\ \/ /\ UNCHANGED <<elems, copy>>
              /\ At(t, k.at) /\ Others(t)
              /\ task'[t] = Idle
           \/ /\ ~Missing(elems, Live(k.at))
              /\ elems' = Relisted(elems, Live(k.at), subs)
              /\ copy' = Load(copy, ReplaceSKey(Live(k.at), subs))
              /\ At(t, k.at) /\ Others(t)
              /\ task'[t] = WithPcDoomed(k, k.at, "below", one)

MoveDoes(t) ==
    LET k == task[t]
        held == WithPast(Found(elems, Live(k.at)), <<>>)
    IN  /\ k.pc = "move"
        /\ UNCHANGED <<use, packs, copy, nextUid, now, calls, overlaid>>
        /\ \/ /\ Missing(elems, Live(k.at))
              /\ UNCHANGED elems
              /\ At(t, k.at) /\ Others(t)
              /\ task'[t] = Idle
           \/ /\ ~Missing(elems, Live(k.at))
              /\ elems' = Take(elems, Live(k.at))
              /\ At(t, k.at) /\ Others(t)
              /\ task'[t] = WithPcHeld(k, k.at, "moved", held)

BelowDoes(t) ==
    LET k     == task[t]
        n     == Head(k.doomed)
        rest  == Tail(k.doomed)
        under == SubKeysOf(n, TRUE)
        more  == under \o rest
        stack == Stacked(k, n)
    IN  /\ k.pc = "below" /\ k.doomed # <<>>
        /\ UNCHANGED <<use, packs, copy, nextUid, now, calls, overlaid>>
        /\ At(t, n) /\ Others(t)
        /\ \/ /\ Missing(elems, Live(n)) /\ UNCHANGED elems
              /\ task'[t] = WithDoomed(k, n, rest)
           \/ /\ ~Missing(elems, Live(n)) /\ ~packs[t].history
              /\ elems' = Take(elems, Live(n))
              /\ task'[t] = WithDoomedStack(k, n, more, stack)
           \/ /\ ~Missing(elems, Live(n)) /\ packs[t].history
              /\ UNCHANGED elems
              /\ task'[t] = WithDoomedOldThenUnder(k, n, rest, "shelve", n, "below", under)

MovedDoes(t) ==
    LET k    == task[t]
        new  == k.call.arg
        none == <<>>
        one  == <<Rename(Live(k.at), Live(new), NoAttrs)>>
    IN  /\ k.pc = "moved" /\ UNCHANGED <<use, packs, copy, nextUid, now, calls>>
        /\ elems' = Put(elems, Live(new), k.held)
        /\ shared' = BothNames(IF \E u \in Threads \ {t} : new \in task[u].used
                               THEN shared \cup {k.at, new} ELSE shared, k.at, new)
        /\ overlaid' = BothNames(overlaid, k.at, new)
        /\ Others(t)
        /\ task'[t] = WithMoved(k, new, "below", none, one)

-----------------------------------------------------------------------------
\* Loading an archive: one command after the other.
Replays(f, store, list) ==
    /\ f[0] = store
    /\ \A n \in 1 .. Len(list) : f[n] = Load(f[n - 1], list[n])
    /\ LoadAll(store, list) = f[Len(list)]

\* The keys that have an element, in the order of Save.
FullKeys(store) == {key \in DOMAIN store : ~Missing(store, key)}

-----------------------------------------------------------------------------
\* ReadableAsSet: the attributes of a live element are those of a key and not of a
\* version, and tell of no other kind of encryption than the one there is; those of
\* a key that is not overlaid tell how its value is stored.
Clean(attrs) ==
    /\ "hismark" \notin DOMAIN attrs
    /\ \A t \in Threads : DOMAIN attrs \cap EncTypes \subseteq {use.settings[t].type}

Fits(e) ==
    IF e.value.pass = NoPass
    THEN e.value.type = "plain" /\ DOMAIN e.attrs \cap EncTypes = {}
    ELSE /\ e.value.type \in DOMAIN e.attrs \cap EncTypes
         /\ e.attrs[e.value.type] = e.value.pass

LiveFit ==
    \A n \in Names : \A e \in ToSet(elems[Live(n)]) :
        Clean(e.attrs) /\ (n \notin overlaid => Fits(e))

\* What a call holds of attributes: of a key as it was read, and of the element
\* between its two names.
TaskFit(k) ==
    /\ Clean(k.attrs)
    /\ k.pc = "moved" => Clean(k.held.attrs) /\ (k.at \notin overlaid => Fits(k.held))
    /\ k.pc = "replace" /\ k.call.op = "addattr" =>
           k.attrs = SetAttr(k.held, "user", k.call.text)

ReadInv == OneEncryption(use) /\ LiveFit /\ \A t \in Threads : TaskFit(task[t])

\* Attributes that tell the same of encryption and of versions.
Like(a, b) ==
    /\ "hismark" \in DOMAIN a <=> "hismark" \in DOMAIN b
    /\ DOMAIN a \cap EncTypes = DOMAIN b \cap EncTypes
    /\ \A x \in DOMAIN b \cap EncTypes : a[x] = b[x]

-----------------------------------------------------------------------------
\* OneElementPerKey.  The unique ids of the elements of a name, of what a call has
\* read of a key, and of the element that a Rename has between its two names.
Uids(n) == {GetUniqId(e.attrs) : e \in ToSet(elems[Live(n)])}
ReadUid(k) == GetUniqId(k.attrs)
HeldUid(k) == GetUniqId(k.held.attrs)

\* What a call is about while it is in progress.
NotMaking == {"rename", "remove", "removesubkey"}

OneTask(k, t) ==
    /\ k.pc # "idle" => /\ k.call \in use.calls[t] /\ k.call.op # "addpass"
                        /\ k.at = k.call.key \/ (k.call.op = "addsubkey" /\ k.at = k.call.arg)
    /\ k.pc \in {"get", "subs", "attrs", "replace"} => k.at = k.call.key /\ k.call.op \notin NotMaking
    /\ k.pc = "attrs" => k.call.op # "addsubkey"
    /\ k.pc = "take" => k.call.op \notin NotMaking \ {"remove"}
    /\ k.pc = "insert" => k.call.op \notin NotMaking
    /\ k.pc \in {"shelve", "shelved"} =>
           /\ k.then = "insert" => k.old = k.at /\ k.call.op \notin NotMaking
           /\ k.old \in k.used
    /\ k.pc \in {"insert", "moved"} => k.at \in k.used
    /\ k.call.op \in {"rename", "addsubkey"} => k.attrs = NoAttrs
    /\ ReadUid(k) # 0 => k.at \in k.used
    /\ k.puid # 0 => packs[t].history
    /\ k.puid \in 0 .. nextUid - 1 /\ ReadUid(k) \in 0 .. nextUid - 1
    /\ k.pc = "moved" => HeldUid(k) \in 0 .. nextUid - 1

OneTasks == \A t \in Threads : OneTask(task[t], t)

\* The unique ids that are in the file have been given.
Given ==
    /\ \A n \in Names : Uids(n) \subseteq 0 .. nextUid - 1
    /\ \A n \in Names : \A v \in 1 .. MaxUid :
          elems[MakeHistoryKey(n, v)] # <<>> => v < nextUid

\* Two calls are at the same time only at shared names.
Exclusive ==
    \A s, t \in Threads : s # t => task[s].used \cap task[t].used \subseteq shared

\* What is renamed has a free name to go to.
Renaming(k) == k.pc \in {"move", "moved"}
RenamesFree ==
    /\ \A t \in Threads : Renaming(task[t]) => Missing(elems, Live(task[t].call.arg))
    /\ \A s, t \in Threads :
          s # t /\ Renaming(task[s]) /\ Renaming(task[t]) =>
              task[s].call.arg # task[t].call.arg

LiveOne == \A n \in Names : Len(elems[Live(n)]) <= 1

\* The name a call has emptied stays so, unless another call comes to it.
Emptied(k) ==
    /\ k.pc \in {"insert", "moved"} /\ k.at \notin shared => Missing(elems, Live(k.at))
    /\ k.pc = "shelved" /\ k.old \notin shared => Missing(elems, Live(k.old))

\* What a call has read as the unique id is there until it replaces the element.
AsRead(k) ==
    k.pc \in {"take", "replace"} /\ ReadUid(k) # 0 /\ k.at \notin shared =>
        ReadUid(k) \in Uids(k.at)

Empties == \A t \in Threads : Emptied(task[t]) /\ AsRead(task[t])

\* Only the element of n has the unique id v: no version, no other element, and no
\* call of some threads but one that is at n.
Elsewhere(k, n, v) ==
    /\ k.pc = "shelved" => k.puid # v
    /\ k.pc = "moved" => HeldUid(k) # v
    /\ ReadUid(k) = v => k.at = n

Only(n, v, S) ==
    /\ \A m \in Names : elems[MakeHistoryKey(m, v)] = <<>>
    /\ \A m \in Names \ {n} : v \notin Uids(m)
    /\ \A s \in S : Elsewhere(task[s], n, v)

OnlyLive == \A n \in Names \ shared : \A v \in Uids(n) \ {0} : Only(n, v, Threads)

OnlyTask(t) ==
    LET k == task[t] IN
    /\ k.pc = "insert" /\ k.puid = 0 /\ k.at \notin shared /\ ReadUid(k) # 0 =>
           Only(k.at, ReadUid(k), Threads)
    /\ k.pc = "moved" /\ k.at \notin shared /\ HeldUid(k) # 0 =>
           Only(k.at, HeldUid(k), Threads \ {t})

OnlyTasks == \A t \in Threads : OnlyTask(t)

\* A version is inserted under a key that has none.
VersionOne ==
    /\ \A n \in Names \ shared : \A v \in 1 .. MaxUid : Len(elems[MakeHistoryKey(n, v)]) <= 1
    /\ \A t \in Threads :
          task[t].pc = "shelved" /\ task[t].old \notin shared =>
              elems[MakeHistoryKey(task[t].old, task[t].puid)] = <<>>

OneInv ==
    /\ FreeNames(use) /\ OneTasks /\ Given /\ Exclusive /\ RenamesFree /\ LiveOne /\ Empties
    /\ OnlyLive /\ OnlyTasks /\ VersionOne

\* What matters of a step of t at n: who is there too, what becomes of the elements,
\* and what the call is at afterwards.
StepJoins(t, n) ==
    /\ Others(t) /\ use' = use /\ packs' = packs /\ n \in Names
    /\ shared \subseteq shared'
    /\ \/ \A s \in Threads \ {t} : n \in task[s].used => n \in shared'
       \/ elems' = elems /\ task'[t].used = {} /\ task'[t].pc \notin {"shelved", "moved"}
    /\ task'[t].used \subseteq task[t].used \cup {n}
    /\ task[t].pc = "moved" /\ n \notin shared' => task[t].at \notin shared'

StepElems(t, n, k) ==
    /\ nextUid <= nextUid' /\ nextUid' \in 1 .. MaxUid + 1
    /\ \A m \in Names \ {n} : elems'[Live(m)] = elems[Live(m)]
    /\ Len(elems'[Live(n)]) <= 1
    /\ \/ Missing(elems, Live(n)) => Missing(elems', Live(n))
       \/ k.pc = "insert" /\ n = k.at
       \/ k.pc = "moved" /\ n = k.call.arg
    /\ \A v \in Uids(n)' \ {0} :
          \/ v \in Uids(n)
          \/ v \in nextUid .. nextUid' - 1
          \/ k.pc = "insert" /\ n = k.at /\ v = ReadUid(k) /\ k.puid = 0
          \/ k.pc = "replace" /\ n = k.at /\ v = ReadUid(k)
          \/ k.pc = "moved" /\ n = k.call.arg /\ v = HeldUid(k)
    /\ \A m \in Names, v \in 1 .. MaxUid :
          \/ elems'[MakeHistoryKey(m, v)] = elems[MakeHistoryKey(m, v)]
          \/ /\ k.pc = "shelved" /\ m = n /\ m = k.old /\ v = k.puid
             /\ Len(elems'[MakeHistoryKey(m, v)]) = Len(elems[MakeHistoryKey(m, v)]) + 1

StepTask(t, n, k, j) ==
    /\ OneTask(task[t], t)'
    /\ Renaming(j) => \/ k.pc = "move" /\ j.call = k.call
                      \/ /\ Missing(elems', Live(j.call.arg))
                         /\ \A s \in Threads \ {t} : j.call.arg # task[s].call.arg
    /\ Emptied(task[t])' /\ AsRead(task[t])'
    /\ ReadUid(j) # 0 => \/ ReadUid(j) = ReadUid(k) /\ j.at = k.at
                         \/ ReadUid(j) \in Uids(j.at) /\ k.pc # "moved"
    /\ j.pc = "shelved" => /\ j.old = n /\ Missing(elems', Live(n)) /\ k.pc # "shelved"
                           /\ (j.puid \in Uids(n) \/ j.puid \in nextUid .. nextUid' - 1)
                           /\ j.puid \in 1 .. MaxUid
    /\ j.pc = "moved" => /\ j.at = n /\ Missing(elems', Live(n))
                         /\ HeldUid(j) \in Uids(n)
    /\ j.pc = "insert" /\ j.puid = 0 => k.pc = "take" /\ ReadUid(j) = ReadUid(k) /\ j.at = k.at

Step(t, n) == StepJoins(t, n) /\ StepElems(t, n, task[t]) /\ StepTask(t, n, task[t], task'[t])

-----------------------------------------------------------------------------
\* ArchiveReplays.  The elements of a key as an archive has them, and the store that
\* loading the archive would give if a call put there what it has stacked.
BareList(s) == [i \in DOMAIN s |-> Bare(s[i])]
Same(store, key) == store[key] = BareList(elems[key])
Pending(k) == LoadAll(copy, k.stack)

\* A call has taken the element of n and not yet put it under its other key; loading
\* still has it under n, of a version perhaps with other attributes.
Away(k, n) ==
    \/ k.pc = "shelved" /\ n = k.old
    \/ k.pc = "moved" /\ n = k.at

AsHeld(k, list) ==
    LET attrs == IF k.pc = "moved" THEN k.held.attrs ELSE Head(list).attrs
    IN  list = <<ElementOf(k.held.value, k.held.subs, attrs)>>

Matches(k, n) ==
    /\ \A v \in 1 .. MaxUid : Same(Pending(k), MakeHistoryKey(n, v))
    /\ Away(k, n) => AsHeld(k, Pending(k)[Live(n)])
    /\ ~Away(k, n) => Same(Pending(k), Live(n))

\* At a name that no other call has been at, what a call has stacked makes up for
\* what it has changed; the other names are as they were put to the archive.
CallsMatch == \A t \in Threads : \A n \in task[t].used \ shared : Matches(task[t], n)

Used(n) == \E t \in Threads : n \in task[t].used
RestMatches ==
    \A n \in Names \ shared : ~Used(n) => \A v \in 0 .. MaxUid : Same(copy, <<n, v>>)

\* The names a command is about.
NamesOf(c) == IF c.type = "RENAME" THEN {c.key[1], c.data.new[1]} ELSE {c.key[1]}

\* A command that a call may stack: of its names, and of two only in its Rename.
Stackable(k, c) ==
    /\ c.type \in {"SET_ALL", "DEL_KEY", "RENAME"} /\ c.key \in Keys
    /\ c.type = "RENAME" =>
          /\ c.data.new \in Keys
          /\ \/ c.key[1] = c.data.new[1]
             \/ k.call.op = "rename" /\ c.key[1] = k.at /\ c.data.new[1] = k.call.arg
    /\ NamesOf(c) \subseteq k.used

Making(k) == k.pc \in {"take", "insert"} \/ (k.pc \in {"shelve", "shelved"} /\ k.then = "insert")

StackOK(k) ==
    /\ \A c \in ToSet(k.stack) : Stackable(k, c)
    /\ k.pc \in {"idle", "get", "subs", "attrs", "replace", "unlist", "move", "moved"} =>
           k.stack = <<>>
    /\ Making(k) => \A c \in ToSet(k.stack) : NamesOf(c) = {k.at}
    /\ k.pc = "shelved" => k.held.attrs # NoAttrs
    /\ k.pc = "moved" => k.at # k.call.arg
    /\ k.call.op = "rename" /\ k.pc \in {"moved", "below"} => k.at \in k.used
    /\ k.call.op = "rename" /\ k.pc = "below" => k.call.arg \in k.used

\* An element that is to be shelved stays, and the new name of a Rename is shared with
\* the old one, unless no other call has been there.
Kept(k) ==
    /\ k.pc = "shelve" /\ k.old \notin shared => ~Missing(elems, Live(k.old))
    /\ k.call.op = "rename" /\ k.pc = "below" /\ k.at \in shared => k.call.arg \in shared

StacksOK == \A t \in Threads : StackOK(task[t]) /\ Kept(task[t])

\* A name is not renamed to while it is renamed itself.
NoChain ==
    \A s, u \in Threads :
        /\ Renaming(task[u])
        /\ task[s].call.op = "rename" /\ task[s].pc \in {"moved", "below"}
        => task[s].at # task[u].call.arg

ReplayInv == CallsMatch /\ RestMatches /\ StacksOK /\ NoChain

-----------------------------------------------------------------------------
\* Two stores that agree on some keys, and what loading a command leaves of that.
Agree(a, b, K) == DOMAIN a = Keys /\ DOMAIN b = Keys /\ \A j \in K : a[j] = b[j]

\* Loading a command: stores that agree on some keys agree on them after it, as long
\* as what it moves there is moved from there; and it changes only keys it is about.
Stays(c, K) == c.key \in Keys /\ (c.type = "RENAME" /\ c.data.new \in K => c.key \in K)
Apart(c, K) == c.key \in Keys /\ c.key \notin K /\ (c.type = "RENAME" => c.data.new \notin K)

\* Loading has the element that is held under its old key.
Carries(s, p, key, new, held, a, attrs) ==
    /\ StoreOK(s) /\ key \in Keys /\ new \in Keys /\ key # new /\ IsElem(held)
    /\ held.attrs = (IF attrs = NoAttrs THEN a ELSE attrs)
    /\ DOMAIN p = Keys /\ p[key] = <<ElementOf(held.value, held.subs, a)>>

-----------------------------------------------------------------------------
\* The keys of some names, and what the commands of a call have to do with them.
KeysOf(N) == {key \in Keys : key[1] \in N}

\* A step of t at the names N: what it does to the store, to the archive and to what
\* its call has stacked.
Writes(t, N) ==
    /\ Others(t) /\ N \subseteq Names /\ shared \subseteq shared'
    /\ \A s \in Threads \ {t} : N \cap task[s].used \subseteq shared'
    /\ \A key \in Keys : key[1] \notin N => elems'[key] = elems[key]
    /\ \A key \in Keys : key[1] \notin task[t].used \cup N => copy'[key] = copy[key]
    /\ task'[t] = Idle \/ task'[t].used = task[t].used \cup N

Makes(t, N) ==
    /\ \A n \in N \ shared' : Matches(task[t], n)'
    /\ \A key \in Keys : key[1] \in task[t].used \ (N \cup shared') =>
           Pending(task[t])'[key] = Pending(task[t])[key]
    /\ \A n : Away(task[t], n) \/ Away(task'[t], n) => n \in N
    /\ StackOK(task'[t])

\* A step at one name, of any call but the second half of a Rename.
Goes(t, j) ==
    /\ StackOK(j)
    /\ j.pc = "shelve" => ~Missing(elems', Live(j.old))
    /\ j.call.op = "rename" =>
          /\ task[t].pc = "move" /\ j.pc = "moved" /\ j.call = task[t].call
          /\ j.at = task[t].at /\ ~Missing(elems, Live(task[t].at))

\* Loading a saved file gives the file: what is there of it after the first i commands.
LoadedUpTo(store, keys, i) ==
    /\ DOMAIN store = Keys
    /\ \A key \in Keys : store[key] = IF \E q \in 1 .. i : keys[q] = key
                                      THEN BareList(elems[key]) ELSE <<>>

-----------------------------------------------------------------------------
\* VersionsKept.  The unique id that attributes name as the one they follow, and the
\* texts that lead to the version of an id.
Parent(attrs) == IF HasAttr(attrs, "parentuniqid") THEN GetAttr(attrs, "parentuniqid") ELSE 0

TextsTo(w) == Append(w.past, w.value.text)
PastOf(n, v) ==
    IF v = 0 \/ Missing(elems, MakeHistoryKey(n, v)) THEN <<>>
    ELSE TextsTo(Found(elems, MakeHistoryKey(n, v)))

\* The ids that something in the file or in a call follows or will follow: a call that
\* is to insert an element follows the version it has shelved.
Holding(k) == k.pc \in {"shelved", "moved"}
FollowedBy(k, v) ==
    \/ v = Parent(k.attrs)
    \/ Holding(k) /\ v = Parent(k.held.attrs)
    \/ k.pc = "insert" /\ v = k.puid
Followed(v) ==
    \/ \E key \in Keys : \E e \in ToSet(elems[key]) : v = Parent(e.attrs)
    \/ \E t \in Threads : FollowedBy(task[t], v)

FollowedGiven == \A v : Followed(v) => v \in 0 .. nextUid - 1

\* What has no unique id follows none.
IdsGo(attrs) == GetUniqId(attrs) = 0 => Parent(attrs) = 0
IdsTogether ==
    /\ \A n \in Names : \A e \in ToSet(elems[Live(n)]) : IdsGo(e.attrs)
    /\ \A t \in Threads : /\ IdsGo(task[t].attrs)
                          /\ task[t].pc = "moved" => IdsGo(task[t].held.attrs)

\* Without history there are no unique ids.
NoIds ==
    \A t \in Threads : ~packs[t].history =>
        /\ \A n \in Names : Uids(n) \subseteq {0}
        /\ ReadUid(task[t]) = 0
        /\ task[t].pc = "moved" => HeldUid(task[t]) = 0

\* A call that looks for the old element has shelved none yet, and one that makes an
\* element where none was has read no unique id.
Unshelved(k) ==
    /\ \/ k.pc = "take"
       \/ k.pc \in {"get", "subs", "attrs"} /\ k.call.op # "addsubkey"
       => k.puid = 0 /\ k.past = <<>>
    /\ k.pc = "insert" /\ k.puid = 0 /\ k.at \notin shared => ReadUid(k) = 0

\* What AddAttr has read and will put back is what is there; a call that makes nothing
\* reads no attributes.
SameIds(a, b) == GetUniqId(a) = GetUniqId(b) /\ Parent(a) = Parent(b)
PutsBack(k) ==
    /\ k.pc = "replace" /\ k.call.op = "addattr" /\ k.at \notin shared =>
           /\ k.at \in k.used
           /\ ~Missing(elems, Live(k.at)) => SameIds(k.attrs, Found(elems, Live(k.at)).attrs)
    /\ k.call.op \in NotMaking => ReadUid(k) = 0
Reads == \A t \in Threads : Unshelved(task[t]) /\ PutsBack(task[t])

\* Only the call that shelves an element has its unique id.
ShelvedAlone(t) ==
    LET k == task[t]
    IN  k.pc = "shelved" /\ k.old \notin shared =>
            /\ Only(k.old, k.puid, Threads \ {t})
            /\ ReadUid(k) = k.puid => k.at = k.old
OnlyShelved == \A t \in Threads : ShelvedAlone(t)

\* Nothing follows an element before it is a version.
UnfollowedBy(k) ==
    /\ k.pc = "moved" /\ k.at \notin shared /\ HeldUid(k) # 0 => ~Followed(HeldUid(k))
    /\ k.pc = "shelved" /\ k.old \notin shared => ~Followed(k.puid)
Unfollowed ==
    /\ \A n \in Names \ shared : \A v \in Uids(n) \ {0} : ~Followed(v)
    /\ \A t \in Threads : UnfollowedBy(task[t])

\* Nothing ever follows a version of a name that keys are renamed to.
Targets == {n \in Names : \E t \in Threads : \E c \in use.calls[t] : c.op = "rename" /\ c.arg = n}
GoneFrom(k, v) ==
    /\ k.pc = "shelved" => k.puid # v
    /\ k.pc = "moved" => HeldUid(k) # v
    /\ ReadUid(k) # v
Gone(v) == (\A n \in Names : v \notin Uids(n)) /\ \A t \in Threads : GoneFrom(task[t], v)
TargetsLast ==
    \A n \in Targets \ shared : \A v \in 1 .. MaxUid :
        ~Missing(elems, MakeHistoryKey(n, v)) => Gone(v) /\ ~Followed(v)

\* The past of an element is that of the version it follows, which is older.
Follows(n, e) == e.past = PastOf(n, Parent(e.attrs))
LiveFollow ==
    \A n \in Names \ shared : \A e \in ToSet(elems[Live(n)]) :
        /\ Follows(n, e)
        /\ GetUniqId(e.attrs) # 0 => Parent(e.attrs) < GetUniqId(e.attrs)
VersionsFollow ==
    \A n \in Names \ shared : \A v \in 1 .. MaxUid : \A e \in ToSet(elems[MakeHistoryKey(n, v)]) :
        Follows(n, e) /\ Parent(e.attrs) < v
TaskFollows(k) ==
    /\ k.pc = "shelved" /\ k.old \notin shared =>
           Follows(k.old, k.held) /\ Parent(k.held.attrs) < k.puid
    /\ k.pc = "insert" /\ k.at \notin shared => k.past = PastOf(k.at, k.puid)
    /\ k.pc = "moved" /\ k.at \notin shared /\ k.call.arg \notin shared =>
           /\ k.held.past = <<>> /\ PastOf(k.call.arg, Parent(k.held.attrs)) = <<>>
           /\ HeldUid(k) # 0 => Parent(k.held.attrs) < HeldUid(k)
TasksFollow == \A t \in Threads : TaskFollows(task[t])

VersionInv ==
    /\ OneHistory(use) /\ FollowedGiven /\ IdsTogether /\ NoIds /\ Reads
    /\ OnlyShelved /\ Unfollowed /\ TargetsLast
    /\ LiveFollow /\ VersionsFollow /\ TasksFollow

\* What a step does to the ids: an element under the name of a key has the ids and the
\* past of one that was there, or is a new one, one that has been renamed, or has got
\* back the attributes that AddAttr had read before others came.
Kin(e, m) ==
    \E d \in ToSet(elems[Live(m)]) : SameIds(e.attrs, d.attrs) /\ e.past = d.past
Inserted(t, e, m) ==
    LET k == task[t]
        p == Parent(e.attrs)
        u == GetUniqId(e.attrs)
    IN  /\ k.pc = "insert" /\ m = k.at /\ e.past = k.past /\ IdsGo(e.attrs)
        /\ k.puid # 0 \/ ReadUid(k) = 0 => p = k.puid
        /\ \/ p \in {k.puid, Parent(k.attrs)}
           \/ p = nextUid /\ nextUid < nextUid' /\ u # nextUid
        /\ \/ u \in nextUid .. nextUid' - 1 /\ packs[t].history
           \/ u = ReadUid(k) /\ k.puid = 0
Arrived(k, e, m) ==
    /\ k.pc = "moved" /\ m = k.call.arg /\ e = k.held
    /\ m \notin shared' => k.at \notin shared /\ m \notin shared
Restored(k, e, m) == k.pc = "replace" /\ m \in shared' /\ e.attrs = k.attrs

TraceElems(t) ==
    LET k == task[t]
        PutsVersion(key) == elems'[key] = Append(elems[key], k.held)
    IN  /\ \A m \in Names, v \in 1 .. MaxUid :
              \/ elems'[MakeHistoryKey(m, v)] = elems[MakeHistoryKey(m, v)]
              \/ k.pc = "shelved" /\ m = k.old /\ v = k.puid /\ PutsVersion(MakeHistoryKey(m, v))
        /\ k.pc = "shelved" => PutsVersion(MakeHistoryKey(k.old, k.puid))
        /\ \A m \in Names : \A e \in ToSet(elems'[Live(m)]) :
              Kin(e, m) \/ Inserted(t, e, m) \/ Arrived(k, e, m) \/ Restored(k, e, m)

TraceAttrs(k, j) ==
    \/ SameIds(j.attrs, NoAttrs)
    \/ SameIds(j.attrs, k.attrs)
    \/ j.at \in Names /\ \E d \in ToSet(elems[Live(j.at)]) : SameIds(j.attrs, d.attrs)

TraceMoved(k, j) ==
    j.pc = "moved" =>
        /\ j.at \in Names /\ j.call.arg \in Targets /\ j.held.past = <<>>
        /\ \E d \in ToSet(elems[Live(j.at)]) : SameIds(j.held.attrs, d.attrs)

TraceShelved(k, j) ==
    j.pc = "shelved" =>
        /\ j.old \in Names /\ k.pc = "shelve" /\ SameIds(j.attrs, k.attrs) /\ j.at = k.at
        /\ \E d \in ToSet(elems[Live(j.old)]) :
              /\ j.held.past = d.past /\ Parent(j.held.attrs) = Parent(d.attrs)
              /\ \/ j.puid = GetUniqId(d.attrs) /\ j.puid # 0
                 \/ GetUniqId(d.attrs) = 0 /\ j.puid = nextUid /\ nextUid' = nextUid + 1

TraceInsert(k, j) ==
    j.pc = "insert" =>
        \/ k.pc = "take" /\ j.puid = 0 /\ j.past = <<>>
        \/ /\ k.pc = "shelved" /\ j.puid = k.puid /\ j.at = k.old /\ j.past = TextsTo(k.held)
           /\ k.old \notin Targets

TraceTask(t) ==
    /\ TraceAttrs(task[t], task'[t]) /\ TraceMoved(task[t], task'[t])
    /\ TraceShelved(task[t], task'[t]) /\ TraceInsert(task[t], task'[t])
    /\ Unshelved(task[t])' /\ PutsBack(task[t])'

Trace(t) ==
    /\ TraceElems(t) /\ TraceTask(t) /\ Others(t)
    /\ use' = use /\ packs' = packs /\ shared \subseteq shared' /\ nextUid <= nextUid'

\* What is followed after a step was followed before it, or is the version that the
\* call has just shelved, or an id that was given in vain.
InVain(t, v) ==
    /\ task[t].pc = "insert" /\ v = nextUid /\ nextUid < nextUid'
    /\ \E e \in ToSet(elems'[Live(task[t].at)]) : GetUniqId(e.attrs) # v
AsShelved(t, v) == task[t].pc = "shelved" /\ v = task[t].puid /\ task'[t].pc = "insert"
=============================================================================
