------------------------------- MODULE K2HKeys -------------------------------
(***************************************************************************)
(* The operations on whole keys (src/lib/k2hshm.cc): Set, AddSubkey,         *)
(* AddAttr, replacing the subkeys, removal with the subkeys below, Rename,   *)
(* the versions kept in history mode, and what each writes to the archive.   *)
(*                                                                         *)
(* A call locks one CKINDEX after another and keeps nothing locked between   *)
(* them, so one locked section is one step; that a section is safe is the    *)
(* subject of K2HKeyIndex.  `copy' is the store that loading the archive of  *)
(* the file, as far as it is written, would give.                           *)
(***************************************************************************)
EXTENDS K2HArchive, FiniteSets

CONSTANTS
    Threads,
    Names,      \* the names of keys, in the order in which memory compares them
    MaxUid,     \* how many unique ids may be given: the bound of Shelve and InsertNew
    Uses        \* the settings of the processes and the calls their threads make

ASSUME NamesAssumption ==
    Names \subseteq Nat \ {0} /\ IsFiniteSet(Names) /\ MaxUid \in Nat

VARIABLES
    use,        \* one of Uses
    packs,      \* the attribute settings of the process of each thread
    elems,      \* the elements under every key, in the order of a search
    copy,       \* the store that loading the archive gives
    nextUid,    \* the next unique id
    now,        \* the time
    calls,      \* how many calls have begun
    task,       \* what each thread is at
    shared,     \* names that two calls have been at at the same time
    overlaid    \* names whose attributes AddAttr put back over newer ones

vars == <<use, packs, elems, copy, nextUid, now, calls, task, shared, overlaid>>

\* A name with unique id 0 is a key, with another one the version of that id.
Keys == Names \X (0 .. MaxUid)
Live(n) == <<n, 0>>
MakeHistoryKey(n, uid) == <<n, uid>>

\* The parameters of a call that asks for nothing.
NoCall == [op |-> "none", key |-> 0, arg |-> 0, text |-> NoText, pass |-> NoPass,
           expire |-> NotExpire, list |-> <<>>, rm |-> FALSE]

\* at: the key a Set is making; old: the key being shelved, under: its subkeys,
\* then: where to go on; puid and past: of the version the new element follows.
Idle == [pc |-> "idle", call |-> NoCall, at |-> 0, text |-> NoText, rm |-> FALSE,
         subs |-> <<>>, attrs |-> NoAttrs, doomed |-> <<>>, stack |-> <<>>,
         old |-> 0, under |-> <<>>, then |-> "none", puid |-> 0, past |-> <<>>,
         held |-> <<>>, used |-> {}]

\* What the settings, the store at the start and the calls can be: a kind of
\* encryption; elements that can be read as they are stored and have no versions
\* yet; calls about names.
ASSUME UsesAssumption ==
    \A u \in Uses :
        /\ u.maxCalls \in Nat /\ u.maxTime \in Nat
        /\ DOMAIN u.start \subseteq Names
        /\ \A n \in DOMAIN u.start :
              LET e == u.start[n] IN
              /\ e.subs \in Seq(Names) /\ Ascending(e.subs)
              /\ DOMAIN e.attrs \cap {"uniqid", "parentuniqid", "hismark"} = {}
              /\ e.value.type = "plain" /\ e.value.pass = NoPass /\ ~IsValueEncrypted(e.attrs)
        /\ \A t \in Threads :
              /\ u.settings[t].type \in EncTypes /\ u.settings[t].history \in BOOLEAN
              /\ \A c \in u.calls[t] : c.op # "addpass" =>
                    /\ c.key \in Names /\ c.list \in Seq(Names)
                    /\ c.op \in {"addsubkey", "removesubkey", "rename"} => c.arg \in Names

\* All processes encrypt in the same way: the attribute of the other kind would stay
\* when a value is encrypted anew.
OneEncryption(u) == \A s, t \in Threads : u.settings[s].type = u.settings[t].type

\* All processes keep versions, or none does: a Set of one that keeps none leaves the
\* parent of the element it has replaced.
OneHistory(u) == \A s, t \in Threads : u.settings[s].history = u.settings[t].history

\* The names a call can make a key under; a name that is renamed to is free, and no
\* other call makes it.
Made(c) == CASE c.op \in {"rename", "remove", "removesubkey", "addpass"} -> {}
             [] c.op = "addsubkey" -> {c.key, c.arg}
             [] OTHER -> {c.key}
FreeNames(u) ==
    /\ u.toFreeName
    /\ \A s, t \in Threads : \A c \in u.calls[s], d \in u.calls[t] :
          c.op = "rename" => c.arg \notin Made(d)

WithPast(e, past) == [value |-> e.value, subs |-> e.subs, attrs |-> e.attrs, past |-> past]
Bare(e) == ElementOf(e.value, e.subs, e.attrs)

Init ==
    /\ use \in Uses
    /\ packs = [t \in Threads |-> Pack(use.settings[t])]
    /\ \A t \in Threads : Initialized(packs[t])
    /\ elems = [k \in Keys |-> IF k[2] = 0 /\ k[1] \in DOMAIN use.start
                               THEN <<WithPast(use.start[k[1]], <<>>)>> ELSE <<>>]
    /\ copy = LoadAll([k \in Keys |-> <<>>], Save(elems))
    /\ nextUid = 1 /\ now = 0 /\ calls = 0
    /\ task = [t \in Threads |-> Idle]
    /\ shared = {} /\ overlaid = {}

-----------------------------------------------------------------------------
\* Steps.  A step is at one name; if another call in progress has been at it too,
\* the name is shared, and with it both names of a Rename.
Linked(u, n) == IF task[u].call.op = "rename" THEN {n, task[u].call.arg} ELSE {n}

At(t, n) ==
    shared' = shared \cup UNION {Linked(u, n) : u \in {v \in Threads \ {t} : n \in task[v].used}}

Go(t, n, next) ==
    /\ At(t, n)
    /\ task' = [task EXCEPT ![t] = [next EXCEPT !.used = @ \cup {n}]]

End(t, n) == At(t, n) /\ task' = [task EXCEPT ![t] = Idle]

\* Where the callers see to it, a key is renamed only to a name that no key has and
\* no other call is at.
MayRename(c) ==
    use.toFreeName => Missing(elems, Live(c.arg)) /\ \A t \in Threads :
                          c.arg \notin task[t].used \cup {task[t].call.arg}

Begin(t, op, pc) ==
    /\ task[t].pc = "idle" /\ calls < use.maxCalls
    /\ \E c \in use.calls[t] :
          /\ c.op = op
          /\ op = "rename" => MayRename(c)
          /\ task' = [task EXCEPT ![t] = [Idle EXCEPT
                 !.pc = pc, !.call = c, !.text = c.text, !.rm = c.rm, !.subs = Collected(c.list),
                 !.at = IF op = "addsubkey" THEN c.arg ELSE c.key]]
    /\ calls' = calls + 1
    /\ UNCHANGED <<use, packs, elems, copy, nextUid, now, shared, overlaid>>

CallSet(t) == Begin(t, "set", "subs")
CallSetAll(t) == Begin(t, "setall", "take")
CallSetSubkeys(t) == Begin(t, "setsubkeys", "replace")
CallAddSubkey(t) == Begin(t, "addsubkey", "take")
CallAddAttr(t) == Begin(t, "addattr", "attrs")
CallRemove(t) == Begin(t, "remove", "take")
CallRemoveSubkey(t) == Begin(t, "removesubkey", "unlist")
CallRename(t) == Begin(t, "rename", "move")
CallGetTrial(t) == Begin(t, "gettrial", "get")

\* k2h_add_attr_crypt_pass, for the process of t.
AddPass(t) ==
    /\ task[t].pc = "idle" /\ calls < use.maxCalls
    /\ \E c \in use.calls[t] :
          /\ c.op = "addpass"
          /\ packs' = [packs EXCEPT ![t] = AddCryptPass(@, c.pass, c.rm)]
    /\ calls' = calls + 1
    /\ UNCHANGED <<use, elems, copy, nextUid, now, task, shared, overlaid>>

-----------------------------------------------------------------------------
\* Get: the text, if the element is there, is no version, has not expired and can
\* be decrypted.
Get(pack, store, n, pass) ==
    LET e == Found(store, Live(n))
    IN  IF \/ Missing(store, Live(n))
           \/ IsExpire(e.attrs, now)
           \/ IsHistory(e.attrs)
        THEN NoText
        ELSE GetDecryptValue(pack, e.attrs, e.value, pass)

\* Get with a callback that replaces the value: without a text it ends there.
GetTrial(t) ==
    /\ task[t].pc = "get"
    /\ LET k == task[t] IN
       IF Get(packs[t], elems, k.at, k.call.pass) = NoText THEN End(t, k.at)
       ELSE Go(t, k.at, [k EXCEPT !.pc = "subs"])
    /\ UNCHANGED <<use, packs, elems, copy, nextUid, now, calls, overlaid>>

GetSubKeys(n) ==
    LET e == Found(elems, Live(n))
    IN  IF \/ Missing(elems, Live(n))
           \/ IsExpire(e.attrs, now)
           \/ IsHistory(e.attrs)
        THEN <<>>
        ELSE e.subs

GetAttrs(n) == IF Missing(elems, Live(n)) THEN NoAttrs ELSE Found(elems, Live(n)).attrs

\* The subkeys are read: by Set to keep them, by AddSubkey to add one.
ReadSubs(t) ==
    /\ task[t].pc = "subs"
    /\ LET k    == task[t]
           subs == GetSubKeys(k.at)
       IN Go(t, k.at, IF k.call.op = "addsubkey"
                      THEN [k EXCEPT !.pc = "replace", !.subs = Insert(subs, k.call.arg)]
                      ELSE [k EXCEPT !.pc = "attrs", !.subs = subs])
    /\ UNCHANGED <<use, packs, elems, copy, nextUid, now, calls, overlaid>>

\* The attributes are read: by Set to keep them, by AddAttr to add one.
ReadAttrs(t) ==
    /\ task[t].pc = "attrs"
    /\ LET k     == task[t]
           attrs == GetAttrs(k.at)
       IN Go(t, k.at, IF k.call.op = "addattr"
                      THEN [k EXCEPT !.pc = "replace", !.held = attrs,
                                     !.attrs = SetAttr(attrs, "user", k.call.text)]
                      ELSE [k EXCEPT !.pc = "take", !.attrs = attrs])
    /\ UNCHANGED <<use, packs, elems, copy, nextUid, now, calls, overlaid>>

-----------------------------------------------------------------------------
\* RemoveEx of one key: without history the element is taken off and a deletion
\* is stacked; its subkeys may be asked for.
SubKeysOf(n, wanted) == IF wanted THEN Found(elems, Live(n)).subs ELSE <<>>

\* The element goes without a word in the archive.
Stacked_WithoutDelKey(k, n) == k.stack

Stacked(k, n) == Append(k.stack, DelKey(Live(n)))

\* The first thing of a Set, and of a Remove: the old element.  In history mode
\* the lock is given up and the element looked up again to be shelved.
TakeOld(t) ==
    /\ task[t].pc = "take"
    /\ LET k    == task[t]
           next == IF k.call.op = "remove" THEN "below" ELSE "insert"
           subs == SubKeysOf(k.at, k.rm)
       IN \/ /\ Missing(elems, Live(k.at))
             /\ Go(t, k.at, [k EXCEPT !.pc = next])
             /\ UNCHANGED elems
          \/ /\ ~Missing(elems, Live(k.at)) /\ ~packs[t].history
             /\ elems' = Take(elems, Live(k.at))
             /\ Go(t, k.at, [k EXCEPT !.pc = next, !.doomed = subs, !.stack = Stacked(k, k.at)])
          \/ /\ ~Missing(elems, Live(k.at)) /\ packs[t].history
             /\ Go(t, k.at, [k EXCEPT !.pc = "shelve", !.old = k.at, !.under = subs,
                                      !.then = next])
             /\ UNCHANGED elems
    /\ UNCHANGED <<use, packs, copy, nextUid, now, calls, overlaid>>

\* RenameForHistory, up to its first Unlock: the element is taken off and marked;
\* one without a unique id gets one.  If it is gone a Set fails.
Shelve(t) ==
    /\ task[t].pc = "shelve"
    /\ LET k     == task[t]
           e     == Found(elems, Live(k.old))
           known == GetUniqId(e.attrs)
           named == IF known = 0 THEN DirectSetUniqId(packs[t], e.attrs, 0, nextUid)
                    ELSE e.attrs
       IN \/ /\ Missing(elems, Live(k.old))
             /\ IF k.then = "insert" THEN End(t, k.old)
                ELSE Go(t, k.old, [k EXCEPT !.pc = "below", !.under = <<>>])
             /\ UNCHANGED <<elems, nextUid>>
          \/ /\ ~Missing(elems, Live(k.old))
             /\ known = 0 => nextUid <= MaxUid
             /\ elems' = Take(elems, Live(k.old))
             /\ nextUid' = IF known = 0 THEN nextUid + 1 ELSE nextUid
             /\ Go(t, k.old, [k EXCEPT !.pc = "shelved", !.puid = GetUniqId(named),
                                       !.held = [e EXCEPT !.attrs = MarkHistory(named)]])
    /\ UNCHANGED <<use, packs, copy, now, calls, overlaid>>

\* Its second lock: the version is inserted under its own key.
Shelved(t) ==
    /\ task[t].pc = "shelved"
    /\ LET k       == task[t]
           version == MakeHistoryKey(k.old, k.puid)
       IN /\ elems' = Put(elems, version, k.held)
          /\ Go(t, k.old, [k EXCEPT
                 !.pc = k.then, !.held = <<>>, !.under = <<>>,
                 !.doomed = k.under \o @,
                 !.past = Append(k.held.past, k.held.value.text),
                 !.stack = Append(@, Rename(Live(k.old), version, k.held.attrs))])
    /\ UNCHANGED <<use, packs, copy, nextUid, now, calls, overlaid>>

-----------------------------------------------------------------------------
\* The element a Set makes.  Its attributes follow the version that was shelved,
\* whatever they were read as.
NewElement(t) ==
    LET k     == task[t]
        upd   == UpdateAttr(packs[t], k.attrs, k.text, k.call.pass, k.call.expire, now, nextUid)
        again == IF upd.old = 0 THEN k.puid # 0 ELSE k.puid # upd.old
    IN  [e   |-> ElementOf(upd.value, k.subs,
                           IF again THEN DirectSetUniqId(packs[t], upd.attrs, k.puid, upd.uid)
                           ELSE upd.attrs),
         uid |-> IF again THEN upd.uid + 1 ELSE upd.uid]

\* Whether the place of the new element is free: another call may have made the
\* same key since the old one was taken off.
Free_Unchecked(n) == TRUE

Free(n) == Missing(elems, Live(n))

\* The new element, under the lock of its CKINDEX; if the place is taken the Set
\* begins again with the old element, and what it has stacked stays.
InsertNew(t) ==
    /\ task[t].pc = "insert"
    /\ LET k   == task[t]
           new == NewElement(t)
       IN \/ /\ ~Free(k.at)
             /\ Go(t, k.at, [k EXCEPT !.pc = "take", !.puid = 0, !.past = <<>>, !.doomed = <<>>])
             /\ UNCHANGED <<elems, nextUid>>
          \/ /\ Free(k.at) /\ new.uid <= MaxUid + 1
             /\ elems' = Put(elems, Live(k.at), WithPast(new.e, k.past))
             /\ nextUid' = new.uid
             /\ Go(t, k.at, [k EXCEPT !.pc = "below",
                                      !.doomed = Without(@, k.subs),
                                      !.stack = Append(@, SetAll(Live(k.at), new.e))])
    /\ UNCHANGED <<use, packs, copy, now, calls, overlaid>>

\* One of the subkeys to remove, and in front of the others those below it.
Below(t) ==
    /\ task[t].pc = "below" /\ task[t].doomed # <<>>
    /\ LET k    == task[t]
           n    == Head(k.doomed)
           rest == [k EXCEPT !.doomed = Tail(@)]
       IN \/ /\ Missing(elems, Live(n))
             /\ Go(t, n, rest)
             /\ UNCHANGED elems
          \/ /\ ~Missing(elems, Live(n)) /\ ~packs[t].history
             /\ elems' = Take(elems, Live(n))
             /\ Go(t, n, [rest EXCEPT !.doomed = SubKeysOf(n, TRUE) \o @,
                                      !.stack = Stacked(k, n)])
          \/ /\ ~Missing(elems, Live(n)) /\ packs[t].history
             /\ Go(t, n, [rest EXCEPT !.pc = "shelve", !.old = n, !.then = "below",
                                      !.under = SubKeysOf(n, TRUE)])
             /\ UNCHANGED elems
    /\ UNCHANGED <<use, packs, copy, nextUid, now, calls, overlaid>>

\* When nothing is left to remove, what is stacked goes to the archive.  AddSubkey
\* goes on with the parent.
PutStack(t) ==
    /\ task[t].pc = "below" /\ task[t].doomed = <<>>
    /\ copy' = LoadAll(copy, task[t].stack)
    /\ LET k == task[t] IN
       IF k.call.op = "addsubkey" /\ k.at = k.call.arg
       THEN Go(t, k.at, [k EXCEPT !.pc = "subs", !.at = k.call.key, !.stack = <<>>])
       ELSE End(t, k.at)
    /\ UNCHANGED <<use, packs, elems, nextUid, now, calls, overlaid>>

-----------------------------------------------------------------------------
\* Replace, of the subkeys or of the attributes: with its transaction under the
\* lock; a key that is missing is made without a value.
Replaced(t) ==
    /\ task[t].pc = "replace"
    /\ LET k     == task[t]
           n     == k.call.key
           attrs == k.call.op = "addattr"
       IN \/ /\ Missing(elems, Live(n))
             /\ Go(t, n, [k EXCEPT !.pc = "take", !.at = n, !.text = NoText, !.rm = FALSE,
                                   !.puid = 0, !.past = <<>>, !.held = <<>>])
             /\ UNCHANGED <<elems, copy, overlaid>>
          \/ /\ ~Missing(elems, Live(n)) /\ attrs
             /\ elems' = [elems EXCEPT ![Live(n)][1].attrs = k.attrs]
             /\ copy' = Load(copy, ReplaceAttrs(Live(n), k.attrs))
             /\ overlaid' = IF Found(elems, Live(n)).attrs = k.held THEN overlaid
                            ELSE overlaid \cup {n}
             /\ End(t, n)
          \/ /\ ~Missing(elems, Live(n)) /\ ~attrs
             /\ elems' = [elems EXCEPT ![Live(n)][1].subs = k.subs]
             /\ copy' = Load(copy, ReplaceSKey(Live(n), k.subs))
             /\ End(t, n)
             /\ UNCHANGED overlaid
    /\ UNCHANGED <<use, packs, nextUid, now, calls>>

\* Remove of one subkey: it leaves the list of its key under the lock, then it and
\* what is below it are removed.
Unlist(t) ==
    /\ task[t].pc = "unlist"
    /\ LET k      == task[t]
           sub    == k.call.arg
           listed == ~Missing(elems, Live(k.at)) /\ Has(Found(elems, Live(k.at)).subs, sub)
           subs   == Erase(Found(elems, Live(k.at)).subs, sub)
       IN \/ ~listed /\ End(t, k.at) /\ UNCHANGED <<elems, copy>>
          \/ /\ listed
             /\ elems' = [elems EXCEPT ![Live(k.at)][1].subs = subs]
             /\ copy' = Load(copy, ReplaceSKey(Live(k.at), subs))
             /\ Go(t, k.at, [k EXCEPT !.pc = "below", !.doomed = <<sub>>])
    /\ UNCHANGED <<use, packs, nextUid, now, calls, overlaid>>

-----------------------------------------------------------------------------
\* Rename, the lock of the old name; the versions stay under it.
Move(t) ==
    /\ task[t].pc = "move"
    /\ LET k == task[t] IN
       \/ Missing(elems, Live(k.at)) /\ End(t, k.at) /\ UNCHANGED elems
       \/ /\ ~Missing(elems, Live(k.at))
          /\ elems' = Take(elems, Live(k.at))
          /\ Go(t, k.at, [k EXCEPT !.pc = "moved",
                                   !.held = WithPast(Found(elems, Live(k.at)), <<>>)])
    /\ UNCHANGED <<use, packs, copy, nextUid, now, calls, overlaid>>

\* The lock of the new name.  A name that was shared leaves that to the new one.
Moved(t) ==
    /\ task[t].pc = "moved"
    /\ LET k   == task[t]
           new == k.call.arg
           Both(names) == IF k.at \in names THEN names \cup {new} ELSE names
       IN /\ elems' = Put(elems, Live(new), k.held)
          /\ shared' = Both(IF \E u \in Threads \ {t} : new \in task[u].used
                            THEN shared \cup {k.at, new} ELSE shared)
          /\ overlaid' = Both(overlaid)
          /\ task' = [task EXCEPT ![t] = [k EXCEPT
                 !.pc = "below", !.held = <<>>, !.used = @ \cup {new},
                 !.stack = <<Rename(Live(k.at), Live(new), NoAttrs)>>]]
    /\ UNCHANGED <<use, packs, copy, nextUid, now, calls>>

Tick ==
    /\ now < use.maxTime
    /\ now' = now + 1
    /\ UNCHANGED <<use, packs, elems, copy, nextUid, calls, task, shared, overlaid>>

Finished ==
    /\ calls = use.maxCalls /\ now = use.maxTime /\ \A t \in Threads : task[t].pc = "idle"
    /\ UNCHANGED vars

Next ==
    \/ \E t \in Threads :
          \/ CallSet(t) \/ CallSetAll(t) \/ CallSetSubkeys(t) \/ CallAddSubkey(t)
          \/ CallAddAttr(t) \/ CallRemove(t) \/ CallRemoveSubkey(t) \/ CallRename(t)
          \/ CallGetTrial(t) \/ AddPass(t)
          \/ GetTrial(t) \/ ReadSubs(t) \/ ReadAttrs(t)
          \/ TakeOld(t) \/ Shelve(t) \/ Shelved(t) \/ InsertNew(t) \/ Below(t) \/ PutStack(t)
          \/ Replaced(t) \/ Unlist(t) \/ Move(t) \/ Moved(t)
    \/ Tick
    \/ Finished

Spec == Init /\ [][Next]_vars

-----------------------------------------------------------------------------
\* The store, the archive and the threads have the shape of the code's data; every
\* list of subkeys is ascending, which the halving of its next search relies on.
TypeOK ==
    /\ use \in Uses
    /\ DOMAIN elems = Keys /\ DOMAIN copy = Keys
    /\ \A k \in Keys : \A i \in DOMAIN elems[k] : Ascending(elems[k][i].subs)
    /\ nextUid \in 1 .. MaxUid + 1 /\ now \in 0 .. use.maxTime /\ calls \in 0 .. use.maxCalls
    /\ \A t \in Threads :
          /\ task[t].pc \in {"idle", "get", "subs", "attrs", "take", "shelve", "shelved",
                             "insert", "below", "replace", "unlist", "move", "moved"}
          /\ task[t].used \subseteq Names
          /\ Ascending(task[t].subs)
    /\ shared \subseteq Names /\ overlaid \subseteq Names

\* However the calls interleave, a key is never in the file twice: a second element
\* would never be found, and come back when the first one is removed.  Nor is a
\* version, of a name that no two calls were at at once.
OneElementPerKey == \A k \in Keys : k[2] = 0 \/ k[1] \notin shared => Len(elems[k]) <= 1

\* Loading the archive gives the file again: for every name that no call is at, and
\* that no two calls were at at once, with its versions, values, subkeys and
\* attributes.
ArchiveReplays ==
    \A n \in Names \ (shared \cup UNION {task[t].used : t \in Threads}) :
        \A uid \in 0 .. MaxUid :
            copy[<<n, uid>>] = [i \in DOMAIN elems[<<n, uid>>] |-> Bare(elems[<<n, uid>>][i])]

\* The texts of the versions a key leads back to, oldest first.
Versions(n, e) ==
    LET Parent(attrs) == IF HasAttr(attrs, "parentuniqid")
                         THEN GetAttr(attrs, "parentuniqid") ELSE 0
        upto[uid \in 0 .. MaxUid] ==
            IF uid = 0 \/ Missing(elems, MakeHistoryKey(n, uid)) THEN <<>>
            ELSE LET version == Found(elems, MakeHistoryKey(n, uid))
                 IN  Append(upto[Parent(version.attrs)], version.value.text)
    IN  upto[Parent(e.attrs)]

\* In history mode the parent unique ids lead from a key through every text it had
\* since it was made, in their order.
VersionsKept ==
    \A n \in Names \ shared :
        ~Missing(elems, Live(n)) =>
            Versions(n, Found(elems, Live(n))) = Found(elems, Live(n)).past

\* Whatever was set can be read until it expires: with the password it was set
\* with, and without one by a process that knows it.  That is so however Sets,
\* removals and renamings interleave; not where AddAttr has put attributes back
\* over newer ones.
ReadableAsSet ==
    \A n \in Names \ overlaid :
        ~Missing(elems, Live(n)) =>
            LET e == Found(elems, Live(n))
            IN  ~IsExpire(e.attrs, now) =>
                \A t \in Threads, pass \in {NoPass, e.value.pass} :
                    pass = e.value.pass \/ e.value.pass \in packs[t].passes =>
                        Get(packs[t], elems, n, pass) = e.value.text
=============================================================================
