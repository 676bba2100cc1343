--------------------------- MODULE K2HKeysProofs ---------------------------
(***************************************************************************)
(* Proofs about K2HKeys, for any number of threads, names, unique ids, calls *)
(* and settings that its assumptions admit.  The invariants are in           *)
(* K2HKeysInv.  Each action is first put into a plain form (the lemmas       *)
(* ...Effect), which the lemmas about the five invariants share.             *)
(***************************************************************************)
EXTENDS K2HKeysInv, FiniteSetTheorems

LEMMA FoundFacts ==
    ASSUME NEW s, NEW k \in Keys, StoreOK(s), ~Missing(s, k)
    PROVE  /\ Found(s, k) \in ToSet(s[k]) /\ IsElem(Found(s, k)) /\ Found(s, k) = s[k][1]
           /\ IsList(s[k]) /\ Len(s[k]) \in Nat \ {0}
  BY ListTail DEF StoreOK, Missing, Found

LEMMA TakeFacts ==
    ASSUME NEW s, NEW k \in Keys, StoreOK(s), ~Missing(s, k)
    PROVE  /\ StoreOK(Take(s, k)) /\ Take(s, k)[k] = Tail(s[k])
           /\ \A j \in Keys \ {k} : Take(s, k)[j] = s[j]
           /\ \A j \in Keys : ToSet(Take(s, k)[j]) \subseteq ToSet(s[j])
  <1> DEFINE u == Take(s, k)
  <1>1. /\ IsFunction(u) /\ DOMAIN u = Keys
        /\ u[k] = Tail(s[k]) /\ \A j \in Keys \ {k} : u[j] = s[j]
    BY DEF StoreOK, IsFunction, Take
  <1>2. IsList(Tail(s[k])) /\ ToSet(Tail(s[k])) \subseteq ToSet(s[k])
    BY ListTail DEF StoreOK, Missing
  <1> HIDE DEF u
  <1>3. \A j \in Keys : IsList(u[j]) /\ ToSet(u[j]) \subseteq ToSet(s[j])
    <2> SUFFICES ASSUME NEW j \in Keys PROVE IsList(u[j]) /\ ToSet(u[j]) \subseteq ToSet(s[j])
      OBVIOUS
    <2> QED
      BY <1>1, <1>2 DEF StoreOK
  <1>4. StoreOK(u)
    BY <1>1, <1>3 DEF StoreOK
  <1> QED
    BY <1>1, <1>3, <1>4 DEF u

LEMMA PutFacts ==
    ASSUME NEW s, NEW k, NEW e, StoreOK(s), IsElem(e)
    PROVE  /\ StoreOK(Put(s, k, e))
           /\ k \in Keys => Put(s, k, e)[k] = Append(s[k], e)
           /\ \A j \in Keys \ {k} : Put(s, k, e)[j] = s[j]
           /\ k \in Keys => ToSet(Put(s, k, e)[k]) = ToSet(s[k]) \cup {e}
  <1> DEFINE u == Put(s, k, e)
  <1>1. /\ IsFunction(u) /\ DOMAIN u = Keys
        /\ k \in Keys => u[k] = Append(s[k], e)
        /\ \A j \in Keys \ {k} : u[j] = s[j]
    BY DEF StoreOK, IsFunction, Put
  <1>2. k \in Keys => /\ IsList(Append(s[k], e))
                      /\ ToSet(Append(s[k], e)) = ToSet(s[k]) \cup {e}
    BY ListAppend DEF StoreOK
  <1> HIDE DEF u
  <1>3. StoreOK(u)
    <2>1. ASSUME NEW j \in Keys PROVE IsList(u[j]) /\ \A d \in ToSet(u[j]) : IsElem(d)
      BY <1>1, <1>2 DEF StoreOK
    <2> QED
      BY <1>1, <2>1 DEF StoreOK
  <1> QED
    BY <1>1, <1>2, <1>3 DEF u

LEMMA ChangedFacts ==
    ASSUME NEW s, NEW k \in Keys, NEW e, StoreOK(s), IsElem(e), ~Missing(s, k)
    PROVE  /\ StoreOK(Changed(s, k, e))
           /\ \A j \in Keys \ {k} : Changed(s, k, e)[j] = s[j]
           /\ ToSet(Changed(s, k, e)[k]) \subseteq ToSet(s[k]) \cup {e}
           /\ Changed(s, k, e)[k] # <<>> /\ Changed(s, k, e)[k][1] = e
           /\ Len(Changed(s, k, e)[k]) = Len(s[k])
           /\ \A i \in 1 .. Len(s[k]) : Changed(s, k, e)[k][i] = IF i = 1 THEN e ELSE s[k][i]
           /\ Found(Changed(s, k, e), k) = e
  <1> DEFINE u == Changed(s, k, e)
             n == [s[k] EXCEPT ![1] = e]
  <1>1. /\ IsFunction(u) /\ DOMAIN u = Keys
        /\ u[k] = n /\ \A j \in Keys \ {k} : u[j] = s[j]
    BY DEF StoreOK, IsFunction, Changed
  <1>2. /\ IsList(n) /\ n # <<>> /\ ToSet(n) \subseteq ToSet(s[k]) \cup {e}
        /\ Len(n) = Len(s[k]) /\ Head(n) = e
        /\ \A i \in 1 .. Len(s[k]) : n[i] = IF i = 1 THEN e ELSE s[k][i]
    BY ListFirst DEF StoreOK, Missing
  <1>3. Len(s[k]) \in Nat \ {0}
    BY FoundFacts
  <1> HIDE DEF u, n
  <1>4. StoreOK(u)
    <2>1. ASSUME NEW j \in Keys PROVE IsList(u[j]) /\ \A d \in ToSet(u[j]) : IsElem(d)
      BY <1>1, <1>2 DEF StoreOK
    <2> QED
      BY <1>1, <2>1 DEF StoreOK
  <1>5. n[1] = e
    BY <1>2, <1>3
  <1> QED
    BY <1>1, <1>2, <1>4, <1>5 DEF u, Found

LEMMA ChangedParts ==
    ASSUME NEW s, NEW k \in Keys, NEW x, StoreOK(s), ~Missing(s, k)
    PROVE  /\ Reattributed(s, k, x) = Changed(s, k, WithAttrs(Found(s, k), x))
           /\ Relisted(s, k, x) = Changed(s, k, WithSubs(Found(s, k), x))
  <1>1. Found(s, k) = s[k][1]
    BY FoundFacts
  <1> QED
    BY <1>1 DEF Changed, Reattributed, Relisted, WithAttrs, WithSubs

LEMMA PartsElem ==
    ASSUME NEW e, NEW x, IsElem(e)
    PROVE  /\ IsElem(WithAttrs(e, x))
           /\ x \in Seq(Names) /\ Ascending(x) => IsElem(WithSubs(e, x))
           /\ LET f == WithAttrs(e, x)
              IN  f.attrs = x /\ f.value = e.value /\ f.subs = e.subs /\ f.past = e.past
           /\ LET f == WithSubs(e, x)
              IN  f.subs = x /\ f.value = e.value /\ f.attrs = e.attrs /\ f.past = e.past
  <1>1. e = [value |-> e.value, subs |-> e.subs, attrs |-> e.attrs, past |-> e.past]
    BY DEF IsElem
  <1>2. /\ WithAttrs(e, x) = [value |-> e.value, subs |-> e.subs, attrs |-> x, past |-> e.past]
        /\ WithSubs(e, x) = [value |-> e.value, subs |-> x, attrs |-> e.attrs, past |-> e.past]
    BY <1>1 DEF WithAttrs, WithSubs
  <1> QED
    BY <1>2 DEF IsElem

LEMMA CommandsAppend ==
    ASSUME NEW s, NEW c, IsCommands(s), c.type \in CommandTypes
    PROVE  IsCommands(Append(s, c))
  BY ListAppend DEF IsCommands

LEMMA CommandsEmpty == IsCommands(<<>>)
  BY ListEmpty DEF IsCommands

-----------------------------------------------------------------------------
\* The steps keep the shape.
LEMMA NamesFacts ==
    /\ Names \in SUBSET Nat /\ MaxUid \in Nat
    /\ \A n \in Names : Live(n) \in Keys /\ Live(n)[1] = n /\ Live(n)[2] = 0
    /\ \A m, n \in Names : Live(m) = Live(n) => m = n
  BY NamesAssumption DEF Live, Keys

LEMMA AtShared ==
    ASSUME TypeInv, NEW t \in Threads, NEW n \in Names, At(t, n)
    PROVE  shared' \subseteq Names
  <1> SUFFICES ASSUME NEW u \in Threads, n \in task[u].used
               PROVE  Linked(u, n) \subseteq Names
    BY DEF At, TypeInv, Bounds
  <1>1. TaskOK(task[u], packs[u].history)
    BY DEF TypeInv, TasksOK
  <1>2. task[u].pc # "idle"
    BY <1>1 DEF TaskOK
  <1> QED
    BY <1>1, <1>2 DEF TaskOK, Linked, WithArg

LEMMA TaskFacts ==
    ASSUME TypeInv, NEW t \in Threads
    PROVE  /\ TaskOK(task[t], packs[t].history) /\ IsTask(task[t])
           /\ task[t].pc # "idle" => task[t].at \in Names /\ Live(task[t].at) \in Keys
           /\ packs[t].history \in BOOLEAN
  <1>1. packs[t].history = use.settings[t].history /\ use.settings[t].history \in BOOLEAN
    BY UsesAssumption DEF TypeInv, Bounds, PacksOK
  <1>2. TaskOK(task[t], packs[t].history)
    BY DEF TypeInv, TasksOK
  <1> QED
    BY <1>1, <1>2, NamesFacts DEF TaskOK

LEMMA GoFacts ==
    ASSUME TypeInv, NEW t \in Threads, NEW n, NEW next, IsTask(next), Go(t, n, next)
    PROVE  /\ At(t, n) /\ Others(t)
           /\ task'[t] = [pc |-> next.pc, call |-> next.call, at |-> next.at, text |-> next.text,
                          rm |-> next.rm, subs |-> next.subs, attrs |-> next.attrs,
                          doomed |-> next.doomed, stack |-> next.stack, old |-> next.old,
                          under |-> next.under, then |-> next.then, puid |-> next.puid,
                          past |-> next.past, held |-> next.held, used |-> next.used \cup {n}]
  <1> DEFINE used == next.used \cup {n}
             after == [next EXCEPT !.used = used]
  <1>1. At(t, n) /\ task' = [task EXCEPT ![t] = [next EXCEPT !.used = @ \cup {n}]]
    BY DEF Go
  <1>2. [next EXCEPT !.used = @ \cup {n}] = after
    BY DEF IsTask
  <1> HIDE DEF used
  <1>3. after = [pc |-> next.pc, call |-> next.call, at |-> next.at, text |-> next.text,
                 rm |-> next.rm, subs |-> next.subs, attrs |-> next.attrs,
                 doomed |-> next.doomed, stack |-> next.stack, old |-> next.old,
                 under |-> next.under, then |-> next.then, puid |-> next.puid,
                 past |-> next.past, held |-> next.held, used |-> used]
    BY DEF IsTask
  <1> HIDE DEF after
  <1>4. task' = [task EXCEPT ![t] = after]
    BY <1>1, <1>2
  <1>5. Others(t) /\ task'[t] = after
    BY <1>4 DEF TypeInv, TasksOK, Others
  <1> QED
    BY <1>1, <1>3, <1>5 DEF used

LEMMA EndFacts ==
    ASSUME TypeInv, NEW t \in Threads, NEW n, End(t, n)
    PROVE  At(t, n) /\ Others(t) /\ task'[t] = Idle
  BY DEF End, TypeInv, TasksOK, Others

LEMMA IdleType == \A h : TaskOK(Idle, h)
  <1>1. IsList(<<>>) /\ IsCommands(<<>>) /\ <<>> \in Seq(Names) /\ Ascending(<<>>)
    BY ListEmpty, CommandsEmpty DEF Ascending
  <1> QED
    BY <1>1 DEF TaskOK, IsTask, Idle, NoCall, Steps, WithArg

\* What an action makes of the task of its thread.

LEMMA GetTrialEffect ==
    ASSUME TypeInv, NEW t \in Threads, GetTrial(t)
    PROVE  GetTrialDoes(t)
  <1> DEFINE k == task[t]
             b == [k EXCEPT !.pc = "subs"]
  <1>1. /\ k.pc = "get"
        /\ UNCHANGED <<use, packs, elems, copy, nextUid, now, calls, overlaid>>
        /\ \/ End(t, k.at)
           \/ Go(t, k.at, b)
    BY Zenon DEF GetTrial
  <1>2. IsTask(k)
    BY TaskFacts
  <1> HIDE DEF k
  <1>3. b = [pc |-> "subs", call |-> k.call, at |-> k.at, text |-> k.text, rm |-> k.rm,
            subs |-> k.subs, attrs |-> k.attrs, doomed |-> k.doomed, stack |-> k.stack,
            old |-> k.old, under |-> k.under, then |-> k.then, puid |-> k.puid,
            past |-> k.past, held |-> k.held, used |-> k.used]
    <2>1. b = [k EXCEPT !.pc = "subs"]
      OBVIOUS
    <2> HIDE DEF b
    <2> QED
      BY <1>2, <2>1 DEF IsTask
  <1> HIDE DEF b
  <1>4. Go(t, k.at, b) =>
            /\ At(t, k.at) /\ Others(t)
            /\ task'[t] = WithPc(k, k.at, "subs")
    BY <1>3, GoFacts DEF IsTask, WithPc
  <1> QED
    BY <1>1, <1>3, <1>4, EndFacts, Zenon DEF GetTrialDoes, k

LEMMA ReadSubsEffect ==
    ASSUME TypeInv, NEW t \in Threads, ReadSubs(t)
    PROVE  ReadSubsDoes(t)
  <1> DEFINE k == task[t]
             subs == GetSubKeys(k.at)
             a == [k EXCEPT !.pc = "replace", !.subs = Insert(subs, k.call.arg)]
             b == [k EXCEPT !.pc = "attrs", !.subs = subs]
  <1>1. /\ k.pc = "subs"
        /\ UNCHANGED <<use, packs, elems, copy, nextUid, now, calls, overlaid>>
        /\ \/ /\ k.call.op = "addsubkey"
              /\ Go(t, k.at, a)
           \/ /\ k.call.op # "addsubkey"
              /\ Go(t, k.at, b)
    BY Zenon DEF ReadSubs
  <1>2. IsTask(k)
    BY TaskFacts
  <1> HIDE DEF k, subs
  <1>3. a = [pc |-> "replace", call |-> k.call, at |-> k.at, text |-> k.text, rm |-> k.rm,
            subs |-> Insert(subs, k.call.arg), attrs |-> k.attrs, doomed |-> k.doomed,
            stack |-> k.stack, old |-> k.old, under |-> k.under, then |-> k.then,
            puid |-> k.puid, past |-> k.past, held |-> k.held, used |-> k.used]
    <2>1. a = [k EXCEPT !.pc = "replace", !.subs = Insert(subs, k.call.arg)]
      OBVIOUS
    <2> HIDE DEF a
    <2> QED
      BY <1>2, <2>1 DEF IsTask
  <1>4. b = [pc |-> "attrs", call |-> k.call, at |-> k.at, text |-> k.text, rm |-> k.rm,
            subs |-> subs, attrs |-> k.attrs, doomed |-> k.doomed, stack |-> k.stack,
            old |-> k.old, under |-> k.under, then |-> k.then, puid |-> k.puid,
            past |-> k.past, held |-> k.held, used |-> k.used]
    <2>1. b = [k EXCEPT !.pc = "attrs", !.subs = subs]
      OBVIOUS
    <2> HIDE DEF b
    <2> QED
      BY <1>2, <2>1 DEF IsTask
  <1> HIDE DEF a, b
  <1>5. Go(t, k.at, a) =>
            /\ At(t, k.at) /\ Others(t)
            /\ task'[t] = WithPcSubs(k, k.at, "replace", Insert(subs, k.call.arg))
    BY <1>3, GoFacts DEF IsTask, WithPcSubs
  <1>6. Go(t, k.at, b) =>
            /\ At(t, k.at) /\ Others(t)
            /\ task'[t] = WithPcSubs(k, k.at, "attrs", subs)
    BY <1>4, GoFacts DEF IsTask, WithPcSubs
  <1> QED
    BY <1>1, <1>3, <1>4, <1>5, <1>6, Zenon DEF ReadSubsDoes, k, subs

LEMMA ReadAttrsEffect ==
    ASSUME TypeInv, NEW t \in Threads, ReadAttrs(t)
    PROVE  ReadAttrsDoes(t)
  <1> DEFINE k == task[t]
             attrs == GetAttrs(k.at)
             a == [k EXCEPT !.pc = "replace", !.held = attrs, !.attrs = SetAttr(attrs,
                  "user", k.call.text)]
             b == [k EXCEPT !.pc = "take", !.attrs = attrs]
  <1>1. /\ k.pc = "attrs"
        /\ UNCHANGED <<use, packs, elems, copy, nextUid, now, calls, overlaid>>
        /\ \/ /\ k.call.op = "addattr"
              /\ Go(t, k.at, a)
           \/ /\ k.call.op # "addattr"
              /\ Go(t, k.at, b)
    BY Zenon DEF ReadAttrs
  <1>2. IsTask(k)
    BY TaskFacts
  <1> HIDE DEF k, attrs
  <1>3. a = [pc |-> "replace", call |-> k.call, at |-> k.at, text |-> k.text, rm |-> k.rm,
            subs |-> k.subs, attrs |-> SetAttr(attrs, "user", k.call.text),
            doomed |-> k.doomed, stack |-> k.stack, old |-> k.old, under |-> k.under,
            then |-> k.then, puid |-> k.puid, past |-> k.past, held |-> attrs,
            used |-> k.used]
    <2>1. a = [k EXCEPT !.pc = "replace", !.held = attrs, !.attrs =
              SetAttr(attrs, "user", k.call.text)]
      OBVIOUS
    <2> HIDE DEF a
    <2> QED
      BY <1>2, <2>1 DEF IsTask
  <1>4. b = [pc |-> "take", call |-> k.call, at |-> k.at, text |-> k.text, rm |-> k.rm,
            subs |-> k.subs, attrs |-> attrs, doomed |-> k.doomed, stack |-> k.stack,
            old |-> k.old, under |-> k.under, then |-> k.then, puid |-> k.puid,
            past |-> k.past, held |-> k.held, used |-> k.used]
    <2>1. b = [k EXCEPT !.pc = "take", !.attrs = attrs]
      OBVIOUS
    <2> HIDE DEF b
    <2> QED
      BY <1>2, <2>1 DEF IsTask
  <1> HIDE DEF a, b
  <1>5. Go(t, k.at, a) =>
            /\ At(t, k.at) /\ Others(t)
            /\ task'[t] = WithPcHeldAttrs(k, k.at, "replace", attrs, SetAttr(attrs, "user", k.call.text))
    BY <1>3, GoFacts DEF IsTask, WithPcHeldAttrs
  <1>6. Go(t, k.at, b) =>
            /\ At(t, k.at) /\ Others(t)
            /\ task'[t] = WithPcAttrs(k, k.at, "take", attrs)
    BY <1>4, GoFacts DEF IsTask, WithPcAttrs
  <1> QED
    BY <1>1, <1>3, <1>4, <1>5, <1>6, Zenon DEF ReadAttrsDoes, k, attrs

LEMMA TakeOldEffect ==
    ASSUME TypeInv, NEW t \in Threads, TakeOld(t)
    PROVE  TakeOldDoes(t)
  <1> DEFINE k == task[t]
             next == IF k.call.op = "remove" THEN "below" ELSE "insert"
             subs == SubKeysOf(k.at, k.rm)
             stack == Stacked(k, k.at)
             a == [k EXCEPT !.pc = next]
             b == [k EXCEPT !.pc = next, !.doomed = subs, !.stack = stack]
             c == [k EXCEPT !.pc = "shelve", !.old = k.at, !.under = subs, !.then = next]
  <1>1. /\ k.pc = "take"
        /\ UNCHANGED <<use, packs, copy, nextUid, now, calls, overlaid>>
        /\ \/ /\ Missing(elems, Live(k.at))
              /\ UNCHANGED elems
              /\ Go(t, k.at, a)
           \/ /\ ~Missing(elems, Live(k.at))
              /\ ~packs[t].history
              /\ elems' = Take(elems, Live(k.at))
              /\ Go(t, k.at, b)
           \/ /\ ~Missing(elems, Live(k.at))
              /\ packs[t].history
              /\ UNCHANGED elems
              /\ Go(t, k.at, c)
    BY Zenon DEF TakeOld
  <1>2. IsTask(k)
    BY TaskFacts
  <1> HIDE DEF k, next, subs, stack
  <1>3. a = [pc |-> next, call |-> k.call, at |-> k.at, text |-> k.text, rm |-> k.rm,
            subs |-> k.subs, attrs |-> k.attrs, doomed |-> k.doomed, stack |-> k.stack,
            old |-> k.old, under |-> k.under, then |-> k.then, puid |-> k.puid,
            past |-> k.past, held |-> k.held, used |-> k.used]
    <2>1. a = [k EXCEPT !.pc = next]
      OBVIOUS
    <2> HIDE DEF a
    <2> QED
      BY <1>2, <2>1 DEF IsTask
  <1>4. b = [pc |-> next, call |-> k.call, at |-> k.at, text |-> k.text, rm |-> k.rm,
            subs |-> k.subs, attrs |-> k.attrs, doomed |-> subs, stack |-> stack,
            old |-> k.old, under |-> k.under, then |-> k.then, puid |-> k.puid,
            past |-> k.past, held |-> k.held, used |-> k.used]
    <2>1. b = [k EXCEPT !.pc = next, !.doomed = subs, !.stack = stack]
      OBVIOUS
    <2> HIDE DEF b
    <2> QED
      BY <1>2, <2>1 DEF IsTask
  <1>5. c = [pc |-> "shelve", call |-> k.call, at |-> k.at, text |-> k.text, rm |-> k.rm,
            subs |-> k.subs, attrs |-> k.attrs, doomed |-> k.doomed, stack |-> k.stack,
            old |-> k.at, under |-> subs, then |-> next, puid |-> k.puid, past |-> k.past,
            held |-> k.held, used |-> k.used]
    <2>1. c = [k EXCEPT !.pc = "shelve", !.old = k.at, !.under = subs, !.then = next]
      OBVIOUS
    <2> HIDE DEF c
    <2> QED
      BY <1>2, <2>1 DEF IsTask
  <1> HIDE DEF a, b, c
  <1>6. Go(t, k.at, a) =>
            /\ At(t, k.at) /\ Others(t)
            /\ task'[t] = WithPc(k, k.at, next)
    BY <1>3, GoFacts DEF IsTask, WithPc
  <1>7. Go(t, k.at, b) =>
            /\ At(t, k.at) /\ Others(t)
            /\ task'[t] = WithPcDoomedStack(k, k.at, next, subs, stack)
    BY <1>4, GoFacts DEF IsTask, WithPcDoomedStack
  <1>8. Go(t, k.at, c) =>
            /\ At(t, k.at) /\ Others(t)
            /\ task'[t] = WithPcOldUnderThen(k, k.at, "shelve", k.at, subs, next)
    BY <1>5, GoFacts DEF IsTask, WithPcOldUnderThen
  <1> QED
    BY <1>1, <1>3, <1>4, <1>5, <1>6, <1>7, <1>8, Zenon DEF TakeOldDoes, k, next, subs, stack

LEMMA ShelveEffect ==
    ASSUME TypeInv, NEW t \in Threads, Shelve(t)
    PROVE  ShelveDoes(t)
  <1> DEFINE k == task[t]
             e == Found(elems, Live(k.old))
             known == GetUniqId(e.attrs)
             named == IF known = 0 THEN DirectSetUniqId(packs[t], e.attrs, 0, nextUid) ELSE e.attrs
             puid == GetUniqId(named)
             held == WithAttrs(e, MarkHistory(named))
             none == <<>>
             b == [k EXCEPT !.pc = "below", !.under = none]
             c == [k EXCEPT !.pc = "shelved", !.puid = puid, !.held = held]
  <1>1. /\ k.pc = "shelve"
        /\ UNCHANGED <<use, packs, copy, now, calls, overlaid>>
        /\ \/ /\ Missing(elems, Live(k.old))
              /\ k.then = "insert"
              /\ UNCHANGED <<elems, nextUid>>
              /\ End(t, k.old)
           \/ /\ Missing(elems, Live(k.old))
              /\ k.then # "insert"
              /\ UNCHANGED <<elems, nextUid>>
              /\ Go(t, k.old, b)
           \/ /\ ~Missing(elems, Live(k.old))
              /\ known = 0 => nextUid <= MaxUid
              /\ elems' = Take(elems, Live(k.old))
              /\ nextUid' = IF known = 0 THEN nextUid + 1 ELSE nextUid
              /\ Go(t, k.old, c)
    BY Zenon DEF Shelve, WithAttrs
  <1>2. IsTask(k)
    BY TaskFacts
  <1> HIDE DEF k, e, known, named, puid, held, none
  <1>3. b = [pc |-> "below", call |-> k.call, at |-> k.at, text |-> k.text, rm |-> k.rm,
            subs |-> k.subs, attrs |-> k.attrs, doomed |-> k.doomed, stack |-> k.stack,
            old |-> k.old, under |-> none, then |-> k.then, puid |-> k.puid,
            past |-> k.past, held |-> k.held, used |-> k.used]
    <2>1. b = [k EXCEPT !.pc = "below", !.under = none]
      OBVIOUS
    <2> HIDE DEF b
    <2> QED
      BY <1>2, <2>1 DEF IsTask
  <1>4. c = [pc |-> "shelved", call |-> k.call, at |-> k.at, text |-> k.text, rm |-> k.rm,
            subs |-> k.subs, attrs |-> k.attrs, doomed |-> k.doomed, stack |-> k.stack,
            old |-> k.old, under |-> k.under, then |-> k.then, puid |-> puid,
            past |-> k.past, held |-> held, used |-> k.used]
    <2>1. c = [k EXCEPT !.pc = "shelved", !.puid = puid, !.held = held]
      OBVIOUS
    <2> HIDE DEF c
    <2> QED
      BY <1>2, <2>1 DEF IsTask
  <1> HIDE DEF b, c
  <1>5. Go(t, k.old, b) =>
            /\ At(t, k.old) /\ Others(t)
            /\ task'[t] = WithPcUnder(k, k.old, "below", none)
    BY <1>3, GoFacts DEF IsTask, WithPcUnder
  <1>6. Go(t, k.old, c) =>
            /\ At(t, k.old) /\ Others(t)
            /\ task'[t] = WithPcPuidHeld(k, k.old, "shelved", puid, held)
    BY <1>4, GoFacts DEF IsTask, WithPcPuidHeld
  <1> QED
    BY <1>1, <1>3, <1>4, <1>5, <1>6, EndFacts, Zenon DEF ShelveDoes, k, e, known, named, puid, held, none

LEMMA ShelvedEffect ==
    ASSUME TypeInv, NEW t \in Threads, Shelved(t)
    PROVE  ShelvedDoes(t)
  <1> DEFINE k == task[t]
             version == MakeHistoryKey(k.old, k.puid)
             none == <<>>
             doomed == k.under \o k.doomed
             past == Append(k.held.past, k.held.value.text)
             stack == Append(k.stack, Rename(Live(k.old), version, k.held.attrs))
             a == [k EXCEPT !.pc = k.then, !.held = none, !.under = none, !.doomed = doomed,
                  !.past = past, !.stack = stack]
  <1>1. /\ k.pc = "shelved"
        /\ elems' = Put(elems, version, k.held)
        /\ UNCHANGED <<use, packs, copy, nextUid, now, calls, overlaid>>
        /\ Go(t, k.old, a)
    BY Zenon DEF Shelved
  <1>2. IsTask(k)
    BY TaskFacts
  <1> HIDE DEF k, version, none, doomed, past, stack
  <1>3. a = [pc |-> k.then, call |-> k.call, at |-> k.at, text |-> k.text, rm |-> k.rm,
            subs |-> k.subs, attrs |-> k.attrs, doomed |-> doomed, stack |-> stack,
            old |-> k.old, under |-> none, then |-> k.then, puid |-> k.puid, past |-> past,
            held |-> none, used |-> k.used]
    <2>1. a = [k EXCEPT !.pc = k.then, !.held = none, !.under = none, !.doomed =
              doomed, !.past = past, !.stack = stack]
      OBVIOUS
    <2> HIDE DEF a
    <2> QED
      BY <1>2, <2>1 DEF IsTask
  <1> HIDE DEF a
  <1>4. Go(t, k.old, a) =>
            /\ At(t, k.old) /\ Others(t)
            /\ task'[t] = WithShelved(k, k.old, k.then, none, none, doomed, past, stack)
    BY <1>3, GoFacts DEF IsTask, WithShelved
  <1> QED
    BY <1>1, <1>3, <1>4, Zenon DEF ShelvedDoes, k, version, none, doomed, past, stack

LEMMA InsertNewEffect ==
    ASSUME TypeInv, NEW t \in Threads, InsertNew(t)
    PROVE  InsertNewDoes(t)
  <1> DEFINE k == task[t]
             new == NewElement(t)
             none == <<>>
             doomed == Without(k.doomed, k.subs)
             stack == Append(k.stack, SetAll(Live(k.at), new.e))
             a == [k EXCEPT !.pc = "take", !.puid = 0, !.past = none, !.doomed = none]
             b == [k EXCEPT !.pc = "below", !.doomed = doomed, !.stack = stack]
  <1>1. /\ k.pc = "insert"
        /\ UNCHANGED <<use, packs, copy, now, calls, overlaid>>
        /\ \/ /\ ~Missing(elems, Live(k.at))
              /\ UNCHANGED <<elems, nextUid>>
              /\ Go(t, k.at, a)
           \/ /\ Missing(elems, Live(k.at))
              /\ new.uid <= MaxUid + 1
              /\ elems' = Put(elems, Live(k.at), WithPast(new.e, k.past))
              /\ nextUid' = new.uid
              /\ Go(t, k.at, b)
    BY Zenon DEF InsertNew, Free
  <1>2. IsTask(k)
    BY TaskFacts
  <1> HIDE DEF k, new, none, doomed, stack
  <1>3. a = [pc |-> "take", call |-> k.call, at |-> k.at, text |-> k.text, rm |-> k.rm,
            subs |-> k.subs, attrs |-> k.attrs, doomed |-> none, stack |-> k.stack,
            old |-> k.old, under |-> k.under, then |-> k.then, puid |-> 0, past |-> none,
            held |-> k.held, used |-> k.used]
    <2>1. a = [k EXCEPT !.pc = "take", !.puid = 0, !.past = none, !.doomed = none]
      OBVIOUS
    <2> HIDE DEF a
    <2> QED
      BY <1>2, <2>1 DEF IsTask
  <1>4. b = [pc |-> "below", call |-> k.call, at |-> k.at, text |-> k.text, rm |-> k.rm,
            subs |-> k.subs, attrs |-> k.attrs, doomed |-> doomed, stack |-> stack,
            old |-> k.old, under |-> k.under, then |-> k.then, puid |-> k.puid,
            past |-> k.past, held |-> k.held, used |-> k.used]
    <2>1. b = [k EXCEPT !.pc = "below", !.doomed = doomed, !.stack = stack]
      OBVIOUS
    <2> HIDE DEF b
    <2> QED
      BY <1>2, <2>1 DEF IsTask
  <1> HIDE DEF a, b
  <1>5. Go(t, k.at, a) =>
            /\ At(t, k.at) /\ Others(t)
            /\ task'[t] = WithAgain(k, k.at, "take", 0, none, none)
    BY <1>3, GoFacts DEF IsTask, WithAgain
  <1>6. Go(t, k.at, b) =>
            /\ At(t, k.at) /\ Others(t)
            /\ task'[t] = WithPcDoomedStack(k, k.at, "below", doomed, stack)
    BY <1>4, GoFacts DEF IsTask, WithPcDoomedStack
  <1> QED
    BY <1>1, <1>3, <1>4, <1>5, <1>6, Zenon DEF InsertNewDoes, k, new, none, doomed, stack

LEMMA PutStackEffect ==
    ASSUME TypeInv, NEW t \in Threads, PutStack(t)
    PROVE  PutStackDoes(t)
  <1> DEFINE k == task[t]
             none == <<>>
             a == [k EXCEPT !.pc = "subs", !.at = k.call.key, !.stack = none]
  <1>1. /\ k.pc = "below"
        /\ k.doomed = <<>>
        /\ copy' = LoadAll(copy, k.stack)
        /\ UNCHANGED <<use, packs, elems, nextUid, now, calls, overlaid>>
        /\ \/ /\ k.call.op = "addsubkey"
              /\ k.at = k.call.arg
              /\ Go(t, k.at, a)
           \/ End(t, k.at)
    BY Zenon DEF PutStack
  <1>2. IsTask(k)
    BY TaskFacts
  <1> HIDE DEF k, none
  <1>3. a = [pc |-> "subs", call |-> k.call, at |-> k.call.key, text |-> k.text,
            rm |-> k.rm, subs |-> k.subs, attrs |-> k.attrs, doomed |-> k.doomed,
            stack |-> none, old |-> k.old, under |-> k.under, then |-> k.then,
            puid |-> k.puid, past |-> k.past, held |-> k.held, used |-> k.used]
    <2>1. a = [k EXCEPT !.pc = "subs", !.at = k.call.key, !.stack = none]
      OBVIOUS
    <2> HIDE DEF a
    <2> QED
      BY <1>2, <2>1 DEF IsTask
  <1> HIDE DEF a
  <1>4. Go(t, k.at, a) =>
            /\ At(t, k.at) /\ Others(t)
            /\ task'[t] = WithPcAtStack(k, k.at, "subs", k.call.key, none)
    BY <1>3, GoFacts DEF IsTask, WithPcAtStack
  <1> QED
    BY <1>1, <1>3, <1>4, EndFacts, Zenon DEF PutStackDoes, k, none

LEMMA ReplacedEffect ==
    ASSUME TypeInv, NEW t \in Threads, Replaced(t)
    PROVE  ReplacedDoes(t)
  <1> DEFINE k == task[t]
             key == k.call.key
             none == <<>>
             no == FALSE
             a == [k EXCEPT !.pc = "take", !.at = key, !.text = NoText, !.rm = no, !.puid =
                  0, !.past = none, !.held = none]
  <1>1. /\ k.pc = "replace"
        /\ UNCHANGED <<use, packs, nextUid, now, calls>>
        /\ \/ /\ Missing(elems, Live(key))
              /\ UNCHANGED <<elems, copy, overlaid>>
              /\ Go(t, key, a)
           \/ /\ ~Missing(elems, Live(key))
              /\ k.call.op = "addattr"
              /\ elems' = Reattributed(elems, Live(key), k.attrs)
              /\ copy' = Load(copy, ReplaceAttrs(Live(key), k.attrs))
              /\ overlaid' = IF Found(elems, Live(key)).attrs = k.held THEN overlaid ELSE overlaid \cup {key}
              /\ End(t, key)
           \/ /\ ~Missing(elems, Live(key))
              /\ k.call.op # "addattr"
              /\ elems' = Relisted(elems, Live(key), k.subs)
              /\ copy' = Load(copy, ReplaceSKey(Live(key), k.subs))
              /\ UNCHANGED overlaid
              /\ End(t, key)
    BY Zenon DEF Replaced, Reattributed, Relisted
  <1>2. IsTask(k)
    BY TaskFacts
  <1> HIDE DEF k, key, none, no
  <1>3. a = [pc |-> "take", call |-> k.call, at |-> key, text |-> NoText, rm |-> no,
            subs |-> k.subs, attrs |-> k.attrs, doomed |-> k.doomed, stack |-> k.stack,
            old |-> k.old, under |-> k.under, then |-> k.then, puid |-> 0, past |-> none,
            held |-> none, used |-> k.used]
    <2>1. a = [k EXCEPT !.pc = "take", !.at = key, !.text = NoText, !.rm = no, !.puid
              = 0, !.past = none, !.held = none]
      OBVIOUS
    <2> HIDE DEF a
    <2> QED
      BY <1>2, <2>1 DEF IsTask
  <1> HIDE DEF a
  <1>4. Go(t, key, a) =>
            /\ At(t, key) /\ Others(t)
            /\ task'[t] = WithAfresh(k, key, "take", key, NoText, no, 0, none, none)
    BY <1>3, GoFacts DEF IsTask, WithAfresh
  <1> QED
    BY <1>1, <1>3, <1>4, EndFacts, Zenon DEF ReplacedDoes, k, key, none, no

LEMMA UnlistEffect ==
    ASSUME TypeInv, NEW t \in Threads, Unlist(t)
    PROVE  UnlistDoes(t)
  <1> DEFINE k == task[t]
             e == Found(elems, Live(k.at))
             subs == Erase(e.subs, k.call.arg)
             one == <<k.call.arg>>
             b == [k EXCEPT !.pc = "below", !.doomed = one]
  <1>1. /\ k.pc = "unlist"
        /\ UNCHANGED <<use, packs, nextUid, now, calls, overlaid>>
        /\ \/ /\ UNCHANGED <<elems, copy>>
              /\ End(t, k.at)
           \/ /\ ~Missing(elems, Live(k.at))
              /\ elems' = Relisted(elems, Live(k.at), subs)
              /\ copy' = Load(copy, ReplaceSKey(Live(k.at), subs))
              /\ Go(t, k.at, b)
    BY Zenon DEF Unlist, Relisted
  <1>2. IsTask(k)
    BY TaskFacts
  <1> HIDE DEF k, e, subs, one
  <1>3. b = [pc |-> "below", call |-> k.call, at |-> k.at, text |-> k.text, rm |-> k.rm,
            subs |-> k.subs, attrs |-> k.attrs, doomed |-> one, stack |-> k.stack,
            old |-> k.old, under |-> k.under, then |-> k.then, puid |-> k.puid,
            past |-> k.past, held |-> k.held, used |-> k.used]
    <2>1. b = [k EXCEPT !.pc = "below", !.doomed = one]
      OBVIOUS
    <2> HIDE DEF b
    <2> QED
      BY <1>2, <2>1 DEF IsTask
  <1> HIDE DEF b
  <1>4. Go(t, k.at, b) =>
            /\ At(t, k.at) /\ Others(t)
            /\ task'[t] = WithPcDoomed(k, k.at, "below", one)
    BY <1>3, GoFacts DEF IsTask, WithPcDoomed
  <1> QED
    BY <1>1, <1>3, <1>4, EndFacts, Zenon DEF UnlistDoes, k, e, subs, one

LEMMA MoveEffect ==
    ASSUME TypeInv, NEW t \in Threads, Move(t)
    PROVE  MoveDoes(t)
  <1> DEFINE k == task[t]
             held == WithPast(Found(elems, Live(k.at)), <<>>)
             b == [k EXCEPT !.pc = "moved", !.held = held]
  <1>1. /\ k.pc = "move"
        /\ UNCHANGED <<use, packs, copy, nextUid, now, calls, overlaid>>
        /\ \/ /\ Missing(elems, Live(k.at))
              /\ UNCHANGED elems
              /\ End(t, k.at)
           \/ /\ ~Missing(elems, Live(k.at))
              /\ elems' = Take(elems, Live(k.at))
              /\ Go(t, k.at, b)
    BY Zenon DEF Move
  <1>2. IsTask(k)
    BY TaskFacts
  <1> HIDE DEF k, held
  <1>3. b = [pc |-> "moved", call |-> k.call, at |-> k.at, text |-> k.text, rm |-> k.rm,
            subs |-> k.subs, attrs |-> k.attrs, doomed |-> k.doomed, stack |-> k.stack,
            old |-> k.old, under |-> k.under, then |-> k.then, puid |-> k.puid,
            past |-> k.past, held |-> held, used |-> k.used]
    <2>1. b = [k EXCEPT !.pc = "moved", !.held = held]
      OBVIOUS
    <2> HIDE DEF b
    <2> QED
      BY <1>2, <2>1 DEF IsTask
  <1> HIDE DEF b
  <1>4. Go(t, k.at, b) =>
            /\ At(t, k.at) /\ Others(t)
            /\ task'[t] = WithPcHeld(k, k.at, "moved", held)
    BY <1>3, GoFacts DEF IsTask, WithPcHeld
  <1> QED
    BY <1>1, <1>3, <1>4, EndFacts, Zenon DEF MoveDoes, k, held

LEMMA BeginEffect ==
    ASSUME TypeInv, NEW t \in Threads, NEW op, NEW pc, Begin(t, op, pc)
    PROVE  /\ task[t].pc = "idle" /\ calls < use.maxCalls /\ calls' = calls + 1
           /\ UNCHANGED <<use, packs, elems, copy, nextUid, now, shared, overlaid>>
           /\ Others(t)
           /\ \E c \in use.calls[t] :
                 /\ c.op = op
                 /\ op = "rename" => MayRename(c)
                 /\ task'[t] = Begun(c, op, pc)
  <1>1. /\ task[t].pc = "idle" /\ calls < use.maxCalls /\ calls' = calls + 1
        /\ UNCHANGED <<use, packs, elems, copy, nextUid, now, shared, overlaid>>
    BY DEF Begin
  <1>2. PICK c \in use.calls[t] :
          /\ c.op = op
          /\ op = "rename" => MayRename(c)
          /\ task' = [task EXCEPT ![t] = [Idle EXCEPT
                 !.pc = pc, !.call = c, !.text = c.text, !.rm = c.rm, !.subs = Collected(c.list),
                 !.at = IF op = "addsubkey" THEN c.arg ELSE c.key]]
    BY DEF Begin
  <1> DEFINE col  == Collected(c.list)
             at   == IF op = "addsubkey" THEN c.arg ELSE c.key
             text == c.text
             rm   == c.rm
             new  == [Idle EXCEPT !.pc = pc, !.call = c, !.text = text, !.rm = rm, !.subs = col, !.at = at]
  <1>3. task' = [task EXCEPT ![t] = new]
    BY <1>2
  <1> HIDE DEF col, at, text, rm
  <1>4. new = [pc |-> pc, call |-> c, at |-> at, text |-> text, rm |-> rm, subs |-> col,
               attrs |-> NoAttrs, doomed |-> <<>>, stack |-> <<>>, old |-> 0, under |-> <<>>,
               then |-> "none", puid |-> 0, past |-> <<>>, held |-> <<>>, used |-> {}]
    <2>1. new = [Idle EXCEPT !.pc = pc, !.call = c, !.text = text, !.rm = rm, !.subs = col, !.at = at]
      OBVIOUS
    <2> HIDE DEF new
    <2> QED
      BY <2>1 DEF Idle
  <1> HIDE DEF new
  <1>5. Others(t) /\ task'[t] = new
    BY <1>3 DEF TypeInv, TasksOK, Others
  <1>6. task'[t] = [pc |-> pc, call |-> c, at |-> at, text |-> text, rm |-> rm, subs |-> col,
               attrs |-> NoAttrs, doomed |-> <<>>, stack |-> <<>>, old |-> 0, under |-> <<>>,
               then |-> "none", puid |-> 0, past |-> <<>>, held |-> <<>>, used |-> {}]
    BY <1>4, <1>5
  <1> QED
    BY <1>1, <1>2, <1>5, <1>6, Zenon DEF col, at, text, rm, Begun

LEMMA BelowEffect ==
    ASSUME TypeInv, NEW t \in Threads, Below(t)
    PROVE  BelowDoes(t)
  <1> DEFINE k == task[t]
             n == Head(k.doomed)
             rest == Tail(k.doomed)
             under == SubKeysOf(n, TRUE)
             more == under \o rest
             stack == Stacked(k, n)
             a == [k EXCEPT !.doomed = Tail(@)]
             b == [a EXCEPT !.doomed = SubKeysOf(n, TRUE) \o @, !.stack = stack]
             c == [a EXCEPT !.pc = "shelve", !.old = n, !.then = "below", !.under = under]
  <1>1. /\ k.pc = "below" /\ k.doomed # <<>>
        /\ UNCHANGED <<use, packs, copy, nextUid, now, calls, overlaid>>
        /\ \/ Missing(elems, Live(n)) /\ Go(t, n, a) /\ UNCHANGED elems
           \/ /\ ~Missing(elems, Live(n)) /\ ~packs[t].history
              /\ elems' = Take(elems, Live(n)) /\ Go(t, n, b)
           \/ /\ ~Missing(elems, Live(n)) /\ packs[t].history
              /\ Go(t, n, c) /\ UNCHANGED elems
    BY Zenon DEF Below
  <1>2. IsTask(k)
    BY TaskFacts
  <1>3. a = [k EXCEPT !.doomed = rest]
    OBVIOUS
  <1>4. SubKeysOf(n, TRUE) = under
    OBVIOUS
  <1> HIDE DEF k, n, rest, under, stack
  <1> HIDE DEF a
  <1>5. a = [pc |-> k.pc, call |-> k.call, at |-> k.at, text |-> k.text,
             rm |-> k.rm, subs |-> k.subs, attrs |-> k.attrs, doomed |-> rest,
             stack |-> k.stack, old |-> k.old, under |-> k.under,
             then |-> k.then, puid |-> k.puid, past |-> k.past,
             held |-> k.held, used |-> k.used]
    BY <1>2, <1>3 DEF IsTask
  <1>6. IsTask(a) /\ a.doomed = rest
    BY <1>5 DEF IsTask
  <1>7. b = [pc |-> k.pc, call |-> k.call, at |-> k.at, text |-> k.text,
             rm |-> k.rm, subs |-> k.subs, attrs |-> k.attrs, doomed |-> more,
             stack |-> stack, old |-> k.old, under |-> k.under,
             then |-> k.then, puid |-> k.puid, past |-> k.past,
             held |-> k.held, used |-> k.used]
    <2>1. b = [a EXCEPT !.doomed = under \o rest, !.stack = stack]
      BY <1>4, <1>6 DEF IsTask
    <2> HIDE DEF b
    <2> QED
      BY <1>5, <2>1
  <1>8. c = [pc |-> "shelve", call |-> k.call, at |-> k.at, text |-> k.text,
             rm |-> k.rm, subs |-> k.subs, attrs |-> k.attrs, doomed |-> rest,
             stack |-> k.stack, old |-> n, under |-> under, then |-> "below",
             puid |-> k.puid, past |-> k.past, held |-> k.held,
             used |-> k.used]
    <2>1. c = [a EXCEPT !.pc = "shelve", !.old = n, !.then = "below", !.under = under]
      OBVIOUS
    <2> HIDE DEF c
    <2> QED
      BY <1>5, <2>1
  <1> HIDE DEF b, c, more
  <1>9. Go(t, n, a) =>
            /\ At(t, n) /\ Others(t)
            /\ task'[t] = WithDoomed(k, n, rest)
    BY <1>5, GoFacts DEF IsTask, WithDoomed
  <1>10. Go(t, n, b) =>
            /\ At(t, n) /\ Others(t)
            /\ task'[t] = WithDoomedStack(k, n, more, stack)
    BY <1>7, GoFacts DEF IsTask, WithDoomedStack
  <1>11. Go(t, n, c) =>
            /\ At(t, n) /\ Others(t)
            /\ task'[t] = WithDoomedOldThenUnder(k, n, rest, "shelve", n, "below", under)
    BY <1>8, GoFacts DEF IsTask, WithDoomedOldThenUnder
  <1> QED
    BY <1>1, <1>9, <1>10, <1>11, Zenon DEF BelowDoes, k, n, rest, under, more, stack

LEMMA MovedEffect ==
    ASSUME TypeInv, NEW t \in Threads, Moved(t)
    PROVE  MovedDoes(t)
  <1> DEFINE k    == task[t]
             new  == k.call.arg
             used == k.used \cup {new}
             none == <<>>
             one  == <<Rename(Live(k.at), Live(new), NoAttrs)>>
             a    == [k EXCEPT !.pc = "below", !.held = none, !.used = @ \cup {new}, !.stack = one]
  <1>1. /\ k.pc = "moved" /\ UNCHANGED <<use, packs, copy, nextUid, now, calls>>
        /\ elems' = Put(elems, Live(new), k.held)
        /\ shared' = BothNames(IF \E u \in Threads \ {t} : new \in task[u].used
                               THEN shared \cup {k.at, new} ELSE shared, k.at, new)
        /\ overlaid' = BothNames(overlaid, k.at, new)
        /\ task' = [task EXCEPT ![t] = a]
    BY Zenon DEF Moved, BothNames
  <1>2. IsTask(k)
    BY TaskFacts
  <1>3. Others(t) /\ task'[t] = a
    <2> HIDE DEF a
    <2> QED
      BY <1>1 DEF TypeInv, TasksOK, Others
  <1>4. a = [pc |-> "below", call |-> k.call, at |-> k.at, text |-> k.text,
             rm |-> k.rm, subs |-> k.subs, attrs |-> k.attrs,
             doomed |-> k.doomed, stack |-> one, old |-> k.old,
             under |-> k.under, then |-> k.then, puid |-> k.puid,
             past |-> k.past, held |-> none, used |-> used]
    <2> HIDE DEF k, none, one
    <2>1. a = [k EXCEPT !.pc = "below", !.held = none, !.used = k.used \cup {new}, !.stack = one]
      BY <1>2 DEF IsTask
    <2> HIDE DEF a, used
    <2>2. a = [k EXCEPT !.pc = "below", !.held = none, !.used = used, !.stack = one]
      BY <2>1 DEF used
    <2> QED
      BY <1>2, <2>2 DEF IsTask
  <1>5. a = WithMoved(k, new, "below", none, one)
    BY <1>4, Zenon DEF WithMoved
  <1> HIDE DEF a
  <1> QED
    BY <1>1, <1>3, <1>5, Zenon DEF MovedDoes

-----------------------------------------------------------------------------
\* What is left to show of a step of a thread.
LEMMA StepType ==
    ASSUME TypeInv, NEW t \in Threads, NEW n \in Names, At(t, n), Others(t),
           TaskOK(task'[t], packs[t].history), UNCHANGED <<use, packs, now, calls>>,
           nextUid' \in 1 .. MaxUid + 1, overlaid' \subseteq Names,
           StoreOK(elems'), DOMAIN copy' = Keys
    PROVE  TypeInv'
  <1>1. shared' \subseteq Names
    BY AtShared
  <1>2. \A u \in Threads : TaskOK(task'[u], packs[u].history)
    BY DEF TypeInv, TasksOK, Others
  <1>3. TasksOK'
    BY <1>2 DEF TasksOK, Others
  <1> QED
    BY <1>1, <1>3 DEF TypeInv, Bounds, PacksOK

\* The store stays.
LEMMA ReadType ==
    ASSUME TypeInv, NEW t \in Threads, NEW n \in Names, At(t, n), Others(t),
           TaskOK(task'[t], packs[t].history),
           UNCHANGED <<use, packs, elems, copy, nextUid, now, calls, overlaid>>
    PROVE  TypeInv'
  BY StepType DEF TypeInv, Bounds

\* Only the store changes, and what a unique id is taken from.
LEMMA WriteType ==
    ASSUME TypeInv, NEW t \in Threads, NEW n \in Names, At(t, n), Others(t),
           TaskOK(task'[t], packs[t].history),
           UNCHANGED <<use, packs, copy, now, calls, overlaid>>,
           StoreOK(elems'), nextUid' \in 1 .. MaxUid + 1
    PROVE  TypeInv'
  BY StepType DEF TypeInv, Bounds

LEMMA BeginType ==
    ASSUME TypeInv, NEW t \in Threads, NEW op, NEW pc, Begin(t, op, pc),
           op # "addpass", pc \in Steps \ {"idle", "shelve", "shelved", "moved"},
           pc = "move" <=> op = "rename", pc = "unlist" => op = "removesubkey"
    PROVE  TypeInv'
  <1>1. /\ calls < use.maxCalls /\ calls' = calls + 1
        /\ UNCHANGED <<use, packs, elems, copy, nextUid, now, shared, overlaid>>
        /\ Others(t)
    BY BeginEffect
  <1>2. PICK c \in use.calls[t] :
          /\ c.op = op
          /\ task'[t] = Begun(c, op, pc)
    BY BeginEffect
  <1>3. /\ c.key \in Names /\ c.list \in Seq(Names) /\ (op \in WithArg => c.arg \in Names)
        /\ use.maxCalls \in Nat
    BY <1>2, UsesAssumption DEF TypeInv, Bounds, WithArg
  <1>4. Collected(c.list) \in Seq(Names) /\ Ascending(Collected(c.list))
    BY <1>3, NamesFacts, CollectedFacts
  <1>5. TaskOK(task'[t], packs[t].history)
    <2> DEFINE n    == task'[t]
               col  == Collected(c.list)
               at   == IF op = "addsubkey" THEN c.arg ELSE c.key
               none == <<>>
    <2>1. n = [pc |-> pc, call |-> c, at |-> at, text |-> c.text, rm |-> c.rm, subs |-> col,
               attrs |-> NoAttrs, doomed |-> none, stack |-> none, old |-> 0, under |-> none,
               then |-> "none", puid |-> 0, past |-> none, held |-> none, used |-> {}]
      BY <1>2, Zenon DEF Begun
    <2>2. col \in Seq(Names) /\ Ascending(col) /\ at \in Names
      BY <1>3, <1>4 DEF WithArg
    <2>3. none = <<>> /\ IsList(none) /\ IsCommands(none) /\ none \in Seq(Names)
      BY ListEmpty, CommandsEmpty
    <2>4. c.op = op
      BY <1>2
    <2> HIDE DEF n, col, at, none
    <2>5. TaskOK(n, packs[t].history)
      BY <1>3, <2>1, <2>2, <2>3, <2>4 DEF TaskOK, IsTask, Steps, WithArg
    <2> QED
      BY <2>5 DEF n
  <1>6. \A u \in Threads : TaskOK(task'[u], packs[u].history)
    BY <1>1, <1>5 DEF TypeInv, TasksOK, Others
  <1>7. TasksOK'
    BY <1>1, <1>6 DEF TasksOK, Others
  <1> QED
    BY <1>1, <1>3, <1>7 DEF TypeInv, Bounds, PacksOK

LEMMA BeginsType ==
    ASSUME TypeInv, NEW t \in Threads, Calls(t)
    PROVE  TypeInv'
  BY BeginType DEF Steps, Calls, CallSet, CallSetAll, CallSetSubkeys, CallAddSubkey,
      CallAddAttr, CallRemove, CallRemoveSubkey, CallRename, CallGetTrial

LEMMA AddPassType ==
    ASSUME TypeInv, NEW t \in Threads, AddPass(t)
    PROVE  TypeInv'
  <1>1. /\ calls < use.maxCalls /\ calls' = calls + 1
        /\ UNCHANGED <<use, elems, copy, nextUid, now, task, shared, overlaid>>
    BY DEF AddPass
  <1>2. PICK c : packs' = [packs EXCEPT ![t] = AddCryptPass(@, c.pass, c.rm)]
    BY DEF AddPass
  <1> DEFINE new == AddCryptPass(packs[t], c.pass, c.rm)
  <1>3. IsPack(new) /\ new.type = packs[t].type /\ new.history = packs[t].history
    <2> DEFINE p == packs[t]
               passes == p.passes \cup {c.pass}
               defenc == p.defenc \/ c.rm
               default == IF c.rm THEN c.pass ELSE p.default
    <2>1. new = [p EXCEPT !.passes = passes, !.defenc = defenc, !.default = default]
      BY DEF AddCryptPass
    <2>2. p = [mtime |-> p.mtime, history |-> p.history, expire |-> p.expire,
                  defenc |-> p.defenc, passes |-> p.passes, default |-> p.default,
                  type |-> p.type]
      BY DEF TypeInv, PacksOK, IsPack
    <2> HIDE DEF new, passes, defenc, default
    <2>3. new = [mtime |-> p.mtime, history |-> p.history, expire |-> p.expire,
                  defenc |-> defenc, passes |-> passes, default |-> default,
                  type |-> p.type]
      <3> HIDE DEF p
      <3> QED
        BY <2>1, <2>2
    <2> QED
      BY <2>3 DEF IsPack
  <1>4. IsFunction(packs') /\ DOMAIN packs' = Threads
    BY <1>2 DEF TypeInv, PacksOK, IsFunction
  <1>5. \A u \in Threads : packs'[u] = IF u = t THEN new ELSE packs[u]
    BY <1>2 DEF TypeInv, PacksOK
  <1> HIDE DEF new
  <1>6. PacksOK'
    BY <1>1, <1>3, <1>4, <1>5 DEF TypeInv, PacksOK
  <1>7. TasksOK'
    BY <1>1, <1>3, <1>5 DEF TypeInv, TasksOK
  <1>8. use.maxCalls \in Nat
    BY UsesAssumption DEF TypeInv, Bounds
  <1> QED
    BY <1>1, <1>6, <1>7, <1>8 DEF TypeInv, Bounds

LEMMA GetTrialType ==
    ASSUME TypeInv, NEW t \in Threads, GetTrial(t)
    PROVE  TypeInv'
  <1> DEFINE k == task[t]
             n == task'[t]
  <1>1. /\ k.pc = "get"
        /\ UNCHANGED <<use, packs, elems, copy, nextUid, now, calls, overlaid>>
        /\ At(t, k.at) /\ Others(t)
        /\ n = Idle \/ n = WithPc(k, k.at, "subs")
    BY GetTrialEffect, Zenon DEF GetTrialDoes
  <1>2. TaskOK(k, packs[t].history) /\ k.at \in Names
    BY <1>1, TaskFacts
  <1> HIDE DEF k, n
  <1>3. TaskOK(n, packs[t].history)
    BY <1>1, <1>2, IdleType DEF TaskOK, IsTask, Steps, WithPc
  <1> QED
    BY <1>1, <1>2, <1>3, ReadType DEF k, n

LEMMA ReadSubsType ==
    ASSUME TypeInv, NEW t \in Threads, ReadSubs(t)
    PROVE  TypeInv'
  <1> DEFINE k    == task[t]
             n    == task'[t]
             subs == GetSubKeys(k.at)
             more == Insert(subs, k.call.arg)
  <1>1. /\ k.pc = "subs"
        /\ UNCHANGED <<use, packs, elems, copy, nextUid, now, calls, overlaid>>
        /\ At(t, k.at) /\ Others(t)
        /\ \/ k.call.op = "addsubkey" /\ n = WithPcSubs(k, k.at, "replace", more)
           \/ n = WithPcSubs(k, k.at, "attrs", subs)
    BY ReadSubsEffect, Zenon DEF ReadSubsDoes
  <1>2. TaskOK(k, packs[t].history) /\ k.at \in Names /\ Live(k.at) \in Keys
    BY <1>1, TaskFacts
  <1> HIDE DEF k, n
  <1>3. subs \in Seq(Names) /\ Ascending(subs)
    <2>1. <<>> \in Seq(Names) /\ Ascending(<<>>)
      BY DEF Ascending
    <2>2. ~Missing(elems, Live(k.at)) => IsElem(Found(elems, Live(k.at)))
      BY <1>2, FoundFacts DEF TypeInv
    <2> QED
      BY <2>1, <2>2, Zenon DEF GetSubKeys, IsElem
  <1> HIDE DEF subs
  <1>4. k.call.op = "addsubkey" => more \in Seq(Names) /\ Ascending(more)
    BY <1>1, <1>2, <1>3, NamesFacts, InsertKeepsOrder DEF TaskOK, WithArg
  <1> HIDE DEF more
  <1>5. TaskOK(n, packs[t].history)
    BY <1>1, <1>2, <1>3, <1>4 DEF TaskOK, IsTask, Steps, WithPcSubs
  <1> QED
    BY <1>1, <1>2, <1>5, ReadType DEF k, n

LEMMA ReadAttrsType ==
    ASSUME TypeInv, NEW t \in Threads, ReadAttrs(t)
    PROVE  TypeInv'
  <1> DEFINE k     == task[t]
             n     == task'[t]
             attrs == GetAttrs(k.at)
             more  == SetAttr(attrs, "user", k.call.text)
  <1>1. /\ k.pc = "attrs"
        /\ UNCHANGED <<use, packs, elems, copy, nextUid, now, calls, overlaid>>
        /\ At(t, k.at) /\ Others(t)
        /\ \/ n = WithPcHeldAttrs(k, k.at, "replace", attrs, more)
           \/ n = WithPcAttrs(k, k.at, "take", attrs)
    BY ReadAttrsEffect, Zenon DEF ReadAttrsDoes
  <1>2. TaskOK(k, packs[t].history) /\ k.at \in Names
    BY <1>1, TaskFacts
  <1> HIDE DEF k, n, attrs, more
  <1>3. TaskOK(n, packs[t].history)
    BY <1>1, <1>2 DEF TaskOK, IsTask, Steps, WithPcHeldAttrs, WithPcAttrs
  <1> QED
    BY <1>1, <1>2, <1>3, ReadType DEF k, n

LEMMA SubKeysFacts ==
    ASSUME TypeInv, NEW n \in Names, NEW wanted, ~Missing(elems, Live(n))
    PROVE  SubKeysOf(n, wanted) \in Seq(Names)
  <1>1. IsElem(Found(elems, Live(n)))
    BY NamesFacts, FoundFacts DEF TypeInv
  <1>2. <<>> \in Seq(Names)
    OBVIOUS
  <1> QED
    BY <1>1, <1>2, Zenon DEF SubKeysOf, IsElem

LEMMA TakeOldType ==
    ASSUME TypeInv, NEW t \in Threads, TakeOld(t)
    PROVE  TypeInv'
  <1> DEFINE k     == task[t]
             n     == task'[t]
             next  == IF k.call.op = "remove" THEN "below" ELSE "insert"
             subs  == SubKeysOf(k.at, k.rm)
             stack == Stacked(k, k.at)
  <1>1. /\ k.pc = "take" /\ At(t, k.at) /\ Others(t)
        /\ UNCHANGED <<use, packs, copy, nextUid, now, calls, overlaid>>
        /\ \/ UNCHANGED elems /\ n = WithPc(k, k.at, next)
           \/ /\ ~Missing(elems, Live(k.at)) /\ elems' = Take(elems, Live(k.at))
              /\ n = WithPcDoomedStack(k, k.at, next, subs, stack)
           \/ /\ ~Missing(elems, Live(k.at)) /\ packs[t].history /\ UNCHANGED elems
              /\ n = WithPcOldUnderThen(k, k.at, "shelve", k.at, subs, next)
    BY TakeOldEffect, Zenon DEF TakeOldDoes
  <1>2. /\ TaskOK(k, packs[t].history) /\ k.at \in Names /\ Live(k.at) \in Keys
        /\ StoreOK(elems) /\ nextUid \in 1 .. MaxUid + 1
    BY <1>1, TaskFacts DEF TypeInv, Bounds
  <1>3. ~Missing(elems, Live(k.at)) => subs \in Seq(Names)
    BY <1>2, SubKeysFacts
  <1>4. IsCommands(stack)
    BY <1>2, CommandsAppend DEF Stacked, TaskOK, DelKey, CommandTypes
  <1>5. next \in {"below", "insert"}
    OBVIOUS
  <1> HIDE DEF k, n, subs, stack, next
  <1>6. TaskOK(n, packs[t].history)
    BY <1>1, <1>2, <1>3, <1>4, <1>5
    DEF TaskOK, IsTask, Steps, WithPc, WithPcDoomedStack, WithPcOldUnderThen
  <1>7. StoreOK(elems')
    BY <1>1, <1>2, TakeFacts
  <1> QED
    BY <1>1, <1>2, <1>6, <1>7, WriteType DEF k, n

-----------------------------------------------------------------------------
\* Unique ids.
LEMMA IdentifiedUid ==
    ASSUME NEW attrs, NEW uid, NEW parent
    PROVE  GetUniqId(Identified(attrs, uid, parent)) = uid
  <1> DEFINE named == SetAttr(attrs, "uniqid", uid)
             both == SetAttr(named, "parentuniqid", parent)
  <1>1. DOMAIN named = DOMAIN attrs \cup {"uniqid"} /\ named["uniqid"] = uid
    BY DEF SetAttr
  <1> HIDE DEF named
  <1>2. DOMAIN both = DOMAIN named \cup {"parentuniqid"} /\ both["uniqid"] = uid
    BY <1>1 DEF SetAttr
  <1> HIDE DEF both
  <1>3. Identified(attrs, uid, parent) = IF parent = 0 THEN named ELSE both
    BY DEF Identified, named, both
  <1> QED
    BY <1>1, <1>2, <1>3 DEF GetUniqId, HasAttr, GetAttr

LEMMA ShelveType ==
    ASSUME TypeInv, NEW t \in Threads, Shelve(t)
    PROVE  TypeInv'
  <1> DEFINE k     == task[t]
             n     == task'[t]
             e     == Found(elems, Live(k.old))
             known == GetUniqId(e.attrs)
             named == IF known = 0 THEN DirectSetUniqId(packs[t], e.attrs, 0, nextUid)
                      ELSE e.attrs
             puid  == GetUniqId(named)
             held  == WithAttrs(e, MarkHistory(named))
             none  == <<>>
  <1>1. /\ k.pc = "shelve" /\ At(t, k.old) /\ Others(t)
        /\ UNCHANGED <<use, packs, copy, now, calls, overlaid>>
        /\ \/ UNCHANGED <<elems, nextUid>> /\ n = Idle
           \/ UNCHANGED <<elems, nextUid>> /\ n = WithPcUnder(k, k.old, "below", none)
           \/ /\ ~Missing(elems, Live(k.old))
              /\ known = 0 => nextUid <= MaxUid
              /\ elems' = Take(elems, Live(k.old))
              /\ nextUid' = IF known = 0 THEN nextUid + 1 ELSE nextUid
              /\ n = WithPcPuidHeld(k, k.old, "shelved", puid, held)
    BY ShelveEffect, Zenon DEF ShelveDoes
  <1>2. /\ TaskOK(k, packs[t].history) /\ k.old \in Names /\ Live(k.old) \in Keys
        /\ packs[t].history
        /\ StoreOK(elems) /\ nextUid \in 1 .. MaxUid + 1 /\ MaxUid \in Nat
    BY <1>1, TaskFacts, NamesFacts DEF TypeInv, Bounds, TaskOK
  <1>3. puid # 0
    <2>1. CASE known = 0
      <3>1. puid = nextUid
        BY <1>2, <2>1, IdentifiedUid, Zenon DEF DirectSetUniqId
      <3> QED
        BY <1>2, <3>1
    <2>2. CASE known # 0
      BY <2>2
    <2> QED
      BY <2>1, <2>2
  <1>4. ~Missing(elems, Live(k.old)) => IsElem(held)
    BY <1>2, FoundFacts, PartsElem
  <1>5. none \in Seq(Names)
    OBVIOUS
  <1> HIDE DEF k, n, e, known, puid, held, none
  <1>6. TaskOK(n, packs[t].history)
    BY <1>1, <1>2, <1>3, <1>4, <1>5, IdleType
    DEF TaskOK, IsTask, Steps, WithPcUnder, WithPcPuidHeld
  <1>7. StoreOK(elems') /\ nextUid' \in 1 .. MaxUid + 1
    BY <1>1, <1>2, TakeFacts
  <1> QED
    BY <1>1, <1>2, <1>6, <1>7, WriteType DEF k, n

LEMMA ShelvedType ==
    ASSUME TypeInv, NEW t \in Threads, Shelved(t)
    PROVE  TypeInv'
  <1> DEFINE k       == task[t]
             n       == task'[t]
             version == MakeHistoryKey(k.old, k.puid)
             none    == <<>>
             doomed  == k.under \o k.doomed
             past    == Append(k.held.past, k.held.value.text)
             stack   == Append(k.stack, Rename(Live(k.old), version, k.held.attrs))
  <1>1. /\ k.pc = "shelved" /\ At(t, k.old) /\ Others(t)
        /\ UNCHANGED <<use, packs, copy, nextUid, now, calls, overlaid>>
        /\ elems' = Put(elems, version, k.held)
        /\ n = WithShelved(k, k.old, k.then, none, none, doomed, past, stack)
    BY ShelvedEffect, Zenon DEF ShelvedDoes
  <1>2. /\ TaskOK(k, packs[t].history) /\ k.old \in Names /\ IsElem(k.held)
        /\ k.then \in {"insert", "below"}
        /\ StoreOK(elems) /\ nextUid \in 1 .. MaxUid + 1
    BY <1>1, TaskFacts DEF TypeInv, Bounds, TaskOK
  <1>3. doomed \in Seq(Names) /\ IsList(past) /\ IsCommands(stack) /\ none \in Seq(Names)
    <2>1. /\ k.under \in Seq(Names) /\ k.doomed \in Seq(Names)
          /\ IsList(k.held.past) /\ IsCommands(k.stack)
      BY <1>2 DEF TaskOK, IsElem
    <2>2. doomed \in Seq(Names)
      BY <2>1, ConcatProperties
    <2>3. IsCommands(stack)
      BY <2>1, CommandsAppend DEF Rename, CommandTypes
    <2> QED
      BY <2>1, <2>2, <2>3, ListAppend
  <1> HIDE DEF k, n, version, doomed, past, stack, none
  <1>4. TaskOK(n, packs[t].history)
    BY <1>1, <1>2, <1>3 DEF TaskOK, IsTask, Steps, WithShelved
  <1>5. StoreOK(elems') /\ nextUid' = nextUid
    BY <1>1, <1>2, PutFacts
  <1> QED
    BY <1>1, <1>2, <1>4, <1>5, WriteType DEF k, n

\* A Set takes up to two unique ids.
LEMMA NewElementFacts ==
    ASSUME TypeInv, NEW t \in Threads
    PROVE  /\ NewElement(t).uid \in nextUid .. nextUid + 2
           /\ NewElement(t).e.subs = task[t].subs
  <1>1. nextUid \in Nat
    BY NamesFacts DEF TypeInv, Bounds
  <1> DEFINE k == task[t]
             upd == UpdateAttr(packs[t], k.attrs, k.text, k.call.pass, k.call.expire, now, nextUid)
             again == IF upd.old = 0 THEN k.puid # 0 ELSE k.puid # upd.old
             attrs == IF again THEN DirectSetUniqId(packs[t], upd.attrs, k.puid, upd.uid)
                      ELSE upd.attrs
             uid == IF again THEN upd.uid + 1 ELSE upd.uid
  <1>2. upd.uid \in nextUid .. nextUid + 1
    BY <1>1 DEF UpdateAttr
  <1>3. NewElement(t) = [e |-> ElementOf(upd.value, k.subs, attrs), uid |-> uid]
    BY Zenon DEF NewElement
  <1> HIDE DEF upd, attrs, again
  <1>4. uid \in nextUid .. nextUid + 2
    BY <1>1, <1>2
  <1> HIDE DEF uid
  <1> QED
    BY <1>3, <1>4 DEF ElementOf

LEMMA InsertNewType ==
    ASSUME TypeInv, NEW t \in Threads, InsertNew(t)
    PROVE  TypeInv'
  <1> DEFINE k      == task[t]
             n      == task'[t]
             new    == NewElement(t)
             none   == <<>>
             doomed == Without(k.doomed, k.subs)
             stack  == Append(k.stack, SetAll(Live(k.at), new.e))
  <1>1. /\ k.pc = "insert" /\ At(t, k.at) /\ Others(t)
        /\ UNCHANGED <<use, packs, copy, now, calls, overlaid>>
        /\ \/ UNCHANGED <<elems, nextUid>> /\ n = WithAgain(k, k.at, "take", 0, none, none)
           \/ /\ new.uid <= MaxUid + 1
              /\ elems' = Put(elems, Live(k.at), WithPast(new.e, k.past))
              /\ nextUid' = new.uid
              /\ n = WithPcDoomedStack(k, k.at, "below", doomed, stack)
    BY InsertNewEffect, Zenon DEF InsertNewDoes
  <1>2. /\ TaskOK(k, packs[t].history) /\ k.at \in Names /\ Live(k.at) \in Keys
        /\ StoreOK(elems) /\ nextUid \in 1 .. MaxUid + 1 /\ MaxUid \in Nat
    BY <1>1, TaskFacts, NamesFacts DEF TypeInv, Bounds
  <1>3. new.uid \in nextUid .. nextUid + 2 /\ new.e.subs = k.subs
    BY NewElementFacts
  <1> HIDE DEF k, n, new
  <1>4. doomed \in Seq(Names) /\ IsCommands(stack)
    <2>1. k.doomed \in Seq(Names) /\ k.subs \in Seq(Names) /\ Names \in SUBSET Nat
      BY <1>2, NamesFacts DEF TaskOK
    <2>2. IsCommands(stack)
      BY <1>2, CommandsAppend DEF TaskOK, SetAll, CommandTypes
    <2> QED
      BY <2>1, <2>2, WithoutFacts
  <1>5. none \in Seq(Names) /\ IsList(none)
    BY ListEmpty
  <1>6. IsElem(WithPast(new.e, k.past))
    BY <1>2, <1>3 DEF IsElem, WithPast, TaskOK
  <1> HIDE DEF doomed, stack, none
  <1>7. TaskOK(n, packs[t].history)
    BY <1>1, <1>2, <1>4, <1>5 DEF TaskOK, IsTask, Steps, WithAgain, WithPcDoomedStack
  <1>8. StoreOK(elems') /\ nextUid' \in 1 .. MaxUid + 1
    BY <1>1, <1>2, <1>3, <1>6, PutFacts
  <1> QED
    BY <1>1, <1>2, <1>7, <1>8, WriteType DEF k, n

LEMMA BelowType ==
    ASSUME TypeInv, NEW t \in Threads, Below(t)
    PROVE  TypeInv'
  <1> DEFINE k     == task[t]
             s     == task'[t]
             n     == Head(k.doomed)
             rest  == Tail(k.doomed)
             under == SubKeysOf(n, TRUE)
             more  == under \o rest
             stack == Stacked(k, n)
  <1>1. /\ k.pc = "below" /\ k.doomed # <<>> /\ At(t, n) /\ Others(t)
        /\ UNCHANGED <<use, packs, copy, nextUid, now, calls, overlaid>>
        /\ \/ UNCHANGED elems /\ s = WithDoomed(k, n, rest)
           \/ /\ ~Missing(elems, Live(n)) /\ elems' = Take(elems, Live(n))
              /\ s = WithDoomedStack(k, n, more, stack)
           \/ /\ ~Missing(elems, Live(n)) /\ packs[t].history /\ UNCHANGED elems
              /\ s = WithDoomedOldThenUnder(k, n, rest, "shelve", n, "below", under)
    BY BelowEffect, Zenon DEF BelowDoes
  <1>2. /\ TaskOK(k, packs[t].history)
        /\ StoreOK(elems) /\ nextUid \in 1 .. MaxUid + 1
    BY TaskFacts DEF TypeInv, Bounds
  <1> HIDE DEF k, s
  <1>3. n \in Names /\ rest \in Seq(Names) /\ Live(n) \in Keys
    <2>1. k.doomed \in Seq(Names)
      BY <1>2 DEF TaskOK
    <2> QED
      BY <1>1, <2>1, HeadTailFacts, NamesFacts
  <1>4. ~Missing(elems, Live(n)) => under \in Seq(Names) /\ more \in Seq(Names)
    <2>1. ~Missing(elems, Live(n)) => under \in Seq(Names)
      BY <1>3, SubKeysFacts
    <2> HIDE DEF under, rest
    <2> QED
      BY <1>3, <2>1, ConcatProperties
  <1>5. IsCommands(stack)
    BY <1>2, CommandsAppend DEF Stacked, TaskOK, DelKey, CommandTypes
  <1> HIDE DEF n, rest, under, more, stack
  <1>6. TaskOK(s, packs[t].history)
    BY <1>1, <1>2, <1>3, <1>4, <1>5
    DEF TaskOK, IsTask, Steps, WithDoomed, WithDoomedStack, WithDoomedOldThenUnder
  <1>7. StoreOK(elems')
    BY <1>1, <1>2, <1>3, TakeFacts
  <1> QED
    BY <1>1, <1>2, <1>3, <1>6, <1>7, WriteType DEF k, s

LEMMA LoadAllSteps ==
    ASSUME NEW store, NEW list, IsList(list)
    PROVE  \E f : Replays(f, store, list)
  <1> DEFINE L == Len(list)
             Right(h, l) == h = [n \in 0 .. l |-> IF n = 0 THEN store ELSE Load(h[n - 1], list[n])]
             f == CHOOSE h : Right(h, L)
             D == {l \in Nat : \E h : Right(h, l)}
  <1>1. L \in Nat
    BY ListMembers
  <1>2. D = Nat
    <2>1. 0 \in D
      <3> DEFINE h == [n \in 0 .. 0 |-> store]
      <3>1. Right(h, 0)
        <4>1. \A n \in 0 .. 0 : n = 0
          OBVIOUS
        <4> QED
          BY <4>1
      <3> QED
        BY <3>1
    <2>2. ASSUME NEW l \in D PROVE l + 1 \in D
      <3>1. PICK h : Right(h, l)
        OBVIOUS
      <3> DEFINE g == [n \in 0 .. l + 1 |-> IF n = 0 THEN store ELSE Load(h[n - 1], list[n])]
      <3>2. \A n \in 0 .. l : g[n] = h[n]
        <4>1. \A n \in 0 .. l : n \in 0 .. l + 1
          OBVIOUS
        <4>2. \A n \in 0 .. l : h[n] = IF n = 0 THEN store ELSE Load(h[n - 1], list[n])
          BY <3>1, Zenon
        <4> QED
          BY <4>1, <4>2
      <3>3. \A n \in 0 .. l + 1 : n # 0 => n - 1 \in 0 .. l
        OBVIOUS
      <3>4. \A n \in 0 .. l + 1 : (IF n = 0 THEN store ELSE Load(h[n - 1], list[n]))
                                   = IF n = 0 THEN store ELSE Load(g[n - 1], list[n])
        <4> HIDE DEF g
        <4> QED
          BY <3>2, <3>3
      <3>5. Right(g, l + 1)
        BY <3>4, Zenon
      <3> HIDE DEF g, Right
      <3> QED
        BY <3>5
    <2>3. D \in SUBSET Nat
      OBVIOUS
    <2> HIDE DEF D
    <2> QED
      BY <2>1, <2>2, <2>3, SetInduction
  <1>3. Right(f, L)
    <2>1. \E h : Right(h, L)
      BY <1>1, <1>2
    <2> HIDE DEF Right
    <2> QED
      BY <2>1
  <1>4. LoadAll(store, list) = f[L]
    BY DEF LoadAll, Folded, f, Right
  <1> HIDE DEF f
  <1>5. \A n \in 0 .. L : f[n] = IF n = 0 THEN store ELSE Load(f[n - 1], list[n])
    BY <1>3, Zenon
  <1> HIDE DEF Right, L
  <1>6. f[0] = store
    BY <1>1, <1>5
  <1>7. ASSUME NEW n \in 1 .. L PROVE f[n] = Load(f[n - 1], list[n])
    <2>1. n \in 0 .. L /\ n # 0
      BY <1>1
    <2> QED
      BY <1>5, <2>1, Zenon
  <1> QED
    BY <1>4, <1>6, <1>7 DEF L, Replays

LEMMA LoadAllEmpty == \A store : LoadAll(store, <<>>) = store
  BY LoadAllSteps, ListEmpty DEF Replays

LEMMA LoadAllAppend ==
    ASSUME NEW store, NEW list, NEW c, IsList(list)
    PROVE  LoadAll(store, Append(list, c)) = Load(LoadAll(store, list), c)
  <1> DEFINE more == Append(list, c)
             L    == Len(list)
  <1>1. /\ L \in Nat /\ IsList(more) /\ Len(more) = L + 1 /\ more[L + 1] = c
        /\ \A i \in 1 .. L : more[i] = list[i]
    BY ListMembers, ListAppend
  <1>21. PICK f : Replays(f, store, list)
    BY LoadAllSteps
  <1>2. /\ f[0] = store
        /\ \A n \in 1 .. L : f[n] = Load(f[n - 1], list[n])
        /\ LoadAll(store, list) = f[L]
    BY <1>21 DEF Replays
  <1> HIDE DEF more
  <1>31. PICK g : Replays(g, store, more)
    BY <1>1, LoadAllSteps
  <1>3. /\ g[0] = store
        /\ \A n \in 1 .. L + 1 : g[n] = Load(g[n - 1], more[n])
        /\ LoadAll(store, more) = g[L + 1]
    BY <1>1, <1>31 DEF Replays
  <1> DEFINE S == {n \in Nat : n <= L => f[n] = g[n]}
  <1>4. 0 \in S
    BY <1>2, <1>3
  <1>5. ASSUME NEW n \in S PROVE n + 1 \in S
    <2> SUFFICES ASSUME n + 1 <= L PROVE f[n + 1] = g[n + 1]
      OBVIOUS
    <2>1. n \in Nat /\ n + 1 \in 1 .. L /\ n + 1 \in 1 .. L + 1 /\ f[n] = g[n] /\ (n + 1) - 1 = n
      BY <1>1
    <2>2. f[n + 1] = Load(f[n], list[n + 1]) /\ g[n + 1] = Load(g[n], more[n + 1])
      BY <1>2, <1>3, <2>1
    <2> QED
      BY <1>1, <2>1, <2>2
  <1>6. S = Nat
    <2>1. S \in SUBSET Nat
      OBVIOUS
    <2> HIDE DEF S
    <2> QED
      BY <1>4, <1>5, <2>1, SetInduction
  <1>7. f[L] = g[L]
    BY <1>1, <1>6
  <1>8. L + 1 \in 1 .. L + 1 /\ (L + 1) - 1 = L
    BY <1>1
  <1>9. g[L + 1] = Load(g[L], more[L + 1])
    BY <1>3, <1>8
  <1>10. LoadAll(store, more) = Load(LoadAll(store, list), c)
    BY <1>1, <1>2, <1>3, <1>7, <1>9, Zenon
  <1> QED
    BY <1>10 DEF more

\* A command is about keys of the store, or changes nothing.
LEMMA ReplaceDomain ==
    \A store, key, part, data : DOMAIN Replace(store, key, part, data) = DOMAIN store
  <1> SUFFICES ASSUME NEW store, NEW key, NEW part, NEW data
               PROVE  DOMAIN Replace(store, key, part, data) = DOMAIN store
    OBVIOUS
  <1>1. \A e : DOMAIN Put(store, key, e) = DOMAIN store
    BY DEF Put
  <1>2. DOMAIN [store EXCEPT ![key][1] = WithPart(@, part, data)] = DOMAIN store
    OBVIOUS
  <1> QED
    BY <1>1, <1>2, Zenon DEF Replace

LEMMA LoadDomain ==
    ASSUME NEW store, NEW c, c.type \in CommandTypes
    PROVE  DOMAIN Load(store, c) = DOMAIN store
  <1>1. CASE c.type = "SET_ALL"
    <2>1. Load(store, c) = ReplaceParts(store, c.key, c.data)
      BY <1>1 DEF Load
    <2> DEFINE valued == Replace(store, c.key, "value", c.data.value)
               listed == IF c.data.subs = <<>> THEN valued ELSE Replace(valued, c.key, "subs", c.data.subs)
    <2>2. DOMAIN valued = DOMAIN store
      BY ReplaceDomain, Zenon
    <2> HIDE DEF valued
    <2>3. DOMAIN listed = DOMAIN store
      <3>1. DOMAIN Replace(valued, c.key, "subs", c.data.subs) = DOMAIN store
        BY <2>2, ReplaceDomain
      <3> QED
        BY <2>2, <3>1
    <2>4. ReplaceParts(store, c.key, c.data)
          = IF c.data.attrs = NoAttrs THEN listed ELSE Replace(listed, c.key, "attrs", c.data.attrs)
      BY Zenon DEF ReplaceParts, valued
    <2> HIDE DEF listed
    <2>5. DOMAIN Replace(listed, c.key, "attrs", c.data.attrs) = DOMAIN store
      BY <2>3, ReplaceDomain
    <2> QED
      BY <2>1, <2>3, <2>4, <2>5
  <1>2. CASE c.type = "REPLACE_SKEY"
    BY <1>2, ReplaceDomain DEF Load
  <1>3. CASE c.type = "REPLACE_ATTRS"
    BY <1>3, ReplaceDomain DEF Load
  <1>4. CASE c.type = "DEL_KEY"
    <2>1. Load(store, c) = IF Missing(store, c.key) THEN store ELSE Take(store, c.key)
      BY <1>4 DEF Load
    <2> QED
      BY <2>1 DEF Take
  <1>5. CASE c.type = "RENAME"
    <2>1. Load(store, c) = RenameIn(store, c.key, c.data)
      BY <1>5 DEF Load
    <2>2. \A e : DOMAIN Put(Take(store, c.key), c.data.new, e) = DOMAIN store
      BY DEF Put, Take
    <2> QED
      BY <2>1, <2>2, Zenon DEF RenameIn
  <1> QED
    BY <1>1, <1>2, <1>3, <1>4, <1>5 DEF CommandTypes

LEMMA LoadAllDomain ==
    ASSUME NEW store, NEW list, IsCommands(list)
    PROVE  DOMAIN LoadAll(store, list) = DOMAIN store
  <1>1. IsList(list) /\ Len(list) \in Nat /\ \A n \in 1 .. Len(list) : list[n].type \in CommandTypes
    BY ListMembers DEF IsCommands
  <1>21. PICK f : Replays(f, store, list)
    BY <1>1, LoadAllSteps
  <1>2. /\ f[0] = store
        /\ \A n \in 1 .. Len(list) : f[n] = Load(f[n - 1], list[n])
        /\ LoadAll(store, list) = f[Len(list)]
    BY <1>21 DEF Replays
  <1> DEFINE S == {n \in Nat : n <= Len(list) => DOMAIN f[n] = DOMAIN store}
  <1>3. 0 \in S
    BY <1>2
  <1>4. ASSUME NEW n \in S PROVE n + 1 \in S
    <2> SUFFICES ASSUME n + 1 <= Len(list) PROVE DOMAIN f[n + 1] = DOMAIN store
      OBVIOUS
    <2>1. /\ n \in Nat /\ n + 1 \in 1 .. Len(list) /\ (n + 1) - 1 = n
          /\ DOMAIN f[n] = DOMAIN store
      BY <1>1
    <2>2. f[n + 1] = Load(f[n], list[n + 1])
      BY <1>2, <2>1
    <2> QED
      BY <1>1, <2>1, <2>2, LoadDomain
  <1>5. S = Nat
    <2>1. S \in SUBSET Nat
      OBVIOUS
    <2> HIDE DEF S
    <2> QED
      BY <1>3, <1>4, <2>1, SetInduction
  <1> QED
    BY <1>1, <1>2, <1>5

-----------------------------------------------------------------------------
LEMMA PutStackType ==
    ASSUME TypeInv, NEW t \in Threads, PutStack(t)
    PROVE  TypeInv'
  <1> DEFINE k    == task[t]
             n    == task'[t]
             none == <<>>
  <1>1. /\ k.pc = "below" /\ copy' = LoadAll(copy, k.stack) /\ At(t, k.at) /\ Others(t)
        /\ UNCHANGED <<use, packs, elems, nextUid, now, calls, overlaid>>
        /\ \/ k.call.op = "addsubkey" /\ n = WithPcAtStack(k, k.at, "subs", k.call.key, none)
           \/ n = Idle
    BY PutStackEffect, Zenon DEF PutStackDoes
  <1>2. TaskOK(k, packs[t].history) /\ k.at \in Names
    BY <1>1, TaskFacts
  <1>3. DOMAIN copy' = Keys
    BY <1>1, <1>2, LoadAllDomain DEF TypeInv, TaskOK
  <1>4. IsCommands(none)
    BY CommandsEmpty
  <1> HIDE DEF k, n, none
  <1>5. TaskOK(n, packs[t].history)
    BY <1>1, <1>2, <1>4, IdleType DEF TaskOK, IsTask, Steps, WithPcAtStack
  <1> QED
    BY <1>1, <1>2, <1>3, <1>5, StepType DEF k, n, TypeInv, Bounds

LEMMA ReplacedType ==
    ASSUME TypeInv, NEW t \in Threads, Replaced(t)
    PROVE  TypeInv'
  <1> DEFINE k    == task[t]
             s    == task'[t]
             n    == k.call.key
             e    == Found(elems, Live(n))
             none == <<>>
             no   == FALSE
  <1>1. /\ k.pc = "replace" /\ UNCHANGED <<use, packs, nextUid, now, calls>>
        /\ At(t, n) /\ Others(t)
        /\ \/ /\ UNCHANGED <<elems, copy, overlaid>>
              /\ s = WithAfresh(k, n, "take", n, NoText, no, 0, none, none)
           \/ /\ ~Missing(elems, Live(n)) /\ s = Idle
              /\ elems' = Reattributed(elems, Live(n), k.attrs)
              /\ copy' = Load(copy, ReplaceAttrs(Live(n), k.attrs))
              /\ overlaid' = IF e.attrs = k.held THEN overlaid ELSE overlaid \cup {n}
           \/ /\ ~Missing(elems, Live(n)) /\ s = Idle
              /\ elems' = Relisted(elems, Live(n), k.subs)
              /\ copy' = Load(copy, ReplaceSKey(Live(n), k.subs))
              /\ UNCHANGED overlaid
    BY ReplacedEffect, Zenon DEF ReplacedDoes
  <1>2. /\ TaskOK(k, packs[t].history) /\ n \in Names /\ Live(n) \in Keys
        /\ StoreOK(elems) /\ DOMAIN copy = Keys /\ overlaid \subseteq Names
        /\ k.subs \in Seq(Names) /\ Ascending(k.subs)
    BY <1>1, TaskFacts, NamesFacts DEF TypeInv, Bounds, TaskOK
  <1>3. /\ DOMAIN Load(copy, ReplaceAttrs(Live(n), k.attrs)) = Keys
        /\ DOMAIN Load(copy, ReplaceSKey(Live(n), k.subs)) = Keys
    BY <1>2, LoadDomain DEF ReplaceAttrs, ReplaceSKey, CommandTypes
  <1>4. IsList(none)
    BY ListEmpty
  <1>5. ~Missing(elems, Live(n)) =>
          /\ StoreOK(Reattributed(elems, Live(n), k.attrs))
          /\ StoreOK(Relisted(elems, Live(n), k.subs))
    <2> SUFFICES ASSUME ~Missing(elems, Live(n))
                 PROVE  /\ StoreOK(Reattributed(elems, Live(n), k.attrs))
                        /\ StoreOK(Relisted(elems, Live(n), k.subs))
      OBVIOUS
    <2> DEFINE x == WithAttrs(e, k.attrs)
               y == WithSubs(e, k.subs)
    <2>1. IsElem(x) /\ IsElem(y)
      <3>1. IsElem(e)
        BY <1>2, FoundFacts
      <3> HIDE DEF e, k
      <3> QED
        BY <1>2, <3>1, PartsElem
    <2>2. /\ Reattributed(elems, Live(n), k.attrs) = Changed(elems, Live(n), x)
          /\ Relisted(elems, Live(n), k.subs) = Changed(elems, Live(n), y)
      BY <1>2, ChangedParts
    <2>3. StoreOK(Changed(elems, Live(n), x)) /\ StoreOK(Changed(elems, Live(n), y))
      <3> HIDE DEF x, y
      <3> QED
        BY <1>2, <2>1, ChangedFacts
    <2> QED
      BY <2>2, <2>3
  <1> HIDE DEF k, s, n, e, none, no
  <1>6. TaskOK(s, packs[t].history)
    BY <1>1, <1>2, <1>4, IdleType DEF TaskOK, IsTask, Steps, WithAfresh
  <1>7. StoreOK(elems') /\ DOMAIN copy' = Keys /\ overlaid' \subseteq Names
    BY <1>1, <1>2, <1>3, <1>5
  <1> QED
    BY <1>1, <1>2, <1>6, <1>7, StepType DEF s, TypeInv, Bounds

LEMMA UnlistType ==
    ASSUME TypeInv, NEW t \in Threads, Unlist(t)
    PROVE  TypeInv'
  <1> DEFINE k    == task[t]
             n    == task'[t]
             e    == Found(elems, Live(k.at))
             sub  == k.call.arg
             subs == Erase(e.subs, sub)
             one  == <<sub>>
             x    == WithSubs(e, subs)
  <1>1. /\ k.pc = "unlist" /\ UNCHANGED <<use, packs, nextUid, now, calls, overlaid>>
        /\ At(t, k.at) /\ Others(t)
        /\ \/ n = Idle /\ UNCHANGED <<elems, copy>>
           \/ /\ ~Missing(elems, Live(k.at))
              /\ elems' = Relisted(elems, Live(k.at), subs)
              /\ copy' = Load(copy, ReplaceSKey(Live(k.at), subs))
              /\ n = WithPcDoomed(k, k.at, "below", one)
    BY UnlistEffect, Zenon DEF UnlistDoes
  <1>2. /\ TaskOK(k, packs[t].history) /\ k.at \in Names /\ Live(k.at) \in Keys
        /\ StoreOK(elems) /\ DOMAIN copy = Keys
    BY <1>1, TaskFacts DEF TypeInv, Bounds
  <1>3. sub \in Names /\ one \in Seq(Names)
    <2>1. sub \in Names
      BY <1>1, <1>2 DEF TaskOK, WithArg
    <2> QED
      BY <2>1
  <1>4. DOMAIN copy' = Keys
    BY <1>1, <1>2, LoadDomain DEF ReplaceSKey, CommandTypes
  <1>5. StoreOK(elems')
    <2> SUFFICES ASSUME ~Missing(elems, Live(k.at)),
                        elems' = Relisted(elems, Live(k.at), subs)
                 PROVE  StoreOK(elems')
      BY <1>1, <1>2
    <2>1. IsElem(e)
      BY <1>2, FoundFacts
    <2>2. e.subs \in Seq(Names) /\ Ascending(e.subs)
      BY <2>1 DEF IsElem
    <2>3. subs \in Seq(Names) /\ Ascending(subs)
      <3>1. Names \in SUBSET Nat
        BY NamesFacts
      <3> HIDE DEF e, sub
      <3> QED
        BY <1>3, <2>2, <3>1, EraseKeepsOrder
    <2> HIDE DEF k, subs
    <2>4. elems' = Changed(elems, Live(k.at), x)
      BY <1>2, ChangedParts
    <2> HIDE DEF e
    <2>5. IsElem(x)
      BY <2>1, <2>3, PartsElem
    <2> HIDE DEF x
    <2> QED
      BY <1>2, <2>4, <2>5, ChangedFacts
  <1> HIDE DEF k, n, e, sub, subs, one, x
  <1>6. TaskOK(n, packs[t].history)
    BY <1>1, <1>2, <1>3, IdleType DEF TaskOK, IsTask, Steps, WithPcDoomed
  <1> QED
    BY <1>1, <1>2, <1>4, <1>5, <1>6, StepType DEF k, n, TypeInv, Bounds

LEMMA MoveType ==
    ASSUME TypeInv, NEW t \in Threads, Move(t)
    PROVE  TypeInv'
  <1> DEFINE k    == task[t]
             n    == task'[t]
             held == WithPast(Found(elems, Live(k.at)), <<>>)
  <1>1. /\ k.pc = "move" /\ UNCHANGED <<use, packs, copy, nextUid, now, calls, overlaid>>
        /\ At(t, k.at) /\ Others(t)
        /\ \/ n = Idle /\ UNCHANGED elems
           \/ /\ ~Missing(elems, Live(k.at))
              /\ elems' = Take(elems, Live(k.at))
              /\ n = WithPcHeld(k, k.at, "moved", held)
    BY MoveEffect, Zenon DEF MoveDoes
  <1>2. /\ TaskOK(k, packs[t].history) /\ k.at \in Names /\ Live(k.at) \in Keys
        /\ StoreOK(elems) /\ nextUid \in 1 .. MaxUid + 1
    BY <1>1, TaskFacts DEF TypeInv, Bounds
  <1>3. ~Missing(elems, Live(k.at)) => IsElem(held)
    BY <1>2, FoundFacts, ListEmpty DEF IsElem, WithPast
  <1> HIDE DEF k, n, held
  <1>4. TaskOK(n, packs[t].history)
    BY <1>1, <1>2, <1>3, IdleType DEF TaskOK, IsTask, Steps, WithPcHeld
  <1>5. StoreOK(elems')
    BY <1>1, <1>2, TakeFacts
  <1> QED
    BY <1>1, <1>2, <1>4, <1>5, WriteType DEF k, n

LEMMA MovedType ==
    ASSUME TypeInv, NEW t \in Threads, Moved(t)
    PROVE  TypeInv'
  <1> DEFINE k    == task[t]
             n    == task'[t]
             new  == k.call.arg
             none == <<>>
             one  == <<Rename(Live(k.at), Live(new), NoAttrs)>>
  <1>1. /\ k.pc = "moved" /\ UNCHANGED <<use, packs, copy, nextUid, now, calls>>
        /\ elems' = Put(elems, Live(new), k.held)
        /\ shared' = BothNames(IF \E u \in Threads \ {t} : new \in task[u].used
                               THEN shared \cup {k.at, new} ELSE shared, k.at, new)
        /\ overlaid' = BothNames(overlaid, k.at, new)
        /\ Others(t) /\ n = WithMoved(k, new, "below", none, one)
    BY MovedEffect, Zenon DEF MovedDoes
  <1>2. /\ TaskOK(k, packs[t].history) /\ k.at \in Names
        /\ StoreOK(elems) /\ shared \subseteq Names /\ overlaid \subseteq Names
    BY <1>1, TaskFacts DEF TypeInv, Bounds
  <1>3. new \in Names /\ Live(new) \in Keys /\ IsElem(k.held)
    BY <1>1, <1>2, NamesFacts DEF TaskOK, WithArg
  <1>4. StoreOK(elems')
    BY <1>1, <1>2, <1>3, PutFacts
  <1>5. shared' \subseteq Names /\ overlaid' \subseteq Names
    BY <1>1, <1>2, <1>3 DEF BothNames
  <1>6. IsCommands(one)
    <2> DEFINE c == Rename(Live(k.at), Live(new), NoAttrs)
    <2>1. c.type \in CommandTypes
      BY DEF Rename, CommandTypes
    <2> HIDE DEF c
    <2>2. IsList(one) /\ ToSet(one) = {c}
      BY ListOne DEF c
    <2> QED
      BY <2>1, <2>2 DEF IsCommands
  <1> HIDE DEF k, n, new, none, one
  <1>7. TaskOK(n, packs[t].history)
    BY <1>1, <1>2, <1>3, <1>6 DEF TaskOK, IsTask, Steps, WithMoved
  <1>8. \A u \in Threads : TaskOK(task'[u], packs[u].history)
    BY <1>1, <1>7 DEF n, TypeInv, TasksOK, Others
  <1>9. TasksOK'
    BY <1>1, <1>8 DEF TasksOK, Others
  <1> QED
    BY <1>1, <1>4, <1>5, <1>9 DEF TypeInv, Bounds, PacksOK

LEMMA TickType ==
    ASSUME TypeInv, Tick
    PROVE  TypeInv'
  <1>1. /\ now < use.maxTime /\ now' = now + 1
        /\ UNCHANGED <<use, packs, elems, copy, nextUid, calls, task, shared, overlaid>>
    BY DEF Tick
  <1>2. use.maxTime \in Nat
    BY UsesAssumption DEF TypeInv, Bounds
  <1> QED
    BY <1>1, <1>2 DEF TypeInv, Bounds, PacksOK, TasksOK

-----------------------------------------------------------------------------
\* The file that is saved has one command for every key that is there.
LEMMA SetToSeqFacts ==
    ASSUME NEW S, IsFiniteSet(S)
    PROVE  /\ SetToSeq(S) \in Seq(S)
           /\ ToSet(SetToSeq(S)) = S
           /\ \A i, j \in 1 .. Len(SetToSeq(S)) : SetToSeq(S)[i] = SetToSeq(S)[j] => i = j
  <1> DEFINE s == SetToSeq(S)
             c == Cardinality(S)
  <1>1. c \in Nat /\ ExistsBijection(1 .. c, S)
    BY FS_CardinalityType
  <1>2. PICK f \in [1 .. c -> S] : /\ \A a, b \in 1 .. c : f[a] = f[b] => a = b
                                   /\ \A x \in S : \E i \in 1 .. c : f[i] = x
    BY <1>1, Zenon DEF ExistsBijection, Bijection, Injection, Surjection, IsInjective
  <1>3. IsInjective(f)
    BY <1>2 DEF IsInjective
  <1>4. s \in [1 .. c -> S] /\ IsInjective(s)
    BY <1>3, Zenon DEF SetToSeq
  <1>5. s \in Injection(1 .. c, S)
    BY <1>4 DEF Injection, IsInjective
  <1>6. IsFiniteSet(1 .. c) /\ Cardinality(1 .. c) = c
    BY <1>1, FS_Interval
  <1>7. s \in Surjection(1 .. c, S)
    BY <1>5, <1>6, FS_Injection
  <1>8. ToSet(s) = S
    <2>1. \A x \in S : \E i \in 1 .. c : s[i] = x
      BY <1>7 DEF Surjection
    <2> QED
      BY <1>4, <2>1 DEF ToSet
  <1> HIDE DEF s, c
  <1>9. s \in Seq(S) /\ Len(s) = c
    BY <1>1, <1>4
  <1>10. \A i, j \in 1 .. Len(s) : s[i] = s[j] => i = j
    BY <1>4, <1>9 DEF IsInjective
  <1> QED
    BY <1>8, <1>9, <1>10 DEF s

LEMMA FullKeysFacts ==
    ASSUME NEW store, StoreOK(store)
    PROVE  FullKeys(store) \subseteq Keys /\ IsFiniteSet(FullKeys(store))
  <1>1. IsFiniteSet(0 .. MaxUid)
    BY NamesAssumption, FS_Interval
  <1>2. IsFiniteSet(Keys)
    BY <1>1, NamesAssumption, FS_Product DEF Keys
  <1>3. FullKeys(store) \in SUBSET Keys
    BY DEF StoreOK, FullKeys
  <1> QED
    BY <1>2, <1>3, FS_Subset

LEMMA SaveFacts ==
    ASSUME NEW store, StoreOK(store)
    PROVE  LET keys == SetToSeq(FullKeys(store))
           IN  /\ IsCommands(Save(store)) /\ Len(Save(store)) = Len(keys)
               /\ \A i \in 1 .. Len(keys) :
                     Save(store)[i] = SetAll(keys[i], Bare(Found(store, keys[i])))
  <1> DEFINE S    == FullKeys(store)
             keys == SetToSeq(S)
             c(i) == SetAll(keys[i], Bare(Found(store, keys[i])))
  <1>1. IsFiniteSet(S)
    BY FullKeysFacts
  <1>2. keys \in Seq(S)
    BY <1>1, SetToSeqFacts
  <1>3. Len(keys) \in Nat /\ DOMAIN keys = 1 .. Len(keys)
    BY <1>2, MemberFacts
  <1>4. Save(store) = [i \in 1 .. Len(keys) |-> c(i)]
    <2>1. Save(store) = [i \in DOMAIN keys |-> c(i)]
      BY Zenon DEF Save, FullKeys, Bare
    <2> HIDE DEF keys
    <2> QED
      BY <1>3, <2>1
  <1>5. \A i : c(i).type = "SET_ALL"
    BY DEF SetAll
  <1> HIDE DEF keys, c
  <1> DEFINE T == {c(i) : i \in 1 .. Len(keys)}
  <1>6. Save(store) \in Seq(T) /\ Len(Save(store)) = Len(keys)
    BY <1>3, <1>4
  <1>7. IsList(Save(store)) /\ ToSet(Save(store)) \subseteq T
    BY <1>6, ListOf
  <1>8. \A x \in T : x.type = "SET_ALL"
    BY <1>5
  <1>9. IsCommands(Save(store))
    BY <1>7, <1>8 DEF IsCommands, CommandTypes
  <1>10. \A i \in 1 .. Len(keys) : Save(store)[i] = c(i)
    BY <1>4
  <1> QED
    BY <1>6, <1>9, <1>10 DEF keys, c

\* The settings of a process.
LEMMA PackFacts ==
    ASSUME NEW s
    PROVE  IsPack(Pack(s)) /\ Pack(s).type = s.type /\ Pack(s).history = s.history
  <1> DEFINE switched == [Unset EXCEPT !.mtime = s.mtime, !.history = s.history,
                                       !.expire = s.expire, !.defenc = s.defenc, !.type = s.type]
             full == LoadEncryptPassMap(switched, s.file)
             passes == switched.passes \cup Range(s.file)
             default == IF s.file = <<>> THEN NoPass ELSE Head(s.file)
  <1>1. Pack(s) = IF s.file = <<>> THEN switched ELSE full
    BY Zenon DEF Pack
  <1>2. switched = [mtime |-> s.mtime, history |-> s.history, expire |-> s.expire,
                    defenc |-> s.defenc, passes |-> {}, default |-> NoPass, type |-> s.type]
    <2> DEFINE a == s.mtime
               b == s.history
               c == s.expire
               d == s.defenc
               e == s.type
    <2>1. switched = [Unset EXCEPT !.mtime = a, !.history = b, !.expire = c, !.defenc = d, !.type = e]
      OBVIOUS
    <2> HIDE DEF a, b, c, d, e, switched
    <2>2. switched = [mtime |-> a, history |-> b, expire |-> c,
                      defenc |-> d, passes |-> {}, default |-> NoPass, type |-> e]
      BY <2>1 DEF Unset
    <2> QED
      BY <2>2 DEF a, b, c, d, e
  <1> HIDE DEF switched
  <1>3. full = [switched EXCEPT !.passes = passes, !.default = default]
    BY <1>2 DEF LoadEncryptPassMap
  <1> HIDE DEF full, passes, default
  <1>4. IsPack(switched) /\ switched.type = s.type /\ switched.history = s.history
    BY <1>2 DEF IsPack
  <1>5. full = [mtime |-> switched.mtime, history |-> switched.history, expire |-> switched.expire,
                defenc |-> switched.defenc, passes |-> passes, default |-> default,
                type |-> switched.type]
    BY <1>3, <1>4 DEF IsPack
  <1>6. IsPack(full) /\ full.type = s.type /\ full.history = s.history
    BY <1>4, <1>5 DEF IsPack
  <1> QED
    BY <1>1, <1>4, <1>6, Zenon

LEMMA InitType == Init => TypeInv
  <1> SUFFICES ASSUME Init PROVE TypeInv
    OBVIOUS
  <1>1. /\ use \in Uses /\ nextUid = 1 /\ now = 0 /\ calls = 0 /\ shared = {} /\ overlaid = {}
        /\ packs = [t \in Threads |-> Pack(use.settings[t])]
        /\ elems = [k \in Keys |-> IF k[2] = 0 /\ k[1] \in DOMAIN use.start
                                   THEN <<WithPast(use.start[k[1]], <<>>)>> ELSE <<>>]
        /\ copy = LoadAll([k \in Keys |-> <<>>], Save(elems))
        /\ task = [t \in Threads |-> Idle]
    BY DEF Init
  <1>2. Bounds
    BY <1>1, UsesAssumption, NamesAssumption DEF Bounds
  <1>3. PacksOK
    <2>1. IsFunction(packs) /\ DOMAIN packs = Threads
      BY <1>1 DEF IsFunction
    <2>2. \A t \in Threads : packs[t] = Pack(use.settings[t])
      BY <1>1
    <2> QED
      BY <2>1, <2>2, PackFacts DEF PacksOK
  <1>4. StoreOK(elems)
    <2>1. IsFunction(elems) /\ DOMAIN elems = Keys
      BY <1>1 DEF IsFunction
    <2>2. ASSUME NEW k \in Keys PROVE IsList(elems[k]) /\ \A e \in ToSet(elems[k]) : IsElem(e)
      <3> DEFINE x == WithPast(use.start[k[1]], <<>>)
      <3>1. elems[k] = IF k[2] = 0 /\ k[1] \in DOMAIN use.start THEN <<x>> ELSE <<>>
        BY <1>1
      <3>2. k[1] \in DOMAIN use.start => IsElem(x)
        BY <1>1, UsesAssumption, ListEmpty DEF IsElem, WithPast
      <3> HIDE DEF x
      <3>4. IsList(<<x>>) /\ ToSet(<<x>>) = {x}
        BY ListOne
      <3> QED
        BY <3>1, <3>2, <3>4, ListEmpty
    <2> QED
      BY <2>1, <2>2 DEF StoreOK
  <1>5. DOMAIN copy = Keys
    <2> DEFINE none == [k \in Keys |-> <<>>]
    <2>1. DOMAIN none = Keys
      OBVIOUS
    <2> HIDE DEF none
    <2> QED
      BY <1>1, <1>4, <2>1, SaveFacts, LoadAllDomain DEF none
  <1>6. TasksOK
    BY <1>1, IdleType DEF TasksOK, IsFunction
  <1> QED
    BY <1>2, <1>3, <1>4, <1>5, <1>6 DEF TypeInv

LEMMA NextType == TypeInv /\ [Next]_vars => TypeInv'
  <1> SUFFICES ASSUME TypeInv, [Next]_vars PROVE TypeInv'
    OBVIOUS
  <1>1. CASE UNCHANGED vars
    BY <1>1 DEF vars, TypeInv, Bounds, PacksOK, TasksOK
  <1>2. ASSUME NEW t \in Threads, Calls(t)
        PROVE  TypeInv'
    BY <1>2, BeginsType
  <1>3. CASE \E t \in Threads : AddPass(t)
    BY <1>3, AddPassType
  <1>4. ASSUME NEW t \in Threads, Acts(t)
        PROVE  TypeInv'
    BY <1>4, GetTrialType, ReadSubsType, ReadAttrsType, TakeOldType, ShelveType, ShelvedType,
       InsertNewType, BelowType, PutStackType, ReplacedType, UnlistType, MoveType, MovedType DEF Acts
  <1>5. CASE Tick
    BY <1>5, TickType
  <1>6. CASE Finished
    BY <1>1, <1>6 DEF Finished
  <1> QED
    BY <1>1, <1>2, <1>3, <1>4, <1>5, <1>6 DEF Next, Calls, Acts

LEMMA TypeInvType == TypeInv => TypeOK
  <1> SUFFICES ASSUME TypeInv PROVE TypeOK
    OBVIOUS
  <1>1. DOMAIN elems = Keys /\ DOMAIN copy = Keys
    BY DEF TypeInv, StoreOK
  <1>2. ASSUME NEW k \in Keys, NEW i \in DOMAIN elems[k] PROVE Ascending(elems[k][i].subs)
    <2>1. IsList(elems[k]) /\ \A e \in ToSet(elems[k]) : IsElem(e)
      BY DEF TypeInv, StoreOK
    <2>2. elems[k][i] \in ToSet(elems[k])
      BY <2>1, ListMembers
    <2> QED
      BY <2>1, <2>2 DEF IsElem
  <1>3. \A t \in Threads : /\ task[t].pc \in Steps
                           /\ task[t].used \subseteq Names
                           /\ Ascending(task[t].subs)
    BY DEF TypeInv, TasksOK, TaskOK
  <1> QED
    BY <1>1, <1>2, <1>3 DEF TypeOK, TypeInv, Bounds, Steps

\* However the calls interleave, the store and the archive stay stores of the same
\* keys, every list of subkeys, in the file and in the hands of a thread, is
\* ascending, as the halving of its next search needs it, and the unique ids are
\* never more than there are.
THEOREM TypeOKHolds == Spec => []TypeOK
  <1>1. Init => TypeInv
    BY InitType
  <1>2. TypeInv /\ [Next]_vars => TypeInv'
    BY NextType
  <1>3. TypeInv => TypeOK
    BY TypeInvType
  <1> QED
    BY <1>1, <1>2, <1>3, PTL DEF Spec

LEMMA LikeTrans == \A a, b, c : Like(a, b) /\ Like(b, c) => Like(a, c)
  BY DEF Like

LEMMA LikeSet ==
    ASSUME NEW a, NEW name, NEW val, name \notin EncTypes \cup {"hismark"}
    PROVE  Like(SetAttr(a, name, val), a) /\ Like(RemoveAttr(a, name), a)
  <1> DEFINE b == SetAttr(a, name, val)
  <1>1. /\ DOMAIN b = DOMAIN a \cup {name}
        /\ \A x \in DOMAIN a \ {name} : b[x] = a[x]
    BY DEF SetAttr
  <1> HIDE DEF b
  <1>2. /\ DOMAIN RemoveAttr(a, name) = DOMAIN a \ {name}
        /\ \A x \in DOMAIN a \ {name} : RemoveAttr(a, name)[x] = a[x]
    BY DEF RemoveAttr, Restrict
  <1>3. Like(RemoveAttr(a, name), a)
    BY <1>2 DEF Like
  <1>4. Like(b, a)
    BY <1>1 DEF Like
  <1> QED
    BY <1>3, <1>4 DEF b

LEMMA LikeIdentified ==
    ASSUME NEW a, NEW uid, NEW parent
    PROVE  Like(Identified(a, uid, parent), a)
  <1> DEFINE named == SetAttr(a, "uniqid", uid)
             both  == SetAttr(named, "parentuniqid", parent)
  <1>1. Like(named, a)
    BY LikeSet DEF EncTypes
  <1> HIDE DEF named
  <1>2. Like(both, named)
    BY LikeSet DEF EncTypes
  <1> HIDE DEF both
  <1>3. Identified(a, uid, parent) = IF parent = 0 THEN named ELSE both
    BY DEF Identified, named, both
  <1> QED
    BY <1>1, <1>2, <1>3, LikeTrans

LEMMA LikeUid ==
    ASSUME NEW p, NEW a, NEW uid, NEW parent
    PROVE  Like(DirectSetUniqId(p, a, parent, uid), a)
  <1>1. Like(a, a)
    BY DEF Like
  <1>2. Like(Identified(a, uid, IF parent = 0 THEN GetUniqId(a) ELSE parent), a)
    BY LikeIdentified
  <1> QED
    BY <1>1, <1>2, Zenon DEF DirectSetUniqId

LEMMA LikeTimes ==
    ASSUME NEW p, NEW a, NEW expire, NEW time
    PROVE  Like(Expiring(p, Stamped(p, a, time), expire, time), a)
  <1> DEFINE b == Stamped(p, a, time)
             secs == IF expire # NotExpire THEN expire ELSE p.expire
  <1>1. Like(SetAttr(a, "mtime", time), a) /\ Like(RemoveAttr(a, "mtime"), a)
    BY LikeSet DEF EncTypes
  <1>2. Like(b, a)
    BY <1>1, Zenon DEF Stamped
  <1> HIDE DEF b
  <1>3. Like(SetAttr(b, "expire", time + secs), b) /\ Like(RemoveAttr(b, "expire"), b)
    BY LikeSet DEF EncTypes
  <1>4. Like(Expiring(p, b, expire, time), b)
    BY <1>3, Zenon DEF Expiring
  <1> QED
    BY <1>2, <1>4, LikeTrans DEF b

LEMMA LikeClean == \A a, b : Like(a, b) /\ Clean(b) => Clean(a)
  BY DEF Like, Clean

\* The element that a Set makes tells how it is stored.
LEMMA NewElementFit ==
    ASSUME TypeInv, ReadInv, NEW t \in Threads
    PROVE  Clean(NewElement(t).e.attrs) /\ Fits(WithPast(NewElement(t).e, task[t].past))
  <1> DEFINE k     == task[t]
             p     == packs[t]
             with  == PassFor(p, k.text, k.call.pass)
             plain == Expiring(p, Stamped(p, k.attrs, now), k.call.expire, now)
             coded == Encrypted(p, plain, with)
             old   == IF p.history /\ with # NoPass THEN GetUniqId(coded) ELSE 0
             fresh == p.history /\ (with # NoPass \/ GetUniqId(coded) = 0)
             named == IF fresh THEN Identified(coded, nextUid, old) ELSE coded
             uid   == IF fresh THEN nextUid + 1 ELSE nextUid
             again == IF old = 0 THEN k.puid # 0 ELSE k.puid # old
             attrs == IF again THEN DirectSetUniqId(p, named, k.puid, uid) ELSE named
             value == Stored(k.text, with, p.type)
             after == IF again THEN uid + 1 ELSE uid
  <1>1. NewElement(t) = [e |-> ElementOf(value, k.subs, attrs), uid |-> after]
    <2> DEFINE upd == UpdateAttr(p, k.attrs, k.text, k.call.pass, k.call.expire, now, nextUid)
    <2>1. upd = [attrs |-> named, value |-> value, old |-> old, uid |-> uid]
      BY Zenon DEF UpdateAttr
    <2> HIDE DEF upd, named, value, old, uid
    <2>2. upd.attrs = named /\ upd.value = value /\ upd.old = old /\ upd.uid = uid
      BY <2>1
    <2> QED
      BY <2>2, Zenon DEF NewElement, upd
  <1>2. p.type \in EncTypes /\ \A s \in Threads : use.settings[s].type = p.type
    BY UsesAssumption DEF TypeInv, Bounds, PacksOK, ReadInv, OneEncryption
  <1>3. Clean(plain)
    <2>1. Clean(k.attrs)
      BY DEF ReadInv, TaskFit
    <2> QED
      BY <2>1, LikeTimes, LikeClean
  <1> HIDE DEF k, p, with, plain
  <1>4. /\ Clean(coded)
        /\ IF with = NoPass THEN DOMAIN coded \cap EncTypes = {}
           ELSE p.type \in DOMAIN coded \cap EncTypes /\ coded[p.type] = with
    <2>1. CASE with = NoPass
      <3>1. coded = RemoveAttr(plain, p.type)
        BY <2>1, Zenon DEF Encrypted
      <3>2. DOMAIN coded = DOMAIN plain \ {p.type}
        BY <3>1 DEF RemoveAttr, Restrict
      <3> QED
        BY <1>2, <1>3, <2>1, <3>2 DEF Clean
    <2>2. CASE with # NoPass
      <3>1. coded = SetAttr(plain, p.type, with)
        BY <2>2, Zenon DEF Encrypted
      <3>2. DOMAIN coded = DOMAIN plain \cup {p.type} /\ coded[p.type] = with
        BY <3>1 DEF SetAttr
      <3>3. p.type # "hismark"
        BY <1>2 DEF EncTypes
      <3> QED
        BY <1>2, <1>3, <2>2, <3>2, <3>3 DEF Clean
    <2> QED
      BY <2>1, <2>2
  <1> HIDE DEF coded
  <1>5. Like(attrs, coded)
    <2>1. Like(coded, coded)
      BY DEF Like
    <2>2. Like(named, coded)
      BY <2>1, LikeIdentified, Zenon
    <2> HIDE DEF named
    <2>3. Like(named, named) /\ Like(DirectSetUniqId(p, named, k.puid, uid), named)
      BY LikeUid DEF Like
    <2>4. Like(attrs, named)
      BY <2>3, Zenon
    <2> QED
      BY <2>2, <2>4, LikeTrans
  <1> HIDE DEF attrs, after
  <1>6. Clean(attrs)
    BY <1>4, <1>5, LikeClean
  <1>7. value = [text |-> k.text, pass |-> with, type |-> IF with = NoPass THEN "plain" ELSE p.type]
    BY DEF Stored
  <1> HIDE DEF value
  <1>8. NewElement(t).e.attrs = attrs /\ NewElement(t).e.value = value
    BY <1>1 DEF ElementOf
  <1>9. value.pass = with /\ (with = NoPass => value.type = "plain")
        /\ (with # NoPass => value.type = p.type)
    BY <1>7
  <1> DEFINE e == WithPast(NewElement(t).e, task[t].past)
  <1>10. e.attrs = attrs /\ e.value = value
    BY <1>8 DEF WithPast
  <1> HIDE DEF e
  <1>11. Fits(e)
    BY <1>4, <1>5, <1>9, <1>10 DEF Fits, Like
  <1> QED
    BY <1>6, <1>8, <1>11 DEF e

\* What is left to show of a step.
LEMMA ReadStep ==
    ASSUME ReadInv, NEW t \in Threads, Others(t), use' = use, overlaid \subseteq overlaid',
           \A n \in Names : \A e \in ToSet(elems'[Live(n)]) :
               e \in ToSet(elems[Live(n)]) \/ (Clean(e.attrs) /\ (n \notin overlaid' => Fits(e))),
           Clean(task'[t].attrs),
           task'[t].pc = "moved" =>
               /\ Clean(task'[t].held.attrs)
               /\ task'[t].at \notin overlaid' => Fits(task'[t].held),
           task'[t].pc = "replace" /\ task'[t].call.op = "addattr" =>
               task'[t].attrs = SetAttr(task'[t].held, "user", task'[t].call.text)
    PROVE  ReadInv'
  <1>1. \A a : Clean(a)' <=> Clean(a)
    BY DEF Clean
  <1>2. OneEncryption(use)'
    BY DEF ReadInv, OneEncryption
  <1>3. LiveFit'
    <2> SUFFICES ASSUME NEW n \in Names, NEW e \in ToSet(elems'[Live(n)])
                 PROVE  Clean(e.attrs)' /\ (n \notin overlaid' => Fits(e))
      BY DEF LiveFit, Fits
    <2> QED
      BY <1>1 DEF ReadInv, LiveFit
  <1>4. TaskFit(task[t])'
    BY <1>1 DEF TaskFit, Fits
  <1>5. ASSUME NEW u \in Threads \ {t} PROVE TaskFit(task[u])'
    <2>1. task'[u] = task[u] /\ TaskFit(task[u])
      BY DEF Others, ReadInv
    <2> QED
      BY <1>1, <2>1 DEF TaskFit, Fits
  <1> QED
    BY <1>2, <1>3, <1>4, <1>5 DEF ReadInv

\* The elements stay, or some go.
LEMMA ReadKept ==
    ASSUME ReadInv, NEW t \in Threads, Others(t), use' = use, overlaid' = overlaid,
           \A n \in Names : ToSet(elems'[Live(n)]) \subseteq ToSet(elems[Live(n)]),
           Clean(task'[t].attrs),
           task'[t].pc = "moved" =>
               /\ Clean(task'[t].held.attrs)
               /\ task'[t].at \notin overlaid' => Fits(task'[t].held),
           task'[t].pc = "replace" /\ task'[t].call.op = "addattr" =>
               task'[t].attrs = SetAttr(task'[t].held, "user", task'[t].call.text)
    PROVE  ReadInv'
  BY ReadStep

LEMMA CleanNone == Clean(NoAttrs)
  <1>1. DOMAIN NoAttrs = {}
    BY DEF NoAttrs
  <1> QED
    BY <1>1 DEF Clean

LEMMA BeginRead ==
    ASSUME TypeInv, ReadInv, NEW t \in Threads, NEW op, NEW pc, Begin(t, op, pc),
           pc # "moved", pc = "replace" => op # "addattr"
    PROVE  ReadInv'
  <1>1. UNCHANGED <<use, elems, overlaid>> /\ Others(t)
    BY BeginEffect
  <1>2. PICK c : c.op = op /\ task'[t] = Begun(c, op, pc)
    BY BeginEffect
  <1> DEFINE n == task'[t]
  <1>3. n.attrs = NoAttrs /\ n.pc = pc /\ n.call = c
    BY <1>2 DEF Begun
  <1> HIDE DEF n
  <1> QED
    BY <1>1, <1>2, <1>3, CleanNone, ReadKept DEF n

LEMMA BeginsRead ==
    ASSUME TypeInv, ReadInv, NEW t \in Threads, Calls(t)
    PROVE  ReadInv'
  BY BeginRead DEF Calls, CallSet, CallSetAll, CallSetSubkeys, CallAddSubkey,
      CallAddAttr, CallRemove, CallRemoveSubkey, CallRename, CallGetTrial

\* What a call holds stays when its step is not about attributes.
LEMMA FitFacts ==
    ASSUME ReadInv, NEW t \in Threads
    PROVE  Clean(task[t].attrs) /\ TaskFit(task[t]) /\ Idle.attrs = NoAttrs /\ Idle.pc = "idle"
  BY DEF ReadInv, TaskFit, Idle

LEMMA GetTrialRead ==
    ASSUME TypeInv, ReadInv, NEW t \in Threads, GetTrial(t)
    PROVE  ReadInv'
  <1> DEFINE k == task[t]
             n == task'[t]
  <1>1. UNCHANGED <<use, elems, overlaid>> /\ Others(t) /\ (n = Idle \/ n = WithPc(k, k.at, "subs"))
    BY GetTrialEffect, Zenon DEF GetTrialDoes
  <1> HIDE DEF k, n
  <1>2. n.attrs \in {k.attrs, NoAttrs} /\ n.pc \in {"idle", "subs"}
    BY <1>1, FitFacts DEF WithPc
  <1> QED
    BY <1>1, <1>2, FitFacts, CleanNone, ReadKept DEF k, n

LEMMA ReadSubsRead ==
    ASSUME TypeInv, ReadInv, NEW t \in Threads, ReadSubs(t)
    PROVE  ReadInv'
  <1> DEFINE k    == task[t]
             n    == task'[t]
             subs == GetSubKeys(k.at)
             more == Insert(subs, k.call.arg)
  <1>1. /\ UNCHANGED <<use, elems, overlaid>> /\ Others(t)
        /\ \/ k.call.op = "addsubkey" /\ n = WithPcSubs(k, k.at, "replace", more)
           \/ n = WithPcSubs(k, k.at, "attrs", subs)
    BY ReadSubsEffect, Zenon DEF ReadSubsDoes
  <1> HIDE DEF k, n, subs, more
  <1>2. /\ n.attrs = k.attrs /\ n.call = k.call
        /\ (n.pc = "attrs" \/ (n.pc = "replace" /\ k.call.op = "addsubkey"))
    BY <1>1 DEF WithPcSubs
  <1> QED
    BY <1>1, <1>2, FitFacts, ReadKept DEF k, n

LEMMA ReadAttrsRead ==
    ASSUME TypeInv, ReadInv, NEW t \in Threads, ReadAttrs(t)
    PROVE  ReadInv'
  <1> DEFINE k     == task[t]
             n     == task'[t]
             attrs == GetAttrs(k.at)
             more  == SetAttr(attrs, "user", k.call.text)
  <1>1. /\ k.pc = "attrs" /\ UNCHANGED <<use, elems, overlaid>> /\ Others(t)
        /\ \/ k.call.op = "addattr" /\ n = WithPcHeldAttrs(k, k.at, "replace", attrs, more)
           \/ k.call.op # "addattr" /\ n = WithPcAttrs(k, k.at, "take", attrs)
    BY ReadAttrsEffect, Zenon DEF ReadAttrsDoes
  <1>2. k.at \in Names /\ Live(k.at) \in Keys
    BY <1>1, TaskFacts
  <1> HIDE DEF k, n
  <1>3. Clean(attrs)
    <2>1. ~Missing(elems, Live(k.at)) => Found(elems, Live(k.at)) \in ToSet(elems[Live(k.at)])
      BY <1>2, FoundFacts DEF TypeInv
    <2>2. ~Missing(elems, Live(k.at)) => Clean(Found(elems, Live(k.at)).attrs)
      BY <1>2, <2>1 DEF ReadInv, LiveFit
    <2> QED
      BY <2>2, CleanNone, Zenon DEF GetAttrs
  <1> HIDE DEF attrs
  <1>4. Clean(more)
    <2>1. Like(more, attrs)
      BY LikeSet DEF EncTypes
    <2> QED
      BY <1>3, <2>1, LikeClean
  <1>5. \/ n.pc = "take" /\ n.attrs = attrs
        \/ /\ n.pc = "replace" /\ n.attrs = more
           /\ more = SetAttr(n.held, "user", n.call.text)
    <2>1. CASE n = WithPcHeldAttrs(k, k.at, "replace", attrs, more)
      <3>1. n.pc = "replace" /\ n.attrs = more /\ n.held = attrs /\ n.call = k.call
        <4> HIDE DEF more
        <4> QED
          BY <2>1 DEF WithPcHeldAttrs
      <3> QED
        BY <3>1
    <2>2. CASE n = WithPcAttrs(k, k.at, "take", attrs)
      BY <2>2 DEF WithPcAttrs
    <2> QED
      BY <1>1, <2>1, <2>2
  <1> HIDE DEF more
  <1> QED
    BY <1>1, <1>3, <1>4, <1>5, ReadKept DEF n

LEMMA TakeOldRead ==
    ASSUME TypeInv, ReadInv, NEW t \in Threads, TakeOld(t)
    PROVE  ReadInv'
  <1> DEFINE k     == task[t]
             n     == task'[t]
             next  == IF k.call.op = "remove" THEN "below" ELSE "insert"
             subs  == SubKeysOf(k.at, k.rm)
             stack == Stacked(k, k.at)
  <1>1. /\ k.pc = "take" /\ Others(t) /\ UNCHANGED <<use, overlaid>>
        /\ \/ UNCHANGED elems /\ n = WithPc(k, k.at, next)
           \/ /\ ~Missing(elems, Live(k.at)) /\ elems' = Take(elems, Live(k.at))
              /\ n = WithPcDoomedStack(k, k.at, next, subs, stack)
           \/ UNCHANGED elems /\ n = WithPcOldUnderThen(k, k.at, "shelve", k.at, subs, next)
    BY TakeOldEffect, Zenon DEF TakeOldDoes
  <1>2. k.at \in Names /\ Live(k.at) \in Keys /\ StoreOK(elems)
    BY <1>1, TaskFacts DEF TypeInv
  <1>3. next \in {"below", "insert"}
    OBVIOUS
  <1> HIDE DEF k, n, subs, stack, next
  <1>4. \A m \in Names : ToSet(elems'[Live(m)]) \subseteq ToSet(elems[Live(m)])
    BY <1>1, <1>2, TakeFacts, NamesFacts
  <1>5. n.attrs = k.attrs /\ n.pc \in {"below", "insert", "shelve"}
    BY <1>1, <1>3 DEF WithPc, WithPcDoomedStack, WithPcOldUnderThen
  <1> QED
    BY <1>1, <1>4, <1>5, FitFacts, ReadKept DEF k, n

LEMMA ShelveRead ==
    ASSUME TypeInv, ReadInv, NEW t \in Threads, Shelve(t)
    PROVE  ReadInv'
  <1> DEFINE k     == task[t]
             n     == task'[t]
             e     == Found(elems, Live(k.old))
             known == GetUniqId(e.attrs)
             named == IF known = 0 THEN DirectSetUniqId(packs[t], e.attrs, 0, nextUid)
                      ELSE e.attrs
             puid  == GetUniqId(named)
             held  == WithAttrs(e, MarkHistory(named))
             none  == <<>>
  <1>1. /\ k.pc = "shelve" /\ Others(t) /\ UNCHANGED <<use, overlaid>>
        /\ \/ UNCHANGED elems /\ n = Idle
           \/ UNCHANGED elems /\ n = WithPcUnder(k, k.old, "below", none)
           \/ /\ ~Missing(elems, Live(k.old)) /\ elems' = Take(elems, Live(k.old))
              /\ n = WithPcPuidHeld(k, k.old, "shelved", puid, held)
    BY ShelveEffect, Zenon DEF ShelveDoes
  <1>2. k.old \in Names /\ Live(k.old) \in Keys /\ StoreOK(elems)
    BY <1>1, TaskFacts, NamesFacts DEF TypeInv, TaskOK
  <1> HIDE DEF k, n, e, known, puid, held, none
  <1>3. \A m \in Names : ToSet(elems'[Live(m)]) \subseteq ToSet(elems[Live(m)])
    BY <1>1, <1>2, TakeFacts, NamesFacts
  <1>4. n.attrs \in {k.attrs, NoAttrs} /\ n.pc \in {"idle", "below", "shelved"}
    BY <1>1, FitFacts DEF WithPcUnder, WithPcPuidHeld
  <1> QED
    BY <1>1, <1>3, <1>4, FitFacts, CleanNone, ReadKept DEF k, n

\* The version is no key.
LEMMA ShelvedRead ==
    ASSUME TypeInv, ReadInv, NEW t \in Threads, Shelved(t)
    PROVE  ReadInv'
  <1> DEFINE k       == task[t]
             n       == task'[t]
             version == MakeHistoryKey(k.old, k.puid)
             none    == <<>>
             doomed  == k.under \o k.doomed
             past    == Append(k.held.past, k.held.value.text)
             stack   == Append(k.stack, Rename(Live(k.old), version, k.held.attrs))
  <1>1. /\ k.pc = "shelved" /\ Others(t) /\ UNCHANGED <<use, overlaid>>
        /\ elems' = Put(elems, version, k.held)
        /\ n = WithShelved(k, k.old, k.then, none, none, doomed, past, stack)
    BY ShelvedEffect, Zenon DEF ShelvedDoes
  <1>2. /\ IsElem(k.held) /\ k.then \in {"insert", "below"} /\ StoreOK(elems) /\ k.puid # 0
    BY <1>1, TaskFacts DEF TypeInv, TaskOK
  <1>3. \A m \in Names : Live(m) # version
    BY <1>2 DEF MakeHistoryKey, Live
  <1> HIDE DEF k, n, version, doomed, past, stack, none
  <1>4. \A m \in Names : elems'[Live(m)] = elems[Live(m)]
    BY <1>1, <1>2, <1>3, PutFacts, NamesFacts
  <1>5. n.attrs = k.attrs /\ n.pc = k.then
    BY <1>1 DEF WithShelved
  <1> QED
    BY <1>1, <1>2, <1>4, <1>5, FitFacts, ReadKept DEF k, n

LEMMA InsertNewRead ==
    ASSUME TypeInv, ReadInv, NEW t \in Threads, InsertNew(t)
    PROVE  ReadInv'
  <1> DEFINE k      == task[t]
             n      == task'[t]
             new    == NewElement(t)
             e      == WithPast(new.e, k.past)
             none   == <<>>
             doomed == Without(k.doomed, k.subs)
             stack  == Append(k.stack, SetAll(Live(k.at), new.e))
  <1>1. /\ k.pc = "insert" /\ Others(t) /\ UNCHANGED <<use, overlaid>>
        /\ \/ UNCHANGED elems /\ n = WithAgain(k, k.at, "take", 0, none, none)
           \/ /\ elems' = Put(elems, Live(k.at), e)
              /\ n = WithPcDoomedStack(k, k.at, "below", doomed, stack)
    BY InsertNewEffect, Zenon DEF InsertNewDoes
  <1>2. /\ TaskOK(k, packs[t].history) /\ k.at \in Names /\ Live(k.at) \in Keys
        /\ StoreOK(elems) /\ new.e.subs = k.subs
    BY <1>1, TaskFacts, NewElementFacts DEF TypeInv
  <1>3. Clean(new.e.attrs) /\ Fits(e)
    BY NewElementFit
  <1> HIDE DEF k, n, new, none, doomed, stack
  <1>4. IsElem(e) /\ e.attrs = new.e.attrs
    BY <1>2 DEF IsElem, WithPast, TaskOK
  <1> HIDE DEF e
  <1>5. ASSUME NEW m \in Names, NEW x \in ToSet(elems'[Live(m)])
        PROVE  x \in ToSet(elems[Live(m)]) \/ x = e
    <2>1. CASE elems' = Put(elems, Live(k.at), e)
      <3> DEFINE key == Live(k.at)
                 put == Put(elems, key, e)
      <3>1. key \in Keys /\ StoreOK(elems) /\ IsElem(e)
        BY <1>2, <1>4
      <3>2. elems' = put /\ Live(m) \in Keys
        BY <2>1, NamesFacts
      <3> HIDE DEF key
      <3>3. ToSet(put[key]) = ToSet(elems[key]) \cup {e} /\ \A j \in Keys \ {key} : put[j] = elems[j]
        BY <3>1, PutFacts
      <3> HIDE DEF put
      <3> QED
        BY <1>5, <3>2, <3>3
    <2> QED
      BY <1>1, <1>5, <2>1
  <1>6. n.attrs = k.attrs /\ n.pc \in {"take", "below"}
    BY <1>1 DEF WithAgain, WithPcDoomedStack
  <1> QED
    BY <1>1, <1>3, <1>4, <1>5, <1>6, FitFacts, ReadStep DEF k, n

LEMMA BelowRead ==
    ASSUME TypeInv, ReadInv, NEW t \in Threads, Below(t)
    PROVE  ReadInv'
  <1> DEFINE k     == task[t]
             s     == task'[t]
             n     == Head(k.doomed)
             rest  == Tail(k.doomed)
             under == SubKeysOf(n, TRUE)
             more  == under \o rest
             stack == Stacked(k, n)
  <1>1. /\ k.pc = "below" /\ k.doomed # <<>> /\ Others(t) /\ UNCHANGED <<use, overlaid>>
        /\ \/ UNCHANGED elems /\ s = WithDoomed(k, n, rest)
           \/ /\ ~Missing(elems, Live(n)) /\ elems' = Take(elems, Live(n))
              /\ s = WithDoomedStack(k, n, more, stack)
           \/ UNCHANGED elems /\ s = WithDoomedOldThenUnder(k, n, rest, "shelve", n, "below", under)
    BY BelowEffect, Zenon DEF BelowDoes
  <1>2. n \in Names /\ Live(n) \in Keys /\ StoreOK(elems)
    <2>1. k.doomed \in Seq(Names)
      BY <1>1, TaskFacts DEF TaskOK
    <2> QED
      BY <1>1, <2>1, HeadTailFacts, NamesFacts DEF TypeInv
  <1> HIDE DEF k, s, n, rest, under, more, stack
  <1>3. \A m \in Names : ToSet(elems'[Live(m)]) \subseteq ToSet(elems[Live(m)])
    BY <1>1, <1>2, TakeFacts, NamesFacts
  <1>4. s.attrs = k.attrs /\ s.pc \in {"below", "shelve"}
    BY <1>1 DEF WithDoomed, WithDoomedStack, WithDoomedOldThenUnder
  <1> QED
    BY <1>1, <1>3, <1>4, FitFacts, ReadKept DEF k, s

LEMMA PutStackRead ==
    ASSUME TypeInv, ReadInv, NEW t \in Threads, PutStack(t)
    PROVE  ReadInv'
  <1> DEFINE k    == task[t]
             n    == task'[t]
             none == <<>>
  <1>1. /\ UNCHANGED <<use, elems, overlaid>> /\ Others(t)
        /\ n = WithPcAtStack(k, k.at, "subs", k.call.key, none) \/ n = Idle
    BY PutStackEffect, Zenon DEF PutStackDoes
  <1> HIDE DEF k, n, none
  <1>2. n.attrs \in {k.attrs, NoAttrs} /\ n.pc \in {"idle", "subs"}
    BY <1>1, FitFacts DEF WithPcAtStack
  <1> QED
    BY <1>1, <1>2, FitFacts, CleanNone, ReadKept DEF k, n

\* AddAttr puts attributes back: what they were read as fits, unless it has changed.
LEMMA ReplacedRead ==
    ASSUME TypeInv, ReadInv, NEW t \in Threads, Replaced(t)
    PROVE  ReadInv'
  <1> DEFINE k    == task[t]
             s    == task'[t]
             n    == k.call.key
             e    == Found(elems, Live(n))
             none == <<>>
             no   == FALSE
  <1>1. /\ k.pc = "replace" /\ use' = use /\ Others(t)
        /\ \/ /\ UNCHANGED <<elems, overlaid>>
              /\ s = WithAfresh(k, n, "take", n, NoText, no, 0, none, none)
           \/ /\ ~Missing(elems, Live(n)) /\ s = Idle /\ k.call.op = "addattr"
              /\ elems' = Reattributed(elems, Live(n), k.attrs)
              /\ overlaid' = IF e.attrs = k.held THEN overlaid ELSE overlaid \cup {n}
           \/ /\ ~Missing(elems, Live(n)) /\ s = Idle
              /\ elems' = Relisted(elems, Live(n), k.subs)
              /\ UNCHANGED overlaid
    BY ReplacedEffect, Zenon DEF ReplacedDoes
  <1>2. /\ n \in Names /\ Live(n) \in Keys /\ StoreOK(elems)
        /\ k.subs \in Seq(Names) /\ Ascending(k.subs)
    BY <1>1, TaskFacts, NamesFacts DEF TypeInv, TaskOK
  <1>3. s.attrs \in {k.attrs, NoAttrs} /\ s.pc \in {"take", "idle"}
    <2> HIDE DEF k, s, n, none, no
    <2> QED
      BY <1>1, FitFacts DEF WithAfresh
  <1>4. ~Missing(elems, Live(n)) => /\ IsElem(e) /\ Clean(e.attrs)
                                    /\ n \notin overlaid => Fits(e)
    BY <1>2, FoundFacts DEF ReadInv, LiveFit
  <1> DEFINE x == WithAttrs(e, k.attrs)
             y == WithSubs(e, k.subs)
  <1>5. ~Missing(elems, Live(n)) =>
          /\ IsElem(x) /\ x.attrs = k.attrs /\ x.value = e.value
          /\ IsElem(y) /\ y.attrs = e.attrs /\ y.value = e.value
    <2> HIDE DEF e, k
    <2> QED
      BY <1>2, <1>4, PartsElem
  <1>6. ~Missing(elems, Live(n)) =>
          /\ Reattributed(elems, Live(n), k.attrs) = Changed(elems, Live(n), x)
          /\ Relisted(elems, Live(n), k.subs) = Changed(elems, Live(n), y)
    BY <1>2, ChangedParts
  <1>7. Clean(k.attrs) /\ (k.call.op = "addattr" => Like(k.attrs, k.held))
    <2>1. Like(SetAttr(k.held, "user", k.call.text), k.held)
      BY LikeSet DEF EncTypes
    <2> QED
      BY <1>1, <2>1, FitFacts DEF TaskFit
  <1> HIDE DEF k, s, n, e, none, no, x, y
  <1>8. CASE UNCHANGED <<elems, overlaid>>
    BY <1>1, <1>3, <1>8, FitFacts, CleanNone, ReadKept DEF k, s
  <1>9. CASE /\ ~Missing(elems, Live(n)) /\ k.call.op = "addattr"
             /\ elems' = Reattributed(elems, Live(n), k.attrs)
             /\ overlaid' = IF e.attrs = k.held THEN overlaid ELSE overlaid \cup {n}
    <2>1. elems' = Changed(elems, Live(n), x) /\ IsElem(x)
      BY <1>5, <1>6, <1>9
    <2>2. /\ \A m \in Names : m # n => elems'[Live(m)] = elems[Live(m)]
          /\ \A d \in ToSet(elems'[Live(n)]) : d \in ToSet(elems[Live(n)]) \/ d = x
      BY <1>2, <1>9, <2>1, ChangedFacts, NamesFacts
    <2>3. Clean(x.attrs)
      BY <1>5, <1>7, <1>9
    <2>4. n \notin overlaid' => Fits(x)
      <3> SUFFICES ASSUME n \notin overlaid' PROVE Fits(x)
        OBVIOUS
      <3>1. n \notin overlaid /\ e.attrs = k.held
        BY <1>9
      <3>2. Like(x.attrs, e.attrs) /\ x.value = e.value /\ Fits(e)
        BY <1>4, <1>5, <1>7, <1>9, <3>1
      <3> QED
        BY <3>2 DEF Fits, Like
    <2>5. overlaid \subseteq overlaid'
      BY <1>9
    <2> QED
      BY <1>1, <1>3, <2>2, <2>3, <2>4, <2>5, FitFacts, CleanNone, ReadStep DEF k, s
  <1>10. CASE /\ ~Missing(elems, Live(n))
              /\ elems' = Relisted(elems, Live(n), k.subs) /\ UNCHANGED overlaid
    <2>1. elems' = Changed(elems, Live(n), y) /\ IsElem(y)
      BY <1>5, <1>6, <1>10
    <2>2. /\ \A m \in Names : m # n => elems'[Live(m)] = elems[Live(m)]
          /\ \A d \in ToSet(elems'[Live(n)]) : d \in ToSet(elems[Live(n)]) \/ d = y
      BY <1>2, <1>10, <2>1, ChangedFacts, NamesFacts
    <2>3. Clean(y.attrs) /\ (n \notin overlaid => Fits(y))
      BY <1>4, <1>5, <1>10 DEF Fits
    <2> QED
      BY <1>1, <1>3, <1>10, <2>2, <2>3, FitFacts, CleanNone, ReadStep DEF k, s
  <1> QED
    BY <1>1, <1>8, <1>9, <1>10

LEMMA UnlistRead ==
    ASSUME TypeInv, ReadInv, NEW t \in Threads, Unlist(t)
    PROVE  ReadInv'
  <1> DEFINE k    == task[t]
             s    == task'[t]
             n    == k.at
             e    == Found(elems, Live(n))
             subs == Erase(e.subs, k.call.arg)
             one  == <<k.call.arg>>
             y    == WithSubs(e, subs)
  <1>1. /\ k.pc = "unlist" /\ Others(t) /\ UNCHANGED <<use, overlaid>>
        /\ \/ UNCHANGED elems /\ s = Idle
           \/ /\ ~Missing(elems, Live(n)) /\ elems' = Relisted(elems, Live(n), subs)
              /\ s = WithPcDoomed(k, n, "below", one)
    BY UnlistEffect, Zenon DEF UnlistDoes
  <1>2. n \in Names /\ Live(n) \in Keys /\ StoreOK(elems) /\ k.call.arg \in Names
    BY <1>1, TaskFacts, NamesFacts DEF TypeInv, TaskOK, WithArg
  <1>3. s.attrs \in {k.attrs, NoAttrs} /\ s.pc \in {"below", "idle"}
    <2> HIDE DEF k, s, n, one
    <2> QED
      BY <1>1, FitFacts DEF WithPcDoomed
  <1>4. ~Missing(elems, Live(n)) => /\ IsElem(e) /\ Clean(e.attrs)
                                    /\ n \notin overlaid => Fits(e)
    BY <1>2, FoundFacts DEF ReadInv, LiveFit
  <1> HIDE DEF k, s, n, one
  <1>5. ~Missing(elems, Live(n)) => Relisted(elems, Live(n), subs) = Changed(elems, Live(n), y)
    <2> HIDE DEF subs
    <2> QED
      BY <1>2, ChangedParts
  <1> HIDE DEF e
  <1>6. ~Missing(elems, Live(n)) => IsElem(y) /\ y.attrs = e.attrs /\ y.value = e.value
    <2>1. ~Missing(elems, Live(n)) => subs \in Seq(Names) /\ Ascending(subs)
      <3>1. Names \in SUBSET Nat
        BY NamesFacts
      <3>2. IsElem(e) => e.subs \in Seq(Names) /\ Ascending(e.subs)
        BY DEF IsElem
      <3> QED
        BY <1>2, <1>4, <3>1, <3>2, EraseKeepsOrder
    <2> HIDE DEF subs
    <2> QED
      BY <1>4, <2>1, PartsElem
  <1> HIDE DEF subs, y
  <1>7. CASE UNCHANGED elems
    BY <1>1, <1>3, <1>7, FitFacts, CleanNone, ReadKept DEF k, s
  <1>8. CASE ~Missing(elems, Live(n)) /\ elems' = Relisted(elems, Live(n), subs)
    <2>1. elems' = Changed(elems, Live(n), y) /\ IsElem(y)
      BY <1>5, <1>6, <1>8
    <2>2. /\ \A m \in Names : m # n => elems'[Live(m)] = elems[Live(m)]
          /\ \A d \in ToSet(elems'[Live(n)]) : d \in ToSet(elems[Live(n)]) \/ d = y
      <3>1. ~Missing(elems, Live(n)) /\ StoreOK(elems) /\ Live(n) \in Keys
        BY <1>2, <1>8
      <3>2. \A m \in Names : m # n => Live(m) \in Keys \ {Live(n)}
        BY <1>2, NamesFacts
      <3> QED
        BY <2>1, <3>1, <3>2, ChangedFacts
    <2>3. Clean(y.attrs) /\ (n \notin overlaid => Fits(y))
      BY <1>4, <1>6, <1>8 DEF Fits
    <2> QED
      BY <1>1, <1>3, <2>2, <2>3, FitFacts, CleanNone, ReadStep DEF k, s
  <1> QED
    BY <1>1, <1>7, <1>8

LEMMA MoveRead ==
    ASSUME TypeInv, ReadInv, NEW t \in Threads, Move(t)
    PROVE  ReadInv'
  <1> DEFINE k    == task[t]
             s    == task'[t]
             e    == Found(elems, Live(k.at))
             held == WithPast(e, <<>>)
  <1>1. /\ k.pc = "move" /\ Others(t) /\ UNCHANGED <<use, overlaid>>
        /\ \/ UNCHANGED elems /\ s = Idle
           \/ /\ ~Missing(elems, Live(k.at)) /\ elems' = Take(elems, Live(k.at))
              /\ s = WithPcHeld(k, k.at, "moved", held)
    BY MoveEffect, Zenon DEF MoveDoes
  <1>2. k.at \in Names /\ Live(k.at) \in Keys /\ StoreOK(elems)
    BY <1>1, TaskFacts DEF TypeInv
  <1>3. ~Missing(elems, Live(k.at)) => Clean(e.attrs) /\ (k.at \notin overlaid => Fits(e))
    BY <1>2, FoundFacts DEF ReadInv, LiveFit
  <1>4. held.attrs = e.attrs /\ held.value = e.value
    BY DEF WithPast
  <1> HIDE DEF k, s, e, held
  <1>5. \A m \in Names : ToSet(elems'[Live(m)]) \subseteq ToSet(elems[Live(m)])
    BY <1>1, <1>2, TakeFacts, NamesFacts
  <1>6. /\ s.attrs \in {k.attrs, NoAttrs} /\ s.pc \in {"idle", "moved"}
        /\ s.pc = "moved" => s.held = held /\ s.at = k.at /\ ~Missing(elems, Live(k.at))
    BY <1>1, FitFacts DEF WithPcHeld
  <1>7. ~Missing(elems, Live(k.at)) => Clean(held.attrs) /\ (k.at \notin overlaid => Fits(held))
    BY <1>3, <1>4 DEF Fits
  <1> QED
    BY <1>1, <1>5, <1>6, <1>7, FitFacts, CleanNone, ReadKept DEF k, s

\* The new name is as overlaid as the old one.
LEMMA MovedRead ==
    ASSUME TypeInv, ReadInv, NEW t \in Threads, Moved(t)
    PROVE  ReadInv'
  <1> DEFINE k    == task[t]
             s    == task'[t]
             new  == k.call.arg
             none == <<>>
             one  == <<Rename(Live(k.at), Live(new), NoAttrs)>>
  <1>1. /\ k.pc = "moved" /\ use' = use /\ Others(t)
        /\ elems' = Put(elems, Live(new), k.held)
        /\ overlaid' = BothNames(overlaid, k.at, new)
        /\ s = WithMoved(k, new, "below", none, one)
    BY MovedEffect, Zenon DEF MovedDoes
  <1>2. /\ new \in Names /\ Live(new) \in Keys /\ StoreOK(elems) /\ IsElem(k.held)
    BY <1>1, TaskFacts, NamesFacts DEF TypeInv, TaskOK, WithArg
  <1>3. Clean(k.held.attrs) /\ (k.at \notin overlaid => Fits(k.held))
    BY <1>1, FitFacts DEF TaskFit
  <1> HIDE DEF k, s, new, none, one
  <1>4. \A m \in Names : \A d \in ToSet(elems'[Live(m)]) :
            d \in ToSet(elems[Live(m)]) \/ (m = new /\ d = k.held)
    BY <1>1, <1>2, PutFacts, NamesFacts
  <1>5. overlaid \subseteq overlaid' /\ (new \notin overlaid' => k.at \notin overlaid)
    BY <1>1 DEF BothNames
  <1>6. s.attrs = k.attrs /\ s.pc = "below"
    BY <1>1 DEF WithMoved
  <1> QED
    BY <1>1, <1>3, <1>4, <1>5, <1>6, FitFacts, ReadStep DEF k, s

LEMMA InitRead ==
    ASSUME Init, OneEncryption(use)
    PROVE  ReadInv
  <1>1. use \in Uses /\ overlaid = {} /\ task = [t \in Threads |-> Idle]
        /\ elems = [k \in Keys |-> IF k[2] = 0 /\ k[1] \in DOMAIN use.start
                                   THEN <<WithPast(use.start[k[1]], <<>>)>> ELSE <<>>]
    BY DEF Init
  <1>2. \A t \in Threads : TaskFit(task[t])
    BY <1>1, CleanNone DEF TaskFit, Idle
  <1>3. ASSUME NEW n \in Names, NEW e \in ToSet(elems[Live(n)])
        PROVE  Clean(e.attrs) /\ Fits(e)
    <2> DEFINE x == WithPast(use.start[n], <<>>)
    <2>1. elems[Live(n)] = IF n \in DOMAIN use.start THEN <<x>> ELSE <<>>
      <3>1. Live(n) \in Keys /\ Live(n)[1] = n /\ Live(n)[2] = 0
        BY NamesFacts
      <3> QED
        BY <1>1, <3>1
    <2>2. x.attrs = use.start[n].attrs /\ x.value = use.start[n].value
      BY DEF WithPast
    <2> HIDE DEF x
    <2>3. n \in DOMAIN use.start /\ e = x
      BY <2>1, ListOne, ListEmpty
    <2>4. /\ DOMAIN x.attrs \cap {"uniqid", "parentuniqid", "hismark"} = {}
          /\ x.value.type = "plain" /\ x.value.pass = NoPass /\ ~IsValueEncrypted(x.attrs)
      BY <1>1, <2>2, <2>3, UsesAssumption
    <2>5. DOMAIN x.attrs \cap EncTypes = {}
      BY <2>4 DEF IsValueEncrypted, HasAttr
    <2> QED
      BY <2>3, <2>4, <2>5 DEF Clean, Fits
  <1> QED
    BY <1>2, <1>3 DEF ReadInv, LiveFit

LEMMA StandRead ==
    ASSUME ReadInv, UNCHANGED <<use, elems, overlaid, task>>
    PROVE  ReadInv'
  BY DEF ReadInv, OneEncryption, LiveFit, TaskFit, Clean, Fits

LEMMA NextRead ==
    ASSUME TypeInv, ReadInv, [Next]_vars
    PROVE  ReadInv'
  <1>1. CASE UNCHANGED vars
    BY <1>1, StandRead DEF vars
  <1>2. CASE Tick
    BY <1>2, StandRead DEF Tick
  <1>3. CASE Finished
    BY <1>3, StandRead DEF Finished, vars
  <1>4. CASE \E t \in Threads : AddPass(t)
    BY <1>4, StandRead DEF AddPass
  <1>5. ASSUME NEW t \in Threads, Calls(t)
        PROVE  ReadInv'
    BY <1>5, BeginsRead
  <1>6. ASSUME NEW t \in Threads, Acts(t)
        PROVE  ReadInv'
    BY <1>6, GetTrialRead, ReadSubsRead, ReadAttrsRead, TakeOldRead, ShelveRead, ShelvedRead,
       InsertNewRead, BelowRead, PutStackRead, ReplacedRead, UnlistRead, MoveRead, MovedRead
    DEF Acts
  <1> QED
    BY <1>1, <1>2, <1>3, <1>4, <1>5, <1>6 DEF Next, Calls, Acts

\* What fits is read as it was set.
LEMMA ReadsBack ==
    ASSUME TypeInv, ReadInv
    PROVE  ReadableAsSet
  <1> SUFFICES ASSUME NEW n \in Names \ overlaid, ~Missing(elems, Live(n)),
                      ~IsExpire(Found(elems, Live(n)).attrs, now), NEW t \in Threads,
                      NEW pass \in {NoPass, Found(elems, Live(n)).value.pass},
                      \/ pass = Found(elems, Live(n)).value.pass
                      \/ Found(elems, Live(n)).value.pass \in packs[t].passes
               PROVE  Get(packs[t], elems, n, pass) = Found(elems, Live(n)).value.text
    BY Zenon DEF ReadableAsSet
  <1> DEFINE e == Found(elems, Live(n))
             p == packs[t]
  <1>1. e \in ToSet(elems[Live(n)])
    BY NamesFacts, FoundFacts DEF TypeInv
  <1>2. Clean(e.attrs) /\ Fits(e)
    BY <1>1 DEF ReadInv, LiveFit
  <1>3. use.settings[t].type \in EncTypes
    BY UsesAssumption DEF TypeInv, Bounds
  <1>4. Get(p, elems, n, pass) = GetDecryptValue(p, e.attrs, e.value, pass)
    <2>1. ~IsHistory(e.attrs)
      BY <1>2 DEF IsHistory, HasAttr, Clean
    <2> QED
      BY <2>1, Zenon DEF Get
  <1>5. /\ pass \in {NoPass, e.value.pass}
        /\ pass = e.value.pass \/ e.value.pass \in p.passes
    OBVIOUS
  <1> HIDE DEF e, p
  <1>6. CASE e.value.pass = NoPass
    <2>1. e.value.type = "plain" /\ ~IsValueEncrypted(e.attrs)
      BY <1>2, <1>6 DEF Fits, IsValueEncrypted, HasAttr
    <2>2. GetDecryptValue(p, e.attrs, e.value, pass) = e.value.text
      BY <2>1, Zenon DEF GetDecryptValue
    <2> QED
      BY <1>4, <2>2 DEF e, p
  <1>7. CASE e.value.pass # NoPass
    <2>1. /\ e.value.type \in DOMAIN e.attrs \cap EncTypes
          /\ e.attrs[e.value.type] = e.value.pass
      BY <1>2, <1>7 DEF Fits
    <2>2. IsValueEncrypted(e.attrs)
      BY <2>1 DEF IsValueEncrypted, HasAttr
    <2>3. GetEncryptType(e.attrs) = e.value.type
      BY <1>2, <1>3, <2>1 DEF GetEncryptType, HasAttr, Clean, EncTypes
    <2>4. GetEncryptKeyMd5(e.attrs) = e.value.pass
      BY <2>1, <2>3 DEF GetEncryptKeyMd5, GetAttr
    <2>5. Decrypt(e.value, e.value.pass, e.value.type) = e.value.text
      BY DEF Decrypt
    <2>6. e.value.pass = pass \/ (pass = NoPass /\ e.value.pass \in p.passes)
      BY <1>5
    <2>7. GetDecryptValue(p, e.attrs, e.value, pass) = e.value.text
      BY <2>2, <2>3, <2>4, <2>5, <2>6, Zenon DEF GetDecryptValue
    <2> QED
      BY <1>4, <2>7 DEF e, p
  <1> QED
    BY <1>6, <1>7

\* Where all processes encrypt in the same way, whatever was set can be read with the
\* password it was set with, and by a process that knows that one, however the calls
\* interleave; but for the names over whose attributes AddAttr has put older ones.
THEOREM ReadableAsSetHolds ==
    ASSUME \A u \in Uses : OneEncryption(u)
    PROVE  Spec => []ReadableAsSet
  <1>1. Init => TypeInv /\ ReadInv
    <2>1. Init => OneEncryption(use)
      BY DEF Init
    <2> QED
      BY <2>1, InitType, InitRead
  <1>2. TypeInv /\ ReadInv /\ [Next]_vars => (TypeInv /\ ReadInv)'
    BY NextType, NextRead
  <1>3. TypeInv /\ ReadInv => ReadableAsSet
    BY ReadsBack
  <1> QED
    BY <1>1, <1>2, <1>3, PTL DEF Spec

\* Facts about unique ids.
LEMMA UidFacts ==
    ASSUME TypeInv, OneInv
    PROVE  /\ nextUid \in 1 .. MaxUid + 1 /\ MaxUid \in Nat
           /\ \A n \in Names : /\ Missing(elems, Live(n)) <=> Uids(n) = {}
                               /\ Uids(n) \subseteq 0 .. nextUid - 1
  <1>1. nextUid \in 1 .. MaxUid + 1 /\ MaxUid \in Nat
    BY NamesFacts DEF TypeInv, Bounds
  <1>2. ASSUME NEW n \in Names PROVE Missing(elems, Live(n)) <=> Uids(n) = {}
    <2>1. IsList(elems[Live(n)])
      BY NamesFacts DEF TypeInv, StoreOK
    <2>2. elems[Live(n)] = <<>> <=> ToSet(elems[Live(n)]) = {}
      BY <2>1, ListMembers
    <2> QED
      BY <2>2 DEF Missing, Uids
  <1> QED
    BY <1>1, <1>2 DEF OneInv, Given

\* A step changes nothing at the names of others that are not shared after it.
LEMMA StepApart ==
    ASSUME OneInv, NEW t \in Threads, NEW n, Step(t, n), NEW s \in Threads \ {t},
           NEW m \in Names, m \in task[s].used, m \notin shared'
    PROVE  /\ m # n \/ (elems' = elems /\ task'[t].pc \notin {"shelved", "moved"})
           /\ m \notin shared /\ task'[s] = task[s]
           /\ elems'[Live(m)] = elems[Live(m)] /\ Uids(m)' = Uids(m)
           /\ (Missing(elems, Live(m)) <=> Missing(elems', Live(m)))
  <1>1. /\ m # n \/ (elems' = elems /\ task'[t].pc \notin {"shelved", "moved"})
        /\ m \notin shared /\ task'[s] = task[s] /\ elems'[Live(m)] = elems[Live(m)]
    BY DEF Step, StepJoins, StepElems, Others
  <1> QED
    BY <1>1 DEF Uids, Missing

\* Where only the element of m has a unique id, that stays so.
LEMMA OnlyKept ==
    ASSUME TypeInv, OneInv, NEW t \in Threads, NEW n, Step(t, n), NEW m \in Names,
           NEW v \in 1 .. nextUid - 1, NEW S \in SUBSET Threads, t \in S, Only(m, v, S),
           task'[t].pc \in {"shelved", "moved"} => n # m
    PROVE  Only(m, v, S)'
  <1> DEFINE k == task[t]
             j == task'[t]
  <1>1. /\ n \in Names /\ nextUid \in 1 .. MaxUid + 1 /\ MaxUid \in Nat
        /\ \A x \in Names : Uids(x) \subseteq 0 .. nextUid - 1
    BY UidFacts DEF Step, StepJoins
  <1>2. v \in 1 .. MaxUid /\ v # 0 /\ v \notin nextUid .. nextUid' - 1
    BY <1>1
  <1>3. /\ \A x \in Names : elems[MakeHistoryKey(x, v)] = <<>>
        /\ \A x \in Names \ {m} : v \notin Uids(x)
        /\ k.pc = "shelved" => k.puid # v
        /\ k.pc = "moved" => HeldUid(k) # v
        /\ ReadUid(k) = v => k.at = m
    BY DEF Only, Elsewhere
  <1>4. StepElems(t, n, k) /\ StepTask(t, n, k, j)
    BY DEF Step
  <1> HIDE DEF k, j
  <1>5. ASSUME NEW x \in Names PROVE elems'[MakeHistoryKey(x, v)] = <<>>
    BY <1>2, <1>3, <1>4 DEF StepElems
  <1>6. ASSUME NEW x \in Names \ {m} PROVE v \notin Uids(x)'
    <2>1. CASE x # n
      <3>1. elems'[Live(x)] = elems[Live(x)]
        BY <1>4, <2>1 DEF StepElems
      <3> QED
        BY <1>3, <3>1 DEF Uids
    <2>2. CASE x = n
      BY <1>2, <1>3, <1>4, <2>2 DEF StepElems
    <2> QED
      BY <2>1, <2>2
  <1>7. Elsewhere(j, m, v)
    <2>1. j.pc = "shelved" => j.puid # v
      BY <1>1, <1>2, <1>3, <1>4 DEF StepTask, j
    <2>2. j.pc = "moved" => HeldUid(j) # v
      BY <1>1, <1>2, <1>3, <1>4 DEF StepTask, j
    <2>3. ASSUME ReadUid(j) = v PROVE j.at = m
      <3>1. (ReadUid(j) = ReadUid(k) /\ j.at = k.at) \/ ReadUid(j) \in Uids(j.at)
        BY <1>2, <1>4, <2>3 DEF StepTask
      <3>2. j.at \in Names
        <4>1. j.at \in j.used
          BY <1>2, <1>4, <2>3 DEF StepTask, OneTask, ReadUid, j
        <4>2. j.used \subseteq Names
          BY TaskFacts DEF j, Step, StepJoins, TaskOK
        <4> QED
          BY <4>1, <4>2
      <3> QED
        BY <1>3, <2>3, <3>1, <3>2
    <2> QED
      BY <2>1, <2>2, <2>3 DEF Elsewhere
  <1>8. ASSUME NEW s \in S PROVE Elsewhere(task'[s], m, v)
    <2>1. CASE s = t
      BY <1>7, <2>1 DEF j
    <2>2. CASE s # t
      BY <2>2 DEF Step, StepJoins, Others, Only
    <2> QED
      BY <2>1, <2>2
  <1>9. \A s : Elsewhere(task[s], m, v)' <=> Elsewhere(task'[s], m, v)
    BY DEF Elsewhere, ReadUid, HeldUid
  <1> QED
    BY <1>5, <1>6, <1>8, <1>9 DEF Only

\* The parts of the invariant after a step, but for that of the steps' unique ids.
LEMMA StepShape ==
    ASSUME TypeInv, OneInv, NEW t \in Threads, NEW n, Step(t, n)
    PROVE  FreeNames(use)' /\ OneTasks' /\ Given' /\ Exclusive' /\ LiveOne' /\ Empties'
  <1> DEFINE k == task[t]
             j == task'[t]
  <1>1. /\ StepJoins(t, n) /\ StepElems(t, n, k) /\ StepTask(t, n, k, j)
        /\ use' = use /\ packs' = packs /\ n \in Names
        /\ nextUid <= nextUid' /\ nextUid' \in 1 .. MaxUid + 1 /\ nextUid \in 1 .. MaxUid + 1
        /\ MaxUid \in Nat
        /\ \A x \in Names : Uids(x) \subseteq 0 .. nextUid - 1
    BY UidFacts DEF Step, StepJoins, StepElems
  <1>2. \A s \in Threads \ {t} : task'[s] = task[s]
    BY <1>1 DEF StepJoins, Others
  <1>3. FreeNames(use)'
    BY <1>1 DEF OneInv, FreeNames
  <1>4. OneTasks'
    <2>1. ASSUME NEW s \in Threads \ {t} PROVE OneTask(task[s], s)'
      <3>1. OneTask(task[s], s)
        BY DEF OneInv, OneTasks
      <3>2. 0 .. nextUid - 1 \subseteq 0 .. nextUid' - 1
        <4>1. nextUid \in Int /\ nextUid' \in Int /\ nextUid <= nextUid'
          BY <1>1
        <4> QED
          BY <4>1, RangeGrows
      <3> QED
        BY <1>1, <1>2, <3>1, <3>2 DEF OneTask, ReadUid, HeldUid
    <2>2. OneTask(task[t], t)'
      BY <1>1 DEF StepTask
    <2> QED
      BY <2>1, <2>2 DEF OneTasks
  <1>5. k.puid \in 0 .. nextUid - 1 /\ ReadUid(k) \in 0 .. nextUid - 1
        /\ (k.pc = "moved" => HeldUid(k) \in 0 .. nextUid - 1)
    BY DEF OneInv, OneTasks, OneTask
  <1> HIDE DEF k, j
  <1>6. Given'
    <2>1. ASSUME NEW x \in Names, NEW v \in Uids(x)' PROVE v \in 0 .. nextUid' - 1
      <3>1. CASE x # n
        <4>1. v \in Uids(x)
          BY <1>1, <3>1 DEF StepElems, Uids
        <4> QED
          BY <1>1, <4>1
      <3>2. CASE x = n
        <4>1. v = 0 \/ v \in 0 .. nextUid - 1 \/ v \in nextUid .. nextUid' - 1
          BY <1>1, <1>5, <3>2 DEF StepElems
        <4> QED
          BY <1>1, <4>1
      <3> QED
        BY <3>1, <3>2
    <2>2. ASSUME NEW x \in Names, NEW v \in 1 .. MaxUid, elems'[MakeHistoryKey(x, v)] # <<>>
          PROVE  v < nextUid'
      <3>1. elems[MakeHistoryKey(x, v)] # <<>> \/ v = k.puid
        BY <1>1, <2>2 DEF StepElems
      <3>2. elems[MakeHistoryKey(x, v)] # <<>> => v < nextUid
        BY DEF OneInv, Given
      <3> QED
        BY <1>1, <1>5, <3>1, <3>2
    <2> QED
      BY <2>1, <2>2 DEF Given
  <1>7. Exclusive'
    <2>1. ASSUME NEW s \in Threads \ {t} PROVE task'[s].used \cap task'[t].used \subseteq shared'
      <3>1. task[s].used \cap task[t].used \subseteq shared
        BY DEF OneInv, Exclusive
      <3> QED
        BY <1>1, <1>2, <3>1 DEF StepJoins
    <2>2. ASSUME NEW s \in Threads \ {t}, NEW r \in Threads \ {t}, s # r
          PROVE  task'[s].used \cap task'[r].used \subseteq shared'
      <3>1. task[s].used \cap task[r].used \subseteq shared
        BY <2>2 DEF OneInv, Exclusive
      <3> QED
        BY <1>1, <1>2, <3>1 DEF StepJoins
    <2> QED
      BY <2>1, <2>2 DEF Exclusive
  <1>8. LiveOne'
    BY <1>1 DEF OneInv, LiveOne, StepElems
  <1>9. Empties'
    <2>1. Emptied(task[t])' /\ AsRead(task[t])'
      BY <1>1 DEF StepTask
    <2>2. ASSUME NEW s \in Threads \ {t} PROVE Emptied(task[s])' /\ AsRead(task[s])'
      <3> DEFINE a == task[s]
      <3>1. OneTask(a, s) /\ Emptied(a) /\ AsRead(a) /\ TaskOK(a, packs[s].history)
        BY TaskFacts DEF OneInv, OneTasks, Empties
      <3>2. task'[s] = a /\ a.used \subseteq Names
        BY <1>2, <3>1 DEF TaskOK
      <3>3. \A m \in a.used \ shared' :
                m \notin shared /\ Uids(m)' = Uids(m)
                /\ (Missing(elems, Live(m)) <=> Missing(elems', Live(m)))
        BY <3>2, StepApart
      <3> HIDE DEF a
      <3>4. /\ a.pc \in {"insert", "moved"} /\ a.at \notin shared' => Missing(elems', Live(a.at))
            /\ a.pc = "shelved" /\ a.old \notin shared' => Missing(elems', Live(a.old))
        BY <3>1, <3>3 DEF OneTask, Emptied
      <3>5. ASSUME a.pc \in {"take", "replace"}, ReadUid(a) # 0, a.at \notin shared'
            PROVE  ReadUid(a) \in {GetUniqId(e.attrs) : e \in ToSet(elems'[Live(a.at)])}
        <4>1. a.at \in a.used
          BY <3>1, <3>5 DEF OneTask
        <4> QED
          BY <3>1, <3>3, <3>5, <4>1 DEF AsRead, Uids
      <3>6. Emptied(task[s])'
        BY <3>2, <3>4 DEF Emptied, Missing
      <3>7. AsRead(task[s])'
        BY <3>2, <3>5 DEF AsRead, ReadUid, Uids
      <3> QED
        BY <3>6, <3>7
    <2> QED
      BY <2>1, <2>2 DEF Empties
  <1> QED
    BY <1>3, <1>4, <1>6, <1>7, <1>8, <1>9

\* The name that a Rename in progress goes to is made by no other call.
LEMMA StepRenames ==
    ASSUME TypeInv, OneInv, NEW t \in Threads, NEW n, Step(t, n)
    PROVE  RenamesFree'
  <1> DEFINE k == task[t]
             j == task'[t]
  <1>1. /\ StepJoins(t, n) /\ StepElems(t, n, k) /\ StepTask(t, n, k, j)
        /\ n \in Names /\ \A s \in Threads \ {t} : task'[s] = task[s]
    BY DEF Step, StepJoins, Others
  <1>2. ASSUME NEW s \in Threads, Renaming(task[s]), k.pc = "moved" => s # t
        PROVE  Missing(elems', Live(task[s].call.arg))
    <2> DEFINE c == task[s].call
    <2>1. /\ Missing(elems, Live(c.arg)) /\ c \in use.calls[s] /\ c.op = "rename"
          /\ c.arg \in Names
      <3>1. TaskOK(task[s], packs[s].history) /\ OneTask(task[s], s)
        BY TaskFacts DEF OneInv, OneTasks
      <3>2. Missing(elems, Live(c.arg))
        BY <1>2 DEF OneInv, RenamesFree
      <3> QED
        BY <1>2, <3>1, <3>2 DEF TaskOK, OneTask, Renaming, WithArg
    <2>2. k.pc = "insert" => c.arg # k.at
      <3> SUFFICES ASSUME k.pc = "insert" PROVE c.arg # k.at
        OBVIOUS
      <3>1. OneTask(k, t)
        BY DEF OneInv, OneTasks
      <3>2. k.call \in use.calls[t] /\ c.arg \notin Made(k.call)
        BY <2>1, <3>1 DEF OneTask, OneInv, FreeNames
      <3> HIDE DEF k, c
      <3> QED
        BY <3>1, <3>2 DEF OneTask, Made, NotMaking
    <2>3. k.pc = "moved" => c.arg # k.call.arg
      BY <1>2 DEF OneInv, RenamesFree, Renaming
    <2> HIDE DEF k, j, c
    <2> QED
      BY <1>1, <2>1, <2>2, <2>3 DEF StepElems, Missing, c
  <1>3. Renaming(j) => Missing(elems', Live(j.call.arg))
    BY <1>1, <1>2 DEF StepTask, Renaming
  <1>4. ASSUME NEW s \in Threads \ {t}, Renaming(task[s])
        PROVE  /\ Missing(elems', Live(task[s].call.arg))
               /\ Renaming(j) => task[s].call.arg # j.call.arg
    <2>1. Renaming(k) => task[s].call.arg # k.call.arg
      BY <1>4 DEF OneInv, RenamesFree
    <2> QED
      BY <1>1, <1>2, <1>4, <2>1 DEF StepTask, Renaming
  <1>5. \A s, r \in Threads : s # r /\ Renaming(task[s]) /\ Renaming(task[r]) =>
            task[s].call.arg # task[r].call.arg
    BY DEF OneInv, RenamesFree
  <1>6. \A s \in Threads : Renaming(task[s])' <=> Renaming(task'[s])
    BY DEF Renaming
  <1> QED
    BY <1>1, <1>3, <1>4, <1>5, <1>6 DEF RenamesFree, Missing

\* A unique id given in this step is nowhere else.
LEMMA StepFresh ==
    ASSUME TypeInv, OneInv, NEW t \in Threads, NEW n, Step(t, n),
           NEW v \in nextUid .. nextUid' - 1, task'[t].pc \notin {"shelved", "moved"}
    PROVE  Only(n, v, Threads)'
  <1> DEFINE k == task[t]
             j == task'[t]
  <1>1. /\ StepJoins(t, n) /\ StepElems(t, n, k) /\ StepTask(t, n, k, j)
        /\ n \in Names /\ nextUid \in 1 .. MaxUid + 1 /\ nextUid' \in 1 .. MaxUid + 1
        /\ MaxUid \in Nat
        /\ \A x \in Names : Uids(x) \subseteq 0 .. nextUid - 1
        /\ \A s \in Threads \ {t} : task'[s] = task[s]
    BY UidFacts DEF Step, StepJoins, StepElems, Others
  <1>2. v \in 1 .. MaxUid /\ v \notin 0 .. nextUid - 1 /\ v # 0 /\ ~ (v < nextUid)
    BY <1>1
  <1>3. \A s \in Threads : OneTask(task[s], s)
    BY DEF OneInv, OneTasks
  <1>4. ASSUME NEW x \in Names PROVE elems'[MakeHistoryKey(x, v)] = <<>>
    <2>1. elems[MakeHistoryKey(x, v)] = <<>>
      BY <1>2 DEF OneInv, Given
    <2>2. v # k.puid
      BY <1>2, <1>3 DEF OneTask
    <2> QED
      BY <1>1, <1>2, <2>1, <2>2 DEF StepElems
  <1>5. ASSUME NEW x \in Names \ {n} PROVE v \notin Uids(x)'
    <2>1. Uids(x)' = Uids(x)
      BY <1>1 DEF StepElems, Uids
    <2> QED
      BY <1>1, <1>2, <2>1
  <1>6. ASSUME NEW s \in Threads \ {t} PROVE Elsewhere(task'[s], n, v)
    BY <1>1, <1>2, <1>3 DEF OneTask, Elsewhere
  <1>7. Elsewhere(j, n, v)
    <2>1. ReadUid(j) # v
      <3> SUFFICES ASSUME ReadUid(j) = v PROVE FALSE
        OBVIOUS
      <3>1. ReadUid(k) \in 0 .. nextUid - 1
        BY <1>3 DEF OneTask
      <3>2. ReadUid(j) \in Uids(j.at)
        BY <1>1, <1>2, <3>1 DEF StepTask
      <3>3. j.at \in j.used
        BY <1>1, <1>2 DEF StepTask, OneTask, ReadUid
      <3>4. j.used \subseteq Names
        BY <1>1, TaskFacts DEF StepJoins, TaskOK
      <3> QED
        BY <1>1, <1>2, <3>2, <3>3, <3>4
    <2> QED
      BY <2>1 DEF Elsewhere
  <1>8. \A s : Elsewhere(task[s], n, v)' <=> Elsewhere(task'[s], n, v)
    BY DEF Elsewhere, ReadUid, HeldUid
  <1> QED
    BY <1>4, <1>5, <1>6, <1>7, <1>8 DEF Only

\* What a Rename has moved has its unique id alone.
LEMMA StepMoved ==
    ASSUME TypeInv, OneInv, NEW t \in Threads, NEW n, Step(t, n), task[t].pc = "moved",
           n = task[t].call.arg, n \notin shared', NEW v, v = HeldUid(task[t]), v # 0,
           task'[t].pc \notin {"shelved", "moved"}
    PROVE  Only(n, v, Threads)'
  <1> DEFINE k == task[t]
             j == task'[t]
  <1>1. /\ StepJoins(t, n) /\ StepElems(t, n, k) /\ StepTask(t, n, k, j)
        /\ n \in Names /\ nextUid \in 1 .. MaxUid + 1 /\ MaxUid \in Nat
        /\ \A s \in Threads \ {t} : task'[s] = task[s]
        /\ \A x \in Names : Missing(elems, Live(x)) <=> Uids(x) = {}
    BY UidFacts DEF Step, StepJoins, Others
  <1>2. OneTask(k, t) /\ OnlyTask(t) /\ Emptied(k) /\ TaskOK(k, packs[t].history)
    BY TaskFacts DEF OneInv, OneTasks, OnlyTasks, Empties
  <1>3. k.at \notin shared /\ k.at \in k.used /\ k.at \in Names
    BY <1>1, <1>2 DEF StepJoins, OneTask, TaskOK
  <1>4. v \in 1 .. MaxUid /\ v # 0
    BY <1>1, <1>2 DEF OneTask
  <1>5. Only(k.at, v, Threads \ {t})
    BY <1>2, <1>3 DEF OnlyTask
  <1>6. Uids(k.at) = {}
    BY <1>1, <1>2, <1>3 DEF Emptied
  <1>7. ASSUME NEW x \in Names PROVE elems'[MakeHistoryKey(x, v)] = <<>>
    <2>1. elems'[MakeHistoryKey(x, v)] = elems[MakeHistoryKey(x, v)]
      BY <1>1, <1>4 DEF StepElems
    <2> QED
      BY <1>5, <2>1 DEF Only
  <1>8. ASSUME NEW x \in Names \ {n} PROVE v \notin Uids(x)'
    <2>1. Uids(x)' = Uids(x)
      BY <1>1 DEF StepElems, Uids
    <2> QED
      BY <1>5, <1>6, <2>1 DEF Only
  <1>9. ASSUME NEW s \in Threads \ {t} PROVE Elsewhere(task'[s], n, v)
    <2>1. Elsewhere(task[s], k.at, v)
      BY <1>5 DEF Only
    <2>2. ReadUid(task[s]) # v
      <3> SUFFICES ASSUME ReadUid(task[s]) = v PROVE FALSE
        OBVIOUS
      <3>1. task[s].at = k.at
        BY <2>1 DEF Elsewhere
      <3>2. OneTask(task[s], s)
        BY DEF OneInv, OneTasks
      <3>3. k.at \in task[s].used
        BY <1>4, <3>1, <3>2 DEF OneTask
      <3>4. task[s].used \cap k.used \subseteq shared
        BY DEF OneInv, Exclusive
      <3> QED
        BY <1>3, <3>3, <3>4
    <2> HIDE DEF k
    <2> QED
      BY <1>1, <2>1, <2>2 DEF Elsewhere
  <1>10. ReadUid(j) # v
    <2>1. k.call.op = "rename"
      BY <1>2 DEF TaskOK
    <2>2. ReadUid(k) = 0
      BY <1>2, <2>1 DEF OneTask, ReadUid, NoAttrs, GetUniqId, HasAttr
    <2> HIDE DEF k
    <2> QED
      BY <1>1, <1>4, <2>2 DEF StepTask, k
  <1>11. Elsewhere(j, n, v)
    BY <1>10 DEF Elsewhere
  <1>12. \A s : Elsewhere(task[s], n, v)' <=> Elsewhere(task'[s], n, v)
    BY DEF Elsewhere, ReadUid, HeldUid
  <1> QED
    BY <1>7, <1>8, <1>9, <1>11, <1>12 DEF Only

\* Who has a unique id, after a step.
LEMMA StepOnlyLive ==
    ASSUME TypeInv, OneInv, NEW t \in Threads, NEW n, Step(t, n)
    PROVE  OnlyLive'
  <1> SUFFICES ASSUME NEW m \in Names, m \notin shared', NEW v \in Uids(m)', v # 0
               PROVE  Only(m, v, Threads)'
    BY DEF OnlyLive
  <1> DEFINE k == task[t]
             j == task'[t]
  <1>1. /\ StepJoins(t, n) /\ StepElems(t, n, k) /\ StepTask(t, n, k, j)
        /\ n \in Names /\ nextUid \in 1 .. MaxUid + 1 /\ MaxUid \in Nat
        /\ \A x \in Names : Uids(x) \subseteq 0 .. nextUid - 1
        /\ \A s \in Threads \ {t} : task'[s] = task[s]
        /\ m \notin shared
    BY UidFacts DEF Step, StepJoins, Others
  <1>2. OneTask(k, t) /\ OnlyTask(t) /\ Emptied(k) /\ AsRead(k)
    BY DEF OneInv, OneTasks, OnlyTasks, Empties
  <1>3. \A x \in Names : x # n => elems'[Live(x)] = elems[Live(x)] /\ Uids(x)' = Uids(x)
    BY <1>1 DEF StepElems, Uids
  <1>4. m = n => j.pc \notin {"shelved", "moved"}
    <2> SUFFICES ASSUME m = n, Missing(elems', Live(n)) PROVE FALSE
      BY <1>1 DEF StepTask
    <2>1. ToSet(elems'[Live(n)]) = {}
      BY ListEmpty DEF Missing
    <2> QED
      BY <2>1 DEF Uids
  <1>5. CASE v \in Uids(m)
    <2>1. Only(m, v, Threads)
      BY <1>1, <1>5 DEF OneInv, OnlyLive
    <2>2. v \in 1 .. nextUid - 1
      BY <1>1, <1>5
    <2> QED
      BY <1>4, <2>1, <2>2, OnlyKept
  <1>6. CASE m = n /\ v \in nextUid .. nextUid' - 1
    BY <1>6, StepFresh, <1>4
  <1>7. CASE m = n /\ k.pc = "insert" /\ n = k.at /\ v = ReadUid(k) /\ k.puid = 0
    <2>1. Only(m, v, Threads)
      BY <1>1, <1>2, <1>7 DEF OnlyTask
    <2>2. v \in 1 .. nextUid - 1
      BY <1>1, <1>2, <1>7 DEF OneTask
    <2> QED
      BY <1>4, <2>1, <2>2, OnlyKept
  <1>8. CASE m = n /\ k.pc = "replace" /\ n = k.at /\ v = ReadUid(k)
    BY <1>1, <1>2, <1>5, <1>8 DEF AsRead
  <1>9. CASE m = n /\ k.pc = "moved" /\ n = k.call.arg /\ v = HeldUid(k)
    BY <1>9, StepMoved, <1>4
  <1> QED
    BY <1>1, <1>3, <1>5, <1>6, <1>7, <1>8, <1>9 DEF StepElems

LEMMA StepOnlyTasks ==
    ASSUME TypeInv, OneInv, NEW t \in Threads, NEW n, Step(t, n)
    PROVE  OnlyTasks'
  <1> DEFINE k == task[t]
             j == task'[t]
  <1>1. /\ StepJoins(t, n) /\ StepElems(t, n, k) /\ StepTask(t, n, k, j)
        /\ n \in Names /\ nextUid \in 1 .. MaxUid + 1 /\ MaxUid \in Nat
        /\ \A x \in Names : Uids(x) \subseteq 0 .. nextUid - 1
        /\ \A s \in Threads \ {t} : task'[s] = task[s]
        /\ shared \subseteq shared'
    BY UidFacts DEF Step, StepJoins, Others
  <1>2. \A s \in Threads : /\ OneTask(task[s], s) /\ OnlyTask(s) /\ AsRead(task[s])
                           /\ TaskOK(task[s], packs[s].history)
    BY TaskFacts DEF OneInv, OneTasks, OnlyTasks, Empties
  <1>3. ASSUME NEW s \in Threads \ {t}, NEW m, m = task[s].at, m \notin shared', NEW v, v # 0
        PROVE  /\ task[s].pc = "insert" /\ task[s].puid = 0 /\ v = ReadUid(task[s]) =>
                      Only(m, v, Threads)'
               /\ task[s].pc = "moved" /\ v = HeldUid(task[s]) => Only(m, v, Threads \ {s})'
    <2> SUFFICES ASSUME \/ task[s].pc = "insert" /\ task[s].puid = 0 /\ v = ReadUid(task[s])
                        \/ task[s].pc = "moved" /\ v = HeldUid(task[s])
                 PROVE  /\ task[s].pc = "insert" => Only(m, v, Threads)'
                        /\ task[s].pc = "moved" => Only(m, v, Threads \ {s})'
      OBVIOUS
    <2>1. m \in task[s].used /\ m \in Names /\ v \in 1 .. nextUid - 1 /\ m \notin shared
      BY <1>1, <1>2, <1>3 DEF OneTask, TaskOK
    <2>2. m # n \/ j.pc \notin {"shelved", "moved"}
      BY <1>3, <2>1, StepApart
    <2>3. /\ task[s].pc = "insert" => Only(m, v, Threads)
          /\ task[s].pc = "moved" => Only(m, v, Threads \ {s})
      BY <1>2, <1>3, <2>1 DEF OnlyTask
    <2> QED
      BY <2>1, <2>2, <2>3, OnlyKept
  <1>4. ASSUME NEW m, m = j.at, m \notin shared', NEW v, v # 0,
               j.pc = "insert", j.puid = 0, v = ReadUid(j)
        PROVE  Only(m, v, Threads)'
    <2>1. k.pc = "take" /\ ReadUid(j) = ReadUid(k) /\ j.at = k.at
      BY <1>1, <1>4 DEF StepTask
    <2>2. m = k.at /\ v \in 1 .. nextUid - 1 /\ m \notin shared /\ m \in Names
      BY <1>1, <1>2, <1>4, <2>1 DEF OneTask, TaskOK
    <2>3. v \in Uids(m)
      BY <1>2, <1>4, <2>1, <2>2 DEF AsRead
    <2>4. Only(m, v, Threads)
      BY <1>4, <2>2, <2>3 DEF OneInv, OnlyLive
    <2> QED
      BY <1>4, <2>2, <2>4, OnlyKept
  <1>5. ASSUME NEW m, m = j.at, m \notin shared', NEW v, v # 0, j.pc = "moved", v = HeldUid(j)
        PROVE  Only(m, v, Threads \ {t})'
    <2>1. m = n /\ v \in Uids(n) /\ m \notin shared /\ v \in 1 .. MaxUid
      BY <1>1, <1>5 DEF StepTask
    <2>2. Only(n, v, Threads)
      BY <1>1, <1>5, <2>1 DEF OneInv, OnlyLive
    <2>3. ASSUME NEW x \in Names PROVE elems'[MakeHistoryKey(x, v)] = <<>>
      BY <1>1, <2>1, <2>2 DEF StepElems, Only, Elsewhere
    <2>4. ASSUME NEW x \in Names \ {n} PROVE v \notin Uids(x)'
      <3>1. Uids(x)' = Uids(x)
        BY <1>1 DEF StepElems, Uids
      <3> QED
        BY <2>2, <3>1 DEF Only
    <2>5. ASSUME NEW s \in Threads \ {t} PROVE Elsewhere(task[s], n, v)'
      BY <1>1, <2>2 DEF Only, Elsewhere, ReadUid, HeldUid
    <2> QED
      BY <2>1, <2>3, <2>4, <2>5 DEF Only
  <1>6. ASSUME NEW s \in Threads, task'[s].pc = "insert", task'[s].puid = 0,
               task'[s].at \notin shared', GetUniqId(task'[s].attrs) # 0
        PROVE  Only(task[s].at, ReadUid(task[s]), Threads)'
    <2> PICK m, v : m = task'[s].at /\ v = GetUniqId(task'[s].attrs)
      OBVIOUS
    <2>1. Only(m, v, Threads)'
      BY <1>1, <1>3, <1>4, <1>6 DEF ReadUid
    <2> QED
      BY <2>1 DEF Only, ReadUid
  <1>7. ASSUME NEW s \in Threads, task'[s].pc = "moved",
               task'[s].at \notin shared', GetUniqId(task'[s].held.attrs) # 0
        PROVE  Only(task[s].at, HeldUid(task[s]), Threads \ {s})'
    <2> PICK m, v : m = task'[s].at /\ v = GetUniqId(task'[s].held.attrs)
      OBVIOUS
    <2>1. Only(m, v, Threads \ {s})'
      BY <1>1, <1>3, <1>5, <1>7 DEF HeldUid
    <2> QED
      BY <2>1 DEF Only, HeldUid
  <1> QED
    BY <1>6, <1>7 DEF OnlyTasks, OnlyTask, ReadUid, HeldUid

LEMMA StepVersions ==
    ASSUME TypeInv, OneInv, NEW t \in Threads, NEW n, Step(t, n)
    PROVE  VersionOne'
  <1> DEFINE k == task[t]
             j == task'[t]
  <1>1. /\ StepJoins(t, n) /\ StepElems(t, n, k) /\ StepTask(t, n, k, j)
        /\ n \in Names /\ nextUid \in 1 .. MaxUid + 1 /\ MaxUid \in Nat
        /\ \A s \in Threads \ {t} : task'[s] = task[s]
        /\ shared \subseteq shared'
    BY UidFacts DEF Step, StepJoins, Others
  <1>2. \A s \in Threads : OneTask(task[s], s) /\ TaskOK(task[s], packs[s].history)
    BY TaskFacts DEF OneInv, OneTasks
  <1> HIDE DEF k, j
  <1>3. ASSUME NEW m \in Names, m \notin shared', NEW v \in 1 .. MaxUid
        PROVE  Len(elems'[MakeHistoryKey(m, v)]) <= 1
    <2>1. Len(elems[MakeHistoryKey(m, v)]) <= 1
      BY <1>1, <1>3 DEF OneInv, VersionOne
    <2>2. CASE elems'[MakeHistoryKey(m, v)] = elems[MakeHistoryKey(m, v)]
      BY <2>1, <2>2
    <2>3. CASE /\ k.pc = "shelved" /\ m = n /\ m = k.old /\ v = k.puid
               /\ Len(elems'[MakeHistoryKey(m, v)]) = Len(elems[MakeHistoryKey(m, v)]) + 1
      <3>1. elems[MakeHistoryKey(m, v)] = <<>>
        BY <1>1, <1>3, <2>3 DEF OneInv, VersionOne, k
      <3> QED
        BY <2>3, <3>1, ListEmpty
    <2> QED
      BY <1>1, <2>2, <2>3 DEF StepElems
  <1>4. ASSUME NEW s \in Threads \ {t}, task[s].pc = "shelved", task[s].old \notin shared'
        PROVE  elems'[MakeHistoryKey(task[s].old, task[s].puid)] = <<>>
    <2> PICK m, v : m = task[s].old /\ v = task[s].puid
      OBVIOUS
    <2>1. elems[MakeHistoryKey(m, v)] = <<>>
      BY <1>1, <1>4 DEF OneInv, VersionOne
    <2>2. m \in task[s].used /\ m \in Names /\ v \in 1 .. MaxUid
      BY <1>1, <1>2, <1>4 DEF OneTask, TaskOK
    <2>3. m # n \/ elems' = elems
      BY <1>4, <2>2, StepApart
    <2> QED
      BY <1>1, <2>1, <2>2, <2>3 DEF StepElems
  <1>5. ASSUME j.pc = "shelved", j.old \notin shared'
        PROVE  elems'[MakeHistoryKey(j.old, j.puid)] = <<>>
    <2>1. /\ j.old = n /\ k.pc # "shelved" /\ j.puid \in 1 .. MaxUid
          /\ (j.puid \in Uids(n) \/ j.puid \in nextUid .. nextUid' - 1)
      BY <1>1, <1>5 DEF StepTask
    <2>2. elems[MakeHistoryKey(n, j.puid)] = <<>>
      <3>1. CASE j.puid \in Uids(n)
        <4>1. Only(n, j.puid, Threads)
          BY <1>1, <1>5, <2>1, <3>1 DEF OneInv, OnlyLive
        <4> QED
          BY <1>1, <4>1 DEF Only
      <3>2. CASE j.puid \in nextUid .. nextUid' - 1
        <4>1. ~ (j.puid < nextUid)
          BY <1>1, <3>2, <2>1 DEF StepElems
        <4> QED
          BY <1>1, <2>1, <4>1 DEF OneInv, Given
      <3> QED
        BY <2>1, <3>1, <3>2
    <2> QED
      BY <1>1, <2>1, <2>2 DEF StepElems
  <1>6. ASSUME NEW s \in Threads, task'[s].pc = "shelved", task'[s].old \notin shared'
        PROVE  elems'[MakeHistoryKey(task'[s].old, task'[s].puid)] = <<>>
    <2>1. CASE s = t
      BY <1>5, <1>6, <2>1 DEF j
    <2>2. CASE s # t
      BY <1>1, <1>4, <1>6, <2>2
    <2> QED
      BY <2>1, <2>2
  <1> QED
    BY <1>3, <1>6 DEF VersionOne, MakeHistoryKey

LEMMA StepOne ==
    ASSUME TypeInv, OneInv, NEW t \in Threads, \E n : Step(t, n)
    PROVE  OneInv'
  <1> PICK n : Step(t, n)
    OBVIOUS
  <1>1. FreeNames(use)' /\ OneTasks' /\ Given' /\ Exclusive' /\ LiveOne' /\ Empties'
    BY StepShape
  <1>2. RenamesFree' /\ OnlyLive' /\ OnlyTasks' /\ VersionOne'
    BY StepRenames, StepOnlyLive, StepOnlyTasks, StepVersions
  <1> QED
    BY <1>1, <1>2 DEF OneInv

\* The three parts of a step, where it is at one name.
LEMMA JoinsAt ==
    ASSUME TypeInv, NEW t \in Threads, NEW n \in Names, At(t, n), Others(t),
           UNCHANGED <<use, packs>>, task'[t].used \subseteq task[t].used \cup {n},
           task[t].pc # "moved"
    PROVE  StepJoins(t, n)
  <1>1. shared' = shared \cup UNION {Linked(u, n) : u \in {v \in Threads \ {t} : n \in task[v].used}}
    BY DEF At
  <1>2. \A u : n \in Linked(u, n)
    BY DEF Linked
  <1>3. \A s \in Threads \ {t} : n \in task[s].used => n \in shared'
    BY <1>1, <1>2
  <1> QED
    BY <1>1, <1>3 DEF StepJoins

LEMMA ElemsAt ==
    ASSUME TypeInv, TypeInv', OneInv, NEW t \in Threads, NEW n \in Names, nextUid <= nextUid',
           \A key \in Keys : key # Live(n) => elems'[key] = elems[key],
           Len(elems'[Live(n)]) <= 1,
           \/ Missing(elems, Live(n)) => Missing(elems', Live(n))
           \/ task[t].pc = "insert" /\ n = task[t].at
           \/ task[t].pc = "moved" /\ n = task[t].call.arg,
           \A v \in Uids(n)' \ {0} :
              \/ v \in Uids(n)
              \/ v \in nextUid .. nextUid' - 1
              \/ task[t].pc = "insert" /\ n = task[t].at /\ v = ReadUid(task[t]) /\ task[t].puid = 0
              \/ task[t].pc = "replace" /\ n = task[t].at /\ v = ReadUid(task[t])
              \/ task[t].pc = "moved" /\ n = task[t].call.arg /\ v = HeldUid(task[t])
    PROVE  StepElems(t, n, task[t])
  <1>1. nextUid' \in 1 .. MaxUid + 1
    BY DEF TypeInv, Bounds
  <1>2. \A m \in Names : m # n => elems'[Live(m)] = elems[Live(m)]
    BY NamesFacts
  <1>3. \A m \in Names, v \in 1 .. MaxUid :
            MakeHistoryKey(m, v) \in Keys /\ MakeHistoryKey(m, v) # Live(n)
    BY NamesFacts DEF MakeHistoryKey, Live, Keys
  <1> QED
    BY <1>1, <1>2, <1>3 DEF StepElems

LEMMA ElemsKept ==
    ASSUME TypeInv, TypeInv', OneInv, NEW t \in Threads, NEW n \in Names,
           UNCHANGED <<elems, nextUid>>
    PROVE  StepElems(t, n, task[t])
  <1>1. Len(elems'[Live(n)]) <= 1 /\ Uids(n)' = Uids(n) /\ nextUid <= nextUid'
    BY UidFacts DEF OneInv, LiveOne, Uids
  <1>2. Missing(elems, Live(n)) => Missing(elems', Live(n))
    BY DEF Missing
  <1> QED
    BY <1>1, <1>2, ElemsAt

LEMMA ElemsTaken ==
    ASSUME TypeInv, TypeInv', OneInv, NEW t \in Threads, NEW n \in Names, nextUid <= nextUid',
           ~Missing(elems, Live(n)), elems' = Take(elems, Live(n))
    PROVE  StepElems(t, n, task[t]) /\ Missing(elems', Live(n))
  <1>1. /\ Live(n) \in Keys /\ IsList(elems[Live(n)]) /\ elems[Live(n)] # <<>>
        /\ elems'[Live(n)] = Tail(elems[Live(n)])
        /\ \A key \in Keys \ {Live(n)} : elems'[key] = elems[key]
    BY TakeFacts, NamesFacts DEF TypeInv, StoreOK, Missing
  <1>2. Len(elems[Live(n)]) <= 1
    BY DEF OneInv, LiveOne
  <1>3. elems'[Live(n)] = <<>> /\ Len(elems'[Live(n)]) <= 1
    BY <1>1, <1>2, ListOneTail, ListEmpty
  <1>4. Uids(n)' = {} /\ Missing(elems', Live(n))
    BY <1>3, ListEmpty DEF Uids, Missing
  <1>5. StepElems(t, n, task[t])
    BY <1>1, <1>3, <1>4, ElemsAt
  <1> QED
    BY <1>4, <1>5

LEMMA ElemsPut ==
    ASSUME TypeInv, TypeInv', OneInv, NEW t \in Threads, NEW n \in Names, nextUid <= nextUid',
           Missing(elems, Live(n)), NEW e, IsElem(e), elems' = Put(elems, Live(n), e),
           \/ /\ task[t].pc = "insert" /\ n = task[t].at
              /\ \/ GetUniqId(e.attrs) \in nextUid .. nextUid' - 1
                 \/ GetUniqId(e.attrs) = ReadUid(task[t]) /\ task[t].puid = 0
           \/ task[t].pc = "moved" /\ n = task[t].call.arg /\ GetUniqId(e.attrs) = HeldUid(task[t])
    PROVE  StepElems(t, n, task[t])
  <1>1. /\ Live(n) \in Keys /\ elems[Live(n)] = <<>> /\ ToSet(elems[Live(n)]) = {}
        /\ elems'[Live(n)] = Append(elems[Live(n)], e)
        /\ ToSet(elems'[Live(n)]) = ToSet(elems[Live(n)]) \cup {e}
        /\ \A key \in Keys \ {Live(n)} : elems'[key] = elems[key]
    BY PutFacts, NamesFacts, ListEmpty DEF TypeInv, Missing
  <1>2. Len(elems'[Live(n)]) <= 1
    BY <1>1, ListAppend, ListEmpty
  <1>3. Uids(n)' = {GetUniqId(e.attrs)}
    BY <1>1 DEF Uids
  <1> QED
    BY <1>1, <1>2, <1>3, ElemsAt

LEMMA ElemsChanged ==
    ASSUME TypeInv, TypeInv', OneInv, NEW t \in Threads, NEW n \in Names, nextUid' = nextUid,
           ~Missing(elems, Live(n)), NEW e, IsElem(e), elems' = Changed(elems, Live(n), e),
           \/ GetUniqId(e.attrs) \in Uids(n)
           \/ task[t].pc = "replace" /\ n = task[t].at /\ GetUniqId(e.attrs) = ReadUid(task[t])
    PROVE  StepElems(t, n, task[t])
  <1>0. Live(n) \in Keys /\ StoreOK(elems) /\ Len(elems[Live(n)]) <= 1
    BY NamesFacts DEF TypeInv, OneInv, LiveOne
  <1>1. /\ \A key \in Keys \ {Live(n)} : elems'[key] = elems[key]
        /\ Len(elems'[Live(n)]) = Len(elems[Live(n)])
        /\ ToSet(elems'[Live(n)]) \subseteq ToSet(elems[Live(n)]) \cup {e}
    BY <1>0, ChangedFacts
  <1>2. Uids(n)' \subseteq Uids(n) \cup {GetUniqId(e.attrs)}
    BY <1>1 DEF Uids
  <1>3. nextUid <= nextUid'
    BY UidFacts
  <1>4. Len(elems'[Live(n)]) <= 1
    BY <1>0, <1>1
  <1> QED
    BY <1>1, <1>2, <1>3, <1>4, ElemsAt

\* The end of a call.
LEMMA EndTask ==
    ASSUME TypeInv, TypeInv', OneInv, NEW t \in Threads, NEW n, task'[t] = Idle
    PROVE  StepTask(t, n, task[t], task'[t])
  <1>1. nextUid' \in Nat \ {0}
    BY NamesFacts DEF TypeInv, Bounds
  <1>2. GetUniqId(NoAttrs) = 0
    BY DEF GetUniqId, HasAttr, NoAttrs
  <1>3. 0 \in 0 .. nextUid' - 1
    BY <1>1, RangeZero
  <1>4. OneTask(task[t], t)' /\ Emptied(task[t])' /\ AsRead(task[t])'
    BY <1>2, <1>3 DEF OneTask, Emptied, AsRead, Idle, NoCall, ReadUid
  <1> QED
    BY <1>2, <1>4 DEF StepTask, Idle, ReadUid, Renaming

LEMMA StepParts ==
    ASSUME NEW t \in Threads, NEW n, StepJoins(t, n), StepElems(t, n, task[t]),
           StepTask(t, n, task[t], task'[t])
    PROVE  \E m : Step(t, m)
  BY DEF Step

\* A call that begins.
LEMMA BeginStep ==
    ASSUME TypeInv, OneInv, NEW t \in Threads, NEW op, NEW pc, Begin(t, op, pc), op # "addpass",
           <<op, pc>> \in {<<"set", "subs">>, <<"setall", "take">>, <<"setsubkeys", "replace">>,
                           <<"addsubkey", "take">>, <<"addattr", "attrs">>, <<"remove", "take">>,
                           <<"removesubkey", "unlist">>, <<"rename", "move">>, <<"gettrial", "get">>}
    PROVE  \E m : Step(t, m)
  <1> DEFINE k == task[t]
             j == task'[t]
  <1>1. /\ k.pc = "idle" /\ UNCHANGED <<use, packs, elems, nextUid, shared>> /\ Others(t)
    BY BeginEffect
  <1>2. PICK c \in use.calls[t] : /\ c.op = op
                                  /\ op = "rename" => MayRename(c)
                                  /\ j = Begun(c, op, pc)
    BY BeginEffect
  <1>3. /\ j.pc = pc /\ j.call = c /\ j.at = IF op = "addsubkey" THEN c.arg ELSE c.key
        /\ j.attrs = NoAttrs /\ j.puid = 0 /\ j.used = {}
    <2> HIDE DEF j
    <2> QED
      BY <1>2 DEF Begun
  <1> PICK n : n = j.at
    OBVIOUS
  <1>4. n \in Names
    BY <1>2, <1>3, UsesAssumption DEF TypeInv, Bounds
  <1>5. TypeInv'
    <2>1. /\ pc \in Steps \ {"idle", "shelve", "shelved", "moved"}
          /\ (pc = "move" <=> op = "rename") /\ (pc = "unlist" => op = "removesubkey")
      BY DEF Steps
    <2> QED
      BY <2>1, BeginType
  <1>6. StepJoins(t, n)
    <2>1. k.pc # "moved" /\ j.pc \notin {"shelved", "moved"}
      BY <1>1, <1>3
    <2> QED
      BY <1>1, <1>3, <1>4, <2>1 DEF StepJoins
  <1>7. StepElems(t, n, k)
    BY <1>1, <1>4, <1>5, ElemsKept
  <1>8. nextUid' \in Nat \ {0} /\ GetUniqId(NoAttrs) = 0
    BY <1>5, NamesFacts DEF TypeInv, Bounds, GetUniqId, HasAttr, NoAttrs
  <1>9. 0 \in 0 .. nextUid' - 1
    BY <1>8, RangeZero
  <1> HIDE DEF k, j
  <1>10. pc \in {"subs", "take", "replace", "attrs", "unlist", "move", "get"}
    OBVIOUS
  <1>11. OneTask(task[t], t)'
    BY <1>1, <1>2, <1>3, <1>8, <1>9 DEF OneTask, ReadUid, NotMaking, j
  <1>12. Emptied(task[t])' /\ AsRead(task[t])'
    BY <1>3, <1>8, <1>10 DEF Emptied, AsRead, ReadUid, j
  <1>13. Renaming(j) => /\ Missing(elems', Live(j.call.arg))
                        /\ \A s \in Threads \ {t} : j.call.arg # task[s].call.arg
    <2>1. Renaming(j) => op = "rename"
      BY <1>3 DEF Renaming
    <2>2. use.toFreeName
      BY DEF OneInv, FreeNames
    <2> QED
      BY <1>1, <1>2, <1>3, <2>1, <2>2 DEF MayRename, Missing
  <1>14. StepTask(t, n, k, j)
    BY <1>3, <1>8, <1>10, <1>11, <1>12, <1>13 DEF StepTask, ReadUid
  <1> QED
    BY <1>6, <1>7, <1>14, StepParts DEF k, j

LEMMA BeginsStep ==
    ASSUME TypeInv, OneInv, NEW t \in Threads, Calls(t)
    PROVE  \E m : Step(t, m)
  BY BeginStep DEF Calls, CallSet, CallSetAll, CallSetSubkeys, CallAddSubkey,
      CallAddAttr, CallRemove, CallRemoveSubkey, CallRename, CallGetTrial

\* What holds of a call that is in progress.
LEMMA CallFacts ==
    ASSUME TypeInv, OneInv, NEW t \in Threads, task[t].pc # "idle"
    PROVE  /\ OneTask(task[t], t) /\ Emptied(task[t]) /\ AsRead(task[t]) /\ OnlyTask(t)
           /\ TaskOK(task[t], packs[t].history)
           /\ task[t].at \in Names
  <1>1. OneTask(task[t], t) /\ Emptied(task[t]) /\ AsRead(task[t]) /\ OnlyTask(t)
    BY DEF OneInv, OneTasks, Empties, OnlyTasks
  <1> QED
    BY <1>1, TaskFacts

LEMMA GetTrialStep ==
    ASSUME TypeInv, OneInv, NEW t \in Threads, GetTrial(t)
    PROVE  \E m : Step(t, m)
  <1> DEFINE k == task[t]
             j == task'[t]
  <1> PICK n : n = k.at
    OBVIOUS
  <1>1. /\ k.pc = "get" /\ UNCHANGED <<use, packs, elems, nextUid>>
        /\ At(t, n) /\ Others(t) /\ (j = Idle \/ j = WithPc(k, n, "subs"))
    BY GetTrialEffect, Zenon DEF GetTrialDoes
  <1>2. TypeInv' /\ n \in Names /\ OneTask(k, t)
    BY <1>1, GetTrialType, CallFacts
  <1>3. StepElems(t, n, k)
    BY <1>1, <1>2, ElemsKept
  <1> HIDE DEF k, j
  <1>4. j.used \subseteq k.used \cup {n}
    BY <1>1 DEF WithPc, Idle
  <1>5. StepJoins(t, n)
    BY <1>1, <1>2, <1>4, JoinsAt DEF k, j
  <1>6. StepTask(t, n, k, j)
    <2>1. CASE j = Idle
      BY <1>2, <2>1, EndTask DEF k, j
    <2>2. CASE j = WithPc(k, n, "subs")
      <3>1. /\ j.pc = "subs" /\ j.call = k.call /\ j.at = k.at /\ j.attrs = k.attrs
            /\ j.puid = k.puid /\ j.used = k.used \cup {n} /\ j.held = k.held
        BY <2>2 DEF WithPc
      <3>2. OneTask(task[t], t)'
        BY <1>1, <1>2, <3>1 DEF OneTask, ReadUid, j
      <3>3. Emptied(task[t])' /\ AsRead(task[t])'
        BY <3>1 DEF Emptied, AsRead, j
      <3> QED
        BY <3>1, <3>2, <3>3 DEF StepTask, ReadUid, Renaming
    <2> QED
      BY <1>1, <2>1, <2>2
  <1> QED
    BY <1>3, <1>5, <1>6, StepParts DEF k, j

LEMMA ReadSubsStep ==
    ASSUME TypeInv, OneInv, NEW t \in Threads, ReadSubs(t)
    PROVE  \E m : Step(t, m)
  <1> DEFINE k    == task[t]
             j    == task'[t]
             subs == GetSubKeys(k.at)
             more == Insert(subs, k.call.arg)
  <1> PICK n : n = k.at
    OBVIOUS
  <1>1. /\ k.pc = "subs" /\ UNCHANGED <<use, packs, elems, nextUid>> /\ At(t, n) /\ Others(t)
        /\ \/ k.call.op = "addsubkey" /\ j = WithPcSubs(k, n, "replace", more)
           \/ k.call.op # "addsubkey" /\ j = WithPcSubs(k, n, "attrs", subs)
    BY ReadSubsEffect, Zenon DEF ReadSubsDoes
  <1>2. TypeInv' /\ n \in Names /\ OneTask(k, t)
    BY <1>1, ReadSubsType, CallFacts
  <1>3. StepElems(t, n, k)
    BY <1>1, <1>2, ElemsKept
  <1> HIDE DEF k, j, subs, more
  <1>4. /\ j.call = k.call /\ j.at = k.at /\ j.attrs = k.attrs
        /\ j.puid = k.puid /\ j.used = k.used \cup {n} /\ j.held = k.held
        /\ j.pc = IF k.call.op = "addsubkey" THEN "replace" ELSE "attrs"
    BY <1>1 DEF WithPcSubs
  <1>5. StepJoins(t, n)
    BY <1>1, <1>2, <1>4, JoinsAt DEF k, j
  <1>6. GetUniqId(NoAttrs) = 0
    BY DEF GetUniqId, HasAttr, NoAttrs
  <1>7. OneTask(task[t], t)'
    BY <1>1, <1>2, <1>4 DEF OneTask, ReadUid, j
  <1>8. Emptied(task[t])' /\ AsRead(task[t])'
    BY <1>1, <1>2, <1>4, <1>6 DEF Emptied, AsRead, ReadUid, OneTask, j
  <1>9. StepTask(t, n, k, j)
    BY <1>4, <1>7, <1>8 DEF StepTask, ReadUid, Renaming
  <1> QED
    BY <1>3, <1>5, <1>9, StepParts DEF k, j

LEMMA ReadAttrsStep ==
    ASSUME TypeInv, OneInv, NEW t \in Threads, ReadAttrs(t)
    PROVE  \E m : Step(t, m)
  <1> DEFINE k     == task[t]
             j     == task'[t]
             attrs == GetAttrs(k.at)
             more  == SetAttr(attrs, "user", k.call.text)
  <1> PICK n : n = k.at
    OBVIOUS
  <1>1. /\ k.pc = "attrs" /\ UNCHANGED <<use, packs, elems, nextUid>> /\ At(t, n) /\ Others(t)
        /\ \/ k.call.op = "addattr" /\ j = WithPcHeldAttrs(k, n, "replace", attrs, more)
           \/ k.call.op # "addattr" /\ j = WithPcAttrs(k, n, "take", attrs)
    BY ReadAttrsEffect, Zenon DEF ReadAttrsDoes
  <1>2. TypeInv' /\ n \in Names /\ OneTask(k, t)
    BY <1>1, ReadAttrsType, CallFacts
  <1>3. StepElems(t, n, k)
    BY <1>1, <1>2, ElemsKept
  <1>4. GetUniqId(more) = GetUniqId(attrs)
    <2> HIDE DEF attrs
    <2>1. DOMAIN more = DOMAIN attrs \cup {"user"} /\ \A x \in DOMAIN attrs \ {"user"} : more[x] = attrs[x]
      BY DEF SetAttr
    <2> HIDE DEF more
    <2> QED
      BY <2>1 DEF GetUniqId, HasAttr, GetAttr
  <1>5. GetUniqId(NoAttrs) = 0
    BY DEF GetUniqId, HasAttr, NoAttrs
  <1>6. GetUniqId(attrs) # 0 => GetUniqId(attrs) \in Uids(n)
    <2>1. ~Missing(elems, Live(n)) => Found(elems, Live(n)) \in ToSet(elems[Live(n)])
      BY <1>2, NamesFacts, FoundFacts DEF TypeInv
    <2> QED
      BY <1>5, <2>1 DEF GetAttrs, Uids
  <1> HIDE DEF k, j, attrs, more
  <1>7. /\ j.call = k.call /\ j.at = k.at /\ j.puid = k.puid /\ j.used = k.used \cup {n}
        /\ ReadUid(j) = GetUniqId(attrs)
        /\ j.pc = IF k.call.op = "addattr" THEN "replace" ELSE "take"
        /\ k.call.op \in {"rename", "addsubkey"} => j.attrs = attrs
    BY <1>1, <1>4 DEF WithPcHeldAttrs, WithPcAttrs, ReadUid
  <1>8. StepJoins(t, n)
    BY <1>1, <1>2, <1>7, JoinsAt DEF k, j
  <1>9. ReadUid(j) \in 0 .. nextUid - 1
    BY <1>2, <1>6, <1>7, UidFacts, RangeZero
  <1>10. OneTask(task[t], t)'
    BY <1>1, <1>2, <1>7, <1>9 DEF OneTask, ReadUid, NotMaking, j
  <1>11. Emptied(task[t])' /\ AsRead(task[t])'
    BY <1>1, <1>6, <1>7 DEF Emptied, AsRead, ReadUid, Uids, j
  <1>12. StepTask(t, n, k, j)
    BY <1>1, <1>6, <1>7, <1>10, <1>11 DEF StepTask, Renaming
  <1> QED
    BY <1>3, <1>8, <1>12, StepParts DEF k, j

LEMMA TakeOldStep ==
    ASSUME TypeInv, OneInv, NEW t \in Threads, TakeOld(t)
    PROVE  \E m : Step(t, m)
  <1> DEFINE k     == task[t]
             j     == task'[t]
             next  == IF k.call.op = "remove" THEN "below" ELSE "insert"
             subs  == SubKeysOf(k.at, k.rm)
             stack == Stacked(k, k.at)
  <1> PICK n : n = k.at
    OBVIOUS
  <1>1. /\ k.pc = "take" /\ UNCHANGED <<use, packs, nextUid>> /\ At(t, n) /\ Others(t)
        /\ \/ Missing(elems, Live(n)) /\ UNCHANGED elems /\ j = WithPc(k, n, next)
           \/ /\ ~Missing(elems, Live(n)) /\ elems' = Take(elems, Live(n))
              /\ j = WithPcDoomedStack(k, n, next, subs, stack)
           \/ UNCHANGED elems /\ j = WithPcOldUnderThen(k, n, "shelve", n, subs, next)
    BY TakeOldEffect, Zenon DEF TakeOldDoes
  <1>2. /\ TypeInv' /\ n \in Names /\ OneTask(k, t) /\ nextUid <= nextUid'
        /\ next = IF k.call.op = "remove" THEN "below" ELSE "insert"
    BY <1>1, TakeOldType, CallFacts, UidFacts
  <1> HIDE DEF next, subs, stack
  <1>3. StepElems(t, n, k)
    BY <1>1, <1>2, ElemsKept, ElemsTaken
  <1>4. j.pc \in {"insert", "below"} => Missing(elems', Live(n))
    <2>1. UNCHANGED elems /\ Missing(elems, Live(n)) => Missing(elems', Live(n))
      BY DEF Missing
    <2> HIDE DEF j
    <2> QED
      BY <1>1, <1>2, <2>1, ElemsTaken DEF WithPcOldUnderThen, k
  <1> HIDE DEF k, j
  <1>5. /\ j.call = k.call /\ j.at = k.at /\ j.puid = k.puid /\ j.used = k.used \cup {n}
        /\ j.attrs = k.attrs
        /\ j.pc \in {"shelve", next}
        /\ j.pc = "shelve" => j.old = n /\ j.then = next
    BY <1>1, <1>2 DEF WithPc, WithPcDoomedStack, WithPcOldUnderThen
  <1>6. StepJoins(t, n)
    BY <1>1, <1>2, <1>5, JoinsAt DEF k, j
  <1>7. OneTask(task[t], t)'
    BY <1>1, <1>2, <1>5 DEF OneTask, ReadUid, NotMaking, j
  <1>8. Emptied(task[t])' /\ AsRead(task[t])'
    BY <1>2, <1>4, <1>5 DEF Emptied, AsRead, Missing, j
  <1>9. StepTask(t, n, k, j)
    BY <1>1, <1>2, <1>5, <1>7, <1>8 DEF StepTask, Renaming, ReadUid
  <1> QED
    BY <1>3, <1>6, <1>9, StepParts DEF k, j

LEMMA ShelveStep ==
    ASSUME TypeInv, OneInv, NEW t \in Threads, Shelve(t)
    PROVE  \E m : Step(t, m)
  <1> DEFINE k     == task[t]
             j     == task'[t]
             e     == Found(elems, Live(k.old))
             known == GetUniqId(e.attrs)
             named == IF known = 0 THEN DirectSetUniqId(packs[t], e.attrs, 0, nextUid)
                      ELSE e.attrs
             puid  == GetUniqId(named)
             held  == WithAttrs(e, MarkHistory(named))
             none  == <<>>
  <1> PICK n : n = k.old
    OBVIOUS
  <1>1. /\ k.pc = "shelve" /\ UNCHANGED <<use, packs>> /\ At(t, n) /\ Others(t)
        /\ \/ UNCHANGED <<elems, nextUid>> /\ j = Idle
           \/ UNCHANGED <<elems, nextUid>> /\ k.then # "insert" /\ j = WithPcUnder(k, n, "below", none)
           \/ /\ ~Missing(elems, Live(n)) /\ (known = 0 => nextUid <= MaxUid)
              /\ elems' = Take(elems, Live(n))
              /\ nextUid' = (IF known = 0 THEN nextUid + 1 ELSE nextUid)
              /\ j = WithPcPuidHeld(k, n, "shelved", puid, held)
    BY ShelveEffect, Zenon DEF ShelveDoes
  <1>2. TypeInv' /\ OneTask(k, t) /\ TaskOK(k, packs[t].history)
    BY <1>1, ShelveType, CallFacts
  <1>3. /\ n \in Names /\ packs[t].history
        /\ nextUid \in 1 .. MaxUid + 1 /\ MaxUid \in Nat /\ Uids(n) \subseteq 0 .. nextUid - 1
    BY <1>1, <1>2, UidFacts DEF TaskOK
  <1>4. known = 0 => puid = nextUid
    BY <1>3, IdentifiedUid, Zenon DEF DirectSetUniqId
  <1>5. known # 0 => puid = known
    BY Zenon
  <1>6. ~Missing(elems, Live(n)) => known \in Uids(n)
    <2>1. ~Missing(elems, Live(n)) => e \in ToSet(elems[Live(n)])
      BY <1>3, NamesFacts, FoundFacts DEF TypeInv
    <2> QED
      BY <2>1 DEF Uids
  <1> HIDE DEF k, j, e, known, puid, held, none
  <1>7. nextUid <= nextUid'
    BY <1>1, <1>3
  <1>8. StepElems(t, n, k) /\ (j.pc = "shelved" => Missing(elems', Live(n)))
    <2>1. CASE UNCHANGED <<elems, nextUid>> /\ j.pc # "shelved"
      BY <1>2, <1>3, <2>1, ElemsKept DEF k
    <2>2. CASE ~Missing(elems, Live(n)) /\ elems' = Take(elems, Live(n))
      BY <1>2, <1>3, <1>7, <2>2, ElemsTaken DEF k
    <2> QED
      BY <1>1, <2>1, <2>2 DEF Idle, WithPcUnder
  <1>9. j # Idle =>
          /\ j.call = k.call /\ j.at = k.at /\ j.used = k.used \cup {n}
          /\ j.attrs = k.attrs /\ j.pc \in {"below", "shelved"}
          /\ j.pc = "below" => j.puid = k.puid
          /\ j.pc = "shelved" => /\ j.puid = puid /\ j.old = n /\ j.then = k.then
                                 /\ ~Missing(elems, Live(n))
                                 /\ known = 0 => nextUid <= MaxUid
                                 /\ nextUid' = IF known = 0 THEN nextUid + 1 ELSE nextUid
    BY <1>1 DEF WithPcUnder, WithPcPuidHeld
  <1>10. StepJoins(t, n)
    <2>1. j.used \subseteq k.used \cup {n}
      BY <1>9 DEF Idle
    <2> QED
      BY <1>1, <1>3, <2>1, JoinsAt DEF k, j
  <1>11. CASE j = Idle
    BY <1>2, <1>8, <1>10, <1>11, EndTask, StepParts DEF k, j
  <1>12. CASE j # Idle
    <2>1. j.pc = "shelved" =>
            /\ j.puid \in 1 .. MaxUid /\ j.puid \in 0 .. nextUid' - 1
            /\ (j.puid \in Uids(n) \/ j.puid \in nextUid .. nextUid' - 1)
      BY <1>3, <1>4, <1>5, <1>6, <1>9, <1>12
    <2>2. 0 .. nextUid - 1 \subseteq 0 .. nextUid' - 1
      BY <1>1, <1>3, <1>7, RangeGrows
    <2>3. OneTask(task[t], t)'
      BY <1>1, <1>2, <1>3, <1>9, <1>12, <2>1, <2>2 DEF OneTask, ReadUid, NotMaking, j
    <2>4. Emptied(task[t])' /\ AsRead(task[t])'
      BY <1>8, <1>9, <1>12 DEF Emptied, AsRead, Missing, j
    <2>5. StepTask(t, n, k, j)
      BY <1>1, <1>8, <1>9, <1>12, <2>1, <2>3, <2>4 DEF StepTask, Renaming, ReadUid
    <2> QED
      BY <1>8, <1>10, <2>5, StepParts DEF k, j
  <1> QED
    BY <1>11, <1>12

LEMMA ShelvedStep ==
    ASSUME TypeInv, OneInv, NEW t \in Threads, Shelved(t)
    PROVE  \E m : Step(t, m)
  <1> DEFINE k       == task[t]
             j       == task'[t]
             version == MakeHistoryKey(k.old, k.puid)
             none    == <<>>
             doomed  == k.under \o k.doomed
             past    == Append(k.held.past, k.held.value.text)
             stack   == Append(k.stack, Rename(Live(k.old), version, k.held.attrs))
  <1> PICK n : n = k.old
    OBVIOUS
  <1>0. k.old = n
    OBVIOUS
  <1>1. /\ k.pc = "shelved" /\ UNCHANGED <<use, packs, nextUid>> /\ At(t, n) /\ Others(t)
        /\ elems' = Put(elems, version, k.held)
        /\ j = WithShelved(k, n, k.then, none, none, doomed, past, stack)
    BY ShelvedEffect, Zenon DEF ShelvedDoes
  <1>2. TypeInv' /\ OneTask(k, t) /\ TaskOK(k, packs[t].history) /\ Emptied(k)
    BY <1>1, ShelvedType, CallFacts
  <1>3. /\ n \in Names /\ nextUid \in 1 .. MaxUid + 1 /\ nextUid' \in 1 .. MaxUid + 1
        /\ MaxUid \in Nat /\ k.then \in {"insert", "below"}
        /\ IsElem(k.held) /\ k.puid # 0 /\ k.puid \in 1 .. MaxUid
    BY <1>1, <1>2, UidFacts DEF TaskOK, OneTask
  <1>4. version \in Keys /\ version = <<n, k.puid>> /\ \A m \in Names : Live(m) # version
    BY <1>3 DEF MakeHistoryKey, Keys, Live
  <1>5. /\ elems'[version] = Append(elems[version], k.held) /\ IsList(elems[version])
        /\ \A key \in Keys \ {version} : elems'[key] = elems[key]
    <2>1. StoreOK(elems) /\ IsElem(k.held) /\ version \in Keys /\ elems' = Put(elems, version, k.held)
      BY <1>1, <1>3, <1>4 DEF TypeInv
    <2> HIDE DEF version, k
    <2>2. IsList(elems[version])
      BY <2>1 DEF StoreOK
    <2> QED
      BY <2>1, <2>2, PutFacts
  <1>6. Len(elems'[version]) = Len(elems[version]) + 1
    BY <1>5, ListAppend
  <1>7. \A m \in Names : elems'[Live(m)] = elems[Live(m)]
    BY <1>4, <1>5, NamesFacts
  <1> HIDE DEF k, j, version, none, doomed, past, stack
  <1>8. StepElems(t, n, k)
    <2>1. Uids(n)' = Uids(n) /\ (Missing(elems, Live(n)) => Missing(elems', Live(n)))
      BY <1>3, <1>7 DEF Uids, Missing
    <2>2. Len(elems'[Live(n)]) <= 1
      BY <1>3, <1>7 DEF OneInv, LiveOne
    <2>3. ASSUME NEW m \in Names, NEW v \in 1 .. MaxUid
          PROVE  \/ elems'[MakeHistoryKey(m, v)] = elems[MakeHistoryKey(m, v)]
                 \/ /\ k.pc = "shelved" /\ m = n /\ m = k.old /\ v = k.puid
                    /\ Len(elems'[MakeHistoryKey(m, v)]) = Len(elems[MakeHistoryKey(m, v)]) + 1
      <3>1. MakeHistoryKey(m, v) \in Keys /\ MakeHistoryKey(m, v) = <<m, v>>
        BY <1>3 DEF MakeHistoryKey, Keys
      <3>2. CASE MakeHistoryKey(m, v) = version
        <4>1. m = n /\ v = k.puid /\ k.pc = "shelved" /\ m = k.old
          BY <1>1, <1>4, <3>1, <3>2, <1>0
        <4> QED
          BY <1>6, <3>2, <4>1
      <3>3. CASE MakeHistoryKey(m, v) # version
        BY <1>5, <3>1, <3>3
      <3> QED
        BY <3>2, <3>3
    <2>4. nextUid <= nextUid'
      BY <1>1, <1>3
    <2> QED
      BY <1>3, <1>7, <2>1, <2>2, <2>3, <2>4 DEF StepElems
  <1>9. /\ j.call = k.call /\ j.at = k.at /\ j.puid = k.puid /\ j.used = k.used \cup {n}
        /\ j.attrs = k.attrs /\ j.pc = k.then
    BY <1>1 DEF WithShelved
  <1>10. StepJoins(t, n)
    BY <1>1, <1>3, <1>9, JoinsAt DEF k, j
  <1>11. OneTask(task[t], t)'
    BY <1>1, <1>2, <1>3, <1>9 DEF OneTask, ReadUid, NotMaking, j, k
  <1>12. Emptied(task[t])' /\ AsRead(task[t])'
    <2>1. j.pc = "insert" /\ j.at \notin shared' => Missing(elems', Live(j.at))
      BY <1>1, <1>2, <1>3, <1>7, <1>9, <1>10 DEF Emptied, OneTask, StepJoins, Missing, k
    <2> QED
      BY <1>3, <1>9, <2>1 DEF Emptied, AsRead, Missing, j
  <1>13. StepTask(t, n, k, j)
    BY <1>1, <1>3, <1>9, <1>11, <1>12 DEF StepTask, Renaming, ReadUid
  <1> QED
    BY <1>8, <1>10, <1>13, StepParts DEF k, j

\* What times and encryption do to attributes leaves the unique id.
LEMMA SameUid ==
    ASSUME NEW a, NEW name, NEW val, name # "uniqid"
    PROVE  GetUniqId(SetAttr(a, name, val)) = GetUniqId(a)
           /\ GetUniqId(RemoveAttr(a, name)) = GetUniqId(a)
  <1> DEFINE b == SetAttr(a, name, val)
             c == RemoveAttr(a, name)
  <1>1. DOMAIN b = DOMAIN a \cup {name} /\ \A x \in DOMAIN a \ {name} : b[x] = a[x]
    BY DEF SetAttr
  <1>2. DOMAIN c = DOMAIN a \ {name} /\ \A x \in DOMAIN a \ {name} : c[x] = a[x]
    BY DEF RemoveAttr, Restrict
  <1> HIDE DEF b, c
  <1>3. GetUniqId(b) = GetUniqId(a)
    BY <1>1 DEF GetUniqId, HasAttr, GetAttr
  <1>4. GetUniqId(c) = GetUniqId(a)
    BY <1>2 DEF GetUniqId, HasAttr, GetAttr
  <1> QED
    BY <1>3, <1>4 DEF b, c

\* What times, encryption and marks do to attributes leaves the parent as well.
LEMMA SameParent ==
    ASSUME NEW a, NEW name, NEW val, name # "parentuniqid"
    PROVE  Parent(SetAttr(a, name, val)) = Parent(a) /\ Parent(RemoveAttr(a, name)) = Parent(a)
  <1> DEFINE b == SetAttr(a, name, val)
             c == RemoveAttr(a, name)
  <1>1. DOMAIN b = DOMAIN a \cup {name} /\ \A x \in DOMAIN a \ {name} : b[x] = a[x]
    BY DEF SetAttr
  <1>2. DOMAIN c = DOMAIN a \ {name} /\ \A x \in DOMAIN a \ {name} : c[x] = a[x]
    BY DEF RemoveAttr, Restrict
  <1> HIDE DEF b, c
  <1>3. Parent(b) = Parent(a)
    BY <1>1 DEF Parent, HasAttr, GetAttr
  <1>4. Parent(c) = Parent(a)
    BY <1>2 DEF Parent, HasAttr, GetAttr
  <1> QED
    BY <1>3, <1>4 DEF b, c

LEMMA IdentifiedParent ==
    ASSUME NEW attrs, NEW uid, NEW parent
    PROVE  Parent(Identified(attrs, uid, parent)) = IF parent = 0 THEN Parent(attrs) ELSE parent
  <1> DEFINE named == SetAttr(attrs, "uniqid", uid)
             both  == SetAttr(named, "parentuniqid", parent)
  <1>1. Parent(named) = Parent(attrs)
    BY SameParent
  <1>2. Identified(attrs, uid, parent) = IF parent = 0 THEN named ELSE both
    BY Zenon DEF Identified
  <1> HIDE DEF named
  <1>3. DOMAIN both = DOMAIN named \cup {"parentuniqid"} /\ both["parentuniqid"] = parent
    BY DEF SetAttr
  <1> HIDE DEF both
  <1>4. Parent(both) = parent
    BY <1>3 DEF Parent, HasAttr, GetAttr
  <1> QED
    BY <1>1, <1>2, <1>4

\* The unique id of a new element is a new one, or the one that was read when nothing
\* has been shelved; it follows what has been shelved, or what the old one followed, or
\* an id that was given in vain.
LEMMA NewIds ==
    ASSUME TypeInv, OneInv, NEW t \in Threads, NEW u, NEW p, NEW after,
           u = GetUniqId(NewElement(t).e.attrs), p = Parent(NewElement(t).e.attrs),
           after = NewElement(t).uid
    PROVE  /\ nextUid <= after
           /\ \/ u \in nextUid .. after - 1 /\ packs[t].history
              \/ u = ReadUid(task[t]) /\ task[t].puid = 0
           /\ IdsGo(task[t].attrs) =>
                 /\ u = 0 => p = 0
                 /\ task[t].puid # 0 \/ ReadUid(task[t]) = 0 => p = task[t].puid
                 /\ \/ p \in {task[t].puid, Parent(task[t].attrs)}
                    \/ p = nextUid /\ nextUid < after /\ u # nextUid
  <1> DEFINE k     == task[t]
             pack  == packs[t]
             with  == PassFor(pack, k.text, k.call.pass)
             stamp == Stamped(pack, k.attrs, now)
             plain == Expiring(pack, stamp, k.call.expire, now)
             coded == Encrypted(pack, plain, with)
             old   == IF pack.history /\ with # NoPass THEN GetUniqId(coded) ELSE 0
             fresh == pack.history /\ (with # NoPass \/ GetUniqId(coded) = 0)
             named == IF fresh THEN Identified(coded, nextUid, old) ELSE coded
             uid   == IF fresh THEN nextUid + 1 ELSE nextUid
             again == IF old = 0 THEN k.puid # 0 ELSE k.puid # old
             attrs == IF again THEN DirectSetUniqId(pack, named, k.puid, uid) ELSE named
             value == Stored(k.text, with, pack.type)
             last  == IF again THEN uid + 1 ELSE uid
  <1>1. NewElement(t) = [e |-> ElementOf(value, k.subs, attrs), uid |-> last]
    <2> DEFINE upd == UpdateAttr(pack, k.attrs, k.text, k.call.pass, k.call.expire, now, nextUid)
    <2>1. upd = [attrs |-> named, value |-> value, old |-> old, uid |-> uid]
      BY Zenon DEF UpdateAttr
    <2> HIDE DEF upd, named, value, old, uid
    <2>2. upd.attrs = named /\ upd.value = value /\ upd.old = old /\ upd.uid = uid
      BY <2>1
    <2> QED
      BY <2>2, Zenon DEF NewElement, upd
  <1>2. pack.type \in EncTypes /\ pack.type \notin {"uniqid", "parentuniqid"} /\ nextUid \in Nat \ {0}
    BY UsesAssumption, UidFacts DEF TypeInv, Bounds, PacksOK, EncTypes
  <1>3. k.puid # 0 => pack.history
    BY DEF OneInv, OneTasks, OneTask
  <1>4. GetUniqId(coded) = ReadUid(k) /\ Parent(coded) = Parent(k.attrs)
    <2>1. GetUniqId(stamp) = GetUniqId(k.attrs) /\ Parent(stamp) = Parent(k.attrs)
      BY SameUid, SameParent, Zenon DEF Stamped
    <2> HIDE DEF stamp
    <2>2. GetUniqId(plain) = GetUniqId(stamp) /\ Parent(plain) = Parent(stamp)
      BY SameUid, SameParent, Zenon DEF Expiring
    <2> HIDE DEF plain
    <2>3. GetUniqId(coded) = GetUniqId(plain) /\ Parent(coded) = Parent(plain)
      BY <1>2, SameUid, SameParent, Zenon DEF Encrypted
    <2> QED
      BY <2>1, <2>2, <2>3 DEF ReadUid
  <1>5. IdsGo(k.attrs) <=> (ReadUid(k) = 0 => Parent(k.attrs) = 0)
    BY DEF IdsGo, ReadUid
  <1> HIDE DEF k, pack, with, plain, coded
  <1>6. /\ GetUniqId(named) = IF fresh THEN nextUid ELSE ReadUid(k)
        /\ Parent(named) = IF fresh /\ old # 0 THEN old ELSE Parent(k.attrs)
    <2> HIDE DEF fresh, old
    <2>1. CASE fresh
      BY <1>4, <2>1, IdentifiedUid, IdentifiedParent
    <2>2. CASE ~fresh
      BY <1>4, <2>2
    <2> QED
      BY <2>1, <2>2
  <1> DEFINE parent == IF k.puid = 0 THEN GetUniqId(named) ELSE k.puid
  <1>7. again => attrs = Identified(named, uid, parent)
    BY <1>3, <1>4, Zenon DEF DirectSetUniqId
  <1>8. /\ GetUniqId(attrs) = IF again THEN uid ELSE GetUniqId(named)
        /\ Parent(attrs) = IF again /\ parent # 0 THEN parent ELSE Parent(named)
    <2> HIDE DEF uid, parent, again
    <2>1. CASE again
      BY <1>7, <2>1, IdentifiedUid, IdentifiedParent
    <2>2. CASE ~again
      BY <2>2
    <2> QED
      BY <2>1, <2>2
  <1> HIDE DEF attrs, named, value
  <1>9. u = GetUniqId(attrs) /\ p = Parent(attrs) /\ after = last
    BY <1>1 DEF ElementOf
  <1>10. CASE fresh
    <2>1. /\ pack.history /\ old = ReadUid(k) /\ GetUniqId(named) = nextUid
          /\ IdsGo(k.attrs) => Parent(named) = old
      BY <1>4, <1>5, <1>6, <1>10
    <2>2. again <=> k.puid # ReadUid(k)
      BY <2>1
    <2>3. CASE k.puid # ReadUid(k)
      BY <1>2, <1>8, <1>9, <1>10, <2>1, <2>2, <2>3 DEF k, pack
    <2>4. CASE k.puid = ReadUid(k)
      BY <1>2, <1>8, <1>9, <1>10, <2>1, <2>2, <2>4 DEF k, pack
    <2> QED
      BY <2>3, <2>4
  <1>11. CASE ~fresh
    <2>1. old = 0 /\ uid = nextUid /\ GetUniqId(named) = ReadUid(k) /\ Parent(named) = Parent(k.attrs)
      BY <1>6, <1>11
    <2>2. again <=> k.puid # 0
      BY <2>1
    <2>3. CASE k.puid # 0
      <3>1. u = nextUid /\ p = k.puid /\ after = nextUid + 1
        BY <1>8, <1>9, <2>1, <2>2, <2>3
      <3> QED
        BY <1>2, <1>3, <2>3, <3>1 DEF k, pack
    <2>4. CASE k.puid = 0
      <3>1. u = ReadUid(k) /\ p = Parent(k.attrs) /\ after = nextUid
        BY <1>8, <1>9, <2>1, <2>2, <2>4
      <3> QED
        BY <1>2, <1>5, <2>4, <3>1 DEF k
    <2> QED
      BY <2>3, <2>4
  <1> QED
    BY <1>10, <1>11

LEMMA InsertNewStep ==
    ASSUME TypeInv, OneInv, NEW t \in Threads, InsertNew(t)
    PROVE  \E m : Step(t, m)
  <1> DEFINE k      == task[t]
             j      == task'[t]
             new    == NewElement(t)
             e      == WithPast(new.e, k.past)
             none   == <<>>
             doomed == Without(k.doomed, k.subs)
             stack  == Append(k.stack, SetAll(Live(k.at), new.e))
  <1> PICK n : n = k.at
    OBVIOUS
  <1>1. /\ k.pc = "insert" /\ UNCHANGED <<use, packs>> /\ At(t, n) /\ Others(t)
        /\ \/ /\ ~Missing(elems, Live(n)) /\ UNCHANGED <<elems, nextUid>>
              /\ j = WithAgain(k, n, "take", 0, none, none)
           \/ /\ Missing(elems, Live(n)) /\ elems' = Put(elems, Live(n), e) /\ nextUid' = new.uid
              /\ j = WithPcDoomedStack(k, n, "below", doomed, stack)
    BY InsertNewEffect, Zenon DEF InsertNewDoes
  <1>2. TypeInv' /\ n \in Names /\ OneTask(k, t) /\ TaskOK(k, packs[t].history) /\ Emptied(k)
    BY <1>1, InsertNewType, CallFacts
  <1>3. /\ nextUid <= new.uid /\ new.e.subs = k.subs
        /\ \/ GetUniqId(new.e.attrs) \in nextUid .. new.uid - 1
           \/ GetUniqId(new.e.attrs) = ReadUid(k) /\ k.puid = 0
    BY NewIds, NewElementFacts
  <1>4. nextUid \in 1 .. MaxUid + 1 /\ nextUid' \in 1 .. MaxUid + 1 /\ MaxUid \in Nat
    BY <1>2, UidFacts DEF TypeInv, Bounds
  <1> HIDE DEF j, new, none, doomed, stack
  <1>5. IsElem(e) /\ e.attrs = new.e.attrs
    BY <1>2, <1>3 DEF IsElem, WithPast, TaskOK
  <1> HIDE DEF e
  <1>6. StepElems(t, n, k)
    <2>1. CASE UNCHANGED <<elems, nextUid>>
      BY <1>2, <2>1, ElemsKept
    <2>2. CASE Missing(elems, Live(n)) /\ elems' = Put(elems, Live(n), e) /\ nextUid' = new.uid
      <3>1. /\ k.pc = "insert" /\ n = k.at /\ nextUid <= nextUid'
            /\ \/ GetUniqId(e.attrs) \in nextUid .. nextUid' - 1
               \/ GetUniqId(e.attrs) = ReadUid(k) /\ k.puid = 0
        BY <1>1, <1>3, <1>5, <2>2
      <3> QED
        BY <1>2, <1>5, <2>2, <3>1, ElemsPut
    <2> QED
      BY <1>1, <2>1, <2>2
  <1> HIDE DEF k
  <1>7. /\ j.call = k.call /\ j.at = k.at /\ j.used = k.used \cup {n} /\ j.attrs = k.attrs
        /\ \/ j.pc = "take" /\ j.puid = 0 /\ ~Missing(elems, Live(n))
           \/ j.pc = "below" /\ j.puid = k.puid
        /\ nextUid <= nextUid'
    BY <1>1, <1>3, <1>4 DEF WithAgain, WithPcDoomedStack
  <1>8. StepJoins(t, n)
    BY <1>1, <1>2, <1>7, JoinsAt DEF k, j
  <1>9. OneTask(task[t], t)'
    <2>1. 0 .. nextUid - 1 \subseteq 0 .. nextUid' - 1
      <3>1. nextUid \in Int /\ nextUid' \in Int /\ nextUid <= nextUid'
        BY <1>4, <1>7
      <3> QED
        BY <3>1, RangeGrows
    <2>2. 0 \in 0 .. nextUid' - 1
      <3>1. nextUid' \in Nat \ {0}
        BY <1>4
      <3> QED
        BY <3>1, RangeZero
    <2> QED
      BY <1>1, <1>2, <1>7, <2>1, <2>2 DEF OneTask, ReadUid, NotMaking, j
  <1>10. Emptied(task[t])' /\ AsRead(task[t])'
    <2>1. j.pc = "take" => j.at \in shared'
      BY <1>1, <1>2, <1>7, <1>8 DEF Emptied, StepJoins
    <2> QED
      BY <1>7, <2>1 DEF Emptied, AsRead, j
  <1>11. StepTask(t, n, k, j)
    BY <1>1, <1>7, <1>9, <1>10 DEF StepTask, Renaming, ReadUid
  <1> QED
    BY <1>6, <1>8, <1>11, StepParts DEF k, j

LEMMA BelowStep ==
    ASSUME TypeInv, OneInv, NEW t \in Threads, Below(t)
    PROVE  \E m : Step(t, m)
  <1> DEFINE k     == task[t]
             j     == task'[t]
             rest  == Tail(k.doomed)
             under == SubKeysOf(Head(k.doomed), TRUE)
             more  == under \o rest
             stack == Stacked(k, Head(k.doomed))
  <1> PICK n : n = Head(k.doomed)
    OBVIOUS
  <1>1. /\ k.pc = "below" /\ k.doomed # <<>> /\ UNCHANGED <<use, packs, nextUid>>
        /\ At(t, n) /\ Others(t)
        /\ \/ UNCHANGED elems /\ j = WithDoomed(k, n, rest)
           \/ /\ ~Missing(elems, Live(n)) /\ elems' = Take(elems, Live(n))
              /\ j = WithDoomedStack(k, n, more, stack)
           \/ UNCHANGED elems /\ j = WithDoomedOldThenUnder(k, n, rest, "shelve", n, "below", under)
    BY BelowEffect, Zenon DEF BelowDoes
  <1>2. TypeInv' /\ OneTask(k, t) /\ nextUid <= nextUid' /\ TaskOK(k, packs[t].history)
    BY <1>1, BelowType, CallFacts, UidFacts
  <1>3. n \in Names
    <2>1. k.doomed \in Seq(Names)
      BY <1>2 DEF TaskOK
    <2> QED
      BY <1>1, <2>1, HeadTailFacts
  <1> HIDE DEF rest, under, more, stack
  <1>4. StepElems(t, n, k)
    BY <1>1, <1>2, <1>3, ElemsKept, ElemsTaken
  <1> HIDE DEF k, j
  <1>5. /\ j.call = k.call /\ j.at = k.at /\ j.puid = k.puid /\ j.used = k.used \cup {n}
        /\ j.attrs = k.attrs
        /\ j.pc \in {"below", "shelve"}
        /\ j.pc = "shelve" => j.old = n /\ j.then = "below"
    BY <1>1 DEF WithDoomed, WithDoomedStack, WithDoomedOldThenUnder
  <1>6. StepJoins(t, n)
    BY <1>1, <1>2, <1>3, <1>5, JoinsAt DEF k, j
  <1>7. OneTask(task[t], t)'
    BY <1>1, <1>2, <1>5 DEF OneTask, ReadUid, j
  <1>8. Emptied(task[t])' /\ AsRead(task[t])'
    BY <1>5 DEF Emptied, AsRead, j
  <1>9. StepTask(t, n, k, j)
    BY <1>5, <1>7, <1>8 DEF StepTask, Renaming, ReadUid
  <1> QED
    BY <1>4, <1>6, <1>9, StepParts DEF k, j

LEMMA PutStackStep ==
    ASSUME TypeInv, OneInv, NEW t \in Threads, PutStack(t)
    PROVE  \E m : Step(t, m)
  <1> DEFINE k    == task[t]
             j    == task'[t]
             none == <<>>
  <1> PICK n : n = k.at
    OBVIOUS
  <1>1. /\ k.pc = "below" /\ UNCHANGED <<use, packs, elems, nextUid>> /\ At(t, n) /\ Others(t)
        /\ \/ k.call.op = "addsubkey" /\ j = WithPcAtStack(k, n, "subs", k.call.key, none)
           \/ j = Idle
    BY PutStackEffect, Zenon DEF PutStackDoes
  <1>2. TypeInv' /\ n \in Names /\ OneTask(k, t)
    BY <1>1, PutStackType, CallFacts
  <1>3. StepElems(t, n, k)
    BY <1>1, <1>2, ElemsKept
  <1> HIDE DEF k, j, none
  <1>4. j.used \subseteq k.used \cup {n}
    BY <1>1 DEF WithPcAtStack, Idle
  <1>5. StepJoins(t, n)
    BY <1>1, <1>2, <1>4, JoinsAt DEF k, j
  <1>6. StepTask(t, n, k, j)
    <2>1. CASE j = Idle
      BY <1>2, <2>1, EndTask DEF k, j
    <2>2. CASE k.call.op = "addsubkey" /\ j = WithPcAtStack(k, n, "subs", k.call.key, none)
      <3>1. /\ j.pc = "subs" /\ j.call = k.call /\ j.at = k.call.key /\ j.attrs = NoAttrs
            /\ j.attrs = k.attrs /\ j.puid = k.puid /\ j.used = k.used \cup {n}
        BY <1>2, <2>2 DEF WithPcAtStack, OneTask
      <3>2. GetUniqId(NoAttrs) = 0
        BY DEF GetUniqId, HasAttr, NoAttrs
      <3>3. OneTask(task[t], t)'
        BY <1>1, <1>2, <2>2, <3>1, <3>2 DEF OneTask, ReadUid, NotMaking, j
      <3>4. Emptied(task[t])' /\ AsRead(task[t])'
        BY <3>1 DEF Emptied, AsRead, j
      <3> QED
        BY <3>1, <3>2, <3>3, <3>4 DEF StepTask, ReadUid, Renaming
    <2> QED
      BY <1>1, <2>1, <2>2
  <1> QED
    BY <1>3, <1>5, <1>6, StepParts DEF k, j

\* AddAttr puts the unique id back that it has read.
LEMMA ReplacedStep ==
    ASSUME TypeInv, OneInv, NEW t \in Threads, Replaced(t)
    PROVE  \E m : Step(t, m)
  <1> DEFINE k    == task[t]
             j    == task'[t]
             e    == Found(elems, Live(k.call.key))
             none == <<>>
             no   == FALSE
  <1> PICK n : n = k.call.key
    OBVIOUS
  <1>1. /\ k.pc = "replace" /\ UNCHANGED <<use, packs, nextUid>> /\ At(t, n) /\ Others(t)
        /\ \/ /\ Missing(elems, Live(n)) /\ UNCHANGED elems
              /\ j = WithAfresh(k, n, "take", n, NoText, no, 0, none, none)
           \/ /\ ~Missing(elems, Live(n)) /\ j = Idle
              /\ elems' = Reattributed(elems, Live(n), k.attrs)
           \/ /\ ~Missing(elems, Live(n)) /\ j = Idle
              /\ elems' = Relisted(elems, Live(n), k.subs)
    BY ReplacedEffect, Zenon DEF ReplacedDoes
  <1>2. /\ TypeInv' /\ OneTask(k, t) /\ AsRead(k) /\ n \in Names /\ n = k.at
        /\ Live(n) \in Keys /\ StoreOK(elems) /\ k.subs \in Seq(Names) /\ Ascending(k.subs)
    <2>1. TypeInv' /\ OneTask(k, t) /\ AsRead(k) /\ TaskOK(k, packs[t].history) /\ k.at \in Names
      BY <1>1, ReplacedType, CallFacts
    <2>2. n = k.at
      BY <1>1, <2>1 DEF OneTask
    <2> HIDE DEF k
    <2> QED
      BY <2>1, <2>2, NamesFacts DEF TypeInv, TaskOK
  <1> DEFINE x == WithAttrs(e, k.attrs)
             y == WithSubs(e, k.subs)
  <1>3. ~Missing(elems, Live(n)) =>
          /\ IsElem(x) /\ GetUniqId(x.attrs) = ReadUid(k)
          /\ IsElem(y) /\ GetUniqId(y.attrs) \in Uids(n)
          /\ Reattributed(elems, Live(n), k.attrs) = Changed(elems, Live(n), x)
          /\ Relisted(elems, Live(n), k.subs) = Changed(elems, Live(n), y)
    <2> SUFFICES ASSUME ~Missing(elems, Live(n))
                 PROVE  /\ IsElem(x) /\ GetUniqId(x.attrs) = ReadUid(k)
                        /\ IsElem(y) /\ GetUniqId(y.attrs) \in Uids(n)
                        /\ Reattributed(elems, Live(n), k.attrs) = Changed(elems, Live(n), x)
                        /\ Relisted(elems, Live(n), k.subs) = Changed(elems, Live(n), y)
      OBVIOUS
    <2>1. e \in ToSet(elems[Live(n)]) /\ IsElem(e)
      BY <1>2, FoundFacts DEF StoreOK
    <2>2. /\ Reattributed(elems, Live(n), k.attrs) = Changed(elems, Live(n), x)
          /\ Relisted(elems, Live(n), k.subs) = Changed(elems, Live(n), y)
      BY <1>2, ChangedParts
    <2> HIDE DEF e, k
    <2>3. IsElem(x) /\ IsElem(y) /\ x.attrs = k.attrs /\ y.attrs = e.attrs
      BY <1>2, <2>1, PartsElem
    <2> HIDE DEF x, y
    <2> QED
      BY <2>1, <2>2, <2>3 DEF Uids, ReadUid
  <1> HIDE DEF x, y, e, none, no
  <1>4. StepElems(t, n, k)
    <2>1. CASE UNCHANGED elems
      BY <1>1, <1>2, <2>1, ElemsKept
    <2>2. CASE ~Missing(elems, Live(n)) /\ elems' = Reattributed(elems, Live(n), k.attrs)
      <3>1. elems' = Changed(elems, Live(n), x) /\ IsElem(x)
        BY <1>3, <2>2
      <3>2. k.pc = "replace" /\ n = k.at /\ GetUniqId(x.attrs) = ReadUid(k)
        BY <1>1, <1>2, <1>3, <2>2
      <3> QED
        BY <1>1, <1>2, <2>2, <3>1, <3>2, ElemsChanged
    <2>3. CASE ~Missing(elems, Live(n)) /\ elems' = Relisted(elems, Live(n), k.subs)
      <3>1. elems' = Changed(elems, Live(n), y) /\ IsElem(y) /\ GetUniqId(y.attrs) \in Uids(n)
        BY <1>3, <2>3
      <3> QED
        BY <1>1, <1>2, <2>3, <3>1, ElemsChanged
    <2> QED
      BY <1>1, <2>1, <2>2, <2>3
  <1> HIDE DEF k, j
  <1>5. j.used \subseteq k.used \cup {n}
    BY <1>1 DEF WithAfresh, Idle
  <1>6. StepJoins(t, n)
    BY <1>1, <1>2, <1>5, JoinsAt DEF k, j
  <1>7. StepTask(t, n, k, j)
    <2>1. CASE j = Idle
      BY <1>2, <2>1, EndTask DEF k, j
    <2>2. CASE Missing(elems, Live(n)) /\ j = WithAfresh(k, n, "take", n, NoText, no, 0, none, none)
      <3>1. /\ j.pc = "take" /\ j.call = k.call /\ j.at = k.at /\ j.attrs = k.attrs
            /\ j.puid = 0 /\ j.used = k.used \cup {n}
        BY <1>2, <2>2 DEF WithAfresh
      <3>2. Uids(n) = {} /\ shared \subseteq shared'
        BY <1>2, <1>6, <2>2, UidFacts DEF StepJoins
      <3>3. 0 \in 0 .. nextUid' - 1
        <4>1. nextUid' \in Nat \ {0}
          BY <1>2, NamesFacts DEF TypeInv, Bounds
        <4> QED
          BY <4>1, RangeZero
      <3>4. OneTask(task[t], t)'
        BY <1>1, <1>2, <3>1, <3>3 DEF OneTask, ReadUid, NotMaking, j
      <3>5. ReadUid(j) # 0 => j.at \in shared'
        BY <1>1, <1>2, <3>1, <3>2 DEF AsRead, ReadUid
      <3>6. Emptied(task[t])' /\ AsRead(task[t])'
        BY <3>1, <3>5 DEF Emptied, AsRead, ReadUid, j
      <3> QED
        BY <3>1, <3>4, <3>6 DEF StepTask, ReadUid, Renaming
    <2> QED
      BY <1>1, <2>1, <2>2
  <1> QED
    BY <1>4, <1>6, <1>7, StepParts DEF k, j

LEMMA UnlistStep ==
    ASSUME TypeInv, OneInv, NEW t \in Threads, Unlist(t)
    PROVE  \E m : Step(t, m)
  <1> DEFINE k    == task[t]
             j    == task'[t]
             e    == Found(elems, Live(k.at))
             subs == Erase(e.subs, k.call.arg)
             one  == <<k.call.arg>>
             y    == WithSubs(e, subs)
  <1> PICK n : n = k.at
    OBVIOUS
  <1>1. /\ k.pc = "unlist" /\ UNCHANGED <<use, packs, nextUid>> /\ At(t, n) /\ Others(t)
        /\ \/ UNCHANGED elems /\ j = Idle
           \/ /\ ~Missing(elems, Live(n)) /\ elems' = Relisted(elems, Live(n), subs)
              /\ j = WithPcDoomed(k, n, "below", one)
    BY UnlistEffect, Zenon DEF UnlistDoes
  <1>2. /\ TypeInv' /\ OneTask(k, t) /\ n \in Names /\ k.call.arg \in Names
        /\ Live(n) \in Keys /\ StoreOK(elems) /\ Names \in SUBSET Nat
    <2>1. TypeInv' /\ OneTask(k, t) /\ n \in Names /\ TaskOK(k, packs[t].history)
      BY <1>1, UnlistType, CallFacts
    <2> HIDE DEF k
    <2> QED
      BY <1>1, <2>1, NamesFacts DEF TypeInv, TaskOK, WithArg
  <1>3. ~Missing(elems, Live(n)) =>
          IsElem(y) /\ GetUniqId(y.attrs) \in Uids(n)
          /\ Relisted(elems, Live(n), subs) = Changed(elems, Live(n), y)
    <2> SUFFICES ASSUME ~Missing(elems, Live(n))
                 PROVE  IsElem(y) /\ GetUniqId(y.attrs) \in Uids(n)
                        /\ Relisted(elems, Live(n), subs) = Changed(elems, Live(n), y)
      OBVIOUS
    <2>1. e \in ToSet(elems[Live(n)]) /\ IsElem(e)
      BY <1>2, FoundFacts DEF StoreOK
    <2>2. Relisted(elems, Live(n), subs) = Changed(elems, Live(n), y)
      <3> HIDE DEF subs
      <3> QED
        BY <1>2, ChangedParts
    <2> HIDE DEF e, k
    <2>3. subs \in Seq(Names) /\ Ascending(subs)
      <3>1. e.subs \in Seq(Names) /\ Ascending(e.subs)
        BY <2>1 DEF IsElem
      <3> QED
        BY <1>2, <3>1, EraseKeepsOrder
    <2> HIDE DEF subs
    <2>4. IsElem(y) /\ y.attrs = e.attrs
      BY <2>1, <2>3, PartsElem
    <2> HIDE DEF y
    <2> QED
      BY <2>1, <2>2, <2>4 DEF Uids
  <1> HIDE DEF y, e, subs, one
  <1>4. StepElems(t, n, k)
    <2>1. CASE UNCHANGED elems
      BY <1>1, <1>2, <2>1, ElemsKept
    <2>2. CASE ~Missing(elems, Live(n)) /\ elems' = Relisted(elems, Live(n), subs)
      <3>1. elems' = Changed(elems, Live(n), y) /\ IsElem(y) /\ GetUniqId(y.attrs) \in Uids(n)
        BY <1>3, <2>2
      <3> QED
        BY <1>1, <1>2, <2>2, <3>1, ElemsChanged
    <2> QED
      BY <1>1, <2>1, <2>2
  <1> HIDE DEF k, j
  <1>5. j.used \subseteq k.used \cup {n}
    BY <1>1 DEF WithPcDoomed, Idle
  <1>6. StepJoins(t, n)
    BY <1>1, <1>2, <1>5, JoinsAt DEF k, j
  <1>7. StepTask(t, n, k, j)
    <2>1. CASE j = Idle
      BY <1>2, <2>1, EndTask DEF k, j
    <2>2. CASE j = WithPcDoomed(k, n, "below", one)
      <3>1. /\ j.pc = "below" /\ j.call = k.call /\ j.at = k.at /\ j.attrs = k.attrs
            /\ j.puid = k.puid /\ j.used = k.used \cup {n}
        BY <2>2 DEF WithPcDoomed
      <3>2. OneTask(task[t], t)'
        BY <1>1, <1>2, <3>1 DEF OneTask, ReadUid, NotMaking, j
      <3>3. Emptied(task[t])' /\ AsRead(task[t])'
        BY <3>1 DEF Emptied, AsRead, j
      <3> QED
        BY <3>1, <3>2, <3>3 DEF StepTask, ReadUid, Renaming
    <2> QED
      BY <1>1, <2>1, <2>2
  <1> QED
    BY <1>4, <1>6, <1>7, StepParts DEF k, j

LEMMA MoveStep ==
    ASSUME TypeInv, OneInv, NEW t \in Threads, Move(t)
    PROVE  \E m : Step(t, m)
  <1> DEFINE k    == task[t]
             j    == task'[t]
             e    == Found(elems, Live(k.at))
             held == WithPast(e, <<>>)
  <1> PICK n : n = k.at
    OBVIOUS
  <1>1. /\ k.pc = "move" /\ UNCHANGED <<use, packs, nextUid>> /\ At(t, n) /\ Others(t)
        /\ \/ UNCHANGED elems /\ j = Idle
           \/ /\ ~Missing(elems, Live(n)) /\ elems' = Take(elems, Live(n))
              /\ j = WithPcHeld(k, n, "moved", held)
    BY MoveEffect, Zenon DEF MoveDoes
  <1>2. TypeInv' /\ OneTask(k, t) /\ n \in Names /\ nextUid <= nextUid'
    BY <1>1, MoveType, CallFacts, UidFacts
  <1>3. ~Missing(elems, Live(n)) => GetUniqId(held.attrs) \in Uids(n)
    <2>1. ~Missing(elems, Live(n)) => e \in ToSet(elems[Live(n)])
      BY <1>2, NamesFacts, FoundFacts DEF TypeInv
    <2>2. held.attrs = e.attrs
      BY DEF WithPast
    <2> QED
      BY <2>1, <2>2 DEF Uids
  <1> HIDE DEF e, held
  <1>4. StepElems(t, n, k)
    BY <1>1, <1>2, ElemsKept, ElemsTaken
  <1>5. ~Missing(elems, Live(n)) /\ elems' = Take(elems, Live(n)) => Missing(elems', Live(n))
    BY <1>2, ElemsTaken
  <1> HIDE DEF k, j
  <1>6. j.used \subseteq k.used \cup {n}
    BY <1>1 DEF WithPcHeld, Idle
  <1>7. StepJoins(t, n)
    BY <1>1, <1>2, <1>6, JoinsAt DEF k, j
  <1>8. StepTask(t, n, k, j)
    <2>1. CASE j = Idle
      BY <1>2, <2>1, EndTask DEF k, j
    <2>2. CASE /\ ~Missing(elems, Live(n)) /\ elems' = Take(elems, Live(n))
               /\ j = WithPcHeld(k, n, "moved", held)
      <3>1. /\ j.pc = "moved" /\ j.call = k.call /\ j.at = k.at /\ j.attrs = k.attrs
            /\ j.puid = k.puid /\ j.used = k.used \cup {n} /\ HeldUid(j) \in Uids(n)
            /\ j.at = n /\ Missing(elems', Live(n))
        BY <1>3, <1>5, <2>2 DEF WithPcHeld, HeldUid, k
      <3>2. HeldUid(j) \in 0 .. nextUid - 1
        BY <1>2, <3>1, UidFacts
      <3>3. OneTask(task[t], t)'
        BY <1>1, <1>2, <3>1, <3>2 DEF OneTask, ReadUid, HeldUid, NotMaking, j
      <3>4. Emptied(task[t])' /\ AsRead(task[t])'
        BY <3>1 DEF Emptied, AsRead, Missing, j
      <3> QED
        BY <1>1, <3>1, <3>3, <3>4 DEF StepTask, ReadUid, HeldUid, Renaming
    <2> QED
      BY <1>1, <2>1, <2>2
  <1> QED
    BY <1>4, <1>7, <1>8, StepParts DEF k, j

\* The element arrives at a name that was kept free for it.
LEMMA MovedStep ==
    ASSUME TypeInv, OneInv, NEW t \in Threads, Moved(t)
    PROVE  \E m : Step(t, m)
  <1> DEFINE k    == task[t]
             j    == task'[t]
             none == <<>>
             one  == <<Rename(Live(k.at), Live(k.call.arg), NoAttrs)>>
  <1> PICK n : n = k.call.arg
    OBVIOUS
  <1>1. /\ k.pc = "moved" /\ UNCHANGED <<use, packs, nextUid>> /\ Others(t)
        /\ elems' = Put(elems, Live(n), k.held)
        /\ shared' = BothNames(IF \E u \in Threads \ {t} : n \in task[u].used
                               THEN shared \cup {k.at, n} ELSE shared, k.at, n)
        /\ j = WithMoved(k, n, "below", none, one)
    BY MovedEffect, Zenon DEF MovedDoes
  <1>2. /\ TypeInv' /\ OneTask(k, t) /\ nextUid <= nextUid' /\ n \in Names /\ IsElem(k.held)
        /\ Missing(elems, Live(n))
    <2>1. TypeInv' /\ OneTask(k, t) /\ nextUid <= nextUid' /\ TaskOK(k, packs[t].history)
      BY <1>1, MovedType, CallFacts, UidFacts
    <2>2. Missing(elems, Live(n))
      BY <1>1 DEF OneInv, RenamesFree, Renaming
    <2> HIDE DEF k
    <2> QED
      BY <1>1, <2>1, <2>2 DEF TaskOK, WithArg
  <1> HIDE DEF none, one
  <1>3. StepElems(t, n, k)
    BY <1>1, <1>2, ElemsPut DEF HeldUid
  <1> HIDE DEF k, j
  <1>4. /\ j.pc = "below" /\ j.call = k.call /\ j.at = k.at /\ j.attrs = k.attrs
        /\ j.puid = k.puid /\ j.used = k.used \cup {n}
    BY <1>1 DEF WithMoved
  <1>5. StepJoins(t, n)
    BY <1>1, <1>2, <1>4 DEF StepJoins, BothNames, k, j
  <1>6. StepTask(t, n, k, j)
    <2>1. OneTask(task[t], t)'
      BY <1>1, <1>2, <1>4 DEF OneTask, ReadUid, NotMaking, j
    <2>2. Emptied(task[t])' /\ AsRead(task[t])'
      BY <1>4 DEF Emptied, AsRead, j
    <2> QED
      BY <1>4, <2>1, <2>2 DEF StepTask, ReadUid, Renaming
  <1> QED
    BY <1>3, <1>5, <1>6, StepParts DEF k, j

\* Steps that touch no key.
LEMMA StandOne ==
    ASSUME TypeInv, TypeInv', OneInv, UNCHANGED <<use, elems, nextUid, task, shared>>
    PROVE  OneInv'
  <1>1. \A t \in Threads : packs'[t].history = packs[t].history
    BY DEF TypeInv, PacksOK
  <1>2. \A t \in Threads : OneTask(task[t], t) => OneTask(task[t], t)'
    BY <1>1 DEF OneTask, ReadUid, HeldUid
  <1>3. OneTasks'
    BY <1>2 DEF OneInv, OneTasks
  <1>4. \A n \in Names : Uids(n)' = Uids(n)
    BY DEF Uids
  <1>5. FreeNames(use)' /\ Exclusive' /\ LiveOne' /\ RenamesFree' /\ VersionOne'
    BY DEF OneInv, FreeNames, Exclusive, LiveOne, RenamesFree, VersionOne, Missing, Renaming
  <1>6. Given'
    BY <1>4 DEF OneInv, Given
  <1>7. Empties'
    BY DEF OneInv, Empties, Emptied, AsRead, Missing, ReadUid, Uids
  <1>8. \A n, v, S : Only(n, v, S) => Only(n, v, S)'
    BY DEF Only, Elsewhere, ReadUid, HeldUid, Uids
  <1>9. OnlyLive' /\ OnlyTasks'
    BY <1>4, <1>8 DEF OneInv, OnlyLive, OnlyTasks, OnlyTask, ReadUid, HeldUid
  <1> QED
    BY <1>3, <1>5, <1>6, <1>7, <1>9 DEF OneInv

\* At the start a key has at most one element, without ids, and no versions.
LEMMA StartElements ==
    ASSUME Init, NEW n \in Names
    PROVE  /\ Len(elems[Live(n)]) <= 1
           /\ \A e \in ToSet(elems[Live(n)]) :
                 GetUniqId(e.attrs) = 0 /\ Parent(e.attrs) = 0 /\ e.past = <<>>
           /\ \A v \in 1 .. MaxUid : elems[MakeHistoryKey(n, v)] = <<>>
  <1> DEFINE x == WithPast(use.start[n], <<>>)
  <1>1. /\ use \in Uses
        /\ elems = [k \in Keys |-> IF k[2] = 0 /\ k[1] \in DOMAIN use.start
                                   THEN <<WithPast(use.start[k[1]], <<>>)>> ELSE <<>>]
    BY DEF Init
  <1>2. elems[Live(n)] = IF n \in DOMAIN use.start THEN <<x>> ELSE <<>>
    <2>1. Live(n) \in Keys /\ Live(n)[1] = n /\ Live(n)[2] = 0
      BY NamesFacts
    <2> QED
      BY <1>1, <2>1
  <1>3. x.attrs = use.start[n].attrs /\ x.past = <<>>
    BY DEF WithPast
  <1> HIDE DEF x
  <1>4. ASSUME n \in DOMAIN use.start
        PROVE  GetUniqId(x.attrs) = 0 /\ Parent(x.attrs) = 0
    <2>1. DOMAIN x.attrs \cap {"uniqid", "parentuniqid", "hismark"} = {}
      BY <1>1, <1>3, <1>4, UsesAssumption
    <2> QED
      BY <2>1 DEF GetUniqId, Parent, HasAttr
  <1>5. ASSUME NEW v \in 1 .. MaxUid PROVE elems[MakeHistoryKey(n, v)] = <<>>
    <2>1. MakeHistoryKey(n, v) \in Keys /\ MakeHistoryKey(n, v)[2] # 0
      BY NamesFacts DEF MakeHistoryKey, Keys
    <2> QED
      BY <1>1, <2>1
  <1>6. \A e \in ToSet(elems[Live(n)]) : n \in DOMAIN use.start /\ e = x
    BY <1>2, ListOne, ListEmpty
  <1>7. Len(elems[Live(n)]) <= 1
    BY <1>2, ListOne, ListEmpty
  <1> QED
    BY <1>3, <1>4, <1>5, <1>6, <1>7

LEMMA InitOne ==
    ASSUME Init, FreeNames(use)
    PROVE  OneInv
  <1>1. nextUid = 1 /\ task = [t \in Threads |-> Idle]
    BY DEF Init
  <1>2. ASSUME NEW n \in Names
        PROVE  Len(elems[Live(n)]) <= 1 /\ Uids(n) \subseteq {0}
    BY StartElements DEF Uids
  <1>3. ASSUME NEW n \in Names, NEW v \in 1 .. MaxUid
        PROVE  elems[MakeHistoryKey(n, v)] = <<>>
    BY StartElements
  <1>4. GetUniqId(NoAttrs) = 0 /\ 0 \in 0 .. nextUid - 1
    BY <1>1 DEF GetUniqId, HasAttr, NoAttrs
  <1>5. \A t \in Threads : /\ task[t].pc = "idle" /\ task[t].call.op = "none" /\ task[t].used = {}
                           /\ task[t].attrs = NoAttrs /\ task[t].puid = 0
    BY <1>1 DEF Idle, NoCall
  <1>6. OneTasks
    BY <1>4, <1>5 DEF OneTasks, OneTask, ReadUid
  <1>7. Given
    BY <1>2, <1>3, <1>4 DEF Given
  <1>8. Exclusive /\ RenamesFree /\ Empties /\ OnlyTasks
    BY <1>5 DEF Exclusive, RenamesFree, Renaming, Empties, Emptied, AsRead, OnlyTasks, OnlyTask
  <1>9. LiveOne
    BY <1>2 DEF LiveOne
  <1>10. OnlyLive
    BY <1>2 DEF OnlyLive
  <1>11. VersionOne
    BY <1>3, <1>5, ListEmpty DEF VersionOne
  <1> QED
    BY <1>6, <1>7, <1>8, <1>9, <1>10, <1>11 DEF OneInv

LEMMA NextOne ==
    ASSUME TypeInv, OneInv, [Next]_vars
    PROVE  OneInv'
  <1>0. TypeInv'
    BY NextType
  <1>1. CASE UNCHANGED vars
    BY <1>0, <1>1, StandOne DEF vars
  <1>2. CASE Tick
    BY <1>0, <1>2, StandOne DEF Tick
  <1>3. CASE Finished
    BY <1>0, <1>3, StandOne DEF Finished, vars
  <1>4. CASE \E t \in Threads : AddPass(t)
    BY <1>0, <1>4, StandOne DEF AddPass
  <1>5. ASSUME NEW t \in Threads, Calls(t)
        PROVE  OneInv'
    BY <1>5, BeginsStep, StepOne
  <1>6. ASSUME NEW t \in Threads, Acts(t)
        PROVE  OneInv'
    BY <1>6, GetTrialStep, ReadSubsStep, ReadAttrsStep, TakeOldStep, ShelveStep, ShelvedStep,
       InsertNewStep, BelowStep, PutStackStep, ReplacedStep, UnlistStep, MoveStep, MovedStep, StepOne
    DEF Acts
  <1> QED
    BY <1>1, <1>2, <1>3, <1>4, <1>5, <1>6 DEF Next, Calls, Acts

LEMMA OneInvOne ==
    ASSUME TypeInv, OneInv
    PROVE  OneElementPerKey
  <1> SUFFICES ASSUME NEW k \in Keys, k[2] = 0 \/ k[1] \notin shared
               PROVE  Len(elems[k]) <= 1
    BY DEF OneElementPerKey
  <1>1. k = <<k[1], k[2]>> /\ k[1] \in Names /\ k[2] \in 0 .. MaxUid /\ MaxUid \in Nat
    BY NamesFacts DEF Keys
  <1>2. CASE k[2] = 0
    BY <1>1, <1>2 DEF OneInv, LiveOne, Live
  <1>3. CASE k[2] # 0
    <2>1. k[2] \in 1 .. MaxUid
      BY <1>1, <1>3
    <2> QED
      BY <1>1, <1>3, <2>1 DEF OneInv, VersionOne, MakeHistoryKey
  <1> QED
    BY <1>2, <1>3

\* However the calls of any number of threads interleave, no key is in the file twice,
\* and no version of a key that only one call was at at a time: in every use in which
\* the callers rename only to names that no call makes.
THEOREM OneElementPerKeyHolds ==
    ASSUME \A u \in Uses : FreeNames(u)
    PROVE  Spec => []OneElementPerKey
  <1>1. Init => TypeInv /\ OneInv
    BY InitType, InitOne DEF Init
  <1>2. TypeInv /\ OneInv /\ [Next]_vars => (TypeInv /\ OneInv)'
    BY NextType, NextOne
  <1>3. TypeInv /\ OneInv => OneElementPerKey
    BY OneInvOne
  <1> QED
    BY <1>1, <1>2, <1>3, PTL DEF Spec

LEMMA PutAgree ==
    ASSUME NEW K \in SUBSET Keys, NEW a, NEW b, Agree(a, b, K), NEW key, NEW e
    PROVE  /\ Agree(Put(a, key, e), Put(b, key, e), K)
           /\ key \notin K => Agree(Put(a, key, e), b, K)
  BY DEF Agree, Put

LEMMA TakeAgree ==
    ASSUME NEW K \in SUBSET Keys, NEW a, NEW b, Agree(a, b, K), NEW key
    PROVE  /\ Agree(Take(a, key), Take(b, key), K)
           /\ key \notin K => Agree(Take(a, key), b, K)
  BY DEF Agree, Take

LEMMA ReplaceAgree ==
    ASSUME NEW K \in SUBSET Keys, NEW a, NEW b, Agree(a, b, K), NEW key \in Keys,
           NEW part, NEW data
    PROVE  /\ Agree(Replace(a, key, part, data), Replace(b, key, part, data), K)
           /\ key \notin K => Agree(Replace(a, key, part, data), b, K)
  <1> DEFINE e    == WithPart(ElementOf(NoValue, <<>>, NoAttrs), part, data)
             set  == UpdateAttr(Unset, e.attrs, NoText, NoPass, NotExpire, 0, 0)
             new  == [e EXCEPT !.attrs = set.attrs]
             ca   == [a EXCEPT ![key][1] = WithPart(@, part, data)]
             cb   == [b EXCEPT ![key][1] = WithPart(@, part, data)]
  <1>1. /\ Replace(a, key, part, data) = IF Missing(a, key) THEN Put(a, key, new) ELSE ca
        /\ Replace(b, key, part, data) = IF Missing(b, key) THEN Put(b, key, new) ELSE cb
    BY Zenon DEF Replace
  <1>2. /\ Agree(ca, cb, K)
        /\ key \notin K => Agree(ca, b, K)
    BY DEF Agree
  <1> HIDE DEF new, ca, cb
  <1>3. /\ Agree(Put(a, key, new), Put(b, key, new), K)
        /\ key \notin K => Agree(Put(a, key, new), b, K)
    BY PutAgree
  <1>4. CASE key \in K
    <2>1. Missing(a, key) <=> Missing(b, key)
      BY <1>4 DEF Agree, Missing
    <2> QED
      BY <1>1, <1>2, <1>3, <1>4, <2>1
  <1>5. CASE key \notin K
    <2>1. /\ Agree(Replace(a, key, part, data), b, K)
          /\ Agree(b, b, K)
      BY <1>1, <1>2, <1>3, <1>5 DEF Agree
    <2>2. Agree(Replace(b, key, part, data), b, K)
      <3>1. Agree(cb, b, K)
        BY <1>5, <2>1 DEF Agree, cb
      <3>2. Agree(Put(b, key, new), b, K)
        BY <1>5, <2>1, PutAgree
      <3> QED
        BY <1>1, <3>1, <3>2
    <2> HIDE DEF ca, cb, new
    <2> QED
      BY <2>1, <2>2 DEF Agree
  <1> QED
    BY <1>4, <1>5

LEMMA ReplacePartsAgree ==
    ASSUME NEW K \in SUBSET Keys, NEW a, NEW b, Agree(a, b, K), NEW key \in Keys, NEW e
    PROVE  /\ Agree(ReplaceParts(a, key, e), ReplaceParts(b, key, e), K)
           /\ key \notin K => Agree(ReplaceParts(a, key, e), b, K)
  <1> DEFINE Valued(s) == Replace(s, key, "value", e.value)
             Listed(s) == IF e.subs = <<>> THEN Valued(s) ELSE Replace(Valued(s), key, "subs", e.subs)
             Done(s)   == IF e.attrs = NoAttrs THEN Listed(s) ELSE Replace(Listed(s), key, "attrs", e.attrs)
  <1>1. \A s : ReplaceParts(s, key, e) = Done(s)
    BY Zenon DEF ReplaceParts
  <1>2. /\ Agree(Valued(a), Valued(b), K)
        /\ key \notin K => Agree(Valued(a), b, K)
    BY ReplaceAgree
  <1> HIDE DEF Valued
  <1>3. /\ Agree(Replace(Valued(a), key, "subs", e.subs), Replace(Valued(b), key, "subs", e.subs), K)
        /\ key \notin K => Agree(Replace(Valued(a), key, "subs", e.subs), b, K)
    BY <1>2, ReplaceAgree
  <1>4. /\ Agree(Listed(a), Listed(b), K)
        /\ key \notin K => Agree(Listed(a), b, K)
    BY <1>2, <1>3
  <1> HIDE DEF Listed
  <1>5. /\ Agree(Replace(Listed(a), key, "attrs", e.attrs), Replace(Listed(b), key, "attrs", e.attrs), K)
        /\ key \notin K => Agree(Replace(Listed(a), key, "attrs", e.attrs), b, K)
    BY <1>4, ReplaceAgree
  <1>6. /\ Agree(Done(a), Done(b), K)
        /\ key \notin K => Agree(Done(a), b, K)
    BY <1>4, <1>5
  <1> HIDE DEF Done
  <1> QED
    BY <1>1, <1>6

LEMMA RenameAgree ==
    ASSUME NEW K \in SUBSET Keys, NEW a, NEW b, Agree(a, b, K), NEW key \in Keys, NEW data,
           data.new \in K => key \in K
    PROVE  /\ Agree(RenameIn(a, key, data), RenameIn(b, key, data), K)
           /\ key \notin K => Agree(RenameIn(a, key, data), b, K)
  <1> DEFINE With(s) == [Found(s, key) EXCEPT !.attrs = IF data.attrs = NoAttrs THEN @ ELSE data.attrs]
             Done(s) == Put(Take(s, key), data.new, With(s))
  <1>1. \A s : RenameIn(s, key, data) = IF Missing(s, key) THEN s ELSE Done(s)
    BY Zenon DEF RenameIn
  <1>2. CASE key \in K
    <2>1. (Missing(a, key) <=> Missing(b, key)) /\ Found(a, key) = Found(b, key)
      BY <1>2 DEF Agree, Missing, Found
    <2>2. With(a) = With(b)
      BY <2>1
    <2> HIDE DEF With
    <2>3. Agree(Take(a, key), Take(b, key), K)
      BY TakeAgree
    <2>4. Agree(Done(a), Done(b), K)
      BY <2>2, <2>3, PutAgree
    <2> HIDE DEF Done
    <2> QED
      BY <1>1, <1>2, <2>1, <2>4
  <1>3. CASE key \notin K
    <2> HIDE DEF With
    <2>1. \A s : Agree(s, b, K) => Agree(Done(s), b, K)
      <3> SUFFICES ASSUME NEW s, Agree(s, b, K) PROVE Agree(Done(s), b, K)
        OBVIOUS
      <3>1. Agree(Take(s, key), b, K)
        BY <1>3, TakeAgree
      <3> QED
        BY <1>3, <3>1, PutAgree
    <2>2. Agree(b, b, K)
      BY DEF Agree
    <2> HIDE DEF Done
    <2>3. Agree(RenameIn(a, key, data), b, K) /\ Agree(RenameIn(b, key, data), b, K)
      BY <1>1, <2>1, <2>2
    <2> QED
      BY <2>3 DEF Agree
  <1> QED
    BY <1>2, <1>3

LEMMA LoadAgree ==
    ASSUME NEW K \in SUBSET Keys, NEW a, NEW b, Agree(a, b, K), NEW c, c.type \in CommandTypes,
           Stays(c, K)
    PROVE  /\ Agree(Load(a, c), Load(b, c), K)
           /\ Apart(c, K) => Agree(Load(a, c), b, K)
  <1>1. CASE c.type = "SET_ALL"
    <2>1. \A s : Load(s, c) = ReplaceParts(s, c.key, c.data)
      BY <1>1 DEF Load
    <2> QED
      BY <2>1, ReplacePartsAgree DEF Stays, Apart
  <1>2. CASE c.type = "REPLACE_SKEY"
    <2>1. \A s : Load(s, c) = Replace(s, c.key, "subs", c.data)
      BY <1>2 DEF Load
    <2> QED
      BY <2>1, ReplaceAgree DEF Stays, Apart
  <1>3. CASE c.type = "REPLACE_ATTRS"
    <2>1. \A s : Load(s, c) = Replace(s, c.key, "attrs", c.data)
      BY <1>3 DEF Load
    <2> QED
      BY <2>1, ReplaceAgree DEF Stays, Apart
  <1>4. CASE c.type = "DEL_KEY"
    <2>1. \A s : Load(s, c) = IF Missing(s, c.key) THEN s ELSE Take(s, c.key)
      BY <1>4 DEF Load
    <2>2. /\ Agree(Take(a, c.key), Take(b, c.key), K)
          /\ c.key \notin K => Agree(Take(a, c.key), b, K)
      BY TakeAgree
    <2>3. CASE c.key \in K
      <3>1. Missing(a, c.key) <=> Missing(b, c.key)
        BY <2>3 DEF Agree, Missing
      <3> QED
        BY <2>1, <2>2, <2>3, <3>1 DEF Apart
    <2>4. CASE c.key \notin K
      <3>1. Agree(b, b, K)
        BY DEF Agree
      <3>2. Agree(Take(b, c.key), b, K)
        BY <2>4, <3>1, TakeAgree
      <3>3. Agree(Load(a, c), b, K) /\ Agree(Load(b, c), b, K)
        BY <2>1, <2>2, <2>4, <3>1, <3>2
      <3> QED
        BY <3>3 DEF Agree
    <2> QED
      BY <2>3, <2>4
  <1>5. CASE c.type = "RENAME"
    <2>1. \A s : Load(s, c) = RenameIn(s, c.key, c.data)
      BY <1>5 DEF Load
    <2> QED
      BY <1>5, <2>1, RenameAgree DEF Stays, Apart
  <1> QED
    BY <1>1, <1>2, <1>3, <1>4, <1>5 DEF CommandTypes

\* The same of a whole archive.
LEMMA LoadAllAgree ==
    ASSUME NEW K \in SUBSET Keys, NEW a, NEW b, Agree(a, b, K), NEW list, IsCommands(list),
           \A c \in ToSet(list) : Stays(c, K)
    PROVE  Agree(LoadAll(a, list), LoadAll(b, list), K)
  <1>1. /\ IsList(list) /\ Len(list) \in Nat
        /\ \A n \in 1 .. Len(list) : list[n].type \in CommandTypes /\ Stays(list[n], K)
    BY ListMembers DEF IsCommands
  <1>21. PICK f : Replays(f, a, list)
    BY <1>1, LoadAllSteps
  <1>22. PICK g : Replays(g, b, list)
    BY <1>1, LoadAllSteps
  <1>2. /\ f[0] = a /\ g[0] = b
        /\ \A n \in 1 .. Len(list) : f[n] = Load(f[n - 1], list[n]) /\ g[n] = Load(g[n - 1], list[n])
        /\ LoadAll(a, list) = f[Len(list)] /\ LoadAll(b, list) = g[Len(list)]
    BY <1>21, <1>22 DEF Replays
  <1> DEFINE S == {n \in Nat : n <= Len(list) => Agree(f[n], g[n], K)}
  <1>3. 0 \in S
    BY <1>2
  <1>4. ASSUME NEW n \in S PROVE n + 1 \in S
    <2> SUFFICES ASSUME n + 1 <= Len(list) PROVE Agree(f[n + 1], g[n + 1], K)
      OBVIOUS
    <2>1. /\ n \in Nat /\ n + 1 \in 1 .. Len(list) /\ (n + 1) - 1 = n
          /\ Agree(f[n], g[n], K)
      BY <1>1
    <2>2. f[n + 1] = Load(f[n], list[n + 1]) /\ g[n + 1] = Load(g[n], list[n + 1])
      BY <1>2, <2>1
    <2> QED
      BY <1>1, <2>1, <2>2, LoadAgree
  <1>5. S = Nat
    <2>1. S \in SUBSET Nat
      OBVIOUS
    <2> HIDE DEF S
    <2> QED
      BY <1>3, <1>4, <2>1, SetInduction
  <1> QED
    BY <1>1, <1>2, <1>5

LEMMA LoadAllApart ==
    ASSUME NEW K \in SUBSET Keys, NEW a, DOMAIN a = Keys, NEW list, IsCommands(list),
           \A c \in ToSet(list) : Apart(c, K)
    PROVE  Agree(LoadAll(a, list), a, K)
  <1>1. /\ IsList(list) /\ Len(list) \in Nat
        /\ \A n \in 1 .. Len(list) :
              list[n].type \in CommandTypes /\ Stays(list[n], K) /\ Apart(list[n], K)
    BY ListMembers DEF IsCommands, Stays, Apart
  <1>21. PICK f : Replays(f, a, list)
    BY <1>1, LoadAllSteps
  <1>2. /\ f[0] = a
        /\ \A n \in 1 .. Len(list) : f[n] = Load(f[n - 1], list[n])
        /\ LoadAll(a, list) = f[Len(list)]
    BY <1>21 DEF Replays
  <1> DEFINE S == {n \in Nat : n <= Len(list) => Agree(f[n], a, K)}
  <1>3. 0 \in S
    BY <1>2 DEF Agree
  <1>4. ASSUME NEW n \in S PROVE n + 1 \in S
    <2> SUFFICES ASSUME n + 1 <= Len(list) PROVE Agree(f[n + 1], a, K)
      OBVIOUS
    <2>1. /\ n \in Nat /\ n + 1 \in 1 .. Len(list) /\ (n + 1) - 1 = n
          /\ Agree(f[n], a, K)
      BY <1>1
    <2>2. f[n + 1] = Load(f[n], list[n + 1])
      BY <1>2, <2>1
    <2> QED
      BY <1>1, <2>1, <2>2, LoadAgree
  <1>5. S = Nat
    <2>1. S \in SUBSET Nat
      OBVIOUS
    <2> HIDE DEF S
    <2> QED
      BY <1>3, <1>4, <2>1, SetInduction
  <1> QED
    BY <1>1, <1>2, <1>5

\* Lists of elements, and the same without their texts.
LEMMA BareFacts ==
    ASSUME NEW s, IsList(s)
    PROVE  /\ IsList(BareList(s)) /\ Len(BareList(s)) = Len(s)
           /\ BareList(s) = <<>> <=> s = <<>>
           /\ \A i \in 1 .. Len(s) : BareList(s)[i] = Bare(s[i])
           /\ s # <<>> => /\ Head(BareList(s)) = Bare(Head(s))
                          /\ Tail(BareList(s)) = BareList(Tail(s))
  <1> DEFINE T == {Bare(s[i]) : i \in 1 .. Len(s)}
             b == BareList(s)
             L == Len(s)
  <1>1. L \in Nat /\ DOMAIN s = 1 .. L /\ (s = <<>> <=> L = 0)
    BY ListMembers
  <1>2. b = [i \in 1 .. L |-> Bare(s[i])]
    BY <1>1 DEF BareList
  <1> HIDE DEF L
  <1>3. b \in Seq(T) /\ Len(b) = L
    <2> HIDE DEF b
    <2>1. \A i \in 1 .. L : Bare(s[i]) \in T
      BY DEF L
    <2> HIDE DEF T
    <2>2. b \in [1 .. L -> T]
      BY <1>2, <2>1
    <2> QED
      BY <1>1, <2>2
  <1> HIDE DEF b
  <1>4. IsList(b) /\ (b = <<>> <=> L = 0)
    BY <1>1, <1>3, ListOf, ListMembers
  <1>5. \A i \in 1 .. L : b[i] = Bare(s[i])
    BY <1>2
  <1>6. ASSUME s # <<>>
        PROVE  Head(b) = Bare(Head(s)) /\ Tail(b) = BareList(Tail(s))
    <2>1. /\ IsList(Tail(s)) /\ Len(Tail(s)) = L - 1 /\ Head(s) = s[1] /\ L \in Nat \ {0}
          /\ \A i \in 1 .. L - 1 : Tail(s)[i] = s[i + 1]
      BY <1>6, ListTail DEF L
    <2>2. /\ IsList(Tail(b)) /\ Len(Tail(b)) = L - 1 /\ Head(b) = b[1]
          /\ \A i \in 1 .. L - 1 : Tail(b)[i] = b[i + 1]
      BY <1>3, <1>4, <2>1, ListTail
    <2>3. 1 \in 1 .. L /\ \A i \in 1 .. L - 1 : i + 1 \in 1 .. L
      BY <2>1
    <2>4. DOMAIN Tail(s) = 1 .. L - 1
      BY <2>1, ListMembers
    <2>5. BareList(Tail(s)) = [i \in 1 .. L - 1 |-> Bare(s[i + 1])]
      BY <2>1, <2>4 DEF BareList
    <2>6. Tail(b) = [i \in 1 .. L - 1 |-> Bare(s[i + 1])]
      <3>1. Tail(b) = [i \in 1 .. L - 1 |-> Tail(b)[i]]
        <4> DEFINE u == Tail(b)
        <4>1. u \in Seq(ToSet(u)) /\ Len(u) = L - 1
          BY <2>2 DEF IsList
        <4> HIDE DEF u
        <4>2. u \in [1 .. Len(u) -> ToSet(u)]
          BY <4>1, LenProperties
        <4>3. u = [i \in 1 .. L - 1 |-> u[i]]
          BY <4>1, <4>2
        <4> QED
          BY <4>3 DEF u
      <3> QED
        BY <1>5, <2>2, <2>3, <3>1
    <2> QED
      BY <1>5, <2>1, <2>2, <2>3, <2>5, <2>6
  <1> QED
    BY <1>1, <1>3, <1>4, <1>5, <1>6 DEF b, L

LEMMA BareAppend ==
    ASSUME NEW s, NEW e, IsList(s)
    PROVE  BareList(Append(s, e)) = Append(BareList(s), Bare(e))
  <1> DEFINE L == Len(s)
             u == Append(s, e)
             a == BareList(s)
             c == Append(a, Bare(e))
  <1>1. /\ L \in Nat /\ IsList(u) /\ Len(u) = L + 1 /\ u[L + 1] = e
        /\ \A i \in 1 .. L : u[i] = s[i]
    BY ListMembers, ListAppend
  <1>2. IsList(a) /\ Len(a) = L /\ \A i \in 1 .. L : a[i] = Bare(s[i])
    BY BareFacts
  <1> HIDE DEF a, u, L
  <1>3. /\ IsList(c) /\ Len(c) = L + 1 /\ c[L + 1] = Bare(e)
        /\ \A i \in 1 .. L : c[i] = Bare(s[i])
    BY <1>2, ListAppend
  <1> HIDE DEF c
  <1>4. c = [i \in 1 .. L + 1 |-> c[i]]
    <2>1. c \in [1 .. Len(c) -> ToSet(c)]
      BY <1>3, LenProperties DEF IsList
    <2> QED
      BY <1>3, <2>1
  <1>5. BareList(u) = [i \in 1 .. L + 1 |-> Bare(u[i])]
    BY <1>1, ListMembers DEF BareList
  <1>6. \A i \in 1 .. L + 1 : c[i] = Bare(u[i])
    <2> SUFFICES ASSUME NEW i \in 1 .. L + 1 PROVE c[i] = Bare(u[i])
      OBVIOUS
    <2>1. i = L + 1 \/ i \in 1 .. L
      BY <1>1
    <2> QED
      BY <1>1, <1>3, <2>1
  <1>7. BareList(u) = c
    BY <1>4, <1>5, <1>6
  <1> QED
    BY <1>7 DEF c, a, u

LEMMA BareNone == BareList(<<>>) = <<>>
  BY BareFacts, ListEmpty

LEMMA BareOne ==
    ASSUME NEW s, IsList(s), s # <<>>, Len(s) <= 1
    PROVE  BareList(s) = <<Bare(Head(s))>>
  <1>1. /\ IsList(BareList(s)) /\ Len(BareList(s)) = Len(s)
        /\ BareList(s)[1] = Bare(s[1]) /\ Head(s) = s[1] /\ Len(s) = 1
    <2>1. Len(s) \in Nat \ {0} /\ Head(s) = s[1]
      BY ListTail
    <2> PICK n : n = Len(s)
      OBVIOUS
    <2>2. n \in Nat \ {0} /\ n <= 1
      BY <2>1
    <2>3. n = 1 /\ 1 \in 1 .. n
      BY <2>2
    <2> QED
      BY <2>1, <2>3, BareFacts
  <1> DEFINE b == BareList(s)
             x == Bare(Head(s))
  <1>2. b \in Seq(ToSet(b)) /\ Len(b) = 1 /\ b[1] = x
    BY <1>1 DEF IsList
  <1> HIDE DEF b, x
  <1>3. b \in [1 .. 1 -> ToSet(b)]
    BY <1>2, LenProperties
  <1>4. b = <<x>>
    <2>1. <<x>> = [i \in 1 .. 1 |-> x]
      OBVIOUS
    <2>2. \A i \in 1 .. 1 : b[i] = x
      BY <1>2
    <2> QED
      BY <1>3, <2>1, <2>2
  <1> QED
    BY <1>4 DEF b, x

\* What loading does at a key where the store is that of the file.
LEMMA DelMatches ==
    ASSUME NEW s, StoreOK(s), NEW key \in Keys, ~Missing(s, key), NEW p, DOMAIN p = Keys,
           p[key] = BareList(s[key])
    PROVE  Load(p, DelKey(key))[key] = BareList(Take(s, key)[key])
  <1>1. IsList(s[key]) /\ s[key] # <<>>
    BY DEF StoreOK, Missing
  <1>2. p[key] # <<>> /\ Tail(p[key]) = BareList(Tail(s[key]))
    BY <1>1, BareFacts
  <1>3. Load(p, DelKey(key)) = Take(p, key)
    BY <1>2 DEF Load, DelKey, Missing
  <1>4. Take(p, key)[key] = Tail(p[key])
    BY DEF Take
  <1>5. Take(s, key)[key] = Tail(s[key])
    BY TakeFacts
  <1> QED
    BY <1>2, <1>3, <1>4, <1>5

LEMMA RenameMatches ==
    ASSUME NEW s, NEW p, NEW key, NEW new, NEW held, NEW a, NEW attrs,
           Carries(s, p, key, new, held, a, attrs)
    PROVE  /\ Load(p, Rename(key, new, attrs))[key] = <<>>
           /\ p[new] = BareList(s[new]) =>
                  Load(p, Rename(key, new, attrs))[new] = BareList(Put(s, new, held)[new])
  <1>0. /\ StoreOK(s) /\ key \in Keys /\ new \in Keys /\ key # new /\ IsElem(held)
        /\ held.attrs = (IF attrs = NoAttrs THEN a ELSE attrs)
        /\ DOMAIN p = Keys /\ p[key] = <<ElementOf(held.value, held.subs, a)>>
    BY DEF Carries
  <1> DEFINE data == [new |-> new, attrs |-> attrs]
             e    == ElementOf(held.value, held.subs, a)
             f    == [e EXCEPT !.attrs = IF attrs = NoAttrs THEN @ ELSE attrs]
  <1>1. Load(p, Rename(key, new, attrs)) = RenameIn(p, key, data)
    BY DEF Load, Rename
  <1>2. f = Bare(held)
    BY <1>0 DEF Bare, ElementOf
  <1>3. p[key] # <<>> /\ Head(p[key]) = e /\ Tail(p[key]) = <<>>
    <2> HIDE DEF e
    <2>1. p[key] = <<e>>
      BY <1>0 DEF e
    <2> QED
      BY <2>1
  <1>4. RenameIn(p, key, data) = Put(Take(p, key), new, f)
    <2>1. ~Missing(p, key) /\ Found(p, key) = e
      BY <1>3 DEF Missing, Found
    <2>2. data.new = new /\ data.attrs = attrs
      OBVIOUS
    <2> HIDE DEF e, data
    <2> QED
      BY <2>1, <2>2, Zenon DEF RenameIn
  <1> HIDE DEF f, e
  <1>5. /\ Put(Take(p, key), new, f)[key] = <<>>
        /\ Put(Take(p, key), new, f)[new] = Append(p[new], f)
    BY <1>0, <1>3 DEF Put, Take
  <1>6. Put(s, new, held)[new] = Append(s[new], held) /\ IsList(s[new])
    BY <1>0, PutFacts DEF StoreOK
  <1>7. p[new] = BareList(s[new]) => BareList(Append(s[new], held)) = Append(p[new], f)
    BY <1>0, <1>2, <1>6, BareAppend
  <1> QED
    BY <1>1, <1>4, <1>5, <1>6, <1>7

LEMMA ChangeMatches ==
    ASSUME NEW s, StoreOK(s), NEW key \in Keys, ~Missing(s, key), NEW p, DOMAIN p = Keys,
           p[key] = BareList(s[key]), NEW x
    PROVE  /\ Load(p, ReplaceAttrs(key, x))[key] = BareList(Reattributed(s, key, x)[key])
           /\ x \in Seq(Names) /\ Ascending(x) =>
                  Load(p, ReplaceSKey(key, x))[key] = BareList(Relisted(s, key, x)[key])
  <1> DEFINE L == Len(s[key])
             e == Found(s, key)
  <1>1. /\ IsList(s[key]) /\ s[key] # <<>> /\ IsElem(e) /\ e = s[key][1] /\ L \in Nat \ {0}
        /\ DOMAIN s[key] = 1 .. L
    BY FoundFacts, ListMembers DEF Missing
  <1>2. /\ p[key] # <<>> /\ DOMAIN p[key] = 1 .. L
        /\ p[key] = [i \in 1 .. L |-> Bare(s[key][i])]
    BY <1>1, BareFacts, ListMembers DEF BareList
  <1>3. ASSUME NEW f, IsElem(f), NEW g, Bare(f) = g
        PROVE  [p[key] EXCEPT ![1] = g] = BareList(Changed(s, key, f)[key])
    <2> DEFINE u == Changed(s, key, f)[key]
    <2>1. /\ Len(u) = L /\ \A i \in 1 .. L : u[i] = IF i = 1 THEN f ELSE s[key][i]
      BY <1>3, ChangedFacts
    <2>2. IsList(u)
      BY <1>3, ChangedFacts DEF StoreOK
    <2> HIDE DEF u
    <2>3. DOMAIN u = 1 .. L
      BY <2>1, <2>2, ListMembers
    <2>4. BareList(u) = [i \in 1 .. L |-> Bare(u[i])]
      BY <2>3 DEF BareList
    <2>5. [p[key] EXCEPT ![1] = g] = [i \in 1 .. L |-> IF i = 1 THEN g ELSE Bare(s[key][i])]
      <3> HIDE DEF L
      <3>1. p[key] = [i \in 1 .. L |-> Bare(s[key][i])] /\ 1 \in 1 .. L
        BY <1>1, <1>2
      <3> QED
        BY <3>1
    <2>6. \A i \in 1 .. L : Bare(u[i]) = IF i = 1 THEN g ELSE Bare(s[key][i])
      BY <1>3, <2>1
    <2> QED
      BY <2>4, <2>5, <2>6 DEF u
  <1>4. p[key][1] = Bare(e)
    BY <1>1, <1>2
  <1>5. ~Missing(p, key)
    BY <1>2 DEF Missing
  <1>6. ASSUME NEW part, NEW data
        PROVE  Replace(p, key, part, data)[key] = [p[key] EXCEPT ![1] = WithPart(Bare(e), part, data)]
    <2> DEFINE w == WithPart(Bare(e), part, data)
               c == [p EXCEPT ![key][1] = WithPart(@, part, data)]
    <2>1. Replace(p, key, part, data) = c
      BY <1>5, Zenon DEF Replace
    <2>2. c = [p EXCEPT ![key] = [p[key] EXCEPT ![1] = w]]
      BY <1>4
    <2> QED
      BY <2>1, <2>2
  <1>7. Load(p, ReplaceAttrs(key, x)) = Replace(p, key, "attrs", x)
    BY DEF Load, ReplaceAttrs
  <1>8. Load(p, ReplaceSKey(key, x)) = Replace(p, key, "subs", x)
    BY DEF Load, ReplaceSKey
  <1>9. /\ WithPart(Bare(e), "attrs", x) = Bare(WithAttrs(e, x))
        /\ x \in Seq(Names) /\ Ascending(x) => WithPart(Bare(e), "subs", x) = Bare(WithSubs(e, x))
    <2> HIDE DEF e
    <2>1. /\ WithAttrs(e, x).attrs = x /\ WithAttrs(e, x).value = e.value
          /\ WithAttrs(e, x).subs = e.subs
          /\ WithSubs(e, x).subs = x /\ WithSubs(e, x).value = e.value
          /\ WithSubs(e, x).attrs = e.attrs
      BY <1>1, PartsElem
    <2> QED
      BY <2>1 DEF WithPart, Bare, ElementOf
  <1>10. IsElem(WithAttrs(e, x)) /\ (x \in Seq(Names) /\ Ascending(x) => IsElem(WithSubs(e, x)))
    BY <1>1, PartsElem
  <1>11. /\ Reattributed(s, key, x) = Changed(s, key, WithAttrs(e, x))
         /\ Relisted(s, key, x) = Changed(s, key, WithSubs(e, x))
    BY ChangedParts
  <1> HIDE DEF e, L
  <1>12. Load(p, ReplaceAttrs(key, x))[key] = BareList(Reattributed(s, key, x)[key])
    <2>1. Load(p, ReplaceAttrs(key, x))[key] = [p[key] EXCEPT ![1] = Bare(WithAttrs(e, x))]
      <3>1. Replace(p, key, "attrs", x)[key] = [p[key] EXCEPT ![1] = WithPart(Bare(e), "attrs", x)]
        BY <1>6
      <3> QED
        BY <1>7, <1>9, <3>1
    <2>2. [p[key] EXCEPT ![1] = Bare(WithAttrs(e, x))] = BareList(Changed(s, key, WithAttrs(e, x))[key])
      BY <1>3, <1>10
    <2> QED
      BY <1>11, <2>1, <2>2
  <1>13. ASSUME x \in Seq(Names), Ascending(x)
         PROVE  Load(p, ReplaceSKey(key, x))[key] = BareList(Relisted(s, key, x)[key])
    <2>1. IsElem(WithSubs(e, x)) /\ WithPart(Bare(e), "subs", x) = Bare(WithSubs(e, x))
      BY <1>9, <1>10, <1>13
    <2>2. Load(p, ReplaceSKey(key, x))[key] = [p[key] EXCEPT ![1] = Bare(WithSubs(e, x))]
      <3>1. Replace(p, key, "subs", x)[key] = [p[key] EXCEPT ![1] = WithPart(Bare(e), "subs", x)]
        BY <1>6
      <3> QED
        BY <1>8, <2>1, <3>1
    <2>3. [p[key] EXCEPT ![1] = Bare(WithSubs(e, x))] = BareList(Changed(s, key, WithSubs(e, x))[key])
      BY <1>3, <2>1
    <2> QED
      BY <1>11, <2>2, <2>3
  <1> QED
    BY <1>12, <1>13

\* A loader, whose process sets no attributes, makes none of its own.
LEMMA UnsetAttrs == UpdateAttr(Unset, NoAttrs, NoText, NoPass, NotExpire, 0, 0).attrs = NoAttrs
  <1> DEFINE stamped  == Stamped(Unset, NoAttrs, 0)
             expiring == Expiring(Unset, stamped, NotExpire, 0)
             coded    == Encrypted(Unset, expiring, NoPass)
  <1>1. \A name : RemoveAttr(NoAttrs, name) = NoAttrs
    <2> SUFFICES ASSUME NEW name PROVE RemoveAttr(NoAttrs, name) = NoAttrs
      OBVIOUS
    <2>1. DOMAIN NoAttrs = {}
      BY DEF NoAttrs
    <2>2. RemoveAttr(NoAttrs, name) = [x \in {} |-> NoAttrs[x]]
      BY <2>1 DEF RemoveAttr, Restrict
    <2>3. NoAttrs = [x \in {} |-> NoAttrs[x]]
      BY DEF NoAttrs
    <2> QED
      BY <2>2, <2>3
  <1>2. ~Unset.mtime /\ ~Unset.history /\ Unset.expire = NotExpire
    BY DEF Unset
  <1>3. stamped = NoAttrs
    BY <1>1, <1>2 DEF Stamped
  <1>4. expiring = NoAttrs
    BY <1>1, <1>2, <1>3 DEF Expiring
  <1>5. coded = NoAttrs
    BY <1>1, <1>4 DEF Encrypted
  <1>6. PassFor(Unset, NoText, NoPass) = NoPass
    BY DEF PassFor
  <1>7. UpdateAttr(Unset, NoAttrs, NoText, NoPass, NotExpire, 0, 0).attrs = coded
    BY <1>2, <1>6 DEF UpdateAttr
  <1> QED
    BY <1>5, <1>7

\* Loading a Set of a key that is missing makes its element.
LEMMA SetMatches ==
    ASSUME NEW p, DOMAIN p = Keys, NEW key \in Keys, p[key] = <<>>, NEW value, NEW subs, NEW attrs
    PROVE  Load(p, SetAll(key, ElementOf(value, subs, attrs)))[key] = <<ElementOf(value, subs, attrs)>>
  <1> DEFINE e      == ElementOf(value, subs, attrs)
             first  == ElementOf(value, <<>>, NoAttrs)
             second == ElementOf(value, subs, NoAttrs)
             a      == Replace(p, key, "value", e.value)
             b      == IF e.subs = <<>> THEN a ELSE Replace(a, key, "subs", e.subs)
             c      == IF e.attrs = NoAttrs THEN b ELSE Replace(b, key, "attrs", e.attrs)
  <1>1. Load(p, SetAll(key, e)) = ReplaceParts(p, key, e)
    BY DEF Load, SetAll
  <1>2. ReplaceParts(p, key, e) = c
    BY Zenon DEF ReplaceParts
  <1>3. e.value = value /\ e.subs = subs /\ e.attrs = attrs
    BY DEF ElementOf
  <1>4. DOMAIN a = Keys /\ a[key] = <<first>>
    <2> DEFINE new == WithPart(ElementOf(NoValue, <<>>, NoAttrs), "value", value)
               set == UpdateAttr(Unset, new.attrs, NoText, NoPass, NotExpire, 0, 0)
    <2>1. new = first /\ new.attrs = NoAttrs
      BY DEF WithPart, ElementOf
    <2>2. set.attrs = NoAttrs
      BY <2>1, UnsetAttrs
    <2>3. [new EXCEPT !.attrs = set.attrs] = first
      <3> HIDE DEF set
      <3> QED
        BY <2>1, <2>2 DEF ElementOf
    <2>4. Replace(p, key, "value", value) = Put(p, key, [new EXCEPT !.attrs = set.attrs])
      BY Zenon DEF Replace, Missing
    <2> HIDE DEF new, set
    <2>5. a = Put(p, key, first)
      BY <1>3, <2>3, <2>4
    <2> HIDE DEF a, first
    <2>6. Append(<<>>, first) = <<first>>
      OBVIOUS
    <2> QED
      BY <2>5, <2>6 DEF Put
  <1>5. ASSUME NEW s, DOMAIN s = Keys, NEW f, s[key] = <<f>>, NEW part, NEW data
        PROVE  /\ DOMAIN Replace(s, key, part, data) = Keys
               /\ Replace(s, key, part, data)[key] = <<WithPart(f, part, data)>>
    <2> DEFINE w == WithPart(f, part, data)
    <2>1. s[key] # <<>> /\ s[key][1] = f
      BY <1>5
    <2>2. Replace(s, key, part, data) = [s EXCEPT ![key][1] = WithPart(@, part, data)]
      BY <2>1, Zenon DEF Replace, Missing
    <2>3. [s EXCEPT ![key][1] = WithPart(@, part, data)] = [s EXCEPT ![key] = [s[key] EXCEPT ![1] = w]]
      BY <2>1
    <2> HIDE DEF w
    <2>4. [<<f>> EXCEPT ![1] = w] = <<w>>
      OBVIOUS
    <2> QED
      BY <1>5, <2>2, <2>3, <2>4 DEF w
  <1> HIDE DEF a
  <1>6. DOMAIN b = Keys /\ b[key] = <<second>>
    <2>1. CASE subs = <<>>
      BY <1>3, <1>4, <2>1
    <2>2. CASE subs # <<>>
      <3>1. WithPart(first, "subs", subs) = second
        BY DEF WithPart, ElementOf
      <3> HIDE DEF first, second
      <3> QED
        BY <1>3, <1>4, <1>5, <2>2, <3>1
    <2> QED
      BY <2>1, <2>2
  <1> HIDE DEF b
  <1>7. c[key] = <<e>>
    <2>1. CASE attrs = NoAttrs
      BY <1>3, <1>6, <2>1
    <2>2. CASE attrs # NoAttrs
      <3>1. WithPart(second, "attrs", attrs) = e
        BY DEF WithPart, ElementOf
      <3> HIDE DEF second, e
      <3>2. c = Replace(b, key, "attrs", attrs)
        BY <1>3, <2>2
      <3> QED
        BY <1>5, <1>6, <3>1, <3>2
    <2> QED
      BY <2>1, <2>2
  <1> QED
    BY <1>1, <1>2, <1>7

LEMMA StackApart ==
    ASSUME NEW k, StackOK(k), NEW N, N \cap k.used = {}
    PROVE  \A c \in ToSet(k.stack) : Apart(c, KeysOf(N))
  <1> SUFFICES ASSUME NEW c \in ToSet(k.stack) PROVE Apart(c, KeysOf(N))
    OBVIOUS
  <1>1. Stackable(k, c)
    BY DEF StackOK
  <1>2. c.key[1] \in k.used /\ (c.type = "RENAME" => c.data.new[1] \in k.used)
    BY <1>1 DEF Stackable, NamesOf
  <1> QED
    BY <1>1, <1>2 DEF Stackable, Apart, KeysOf

LEMMA StackStays ==
    ASSUME NEW k, NEW h, TaskOK(k, h), StackOK(k), NEW N,
           k.call.op = "rename" /\ k.pc = "below" /\ k.call.arg \in N => k.at \in N
    PROVE  \A c \in ToSet(k.stack) : Stays(c, KeysOf(N))
  <1> SUFFICES ASSUME NEW c \in ToSet(k.stack) PROVE Stays(c, KeysOf(N))
    OBVIOUS
  <1>1. Stackable(k, c)
    BY DEF StackOK
  <1>2. k.call.op = "rename" => k.pc = "below"
    <2>1. k.stack # <<>>
      BY ListMembers DEF TaskOK, IsCommands
    <2> QED
      BY <2>1 DEF TaskOK, StackOK
  <1>3. ASSUME c.type = "RENAME", c.data.new[1] \in N PROVE c.key[1] \in N
    BY <1>1, <1>2, <1>3 DEF Stackable
  <1> QED
    BY <1>1, <1>3 DEF Stackable, Stays, KeysOf

LEMMA StepOwn ==
    ASSUME TypeInv, ReplayInv, NEW t \in Threads, NEW N, Writes(t, N), Makes(t, N),
           NEW n \in (task[t].used \cup N) \ shared'
    PROVE  Matches(task[t], n)'
  <1>1. CASE n \in N
    BY <1>1 DEF Makes
  <1>2. CASE n \notin N
    <2>1. n \in task[t].used /\ n \notin shared /\ n \in Names
      BY <1>2, TaskFacts DEF Writes, TaskOK
    <2>2. Matches(task[t], n) /\ ~Away(task[t], n) /\ ~Away(task'[t], n)
      BY <1>2, <2>1 DEF ReplayInv, CallsMatch, Makes
    <2>3. \A key \in Keys : key[1] = n =>
              elems'[key] = elems[key] /\ Pending(task[t])'[key] = Pending(task[t])[key]
      BY <1>2, <2>1 DEF Writes, Makes
    <2>4. \A v \in 1 .. MaxUid : MakeHistoryKey(n, v) \in Keys /\ MakeHistoryKey(n, v)[1] = n
      BY <2>1, NamesFacts DEF MakeHistoryKey, Keys
    <2>5. Live(n) \in Keys /\ Live(n)[1] = n
      BY <2>1, NamesFacts
    <2>6. \A v \in 1 .. MaxUid : Same(Pending(task[t]), MakeHistoryKey(n, v))'
      BY <2>2, <2>3, <2>4 DEF Matches, Same
    <2>7. Same(Pending(task[t]), Live(n))'
      BY <2>2, <2>3, <2>5 DEF Matches, Same
    <2>8. ~Away(task[t], n)'
      BY <2>2 DEF Away
    <2> QED
      BY <2>6, <2>7, <2>8 DEF Matches
  <1> QED
    BY <1>1, <1>2

\* The names of another call are apart from it, unless they are shared.
LEMMA StepOther ==
    ASSUME TypeInv, OneInv, ReplayInv, NEW t \in Threads, NEW N, Writes(t, N),
           NEW s \in Threads \ {t}, Kept(task[s])', DOMAIN copy' = Keys,
           NEW n \in task[s].used \ shared'
    PROVE  Matches(task[s], n)'
  <1> DEFINE k == task[s]
             M == k.used \ shared'
             K == KeysOf(M)
  <1>1. /\ TaskOK(k, packs[s].history) /\ StackOK(k) /\ task'[s] = k /\ n \in Names
    BY TaskFacts DEF ReplayInv, StacksOK, Writes, Others, TaskOK
  <1>2. \A m \in M : m \notin N /\ m \notin task[t].used /\ m \notin shared
    BY DEF Writes, OneInv, Exclusive
  <1>3. /\ \A key \in K : elems'[key] = elems[key]
        /\ Agree(copy', copy, K)
    <2>1. \A key \in K : key \in Keys /\ key[1] \notin N /\ key[1] \notin task[t].used
      BY <1>2 DEF KeysOf
    <2> QED
      BY <2>1 DEF Writes, Agree, TypeInv
  <1>4. k.call.op = "rename" /\ k.pc = "below" /\ k.call.arg \in M => k.at \in M
    BY <1>1 DEF StackOK, Kept
  <1>5. \A c \in ToSet(k.stack) : Stays(c, K)
    <2> HIDE DEF M, k
    <2> QED
      BY <1>1, <1>4, StackStays
  <1>6. Agree(LoadAll(copy', k.stack), LoadAll(copy, k.stack), K)
    <2>1. IsCommands(k.stack) /\ K \in SUBSET Keys
      BY <1>1 DEF TaskOK, KeysOf
    <2> HIDE DEF K, k
    <2> QED
      BY <1>3, <1>5, <2>1, LoadAllAgree
  <1>7. \A key \in K : Pending(task[s])'[key] = Pending(k)[key]
    BY <1>1, <1>6 DEF Pending, Agree
  <1>8. Matches(k, n)
    BY <1>2 DEF ReplayInv, CallsMatch
  <1>9. /\ \A v \in 1 .. MaxUid : MakeHistoryKey(n, v) \in K
        /\ Live(n) \in K
    BY <1>1, NamesFacts DEF MakeHistoryKey, Keys, KeysOf
  <1> HIDE DEF K, M
  <1>10. \A v \in 1 .. MaxUid : Same(Pending(task[s]), MakeHistoryKey(n, v))'
    BY <1>3, <1>7, <1>8, <1>9 DEF Matches, Same
  <1>11. Away(task[s], n)' => AsHeld(task[s], Pending(task[s])[Live(n)])'
    BY <1>1, <1>7, <1>8, <1>9 DEF Matches, AsHeld, Away
  <1>12. ~Away(task[s], n)' => Same(Pending(task[s]), Live(n))'
    BY <1>1, <1>3, <1>7, <1>8, <1>9 DEF Matches, Same, Away
  <1> QED
    BY <1>10, <1>11, <1>12 DEF Matches

\* The names that no call is at after the step.
LEMMA StepRest ==
    ASSUME TypeInv, ReplayInv, NEW t \in Threads, NEW N, Writes(t, N), Makes(t, N),
           NEW n \in Names \ shared', ~Used(n)', NEW v \in 0 .. MaxUid
    PROVE  Same(copy, <<n, v>>)'
  <1>1. <<n, v>> \in Keys /\ <<n, v>>[1] = n
    BY DEF Keys
  <1>2. CASE n \notin task[t].used \cup N
    <2>1. ~Used(n) /\ n \notin shared
      BY <1>2 DEF Used, Writes, Others
    <2>2. copy'[<<n, v>>] = copy[<<n, v>>] /\ elems'[<<n, v>>] = elems[<<n, v>>]
      BY <1>1, <1>2 DEF Writes
    <2> QED
      BY <2>1, <2>2 DEF ReplayInv, RestMatches, Same
  <1>3. CASE n \in task[t].used \cup N
    <2>1. task'[t] = Idle
      BY <1>3 DEF Used, Writes
    <2>2. Matches(task[t], n)'
      BY <1>3, StepOwn
    <2>3. ~Away(task[t], n)' /\ Pending(task[t])' = copy'
      BY <2>1, LoadAllEmpty DEF Away, Idle, Pending
    <2>4. v = 0 \/ v \in 1 .. MaxUid
      BY NamesFacts
    <2>5. v = 0 => <<n, v>> = Live(n)
      BY DEF Live
    <2>6. <<n, v>> = MakeHistoryKey(n, v)
      BY DEF MakeHistoryKey
    <2> QED
      BY <2>2, <2>3, <2>4, <2>5, <2>6 DEF Matches, Same
  <1> QED
    BY <1>2, <1>3

LEMMA StepReplay ==
    ASSUME TypeInv, TypeInv', OneInv, ReplayInv, NEW t \in Threads, NEW N, Writes(t, N),
           Makes(t, N), \A s \in Threads : Kept(task[s])', NoChain'
    PROVE  ReplayInv'
  <1>1. CallsMatch'
    <2> SUFFICES ASSUME NEW s \in Threads, NEW n \in task'[s].used \ shared'
                 PROVE  Matches(task[s], n)'
      BY DEF CallsMatch
    <2>1. CASE s = t
      <3>1. n \in task[t].used \cup N
        BY <2>1 DEF Writes, Idle
      <3> QED
        BY <2>1, <3>1, StepOwn
    <2>2. CASE s # t
      <3>1. task'[s] = task[s] /\ DOMAIN copy' = Keys
        BY <2>2 DEF Writes, Others, TypeInv
      <3> QED
        BY <2>2, <3>1, StepOther
    <2> QED
      BY <2>1, <2>2
  <1>2. RestMatches'
    BY StepRest DEF RestMatches
  <1>3. StacksOK'
    BY DEF ReplayInv, StacksOK, Makes, Writes, Others
  <1> QED
    BY <1>1, <1>2, <1>3 DEF ReplayInv

\* What a call knows at the name of its step: what it shares, and that loading the
\* archive would give what the file has there, unless it is shared.
LEMMA AtLinks ==
    ASSUME TypeInv, OneInv, ReplayInv, NEW t \in Threads, NEW n \in Names, At(t, n),
           NEW s \in Threads \ {t}, task[s].call.op = "rename", task[s].pc = "below",
           task[s].at \in shared'
    PROVE  task[s].call.arg \in shared'
  <1>1. shared' = shared \cup UNION {Linked(u, n) : u \in {v \in Threads \ {t} : n \in task[v].used}}
    BY DEF At
  <1>2. Kept(task[s]) /\ task[s].at \in task[s].used
    BY DEF ReplayInv, StacksOK, StackOK
  <1>3. CASE task[s].at \in shared
    BY <1>1, <1>2, <1>3 DEF Kept
  <1>4. CASE task[s].at \notin shared
    <2>1. PICK u \in Threads \ {t} : n \in task[u].used /\ task[s].at \in Linked(u, n)
      BY <1>1, <1>4
    <2>2. CASE task[s].at = n \/ u = s
      <3>1. task[s].call.arg \in Linked(s, n) /\ n \in task[s].used
        BY <1>2, <2>1, <2>2 DEF Linked
      <3> QED
        BY <1>1, <3>1
    <2>3. CASE task[s].at # n /\ u # s
      <3>1. task[u].call.op = "rename" /\ task[s].at = task[u].call.arg
        BY <2>1, <2>3 DEF Linked
      <3>2. ~Renaming(task[u])
        BY <3>1 DEF ReplayInv, NoChain
      <3>3. task[u].pc = "below"
        BY <3>1, <3>2, TaskFacts DEF TaskOK, Renaming
      <3>4. task[u].call.arg \in task[u].used
        BY <3>1, <3>3 DEF ReplayInv, StacksOK, StackOK
      <3>5. task[s].at \in shared
        BY <1>2, <2>3, <3>1, <3>4 DEF OneInv, Exclusive
      <3> QED
        BY <1>4, <3>5
    <2> QED
      BY <2>2, <2>3
  <1> QED
    BY <1>3, <1>4

LEMMA AtWrites ==
    ASSUME TypeInv, NEW t \in Threads, NEW n \in Names, At(t, n), Others(t),
           \A key \in Keys : key[1] # n => elems'[key] = elems[key],
           \A key \in Keys : key[1] \notin task[t].used \cup {n} => copy'[key] = copy[key],
           task'[t] = Idle \/ task'[t].used = task[t].used \cup {n}
    PROVE  Writes(t, {n})
  <1>1. shared' = shared \cup UNION {Linked(u, n) : u \in {v \in Threads \ {t} : n \in task[v].used}}
    BY DEF At
  <1>2. \A u : n \in Linked(u, n)
    BY DEF Linked
  <1>3. \A s \in Threads \ {t} : n \in task[s].used => n \in shared'
    BY <1>1, <1>2
  <1>4. shared \subseteq shared'
    BY <1>1
  <1> QED
    BY <1>3, <1>4 DEF Writes

LEMMA PendingDomain ==
    ASSUME TypeInv, NEW t \in Threads
    PROVE  DOMAIN Pending(task[t]) = Keys /\ IsCommands(task[t].stack)
  <1>1. IsCommands(task[t].stack)
    BY TaskFacts DEF TaskOK
  <1> QED
    BY <1>1, LoadAllDomain DEF Pending, TypeInv

LEMMA PendingApart ==
    ASSUME TypeInv, ReplayInv, NEW t \in Threads, NEW key \in Keys, key[1] \notin task[t].used
    PROVE  Pending(task[t])[key] = copy[key]
  <1> DEFINE K == KeysOf({key[1]})
  <1>1. StackOK(task[t]) /\ {key[1]} \cap task[t].used = {}
    BY DEF ReplayInv, StacksOK
  <1>2. \A c \in ToSet(task[t].stack) : Apart(c, K)
    BY <1>1, StackApart
  <1>3. K \in SUBSET Keys /\ key \in K /\ DOMAIN copy = Keys
    BY DEF KeysOf, TypeInv
  <1> HIDE DEF K
  <1>4. Agree(LoadAll(copy, task[t].stack), copy, K)
    BY <1>2, <1>3, PendingDomain, LoadAllApart
  <1> QED
    BY <1>3, <1>4 DEF Pending, Agree

LEMMA AtMatches ==
    ASSUME TypeInv, OneInv, ReplayInv, NEW t \in Threads, NEW n \in Names,
           \A s \in Threads \ {t} : n \in task[s].used => n \in shared',
           shared \subseteq shared', n \notin shared'
    PROVE  Matches(task[t], n)
  <1>1. CASE n \in task[t].used
    BY <1>1 DEF ReplayInv, CallsMatch
  <1>2. CASE n \notin task[t].used
    <2>1. ~Used(n) /\ n \notin shared
      BY <1>2 DEF Used
    <2>2. \A v \in 0 .. MaxUid : <<n, v>> \in Keys /\ Same(copy, <<n, v>>)
      BY <2>1 DEF ReplayInv, RestMatches, Keys
    <2>3. \A v \in 0 .. MaxUid : Same(Pending(task[t]), <<n, v>>)
      <3> SUFFICES ASSUME NEW v \in 0 .. MaxUid PROVE Same(Pending(task[t]), <<n, v>>)
        OBVIOUS
      <3>1. <<n, v>> \in Keys /\ Same(copy, <<n, v>>) /\ <<n, v>>[1] = n
        BY <2>2
      <3> DEFINE key == <<n, v>>
      <3> HIDE DEF key
      <3>2. key \in Keys /\ Same(copy, key) /\ key[1] = n
        BY <3>1 DEF key
      <3>3. Pending(task[t])[key] = copy[key]
        BY <1>2, <3>2, PendingApart
      <3>4. Same(Pending(task[t]), key)
        BY <3>2, <3>3 DEF Same
      <3> QED
        BY <3>4 DEF key
    <2>4. ~Away(task[t], n)
      BY <1>2 DEF Away, OneInv, OneTasks, OneTask
    <2>5. \A v \in 1 .. MaxUid : v \in 0 .. MaxUid
      BY NamesFacts
    <2>6. 0 \in 0 .. MaxUid
      BY NamesFacts
    <2> QED
      BY <2>3, <2>4, <2>5, <2>6 DEF Matches, MakeHistoryKey, Live
  <1> QED
    BY <1>1, <1>2

LEMMA StepKept ==
    ASSUME TypeInv, TypeInv', OneInv, ReplayInv, NEW t \in Threads, NEW n \in Names, At(t, n),
           Writes(t, {n}), Goes(t, task'[t]), NEW s \in Threads
    PROVE  Kept(task[s])'
  <1>1. CASE s = t
    BY <1>1 DEF Goes, Kept
  <1>2. CASE s # t
    <2>1. task'[s] = task[s] /\ Kept(task[s])
      BY <1>2 DEF Writes, Others, ReplayInv, StacksOK
    <2>2. ASSUME task[s].pc = "shelve", task[s].old \notin shared'
          PROVE  ~Missing(elems', Live(task[s].old))
      <3>1. task[s].old \in task[s].used /\ task[s].old \in Names
        BY <2>2, TaskFacts DEF TaskOK, OneInv, OneTasks, OneTask
      <3>2. task[s].old # n /\ task[s].old \notin shared
        BY <1>2, <2>2, <3>1 DEF Writes
      <3>3. Live(task[s].old) \in Keys /\ Live(task[s].old)[1] = task[s].old
        BY <3>1, NamesFacts
      <3> QED
        BY <2>1, <2>2, <3>2, <3>3 DEF Kept, Writes, Missing
    <2>3. ASSUME task[s].call.op = "rename", task[s].pc = "below", task[s].at \in shared'
          PROVE  task[s].call.arg \in shared'
      BY <1>2, <2>3, AtLinks
    <2> QED
      BY <2>1, <2>2, <2>3 DEF Kept
  <1> QED
    BY <1>1, <1>2

LEMMA StepChain ==
    ASSUME TypeInv, OneInv, ReplayInv, NEW t \in Threads, Others(t), Goes(t, task'[t]),
           Renaming(task'[t]) => task'[t].call.op = "rename"
    PROVE  NoChain'
  <1> SUFFICES ASSUME NEW s \in Threads, NEW u \in Threads, Renaming(task'[u]),
                      task'[s].call.op = "rename", task'[s].pc \in {"moved", "below"}
               PROVE  task'[s].at # task'[u].call.arg
    BY DEF NoChain, Renaming
  <1>1. /\ Renaming(task[u]) /\ task'[u].call = task[u].call
        /\ u # t => task'[u] = task[u]
    BY DEF Goes, Others, Renaming
  <1>2. CASE s = t
    <2>1. task'[s].at = task[t].at /\ ~Missing(elems, Live(task[t].at))
      BY <1>2 DEF Goes
    <2>2. Missing(elems, Live(task[u].call.arg))
      BY <1>1 DEF OneInv, RenamesFree
    <2> QED
      BY <1>1, <2>1, <2>2
  <1>3. CASE s # t
    BY <1>1, <1>3 DEF ReplayInv, NoChain, Others
  <1> QED
    BY <1>2, <1>3

LEMMA ReplayAt ==
    ASSUME TypeInv, TypeInv', OneInv, ReplayInv, NEW t \in Threads, NEW n \in Names, At(t, n),
           Writes(t, {n}), Makes(t, {n}), Goes(t, task'[t])
    PROVE  ReplayInv'
  <1>1. Others(t) /\ TaskOK(task'[t], packs'[t].history)
    BY DEF Writes, TypeInv, TasksOK
  <1>2. NoChain'
    BY <1>1, StepChain DEF TaskOK, Renaming
  <1>3. \A s \in Threads : Kept(task[s])'
    BY StepKept
  <1> QED
    BY <1>2, <1>3, StepReplay

\* Where the versions and what is stacked of them are as before, the key decides.
LEMMA MatchLive ==
    ASSUME NEW t \in Threads, NEW n \in Names, Matches(task[t], n),
           \A key \in Keys : key[1] = n /\ key # Live(n) =>
               elems'[key] = elems[key] /\ Pending(task[t])'[key] = Pending(task[t])[key],
           Away(task'[t], n) => AsHeld(task[t], Pending(task[t])[Live(n)])',
           ~Away(task'[t], n) => Same(Pending(task[t]), Live(n))'
    PROVE  Matches(task[t], n)'
  <1>1. \A v \in 1 .. MaxUid : /\ MakeHistoryKey(n, v) \in Keys /\ MakeHistoryKey(n, v)[1] = n
                               /\ MakeHistoryKey(n, v) # Live(n)
    BY NamesFacts DEF MakeHistoryKey, Keys, Live
  <1>2. \A v \in 1 .. MaxUid : Same(Pending(task[t]), MakeHistoryKey(n, v))'
    BY <1>1 DEF Matches, Same
  <1>3. Away(task[t], n)' <=> Away(task'[t], n)
    BY DEF Away
  <1> QED
    BY <1>2, <1>3 DEF Matches

\* Away from the name of its step a call has nothing.
LEMMA NotAway ==
    ASSUME NEW k, k.pc \notin {"shelved", "moved"}
    PROVE  \A n : ~Away(k, n)
  BY DEF Away

\* A step that changes neither the file nor the archive, and adds nothing to what is
\* stacked; where the call ends, what it has stacked is about shared names.
LEMMA ReplayStay ==
    ASSUME TypeInv, TypeInv', OneInv, ReplayInv, NEW t \in Threads, NEW n \in Names, At(t, n),
           Others(t), UNCHANGED <<elems, copy>>, Goes(t, task'[t]),
           task[t].pc \notin {"shelved", "moved"}, task'[t].pc \notin {"shelved", "moved"},
           \/ task'[t].used = task[t].used \cup {n} /\ task'[t].stack = task[t].stack
           \/ task'[t] = Idle /\ \A key \in Keys :
                 key[1] \in (task[t].used \cup {n}) \ shared' => Pending(task[t])[key] = copy[key]
    PROVE  ReplayInv'
  <1>1. Writes(t, {n})
    BY AtWrites
  <1>2. \A m : ~Away(task[t], m) /\ ~Away(task'[t], m)
    BY NotAway
  <1>3. ASSUME NEW key \in Keys, key[1] \in (task[t].used \cup {n}) \ shared'
        PROVE  Pending(task[t])'[key] = Pending(task[t])[key]
    <2>1. CASE task'[t].stack = task[t].stack
      BY <2>1 DEF Pending
    <2>2. CASE task'[t] = Idle /\ Pending(task[t])[key] = copy[key]
      <3>1. Pending(task[t])' = copy'
        BY <2>2, LoadAllEmpty DEF Pending, Idle
      <3> QED
        BY <2>2, <3>1
    <2> QED
      BY <1>3, <2>1, <2>2
  <1>4. ASSUME n \notin shared' PROVE Matches(task[t], n)'
    <2>1. Matches(task[t], n)
      BY <1>1, <1>4, AtMatches DEF Writes
    <2>2. Same(Pending(task[t]), Live(n))'
      BY <1>2, <1>3, <1>4, <2>1, NamesFacts DEF Matches, Same
    <2> QED
      BY <1>2, <1>3, <1>4, <2>1, <2>2, MatchLive
  <1>5. Makes(t, {n})
    BY <1>2, <1>3, <1>4 DEF Makes, Goes
  <1> QED
    BY <1>1, <1>5, ReplayAt

\* A step that stacks a command about its name.
LEMMA ReplayMore ==
    ASSUME TypeInv, TypeInv', OneInv, ReplayInv, NEW t \in Threads, NEW n \in Names, At(t, n),
           Others(t), copy' = copy, \A key \in Keys : key[1] # n => elems'[key] = elems[key],
           Goes(t, task'[t]), task'[t].pc \notin {"shelved", "moved"},
           \A m : Away(task[t], m) => m = n,
           NEW c, c.type \in CommandTypes, c.key \in Keys, NamesOf(c) = {n},
           task'[t].used = task[t].used \cup {n}, task'[t].stack = Append(task[t].stack, c),
           n \notin shared' => Matches(task[t], n)'
    PROVE  ReplayInv'
  <1>1. Writes(t, {n})
    BY AtWrites
  <1>2. \A m : ~Away(task'[t], m)
    BY NotAway
  <1>3. Pending(task[t])' = Load(Pending(task[t]), c)
    <2>1. IsList(task[t].stack)
      BY PendingDomain DEF IsCommands
    <2> QED
      BY <2>1, LoadAllAppend DEF Pending
  <1>4. ASSUME NEW key \in Keys, key[1] # n
        PROVE  Pending(task[t])'[key] = Pending(task[t])[key]
    <2> DEFINE K == {key}
               p == Pending(task[t])
    <2>1. K \in SUBSET Keys /\ Agree(p, p, K)
      BY PendingDomain DEF Agree
    <2>2. Stays(c, K) /\ Apart(c, K)
      BY <1>4 DEF Stays, Apart, NamesOf
    <2> HIDE DEF p, K
    <2>3. Agree(Load(p, c), p, K)
      BY <2>1, <2>2, LoadAgree
    <2> QED
      BY <1>3, <2>3 DEF Agree, K, p
  <1>5. Makes(t, {n})
    BY <1>2, <1>4 DEF Makes, Goes
  <1> QED
    BY <1>1, <1>5, ReplayAt

\* A step that changes the file and the archive at its name, with nothing stacked.
LEMMA ReplayDirect ==
    ASSUME TypeInv, TypeInv', OneInv, ReplayInv, NEW t \in Threads, NEW n \in Names, At(t, n),
           Others(t), \A key \in Keys : key # Live(n) => elems'[key] = elems[key],
           NEW c, c.type \in CommandTypes, c.key = Live(n), c.type # "RENAME", copy' = Load(copy, c),
           copy[Live(n)] = BareList(elems[Live(n)]) => copy'[Live(n)] = BareList(elems'[Live(n)]),
           Goes(t, task'[t]), task[t].stack = <<>>, task'[t].stack = <<>>,
           task[t].pc \notin {"shelved", "moved"}, task'[t].pc \notin {"shelved", "moved"},
           task'[t] = Idle \/ task'[t].used = task[t].used \cup {n}
    PROVE  ReplayInv'
  <1>1. Pending(task[t]) = copy /\ Pending(task[t])' = copy'
    BY LoadAllEmpty DEF Pending
  <1>2. ASSUME NEW key \in Keys, key # Live(n) PROVE copy'[key] = copy[key]
    <2> DEFINE K == {key}
    <2>1. K \in SUBSET Keys /\ Agree(copy, copy, K)
      BY DEF Agree, TypeInv
    <2>2. Stays(c, K) /\ Apart(c, K)
      BY <1>2, NamesFacts DEF Stays, Apart
    <2> HIDE DEF K
    <2>3. Agree(Load(copy, c), copy, K)
      BY <2>1, <2>2, LoadAgree
    <2> QED
      BY <2>3 DEF Agree, K
  <1>3. \A m : ~Away(task[t], m) /\ ~Away(task'[t], m)
    BY NotAway
  <1>4. \A key \in Keys : key[1] # n => key # Live(n)
    BY NamesFacts
  <1>5. Writes(t, {n})
    BY <1>2, <1>4, AtWrites
  <1>6. ASSUME n \notin shared' PROVE Matches(task[t], n)'
    <2>1. Matches(task[t], n)
      BY <1>5, <1>6, AtMatches DEF Writes
    <2>2. Same(Pending(task[t]), Live(n))'
      BY <1>1, <1>3, <2>1 DEF Matches, Same
    <2> QED
      BY <1>1, <1>2, <1>3, <2>1, <2>2, MatchLive
  <1>7. Makes(t, {n})
    BY <1>1, <1>2, <1>3, <1>4, <1>6 DEF Makes, Goes
  <1> QED
    BY <1>5, <1>7, ReplayAt

\* A step that takes the element of its name off, to put it elsewhere.
LEMMA ReplayTake ==
    ASSUME TypeInv, TypeInv', OneInv, ReplayInv, NEW t \in Threads, NEW n \in Names, At(t, n),
           Others(t), copy' = copy, ~Missing(elems, Live(n)), elems' = Take(elems, Live(n)),
           Goes(t, task'[t]), task[t].pc \notin {"shelved", "moved"}, Away(task'[t], n),
           \A m : Away(task'[t], m) => m = n,
           LET e == Found(elems, Live(n)) IN
           /\ task'[t].held.value = e.value /\ task'[t].held.subs = e.subs
           /\ task'[t].pc = "moved" => task'[t].held.attrs = e.attrs,
           task'[t].used = task[t].used \cup {n}, task'[t].stack = task[t].stack
    PROVE  ReplayInv'
  <1> DEFINE e == Found(elems, Live(n))
  <1>1. Pending(task[t])' = Pending(task[t])
    BY DEF Pending
  <1>2. \A m : ~Away(task[t], m)
    BY NotAway
  <1>3. \A key \in Keys : key # Live(n) => elems'[key] = elems[key]
    BY NamesFacts, TakeFacts DEF TypeInv
  <1>4. \A key \in Keys : key[1] # n => key # Live(n)
    BY NamesFacts
  <1>5. Writes(t, {n})
    BY <1>3, <1>4, AtWrites
  <1>6. ASSUME n \notin shared' PROVE Matches(task[t], n)'
    <2>1. Matches(task[t], n)
      BY <1>5, <1>6, AtMatches DEF Writes
    <2>2. /\ IsList(elems[Live(n)]) /\ elems[Live(n)] # <<>> /\ Len(elems[Live(n)]) <= 1
          /\ Head(elems[Live(n)]) = e
      BY NamesFacts DEF TypeInv, StoreOK, OneInv, LiveOne, Missing, Found
    <2>3. Pending(task[t])[Live(n)] = <<Bare(e)>>
      BY <1>2, <2>1, <2>2, BareOne DEF Matches, Same
    <2>4. Bare(e) = ElementOf(e.value, e.subs, e.attrs) /\ Bare(e).attrs = e.attrs
      BY DEF Bare, ElementOf
    <2> HIDE DEF e
    <2>5. Head(<<Bare(e)>>) = Bare(e)
      OBVIOUS
    <2>6. AsHeld(task[t], Pending(task[t])[Live(n)])'
      <3>1. /\ task'[t].held.value = e.value /\ task'[t].held.subs = e.subs
            /\ task'[t].pc = "moved" => task'[t].held.attrs = e.attrs
        BY DEF e
      <3> QED
        BY <1>1, <2>3, <2>4, <2>5, <3>1 DEF AsHeld
    <2> QED
      BY <1>1, <1>3, <2>1, <2>6, MatchLive
  <1>7. Makes(t, {n})
    BY <1>1, <1>2, <1>6 DEF Makes, Goes
  <1> QED
    BY <1>5, <1>7, ReplayAt

-----------------------------------------------------------------------------
\* What a call has stacked, after a step that stacks nothing or one command.
LEMMA IdleGoes == ASSUME NEW t \in Threads PROVE Goes(t, Idle)
  <1>1. ToSet(<<>>) = {}
    BY ListEmpty
  <1> QED
    BY <1>1 DEF Goes, StackOK, Idle, NoCall, Making

LEMMA StackKeeps ==
    ASSUME NEW k, NEW j, StackOK(k), j.stack = k.stack, j.call = k.call, j.at = k.at,
           k.used \subseteq j.used, k.call.op # "rename", j.pc # "moved",
           j.pc \in {"idle", "get", "subs", "attrs", "replace", "unlist", "move"} => k.stack = <<>>,
           Making(j) => Making(k) \/ k.stack = <<>>,
           j.pc = "shelved" => j.held.attrs # NoAttrs
    PROVE  StackOK(j)
  <1>1. \A c : Stackable(k, c) => Stackable(j, c)
    BY DEF Stackable
  <1>2. k.stack = <<>> => ToSet(k.stack) = {}
    BY ListEmpty
  <1> QED
    BY <1>1, <1>2 DEF StackOK

LEMMA StackMore ==
    ASSUME NEW k, NEW j, StackOK(k), IsCommands(k.stack), NEW c, j.stack = Append(k.stack, c),
           j.call = k.call, j.at = k.at, k.used \subseteq j.used, k.call.op # "rename",
           j.pc \in {"insert", "below"}, Making(j) => Making(k) /\ NamesOf(c) = {k.at},
           c.type \in {"SET_ALL", "DEL_KEY", "RENAME"}, c.key \in Keys,
           c.type = "RENAME" => c.data.new \in Keys /\ c.key[1] = c.data.new[1],
           c.key[1] \in j.used
    PROVE  StackOK(j)
  <1>1. \A d : Stackable(k, d) => Stackable(j, d)
    BY DEF Stackable
  <1>2. Stackable(j, c)
    BY DEF Stackable, NamesOf
  <1>3. ToSet(j.stack) = ToSet(k.stack) \cup {c}
    BY ListAppend DEF IsCommands
  <1> QED
    BY <1>1, <1>2, <1>3 DEF StackOK

LEMMA StackFacts ==
    ASSUME TypeInv, OneInv, ReplayInv, NEW t \in Threads
    PROVE  /\ StackOK(task[t]) /\ Kept(task[t]) /\ IsCommands(task[t].stack)
           /\ task[t].stack = <<>> => Pending(task[t]) = copy
  BY PendingDomain, LoadAllEmpty DEF ReplayInv, StacksOK, Pending

LEMMA GetTrialReplay ==
    ASSUME TypeInv, OneInv, ReplayInv, NEW t \in Threads, GetTrial(t)
    PROVE  ReplayInv'
  <1> DEFINE k == task[t]
             j == task'[t]
  <1> PICK n : n = k.at
    OBVIOUS
  <1>1. /\ k.pc = "get" /\ UNCHANGED <<elems, copy>>
        /\ At(t, n) /\ Others(t) /\ (j = Idle \/ j = WithPc(k, n, "subs"))
    BY GetTrialEffect, Zenon DEF GetTrialDoes
  <1>2. /\ TypeInv' /\ n \in Names /\ TaskOK(k, packs[t].history)
        /\ StackOK(k) /\ k.stack = <<>> /\ Pending(k) = copy
    BY <1>1, GetTrialType, CallFacts, StackFacts DEF StackOK
  <1> HIDE DEF k, j
  <1>3. j # Idle => /\ j.pc = "subs" /\ j.call = k.call /\ j.at = k.at /\ j.stack = k.stack
                    /\ j.used = k.used \cup {n}
    BY <1>1 DEF WithPc
  <1>4. Goes(t, j)
    <2>1. CASE j = Idle
      BY <2>1, IdleGoes
    <2>2. CASE j # Idle
      <3>1. k.call.op # "rename"
        BY <1>1, <1>2 DEF TaskOK
      <3>2. StackOK(j)
        BY <1>2, <1>3, <2>2, <3>1, StackKeeps
      <3> QED
        BY <1>3, <2>2, <3>1, <3>2 DEF Goes
    <2> QED
      BY <2>1, <2>2
  <1>5. j.pc \notin {"shelved", "moved"}
    BY <1>3 DEF Idle
  <1> QED
    BY <1>1, <1>2, <1>3, <1>4, <1>5, ReplayStay DEF k, j

LEMMA ReadSubsReplay ==
    ASSUME TypeInv, OneInv, ReplayInv, NEW t \in Threads, ReadSubs(t)
    PROVE  ReplayInv'
  <1> DEFINE k    == task[t]
             j    == task'[t]
             subs == GetSubKeys(k.at)
             more == Insert(subs, k.call.arg)
  <1> PICK n : n = k.at
    OBVIOUS
  <1>1. /\ k.pc = "subs" /\ UNCHANGED <<elems, copy>> /\ At(t, n) /\ Others(t)
        /\ (j = WithPcSubs(k, n, "replace", more) \/ j = WithPcSubs(k, n, "attrs", subs))
    BY ReadSubsEffect, Zenon DEF ReadSubsDoes
  <1>2. /\ TypeInv' /\ n \in Names /\ TaskOK(k, packs[t].history)
        /\ StackOK(k) /\ k.stack = <<>>
    BY <1>1, ReadSubsType, CallFacts, StackFacts DEF StackOK
  <1> HIDE DEF k, j, subs, more
  <1>3. /\ j.pc \in {"replace", "attrs"} /\ j.call = k.call /\ j.at = k.at /\ j.stack = k.stack
        /\ j.used = k.used \cup {n}
    BY <1>1 DEF WithPcSubs
  <1>4. k.call.op # "rename"
    BY <1>1, <1>2 DEF TaskOK
  <1>5. StackOK(j)
    BY <1>2, <1>3, <1>4, StackKeeps DEF Making
  <1>6. Goes(t, j)
    BY <1>3, <1>4, <1>5 DEF Goes
  <1> QED
    BY <1>1, <1>2, <1>3, <1>6, ReplayStay DEF k, j

LEMMA ReadAttrsReplay ==
    ASSUME TypeInv, OneInv, ReplayInv, NEW t \in Threads, ReadAttrs(t)
    PROVE  ReplayInv'
  <1> DEFINE k     == task[t]
             j     == task'[t]
             attrs == GetAttrs(k.at)
             more  == SetAttr(attrs, "user", k.call.text)
  <1> PICK n : n = k.at
    OBVIOUS
  <1>1. /\ k.pc = "attrs" /\ UNCHANGED <<elems, copy>> /\ At(t, n) /\ Others(t)
        /\ (j = WithPcHeldAttrs(k, n, "replace", attrs, more) \/ j = WithPcAttrs(k, n, "take", attrs))
    BY ReadAttrsEffect, Zenon DEF ReadAttrsDoes
  <1>2. /\ TypeInv' /\ n \in Names /\ TaskOK(k, packs[t].history)
        /\ StackOK(k) /\ k.stack = <<>>
    BY <1>1, ReadAttrsType, CallFacts, StackFacts DEF StackOK
  <1> HIDE DEF k, j, attrs, more
  <1>3. /\ j.pc \in {"replace", "take"} /\ j.call = k.call /\ j.at = k.at /\ j.stack = k.stack
        /\ j.used = k.used \cup {n}
    BY <1>1 DEF WithPcHeldAttrs, WithPcAttrs
  <1>4. k.call.op # "rename"
    BY <1>1, <1>2 DEF TaskOK
  <1>5. StackOK(j)
    BY <1>2, <1>3, <1>4, StackKeeps DEF Making
  <1>6. Goes(t, j)
    BY <1>3, <1>4, <1>5 DEF Goes
  <1> QED
    BY <1>1, <1>2, <1>3, <1>6, ReplayStay DEF k, j

\* The element of a name is removed, and a deletion stacked.
LEMMA DeleteReplay ==
    ASSUME TypeInv, TypeInv', OneInv, ReplayInv, NEW t \in Threads, NEW n \in Names, At(t, n),
           Others(t), copy' = copy, ~Missing(elems, Live(n)), elems' = Take(elems, Live(n)),
           task[t].pc \notin {"shelved", "moved"}, task'[t].pc \notin {"shelved", "moved"},
           Goes(t, task'[t]), task'[t].used = task[t].used \cup {n},
           task'[t].stack = Append(task[t].stack, DelKey(Live(n)))
    PROVE  ReplayInv'
  <1> DEFINE c == DelKey(Live(n))
             p == Pending(task[t])
  <1>1. /\ c.type \in CommandTypes /\ c.type # "RENAME" /\ c.key = Live(n) /\ c.key \in Keys
        /\ NamesOf(c) = {n}
    BY NamesFacts DEF DelKey, CommandTypes, NamesOf
  <1>2. \A key \in Keys : key # Live(n) => elems'[key] = elems[key]
    BY NamesFacts, TakeFacts DEF TypeInv
  <1>3. \A key \in Keys : key[1] # n => key # Live(n)
    BY NamesFacts
  <1>4. \A m : ~Away(task[t], m) /\ ~Away(task'[t], m)
    BY NotAway
  <1>5. Pending(task[t])' = Load(p, c)
    <2>1. IsList(task[t].stack)
      BY PendingDomain DEF IsCommands
    <2> QED
      BY <2>1, LoadAllAppend DEF Pending
  <1>6. DOMAIN p = Keys
    BY PendingDomain
  <1> HIDE DEF p
  <1>7. \A key \in Keys : key # Live(n) => Load(p, c)[key] = p[key]
    <2> SUFFICES ASSUME NEW key \in Keys, key # Live(n) PROVE Load(p, c)[key] = p[key]
      OBVIOUS
    <2>1. {key} \in SUBSET Keys /\ Agree(p, p, {key}) /\ Stays(c, {key}) /\ Apart(c, {key})
      BY <1>1, <1>6, NamesFacts DEF Agree, Stays, Apart
    <2> HIDE DEF c
    <2>2. Agree(Load(p, c), p, {key})
      BY <1>1, <2>1, LoadAgree
    <2> QED
      BY <2>2 DEF Agree
  <1>8. ASSUME n \notin shared' PROVE Matches(task[t], n)'
    <2>1. Writes(t, {n})
      BY <1>2, <1>3, AtWrites
    <2>2. Matches(task[t], n)
      BY <1>8, <2>1, AtMatches DEF Writes
    <2>3. p[Live(n)] = BareList(elems[Live(n)])
      BY <1>4, <2>2 DEF Matches, Same, p
    <2>4. Load(p, c)[Live(n)] = BareList(Take(elems, Live(n))[Live(n)])
      BY <1>6, <2>3, NamesFacts, DelMatches DEF TypeInv
    <2> HIDE DEF c
    <2>5. Same(Pending(task[t]), Live(n))'
      BY <1>5, <2>4 DEF Same
    <2> QED
      BY <1>2, <1>4, <1>5, <1>7, <2>2, <2>5, MatchLive DEF p
  <1> HIDE DEF c
  <1>9. task'[t].stack = Append(task[t].stack, c)
    BY DEF c
  <1> QED
    BY <1>1, <1>2, <1>3, <1>4, <1>8, <1>9, ReplayMore

LEMMA TakeOldReplay ==
    ASSUME TypeInv, OneInv, ReplayInv, NEW t \in Threads, TakeOld(t)
    PROVE  ReplayInv'
  <1> DEFINE k     == task[t]
             j     == task'[t]
             next  == IF k.call.op = "remove" THEN "below" ELSE "insert"
             subs  == SubKeysOf(k.at, k.rm)
             stack == Stacked(k, k.at)
  <1> PICK n : n = k.at
    OBVIOUS
  <1>1. /\ k.pc = "take" /\ copy' = copy /\ At(t, n) /\ Others(t)
        /\ \/ UNCHANGED elems /\ j = WithPc(k, n, next)
           \/ /\ ~Missing(elems, Live(n)) /\ elems' = Take(elems, Live(n))
              /\ j = WithPcDoomedStack(k, n, next, subs, stack)
           \/ /\ ~Missing(elems, Live(n)) /\ UNCHANGED elems
              /\ j = WithPcOldUnderThen(k, n, "shelve", n, subs, next)
    BY TakeOldEffect, Zenon DEF TakeOldDoes
  <1>2. /\ TypeInv' /\ n \in Names /\ TaskOK(k, packs[t].history) /\ StackOK(k)
        /\ IsCommands(k.stack)
    BY <1>1, TakeOldType, CallFacts, StackFacts
  <1>3. next \in {"below", "insert"} /\ stack = Append(k.stack, DelKey(Live(n))) /\ k.at = n
    BY DEF Stacked
  <1> HIDE DEF k, j, next, subs, stack
  <1>4. k.call.op # "rename" /\ Making(k)
    BY <1>1, <1>2 DEF TaskOK, Making
  <1>5. /\ j.call = k.call /\ j.at = k.at /\ j.used = k.used \cup {n}
        /\ j.pc \in {"below", "insert", "shelve"}
        /\ j.pc = "shelve" => j.old = n /\ ~Missing(elems', Live(n))
        /\ j.stack = k.stack \/ (j.pc # "shelve" /\ j.stack = stack)
    BY <1>1, <1>3 DEF WithPc, WithPcDoomedStack, WithPcOldUnderThen
  <1>6. StackOK(j)
    <2>1. CASE j.stack = k.stack
      BY <1>2, <1>4, <1>5, <2>1, StackKeeps
    <2>2. CASE j.stack = stack /\ j.pc # "shelve"
      <3> DEFINE c == DelKey(Live(n))
      <3>1. /\ c.type = "DEL_KEY" /\ c.key \in Keys /\ NamesOf(c) = {n} /\ c.key[1] = n
        BY <1>2, NamesFacts DEF DelKey, NamesOf
      <3>2. j.stack = Append(k.stack, c)
        BY <1>3, <2>2
      <3> HIDE DEF c
      <3> QED
        BY <1>2, <1>3, <1>4, <1>5, <2>2, <3>1, <3>2, StackMore
    <2> QED
      BY <1>5, <2>1, <2>2
  <1>7. Goes(t, j)
    BY <1>4, <1>5, <1>6 DEF Goes
  <1>8. CASE UNCHANGED elems /\ j.stack = k.stack
    BY <1>1, <1>2, <1>5, <1>7, <1>8, ReplayStay DEF k, j
  <1>9. CASE /\ ~Missing(elems, Live(n)) /\ elems' = Take(elems, Live(n))
             /\ j = WithPcDoomedStack(k, n, next, subs, stack)
    <2>1. j.stack = Append(k.stack, DelKey(Live(n))) /\ j.pc \notin {"shelved", "moved"}
      BY <1>3, <1>9 DEF WithPcDoomedStack
    <2> QED
      BY <1>1, <1>2, <1>5, <1>7, <1>9, <2>1, DeleteReplay DEF k, j
  <1>10. \A x, y, z : /\ WithPc(k, n, x).stack = k.stack
                      /\ WithPcOldUnderThen(k, n, x, n, y, z).stack = k.stack
    BY DEF WithPc, WithPcOldUnderThen
  <1> QED
    BY <1>1, <1>8, <1>9, <1>10

LEMMA ShelveReplay ==
    ASSUME TypeInv, OneInv, ReplayInv, NEW t \in Threads, Shelve(t)
    PROVE  ReplayInv'
  <1> DEFINE k     == task[t]
             j     == task'[t]
             e     == Found(elems, Live(k.old))
             known == GetUniqId(e.attrs)
             named == IF known = 0 THEN DirectSetUniqId(packs[t], e.attrs, 0, nextUid)
                      ELSE e.attrs
             puid  == GetUniqId(named)
             held  == WithAttrs(e, MarkHistory(named))
             none  == <<>>
  <1> PICK n : n = k.old
    OBVIOUS
  <1>1. /\ k.pc = "shelve" /\ copy' = copy /\ At(t, n) /\ Others(t)
        /\ \/ Missing(elems, Live(n)) /\ k.then = "insert" /\ UNCHANGED elems /\ j = Idle
           \/ k.then # "insert" /\ UNCHANGED elems /\ j = WithPcUnder(k, n, "below", none)
           \/ /\ ~Missing(elems, Live(n)) /\ elems' = Take(elems, Live(n))
              /\ j = WithPcPuidHeld(k, n, "shelved", puid, held)
    BY ShelveEffect, Zenon DEF ShelveDoes
  <1>2. /\ TypeInv' /\ n \in Names /\ k.old = n /\ TaskOK(k, packs[t].history) /\ OneTask(k, t)
        /\ StackOK(k) /\ Kept(k) /\ IsCommands(k.stack)
    BY <1>1, ShelveType, CallFacts, StackFacts DEF TaskOK
  <1>3. ~Missing(elems, Live(n)) => held.value = e.value /\ held.subs = e.subs /\ held.attrs # NoAttrs
    <2> SUFFICES ASSUME ~Missing(elems, Live(n))
                 PROVE  held.value = e.value /\ held.subs = e.subs /\ held.attrs # NoAttrs
      OBVIOUS
    <2>1. IsElem(e)
      BY <1>2, NamesFacts, FoundFacts DEF TypeInv
    <2> DEFINE marked == MarkHistory(named)
    <2>2. marked # NoAttrs
      <3>1. "hismark" \in DOMAIN marked
        <4> HIDE DEF named
        <4> QED
          BY DEF MarkHistory, SetAttr
      <3>2. DOMAIN NoAttrs = {}
        BY DEF NoAttrs
      <3> HIDE DEF marked
      <3> QED
        BY <3>1, <3>2
    <2> HIDE DEF e, marked
    <2>3. /\ WithAttrs(e, marked).value = e.value /\ WithAttrs(e, marked).subs = e.subs
          /\ WithAttrs(e, marked).attrs = marked
      BY <2>1, PartsElem
    <2> QED
      BY <2>2, <2>3 DEF marked
  <1>4. e = Found(elems, Live(n))
    OBVIOUS
  <1>5. WithPcUnder(k, n, "below", none).stack = k.stack
    BY DEF WithPcUnder
  <1> HIDE DEF k, j, e, known, named, puid, held, none
  <1>6. k.call.op # "rename"
    BY <1>1, <1>2 DEF TaskOK
  <1>7. CASE j = Idle /\ Missing(elems, Live(n)) /\ k.then = "insert" /\ UNCHANGED elems
    <2>1. n \in shared /\ k.at = n
      BY <1>1, <1>2, <1>7 DEF Kept, OneTask
    <2>2. n \in shared'
      BY <1>1, <2>1 DEF At
    <2>3. \A c \in ToSet(k.stack) : NamesOf(c) = {n}
      BY <1>1, <1>2, <1>7, <2>1 DEF StackOK, Making
    <2>4. ASSUME NEW key \in Keys, key[1] \notin shared'
          PROVE  Pending(k)[key] = copy[key]
      <3>1. \A c \in ToSet(k.stack) : Apart(c, {key})
        BY <1>2, <2>2, <2>3, <2>4 DEF StackOK, Stackable, NamesOf, Apart
      <3>2. Agree(LoadAll(copy, k.stack), copy, {key})
        BY <1>2, <3>1, LoadAllApart DEF TypeInv
      <3> QED
        BY <3>2 DEF Agree, Pending
    <2>5. Goes(t, j)
      BY <1>7, IdleGoes
    <2>6. j.pc \notin {"shelved", "moved"}
      BY <1>7 DEF Idle
    <2> QED
      BY <1>1, <1>2, <1>7, <2>4, <2>5, <2>6, ReplayStay DEF k, j
  <1>8. CASE k.then # "insert" /\ UNCHANGED elems /\ j = WithPcUnder(k, n, "below", none)
    <2>1. /\ j.pc = "below" /\ j.call = k.call /\ j.at = k.at /\ j.used = k.used \cup {n}
          /\ j.stack = k.stack
      BY <1>8 DEF WithPcUnder
    <2>2. StackOK(j)
      BY <1>2, <1>6, <2>1, StackKeeps DEF Making
    <2>3. Goes(t, j)
      BY <1>6, <2>1, <2>2 DEF Goes
    <2> QED
      BY <1>1, <1>2, <1>8, <2>1, <2>3, ReplayStay DEF k, j
  <1>9. CASE /\ ~Missing(elems, Live(n)) /\ elems' = Take(elems, Live(n))
             /\ j = WithPcPuidHeld(k, n, "shelved", puid, held)
    <2>1. /\ j.pc = "shelved" /\ j.call = k.call /\ j.at = k.at /\ j.used = k.used \cup {n}
          /\ j.stack = k.stack /\ j.old = n /\ j.then = k.then /\ j.held = held
      BY <1>2, <1>9 DEF WithPcPuidHeld
    <2>2. StackOK(j)
      BY <1>1, <1>2, <1>3, <1>6, <1>9, <2>1, StackKeeps DEF Making
    <2>3. Goes(t, j)
      BY <1>6, <2>1, <2>2 DEF Goes
    <2>4. \A m : Away(j, m) <=> m = n
      BY <2>1 DEF Away
    <2> QED
      BY <1>1, <1>2, <1>3, <1>4, <1>9, <2>1, <2>3, <2>4, ReplayTake DEF k, j
  <1> QED
    BY <1>1, <1>7, <1>8, <1>9

LEMMA ShelvedReplay ==
    ASSUME TypeInv, OneInv, ReplayInv, NEW t \in Threads, Shelved(t)
    PROVE  ReplayInv'
  <1> DEFINE k       == task[t]
             j       == task'[t]
             version == MakeHistoryKey(k.old, k.puid)
             c       == Rename(Live(k.old), version, k.held.attrs)
             none    == <<>>
             doomed  == k.under \o k.doomed
             past    == Append(k.held.past, k.held.value.text)
             stack   == Append(k.stack, c)
             p       == Pending(k)
  <1> PICK n : n = k.old
    OBVIOUS
  <1>1. /\ k.pc = "shelved" /\ copy' = copy /\ At(t, n) /\ Others(t)
        /\ elems' = Put(elems, version, k.held)
        /\ j = WithShelved(k, n, k.then, none, none, doomed, past, stack)
    BY ShelvedEffect, Zenon DEF ShelvedDoes
  <1>2. /\ TypeInv' /\ n \in Names /\ k.old = n /\ TaskOK(k, packs[t].history) /\ OneTask(k, t)
        /\ Emptied(k) /\ StackOK(k) /\ IsCommands(k.stack) /\ DOMAIN p = Keys
    BY <1>1, ShelvedType, CallFacts, StackFacts, PendingDomain DEF TaskOK
  <1>3. /\ IsElem(k.held) /\ k.puid \in 1 .. MaxUid /\ k.then \in {"insert", "below"}
        /\ k.held.attrs # NoAttrs
    <2>1. nextUid \in 1 .. MaxUid + 1 /\ MaxUid \in Nat
      BY UidFacts
    <2>2. k.puid \in 0 .. nextUid - 1 /\ k.puid # 0
      BY <1>1, <1>2 DEF TaskOK, OneTask
    <2>3. k.puid \in 1 .. MaxUid
      BY <2>1, <2>2
    <2> QED
      BY <1>1, <1>2, <2>3 DEF TaskOK, StackOK
  <1>4. /\ version \in Keys /\ version = <<n, k.puid>> /\ version[1] = n
        /\ Live(n) \in Keys /\ Live(n)[1] = n /\ Live(n) # version
    BY <1>2, <1>3, NamesFacts DEF MakeHistoryKey, Keys, Live
  <1> HIDE DEF version
  <1>5. /\ c.type = "RENAME" /\ c.key = Live(n) /\ c.data.new = version /\ c.type \in CommandTypes
        /\ NamesOf(c) = {n} /\ c = Rename(Live(n), version, k.held.attrs)
    BY <1>2, <1>4 DEF Rename, NamesOf, CommandTypes
  <1> HIDE DEF k, j, c, none, doomed, past, p
  <1>6. \A key \in Keys : key # version => elems'[key] = elems[key]
    BY <1>1, <1>3, PutFacts DEF TypeInv
  <1>7. /\ j.pc = k.then /\ j.call = k.call /\ j.at = k.at /\ j.used = k.used \cup {n}
        /\ j.stack = Append(k.stack, c)
    BY <1>1 DEF WithShelved
  <1>8. k.call.op # "rename"
    BY <1>1, <1>2 DEF TaskOK
  <1>9. Making(j) => Making(k) /\ k.at = n
    BY <1>1, <1>2, <1>3, <1>7 DEF Making, OneTask
  <1>10. StackOK(j)
    BY <1>2, <1>3, <1>4, <1>5, <1>7, <1>8, <1>9, StackMore
  <1>11. Goes(t, j)
    BY <1>3, <1>7, <1>8, <1>10 DEF Goes
  <1>12. Pending(task[t])' = Load(p, c)
    <2>1. IsList(k.stack)
      BY <1>2 DEF IsCommands
    <2> QED
      BY <1>1, <1>7, <2>1, LoadAllAppend DEF Pending, p, k, j
  <1>13. ASSUME NEW key \in Keys, key # version, key # Live(n) PROVE Load(p, c)[key] = p[key]
    <2>1. {key} \in SUBSET Keys /\ Agree(p, p, {key}) /\ Stays(c, {key}) /\ Apart(c, {key})
      BY <1>2, <1>4, <1>5, <1>13 DEF Agree, Stays, Apart
    <2>2. Agree(Load(p, c), p, {key})
      BY <1>5, <2>1, LoadAgree
    <2> QED
      BY <2>2 DEF Agree
  <1>14. ASSUME n \notin shared' PROVE Matches(task[t], n)'
    <2>1. Writes(t, {n})
      <3>1. \A key \in Keys : key[1] # n => key # version
        BY <1>4
      <3> QED
        BY <1>1, <1>2, <1>6, <1>7, <3>1, AtWrites DEF k, j
    <2>2. Matches(k, n) /\ Away(k, n) /\ n \notin shared
      BY <1>1, <1>2, <1>14, <2>1, AtMatches DEF Writes, Away, k
    <2>3. Missing(elems, Live(n))
      BY <1>1, <1>2, <2>2 DEF Emptied
    <2> DEFINE a == Head(p[Live(n)]).attrs
    <2>4. p[Live(n)] = <<ElementOf(k.held.value, k.held.subs, a)>>
      BY <1>1, <2>2 DEF Matches, AsHeld, p
    <2> HIDE DEF a
    <2>5. p[version] = BareList(elems[version])
      BY <1>2, <1>3, <1>4, <2>2 DEF Matches, Same, p, version
    <2>6. /\ Load(p, c)[Live(n)] = <<>>
          /\ Load(p, c)[version] = BareList(elems'[version])
      <3> PICK held : held = k.held
        OBVIOUS
      <3> PICK attrs : attrs = held.attrs
        OBVIOUS
      <3>1. held.attrs = (IF attrs = NoAttrs THEN a ELSE attrs)
        BY <1>3
      <3>2. /\ StoreOK(elems) /\ IsElem(held) /\ Live(n) # version /\ DOMAIN p = Keys
            /\ p[Live(n)] = <<ElementOf(held.value, held.subs, a)>>
        BY <1>2, <1>3, <1>4, <2>4 DEF TypeInv
      <3> PICK key : key = Live(n)
        OBVIOUS
      <3> PICK new : new = version
        OBVIOUS
      <3>3. p[key] = <<ElementOf(held.value, held.subs, a)>> /\ p[new] = BareList(elems[new])
        BY <2>5, <3>2
      <3>4. Carries(elems, p, key, new, held, a, attrs)
        BY <1>4, <3>1, <3>2, <3>3 DEF Carries
      <3>5. /\ Load(p, Rename(key, new, attrs))[key] = <<>>
            /\ Load(p, Rename(key, new, attrs))[new] = BareList(Put(elems, new, held)[new])
        BY <3>3, <3>4, RenameMatches
      <3> QED
        BY <1>1, <1>5, <3>5
    <2>7. Same(Pending(task[t]), Live(n))'
      BY <1>4, <1>6, <1>12, <2>3, <2>6, BareNone DEF Same, Missing
    <2>8. ASSUME NEW v \in 1 .. MaxUid PROVE Same(Pending(task[t]), MakeHistoryKey(n, v))'
      <3> DEFINE key == MakeHistoryKey(n, v)
      <3>1. key \in Keys /\ key # Live(n)
        BY <1>2, NamesFacts DEF MakeHistoryKey, Keys, Live
      <3>2. p[key] = BareList(elems[key])
        BY <2>2 DEF Matches, Same, p
      <3> HIDE DEF key
      <3>3. CASE key = version
        BY <1>12, <2>6, <3>3 DEF Same, key
      <3>4. CASE key # version
        BY <1>6, <1>12, <1>13, <3>1, <3>2, <3>4 DEF Same, key
      <3> QED
        BY <3>3, <3>4
    <2>9. ~Away(task[t], n)'
      BY <1>3, <1>7 DEF Away, j
    <2> QED
      BY <2>7, <2>8, <2>9 DEF Matches
  <1>15. \A m : Away(k, m) => m = n
    BY <1>1, <1>2 DEF Away
  <1>16. \A key \in Keys : key[1] # n => elems'[key] = elems[key]
    BY <1>4, <1>6
  <1>17. c.key \in Keys /\ j.pc \notin {"shelved", "moved"}
    BY <1>3, <1>4, <1>5, <1>7
  <1> QED
    BY <1>1, <1>2, <1>5, <1>7, <1>11, <1>14, <1>15, <1>16, <1>17, ReplayMore DEF k, j

LEMMA InsertNewReplay ==
    ASSUME TypeInv, OneInv, ReplayInv, NEW t \in Threads, InsertNew(t)
    PROVE  ReplayInv'
  <1> DEFINE k      == task[t]
             j      == task'[t]
             new    == NewElement(t)
             e      == new.e
             none   == <<>>
             doomed == Without(k.doomed, k.subs)
             c      == SetAll(Live(k.at), e)
             stack  == Append(k.stack, c)
             p      == Pending(k)
  <1> PICK n : n = k.at
    OBVIOUS
  <1>1. /\ k.pc = "insert" /\ copy' = copy /\ At(t, n) /\ Others(t)
        /\ \/ UNCHANGED elems /\ j = WithAgain(k, n, "take", 0, none, none)
           \/ /\ Missing(elems, Live(n)) /\ elems' = Put(elems, Live(n), WithPast(e, k.past))
              /\ j = WithPcDoomedStack(k, n, "below", doomed, stack)
    BY InsertNewEffect, Zenon DEF InsertNewDoes
  <1>2. /\ TypeInv' /\ n \in Names /\ k.at = n /\ TaskOK(k, packs[t].history)
        /\ StackOK(k) /\ IsCommands(k.stack) /\ DOMAIN p = Keys
    BY <1>1, InsertNewType, CallFacts, StackFacts, PendingDomain
  <1>3. e = ElementOf(e.value, e.subs, e.attrs) /\ Bare(WithPast(e, k.past)) = e
    <2>1. \E value, subs, attrs : e = ElementOf(value, subs, attrs)
      <3> DEFINE upd == UpdateAttr(packs[t], k.attrs, k.text, k.call.pass, k.call.expire, now, nextUid)
                 again == IF upd.old = 0 THEN k.puid # 0 ELSE k.puid # upd.old
                 attrs == IF again THEN DirectSetUniqId(packs[t], upd.attrs, k.puid, upd.uid)
                          ELSE upd.attrs
      <3>1. new = [e |-> ElementOf(upd.value, k.subs, attrs),
                   uid |-> IF again THEN upd.uid + 1 ELSE upd.uid]
        BY Zenon DEF NewElement
      <3> HIDE DEF new, upd, attrs, again
      <3> QED
        BY <3>1
    <2> HIDE DEF new
    <2>2. e = ElementOf(e.value, e.subs, e.attrs)
      BY <2>1 DEF ElementOf
    <2> HIDE DEF e
    <2> PICK past : past = k.past
      OBVIOUS
    <2>3. Bare(WithPast(e, past)) = ElementOf(e.value, e.subs, e.attrs)
      BY DEF Bare, WithPast, ElementOf
    <2> QED
      BY <2>2, <2>3
  <1>4. Live(n) \in Keys /\ Live(n)[1] = n
    BY <1>2, NamesFacts
  <1>5. /\ c.type = "SET_ALL" /\ c.key = Live(n) /\ c.type \in CommandTypes
        /\ NamesOf(c) = {n} /\ c = SetAll(Live(n), e)
    BY <1>2, <1>4 DEF SetAll, NamesOf, CommandTypes
  <1> HIDE DEF k, j, new, e, c, none, doomed, p
  <1>6. k.call.op # "rename" /\ Making(k)
    BY <1>1, <1>2 DEF TaskOK, Making
  <1>7. CASE UNCHANGED elems /\ j = WithAgain(k, n, "take", 0, none, none)
    <2>1. /\ j.pc = "take" /\ j.call = k.call /\ j.at = k.at /\ j.used = k.used \cup {n}
          /\ j.stack = k.stack
      BY <1>7 DEF WithAgain
    <2>2. StackOK(j)
      BY <1>2, <1>6, <2>1, StackKeeps
    <2>3. Goes(t, j)
      BY <1>6, <2>1, <2>2 DEF Goes
    <2> QED
      BY <1>1, <1>2, <1>7, <2>1, <2>3, ReplayStay DEF k, j
  <1>8. CASE /\ Missing(elems, Live(n)) /\ elems' = Put(elems, Live(n), WithPast(e, k.past))
             /\ j = WithPcDoomedStack(k, n, "below", doomed, stack)
    <2>1. /\ j.pc = "below" /\ j.call = k.call /\ j.at = k.at /\ j.used = k.used \cup {n}
          /\ j.stack = Append(k.stack, c)
      BY <1>8 DEF WithPcDoomedStack
    <2>2. StackOK(j)
      BY <1>2, <1>4, <1>5, <1>6, <2>1, StackMore DEF Making
    <2>3. Goes(t, j)
      BY <1>6, <2>1, <2>2 DEF Goes
    <2>4. /\ elems'[Live(n)] = Append(<<>>, WithPast(e, k.past))
          /\ \A key \in Keys : key # Live(n) => elems'[key] = elems[key]
      <3> PICK x : x = WithPast(e, k.past)
        OBVIOUS
      <3>1. elems' = [elems EXCEPT ![Live(n)] = Append(elems[Live(n)], x)]
        BY <1>8 DEF Put
      <3> QED
        BY <1>4, <1>8, <3>1 DEF Missing, TypeInv, StoreOK
    <2>5. \A key \in Keys : key[1] # n => key # Live(n)
      BY <1>4
    <2>6. Pending(task[t])' = Load(p, c)
      <3>1. IsList(k.stack)
        BY <1>2 DEF IsCommands
      <3> QED
        BY <1>1, <2>1, <3>1, LoadAllAppend DEF Pending, p, k, j
    <2>7. ASSUME NEW key \in Keys, key # Live(n) PROVE Load(p, c)[key] = p[key]
      <3>1. {key} \in SUBSET Keys /\ Agree(p, p, {key}) /\ Stays(c, {key}) /\ Apart(c, {key})
        BY <1>2, <1>4, <1>5, <2>7 DEF Agree, Stays, Apart
      <3>2. Agree(Load(p, c), p, {key})
        BY <1>5, <3>1, LoadAgree
      <3> QED
        BY <3>2 DEF Agree
    <2>8. \A m : ~Away(k, m) /\ ~Away(j, m)
      BY <1>1, <2>1, NotAway
    <2>9. ASSUME n \notin shared' PROVE Matches(task[t], n)'
      <3>1. Writes(t, {n})
        BY <1>1, <1>2, <2>1, <2>4, <2>5, AtWrites DEF k, j
      <3>2. Matches(k, n)
        BY <1>1, <1>2, <2>9, <3>1, AtMatches DEF Writes, k
      <3>3. p[Live(n)] = <<>>
        BY <1>8, <2>8, <3>2, BareNone DEF Matches, Same, Missing, p
      <3>4. Load(p, c)[Live(n)] = <<e>>
        <4> DEFINE f == ElementOf(e.value, e.subs, e.attrs)
        <4>1. Load(p, SetAll(Live(n), f))[Live(n)] = <<f>>
          BY <1>2, <1>4, <3>3, SetMatches
        <4>2. f = e
          BY <1>3
        <4> HIDE DEF f
        <4> QED
          BY <1>5, <4>1, <4>2
      <3>5. BareList(elems'[Live(n)]) = <<e>>
        <4> PICK x : x = WithPast(e, k.past)
          OBVIOUS
        <4>1. elems'[Live(n)] = Append(<<>>, x) /\ Bare(x) = e
          BY <1>3, <2>4
        <4>2. BareList(Append(<<>>, x)) = Append(BareList(<<>>), Bare(x))
          BY ListEmpty, BareAppend
        <4>3. Append(<<>>, e) = <<e>>
          OBVIOUS
        <4> QED
          BY <4>1, <4>2, <4>3, BareNone
      <3>6. Same(Pending(task[t]), Live(n))'
        BY <2>6, <3>4, <3>5 DEF Same
      <3> QED
        BY <1>2, <2>4, <2>6, <2>7, <2>8, <3>2, <3>6, MatchLive DEF k, j, p
    <2>10. \A key \in Keys : key[1] # n => elems'[key] = elems[key]
      BY <2>4, <2>5
    <2>11. c.key \in Keys /\ \A m : Away(k, m) => m = n
      BY <1>4, <1>5, <2>8
    <2> QED
      BY <1>1, <1>2, <1>5, <2>1, <2>3, <2>9, <2>10, <2>11, ReplayMore DEF k, j
  <1> QED
    BY <1>1, <1>7, <1>8

LEMMA BelowReplay ==
    ASSUME TypeInv, OneInv, ReplayInv, NEW t \in Threads, Below(t)
    PROVE  ReplayInv'
  <1> DEFINE k     == task[t]
             j     == task'[t]
             n     == Head(k.doomed)
             rest  == Tail(k.doomed)
             under == SubKeysOf(n, TRUE)
             more  == under \o rest
             stack == Stacked(k, n)
  <1>1. /\ k.pc = "below" /\ k.doomed # <<>> /\ copy' = copy /\ At(t, n) /\ Others(t)
        /\ \/ UNCHANGED elems /\ j = WithDoomed(k, n, rest)
           \/ /\ ~Missing(elems, Live(n)) /\ elems' = Take(elems, Live(n))
              /\ j = WithDoomedStack(k, n, more, stack)
           \/ /\ ~Missing(elems, Live(n)) /\ UNCHANGED elems
              /\ j = WithDoomedOldThenUnder(k, n, rest, "shelve", n, "below", under)
    BY BelowEffect, Zenon DEF BelowDoes
  <1>2. /\ TypeInv' /\ TaskOK(k, packs[t].history) /\ StackOK(k) /\ IsCommands(k.stack)
    BY <1>1, BelowType, CallFacts, StackFacts
  <1>3. n \in Names /\ stack = Append(k.stack, DelKey(Live(n)))
    <2>1. k.doomed \in Seq(Names) /\ k.doomed # <<>>
      BY <1>1, <1>2 DEF TaskOK
    <2> HIDE DEF k
    <2> QED
      BY <2>1 DEF Stacked
  <1> HIDE DEF k, j, n, rest, under, more, stack
  <1>4. k.call.op # "rename"
    BY <1>1, <1>2 DEF TaskOK
  <1>5. /\ j.call = k.call /\ j.at = k.at /\ j.used = k.used \cup {n}
        /\ j.pc \in {"below", "shelve"}
        /\ j.pc = "shelve" => j.old = n /\ j.then = "below" /\ ~Missing(elems', Live(n))
        /\ j.stack = k.stack \/ (j.pc = "below" /\ j.stack = stack)
    BY <1>1, <1>3 DEF WithDoomed, WithDoomedStack, WithDoomedOldThenUnder
  <1>6. StackOK(j)
    <2>1. CASE j.stack = k.stack
      BY <1>2, <1>4, <1>5, <2>1, StackKeeps DEF Making
    <2>2. CASE j.stack = stack /\ j.pc = "below"
      <3> DEFINE c == DelKey(Live(n))
      <3>1. /\ c.type = "DEL_KEY" /\ c.key \in Keys /\ NamesOf(c) = {n} /\ c.key[1] = n
        BY <1>3, NamesFacts DEF DelKey, NamesOf
      <3>2. j.stack = Append(k.stack, c) /\ ~Making(j)
        BY <1>3, <2>2 DEF Making
      <3> HIDE DEF c
      <3> QED
        BY <1>2, <1>4, <1>5, <2>2, <3>1, <3>2, StackMore
    <2> QED
      BY <1>5, <2>1, <2>2
  <1>7. Goes(t, j)
    BY <1>4, <1>5, <1>6 DEF Goes
  <1>8. CASE UNCHANGED elems /\ j.stack = k.stack
    BY <1>1, <1>2, <1>3, <1>5, <1>7, <1>8, ReplayStay DEF k, j
  <1>9. CASE /\ ~Missing(elems, Live(n)) /\ elems' = Take(elems, Live(n))
             /\ j = WithDoomedStack(k, n, more, stack)
    <2>1. j.stack = Append(k.stack, DelKey(Live(n))) /\ j.pc \notin {"shelved", "moved"}
      BY <1>3, <1>5, <1>9 DEF WithDoomedStack
    <2> QED
      BY <1>1, <1>2, <1>3, <1>5, <1>7, <1>9, <2>1, DeleteReplay DEF k, j
  <1>10. \A x, y, z : /\ WithDoomed(k, n, x).stack = k.stack
                      /\ WithDoomedOldThenUnder(k, n, x, "shelve", n, y, z).stack = k.stack
    BY DEF WithDoomed, WithDoomedOldThenUnder
  <1> QED
    BY <1>1, <1>8, <1>9, <1>10

LEMMA PutStackReplay ==
    ASSUME TypeInv, OneInv, ReplayInv, NEW t \in Threads, PutStack(t)
    PROVE  ReplayInv'
  <1> DEFINE k    == task[t]
             j    == task'[t]
             none == <<>>
  <1> PICK n : n = k.at
    OBVIOUS
  <1>1. /\ k.pc = "below" /\ copy' = LoadAll(copy, k.stack) /\ UNCHANGED elems
        /\ At(t, n) /\ Others(t)
        /\ \/ k.call.op = "addsubkey" /\ j = WithPcAtStack(k, n, "subs", k.call.key, none)
           \/ j = Idle
    BY PutStackEffect, Zenon DEF PutStackDoes
  <1>2. /\ TypeInv' /\ n \in Names /\ StackOK(k)
    BY <1>1, PutStackType, CallFacts, StackFacts
  <1>3. none = <<>> /\ ToSet(<<>>) = {}
    BY ListEmpty
  <1> HIDE DEF k, j, none
  <1>4. j # Idle => /\ j.pc = "subs" /\ j.call = k.call /\ j.stack = <<>>
                    /\ j.used = k.used \cup {n} /\ k.call.op = "addsubkey"
    BY <1>1, <1>3 DEF WithPcAtStack
  <1>5. j.stack = <<>> /\ j.pc \notin {"shelved", "moved"}
    BY <1>4 DEF Idle
  <1>6. Goes(t, j)
    <2>1. CASE j = Idle
      BY <2>1, IdleGoes
    <2>2. CASE j # Idle
      <3>1. StackOK(j)
        BY <1>3, <1>4, <2>2 DEF StackOK, Making
      <3> QED
        BY <1>4, <2>2, <3>1 DEF Goes
    <2> QED
      BY <2>1, <2>2
  <1>7. copy' = Pending(k) /\ Pending(task[t])' = copy'
    BY <1>1, <1>5, LoadAllEmpty DEF Pending, j
  <1>8. Writes(t, {n})
    <2>1. \A key \in Keys : key[1] \notin k.used => copy'[key] = copy[key]
      BY <1>7, PendingApart DEF k
    <2> QED
      BY <1>1, <1>2, <1>4, <2>1, AtWrites DEF k, j
  <1>9. \A m : ~Away(k, m) /\ ~Away(j, m)
    BY <1>1, <1>5, NotAway
  <1>10. ASSUME n \notin shared' PROVE Matches(task[t], n)'
    <2>1. Matches(k, n)
      BY <1>2, <1>8, <1>10, AtMatches DEF Writes, k
    <2>2. Same(Pending(task[t]), Live(n))'
      BY <1>1, <1>7, <1>9, <2>1 DEF Matches, Same
    <2> QED
      BY <1>1, <1>2, <1>7, <1>9, <2>1, <2>2, MatchLive DEF k, j
  <1>11. Makes(t, {n})
    BY <1>6, <1>7, <1>9, <1>10 DEF Makes, Goes, k, j
  <1> QED
    BY <1>1, <1>2, <1>6, <1>8, <1>11, ReplayAt DEF j

LEMMA ReplacedReplay ==
    ASSUME TypeInv, OneInv, ReplayInv, NEW t \in Threads, Replaced(t)
    PROVE  ReplayInv'
  <1> DEFINE k    == task[t]
             j    == task'[t]
             none == <<>>
             no   == FALSE
  <1> PICK n : n = k.call.key
    OBVIOUS
  <1>1. /\ k.pc = "replace" /\ At(t, n) /\ Others(t)
        /\ \/ /\ UNCHANGED <<elems, copy>>
              /\ j = WithAfresh(k, n, "take", n, NoText, no, 0, none, none)
           \/ /\ ~Missing(elems, Live(n)) /\ j = Idle
              /\ elems' = Reattributed(elems, Live(n), k.attrs)
              /\ copy' = Load(copy, ReplaceAttrs(Live(n), k.attrs))
           \/ /\ ~Missing(elems, Live(n)) /\ j = Idle
              /\ elems' = Relisted(elems, Live(n), k.subs)
              /\ copy' = Load(copy, ReplaceSKey(Live(n), k.subs))
    BY ReplacedEffect, Zenon DEF ReplacedDoes
  <1>2. /\ TypeInv' /\ n \in Names /\ k.at = n /\ TaskOK(k, packs[t].history) /\ StackOK(k)
        /\ k.stack = <<>>
    <2>1. /\ TypeInv' /\ OneTask(k, t) /\ TaskOK(k, packs[t].history) /\ StackOK(k)
          /\ k.at \in Names
      BY <1>1, ReplacedType, CallFacts, StackFacts
    <2> HIDE DEF k
    <2> QED
      BY <1>1, <2>1 DEF OneTask, StackOK
  <1> HIDE DEF k, j, none, no
  <1>3. k.call.op # "rename" /\ k.subs \in Seq(Names) /\ Ascending(k.subs)
    BY <1>1, <1>2 DEF TaskOK
  <1>4. CASE /\ UNCHANGED <<elems, copy>>
             /\ j = WithAfresh(k, n, "take", n, NoText, no, 0, none, none)
    <2>1. /\ j.pc = "take" /\ j.call = k.call /\ j.at = k.at /\ j.used = k.used \cup {n}
          /\ j.stack = k.stack
      BY <1>2, <1>4 DEF WithAfresh
    <2>2. StackOK(j)
      BY <1>2, <1>3, <2>1, StackKeeps
    <2>3. Goes(t, j)
      BY <1>3, <2>1, <2>2 DEF Goes
    <2> QED
      BY <1>1, <1>2, <1>4, <2>1, <2>3, ReplayStay DEF k, j
  <1>5. ASSUME ~Missing(elems, Live(n)), j = Idle, NEW c, c.type \in {"REPLACE_ATTRS", "REPLACE_SKEY"},
               c.key = Live(n), copy' = Load(copy, c),
               \A key \in Keys : key # Live(n) => elems'[key] = elems[key],
               copy[Live(n)] = BareList(elems[Live(n)]) => copy'[Live(n)] = BareList(elems'[Live(n)])
        PROVE  ReplayInv'
    <2>1. c.type \in CommandTypes /\ c.type # "RENAME"
      BY <1>5 DEF CommandTypes
    <2>2. Goes(t, j) /\ j.pc = "idle" /\ j.stack = <<>>
      BY <1>5, IdleGoes DEF Idle
    <2> QED
      BY <1>1, <1>2, <1>5, <2>1, <2>2, ReplayDirect DEF k, j
  <1>6. ASSUME ~Missing(elems, Live(n)), NEW x
        PROVE  /\ \A key \in Keys : key # Live(n) => Reattributed(elems, Live(n), x)[key] = elems[key]
               /\ \A key \in Keys : key # Live(n) => Relisted(elems, Live(n), x)[key] = elems[key]
    BY <1>6 DEF Reattributed, Relisted, TypeInv, StoreOK
  <1>7. Live(n) \in Keys /\ StoreOK(elems) /\ DOMAIN copy = Keys
    BY <1>2, NamesFacts DEF TypeInv
  <1>8. CASE /\ ~Missing(elems, Live(n)) /\ j = Idle
             /\ elems' = Reattributed(elems, Live(n), k.attrs)
             /\ copy' = Load(copy, ReplaceAttrs(Live(n), k.attrs))
    <2> DEFINE c == ReplaceAttrs(Live(n), k.attrs)
    <2>1. c.type = "REPLACE_ATTRS" /\ c.key = Live(n)
      BY DEF ReplaceAttrs
    <2>2. copy[Live(n)] = BareList(elems[Live(n)]) => copy'[Live(n)] = BareList(elems'[Live(n)])
      BY <1>7, <1>8, ChangeMatches
    <2>3. copy' = Load(copy, c)
      BY <1>8
    <2> HIDE DEF c
    <2> QED
      BY <1>5, <1>6, <1>8, <2>1, <2>2, <2>3
  <1>9. CASE /\ ~Missing(elems, Live(n)) /\ j = Idle
             /\ elems' = Relisted(elems, Live(n), k.subs)
             /\ copy' = Load(copy, ReplaceSKey(Live(n), k.subs))
    <2> DEFINE c == ReplaceSKey(Live(n), k.subs)
    <2>1. c.type = "REPLACE_SKEY" /\ c.key = Live(n)
      BY DEF ReplaceSKey
    <2>2. copy[Live(n)] = BareList(elems[Live(n)]) => copy'[Live(n)] = BareList(elems'[Live(n)])
      BY <1>3, <1>7, <1>9, ChangeMatches
    <2>3. copy' = Load(copy, c)
      BY <1>9
    <2> HIDE DEF c
    <2> QED
      BY <1>5, <1>6, <1>9, <2>1, <2>2, <2>3
  <1> QED
    BY <1>1, <1>4, <1>8, <1>9

LEMMA UnlistReplay ==
    ASSUME TypeInv, OneInv, ReplayInv, NEW t \in Threads, Unlist(t)
    PROVE  ReplayInv'
  <1> DEFINE k    == task[t]
             j    == task'[t]
             e    == Found(elems, Live(k.at))
             subs == Erase(e.subs, k.call.arg)
             one  == <<k.call.arg>>
             c    == ReplaceSKey(Live(k.at), subs)
  <1> PICK n : n = k.at
    OBVIOUS
  <1>1. /\ k.pc = "unlist" /\ At(t, n) /\ Others(t)
        /\ \/ UNCHANGED <<elems, copy>> /\ j = Idle
           \/ /\ ~Missing(elems, Live(n)) /\ elems' = Relisted(elems, Live(n), subs)
              /\ copy' = Load(copy, c) /\ j = WithPcDoomed(k, n, "below", one)
    BY UnlistEffect, Zenon DEF UnlistDoes
  <1>2. /\ TypeInv' /\ n \in Names /\ k.at = n /\ TaskOK(k, packs[t].history) /\ StackOK(k)
        /\ Live(n) \in Keys /\ StoreOK(elems) /\ Names \in SUBSET Nat /\ DOMAIN copy = Keys
        /\ k.stack = <<>> /\ Pending(k) = copy
    <2>1. /\ TypeInv' /\ n \in Names /\ k.at = n /\ TaskOK(k, packs[t].history) /\ StackOK(k)
          /\ (k.stack = <<>> => Pending(k) = copy)
      BY <1>1, UnlistType, CallFacts, StackFacts
    <2> HIDE DEF k
    <2> QED
      BY <1>1, <2>1, NamesFacts DEF TypeInv, StackOK
  <1>3. c.type = "REPLACE_SKEY" /\ c.key = Live(n) /\ c = ReplaceSKey(Live(n), subs)
    <2> HIDE DEF subs, k
    <2> QED
      BY <1>2 DEF ReplaceSKey
  <1>4. ~Missing(elems, Live(n)) => subs \in Seq(Names) /\ Ascending(subs)
    <2> SUFFICES ASSUME ~Missing(elems, Live(n)) PROVE subs \in Seq(Names) /\ Ascending(subs)
      OBVIOUS
    <2>1. IsElem(e)
      BY <1>2, FoundFacts
    <2>2. e.subs \in Seq(Names) /\ Ascending(e.subs)
      BY <2>1 DEF IsElem
    <2> HIDE DEF e
    <2>3. k.call.arg \in Names
      <3> HIDE DEF k
      <3> QED
        BY <1>1, <1>2 DEF TaskOK, WithArg
    <2> QED
      BY <1>2, <2>2, <2>3, EraseKeepsOrder
  <1> HIDE DEF k, j, e, subs, one, c
  <1>5. k.call.op # "rename"
    BY <1>1, <1>2 DEF TaskOK
  <1>6. CASE UNCHANGED <<elems, copy>> /\ j = Idle
    <2>1. Goes(t, j) /\ j.pc = "idle"
      BY <1>6, IdleGoes DEF Idle
    <2> QED
      BY <1>1, <1>2, <1>6, <2>1, ReplayStay DEF k, j
  <1>7. CASE /\ ~Missing(elems, Live(n)) /\ elems' = Relisted(elems, Live(n), subs)
             /\ copy' = Load(copy, c) /\ j = WithPcDoomed(k, n, "below", one)
    <2>1. /\ j.pc = "below" /\ j.call = k.call /\ j.at = k.at /\ j.used = k.used \cup {n}
          /\ j.stack = k.stack
      BY <1>7 DEF WithPcDoomed
    <2>2. StackOK(j)
      BY <1>2, <1>5, <2>1, StackKeeps DEF Making
    <2>3. Goes(t, j)
      BY <1>5, <2>1, <2>2 DEF Goes
    <2>4. \A key \in Keys : key # Live(n) => elems'[key] = elems[key]
      BY <1>2, <1>7 DEF Relisted, StoreOK
    <2>5. copy[Live(n)] = BareList(elems[Live(n)]) => copy'[Live(n)] = BareList(elems'[Live(n)])
      BY <1>2, <1>3, <1>4, <1>7, ChangeMatches
    <2>6. c.type \in CommandTypes /\ c.type # "RENAME"
      BY <1>3 DEF CommandTypes
    <2> QED
      BY <1>1, <1>2, <1>3, <1>7, <2>1, <2>3, <2>4, <2>5, <2>6, ReplayDirect DEF k, j
  <1> QED
    BY <1>1, <1>6, <1>7

\* A Rename has its element, which nothing else can be under the name it goes to.
LEMMA MoveReplay ==
    ASSUME TypeInv, OneInv, ReplayInv, NEW t \in Threads, Move(t)
    PROVE  ReplayInv'
  <1> DEFINE k    == task[t]
             j    == task'[t]
             e    == Found(elems, Live(k.at))
             held == WithPast(e, <<>>)
  <1> PICK n : n = k.at
    OBVIOUS
  <1>1. /\ k.pc = "move" /\ copy' = copy /\ At(t, n) /\ Others(t)
        /\ \/ UNCHANGED elems /\ j = Idle
           \/ /\ ~Missing(elems, Live(n)) /\ elems' = Take(elems, Live(n))
              /\ j = WithPcHeld(k, n, "moved", held)
    BY MoveEffect, Zenon DEF MoveDoes
  <1>2. /\ TypeInv' /\ n \in Names /\ k.at = n /\ StackOK(k) /\ k.stack = <<>>
        /\ Pending(k) = copy /\ Missing(elems, Live(k.call.arg))
    <2>1. /\ TypeInv' /\ n \in Names /\ k.at = n /\ StackOK(k)
          /\ (k.stack = <<>> => Pending(k) = copy) /\ Missing(elems, Live(k.call.arg))
      BY <1>1, MoveType, CallFacts, StackFacts DEF OneInv, RenamesFree, Renaming
    <2> HIDE DEF k
    <2> QED
      BY <1>1, <2>1 DEF StackOK
  <1>3. held.value = e.value /\ held.subs = e.subs /\ held.attrs = e.attrs
    <2> HIDE DEF e
    <2> QED
      BY DEF WithPast
  <1>4. e = Found(elems, Live(n))
    OBVIOUS
  <1> HIDE DEF k, j, e, held
  <1>5. CASE UNCHANGED elems /\ j = Idle
    <2>1. Goes(t, j) /\ j.pc = "idle"
      BY <1>5, IdleGoes DEF Idle
    <2> QED
      BY <1>1, <1>2, <1>5, <2>1, ReplayStay DEF k, j
  <1>6. CASE /\ ~Missing(elems, Live(n)) /\ elems' = Take(elems, Live(n))
             /\ j = WithPcHeld(k, n, "moved", held)
    <2>1. /\ j.pc = "moved" /\ j.call = k.call /\ j.at = n /\ j.used = k.used \cup {n}
          /\ j.stack = k.stack /\ j.held = held
      BY <1>2, <1>6 DEF WithPcHeld
    <2>2. j.at # j.call.arg /\ n \in j.used
      BY <1>2, <1>6, <2>1
    <2>3. StackOK(j)
      BY <1>2, <2>1, <2>2, ListEmpty DEF StackOK, Making
    <2>4. Goes(t, j)
      BY <1>1, <1>2, <1>6, <2>1, <2>3 DEF Goes, k
    <2>5. \A m : Away(j, m) <=> m = n
      BY <2>1 DEF Away
    <2> QED
      BY <1>1, <1>2, <1>3, <1>4, <1>6, <2>1, <2>4, <2>5, ReplayTake DEF k, j
  <1> QED
    BY <1>1, <1>5, <1>6

\* The element arrives under its new name: two names at once.
LEMMA MovedShares ==
    ASSUME TypeInv, OneInv, ReplayInv, NEW t \in Threads, Moved(t), NEW m, m = task[t].at,
           NEW n, n = task[t].call.arg
    PROVE  /\ shared \subseteq shared' /\ shared' \subseteq shared \cup {m, n}
           /\ m \in shared' => n \in shared'
           /\ \A s \in Threads \ {t} : {m, n} \cap task[s].used \subseteq shared'
           /\ m \in Names /\ n \in Names /\ m # n /\ m \in task[t].used /\ Renaming(task[t])
           /\ task[t].call.op = "rename" /\ task[t].stack = <<>>
  <1> DEFINE k     == task[t]
             names == IF \E u \in Threads \ {t} : n \in task[u].used
                      THEN shared \cup {m, n} ELSE shared
  <1>1. k.pc = "moved" /\ shared' = BothNames(names, m, n)
    BY MovedEffect, Zenon DEF MovedDoes
  <1>2. /\ TaskOK(k, packs[t].history) /\ OneTask(k, t) /\ StackOK(k) /\ k.at \in Names
    BY <1>1, CallFacts, StackFacts
  <1>3. /\ m \in Names /\ n \in Names /\ m # n /\ m \in k.used /\ k.call.op = "rename"
        /\ k.stack = <<>> /\ Renaming(k)
    <2> HIDE DEF k
    <2>1. k.at = m /\ k.call.arg = n
      BY DEF k
    <2> QED
      BY <1>1, <1>2, <2>1 DEF TaskOK, OneTask, StackOK, WithArg, Renaming
  <1>4. shared \subseteq names /\ names \subseteq shared \cup {m, n} /\ (m \in names \ shared => n \in names)
    OBVIOUS
  <1>5. \A s \in Threads \ {t} : n \in task[s].used => n \in names
    OBVIOUS
  <1>6. \A s \in Threads \ {t} : m \in task[s].used => m \in shared
    BY <1>3 DEF OneInv, Exclusive
  <1> HIDE DEF names
  <1>7. /\ names \subseteq shared' /\ shared' \subseteq names \cup {n}
        /\ m \in shared' => n \in shared'
    BY <1>1, <1>3 DEF BothNames
  <1> QED
    BY <1>3, <1>4, <1>5, <1>6, <1>7

LEMMA MovedKept ==
    ASSUME TypeInv, OneInv, ReplayInv, NEW t \in Threads, Moved(t), NEW s \in Threads \ {t}
    PROVE  Kept(task[s])'
  <1> DEFINE k == task[t]
  <1> PICK m : m = k.at
    OBVIOUS
  <1> PICK n : n = k.call.arg
    OBVIOUS
  <1>1. elems' = Put(elems, Live(n), k.held) /\ Others(t)
    BY MovedEffect, Zenon DEF MovedDoes
  <1>2. /\ task'[s] = task[s] /\ StackOK(task[s]) /\ Kept(task[s])
        /\ TaskOK(task[s], packs[s].history)
    BY <1>1, TaskFacts DEF Others, ReplayInv, StacksOK
  <1>3. /\ shared \subseteq shared' /\ shared' \subseteq shared \cup {m, n}
        /\ m \in task[t].used /\ n \in Names /\ Renaming(task[t])
    BY MovedShares
  <1>4. ASSUME task[s].pc = "shelve", task[s].old \notin shared'
        PROVE  ~Missing(elems', Live(task[s].old))
    <2>1. ~Missing(elems, Live(task[s].old)) /\ Live(task[s].old) \in Keys /\ Live(n) \in Keys
      BY <1>2, <1>3, <1>4, NamesFacts DEF Kept, TaskOK
    <2> PICK held : held = k.held
      OBVIOUS
    <2> PICK key : key = Live(task[s].old)
      OBVIOUS
    <2>2. IsList(elems[Live(n)]) /\ DOMAIN elems = Keys /\ key \in Keys /\ elems[key] # <<>>
      BY <2>1 DEF TypeInv, StoreOK, Missing
    <2>3. Append(elems[Live(n)], held) # <<>>
      <3> PICK list : list = elems[Live(n)]
        OBVIOUS
      <3>1. IsList(list)
        BY <2>2
      <3>2. Append(list, held) # <<>>
        BY <3>1, ListAppend
      <3> QED
        BY <3>2
    <2>4. elems' = [elems EXCEPT ![Live(n)] = Append(elems[Live(n)], held)]
      BY <1>1 DEF Put
    <2>5. elems'[key] # <<>>
      BY <2>2, <2>3, <2>4
    <2> QED
      BY <2>5 DEF Missing
  <1>5. ASSUME task[s].call.op = "rename", task[s].pc = "below", task[s].at \in shared'
        PROVE  task[s].call.arg \in shared'
    <2>1. task[s].at \in task[s].used
      BY <1>2, <1>5 DEF StackOK
    <2>2. task[s].at # n
      BY <1>3, <1>5 DEF ReplayInv, NoChain
    <2>3. task[s].at = m => m \in shared
      BY <1>3, <2>1 DEF OneInv, Exclusive
    <2>4. task[s].at \in shared
      BY <1>3, <1>5, <2>2, <2>3
    <2> QED
      BY <1>2, <1>3, <1>5, <2>4 DEF Kept
  <1> QED
    BY <1>2, <1>4, <1>5 DEF Kept

LEMMA MovedReplay ==
    ASSUME TypeInv, OneInv, ReplayInv, NEW t \in Threads, Moved(t)
    PROVE  ReplayInv'
  <1> DEFINE k    == task[t]
             j    == task'[t]
             none == <<>>
             c    == Rename(Live(k.at), Live(k.call.arg), NoAttrs)
             one  == <<c>>
  <1> PICK m : m = k.at
    OBVIOUS
  <1> PICK n : n = k.call.arg
    OBVIOUS
  <1>1. /\ k.pc = "moved" /\ copy' = copy /\ Others(t) /\ elems' = Put(elems, Live(n), k.held)
        /\ j = WithMoved(k, n, "below", none, one)
    BY MovedEffect, Zenon DEF MovedDoes
  <1>2. /\ shared \subseteq shared' /\ (m \in shared' => n \in shared')
        /\ \A s \in Threads \ {t} : {m, n} \cap task[s].used \subseteq shared'
        /\ m \in Names /\ n \in Names /\ m # n /\ m \in k.used /\ Renaming(k)
        /\ k.call.op = "rename" /\ k.stack = <<>>
    BY MovedShares
  <1>3. /\ TypeInv' /\ Emptied(k) /\ IsElem(k.held) /\ StoreOK(elems) /\ DOMAIN copy = Keys
        /\ Pending(k) = copy
    <2>1. /\ TypeInv' /\ Emptied(k) /\ TaskOK(k, packs[t].history)
          /\ (k.stack = <<>> => Pending(k) = copy)
      BY <1>1, MovedType, CallFacts, StackFacts
    <2> HIDE DEF k
    <2> QED
      BY <1>1, <1>2, <2>1 DEF TypeInv, TaskOK
  <1>4. /\ Live(m) \in Keys /\ Live(m)[1] = m /\ Live(n) \in Keys /\ Live(n)[1] = n
        /\ Live(m) # Live(n)
    BY <1>2, NamesFacts
  <1>5. /\ c = Rename(Live(m), Live(n), NoAttrs) /\ c.type = "RENAME" /\ c.key = Live(m)
        /\ c.data.new = Live(n) /\ c.type \in CommandTypes /\ NamesOf(c) = {m, n}
        /\ IsList(one) /\ ToSet(one) = {c}
    <2>1. c = Rename(Live(m), Live(n), NoAttrs)
      OBVIOUS
    <2> HIDE DEF c
    <2>2. c.type = "RENAME" /\ c.key = Live(m) /\ c.data.new = Live(n)
      BY <2>1 DEF Rename
    <2>3. IsList(one) /\ ToSet(one) = {c}
      BY ListOne
    <2> QED
      BY <1>4, <2>1, <2>2, <2>3 DEF NamesOf, CommandTypes
  <1>6. j.stack = one /\ one = Append(<<>>, c)
    <2> HIDE DEF c, k
    <2> QED
      BY <1>1 DEF WithMoved
  <1> HIDE DEF k, j, c, one, none
  <1>7. /\ j.pc = "below" /\ j.call = k.call /\ j.at = m /\ k.at = m /\ k.call.arg = n
        /\ j.used = k.used \cup {n} /\ j.used = k.used \cup {m, n}
    <2>1. k.at = m /\ k.call.arg = n
      BY DEF k
    <2>2. j.pc = "below" /\ j.call = k.call /\ j.at = k.at /\ j.used = k.used \cup {n}
      BY <1>1 DEF WithMoved
    <2> QED
      BY <1>2, <2>1, <2>2
  <1>8. Pending(task[t])' = Load(copy, c)
    <2>1. LoadAll(copy, Append(<<>>, c)) = Load(LoadAll(copy, <<>>), c)
      BY ListEmpty, LoadAllAppend
    <2> QED
      BY <1>1, <1>6, <2>1, LoadAllEmpty DEF Pending, j
  <1>9. ASSUME NEW key \in Keys, key # Live(m), key # Live(n)
        PROVE  Load(copy, c)[key] = copy[key] /\ elems'[key] = elems[key]
    <2>1. {key} \in SUBSET Keys /\ Agree(copy, copy, {key}) /\ Stays(c, {key}) /\ Apart(c, {key})
      BY <1>3, <1>4, <1>5, <1>9 DEF Agree, Stays, Apart
    <2>2. Agree(Load(copy, c), copy, {key})
      BY <1>5, <2>1, LoadAgree
    <2>3. elems'[key] = elems[key]
      BY <1>1, <1>3, <1>4, <1>9, PutFacts
    <2> QED
      BY <2>2, <2>3 DEF Agree
  <1>10. elems'[Live(m)] = elems[Live(m)]
    BY <1>1, <1>3, <1>4, PutFacts
  <1>11. StackOK(j)
    <2>1. Stackable(j, c)
      BY <1>2, <1>4, <1>5, <1>7 DEF Stackable
    <2> QED
      BY <1>2, <1>5, <1>6, <1>7, <2>1 DEF StackOK, Making
  <1>12. Writes(t, {m, n})
    <2>1. \A key \in Keys : key[1] \notin {m, n} => elems'[key] = elems[key]
      BY <1>4, <1>9
    <2> QED
      BY <1>1, <1>2, <1>7, <2>1 DEF Writes, k, j
  <1>13. \A x : ~Away(j, x) /\ (Away(k, x) <=> x = m)
    BY <1>1, <1>7 DEF Away
  <1>14. ASSUME NEW x \in {m, n}, x \notin shared' PROVE Matches(k, x)
    BY <1>2, <1>14, AtMatches DEF k
  <1>15. ASSUME m \notin shared'
         PROVE  /\ Missing(elems, Live(m)) /\ Load(copy, c)[Live(m)] = <<>>
                /\ n \notin shared' => Load(copy, c)[Live(n)] = BareList(elems'[Live(n)])
    <2>1. Missing(elems, Live(m))
      BY <1>1, <1>2, <1>3, <1>7, <1>15 DEF Emptied
    <2> DEFINE a == k.held.attrs
               attrs == NoAttrs
    <2>2. copy[Live(m)] = <<ElementOf(k.held.value, k.held.subs, a)>>
      BY <1>1, <1>3, <1>13, <1>14, <1>15 DEF Matches, AsHeld
    <2>3. k.held.attrs = (IF attrs = NoAttrs THEN a ELSE attrs)
      OBVIOUS
    <2>4. n \notin shared' => copy[Live(n)] = BareList(elems[Live(n)])
      BY <1>2, <1>3, <1>13, <1>14 DEF Matches, Same
    <2>5. c = Rename(Live(m), Live(n), attrs)
      BY <1>5
    <2> HIDE DEF a, attrs
    <2> PICK held : held = k.held
      OBVIOUS
    <2> PICK key : key = Live(m)
      OBVIOUS
    <2> PICK new : new = Live(n)
      OBVIOUS
    <2>6. Carries(elems, copy, key, new, held, a, attrs)
      BY <1>3, <1>4, <2>2, <2>3 DEF Carries
    <2>7. /\ Load(copy, Rename(key, new, attrs))[key] = <<>>
          /\ copy[new] = BareList(elems[new]) =>
                 Load(copy, Rename(key, new, attrs))[new] = BareList(Put(elems, new, held)[new])
      BY <2>6, RenameMatches
    <2> QED
      BY <1>1, <2>1, <2>4, <2>5, <2>7
  <1>16. ASSUME NEW x \in {m, n}, x \notin shared' PROVE Matches(task[t], x)'
    <2>1. m \notin shared' /\ Matches(k, x)
      BY <1>2, <1>14, <1>16
    <2>2. Same(Pending(task[t]), Live(x))'
      <3>1. CASE x = m
        BY <1>8, <1>10, <1>15, <2>1, <3>1, BareNone DEF Same, Missing
      <3>2. CASE x = n
        BY <1>8, <1>15, <1>16, <2>1, <3>2 DEF Same
      <3> QED
        BY <3>1, <3>2
    <2>3. ASSUME NEW v \in 1 .. MaxUid PROVE Same(Pending(task[t]), MakeHistoryKey(x, v))'
      <3> DEFINE key == MakeHistoryKey(x, v)
      <3>1. key \in Keys /\ key # Live(m) /\ key # Live(n)
        BY <1>2, NamesFacts DEF MakeHistoryKey, Keys, Live
      <3>2. copy[key] = BareList(elems[key])
        BY <1>3, <2>1 DEF Matches, Same
      <3> HIDE DEF key
      <3>3. Same(Pending(task[t]), key)'
        BY <1>8, <1>9, <3>1, <3>2 DEF Same
      <3> QED
        BY <3>3 DEF key
    <2>4. ~Away(task[t], x)'
      BY <1>13 DEF Away, j
    <2> QED
      BY <2>2, <2>3, <2>4 DEF Matches
  <1>17. Makes(t, {m, n})
    <2>1. \A key \in Keys : key[1] \in k.used \ ({m, n} \cup shared') =>
              Pending(task[t])'[key] = Pending(task[t])[key]
      BY <1>3, <1>4, <1>8, <1>9 DEF k
    <2> QED
      BY <1>11, <1>13, <1>16, <2>1 DEF Makes, k, j
  <1>18. \A s \in Threads : Kept(task[s])'
    <2>1. Kept(task[t])'
      BY <1>2, <1>7 DEF Kept, j
    <2> QED
      BY <2>1, MovedKept
  <1>19. NoChain'
    <2> SUFFICES ASSUME NEW s \in Threads, NEW u \in Threads, Renaming(task'[u]),
                        task'[s].call.op = "rename", task'[s].pc \in {"moved", "below"}
                 PROVE  task'[s].at # task'[u].call.arg
      BY DEF NoChain, Renaming
    <2>1. u # t /\ task'[u] = task[u]
      BY <1>1, <1>7 DEF Renaming, Others, j
    <2>2. CASE s = t
      <3>1. task[s].call.op = "rename" /\ task[s].pc = "moved" /\ task'[s].at = task[s].at
        BY <1>1, <1>2, <1>7, <2>2 DEF j, k
      <3> QED
        BY <2>1, <3>1 DEF ReplayInv, NoChain
    <2>3. CASE s # t
      BY <1>1, <2>1, <2>3 DEF ReplayInv, NoChain, Others
    <2> QED
      BY <2>2, <2>3
  <1> QED
    BY <1>3, <1>12, <1>17, <1>18, <1>19, StepReplay

\* A call that begins has been at no name yet.
LEMMA BeginReplay ==
    ASSUME TypeInv, TypeInv', OneInv, ReplayInv, NEW t \in Threads, NEW op, NEW pc,
           Begin(t, op, pc), pc \in {"subs", "take", "replace", "attrs", "unlist", "move", "get"},
           pc = "move" <=> op = "rename"
    PROVE  ReplayInv'
  <1> DEFINE k == task[t]
             j == task'[t]
  <1>1. /\ k.pc = "idle" /\ UNCHANGED <<use, elems, copy, shared>> /\ Others(t)
    BY BeginEffect
  <1>2. PICK c \in use.calls[t] : /\ c.op = op
                                  /\ op = "rename" => MayRename(c)
                                  /\ j = Begun(c, op, pc)
    BY BeginEffect
  <1>3. j.pc = pc /\ j.call = c /\ j.stack = <<>> /\ j.used = {}
    <2> HIDE DEF j
    <2> QED
      BY <1>2 DEF Begun
  <1>4. k.used = {} /\ ToSet(<<>>) = {}
    BY <1>1, TaskFacts, ListEmpty DEF TaskOK
  <1>5. Writes(t, {})
    BY <1>1, <1>3, <1>4 DEF Writes
  <1> HIDE DEF k, j
  <1>6. StackOK(j)
    BY <1>2, <1>3, <1>4 DEF StackOK, Making
  <1>7. \A n : ~Away(k, n) /\ ~Away(j, n)
    BY <1>1, <1>3 DEF Away
  <1>8. Makes(t, {})
    BY <1>4, <1>6, <1>7 DEF Makes, k, j
  <1>9. ASSUME NEW s \in Threads PROVE Kept(task[s])'
    <2>1. CASE s = t
      BY <1>2, <1>3, <2>1 DEF Kept, j
    <2>2. CASE s # t
      <3>1. task'[s] = task[s] /\ Kept(task[s])
        BY <1>1, <2>2 DEF Others, ReplayInv, StacksOK
      <3> QED
        BY <1>1, <3>1 DEF Kept, Missing
    <2> QED
      BY <2>1, <2>2
  <1>10. NoChain'
    <2> SUFFICES ASSUME NEW s \in Threads, NEW u \in Threads, Renaming(task'[u]),
                        task'[s].call.op = "rename", task'[s].pc \in {"moved", "below"}
                 PROVE  task'[s].at # task'[u].call.arg
      BY DEF NoChain, Renaming
    <2>1. s # t /\ task'[s] = task[s]
      BY <1>1, <1>3 DEF Others, j
    <2>2. task[s].at \in task[s].used
      BY <2>1 DEF ReplayInv, StacksOK, StackOK
    <2>3. CASE u = t
      <3>1. op = "rename"
        BY <1>3, <2>3 DEF Renaming, j
      <3>2. use.toFreeName
        BY DEF OneInv, FreeNames
      <3>3. c.arg \notin task[s].used
        BY <1>2, <3>1, <3>2 DEF MayRename
      <3> QED
        BY <1>3, <2>1, <2>2, <2>3, <3>3 DEF j
    <2>4. CASE u # t
      BY <1>1, <2>1, <2>4 DEF ReplayInv, NoChain, Others
    <2> QED
      BY <2>3, <2>4
  <1> QED
    BY <1>5, <1>8, <1>9, <1>10, StepReplay

LEMMA BeginsReplay ==
    ASSUME TypeInv, OneInv, ReplayInv, NEW t \in Threads, Calls(t)
    PROVE  ReplayInv'
  <1>1. TypeInv'
    BY BeginsType
  <1> QED
    BY <1>1, BeginReplay DEF Calls, CallSet, CallSetAll, CallSetSubkeys, CallAddSubkey,
      CallAddAttr, CallRemove, CallRemoveSubkey, CallRename, CallGetTrial

\* Steps that touch no key.
LEMMA StandReplay ==
    ASSUME ReplayInv, UNCHANGED <<elems, copy, task, shared>>
    PROVE  ReplayInv'
  <1>1. \A t \in Threads : Pending(task[t])' = Pending(task[t])
    BY DEF Pending
  <1>2. \A t \in Threads : \A n : Matches(task[t], n) => Matches(task[t], n)'
    BY <1>1 DEF Matches, Same, Away, AsHeld
  <1>3. CallsMatch'
    BY <1>2 DEF ReplayInv, CallsMatch
  <1>4. RestMatches'
    BY DEF ReplayInv, RestMatches, Used, Same
  <1>5. \A t \in Threads : Kept(task[t]) => Kept(task[t])'
    BY DEF Kept, Missing
  <1>6. StacksOK' /\ NoChain'
    BY <1>5 DEF ReplayInv, StacksOK, NoChain
  <1> QED
    BY <1>3, <1>4, <1>6 DEF ReplayInv

LEMMA LoadedMore ==
    ASSUME StoreOK(elems), \A key \in Keys : Len(elems[key]) <= 1, NEW keys, NEW i \in Nat,
           NEW store, LoadedUpTo(store, keys, i), NEW key \in Keys, keys[i + 1] = key,
           \A q \in 1 .. i : keys[q] # key, ~Missing(elems, key)
    PROVE  LoadedUpTo(Load(store, SetAll(key, Bare(Found(elems, key)))), keys, i + 1)
  <1> DEFINE e   == Found(elems, key)
             c   == SetAll(key, Bare(e))
             new == Load(store, c)
  <1>1. DOMAIN store = Keys /\ store[key] = <<>>
    BY DEF LoadedUpTo
  <1>2. new[key] = BareList(elems[key])
    <2>1. Bare(e) = ElementOf(e.value, e.subs, e.attrs)
      BY DEF Bare
    <2>2. BareList(elems[key]) = <<Bare(e)>>
      BY BareOne DEF StoreOK, Missing, Found
    <2> HIDE DEF e
    <2>3. Load(store, SetAll(key, ElementOf(e.value, e.subs, e.attrs)))[key]
          = <<ElementOf(e.value, e.subs, e.attrs)>>
      BY <1>1, SetMatches
    <2> QED
      BY <2>1, <2>2, <2>3
  <1>3. c.type = "SET_ALL" /\ c.key = key /\ c.type \in CommandTypes
    BY DEF SetAll, CommandTypes
  <1> HIDE DEF c
  <1>4. ASSUME NEW other \in Keys, other # key PROVE new[other] = store[other]
    <2>1. {other} \in SUBSET Keys /\ Agree(store, store, {other}) /\ Stays(c, {other}) /\ Apart(c, {other})
      BY <1>1, <1>3, <1>4 DEF Agree, Stays, Apart
    <2>2. Agree(Load(store, c), store, {other})
      BY <1>3, <2>1, LoadAgree
    <2> QED
      BY <2>2 DEF Agree
  <1>5. DOMAIN new = Keys
    BY <1>1, <1>3, LoadDomain
  <1> HIDE DEF new
  <1>6. ASSUME NEW other \in Keys
        PROVE  new[other] = IF \E q \in 1 .. i + 1 : keys[q] = other
                            THEN BareList(elems[other]) ELSE <<>>
    <2>1. CASE other = key
      <3>1. i + 1 \in 1 .. i + 1
        OBVIOUS
      <3> QED
        BY <1>2, <2>1, <3>1
    <2>2. CASE other # key
      <3>1. (\E q \in 1 .. i + 1 : keys[q] = other) <=> \E q \in 1 .. i : keys[q] = other
        <4>1. \A q \in 1 .. i + 1 : q = i + 1 \/ q \in 1 .. i
          OBVIOUS
        <4>2. \A q \in 1 .. i : q \in 1 .. i + 1
          OBVIOUS
        <4> QED
          BY <2>2, <4>1, <4>2
      <3> QED
        BY <1>4, <2>2, <3>1 DEF LoadedUpTo
    <2> QED
      BY <2>1, <2>2
  <1>7. LoadedUpTo(new, keys, i + 1)
    BY <1>5, <1>6 DEF LoadedUpTo
  <1> QED
    BY <1>7 DEF new, c

LEMMA LoadSave ==
    ASSUME StoreOK(elems), \A key \in Keys : Len(elems[key]) <= 1, NEW none, DOMAIN none = Keys,
           \A key \in Keys : none[key] = <<>>
    PROVE  \A key \in Keys : LoadAll(none, Save(elems))[key] = BareList(elems[key])
  <1> DEFINE S    == FullKeys(elems)
             keys == SetToSeq(S)
             list == Save(elems)
             L    == Len(list)
  <1>1. IsFiniteSet(S) /\ S \in SUBSET Keys /\ \A key \in Keys : key \in S <=> ~Missing(elems, key)
    BY FullKeysFacts DEF FullKeys, StoreOK
  <1>2. /\ IsCommands(list) /\ L = Len(keys) /\ IsList(list) /\ L \in Nat
        /\ \A i \in 1 .. L : list[i] = SetAll(keys[i], Bare(Found(elems, keys[i])))
    <2>1. /\ IsCommands(list) /\ L = Len(keys)
          /\ \A i \in 1 .. Len(keys) : list[i] = SetAll(keys[i], Bare(Found(elems, keys[i])))
      BY SaveFacts, Zenon
    <2> HIDE DEF list, keys
    <2> QED
      BY <2>1, ListMembers DEF IsCommands
  <1>3. /\ keys \in Seq(S) /\ ToSet(keys) = S
        /\ \A i, q \in 1 .. Len(keys) : keys[i] = keys[q] => i = q
    BY <1>1, SetToSeqFacts
  <1> HIDE DEF S, keys, list, L
  <1>4. /\ \A i \in 1 .. L : keys[i] \in S
        /\ \A key \in S : \E i \in 1 .. L : keys[i] = key
    BY <1>2, <1>3 DEF ToSet
  <1>5. PICK f : Replays(f, none, list)
    BY <1>2, LoadAllSteps
  <1>6. /\ f[0] = none /\ LoadAll(none, list) = f[L]
        /\ \A i \in 1 .. L : f[i] = Load(f[i - 1], list[i])
    BY <1>5 DEF Replays, L
  <1> DEFINE T == {i \in Nat : i <= L => LoadedUpTo(f[i], keys, i)}
  <1>7. 0 \in T
    BY <1>6 DEF LoadedUpTo
  <1>8. ASSUME NEW i \in T PROVE i + 1 \in T
    <2> SUFFICES ASSUME i + 1 <= L PROVE LoadedUpTo(f[i + 1], keys, i + 1)
      OBVIOUS
    <2>1. i \in Nat /\ i + 1 \in 1 .. L /\ (i + 1) - 1 = i /\ LoadedUpTo(f[i], keys, i)
      BY <1>2
    <2> PICK key : key = keys[i + 1]
      OBVIOUS
    <2>2. key \in Keys /\ ~Missing(elems, key)
      BY <1>1, <1>4, <2>1
    <2>3. \A q \in 1 .. i : keys[q] # key
      <3>1. \A q \in 1 .. i : q \in 1 .. L /\ q # i + 1
        BY <1>2, <2>1
      <3> QED
        BY <1>2, <1>3, <2>1, <3>1
    <2>4. f[i + 1] = Load(f[i], SetAll(key, Bare(Found(elems, key))))
      BY <1>2, <1>6, <2>1
    <2> HIDE DEF T
    <2> QED
      BY <2>1, <2>2, <2>3, <2>4, LoadedMore
  <1>9. T = Nat
    <2>1. T \in SUBSET Nat
      OBVIOUS
    <2> HIDE DEF T
    <2> QED
      BY <1>7, <1>8, <2>1, SetInduction
  <1>10. LoadedUpTo(f[L], keys, L)
    BY <1>2, <1>9
  <1>11. ASSUME NEW key \in Keys PROVE f[L][key] = BareList(elems[key])
    <2>1. CASE key \in S
      BY <1>4, <1>10, <2>1 DEF LoadedUpTo
    <2>2. CASE key \notin S
      <3>1. elems[key] = <<>> /\ ~\E q \in 1 .. L : keys[q] = key
        BY <1>1, <1>4, <2>2 DEF Missing
      <3> QED
        BY <1>10, <3>1, BareNone DEF LoadedUpTo
    <2> QED
      BY <2>1, <2>2
  <1> QED
    BY <1>6, <1>11 DEF list

LEMMA InitReplay ==
    ASSUME Init, TypeInv, OneInv
    PROVE  ReplayInv
  <1> DEFINE none == [key \in Keys |-> <<>>]
  <1>1. /\ copy = LoadAll(none, Save(elems)) /\ task = [t \in Threads |-> Idle] /\ shared = {}
    BY DEF Init
  <1>2. \A key \in Keys : copy[key] = BareList(elems[key])
    <2>1. DOMAIN none = Keys /\ \A key \in Keys : none[key] = <<>>
      OBVIOUS
    <2>2. \A key \in Keys : Len(elems[key]) <= 1
      BY <1>1, OneInvOne DEF OneElementPerKey
    <2> HIDE DEF none
    <2> QED
      BY <1>1, <2>1, <2>2, LoadSave DEF TypeInv
  <1>3. RestMatches
    BY <1>2 DEF RestMatches, Same, Keys
  <1>4. \A t \in Threads : /\ task[t].pc = "idle" /\ task[t].used = {} /\ task[t].stack = <<>>
                           /\ task[t].call.op = "none"
    BY <1>1 DEF Idle, NoCall
  <1>5. CallsMatch
    BY <1>4 DEF CallsMatch
  <1>6. StacksOK
    BY <1>4, ListEmpty DEF StacksOK, StackOK, Kept, Making
  <1>7. NoChain
    BY <1>4 DEF NoChain
  <1> QED
    BY <1>3, <1>5, <1>6, <1>7 DEF ReplayInv

LEMMA NextReplay ==
    ASSUME TypeInv, OneInv, ReplayInv, [Next]_vars
    PROVE  ReplayInv'
  <1>1. CASE UNCHANGED vars
    BY <1>1, StandReplay DEF vars
  <1>2. CASE Tick
    BY <1>2, StandReplay DEF Tick
  <1>3. CASE Finished
    BY <1>3, StandReplay DEF Finished, vars
  <1>4. CASE \E t \in Threads : AddPass(t)
    BY <1>4, StandReplay DEF AddPass
  <1>5. ASSUME NEW t \in Threads, Calls(t)
        PROVE  ReplayInv'
    BY <1>5, BeginsReplay
  <1>6. ASSUME NEW t \in Threads, Acts(t)
        PROVE  ReplayInv'
    BY <1>6, GetTrialReplay, ReadSubsReplay, ReadAttrsReplay, TakeOldReplay, ShelveReplay,
       ShelvedReplay, InsertNewReplay, BelowReplay, PutStackReplay, ReplacedReplay, UnlistReplay,
       MoveReplay, MovedReplay DEF Acts
  <1> QED
    BY <1>1, <1>2, <1>3, <1>4, <1>5, <1>6 DEF Next, Calls, Acts

LEMMA ReplayInvReplays == ReplayInv => ArchiveReplays
  <1> SUFFICES ASSUME ReplayInv,
                      NEW n \in Names \ (shared \cup UNION {task[t].used : t \in Threads}),
                      NEW uid \in 0 .. MaxUid
               PROVE  copy[<<n, uid>>]
                      = [i \in DOMAIN elems[<<n, uid>>] |-> Bare(elems[<<n, uid>>][i])]
    BY DEF ArchiveReplays
  <1>1. ~Used(n) /\ n \in Names \ shared
    BY DEF Used
  <1>2. Same(copy, <<n, uid>>)
    BY <1>1 DEF ReplayInv, RestMatches
  <1> QED
    BY <1>2, Zenon DEF Same, BareList

\* However the calls of any number of threads interleave, what they write to the archive
\* gives the file again when it is loaded: for every name that no call is at and that no
\* two calls were at at once, with its versions, values, subkeys and attributes; in every
\* use in which the callers rename only to names that no call makes.
THEOREM ArchiveReplaysHolds ==
    ASSUME \A u \in Uses : FreeNames(u)
    PROVE  Spec => []ArchiveReplays
  <1>1. Init => TypeInv /\ OneInv /\ ReplayInv
    BY InitType, InitOne, InitReplay DEF Init
  <1>2. TypeInv /\ OneInv /\ ReplayInv /\ [Next]_vars => (TypeInv /\ OneInv /\ ReplayInv)'
    BY NextType, NextOne, NextReplay
  <1>3. ReplayInv => ArchiveReplays
    BY ReplayInvReplays
  <1> QED
    BY <1>1, <1>2, <1>3, PTL DEF Spec

LEMMA NoIdsAttrs == GetUniqId(NoAttrs) = 0 /\ Parent(NoAttrs) = 0 /\ IdsGo(NoAttrs)
  BY DEF GetUniqId, Parent, HasAttr, NoAttrs, IdsGo

\* The keys of a name: its own and those of its versions.
LEMMA KeysOfName ==
    /\ \A n \in Names : Live(n) \in Keys
    /\ \A n \in Names, v \in 1 .. MaxUid : /\ MakeHistoryKey(n, v) \in Keys
                                          /\ \A m \in Names : Live(m) # MakeHistoryKey(n, v)
    /\ \A key \in Keys : \/ \E n \in Names : key = Live(n)
                         \/ \E n \in Names, v \in 1 .. MaxUid : key = MakeHistoryKey(n, v)
  <1>1. \A n \in Names : Live(n) \in Keys
    BY NamesFacts
  <1>2. \A n \in Names, v \in 1 .. MaxUid : v \in 0 .. MaxUid /\ v # 0
    BY NamesFacts
  <1>3. ASSUME NEW key \in Keys
        PROVE  \/ \E n \in Names : key = Live(n)
               \/ \E n \in Names, v \in 1 .. MaxUid : key = MakeHistoryKey(n, v)
    <2>1. PICK n \in Names, v \in 0 .. MaxUid : key = <<n, v>>
      BY DEF Keys
    <2>2. v = 0 \/ v \in 1 .. MaxUid
      BY NamesFacts
    <2> QED
      BY <2>1, <2>2 DEF Live, MakeHistoryKey
  <1> QED
    BY <1>1, <1>2, <1>3 DEF Keys, Live, MakeHistoryKey

LEMMA LiveFollowed ==
    ASSUME NEW n \in Names, NEW e \in ToSet(elems[Live(n)])
    PROVE  Followed(Parent(e.attrs))
  BY KeysOfName DEF Followed

LEMMA TaskFollowed ==
    ASSUME NEW t \in Threads, NEW v, FollowedBy(task[t], v)
    PROVE  Followed(v)
  BY DEF Followed

LEMMA StepFollowed ==
    ASSUME TypeInv, NEW t \in Threads, Trace(t), NEW v, Followed(v)'
    PROVE  Followed(v) \/ v = 0 \/ InVain(t, v) \/ AsShelved(t, v)
  <1> DEFINE k == task[t]
             j == task'[t]
  <1>1. ASSUME NEW key \in Keys, NEW e \in ToSet(elems'[key]), v = Parent(e.attrs)
        PROVE  Followed(v) \/ v = 0 \/ InVain(t, v) \/ AsShelved(t, v)
    <2>1. e \in ToSet(elems'[key]) /\ v = Parent(e.attrs)
      BY <1>1
    <2>2. CASE \E n \in Names : key = Live(n)
      <3>1. PICK m \in Names : key = Live(m)
        BY <2>2
      <3>2. Kin(e, m) \/ Inserted(t, e, m) \/ Arrived(k, e, m) \/ Restored(k, e, m)
        BY <2>1, <3>1 DEF Trace, TraceElems
      <3>3. CASE Kin(e, m)
        BY <2>1, <3>3, LiveFollowed DEF Kin, SameIds
      <3>4. CASE Inserted(t, e, m)
        <4>1. k.pc = "insert" /\ m = k.at
          BY <3>4 DEF Inserted
        <4>2. \/ v \in {k.puid, Parent(k.attrs)}
              \/ v = nextUid /\ nextUid < nextUid' /\ GetUniqId(e.attrs) # nextUid
          BY <2>1, <3>4 DEF Inserted
        <4>3. CASE v \in {k.puid, Parent(k.attrs)}
          BY <4>1, <4>3, TaskFollowed DEF FollowedBy
        <4>4. CASE v = nextUid /\ nextUid < nextUid' /\ GetUniqId(e.attrs) # nextUid
          BY <2>1, <3>1, <4>1, <4>4 DEF InVain
        <4> QED
          BY <4>2, <4>3, <4>4
      <3>5. CASE Arrived(k, e, m)
        BY <2>1, <3>5, TaskFollowed DEF FollowedBy, Arrived, Holding
      <3>6. CASE Restored(k, e, m)
        BY <2>1, <3>6, TaskFollowed DEF FollowedBy, Restored
      <3> QED
        BY <3>2, <3>3, <3>4, <3>5, <3>6
    <2>3. CASE \E n \in Names, u \in 1 .. MaxUid : key = MakeHistoryKey(n, u)
      <3>1. \/ elems'[key] = elems[key]
            \/ k.pc = "shelved" /\ elems'[key] = Append(elems[key], k.held)
        BY <2>3 DEF Trace, TraceElems
      <3>2. CASE elems'[key] = elems[key]
        BY <2>1, <3>2 DEF Followed
      <3>3. CASE k.pc = "shelved" /\ elems'[key] = Append(elems[key], k.held)
        <4>1. IsList(elems[key])
          BY DEF TypeInv, StoreOK
        <4>2. e \in ToSet(elems[key]) \/ e = k.held
          <5>1. e \in ToSet(Append(elems[key], k.held))
            BY <2>1, <3>3
          <5> HIDE DEF k
          <5> QED
            BY <4>1, <5>1, ListAppend
        <4>3. Followed(v)
          BY <2>1, <3>3, <4>2, TaskFollowed DEF Followed, FollowedBy, Holding
        <4> QED
          BY <4>3
      <3> QED
        BY <3>1, <3>2, <3>3
    <2> QED
      BY <2>2, <2>3, KeysOfName
  <1>2. ASSUME NEW s \in Threads, FollowedBy(task'[s], v)
        PROVE  Followed(v) \/ v = 0 \/ InVain(t, v) \/ AsShelved(t, v)
    <2>1. FollowedBy(task'[s], v)
      BY <1>2
    <2>2. CASE s # t
      <3>1. task'[s] = task[s]
        BY <2>2 DEF Trace, Others
      <3> QED
        BY <2>1, <3>1, TaskFollowed
    <2>3. CASE s = t
      <3>1. CASE v = Parent(j.attrs)
        <4>1. TraceAttrs(k, j)
          BY DEF Trace, TraceTask
        <4>2. \/ v = 0
              \/ v = Parent(k.attrs)
              \/ j.at \in Names /\ \E d \in ToSet(elems[Live(j.at)]) : v = Parent(d.attrs)
          BY <3>1, <4>1, NoIdsAttrs DEF TraceAttrs, SameIds
        <4> QED
          BY <4>2, LiveFollowed, TaskFollowed DEF FollowedBy
      <3>2. CASE Holding(j) /\ v = Parent(j.held.attrs)
        <4>1. TraceMoved(k, j) /\ TraceShelved(k, j)
          BY DEF Trace, TraceTask
        <4>2. \E m \in Names : \E d \in ToSet(elems[Live(m)]) : v = Parent(d.attrs)
          BY <3>2, <4>1 DEF TraceMoved, TraceShelved, SameIds, Holding
        <4> QED
          BY <4>2, LiveFollowed
      <3>3. CASE j.pc = "insert" /\ v = j.puid
        <4>1. TraceInsert(k, j)
          BY DEF Trace, TraceTask
        <4> QED
          BY <3>3, <4>1 DEF TraceInsert, AsShelved
      <3> QED
        BY <2>1, <2>3, <3>1, <3>2, <3>3 DEF FollowedBy
    <2> QED
      BY <2>2, <2>3
  <1>3. \/ \E key \in Keys : \E e \in ToSet(elems'[key]) : v = Parent(e.attrs)
        \/ \E s \in Threads : FollowedBy(task'[s], v)
    BY DEF Followed, FollowedBy, Holding
  <1> QED
    BY <1>1, <1>2, <1>3

\* The bounds of what is followed, and what has no ids.
LEMMA StepGiven ==
    ASSUME TypeInv, TypeInv', OneInv, VersionInv, NEW t \in Threads, Trace(t)
    PROVE  FollowedGiven'
  <1> SUFFICES ASSUME NEW v, Followed(v)' PROVE v \in 0 .. nextUid' - 1
    BY DEF FollowedGiven
  <1>1. nextUid \in Nat \ {0} /\ nextUid' \in Nat \ {0} /\ nextUid <= nextUid'
    BY UidFacts, NamesFacts DEF TypeInv, Bounds, Trace
  <1>2. 0 .. nextUid - 1 \subseteq 0 .. nextUid' - 1
    <2>1. nextUid \in Int /\ nextUid' \in Int
      BY <1>1
    <2> QED
      BY <1>1, <2>1, RangeGrows
  <1>3. Followed(v) \/ v = 0 \/ InVain(t, v) \/ AsShelved(t, v)
    BY StepFollowed
  <1>4. CASE Followed(v)
    BY <1>2, <1>4 DEF VersionInv, FollowedGiven
  <1>5. CASE v = 0
    BY <1>1, <1>5, RangeZero
  <1>6. CASE InVain(t, v)
    <2>1. v = nextUid /\ nextUid < nextUid'
      BY <1>6 DEF InVain
    <2>2. nextUid \in 0 .. nextUid' - 1
      <3>1. nextUid \in Nat /\ nextUid' \in Nat /\ nextUid < nextUid'
        BY <1>1, <2>1
      <3> QED
        BY <3>1, RangeLast
    <2> QED
      BY <2>1, <2>2
  <1>7. CASE AsShelved(t, v)
    BY <1>2, <1>7 DEF AsShelved, OneInv, OneTasks, OneTask
  <1> QED
    BY <1>3, <1>4, <1>5, <1>6, <1>7

LEMMA StepTogether ==
    ASSUME TypeInv, VersionInv, NEW t \in Threads, Trace(t)
    PROVE  IdsTogether'
  <1> DEFINE k == task[t]
             j == task'[t]
  <1>1. ASSUME NEW n \in Names, NEW e \in ToSet(elems'[Live(n)])
        PROVE  IdsGo(e.attrs)
    <2>1. Kin(e, n) \/ Inserted(t, e, n) \/ Arrived(k, e, n) \/ Restored(k, e, n)
      BY DEF Trace, TraceElems
    <2>2. CASE Kin(e, n)
      BY <2>2 DEF Kin, SameIds, IdsGo, VersionInv, IdsTogether
    <2>3. CASE Inserted(t, e, n)
      BY <2>3 DEF Inserted
    <2>4. CASE Arrived(k, e, n)
      BY <2>4 DEF Arrived, VersionInv, IdsTogether
    <2>5. CASE Restored(k, e, n)
      BY <2>5 DEF Restored, VersionInv, IdsTogether
    <2> QED
      BY <2>1, <2>2, <2>3, <2>4, <2>5
  <1>2. IdsGo(j.attrs)
    <2>1. TraceAttrs(k, j)
      BY DEF Trace, TraceTask
    <2> QED
      BY <2>1, NoIdsAttrs DEF TraceAttrs, SameIds, IdsGo, VersionInv, IdsTogether
  <1>3. j.pc = "moved" => IdsGo(j.held.attrs)
    <2>1. TraceMoved(k, j)
      BY DEF Trace, TraceTask
    <2> QED
      BY <2>1 DEF TraceMoved, SameIds, IdsGo, VersionInv, IdsTogether
  <1>4. ASSUME NEW s \in Threads \ {t}
        PROVE  IdsGo(task'[s].attrs) /\ (task'[s].pc = "moved" => IdsGo(task'[s].held.attrs))
    <2>1. task'[s] = task[s]
      BY DEF Trace, Others
    <2> QED
      BY <2>1 DEF VersionInv, IdsTogether
  <1> QED
    BY <1>1, <1>2, <1>3, <1>4 DEF IdsTogether, IdsGo

LEMMA OneHistoryPacks ==
    ASSUME TypeInv, VersionInv
    PROVE  \A s, t \in Threads : packs[s].history = packs[t].history
  BY DEF TypeInv, PacksOK, VersionInv, OneHistory

LEMMA StepNoIds ==
    ASSUME TypeInv, TypeInv', VersionInv, NEW t \in Threads, Trace(t)
    PROVE  NoIds'
  <1> SUFFICES ASSUME NEW s \in Threads, ~packs'[s].history
               PROVE  /\ \A n \in Names : Uids(n)' \subseteq {0}
                      /\ ReadUid(task'[s]) = 0
                      /\ task'[s].pc = "moved" => HeldUid(task'[s]) = 0
    BY DEF NoIds, ReadUid, HeldUid
  <1> DEFINE k == task[t]
             j == task'[t]
  <1>1. \A u \in Threads : ~packs[u].history
    BY OneHistoryPacks DEF Trace
  <1>2. /\ \A n \in Names : Uids(n) \subseteq {0}
        /\ \A u \in Threads : ReadUid(task[u]) = 0
        /\ \A u \in Threads : task[u].pc = "moved" => HeldUid(task[u]) = 0
    BY <1>1 DEF VersionInv, NoIds
  <1>3. \A n \in Names : \A d \in ToSet(elems[Live(n)]) : GetUniqId(d.attrs) = 0
    BY <1>2 DEF Uids
  <1>4. ASSUME NEW n \in Names, NEW e \in ToSet(elems'[Live(n)])
        PROVE  GetUniqId(e.attrs) = 0
    <2>1. Kin(e, n) \/ Inserted(t, e, n) \/ Arrived(k, e, n) \/ Restored(k, e, n)
      BY DEF Trace, TraceElems
    <2>2. CASE Kin(e, n)
      BY <1>3, <2>2 DEF Kin, SameIds
    <2>3. CASE Inserted(t, e, n)
      BY <1>1, <1>2, <2>3 DEF Inserted
    <2>4. CASE Arrived(k, e, n)
      BY <1>2, <2>4 DEF Arrived, HeldUid
    <2>5. CASE Restored(k, e, n)
      BY <1>2, <2>5 DEF Restored, ReadUid
    <2> QED
      BY <2>1, <2>2, <2>3, <2>4, <2>5
  <1>5. \A n \in Names : Uids(n)' \subseteq {0}
    BY <1>4 DEF Uids
  <1>6. CASE s # t
    <2>1. task'[s] = task[s]
      BY <1>6 DEF Trace, Others
    <2> QED
      BY <1>2, <1>5, <2>1
  <1>7. CASE s = t
    <2>1. TraceAttrs(k, j) /\ TraceMoved(k, j)
      BY DEF Trace, TraceTask
    <2>2. GetUniqId(k.attrs) = 0
      BY <1>2 DEF ReadUid
    <2>3. GetUniqId(j.attrs) = 0
      BY <1>3, <2>1, <2>2, NoIdsAttrs DEF TraceAttrs, SameIds
    <2>4. j.pc = "moved" => GetUniqId(j.held.attrs) = 0
      BY <1>3, <2>1 DEF TraceMoved, SameIds
    <2> QED
      BY <1>5, <1>7, <2>3, <2>4 DEF ReadUid, HeldUid
  <1> QED
    BY <1>6, <1>7

LEMMA StepReads ==
    ASSUME TypeInv, OneInv, VersionInv, NEW t \in Threads, NEW n, Step(t, n), Trace(t)
    PROVE  Reads'
  <1> SUFFICES ASSUME NEW s \in Threads \ {t} PROVE Unshelved(task[s])' /\ PutsBack(task[s])'
    BY DEF Reads, Trace, TraceTask
  <1>1. task'[s] = task[s] /\ shared \subseteq shared'
    BY DEF Trace, Others
  <1>2. Unshelved(task[s]) /\ PutsBack(task[s])
    BY DEF VersionInv, Reads
  <1>3. Unshelved(task[s])'
    BY <1>1, <1>2 DEF Unshelved
  <1>4. ASSUME task[s].pc = "replace", task[s].call.op = "addattr", task[s].at \notin shared'
        PROVE  /\ task[s].at \in task[s].used
               /\ elems'[Live(task[s].at)] = elems[Live(task[s].at)]
    <2>1. task[s].at \in task[s].used
      BY <1>1, <1>2, <1>4 DEF PutsBack
    <2>2. task[s].at \in Names
      BY <1>4, TaskFacts
    <2> QED
      BY <1>4, <2>1, <2>2, StepApart
  <1>5. PutsBack(task[s])'
    BY <1>1, <1>2, <1>4 DEF PutsBack, Missing, Found, ReadUid
  <1> QED
    BY <1>3, <1>5

\* What a traced step is about, in one place.
LEMMA StepWorld ==
    ASSUME TypeInv, OneInv, NEW t \in Threads, NEW n, Step(t, n)
    PROVE  /\ StepJoins(t, n) /\ StepElems(t, n, task[t]) /\ StepTask(t, n, task[t], task'[t])
           /\ n \in Names /\ nextUid \in 1 .. MaxUid + 1 /\ nextUid' \in 1 .. MaxUid + 1
           /\ MaxUid \in Nat /\ nextUid <= nextUid' /\ shared \subseteq shared'
           /\ \A x \in Names : Uids(x) \subseteq 0 .. nextUid - 1
           /\ \A s \in Threads \ {t} : task'[s] = task[s]
           /\ \A s \in Threads : OneTask(task[s], s) /\ TaskOK(task[s], packs[s].history)
           /\ \A x \in Names \ {n} : elems'[Live(x)] = elems[Live(x)] /\ Uids(x)' = Uids(x)
  <1>1. /\ StepJoins(t, n) /\ StepElems(t, n, task[t]) /\ StepTask(t, n, task[t], task'[t])
        /\ n \in Names /\ nextUid \in 1 .. MaxUid + 1 /\ nextUid' \in 1 .. MaxUid + 1
        /\ MaxUid \in Nat /\ nextUid <= nextUid' /\ shared \subseteq shared'
        /\ \A x \in Names : Uids(x) \subseteq 0 .. nextUid - 1
        /\ \A s \in Threads \ {t} : task'[s] = task[s]
    BY UidFacts DEF Step, StepJoins, StepElems, Others
  <1>2. \A s \in Threads : OneTask(task[s], s) /\ TaskOK(task[s], packs[s].history)
    BY TaskFacts DEF OneInv, OneTasks
  <1>3. \A x \in Names \ {n} : elems'[Live(x)] = elems[Live(x)] /\ Uids(x)' = Uids(x)
    BY <1>1 DEF StepElems, Uids
  <1> QED
    BY <1>1, <1>2, <1>3

LEMMA StepShelvedAlone ==
    ASSUME TypeInv, OneInv, VersionInv, NEW t \in Threads, NEW n, Step(t, n), Trace(t)
    PROVE  OnlyShelved'
  <1> DEFINE k == task[t]
             j == task'[t]
  <1>1. /\ StepJoins(t, n) /\ StepElems(t, n, k) /\ StepTask(t, n, k, j)
        /\ n \in Names /\ nextUid \in 1 .. MaxUid + 1 /\ MaxUid \in Nat /\ shared \subseteq shared'
        /\ \A x \in Names : Uids(x) \subseteq 0 .. nextUid - 1
        /\ \A s \in Threads \ {t} : task'[s] = task[s]
        /\ \A s \in Threads : OneTask(task[s], s) /\ TaskOK(task[s], packs[s].history)
        /\ \A x \in Names \ {n} : Uids(x)' = Uids(x)
    BY StepWorld
  <1>2. ASSUME NEW s \in Threads \ {t}, task[s].pc = "shelved", task[s].old \notin shared',
               NEW m, m = task[s].old, NEW v, v = task[s].puid
        PROVE  /\ Only(m, v, Threads \ {s})'
               /\ ReadUid(task[s]) = v => task[s].at = m
    <2>1. ShelvedAlone(s)
      BY DEF VersionInv, OnlyShelved
    <2>2. m \in task[s].used /\ m \in Names /\ m \notin shared /\ v \in 1 .. nextUid - 1
      BY <1>1, <1>2 DEF OneTask, TaskOK
    <2>3. Only(m, v, Threads \ {s}) /\ (ReadUid(task[s]) = v => task[s].at = m)
      BY <1>2, <2>1, <2>2 DEF ShelvedAlone
    <2>4. m # n \/ j.pc \notin {"shelved", "moved"}
      BY <1>2, <2>2, StepApart
    <2> QED
      BY <2>2, <2>3, <2>4, OnlyKept
  <1>3. ASSUME j.pc = "shelved", j.old \notin shared', NEW v, v = j.puid
        PROVE  /\ Only(n, v, Threads \ {t})' /\ j.old = n
               /\ ReadUid(j) = v => j.at = n
    <2>1. /\ j.old = n /\ n \notin shared /\ k.pc = "shelve" /\ v \in 1 .. MaxUid
          /\ ReadUid(j) = ReadUid(k) /\ j.at = k.at
          /\ v \in Uids(n) \/ v = nextUid
      <3>1. j.old = n /\ n \notin shared /\ v \in 1 .. MaxUid
        BY <1>1, <1>3 DEF StepTask
      <3>2. TraceShelved(k, j)
        BY DEF Trace, TraceTask
      <3>3. k.pc = "shelve" /\ ReadUid(j) = ReadUid(k) /\ j.at = k.at
        BY <1>3, <3>2 DEF TraceShelved, SameIds, ReadUid
      <3>4. v \in Uids(n) \/ v = nextUid
        BY <1>3, <3>1, <3>2 DEF TraceShelved, Uids
      <3> QED
        BY <3>1, <3>3, <3>4
    <2>2. /\ \A x \in Names : elems[MakeHistoryKey(x, v)] = <<>>
          /\ \A x \in Names \ {n} : v \notin Uids(x)
          /\ \A s \in Threads : Elsewhere(task[s], n, v)
      <3>1. CASE v \in Uids(n)
        <4>1. Only(n, v, Threads)
          BY <1>1, <2>1, <3>1 DEF OneInv, OnlyLive
        <4> QED
          BY <4>1 DEF Only
      <3>2. CASE v = nextUid
        <4>1. v \notin 0 .. nextUid - 1 /\ ~ (v < nextUid)
          BY <1>1, <3>2
        <4>2. \A x \in Names : elems[MakeHistoryKey(x, v)] = <<>>
          BY <2>1, <4>1 DEF OneInv, Given
        <4>3. \A s \in Threads : Elsewhere(task[s], n, v)
          BY <1>1, <4>1 DEF OneTask, Elsewhere
        <4> QED
          BY <1>1, <4>1, <4>2, <4>3
      <3> QED
        BY <2>1, <3>1, <3>2
    <2> HIDE DEF k, j
    <2>3. \A x \in Names : elems'[MakeHistoryKey(x, v)] = <<>>
      BY <1>1, <2>1, <2>2 DEF StepElems
    <2>4. \A x \in Names \ {n} : v \notin Uids(x)'
      BY <1>1, <2>2
    <2>5. \A s \in Threads \ {t} : Elsewhere(task[s], n, v)'
      BY <1>1, <2>2 DEF Elsewhere, ReadUid, HeldUid
    <2>6. ReadUid(j) = v => j.at = n
      BY <2>1, <2>2 DEF Elsewhere, k
    <2> QED
      BY <2>1, <2>3, <2>4, <2>5, <2>6 DEF Only
  <1>4. ASSUME NEW s \in Threads, task'[s].pc = "shelved", task'[s].old \notin shared',
               NEW m, m = task'[s].old, NEW v, v = task'[s].puid
        PROVE  /\ Only(m, v, Threads \ {s})'
               /\ GetUniqId(task'[s].attrs) = v => task'[s].at = m
    <2>1. CASE s = t
      BY <1>3, <1>4, <2>1 DEF ReadUid
    <2>2. CASE s # t
      BY <1>1, <1>2, <1>4, <2>2 DEF ReadUid
    <2> QED
      BY <2>1, <2>2
  <1>5. ASSUME NEW s \in Threads, task'[s].pc = "shelved", task'[s].old \notin shared'
        PROVE  /\ Only(task[s].old, task[s].puid, Threads \ {s})'
               /\ GetUniqId(task'[s].attrs) = task'[s].puid => task'[s].at = task'[s].old
    <2> PICK m, v : m = task'[s].old /\ v = task'[s].puid
      OBVIOUS
    <2>1. Only(m, v, Threads \ {s})' /\ (GetUniqId(task'[s].attrs) = v => task'[s].at = m)
      BY <1>4, <1>5
    <2> QED
      BY <2>1 DEF Only
  <1> QED
    BY <1>5 DEF OnlyShelved, ShelvedAlone, ReadUid

LEMMA OneMember ==
    ASSUME NEW s, IsList(s), Len(s) <= 1, NEW x \in ToSet(s), NEW y \in ToSet(s)
    PROVE  x = y
  <1>1. PICK i \in 1 .. Len(s) : s[i] = x
    BY ListMembers
  <1>2. PICK l \in 1 .. Len(s) : s[l] = y
    BY ListMembers
  <1>3. i = l
    BY ListMembers
  <1> QED
    BY <1>1, <1>2, <1>3

\* What nothing follows is still followed by nothing, if it is not shelved now.
LEMMA StillUnfollowed ==
    ASSUME TypeInv, OneInv, NEW t \in Threads, NEW n, Step(t, n), Trace(t),
           NEW v, v # 0, v \in 0 .. nextUid - 1, ~Followed(v),
           ~ (task[t].pc = "shelved" /\ task[t].puid = v)
    PROVE  ~Followed(v)'
  <1>1. v # nextUid
    BY StepWorld
  <1> QED
    BY <1>1, StepFollowed DEF InVain, AsShelved

LEMMA StepUnfollowed ==
    ASSUME TypeInv, TypeInv', OneInv, OneInv', VersionInv, NEW t \in Threads, NEW n, Step(t, n), Trace(t)
    PROVE  Unfollowed'
  <1> DEFINE k == task[t]
             j == task'[t]
  <1>1. /\ StepElems(t, n, k) /\ StepTask(t, n, k, j)
        /\ n \in Names /\ nextUid \in 1 .. MaxUid + 1 /\ MaxUid \in Nat /\ shared \subseteq shared'
        /\ \A x \in Names : Uids(x) \subseteq 0 .. nextUid - 1
        /\ \A s \in Threads \ {t} : task'[s] = task[s]
        /\ \A s \in Threads : OneTask(task[s], s) /\ TaskOK(task[s], packs[s].history)
    BY StepWorld
  <1>2. \A m \in Names \ shared : \A v \in Uids(m) \ {0} :
            ~Followed(v) /\ Only(m, v, Threads) /\ v \in 0 .. nextUid - 1
    BY <1>1 DEF VersionInv, Unfollowed, OneInv, OnlyLive
  <1>3. ASSUME NEW m \in Names \ shared, NEW v \in Uids(m) \ {0}
        PROVE  ~Followed(v)'
    <2>1. ~Followed(v) /\ Elsewhere(k, m, v) /\ v \in 0 .. nextUid - 1 /\ v # 0
      BY <1>2 DEF Only
    <2>2. ~ (k.pc = "shelved" /\ k.puid = v)
      BY <2>1 DEF Elsewhere
    <2> QED
      BY <2>1, <2>2, StillUnfollowed
  <1>4. ASSUME NEW v, v # 0, ~ (v \in 0 .. nextUid - 1), k.pc # "shelved", ~InVain(t, v)
        PROVE  ~Followed(v)'
    <2>1. ~Followed(v)
      BY <1>4 DEF VersionInv, FollowedGiven
    <2> QED
      BY <1>4, <2>1, StepFollowed DEF AsShelved
  <1>5. ASSUME NEW m \in Names \ shared', NEW v \in Uids(m)', v # 0
        PROVE  ~Followed(v)'
    <2>1. PICK e \in ToSet(elems'[Live(m)]) : v = GetUniqId(e.attrs)
      BY DEF Uids
    <2>2. Kin(e, m) \/ Inserted(t, e, m) \/ Arrived(k, e, m) \/ Restored(k, e, m)
      BY DEF Trace, TraceElems
    <2>3. m \in Names \ shared
      BY <1>1
    <2>4. CASE Kin(e, m)
      <3>1. v \in Uids(m) \ {0}
        BY <1>5, <2>1, <2>4 DEF Kin, SameIds, Uids
      <3> QED
        BY <1>3, <2>3, <3>1
    <2>5. CASE Inserted(t, e, m)
      <3>1. k.pc = "insert" /\ m = k.at
        BY <2>5 DEF Inserted
      <3>2. CASE v = ReadUid(k) /\ k.puid = 0
        BY <1>5, <2>3, <3>1, <3>2 DEF VersionInv, Reads, Unshelved
      <3>3. CASE v \in nextUid .. nextUid' - 1
        <4>1. ~ (v \in 0 .. nextUid - 1)
          BY <1>1, <3>3
        <4>2. ~InVain(t, v)
          <5> SUFFICES ASSUME NEW d \in ToSet(elems'[Live(m)]) PROVE d = e
            BY <2>1, <3>1 DEF InVain
          <5>1. IsList(elems'[Live(m)]) /\ Len(elems'[Live(m)]) <= 1
            BY KeysOfName DEF OneInv, LiveOne, TypeInv, StoreOK
          <5> QED
            BY <5>1, OneMember
        <4> QED
          BY <1>4, <1>5, <3>1, <4>1, <4>2
      <3> QED
        BY <2>1, <2>5, <3>2, <3>3 DEF Inserted
    <2>6. CASE Arrived(k, e, m)
      <3>1. k.pc = "moved" /\ k.at \notin shared /\ v = HeldUid(k)
        BY <2>1, <2>6 DEF Arrived, HeldUid
      <3>2. ~Followed(v) /\ v \in 0 .. nextUid - 1
        BY <1>1, <1>5, <3>1 DEF VersionInv, Unfollowed, UnfollowedBy, OneTask
      <3> QED
        BY <1>5, <3>1, <3>2, StillUnfollowed
    <2>7. CASE Restored(k, e, m)
      BY <2>7 DEF Restored
    <2> QED
      BY <2>2, <2>4, <2>5, <2>6, <2>7
  <1>6. ASSUME NEW s \in Threads \ {t}, NEW v,
               \/ task[s].pc = "moved" /\ task[s].at \notin shared' /\ v = HeldUid(task[s]) /\ v # 0
               \/ task[s].pc = "shelved" /\ task[s].old \notin shared' /\ v = task[s].puid
        PROVE  ~Followed(v)'
    <2>1. /\ UnfollowedBy(task[s]) /\ ShelvedAlone(s) /\ OnlyTask(s)
      BY DEF VersionInv, Unfollowed, OnlyShelved, OneInv, OnlyTasks
    <2>2. ~Followed(v) /\ v # 0 /\ v \in 0 .. nextUid - 1
      BY <1>1, <1>6, <2>1 DEF UnfollowedBy, OneTask, TaskOK
    <2>3. ~ (k.pc = "shelved" /\ k.puid = v)
      BY <1>1, <1>6, <2>1, <2>2 DEF OnlyTask, ShelvedAlone, Only, Elsewhere
    <2> QED
      BY <2>2, <2>3, StillUnfollowed
  <1>7. ASSUME NEW v, j.pc = "moved", j.at \notin shared', v = HeldUid(j), v # 0
        PROVE  ~Followed(v)'
    <2>1. TraceMoved(k, j)
      BY DEF Trace, TraceTask
    <2>2. j.at \in Names \ shared /\ v \in Uids(j.at) \ {0}
      BY <1>1, <1>7, <2>1 DEF TraceMoved, SameIds, HeldUid, Uids
    <2> QED
      BY <1>3, <2>2
  <1>8. ASSUME NEW v, j.pc = "shelved", j.old \notin shared', v = j.puid
        PROVE  ~Followed(v)'
    <2>1. TraceShelved(k, j)
      BY DEF Trace, TraceTask
    <2>2. j.old \in Names \ shared /\ k.pc = "shelve" /\ (v \in Uids(j.old) \ {0} \/ v = nextUid)
      BY <1>1, <1>8, <2>1 DEF TraceShelved, Uids
    <2>3. CASE v \in Uids(j.old) \ {0}
      BY <1>3, <2>2, <2>3
    <2>4. CASE v = nextUid
      <3>1. ~ (v \in 0 .. nextUid - 1) /\ v # 0
        BY <1>1, <2>4
      <3> QED
        BY <1>4, <2>2, <3>1 DEF InVain
    <2> QED
      BY <2>2, <2>3, <2>4
  <1>9. ASSUME NEW s \in Threads, NEW v,
               \/ /\ task'[s].pc = "moved" /\ task'[s].at \notin shared'
                  /\ v = GetUniqId(task'[s].held.attrs) /\ v # 0
               \/ task'[s].pc = "shelved" /\ task'[s].old \notin shared' /\ v = task'[s].puid
        PROVE  ~Followed(v)'
    <2>1. CASE s = t
      BY <1>7, <1>8, <1>9, <2>1 DEF HeldUid
    <2>2. CASE s # t
      BY <1>1, <1>6, <1>9, <2>2 DEF HeldUid
    <2> QED
      BY <2>1, <2>2
  <1>10. \A s \in Threads : UnfollowedBy(task[s])'
    <2> SUFFICES ASSUME NEW s \in Threads PROVE UnfollowedBy(task[s])'
      OBVIOUS
    <2>1. ASSUME task'[s].pc = "moved", task'[s].at \notin shared', HeldUid(task[s])' # 0
          PROVE  ~Followed(HeldUid(task[s]))'
      <3> PICK v : v = GetUniqId(task'[s].held.attrs)
        OBVIOUS
      <3>1. ~Followed(v)'
        BY <1>9, <2>1 DEF HeldUid
      <3> QED
        BY <3>1 DEF Followed, FollowedBy, Holding, HeldUid
    <2>2. ASSUME task'[s].pc = "shelved", task'[s].old \notin shared'
          PROVE  ~Followed(task[s].puid)'
      <3> PICK v : v = task'[s].puid
        OBVIOUS
      <3>1. ~Followed(v)'
        BY <1>9, <2>2
      <3> QED
        BY <3>1 DEF Followed, FollowedBy, Holding
    <2> QED
      BY <2>1, <2>2 DEF UnfollowedBy
  <1> QED
    BY <1>5, <1>10 DEF Unfollowed

\* A call that makes an element is not at a name that keys are renamed to.
LEMMA MakesNoTarget ==
    ASSUME OneInv, NEW t \in Threads, task[t].pc # "idle", task[t].call.op \notin NotMaking
    PROVE  task[t].at \notin Targets
  <1> DEFINE d == task[t].call
  <1>1. /\ d \in use.calls[t] /\ d.op # "addpass"
        /\ task[t].at = d.key \/ (d.op = "addsubkey" /\ task[t].at = d.arg)
    BY DEF OneInv, OneTasks, OneTask
  <1>2. d.op \notin {"rename", "remove", "removesubkey", "addpass"}
    BY <1>1 DEF NotMaking
  <1>3. task[t].at \in Made(d)
    <2>1. CASE d.op = "addsubkey"
      <3>1. Made(d) = {d.key, d.arg}
        BY <2>1 DEF Made
      <3> QED
        BY <1>1, <3>1
    <2>2. CASE d.op # "addsubkey"
      <3>1. Made(d) = {d.key}
        BY <1>2, <2>2 DEF Made
      <3> QED
        BY <1>1, <2>2, <3>1
    <2> QED
      BY <2>1, <2>2
  <1> HIDE DEF d
  <1>4. \A s \in Threads : \A c \in use.calls[s] : c.op = "rename" => c.arg \notin Made(d)
    BY <1>1 DEF OneInv, FreeNames
  <1> QED
    BY <1>3, <1>4 DEF Targets

LEMMA StepTargets ==
    ASSUME TypeInv, TypeInv', OneInv, VersionInv, NEW t \in Threads, NEW n, Step(t, n), Trace(t)
    PROVE  TargetsLast'
  <1> DEFINE k == task[t]
             j == task'[t]
  <1>1. /\ StepElems(t, n, k) /\ StepTask(t, n, k, j)
        /\ n \in Names /\ nextUid \in 1 .. MaxUid + 1 /\ nextUid' \in 1 .. MaxUid + 1
        /\ MaxUid \in Nat /\ shared \subseteq shared'
        /\ \A x \in Names : Uids(x) \subseteq 0 .. nextUid - 1
        /\ \A s \in Threads \ {t} : task'[s] = task[s]
        /\ \A s \in Threads : OneTask(task[s], s) /\ TaskOK(task[s], packs[s].history)
        /\ \A x \in Names \ {n} : Uids(x)' = Uids(x)
    BY StepWorld
  <1>2. Targets' = Targets
    BY DEF Trace, Targets
  <1>3. ReadUid(j) # 0 => j.at \in Names
    <2>1. OneTask(task[t], t)' /\ TaskOK(j, packs'[t].history)
      BY <1>1, TaskFacts DEF StepTask, TypeInv, TasksOK
    <2> QED
      BY <2>1 DEF OneTask, TaskOK, ReadUid
  \* What is nowhere before the step is nowhere after it.
  <1>4. ASSUME NEW v \in 1 .. nextUid - 1, \A m \in Names : v \notin Uids(m), GoneFrom(k, v) \/
               (k.pc = "shelved" /\ ReadUid(k) # v)
        PROVE  (\A m \in Names : v \notin Uids(m)') /\ GoneFrom(j, v)
    <2>1. v # 0 /\ v \notin nextUid .. nextUid' - 1 /\ ReadUid(k) # v
      <3>1. ReadUid(k) # v
        BY <1>4 DEF GoneFrom
      <3> HIDE DEF k, j
      <3>2. nextUid \in Int /\ nextUid' \in Int
        BY <1>1
      <3>3. v # 0 /\ v < nextUid /\ v \in Int
        BY <3>2
      <3>4. ~ (v \in nextUid .. nextUid' - 1)
        BY <3>2, <3>3, RangeBelow
      <3> QED
        BY <3>1, <3>3, <3>4
    <2>2. k.pc = "moved" => HeldUid(k) # v
      BY <1>4 DEF GoneFrom
    <2> HIDE DEF k, j
    <2>3. \A m \in Names : v \notin Uids(m)'
      BY <1>1, <1>4, <2>1, <2>2 DEF StepElems
    <2>4. j.pc = "shelved" => j.puid # v
      BY <1>1, <1>4, <2>1 DEF StepTask
    <2>5. j.pc = "moved" => HeldUid(j) # v
      BY <1>1, <1>4, <2>1 DEF StepTask
    <2>6. ReadUid(j) # v
      BY <1>1, <1>3, <1>4, <2>1 DEF StepTask
    <2> QED
      BY <2>3, <2>4, <2>5, <2>6 DEF GoneFrom
  <1> SUFFICES ASSUME NEW x \in Targets \ shared', NEW v \in 1 .. MaxUid,
                      ~Missing(elems', MakeHistoryKey(x, v))
               PROVE  Gone(v)' /\ ~Followed(v)'
    BY <1>2 DEF TargetsLast, Missing, MakeHistoryKey
  <1>5. x \in Names /\ x \in Targets \ shared /\ v # 0
    BY <1>1 DEF Targets
  <1>6. SUFFICES (\A s \in Threads : GoneFrom(task'[s], v)) /\ (\A m \in Names : v \notin Uids(m)')
                 /\ ~Followed(v)'
    BY DEF Gone, GoneFrom, HeldUid, ReadUid
  <1>7. CASE ~Missing(elems, MakeHistoryKey(x, v))
    <2>1. Gone(v) /\ ~Followed(v)
      BY <1>5, <1>7 DEF VersionInv, TargetsLast
    <2>2. v < nextUid
      BY <1>5, <1>7 DEF OneInv, Given, Missing
    <2>3. v \in 1 .. nextUid - 1 /\ v \in 0 .. nextUid - 1
      BY <1>1, <2>2
    <2>4. (\A m \in Names : v \notin Uids(m)') /\ GoneFrom(j, v)
      BY <1>4, <2>1, <2>3 DEF Gone
    <2>5. \A s \in Threads \ {t} : GoneFrom(task'[s], v)
      BY <1>1, <2>1 DEF Gone
    <2>6. ~Followed(v)'
      <3>1. ~ (k.pc = "shelved" /\ k.puid = v)
        BY <2>1 DEF Gone, GoneFrom
      <3> QED
        BY <1>5, <2>1, <2>3, <3>1, StillUnfollowed
    <2> QED
      BY <2>4, <2>5, <2>6
  <1>8. CASE Missing(elems, MakeHistoryKey(x, v))
    <2>1. k.pc = "shelved" /\ x = k.old /\ v = k.puid
      BY <1>5, <1>8 DEF Trace, TraceElems, Missing
    <2>2. ShelvedAlone(t) /\ UnfollowedBy(k) /\ PutsBack(k) /\ Emptied(k)
      BY DEF VersionInv, OnlyShelved, Unfollowed, Reads, OneInv, Empties
    <2>3. Only(x, v, Threads \ {t}) /\ (ReadUid(k) = v => k.at = x) /\ ~Followed(v)
      BY <1>5, <2>1, <2>2 DEF ShelvedAlone, UnfollowedBy
    <2>4. v \in 1 .. nextUid - 1
      BY <1>1, <1>5, <2>1 DEF OneTask
    <2>5. \A m \in Names : v \notin Uids(m)
      <3>1. Uids(x) = {}
        BY <1>5, <2>1, <2>2, UidFacts DEF Emptied
      <3> QED
        BY <2>3, <3>1 DEF Only
    <2>6. ReadUid(k) # v
      <3> SUFFICES ASSUME ReadUid(k) = v PROVE FALSE
        OBVIOUS
      <3>1. k.at = x /\ ReadUid(k) # 0
        BY <1>5, <2>3
      <3>2. k.call.op \notin NotMaking
        BY <2>2, <3>1 DEF PutsBack
      <3> QED
        BY <1>5, <2>1, <3>1, <3>2, MakesNoTarget
    <2>7. (\A m \in Names : v \notin Uids(m)') /\ GoneFrom(j, v)
      BY <1>4, <2>1, <2>4, <2>5, <2>6
    <2>8. ASSUME NEW s \in Threads \ {t} PROVE GoneFrom(task'[s], v)
      <3>1. Elsewhere(task[s], x, v)
        BY <2>3 DEF Only
      <3>2. ReadUid(task[s]) # v
        <4> SUFFICES ASSUME ReadUid(task[s]) = v PROVE FALSE
          OBVIOUS
        <4>1. x \in task[s].used
          BY <1>1, <1>5, <3>1 DEF Elsewhere, OneTask
        <4>2. x \in k.used
          BY <1>1, <2>1 DEF OneTask
        <4>3. task[s].used \cap k.used \subseteq shared
          BY DEF OneInv, Exclusive
        <4> QED
          BY <1>5, <4>1, <4>2, <4>3
      <3> QED
        BY <1>1, <3>1, <3>2 DEF GoneFrom, Elsewhere
    <2>9. ~Followed(v)'
      <3>1. TraceInsert(k, j)
        BY DEF Trace, TraceTask
      <3>2. ~AsShelved(t, v) /\ ~InVain(t, v)
        BY <1>5, <2>1, <3>1 DEF AsShelved, InVain, TraceInsert
      <3> QED
        BY <1>5, <2>3, <3>2, StepFollowed
    <2> QED
      BY <2>7, <2>8, <2>9
  <1> QED
    BY <1>7, <1>8

\* A step adds at most the version that it shelves; what is followed has the past that
\* it had.
LEMMA PastKept ==
    ASSUME NEW t \in Threads, Trace(t), NEW m \in Names, NEW v \in 0 .. MaxUid,
           ~ (task[t].pc = "shelved" /\ m = task[t].old /\ v = task[t].puid)
    PROVE  PastOf(m, v)' = PastOf(m, v)
  <1>1. CASE v = 0
    BY <1>1 DEF PastOf
  <1>2. CASE v # 0
    <2>1. v \in 1 .. MaxUid
      BY <1>2, NamesFacts
    <2>2. elems'[MakeHistoryKey(m, v)] = elems[MakeHistoryKey(m, v)]
      BY <2>1 DEF Trace, TraceElems
    <2> QED
      BY <2>2 DEF PastOf, Missing, Found, MakeHistoryKey
  <1> QED
    BY <1>1, <1>2

LEMMA FollowedKept ==
    ASSUME TypeInv, OneInv, VersionInv, NEW t \in Threads, NEW n, Step(t, n), Trace(t),
           NEW m \in Names \ shared', NEW v, Followed(v)
    PROVE  PastOf(m, v)' = PastOf(m, v) /\ v \in 0 .. nextUid - 1 /\ v \in 0 .. MaxUid
  <1>1. nextUid \in 1 .. MaxUid + 1 /\ MaxUid \in Nat /\ m \in Names /\ m \notin shared
    BY StepWorld
  <1>2. v \in 0 .. nextUid - 1
    BY DEF VersionInv, FollowedGiven
  <1>3. v \in 0 .. MaxUid
    BY <1>1, <1>2
  <1>4. ~ (task[t].pc = "shelved" /\ m = task[t].old /\ v = task[t].puid)
    BY <1>1 DEF VersionInv, Unfollowed, UnfollowedBy
  <1> QED
    BY <1>1, <1>2, <1>3, <1>4, PastKept

LEMMA StepLiveFollow ==
    ASSUME TypeInv, OneInv, VersionInv, NEW t \in Threads, NEW n, Step(t, n), Trace(t)
    PROVE  LiveFollow'
  <1> SUFFICES ASSUME NEW m \in Names \ shared', NEW e \in ToSet(elems'[Live(m)])
               PROVE  /\ e.past = PastOf(m, Parent(e.attrs))'
                      /\ GetUniqId(e.attrs) # 0 => Parent(e.attrs) < GetUniqId(e.attrs)
    BY DEF LiveFollow, Follows
  <1> DEFINE k == task[t]
             p == Parent(e.attrs)
             u == GetUniqId(e.attrs)
  <1>1. /\ nextUid \in 1 .. MaxUid + 1 /\ nextUid' \in 1 .. MaxUid + 1 /\ MaxUid \in Nat
        /\ m \notin shared /\ m \in Names
        /\ OneTask(k, t) /\ TaskOK(k, packs[t].history)
    BY StepWorld
  <1>2. Kin(e, m) \/ Inserted(t, e, m) \/ Arrived(k, e, m) \/ Restored(k, e, m)
    BY DEF Trace, TraceElems
  <1>3. CASE Kin(e, m)
    <2>1. PICK d \in ToSet(elems[Live(m)]) : SameIds(e.attrs, d.attrs) /\ e.past = d.past
      BY <1>3 DEF Kin
    <2>2. d.past = PastOf(m, Parent(d.attrs))
          /\ (GetUniqId(d.attrs) # 0 => Parent(d.attrs) < GetUniqId(d.attrs))
      BY <1>1 DEF VersionInv, LiveFollow, Follows
    <2>3. Followed(Parent(d.attrs))
      BY <1>1, LiveFollowed
    <2>4. p = Parent(d.attrs) /\ u = GetUniqId(d.attrs)
      BY <2>1 DEF SameIds
    <2>5. PastOf(m, p)' = PastOf(m, p)
      BY <2>3, <2>4, FollowedKept
    <2> QED
      BY <2>1, <2>2, <2>4, <2>5
  <1>4. CASE Inserted(t, e, m)
    <2>1. k.pc = "insert" /\ m = k.at /\ e.past = k.past
      BY <1>4 DEF Inserted
    <2>2. k.puid = 0 => ReadUid(k) = 0
      BY <1>1, <2>1 DEF VersionInv, Reads, Unshelved
    <2>3. p = k.puid
      BY <1>4, <2>2 DEF Inserted
    <2>4. k.past = PastOf(m, p)
      BY <1>1, <2>1, <2>3 DEF VersionInv, TasksFollow, TaskFollows
    <2>5. Followed(p)
      BY <2>1, <2>3, TaskFollowed DEF FollowedBy
    <2>6. PastOf(m, p)' = PastOf(m, p) /\ p \in 0 .. nextUid - 1
      BY <2>5, FollowedKept
    <2>7. u # 0 => u \in nextUid .. nextUid' - 1
      BY <1>4, <2>2 DEF Inserted
    <2> HIDE DEF p, u
    <2>8. u # 0 => p < u
      BY <1>1, <2>6, <2>7
    <2> QED
      BY <2>1, <2>4, <2>6, <2>8 DEF p, u
  <1>5. CASE Arrived(k, e, m)
    <2>1. k.pc = "moved" /\ m = k.call.arg /\ e = k.held /\ k.at \notin shared
      BY <1>5 DEF Arrived
    <2>2. k.held.past = <<>> /\ PastOf(m, p) = <<>> /\ (u # 0 => p < u)
      BY <1>1, <2>1 DEF VersionInv, TasksFollow, TaskFollows, HeldUid
    <2>3. Followed(p)
      BY <2>1, TaskFollowed DEF FollowedBy, Holding
    <2>4. PastOf(m, p)' = PastOf(m, p)
      BY <2>3, FollowedKept
    <2> QED
      BY <2>1, <2>2, <2>4
  <1>6. CASE Restored(k, e, m)
    BY <1>6 DEF Restored
  <1> QED
    BY <1>2, <1>3, <1>4, <1>5, <1>6

LEMMA StepVersionsFollow ==
    ASSUME TypeInv, OneInv, VersionInv, NEW t \in Threads, NEW n, Step(t, n), Trace(t)
    PROVE  VersionsFollow'
  <1> SUFFICES ASSUME NEW m \in Names \ shared', NEW v \in 1 .. MaxUid,
                      NEW e \in ToSet(elems'[MakeHistoryKey(m, v)])
               PROVE  e.past = PastOf(m, Parent(e.attrs))' /\ Parent(e.attrs) < v
    BY DEF VersionsFollow, Follows, MakeHistoryKey
  <1> DEFINE k == task[t]
             key == MakeHistoryKey(m, v)
  <1>1. m \notin shared /\ m \in Names
    BY StepWorld
  <1>2. CASE e \in ToSet(elems[key])
    <2>1. e.past = PastOf(m, Parent(e.attrs)) /\ Parent(e.attrs) < v
      BY <1>1, <1>2 DEF VersionInv, VersionsFollow, Follows
    <2>2. Followed(Parent(e.attrs))
      BY <1>1, <1>2, KeysOfName DEF Followed
    <2>3. PastOf(m, Parent(e.attrs))' = PastOf(m, Parent(e.attrs))
      BY <2>2, FollowedKept
    <2> QED
      BY <2>1, <2>3
  <1>3. CASE k.pc = "shelved" /\ m = k.old /\ v = k.puid /\ e = k.held
    <2>1. e.past = PastOf(m, Parent(e.attrs)) /\ Parent(e.attrs) < v
      BY <1>1, <1>3 DEF VersionInv, TasksFollow, TaskFollows, Follows
    <2>2. Followed(Parent(e.attrs))
      BY <1>3, TaskFollowed DEF FollowedBy, Holding
    <2>3. PastOf(m, Parent(e.attrs))' = PastOf(m, Parent(e.attrs))
      BY <2>2, FollowedKept
    <2> QED
      BY <2>1, <2>3
  <1>4. e \in ToSet(elems[key]) \/ (k.pc = "shelved" /\ m = k.old /\ v = k.puid /\ e = k.held)
    <2>1. \/ elems'[key] = elems[key]
          \/ k.pc = "shelved" /\ m = k.old /\ v = k.puid /\ elems'[key] = Append(elems[key], k.held)
      BY <1>1 DEF Trace, TraceElems
    <2>2. IsList(elems[key])
      BY <1>1, KeysOfName DEF TypeInv, StoreOK
    <2>3. e \in ToSet(elems'[key])
      OBVIOUS
    <2>4. ToSet(Append(elems[key], k.held)) = ToSet(elems[key]) \cup {k.held}
      BY <2>2, ListAppend
    <2> HIDE DEF key, k
    <2> QED
      BY <2>1, <2>3, <2>4
  <1> QED
    BY <1>2, <1>3, <1>4

LEMMA StepTasksFollow ==
    ASSUME TypeInv, OneInv, VersionInv, NEW t \in Threads, NEW n, Step(t, n), Trace(t)
    PROVE  TasksFollow'
  <1> DEFINE k == task[t]
             j == task'[t]
  <1>1. /\ StepTask(t, n, k, j) /\ StepElems(t, n, k)
        /\ nextUid \in 1 .. MaxUid + 1 /\ MaxUid \in Nat /\ shared \subseteq shared'
        /\ \A s \in Threads \ {t} : task'[s] = task[s]
        /\ \A s \in Threads : OneTask(task[s], s) /\ TaskOK(task[s], packs[s].history)
    BY StepWorld
  \* The three parts for any call, with what it holds and where.
  <1>2. ASSUME NEW s \in Threads \ {t}, NEW h, h = task[s].held, NEW p, p = Parent(h.attrs)
        PROVE  /\ task[s].pc = "shelved" /\ task[s].old \notin shared' =>
                      h.past = PastOf(task[s].old, p)' /\ p < task[s].puid
               /\ task[s].pc = "insert" /\ task[s].at \notin shared' =>
                      task[s].past = PastOf(task[s].at, task[s].puid)'
               /\ task[s].pc = "moved" /\ task[s].at \notin shared'
                  /\ task[s].call.arg \notin shared' =>
                      /\ h.past = <<>> /\ PastOf(task[s].call.arg, p)' = <<>>
                      /\ HeldUid(task[s]) # 0 => p < HeldUid(task[s])
    <2>0. TaskFollows(task[s]) /\ TaskOK(task[s], packs[s].history)
      BY <1>1 DEF VersionInv, TasksFollow
    <2>1. ASSUME task[s].pc = "shelved", task[s].old \notin shared'
          PROVE  h.past = PastOf(task[s].old, p)' /\ p < task[s].puid
      <3> PICK m : m = task[s].old
        OBVIOUS
      <3>1. m \in Names \ shared' /\ m \notin shared
        BY <1>1, <2>0, <2>1 DEF TaskOK
      <3>2. h.past = PastOf(m, p) /\ p < task[s].puid
        BY <1>2, <2>0, <2>1, <3>1 DEF TaskFollows, Follows
      <3>3. Followed(p)
        BY <1>2, <2>1, TaskFollowed DEF FollowedBy, Holding
      <3>4. PastOf(m, p)' = PastOf(m, p)
        BY <3>1, <3>3, FollowedKept
      <3>5. PastOf(m, p)' = PastOf(task[s].old, p)'
        BY <1>1 DEF PastOf
      <3> QED
        BY <3>2, <3>4, <3>5
    <2>2. ASSUME task[s].pc = "insert", task[s].at \notin shared'
          PROVE  task[s].past = PastOf(task[s].at, task[s].puid)'
      <3> PICK m, v : m = task[s].at /\ v = task[s].puid
        OBVIOUS
      <3>1. m \in Names \ shared' /\ m \notin shared
        BY <1>1, <2>0, <2>2 DEF TaskOK
      <3>2. task[s].past = PastOf(m, v)
        BY <1>2, <2>0, <2>2, <3>1 DEF TaskFollows
      <3>3. Followed(v)
        BY <2>2, TaskFollowed DEF FollowedBy
      <3>4. PastOf(m, v)' = PastOf(m, v)
        BY <3>1, <3>3, FollowedKept
      <3>5. PastOf(m, v)' = PastOf(task[s].at, task[s].puid)'
        BY <1>1 DEF PastOf
      <3> QED
        BY <3>2, <3>4, <3>5
    <2>3. ASSUME task[s].pc = "moved", task[s].at \notin shared', task[s].call.arg \notin shared'
          PROVE  /\ h.past = <<>> /\ PastOf(task[s].call.arg, p)' = <<>>
                 /\ HeldUid(task[s]) # 0 => p < HeldUid(task[s])
      <3> PICK m : m = task[s].call.arg
        OBVIOUS
      <3>1. m \in Names \ shared' /\ m \notin shared /\ task[s].at \notin shared
        BY <1>1, <2>0, <2>3 DEF TaskOK, WithArg
      <3>2. h.past = <<>> /\ PastOf(m, p) = <<>> /\ (HeldUid(task[s]) # 0 => p < HeldUid(task[s]))
        BY <1>2, <2>0, <2>3, <3>1 DEF TaskFollows
      <3>3. Followed(p)
        BY <1>2, <2>3, TaskFollowed DEF FollowedBy, Holding
      <3>4. PastOf(m, p)' = PastOf(m, p)
        BY <3>1, <3>3, FollowedKept
      <3>5. PastOf(m, p)' = PastOf(task[s].call.arg, p)'
        BY <1>1 DEF PastOf
      <3> QED
        BY <3>2, <3>4, <3>5
    <2> QED
      BY <2>1, <2>2, <2>3
  <1>3. ASSUME NEW h, h = j.held, NEW p, p = Parent(h.attrs)
        PROVE  /\ j.pc = "shelved" /\ j.old \notin shared' =>
                      h.past = PastOf(task[t].old, p)' /\ p < j.puid
               /\ j.pc = "insert" /\ j.at \notin shared' =>
                      j.past = PastOf(task[t].at, task[t].puid)'
               /\ j.pc = "moved" /\ j.at \notin shared' /\ j.call.arg \notin shared' =>
                      /\ h.past = <<>> /\ PastOf(task[t].call.arg, p)' = <<>>
                      /\ HeldUid(j) # 0 => p < HeldUid(j)
    <2>1. ASSUME j.pc = "shelved", j.old \notin shared'
          PROVE  h.past = PastOf(task[t].old, p)' /\ p < j.puid
      <3>1. TraceShelved(k, j)
        BY DEF Trace, TraceTask
      <3> PICK m : m = j.old
        OBVIOUS
      <3>2. PICK d \in ToSet(elems[Live(m)]) :
              /\ h.past = d.past /\ p = Parent(d.attrs)
              /\ \/ j.puid = GetUniqId(d.attrs) /\ j.puid # 0
                 \/ GetUniqId(d.attrs) = 0 /\ j.puid = nextUid
        BY <1>3, <2>1, <3>1 DEF TraceShelved
      <3>3. m \in Names \ shared' /\ m \notin shared
        BY <1>1, <2>1, <3>1 DEF TraceShelved
      <3>4. d.past = PastOf(m, p) /\ (GetUniqId(d.attrs) # 0 => p < GetUniqId(d.attrs))
        BY <3>2, <3>3 DEF VersionInv, LiveFollow, Follows
      <3>5. Followed(p)
        BY <3>2, <3>3, LiveFollowed
      <3>6. PastOf(m, p)' = PastOf(m, p) /\ p \in 0 .. nextUid - 1
        BY <3>3, <3>5, FollowedKept
      <3>7. PastOf(m, p)' = PastOf(task[t].old, p)'
        BY DEF PastOf
      <3> HIDE DEF k, j
      <3>8. p < nextUid
        BY <1>1, <3>6
      <3> QED
        BY <3>2, <3>4, <3>6, <3>7, <3>8
    <2>2. ASSUME j.pc = "insert", j.at \notin shared'
          PROVE  j.past = PastOf(task[t].at, task[t].puid)'
      <3>1. TraceInsert(k, j)
        BY DEF Trace, TraceTask
      <3> PICK m, v : m = j.at /\ v = j.puid
        OBVIOUS
      <3>2. j.past = PastOf(m, v)'
        <4>1. CASE v = 0 /\ j.past = <<>>
          BY <4>1 DEF PastOf
        <4>2. CASE k.pc = "shelved" /\ v = k.puid /\ m = k.old /\ j.past = TextsTo(k.held)
          <5>1. v \in 1 .. MaxUid /\ v # 0 /\ m \in Names /\ m \notin shared
            BY <1>1, <2>2, <4>2 DEF OneTask, TaskOK
          <5>2. elems'[MakeHistoryKey(m, v)] = Append(elems[MakeHistoryKey(m, v)], k.held)
            BY <4>2 DEF Trace, TraceElems
          <5>3. elems[MakeHistoryKey(m, v)] = <<>>
            BY <4>2, <5>1 DEF OneInv, VersionOne
          <5>4. /\ Append(<<>>, k.held) # <<>> /\ Head(Append(<<>>, k.held)) = k.held
            BY ListEmpty, ListAppend
          <5>5. ~Missing(elems', MakeHistoryKey(m, v)) /\ Found(elems', MakeHistoryKey(m, v)) = k.held
            BY <5>2, <5>3, <5>4 DEF Missing, Found
          <5>6. PastOf(m, v)' = TextsTo(Found(elems', MakeHistoryKey(m, v)))
            BY <5>1, <5>5 DEF PastOf, TextsTo, MakeHistoryKey
          <5> QED
            BY <4>2, <5>5, <5>6
        <4> QED
          BY <2>2, <3>1, <4>1, <4>2 DEF TraceInsert
      <3>3. PastOf(m, v)' = PastOf(task[t].at, task[t].puid)'
        BY DEF PastOf
      <3> QED
        BY <3>2, <3>3
    <2>3. ASSUME j.pc = "moved", j.at \notin shared', j.call.arg \notin shared'
          PROVE  /\ h.past = <<>> /\ PastOf(task[t].call.arg, p)' = <<>>
                 /\ HeldUid(j) # 0 => p < HeldUid(j)
      <3>1. TraceMoved(k, j)
        BY DEF Trace, TraceTask
      <3> PICK a, m : a = j.call.arg /\ m = j.at
        OBVIOUS
      <3>2. /\ a \in Targets /\ a \in Names \ shared' /\ m \in Names /\ h.past = <<>>
            /\ m \notin shared /\ a \notin shared
        BY <1>1, <1>3, <2>3, <3>1 DEF TraceMoved, Targets
      <3>3. PICK d \in ToSet(elems[Live(m)]) : p = Parent(d.attrs) /\ HeldUid(j) = GetUniqId(d.attrs)
        BY <1>3, <2>3, <3>1 DEF TraceMoved, SameIds, HeldUid
      <3>4. HeldUid(j) # 0 => p < HeldUid(j)
        BY <3>2, <3>3 DEF VersionInv, LiveFollow
      <3>5. Followed(p)
        BY <3>2, <3>3, LiveFollowed
      <3>6. PastOf(a, p)' = PastOf(a, p) /\ p \in 0 .. MaxUid
        BY <3>2, <3>5, FollowedKept
      <3>7. PastOf(a, p) = <<>>
        <4>1. p # 0 => p \in 1 .. MaxUid
          BY <1>1, <3>6
        <4>2. p # 0 => Missing(elems, MakeHistoryKey(a, p))
          BY <3>2, <3>5, <4>1 DEF VersionInv, TargetsLast
        <4> QED
          BY <4>2 DEF PastOf
      <3>8. PastOf(a, p)' = PastOf(task[t].call.arg, p)'
        BY DEF PastOf
      <3> QED
        BY <3>2, <3>4, <3>6, <3>7, <3>8
    <2> QED
      BY <2>1, <2>2, <2>3
  <1>4. ASSUME NEW s \in Threads
        PROVE  TaskFollows(task[s])'
    <2> PICK h, p : h = task'[s].held /\ p = Parent(h.attrs)
      OBVIOUS
    <2>1. /\ task'[s].pc = "shelved" /\ task'[s].old \notin shared' =>
                h.past = PastOf(task[s].old, p)' /\ p < task'[s].puid
          /\ task'[s].pc = "insert" /\ task'[s].at \notin shared' =>
                task'[s].past = PastOf(task[s].at, task[s].puid)'
          /\ task'[s].pc = "moved" /\ task'[s].at \notin shared'
             /\ task'[s].call.arg \notin shared' =>
                /\ h.past = <<>> /\ PastOf(task[s].call.arg, p)' = <<>>
                /\ HeldUid(task'[s]) # 0 => p < HeldUid(task'[s])
      <3>1. CASE s = t
        BY <1>3, <3>1
      <3>2. CASE s # t
        BY <1>1, <1>2, <3>2
      <3> QED
        BY <3>1, <3>2
    <2>2. PastOf(task[s].old, p)' = PastOf(task[s].old, Parent(task[s].held.attrs))'
      BY DEF PastOf, Parent
    <2>3. PastOf(task[s].call.arg, p)' = PastOf(task[s].call.arg, Parent(task[s].held.attrs))'
      BY DEF PastOf, Parent
    <2> QED
      BY <2>1, <2>2, <2>3, Zenon DEF TaskFollows, Follows, HeldUid, Parent
  <1> QED
    BY <1>4 DEF TasksFollow

LEMMA StepVersion ==
    ASSUME TypeInv, TypeInv', OneInv, OneInv', VersionInv, NEW t \in Threads,
           \E n : Step(t, n), Trace(t)
    PROVE  VersionInv'
  <1> PICK n : Step(t, n)
    OBVIOUS
  <1>1. OneHistory(use)'
    BY DEF Trace, VersionInv, OneHistory
  <1>2. FollowedGiven' /\ IdsTogether' /\ NoIds' /\ Reads'
    BY StepGiven, StepTogether, StepNoIds, StepReads
  <1>3. OnlyShelved' /\ Unfollowed' /\ TargetsLast'
    BY StepShelvedAlone, StepUnfollowed, StepTargets
  <1>4. LiveFollow' /\ VersionsFollow' /\ TasksFollow'
    BY StepLiveFollow, StepVersionsFollow, StepTasksFollow
  <1> QED
    BY <1>1, <1>2, <1>3, <1>4 DEF VersionInv

\* The parts of a trace, by what a step does to the elements and to its call.
LEMMA TraceParts ==
    ASSUME NEW t \in Threads, \E n : Step(t, n), TraceElems(t), TraceTask(t)
    PROVE  Trace(t)
  <1> PICK n : Step(t, n)
    OBVIOUS
  <1> QED
    BY DEF Step, StepJoins, StepElems, Trace

LEMMA KinSelf ==
    ASSUME NEW m \in Names, NEW e \in ToSet(elems[Live(m)])
    PROVE  Kin(e, m)
  BY DEF Kin, SameIds

LEMMA TraceKept ==
    ASSUME NEW t \in Threads, elems' = elems, task[t].pc # "shelved"
    PROVE  TraceElems(t)
  BY KinSelf DEF TraceElems

\* A step at the key of n, that leaves there what is kin to what was there, or what it
\* may put there.
LEMMA TraceAt ==
    ASSUME TypeInv, NEW t \in Threads, NEW n \in Names, task[t].pc # "shelved",
           \A key \in Keys \ {Live(n)} : elems'[key] = elems[key],
           \A e \in ToSet(elems'[Live(n)]) :
               \/ e \in ToSet(elems[Live(n)]) \/ Kin(e, n)
               \/ Inserted(t, e, n) \/ Arrived(task[t], e, n) \/ Restored(task[t], e, n)
    PROVE  TraceElems(t)
  <1>1. \A m \in Names, v \in 1 .. MaxUid :
            elems'[MakeHistoryKey(m, v)] = elems[MakeHistoryKey(m, v)]
    BY KeysOfName
  <1>2. ASSUME NEW m \in Names, NEW e \in ToSet(elems'[Live(m)])
        PROVE  Kin(e, m) \/ Inserted(t, e, m) \/ Arrived(task[t], e, m) \/ Restored(task[t], e, m)
    <2>1. CASE m = n
      BY <2>1, KinSelf
    <2>2. CASE m # n
      <3>1. elems'[Live(m)] = elems[Live(m)]
        BY <2>2, NamesFacts
      <3> QED
        BY <3>1, KinSelf
    <2> QED
      BY <2>1, <2>2
  <1> QED
    BY <1>1, <1>2 DEF TraceElems

LEMMA TraceTaken ==
    ASSUME TypeInv, NEW t \in Threads, NEW n \in Names, task[t].pc # "shelved",
           ~Missing(elems, Live(n)), elems' = Take(elems, Live(n))
    PROVE  TraceElems(t)
  <1>1. Live(n) \in Keys /\ StoreOK(elems)
    BY NamesFacts DEF TypeInv
  <1>2. /\ \A key \in Keys \ {Live(n)} : elems'[key] = elems[key]
        /\ ToSet(elems'[Live(n)]) \subseteq ToSet(elems[Live(n)])
    BY <1>1, TakeFacts
  <1> QED
    BY <1>2, TraceAt

LEMMA TraceChanged ==
    ASSUME TypeInv, NEW t \in Threads, NEW n \in Names, task[t].pc # "shelved",
           ~Missing(elems, Live(n)), NEW x, IsElem(x), elems' = Changed(elems, Live(n), x),
           Kin(x, n) \/ Restored(task[t], x, n)
    PROVE  TraceElems(t)
  <1>1. Live(n) \in Keys /\ StoreOK(elems)
    BY NamesFacts DEF TypeInv
  <1>2. /\ \A key \in Keys \ {Live(n)} : elems'[key] = elems[key]
        /\ ToSet(elems'[Live(n)]) \subseteq ToSet(elems[Live(n)]) \cup {x}
    BY <1>1, ChangedFacts
  <1> QED
    BY <1>2, TraceAt

LEMMA TracePut ==
    ASSUME TypeInv, NEW t \in Threads, NEW n \in Names, task[t].pc # "shelved",
           NEW x, IsElem(x), elems' = Put(elems, Live(n), x),
           Inserted(t, x, n) \/ Arrived(task[t], x, n)
    PROVE  TraceElems(t)
  <1>1. Live(n) \in Keys /\ StoreOK(elems)
    BY NamesFacts DEF TypeInv
  <1>2. /\ \A key \in Keys \ {Live(n)} : elems'[key] = elems[key]
        /\ ToSet(elems'[Live(n)]) = ToSet(elems[Live(n)]) \cup {x}
    BY <1>1, PutFacts
  <1> QED
    BY <1>2, TraceAt

\* A call that ends, and one that goes on with the attributes it has.
LEMMA TraceEnds ==
    ASSUME NEW t \in Threads, task'[t] = Idle
    PROVE  TraceTask(t)
  <1>1. /\ Idle.attrs = NoAttrs /\ Idle.pc = "idle" /\ Idle.call.op = "none"
    BY DEF Idle, NoCall
  <1> HIDE DEF Idle
  <1>2. PutsBack(task[t])' /\ Unshelved(task[t])'
    BY <1>1, NoIdsAttrs DEF PutsBack, Unshelved, ReadUid, NotMaking
  <1> QED
    BY <1>1, <1>2 DEF TraceTask, TraceAttrs, TraceMoved, TraceShelved, TraceInsert, SameIds

LEMMA TraceGoesOn ==
    ASSUME VersionInv, NEW t \in Threads,
           task'[t].attrs = task[t].attrs, task'[t].call = task[t].call,
           task'[t].pc \notin {"moved", "shelved", "insert"},
           \/ task'[t].pc = "take"
           \/ task'[t].pc \in {"get", "subs", "attrs"} /\ task'[t].call.op # "addsubkey"
           => task'[t].puid = 0 /\ task'[t].past = <<>>,
           task'[t].pc = "replace" => task'[t].call.op # "addattr"
    PROVE  TraceTask(t)
  <1>1. Unshelved(task[t])'
    BY DEF Unshelved
  <1>2. PutsBack(task[t])'
    <2>1. task[t].call.op \in NotMaking => ReadUid(task[t]) = 0
      BY DEF VersionInv, Reads, PutsBack
    <2> QED
      BY <2>1 DEF PutsBack, ReadUid
  <1> QED
    BY <1>1, <1>2 DEF TraceTask, TraceAttrs, TraceMoved, TraceShelved, TraceInsert, SameIds

LEMMA BeginTrace ==
    ASSUME TypeInv, OneInv, NEW t \in Threads, NEW op, NEW pc, Begin(t, op, pc), op # "addpass",
           <<op, pc>> \in {<<"set", "subs">>, <<"setall", "take">>, <<"setsubkeys", "replace">>,
                           <<"addsubkey", "take">>, <<"addattr", "attrs">>, <<"remove", "take">>,
                           <<"removesubkey", "unlist">>, <<"rename", "move">>, <<"gettrial", "get">>}
    PROVE  Trace(t)
  <1> DEFINE j == task'[t]
  <1>1. task[t].pc = "idle" /\ elems' = elems
    BY BeginEffect
  <1>2. PICK c \in use.calls[t] : c.op = op /\ j = Begun(c, op, pc)
    BY BeginEffect
  <1>3. /\ j.pc = pc /\ j.call.op = op /\ j.attrs = NoAttrs /\ j.puid = 0 /\ j.past = <<>>
    <2> HIDE DEF j
    <2> QED
      BY <1>2 DEF Begun
  <1>4. pc \notin {"moved", "shelved", "insert"} /\ (pc = "replace" => op # "addattr")
    OBVIOUS
  <1>5. Unshelved(task[t])' /\ PutsBack(task[t])'
    BY <1>3, <1>4, NoIdsAttrs DEF Unshelved, PutsBack, ReadUid
  <1>6. TraceTask(t)
    BY <1>3, <1>4, <1>5 DEF TraceTask, TraceAttrs, TraceMoved, TraceShelved, TraceInsert, SameIds
  <1>7. TraceElems(t)
    BY <1>1, TraceKept
  <1> QED
    BY <1>6, <1>7, BeginStep, TraceParts

LEMMA BeginsTrace ==
    ASSUME TypeInv, OneInv, NEW t \in Threads, Calls(t)
    PROVE  Trace(t)
  BY BeginTrace DEF Calls, CallSet, CallSetAll, CallSetSubkeys, CallAddSubkey,
      CallAddAttr, CallRemove, CallRemoveSubkey, CallRename, CallGetTrial

LEMMA GetTrialTrace ==
    ASSUME TypeInv, OneInv, VersionInv, NEW t \in Threads, GetTrial(t)
    PROVE  Trace(t)
  <1> DEFINE k == task[t]
             j == task'[t]
  <1> PICK n : n = k.at
    OBVIOUS
  <1>1. k.pc = "get" /\ elems' = elems /\ (j = Idle \/ j = WithPc(k, n, "subs"))
    BY GetTrialEffect, Zenon DEF GetTrialDoes
  <1>2. Unshelved(k)
    BY DEF VersionInv, Reads
  <1>3. TraceTask(t)
    <2>1. CASE j = Idle
      BY <2>1, TraceEnds
    <2>2. CASE j = WithPc(k, n, "subs")
      <3> HIDE DEF k, j
      <3>1. /\ j.pc = "subs" /\ j.attrs = k.attrs /\ j.call = k.call /\ j.puid = k.puid
            /\ j.past = k.past
        BY <2>2 DEF WithPc
      <3> QED
        BY <1>1, <1>2, <3>1, TraceGoesOn DEF Unshelved, k, j
    <2> QED
      BY <1>1, <2>1, <2>2
  <1>4. TraceElems(t)
    BY <1>1, TraceKept
  <1> QED
    BY <1>3, <1>4, GetTrialStep, TraceParts

LEMMA ReadSubsTrace ==
    ASSUME TypeInv, OneInv, VersionInv, NEW t \in Threads, ReadSubs(t)
    PROVE  Trace(t)
  <1> DEFINE k    == task[t]
             j    == task'[t]
             subs == GetSubKeys(k.at)
             more == Insert(subs, k.call.arg)
  <1> PICK n : n = k.at
    OBVIOUS
  <1>1. /\ k.pc = "subs" /\ elems' = elems
        /\ \/ k.call.op = "addsubkey" /\ j = WithPcSubs(k, n, "replace", more)
           \/ k.call.op # "addsubkey" /\ j = WithPcSubs(k, n, "attrs", subs)
    BY ReadSubsEffect, Zenon DEF ReadSubsDoes
  <1>2. Unshelved(k)
    BY DEF VersionInv, Reads
  <1> HIDE DEF k, j, subs, more
  <1>3. /\ j.attrs = k.attrs /\ j.call = k.call /\ j.puid = k.puid /\ j.past = k.past
        /\ \/ k.call.op = "addsubkey" /\ j.pc = "replace"
           \/ k.call.op # "addsubkey" /\ j.pc = "attrs"
    BY <1>1 DEF WithPcSubs
  <1>4. TraceTask(t)
    BY <1>1, <1>2, <1>3, TraceGoesOn DEF Unshelved, k, j
  <1>5. TraceElems(t)
    BY <1>1, TraceKept DEF k
  <1> QED
    BY <1>4, <1>5, ReadSubsStep, TraceParts

LEMMA ReadAttrsTrace ==
    ASSUME TypeInv, OneInv, VersionInv, NEW t \in Threads, ReadAttrs(t)
    PROVE  Trace(t)
  <1> DEFINE k     == task[t]
             j     == task'[t]
             attrs == GetAttrs(k.at)
             user  == SetAttr(attrs, "user", k.call.text)
  <1> PICK n : n = k.at
    OBVIOUS
  <1>0. n = k.at
    OBVIOUS
  <1>1. /\ k.pc = "attrs" /\ elems' = elems
        /\ \/ k.call.op = "addattr" /\ j = WithPcHeldAttrs(k, n, "replace", attrs, user)
           \/ k.call.op # "addattr" /\ j = WithPcAttrs(k, n, "take", attrs)
    BY ReadAttrsEffect, Zenon DEF ReadAttrsDoes
  <1>2. Unshelved(k) /\ OneTask(k, t) /\ n \in Names
    BY <1>1, CallFacts DEF VersionInv, Reads
  <1>3. SameIds(user, attrs)
    <2> HIDE DEF attrs
    <2> QED
      BY SameUid, SameParent DEF SameIds
  <1>4. /\ ~Missing(elems, Live(n)) => attrs = Found(elems, Live(n)).attrs
        /\ Missing(elems, Live(n)) => attrs = NoAttrs
    BY DEF GetAttrs
  <1>5. ~Missing(elems, Live(n)) => Found(elems, Live(n)) \in ToSet(elems[Live(n)])
    BY <1>2, NamesFacts, FoundFacts DEF TypeInv
  <1>6. SameIds(attrs, NoAttrs) \/ \E d \in ToSet(elems[Live(n)]) : SameIds(attrs, d.attrs)
    BY <1>4, <1>5 DEF SameIds
  <1> HIDE DEF k, j, attrs, user
  <1>7. /\ j.at = n /\ j.call = k.call /\ j.puid = k.puid /\ j.past = k.past
        /\ j.used = k.used \cup {n}
        /\ \/ k.call.op = "addattr" /\ j.pc = "replace" /\ j.attrs = user
           \/ k.call.op # "addattr" /\ j.pc = "take" /\ j.attrs = attrs
    BY <1>0, <1>1 DEF WithPcHeldAttrs, WithPcAttrs
  <1>8. SameIds(j.attrs, attrs)
    BY <1>3, <1>7 DEF SameIds
  <1>9. TraceAttrs(k, j)
    BY <1>2, <1>6, <1>7, <1>8 DEF TraceAttrs, SameIds
  <1>10. Unshelved(task[t])'
    BY <1>1, <1>2, <1>7 DEF Unshelved, OneTask, j
  <1>11. PutsBack(task[t])'
    <2>1. ~Missing(elems', Live(n)) => SameIds(j.attrs, Found(elems', Live(n)).attrs)
      BY <1>1, <1>4, <1>8 DEF Missing, Found
    <2>2. j.call.op \notin NotMaking
      BY <1>1, <1>2, <1>7 DEF OneTask
    <2>3. n \in j.used
      BY <1>7
    <2> QED
      BY <1>7, <2>1, <2>2, <2>3 DEF PutsBack, Missing, Found, j
  <1>12. TraceTask(t)
    BY <1>7, <1>9, <1>10, <1>11 DEF TraceTask, TraceMoved, TraceShelved, TraceInsert, k, j
  <1>13. TraceElems(t)
    BY <1>1, TraceKept DEF k
  <1> QED
    BY <1>12, <1>13, ReadAttrsStep, TraceParts

LEMMA TakeOldTrace ==
    ASSUME TypeInv, OneInv, VersionInv, NEW t \in Threads, TakeOld(t)
    PROVE  Trace(t)
  <1> DEFINE k     == task[t]
             j     == task'[t]
             next  == IF k.call.op = "remove" THEN "below" ELSE "insert"
             subs  == SubKeysOf(k.at, k.rm)
             stack == Stacked(k, k.at)
  <1> PICK n : n = k.at
    OBVIOUS
  <1>0. n = k.at
    OBVIOUS
  <1>1. /\ k.pc = "take"
        /\ \/ /\ Missing(elems, Live(n)) /\ elems' = elems /\ j = WithPc(k, n, next)
           \/ /\ ~Missing(elems, Live(n)) /\ ~packs[t].history /\ elems' = Take(elems, Live(n))
              /\ j = WithPcDoomedStack(k, n, next, subs, stack)
           \/ /\ ~Missing(elems, Live(n)) /\ elems' = elems
              /\ j = WithPcOldUnderThen(k, n, "shelve", n, subs, next)
    BY TakeOldEffect, Zenon DEF TakeOldDoes
  <1>2. /\ Unshelved(k) /\ AsRead(k) /\ n \in Names /\ (k.call.op \in NotMaking => ReadUid(k) = 0)
        /\ (~packs[t].history => ReadUid(k) = 0)
    BY <1>1, CallFacts DEF VersionInv, Reads, PutsBack, NoIds
  <1>3. TraceElems(t)
    BY <1>1, <1>2, TraceKept, TraceTaken
  <1>4. ~ (Missing(elems, Live(n)) /\ n \notin shared) \/ ReadUid(k) = 0
    BY <1>1, <1>2, UidFacts DEF AsRead
  <1>5. next \in {"below", "insert"}
    OBVIOUS
  <1>6. shared \subseteq shared'
    BY TakeOldStep DEF Step, StepJoins
  <1> HIDE DEF k, j, next, subs, stack
  <1>7. /\ j.at = n /\ j.attrs = k.attrs /\ j.call = k.call /\ j.puid = k.puid /\ j.past = k.past
        /\ j.pc \in {"below", "insert", "shelve"}
        /\ j.pc = "insert" => Missing(elems, Live(n)) \/ ~packs[t].history
    BY <1>0, <1>1, <1>5 DEF WithPc, WithPcDoomedStack, WithPcOldUnderThen
  <1>8. k.puid = 0 /\ k.past = <<>>
    BY <1>1, <1>2 DEF Unshelved
  <1>9. Unshelved(task[t])'
    <2>1. j.pc = "insert" /\ n \notin shared' => ReadUid(j) = 0
      BY <1>2, <1>4, <1>6, <1>7 DEF ReadUid
    <2> QED
      BY <1>7, <2>1 DEF Unshelved, ReadUid, j
  <1>10. PutsBack(task[t])'
    BY <1>2, <1>7 DEF PutsBack, ReadUid, j
  <1>11. TraceTask(t)
    BY <1>1, <1>7, <1>8, <1>9, <1>10
       DEF TraceTask, TraceAttrs, TraceMoved, TraceShelved, TraceInsert, SameIds, k, j
  <1> QED
    BY <1>3, <1>11, TakeOldStep, TraceParts

LEMMA ShelveTrace ==
    ASSUME TypeInv, OneInv, VersionInv, NEW t \in Threads, Shelve(t)
    PROVE  Trace(t)
  <1> DEFINE k     == task[t]
             j     == task'[t]
             e     == Found(elems, Live(k.old))
             known == GetUniqId(e.attrs)
             named == IF known = 0 THEN DirectSetUniqId(packs[t], e.attrs, 0, nextUid)
                      ELSE e.attrs
             puid  == GetUniqId(named)
             held  == WithAttrs(e, MarkHistory(named))
             none  == <<>>
  <1> PICK n : n = k.old
    OBVIOUS
  <1>0. n = k.old
    OBVIOUS
  <1>1. /\ k.pc = "shelve"
        /\ \/ elems' = elems /\ j = Idle
           \/ elems' = elems /\ j = WithPcUnder(k, n, "below", none)
           \/ /\ ~Missing(elems, Live(n))
              /\ elems' = Take(elems, Live(n))
              /\ nextUid' = (IF known = 0 THEN nextUid + 1 ELSE nextUid)
              /\ j = WithPcPuidHeld(k, n, "shelved", puid, held)
    BY ShelveEffect, Zenon DEF ShelveDoes
  <1>2. n \in Names /\ packs[t].history
    BY <1>1, CallFacts DEF TaskOK
  <1>3. TraceElems(t)
    BY <1>1, <1>2, TraceKept, TraceTaken
  <1>4. CASE j = Idle
    BY <1>3, <1>4, TraceEnds, ShelveStep, TraceParts
  <1>5. CASE j = WithPcUnder(k, n, "below", none)
    <2> HIDE DEF k, j, none
    <2>1. j.pc = "below" /\ j.attrs = k.attrs /\ j.call = k.call
      BY <1>5 DEF WithPcUnder
    <2>2. TraceTask(t)
      BY <2>1, TraceGoesOn DEF k, j
    <2> QED
      BY <1>3, <2>2, ShelveStep, TraceParts
  <1>6. CASE /\ ~Missing(elems, Live(n))
             /\ nextUid' = (IF known = 0 THEN nextUid + 1 ELSE nextUid)
             /\ j = WithPcPuidHeld(k, n, "shelved", puid, held)
    <2>1. e \in ToSet(elems[Live(n)]) /\ IsElem(e)
      BY <1>0, <1>2, <1>6, NamesFacts, FoundFacts DEF TypeInv
    <2>2. held.past = e.past /\ held.attrs = MarkHistory(named)
      <3> HIDE DEF e, named
      <3> QED
        BY <2>1, PartsElem
    <2>3. Parent(named) = Parent(e.attrs) /\ (known = 0 => puid = nextUid) /\ (known # 0 => puid = known)
      <3>1. CASE known # 0
        BY <3>1, Zenon
      <3>2. CASE known = 0
        <4> PICK a : a = e.attrs
          OBVIOUS
        <4>1. named = Identified(a, nextUid, 0)
          BY <1>2, <3>2, Zenon DEF DirectSetUniqId
        <4>2. named = SetAttr(a, "uniqid", nextUid)
          BY <4>1, Zenon DEF Identified
        <4> HIDE DEF named
        <4>3. Parent(named) = Parent(a)
          BY <4>2, SameParent
        <4>4. GetUniqId(named) = nextUid
          BY <4>1, IdentifiedUid
        <4> QED
          BY <3>2, <4>3, <4>4 DEF puid
      <3> QED
        BY <3>1, <3>2
    <2>4. Parent(held.attrs) = Parent(e.attrs)
      <3> HIDE DEF held, named, e
      <3>1. Parent(MarkHistory(named)) = Parent(named)
        BY SameParent DEF MarkHistory
      <3> QED
        BY <2>2, <2>3, <3>1
    <2> HIDE DEF k, j, e, puid, held, none
    <2>5. /\ j.pc = "shelved" /\ j.attrs = k.attrs /\ j.call = k.call /\ j.at = k.at /\ j.old = n
          /\ j.puid = puid /\ j.held = held
      BY <1>0, <1>6 DEF WithPcPuidHeld
    <2>6. TraceShelved(k, j)
      BY <1>1, <1>2, <1>6, <2>1, <2>2, <2>3, <2>4, <2>5 DEF TraceShelved, SameIds
    <2>7. (k.call.op \in NotMaking => ReadUid(k) = 0)
      BY DEF VersionInv, Reads, PutsBack, k
    <2>8. Unshelved(task[t])' /\ PutsBack(task[t])'
      BY <2>5, <2>7 DEF Unshelved, PutsBack, ReadUid, j
    <2>9. TraceTask(t)
      BY <2>5, <2>6, <2>8 DEF TraceTask, TraceAttrs, TraceMoved, TraceInsert, SameIds, k, j
    <2> QED
      BY <1>3, <2>9, ShelveStep, TraceParts
  <1> QED
    BY <1>1, <1>4, <1>5, <1>6

LEMMA ShelvedTrace ==
    ASSUME TypeInv, OneInv, VersionInv, NEW t \in Threads, Shelved(t)
    PROVE  Trace(t)
  <1> DEFINE k       == task[t]
             j       == task'[t]
             version == MakeHistoryKey(k.old, k.puid)
             none    == <<>>
             doomed  == k.under \o k.doomed
             past    == Append(k.held.past, k.held.value.text)
             stack   == Append(k.stack, Rename(Live(k.old), version, k.held.attrs))
  <1> PICK n : n = k.old
    OBVIOUS
  <1>0. n = k.old
    OBVIOUS
  <1>1. /\ k.pc = "shelved" /\ elems' = Put(elems, version, k.held)
        /\ j = WithShelved(k, n, k.then, none, none, doomed, past, stack)
    BY ShelvedEffect, Zenon DEF ShelvedDoes
  <1>2. OneTask(k, t) /\ TaskOK(k, packs[t].history)
    BY <1>1, CallFacts
  <1>3. /\ n \in Names /\ MaxUid \in Nat /\ k.then \in {"insert", "below"}
        /\ IsElem(k.held) /\ k.puid # 0 /\ k.puid \in 1 .. MaxUid
        /\ k.then = "insert" => k.old = k.at /\ k.call.op \notin NotMaking
    <2>1. nextUid \in 1 .. MaxUid + 1 /\ MaxUid \in Nat
      BY UidFacts
    <2> QED
      BY <1>1, <1>2, <2>1 DEF TaskOK, OneTask
  <1>4. version \in Keys /\ version = <<n, k.puid>> /\ \A m \in Names : Live(m) # version
    BY <1>3 DEF MakeHistoryKey, Keys, Live
  <1>5. /\ elems'[version] = Append(elems[version], k.held)
        /\ \A key \in Keys \ {version} : elems'[key] = elems[key]
    <2>1. StoreOK(elems) /\ IsElem(k.held) /\ version \in Keys /\ elems' = Put(elems, version, k.held)
      BY <1>1, <1>3, <1>4 DEF TypeInv
    <2> HIDE DEF version, k
    <2> QED
      BY <2>1, PutFacts
  <1>6. k.then = "insert" => k.old \notin Targets
    BY <1>1, <1>3, MakesNoTarget
  <1>7. past = TextsTo(k.held)
    BY DEF TextsTo
  <1> HIDE DEF k, j, version, none, doomed, past, stack
  <1>8. TraceElems(t)
    <2>1. ASSUME NEW m \in Names, NEW v \in 1 .. MaxUid
          PROVE  \/ elems'[MakeHistoryKey(m, v)] = elems[MakeHistoryKey(m, v)]
                 \/ /\ k.pc = "shelved" /\ m = k.old /\ v = k.puid
                    /\ elems'[MakeHistoryKey(m, v)] = Append(elems[MakeHistoryKey(m, v)], k.held)
      <3>1. MakeHistoryKey(m, v) \in Keys /\ MakeHistoryKey(m, v) = <<m, v>>
        BY KeysOfName DEF MakeHistoryKey
      <3>2. CASE MakeHistoryKey(m, v) = version
        <4>1. m = n /\ v = k.puid
          BY <1>4, <3>1, <3>2
        <4> QED
          BY <1>0, <1>1, <1>5, <3>2, <4>1
      <3>3. CASE MakeHistoryKey(m, v) # version
        BY <1>5, <3>1, <3>3
      <3> QED
        BY <3>2, <3>3
    <2>2. ASSUME NEW m \in Names, NEW e \in ToSet(elems'[Live(m)])
          PROVE  Kin(e, m)
      <3>1. elems'[Live(m)] = elems[Live(m)]
        BY <1>4, <1>5, KeysOfName
      <3> QED
        BY <3>1, KinSelf
    <2>3. elems'[MakeHistoryKey(k.old, k.puid)] = Append(elems[MakeHistoryKey(k.old, k.puid)], k.held)
      BY <1>5 DEF version
    <2> QED
      BY <2>1, <2>2, <2>3 DEF TraceElems, k
  <1>9. /\ j.call = k.call /\ j.at = k.at /\ j.puid = k.puid
        /\ j.attrs = k.attrs /\ j.pc = k.then /\ j.past = TextsTo(k.held)
    BY <1>1, <1>7 DEF WithShelved
  <1>10. TraceTask(t)
    <2>1. k.call.op \in NotMaking => ReadUid(k) = 0
      BY DEF VersionInv, Reads, PutsBack, k
    <2>2. Unshelved(task[t])' /\ PutsBack(task[t])'
      BY <1>3, <1>9, <2>1 DEF Unshelved, PutsBack, ReadUid, j
    <2>3. TraceInsert(k, j)
      BY <1>1, <1>3, <1>6, <1>9 DEF TraceInsert
    <2> QED
      BY <1>3, <1>9, <2>2, <2>3 DEF TraceTask, TraceAttrs, TraceMoved, TraceShelved, SameIds, k, j
  <1> QED
    BY <1>8, <1>10, ShelvedStep, TraceParts

LEMMA InsertNewTrace ==
    ASSUME TypeInv, OneInv, VersionInv, NEW t \in Threads, InsertNew(t)
    PROVE  Trace(t)
  <1> DEFINE k      == task[t]
             j      == task'[t]
             new    == NewElement(t)
             e      == WithPast(new.e, k.past)
             none   == <<>>
             doomed == Without(k.doomed, k.subs)
             stack  == Append(k.stack, SetAll(Live(k.at), new.e))
  <1> PICK n : n = k.at
    OBVIOUS
  <1>1. /\ k.pc = "insert"
        /\ \/ /\ elems' = elems /\ j = WithAgain(k, n, "take", 0, none, none)
           \/ /\ elems' = Put(elems, Live(n), e) /\ nextUid' = new.uid
              /\ j = WithPcDoomedStack(k, n, "below", doomed, stack)
    BY InsertNewEffect, Zenon DEF InsertNewDoes
  <1>2. TypeInv' /\ n \in Names /\ TaskOK(k, packs[t].history)
    BY <1>1, InsertNewType, CallFacts
  <1>3. new.e.subs = k.subs
    BY NewElementFacts
  <1> DEFINE u == GetUniqId(new.e.attrs)
             p == Parent(new.e.attrs)
  <1>4. /\ u = 0 => p = 0
        /\ k.puid # 0 \/ ReadUid(k) = 0 => p = k.puid
        /\ \/ p \in {k.puid, Parent(k.attrs)}
           \/ p = nextUid /\ nextUid < new.uid /\ u # nextUid
        /\ \/ u \in nextUid .. new.uid - 1 /\ packs[t].history
           \/ u = ReadUid(k) /\ k.puid = 0
    BY NewIds DEF VersionInv, IdsTogether
  <1> HIDE DEF j, new, none, doomed, stack
  <1>5. CASE elems' = elems /\ j = WithAgain(k, n, "take", 0, none, none)
    <2> HIDE DEF k
    <2>1. j.pc = "take" /\ j.puid = 0 /\ j.past = <<>> /\ j.attrs = k.attrs /\ j.call = k.call
      BY <1>5 DEF WithAgain, none
    <2>2. TraceTask(t)
      BY <2>1, TraceGoesOn DEF k, j
    <2>3. TraceElems(t)
      BY <1>1, <1>5, TraceKept DEF k
    <2> QED
      BY <2>2, <2>3, InsertNewStep, TraceParts
  <1>6. CASE /\ elems' = Put(elems, Live(n), e) /\ nextUid' = new.uid
             /\ j = WithPcDoomedStack(k, n, "below", doomed, stack)
    <2>1. IsElem(e) /\ e.attrs = new.e.attrs /\ e.past = k.past
      BY <1>1, <1>2, <1>3 DEF IsElem, WithPast, TaskOK
    <2> HIDE DEF e
    <2>2. Inserted(t, e, n)
      BY <1>1, <1>4, <1>6, <2>1 DEF Inserted, IdsGo
    <2>3. TraceElems(t)
      BY <1>1, <1>2, <1>6, <2>1, <2>2, TracePut
    <2> HIDE DEF k
    <2>4. j.pc = "below" /\ j.attrs = k.attrs /\ j.call = k.call
      BY <1>6 DEF WithPcDoomedStack
    <2>5. TraceTask(t)
      BY <2>4, TraceGoesOn DEF k, j
    <2> QED
      BY <2>3, <2>5, InsertNewStep, TraceParts
  <1> QED
    BY <1>1, <1>5, <1>6

LEMMA BelowTrace ==
    ASSUME TypeInv, OneInv, VersionInv, NEW t \in Threads, Below(t)
    PROVE  Trace(t)
  <1> DEFINE k     == task[t]
             j     == task'[t]
             rest  == Tail(k.doomed)
             under == SubKeysOf(Head(k.doomed), TRUE)
             more  == under \o rest
             stack == Stacked(k, Head(k.doomed))
  <1> PICK n : n = Head(k.doomed)
    OBVIOUS
  <1>1. /\ k.pc = "below" /\ k.doomed # <<>>
        /\ \/ elems' = elems /\ j = WithDoomed(k, n, rest)
           \/ /\ ~Missing(elems, Live(n)) /\ elems' = Take(elems, Live(n))
              /\ j = WithDoomedStack(k, n, more, stack)
           \/ elems' = elems /\ j = WithDoomedOldThenUnder(k, n, rest, "shelve", n, "below", under)
    BY BelowEffect, Zenon DEF BelowDoes
  <1>2. n \in Names
    <2>1. k.doomed \in Seq(Names)
      BY <1>1, CallFacts DEF TaskOK
    <2> QED
      BY <1>1, <2>1, HeadTailFacts
  <1>3. TraceElems(t)
    BY <1>1, <1>2, TraceKept, TraceTaken
  <1> HIDE DEF k, j, rest, under, more, stack
  <1>4. j.call = k.call /\ j.attrs = k.attrs /\ j.pc \in {"below", "shelve"}
    BY <1>1 DEF WithDoomed, WithDoomedStack, WithDoomedOldThenUnder
  <1>5. TraceTask(t)
    BY <1>4, TraceGoesOn DEF k, j
  <1> QED
    BY <1>3, <1>5, BelowStep, TraceParts

LEMMA PutStackTrace ==
    ASSUME TypeInv, OneInv, VersionInv, NEW t \in Threads, PutStack(t)
    PROVE  Trace(t)
  <1> DEFINE k    == task[t]
             j    == task'[t]
             none == <<>>
  <1> PICK n : n = k.at
    OBVIOUS
  <1>1. /\ k.pc = "below" /\ elems' = elems
        /\ \/ k.call.op = "addsubkey" /\ j = WithPcAtStack(k, n, "subs", k.call.key, none)
           \/ j = Idle
    BY PutStackEffect, Zenon DEF PutStackDoes
  <1>2. TraceElems(t)
    BY <1>1, TraceKept
  <1>3. CASE j = Idle
    BY <1>2, <1>3, TraceEnds, PutStackStep, TraceParts
  <1>4. CASE k.call.op = "addsubkey" /\ j = WithPcAtStack(k, n, "subs", k.call.key, none)
    <2> HIDE DEF k, j, none
    <2>1. j.pc = "subs" /\ j.call = k.call /\ j.call.op = "addsubkey" /\ j.attrs = k.attrs
      BY <1>4 DEF WithPcAtStack
    <2>2. TraceTask(t)
      BY <2>1, TraceGoesOn DEF k, j
    <2> QED
      BY <1>2, <2>2, PutStackStep, TraceParts
  <1> QED
    BY <1>1, <1>3, <1>4

LEMMA ReplacedTrace ==
    ASSUME TypeInv, OneInv, VersionInv, NEW t \in Threads, Replaced(t)
    PROVE  Trace(t)
  <1> DEFINE k    == task[t]
             j    == task'[t]
             e    == Found(elems, Live(k.call.key))
             none == <<>>
             no   == FALSE
             x    == WithAttrs(e, k.attrs)
             y    == WithSubs(e, k.subs)
  <1> PICK n : n = k.call.key
    OBVIOUS
  <1>1. /\ k.pc = "replace"
        /\ \/ elems' = elems /\ j = WithAfresh(k, n, "take", n, NoText, no, 0, none, none)
           \/ /\ ~Missing(elems, Live(n)) /\ k.call.op = "addattr" /\ j = Idle
              /\ elems' = Reattributed(elems, Live(n), k.attrs)
           \/ /\ ~Missing(elems, Live(n)) /\ j = Idle
              /\ elems' = Relisted(elems, Live(n), k.subs)
    BY ReplacedEffect, Zenon DEF ReplacedDoes
  <1>2. /\ n \in Names /\ n = k.at /\ Live(n) \in Keys /\ StoreOK(elems)
        /\ k.subs \in Seq(Names) /\ Ascending(k.subs)
    <2>1. OneTask(k, t) /\ TaskOK(k, packs[t].history) /\ k.at \in Names
      BY <1>1, CallFacts
    <2>2. n = k.at
      BY <1>1, <2>1 DEF OneTask
    <2> HIDE DEF k
    <2> QED
      BY <2>1, <2>2, NamesFacts DEF TypeInv, TaskOK
  <1>3. shared \subseteq shared'
    BY ReplacedStep DEF Step, StepJoins
  <1>4. CASE elems' = elems /\ j = WithAfresh(k, n, "take", n, NoText, no, 0, none, none)
    <2>1. TraceElems(t)
      BY <1>1, <1>4, TraceKept
    <2> HIDE DEF k, j, no
    <2>2. j.pc = "take" /\ j.puid = 0 /\ j.past = <<>> /\ j.attrs = k.attrs /\ j.call = k.call
      BY <1>4 DEF WithAfresh, none
    <2>3. TraceTask(t)
      BY <2>2, TraceGoesOn DEF k, j
    <2> QED
      BY <2>1, <2>3, ReplacedStep, TraceParts
  <1>5. ASSUME ~Missing(elems, Live(n))
        PROVE  /\ e \in ToSet(elems[Live(n)])
               /\ IsElem(x) /\ x.attrs = k.attrs /\ x.past = e.past
               /\ IsElem(y) /\ y.attrs = e.attrs /\ y.past = e.past
               /\ Reattributed(elems, Live(n), k.attrs) = Changed(elems, Live(n), x)
               /\ Relisted(elems, Live(n), k.subs) = Changed(elems, Live(n), y)
    <2>1. e \in ToSet(elems[Live(n)]) /\ IsElem(e)
      BY <1>2, <1>5, FoundFacts DEF StoreOK
    <2>2. /\ Reattributed(elems, Live(n), k.attrs) = Changed(elems, Live(n), x)
          /\ Relisted(elems, Live(n), k.subs) = Changed(elems, Live(n), y)
      BY <1>2, <1>5, ChangedParts
    <2> HIDE DEF e, k
    <2>3. /\ IsElem(x) /\ x.attrs = k.attrs /\ x.past = e.past
          /\ IsElem(y) /\ y.attrs = e.attrs /\ y.past = e.past
      BY <1>2, <2>1, PartsElem
    <2> QED
      BY <2>1, <2>2, <2>3
  <1>6. CASE /\ ~Missing(elems, Live(n)) /\ k.call.op = "addattr" /\ j = Idle
             /\ elems' = Reattributed(elems, Live(n), k.attrs)
    <2>1. n \in shared' => Restored(k, x, n)
      BY <1>1, <1>5, <1>6 DEF Restored
    <2>2. ASSUME n \notin shared'
          PROVE  Kin(x, n)
      <3>1. PutsBack(k) /\ n \notin shared
        BY <1>3, <2>2 DEF VersionInv, Reads
      <3>2. SameIds(k.attrs, e.attrs)
        BY <1>1, <1>2, <1>6, <3>1 DEF PutsBack
      <3> HIDE DEF k, e, x
      <3> QED
        BY <1>5, <1>6, <3>2 DEF Kin
    <2>3. Kin(x, n) \/ Restored(k, x, n)
      BY <2>1, <2>2
    <2>4. elems' = Changed(elems, Live(n), x) /\ IsElem(x) /\ k.pc # "shelved"
      BY <1>1, <1>5, <1>6
    <2> HIDE DEF x
    <2>5. TraceElems(t)
      BY <1>2, <1>6, <2>3, <2>4, TraceChanged
    <2> QED
      BY <1>6, <2>5, TraceEnds, ReplacedStep, TraceParts
  <1>7. CASE /\ ~Missing(elems, Live(n)) /\ j = Idle
             /\ elems' = Relisted(elems, Live(n), k.subs)
    <2>1. Kin(y, n)
      <3> HIDE DEF k, e, y
      <3> QED
        BY <1>5, <1>7 DEF Kin, SameIds
    <2>2. elems' = Changed(elems, Live(n), y) /\ IsElem(y) /\ k.pc # "shelved"
      BY <1>1, <1>5, <1>7
    <2> HIDE DEF y
    <2>3. TraceElems(t)
      BY <1>2, <1>7, <2>1, <2>2, TraceChanged
    <2> QED
      BY <1>7, <2>3, TraceEnds, ReplacedStep, TraceParts
  <1> QED
    BY <1>1, <1>4, <1>6, <1>7

LEMMA UnlistTrace ==
    ASSUME TypeInv, OneInv, VersionInv, NEW t \in Threads, Unlist(t)
    PROVE  Trace(t)
  <1> DEFINE k    == task[t]
             j    == task'[t]
             e    == Found(elems, Live(k.at))
             subs == Erase(e.subs, k.call.arg)
             one  == <<k.call.arg>>
             y    == WithSubs(e, subs)
  <1> PICK n : n = k.at
    OBVIOUS
  <1>1. /\ k.pc = "unlist"
        /\ \/ elems' = elems /\ j = Idle
           \/ /\ ~Missing(elems, Live(n)) /\ elems' = Relisted(elems, Live(n), subs)
              /\ j = WithPcDoomed(k, n, "below", one)
    BY UnlistEffect, Zenon DEF UnlistDoes
  <1>2. /\ n \in Names /\ k.call.arg \in Names
        /\ Live(n) \in Keys /\ StoreOK(elems) /\ Names \in SUBSET Nat
    <2>1. n \in Names /\ TaskOK(k, packs[t].history)
      BY <1>1, CallFacts
    <2> HIDE DEF k
    <2> QED
      BY <1>1, <2>1, NamesFacts DEF TypeInv, TaskOK, WithArg
  <1>3. CASE elems' = elems /\ j = Idle
    <2>1. TraceElems(t)
      BY <1>1, <1>3, TraceKept
    <2> QED
      BY <1>3, <2>1, TraceEnds, UnlistStep, TraceParts
  <1>4. CASE /\ ~Missing(elems, Live(n)) /\ elems' = Relisted(elems, Live(n), subs)
             /\ j = WithPcDoomed(k, n, "below", one)
    <2>1. e \in ToSet(elems[Live(n)]) /\ IsElem(e)
      BY <1>2, <1>4, FoundFacts DEF StoreOK
    <2>2. Relisted(elems, Live(n), subs) = Changed(elems, Live(n), y)
      <3> HIDE DEF subs
      <3> QED
        BY <1>2, <1>4, ChangedParts
    <2> HIDE DEF e
    <2>3. subs \in Seq(Names) /\ Ascending(subs)
      <3>1. e.subs \in Seq(Names) /\ Ascending(e.subs)
        BY <2>1 DEF IsElem
      <3> HIDE DEF k
      <3> QED
        BY <1>2, <3>1, EraseKeepsOrder
    <2> HIDE DEF subs, one
    <2>4. IsElem(y) /\ y.attrs = e.attrs /\ y.past = e.past
      BY <2>1, <2>3, PartsElem
    <2> HIDE DEF y
    <2>5. Kin(y, n)
      BY <2>1, <2>4 DEF Kin, SameIds
    <2>6. TraceElems(t)
      BY <1>1, <1>2, <1>4, <2>2, <2>4, <2>5, TraceChanged
    <2> HIDE DEF k, j
    <2>7. j.pc = "below" /\ j.call = k.call /\ j.attrs = k.attrs
      BY <1>4 DEF WithPcDoomed
    <2>8. TraceTask(t)
      BY <2>7, TraceGoesOn DEF k, j
    <2> QED
      BY <2>6, <2>8, UnlistStep, TraceParts
  <1> QED
    BY <1>1, <1>3, <1>4

LEMMA MoveTrace ==
    ASSUME TypeInv, OneInv, VersionInv, NEW t \in Threads, Move(t)
    PROVE  Trace(t)
  <1> DEFINE k    == task[t]
             j    == task'[t]
             e    == Found(elems, Live(k.at))
             held == WithPast(e, <<>>)
  <1> PICK n : n = k.at
    OBVIOUS
  <1>0. n = k.at
    OBVIOUS
  <1>1. /\ k.pc = "move"
        /\ \/ elems' = elems /\ j = Idle
           \/ /\ ~Missing(elems, Live(n)) /\ elems' = Take(elems, Live(n))
              /\ j = WithPcHeld(k, n, "moved", held)
    BY MoveEffect, Zenon DEF MoveDoes
  <1>2. n \in Names /\ OneTask(k, t) /\ TaskOK(k, packs[t].history)
    BY <1>1, CallFacts
  <1>3. TraceElems(t)
    BY <1>1, <1>2, TraceKept, TraceTaken
  <1>4. CASE j = Idle
    BY <1>3, <1>4, TraceEnds, MoveStep, TraceParts
  <1>5. CASE ~Missing(elems, Live(n)) /\ j = WithPcHeld(k, n, "moved", held)
    <2>1. e \in ToSet(elems[Live(n)])
      BY <1>2, <1>5, NamesFacts, FoundFacts DEF TypeInv
    <2>2. held.attrs = e.attrs /\ held.past = <<>>
      BY DEF WithPast
    <2>3. k.call \in use.calls[t] /\ k.call.op = "rename" /\ k.call.arg \in Names
      <3> HIDE DEF k
      <3> QED
        BY <1>1, <1>2 DEF OneTask, TaskOK, WithArg
    <2>4. k.call.op \in NotMaking => ReadUid(k) = 0
      BY DEF VersionInv, Reads, PutsBack
    <2> HIDE DEF k, j, e, held
    <2>5. /\ j.pc = "moved" /\ j.call = k.call /\ j.attrs = k.attrs /\ j.at = n /\ j.held = held
      BY <1>0, <1>5 DEF WithPcHeld
    <2>6. k.call.arg \in Targets
      BY <2>3 DEF Targets
    <2>7. TraceMoved(k, j)
      BY <1>2, <2>1, <2>2, <2>5, <2>6 DEF TraceMoved, SameIds
    <2>8. Unshelved(task[t])' /\ PutsBack(task[t])'
      BY <2>4, <2>5 DEF Unshelved, PutsBack, ReadUid, j
    <2>9. TraceTask(t)
      BY <2>5, <2>7, <2>8 DEF TraceTask, TraceAttrs, TraceShelved, TraceInsert, SameIds, k, j
    <2> QED
      BY <1>3, <2>9, MoveStep, TraceParts
  <1> QED
    BY <1>1, <1>4, <1>5

LEMMA MovedTrace ==
    ASSUME TypeInv, OneInv, VersionInv, NEW t \in Threads, Moved(t)
    PROVE  Trace(t)
  <1> DEFINE k    == task[t]
             j    == task'[t]
             none == <<>>
             one  == <<Rename(Live(k.at), Live(k.call.arg), NoAttrs)>>
  <1> PICK n : n = k.call.arg
    OBVIOUS
  <1>1. /\ k.pc = "moved"
        /\ elems' = Put(elems, Live(n), k.held)
        /\ shared' = BothNames(IF \E u \in Threads \ {t} : n \in task[u].used
                               THEN shared \cup {k.at, n} ELSE shared, k.at, n)
        /\ j = WithMoved(k, n, "below", none, one)
    BY MovedEffect, Zenon DEF MovedDoes
  <1>2. n \in Names /\ IsElem(k.held)
    <2>1. TaskOK(k, packs[t].history)
      BY <1>1, CallFacts
    <2> HIDE DEF k
    <2> QED
      BY <1>1, <2>1 DEF TaskOK, WithArg
  <1>3. n \notin shared' => k.at \notin shared /\ n \notin shared
    BY <1>1 DEF BothNames
  <1>4. Arrived(k, k.held, n)
    BY <1>1, <1>3 DEF Arrived
  <1>5. TraceElems(t)
    BY <1>1, <1>2, <1>4, TracePut
  <1> HIDE DEF k, j, none, one
  <1>6. j.pc = "below" /\ j.call = k.call /\ j.attrs = k.attrs
    BY <1>1 DEF WithMoved
  <1>7. TraceTask(t)
    BY <1>6, TraceGoesOn DEF k, j
  <1> QED
    BY <1>5, <1>7, MovedStep, TraceParts

\* Steps that touch no key.
LEMMA StandVersion ==
    ASSUME TypeInv, TypeInv', VersionInv, UNCHANGED <<use, elems, nextUid, task, shared>>
    PROVE  VersionInv'
  <1>1. \A t \in Threads : packs'[t].history = packs[t].history
    BY DEF TypeInv, PacksOK
  <1>2. \A v : Followed(v)' <=> Followed(v)
    BY DEF Followed, FollowedBy, Holding
  <1>3. \A n, v : PastOf(n, v)' = PastOf(n, v)
    BY DEF PastOf, Missing, Found
  <1>4. \A n \in Names : Uids(n)' = Uids(n)
    BY DEF Uids
  <1>5. OneHistory(use)' /\ FollowedGiven'
    BY <1>2 DEF VersionInv, OneHistory, FollowedGiven
  <1>6. IdsTogether' /\ NoIds'
    BY <1>1, <1>4 DEF VersionInv, IdsTogether, NoIds, HeldUid, ReadUid
  <1>7. Reads'
    BY DEF VersionInv, Reads, Unshelved, PutsBack, ReadUid, Missing, Found
  <1>8. OnlyShelved'
    <2>1. \A n, v, S : Only(n, v, S) => Only(n, v, S)'
      BY DEF Only, Elsewhere, ReadUid, HeldUid, Uids
    <2> QED
      BY <2>1 DEF VersionInv, OnlyShelved, ShelvedAlone, ReadUid
  <1>9. Unfollowed'
    BY <1>2, <1>4 DEF VersionInv, Unfollowed, UnfollowedBy, HeldUid
  <1>10. TargetsLast'
    <2>1. Targets' = Targets
      BY DEF Targets
    <2>2. \A v : Gone(v) => Gone(v)'
      BY <1>4 DEF Gone, GoneFrom, HeldUid, ReadUid
    <2> QED
      BY <1>2, <2>1, <2>2 DEF VersionInv, TargetsLast, Missing
  <1>11. \A n, e : Follows(n, e)' <=> Follows(n, e)
    BY <1>3 DEF Follows
  <1>12. LiveFollow' /\ VersionsFollow'
    BY <1>11 DEF VersionInv, LiveFollow, VersionsFollow
  <1>13. TasksFollow'
    BY <1>3, <1>11 DEF VersionInv, TasksFollow, TaskFollows, HeldUid, Follows
  <1> QED
    BY <1>5, <1>6, <1>7, <1>8, <1>9, <1>10, <1>12, <1>13 DEF VersionInv

LEMMA InitVersion ==
    ASSUME Init, OneHistory(use)
    PROVE  VersionInv
  <1>1. nextUid = 1 /\ task = [t \in Threads |-> Idle]
    BY DEF Init
  <1>2. ASSUME NEW n \in Names, NEW e \in ToSet(elems[Live(n)])
        PROVE  GetUniqId(e.attrs) = 0 /\ Parent(e.attrs) = 0 /\ e.past = <<>>
    BY StartElements
  <1>3. ASSUME NEW n \in Names, NEW v \in 1 .. MaxUid
        PROVE  elems[MakeHistoryKey(n, v)] = <<>>
    BY StartElements
  <1>4. 0 \in 0 .. nextUid - 1
    BY <1>1
  <1>5. \A t \in Threads : /\ task[t].pc = "idle" /\ task[t].call.op = "none"
                           /\ task[t].attrs = NoAttrs /\ ReadUid(task[t]) = 0
    BY <1>1, NoIdsAttrs DEF Idle, NoCall, ReadUid
  <1>6. ASSUME NEW v, Followed(v)
        PROVE  v = 0
    <2>1. ASSUME NEW key \in Keys, NEW e \in ToSet(elems[key])
          PROVE  Parent(e.attrs) = 0
      <3>1. CASE \E n \in Names : key = Live(n)
        BY <1>2, <3>1
      <3>2. CASE \E n \in Names, u \in 1 .. MaxUid : key = MakeHistoryKey(n, u)
        BY <1>3, <3>2, ListEmpty
      <3> QED
        BY <3>1, <3>2, KeysOfName
    <2>2. ASSUME NEW t \in Threads, FollowedBy(task[t], v)
          PROVE  v = 0
      BY <1>5, <2>2, NoIdsAttrs DEF FollowedBy, Holding
    <2> QED
      BY <1>6, <2>1, <2>2 DEF Followed
  <1>7. FollowedGiven
    BY <1>4, <1>6 DEF FollowedGiven
  <1>8. \A n \in Names : Uids(n) \subseteq {0}
    BY <1>2 DEF Uids
  <1>9. IdsTogether /\ NoIds
    BY <1>2, <1>5, <1>8, NoIdsAttrs DEF IdsTogether, NoIds, IdsGo
  <1>10. Reads /\ OnlyShelved
    BY <1>5 DEF Reads, Unshelved, PutsBack, OnlyShelved, ShelvedAlone
  <1>11. Unfollowed
    BY <1>5, <1>8 DEF Unfollowed, UnfollowedBy
  <1>12. TargetsLast
    BY <1>3 DEF TargetsLast, Targets, Missing
  <1>13. LiveFollow
    BY <1>2 DEF LiveFollow, Follows, PastOf
  <1>14. VersionsFollow
    BY <1>3, ListEmpty DEF VersionsFollow
  <1>15. TasksFollow
    BY <1>5 DEF TasksFollow, TaskFollows
  <1> QED
    BY <1>7, <1>9, <1>10, <1>11, <1>12, <1>13, <1>14, <1>15 DEF VersionInv

LEMMA NextVersion ==
    ASSUME TypeInv, OneInv, VersionInv, [Next]_vars
    PROVE  VersionInv'
  <1>0. TypeInv' /\ OneInv'
    BY NextType, NextOne
  <1>1. CASE UNCHANGED vars
    BY <1>0, <1>1, StandVersion DEF vars
  <1>2. CASE Tick
    BY <1>0, <1>2, StandVersion DEF Tick
  <1>3. CASE Finished
    BY <1>0, <1>3, StandVersion DEF Finished, vars
  <1>4. CASE \E t \in Threads : AddPass(t)
    BY <1>0, <1>4, StandVersion DEF AddPass
  <1>5. ASSUME NEW t \in Threads, Calls(t)
        PROVE  VersionInv'
    BY <1>0, <1>5, BeginsStep, BeginsTrace, StepVersion
  <1>6. ASSUME NEW t \in Threads, Acts(t)
        PROVE  VersionInv'
    <2>1. \E n : Step(t, n)
      BY <1>6, GetTrialStep, ReadSubsStep, ReadAttrsStep, TakeOldStep, ShelveStep, ShelvedStep,
         InsertNewStep, BelowStep, PutStackStep, ReplacedStep, UnlistStep, MoveStep, MovedStep
      DEF Acts
    <2>2. Trace(t)
      BY <1>6, GetTrialTrace, ReadSubsTrace, ReadAttrsTrace, TakeOldTrace, ShelveTrace,
         ShelvedTrace, InsertNewTrace, BelowTrace, PutStackTrace, ReplacedTrace, UnlistTrace,
         MoveTrace, MovedTrace DEF Acts
    <2> QED
      BY <1>0, <2>1, <2>2, StepVersion
  <1> QED
    BY <1>1, <1>2, <1>3, <1>4, <1>5, <1>6 DEF Next, Calls, Acts

\* Going back from version to version gives the past of each of them, as each follows
\* an older one.
LEMMA PastsLeadBack ==
    ASSUME TypeInv, VersionInv, NEW n \in Names \ shared, NEW v \in 0 .. MaxUid, NEW e,
           v = Parent(e.attrs)
    PROVE  Versions(n, e) = PastOf(n, v)
  <1> DEFINE S       == 0 .. MaxUid
             gone(u) == u = 0 \/ Missing(elems, MakeHistoryKey(n, u))
             w(u)    == Found(elems, MakeHistoryKey(n, u))
             p(u)    == Parent(w(u).attrs)
             h(f)    == [u \in S |-> IF gone(u) THEN <<>> ELSE Append(f[p(u)], w(u).value.text)]
             g       == [u \in S |-> PastOf(n, u)]
             f       == CHOOSE x : x = h(x)
  <1>1. Versions(n, e) = f[v]
    BY Zenon DEF Versions, Parent
  <1>2. ASSUME NEW u \in S, ~gone(u)
        PROVE  p(u) \in S /\ p(u) < u /\ w(u).past = PastOf(n, p(u))
    <2>1. u \in 1 .. MaxUid /\ nextUid \in 1 .. MaxUid + 1 /\ MaxUid \in Nat
      BY <1>2, NamesFacts DEF TypeInv, Bounds
    <2>2. MakeHistoryKey(n, u) \in Keys
      BY <2>1, KeysOfName
    <2>3. w(u) \in ToSet(elems[MakeHistoryKey(n, u)])
      BY <1>2, <2>2, FoundFacts DEF TypeInv
    <2>4. Follows(n, w(u)) /\ p(u) < u
      BY <2>1, <2>3 DEF VersionInv, VersionsFollow
    <2>5. p(u) \in 0 .. nextUid - 1
      BY <2>2, <2>3 DEF VersionInv, FollowedGiven, Followed
    <2> HIDE DEF w
    <2> QED
      BY <2>1, <2>4, <2>5 DEF Follows
  <1>3. \A u \in S : PastOf(n, u) = IF gone(u) THEN <<>> ELSE Append(w(u).past, w(u).value.text)
    BY DEF PastOf, TextsTo
  <1> HIDE DEF gone, w
  <1>4. g = h(g)
    <2>1. \A u \in S : ~gone(u) => g[p(u)] = w(u).past
      BY <1>2
    <2>2. \A u \in S : PastOf(n, u) = IF gone(u) THEN <<>> ELSE Append(g[p(u)], w(u).value.text)
      BY <1>3, <2>1
    <2> QED
      BY <2>2
  <1> HIDE DEF g
  <1>5. f = h(f)
    BY <1>4
  <1> HIDE DEF f
  <1>6. \A u \in S : /\ f[u] = IF gone(u) THEN <<>> ELSE Append(f[p(u)], w(u).value.text)
                     /\ g[u] = IF gone(u) THEN <<>> ELSE Append(g[p(u)], w(u).value.text)
    <2>1. \A u \in S : /\ h(f)[u] = IF gone(u) THEN <<>> ELSE Append(f[p(u)], w(u).value.text)
                       /\ h(g)[u] = IF gone(u) THEN <<>> ELSE Append(g[p(u)], w(u).value.text)
      OBVIOUS
    <2> HIDE DEF h
    <2> QED
      BY <1>4, <1>5, <2>1
  <1>7. \A u \in S : ~gone(u) => p(u) \in S /\ p(u) < u
    BY <1>2
  <1> HIDE DEF p, h
  <1>8. \A u \in S : f[u] = g[u]
    <2> DEFINE upto == {m \in Nat : \A u \in S : u <= m => f[u] = g[u]}
    <2>1. 0 \in upto
      <3>1. gone(0)
        BY DEF gone
      <3>2. \A u \in S : u <= 0 => u = 0
        BY NamesFacts
      <3>3. \A u \in S : u = 0 => f[u] = g[u]
        BY <1>6, <3>1
      <3> QED
        BY <3>2, <3>3
    <2>2. ASSUME NEW m \in upto
          PROVE  m + 1 \in upto
      <3>1. m \in Nat /\ \A u \in S : u <= m => f[u] = g[u]
        OBVIOUS
      <3> HIDE DEF upto
      <3>2. ASSUME NEW u \in S, u <= m + 1, ~gone(u)
            PROVE  f[p(u)] = g[p(u)]
        <4>1. p(u) \in S /\ p(u) < u /\ u \in Int /\ p(u) \in Int
          BY <1>7, <3>2, NamesFacts
        <4>2. p(u) <= m
          BY <3>1, <3>2, <4>1
        <4> QED
          BY <3>1, <4>1, <4>2
      <3>3. ASSUME NEW u \in S, u <= m + 1
            PROVE  f[u] = g[u]
        BY <1>6, <3>2, <3>3
      <3> QED
        BY <3>1, <3>3 DEF upto
    <2>3. upto = Nat
      <3>1. upto \in SUBSET Nat
        OBVIOUS
      <3> HIDE DEF upto
      <3> QED
        BY <2>1, <2>2, <3>1, SetInduction
    <2>4. ASSUME NEW u \in S
          PROVE  f[u] = g[u]
      <3>1. u \in Nat /\ u <= u
        BY NamesFacts
      <3> QED
        BY <2>3, <3>1
    <2> QED
      BY <2>4
  <1>9. g[v] = PastOf(n, v)
    BY DEF g
  <1> QED
    BY <1>1, <1>8, <1>9

LEMMA VersionInvKept ==
    ASSUME TypeInv, OneInv, VersionInv
    PROVE  VersionsKept
  <1> SUFFICES ASSUME NEW n \in Names \ shared, ~Missing(elems, Live(n))
               PROVE  Versions(n, Found(elems, Live(n))) = Found(elems, Live(n)).past
    BY DEF VersionsKept
  <1> DEFINE e == Found(elems, Live(n))
             v == Parent(e.attrs)
  <1>1. e \in ToSet(elems[Live(n)])
    BY NamesFacts, FoundFacts DEF TypeInv
  <1> HIDE DEF e
  <1>2. e.past = PastOf(n, v)
    BY <1>1 DEF VersionInv, LiveFollow, Follows
  <1>3. v \in 0 .. nextUid - 1 /\ nextUid \in 1 .. MaxUid + 1 /\ MaxUid \in Nat
    BY <1>1, LiveFollowed, UidFacts DEF VersionInv, FollowedGiven
  <1>4. v \in 0 .. MaxUid
    BY <1>3
  <1>5. Versions(n, e) = PastOf(n, v)
    BY <1>4, PastsLeadBack
  <1> QED
    BY <1>2, <1>5 DEF e

\* However the calls of any number of threads interleave, the parent unique ids lead from
\* a key that no two calls were at at once through every text it had since it was made,
\* in their order: in every use in which the callers rename only to names that no call
\* makes, and in which all processes keep versions or none does.
THEOREM VersionsKeptHolds ==
    ASSUME \A u \in Uses : FreeNames(u) /\ OneHistory(u)
    PROVE  Spec => []VersionsKept
  <1>1. Init => TypeInv /\ OneInv /\ VersionInv
    BY InitType, InitOne, InitVersion DEF Init
  <1>2. TypeInv /\ OneInv /\ VersionInv /\ [Next]_vars => (TypeInv /\ OneInv /\ VersionInv)'
    BY NextType, NextOne, NextVersion
  <1>3. TypeInv /\ OneInv /\ VersionInv => VersionsKept
    BY VersionInvKept
  <1> QED
    BY <1>1, <1>2, <1>3, PTL DEF Spec
=============================================================================
