----------------------------- MODULE K2HDAccess -----------------------------
(***************************************************************************)
(* Direct access to a part of a value (src/lib/k2hdaccess.cc).  A thread has  *)
(* a K2HDAccess object for a key, opened for reading, for writing or for     *)
(* both.  The object keeps the CKINDEX of the key locked from Open to Close,  *)
(* for reading or for writing, and between calls remembers a page object and  *)
(* the offset in it for its next Read and for its next Write.  Only a Write   *)
(* lets go of the lock, to put its transaction, and takes it again.          *)
(*                                                                          *)
(* Other calls that come in between are Set and Remove of the same keys.      *)
(* Every key has a CKINDEX of its own here.  Bytes are the values of Byte;    *)
(* what nobody has written is Unset in the value the callers expect.         *)
(***************************************************************************)
EXTENDS Integers, Sequences, FiniteSetsExt, SequencesExt

CONSTANTS
    Threads, NoThread,
    Keys,
    LastPage, Room, \* the pages of the file and the bytes of each
    Byte,           \* the bytes that are written; those of a new file are 0
    Texts,          \* what a Write or a Set may write
    Lengths,        \* how many bytes a Read or a SetOffset may ask for
    Offsets,        \* the offsets they may start at
    Callers,        \* what the callers may do, see "use"
    MaxCalls        \* bound on the calls begun

ASSUME DAccessAssumption ==
    /\ NoThread \notin Threads /\ Keys # {}
    /\ LastPage \in Nat /\ Room \in Nat \ {0}
    /\ Byte \subseteq Nat \ {0}
    /\ \A s \in Texts : s # <<>> /\ Range(s) \subseteq Byte
    /\ Lengths \subseteq Nat \ {0} /\ Offsets \subseteq Nat
    /\ Callers \subseteq [mapped : [Threads -> BOOLEAN],
                          modes : [Threads -> SUBSET {"read", "write", "rw"}],
                          longest : Nat, growFull : BOOLEAN]
    /\ MaxCalls \in Nat

Mem == INSTANCE K2HPageMem
File == INSTANCE K2HPageFile

Pages == Mem!Pages
NoPage == Mem!NoPage
Eof == -1               \* EOF as an offset
Unset == 0 - 2          \* a byte that nobody has written

VARIABLES
    use,        \* the member of Callers that this behaviour follows:
                \*   mapped[t]   the process of t maps the whole file
                \*   modes[t]    the modes in which t opens keys
                \*   longest     the longest value that is written
                \*   growFull    SetOffset may be asked for more bytes than a
                \*               value has whose first page is full
    file,       \* the pages, see K2HPage
    exists,     \* the keys that have an element
    value,      \* value[k]: the first page of its value
    vallength,  \* vallength[k]: the length its element says
    content,    \* content[k]: the bytes its callers have written
    readers,    \* readers[k]: the threads that hold its CKINDEX for reading
    writer,     \* writer[k]: the thread that holds it for writing
    pc,         \* where each thread is
    mode,       \* the access mode of its object
    key,        \* the key it is opened for
    offset,     \* the offset it is being opened at
    text,       \* what its Set will insert
    open,       \* pElement is not NULL
    wPage, absW, pageW,     \* pWriteValPage, abs_woffset and valpage_woffset
    rPage, absR, pageR,     \* pReadValPage, abs_roffset and valpage_roffset
    got,        \* what the last Read returned
    broken,     \* the keys of which a failed call has left a part written
    stale,      \* the keys that a Write has worked on from an old copy of the
                \* head of a page (no part of the program)
    calls       \* calls begun so far

locks  == <<readers, writer>>
handle == <<mode, key, offset, text, open, wPage, absW, pageW, rPage, absR, pageR, got>>
store  == <<file, exists, value, vallength, content, broken, stale>>
vars   == <<use, store, locks, handle, pc, calls>>

-----------------------------------------------------------------------------

Modes == {"read", "write", "rw"}
Steps == {"idle", "made", "ready", "relock", "insert", "dead"}
Lens == 0 .. LastPage * Room
ExpectedBytes == Byte \cup {Unset}

TypeOK ==
    /\ use \in Callers
    /\ DOMAIN file = {"next", "len", "data", "free"}
    /\ file.next \in [Pages -> 0 .. LastPage]
    /\ file.len \in [Pages -> 0 .. Room]
    /\ file.data \in [Pages -> [1 .. Room -> Byte \cup {0}]]
    /\ file.free \in 0 .. LastPage
    /\ exists \subseteq Keys
    /\ value \in [Keys -> 0 .. LastPage]
    /\ vallength \in [Keys -> Lens]
    /\ \A k \in Keys : content[k] \in Seq(ExpectedBytes)
    /\ readers \in [Keys -> SUBSET Threads]
    /\ writer \in [Keys -> Threads \cup {NoThread}]
    /\ pc \in [Threads -> Steps]
    /\ mode \in [Threads -> Modes]
    /\ key \in [Threads -> Keys]
    /\ offset \in [Threads -> Nat]
    /\ text \in [Threads -> Texts \cup {<<>>}]
    /\ open \in [Threads -> BOOLEAN]
    /\ wPage \in [Threads -> Mem!Objects] /\ rPage \in [Threads -> Mem!Objects]
    /\ absW \in [Threads -> Lens \cup {Eof}] /\ pageW \in [Threads -> Lens \cup {Eof}]
    /\ absR \in [Threads -> Lens \cup {Eof}] /\ pageR \in [Threads -> Lens \cup {Eof}]
    /\ \A t \in Threads : got[t] \in Seq(Byte \cup {0})
    /\ broken \subseteq Keys /\ stale \subseteq Keys
    /\ calls \in 0 .. MaxCalls

Init ==
    /\ use \in Callers
    /\ file = [next |-> [p \in Pages |-> IF p = LastPage THEN NoPage ELSE p + 1],
               len  |-> [p \in Pages |-> 0],
               data |-> [p \in Pages |-> [i \in 1 .. Room |-> 0]],
               free |-> 1]
    /\ exists = {}
    /\ value = [k \in Keys |-> NoPage]
    /\ vallength = [k \in Keys |-> 0]
    /\ content = [k \in Keys |-> <<>>]
    /\ readers = [k \in Keys |-> {}]
    /\ writer = [k \in Keys |-> NoThread]
    /\ pc = [t \in Threads |-> "idle"]
    /\ mode = [t \in Threads |-> "read"]
    /\ key = [t \in Threads |-> CHOOSE k \in Keys : TRUE]
    /\ offset = [t \in Threads |-> 0]
    /\ text = [t \in Threads |-> <<>>]
    /\ open = [t \in Threads |-> FALSE]
    /\ wPage = [t \in Threads |-> Mem!NoObject]
    /\ rPage = [t \in Threads |-> Mem!NoObject]
    /\ absW = [t \in Threads |-> Eof] /\ pageW = [t \in Threads |-> Eof]
    /\ absR = [t \in Threads |-> Eof] /\ pageR = [t \in Threads |-> Eof]
    /\ got = [t \in Threads |-> <<>>]
    /\ broken = {} /\ stale = {}
    /\ calls = 0

-----------------------------------------------------------------------------

Goto(t, step) == pc' = [pc EXCEPT ![t] = step]

Begin(t) ==
    /\ pc[t] = "idle"
    /\ calls < MaxCalls
    /\ calls' = calls + 1

\* K2HDALock: the CKINDEX of k, for reading when the mode is "read".
CanLock_PastReaders(k, m) == writer[k] = NoThread

CanLock(k, m) == writer[k] = NoThread /\ (m # "read" => readers[k] = {})

Lock(t, k, m) ==
    /\ CanLock(k, m)
    /\ IF m = "read"
       THEN readers' = [readers EXCEPT ![k] = @ \cup {t}] /\ UNCHANGED writer
       ELSE writer' = [writer EXCEPT ![k] = t] /\ UNCHANGED readers

Unlock(t, k) ==
    /\ readers' = [readers EXCEPT ![k] = @ \ {t}]
    /\ writer' = [writer EXCEPT ![k] = IF @ = t THEN NoThread ELSE @]

Unlocked(k) == CanLock(k, "write")

\* GetPageObject makes the object of the class that fits the mapping.
Truncate(t, f, o, n) == IF use.mapped[t] THEN Mem!Truncate(f, o, n) ELSE File!Truncate(f, o, n)
SetData(t, f, o, s, off) ==
    IF use.mapped[t] THEN Mem!SetData(f, o, s, off) ELSE File!SetData(f, o, s, off)
LoadData(t, f, o, off, n) ==
    IF use.mapped[t] THEN Mem!LoadData(f, o, off, n) ELSE File!LoadData(f, o, off, n)
SetAll(t, f, p, s) == IF use.mapped[t] THEN Mem!SetAll(f, p, s) ELSE File!SetAll(f, p, s)

\* What an object knows of the head of its page is what the file says.  The copy
\* that one of K2HPageFile keeps becomes old when another object writes: that of
\* another thread during a Relock, or the other one of the same thread.
IsCurrent(o) == o.loaded => o.next = file.next[o.page] /\ o.len = file.len[o.page]

BytesOf(f, k) == IF value[k] = NoPage THEN <<>> ELSE Mem!LoadAll(f, value[k])

-----------------------------------------------------------------------------
(* SetOffset, for a value that starts at page v and is said to be len bytes   *)
(* long: it makes the value off + n bytes long when the mode allows it and it *)
(* is shorter, and answers the page object and the offset in it.             *)

Placed(f, v, len, o, at) == [ok |-> TRUE, f |-> f, value |-> v, len |-> len, obj |-> o, at |-> at]
NotPlaced(f, v, len) ==
    [ok |-> FALSE, f |-> f, value |-> v, len |-> len, obj |-> Mem!NoObject, at |-> Eof]

\* r is what Truncate has answered.
Truncated(r, v, old, len, off) ==
    IF r.ok THEN Placed(r.f, v, len, r.obj, off) ELSE NotPlaced(r.f, v, old)

\* The first pages of a value, as ReservePages has answered them.
FirstPages(t, f, new, old, len, off) ==
    IF new.ok
    THEN Truncated(Truncate(t, new.f, Mem!Object(new.first), len), new.first, old, len, off)
    ELSE NotPlaced(f, NoPage, old)

SetOffset(t, f, v, len, m, off, n) ==
    IF v = NoPage
    THEN IF m = "read" \/ off + n = 0 THEN Placed(f, v, len, Mem!NoObject, Eof)
         ELSE FirstPages(t, f, Mem!ReservePages(f, off + n), len, off + n, off)
    ELSE IF off + n <= len \/ (m = "read" /\ off <= len)
    THEN Placed(f, v, len, Mem!Object(v), off)
    ELSE IF m = "read" THEN Placed(f, v, len, Mem!NoObject, Eof)
    ELSE Truncated(Truncate(t, f, Mem!Object(v), off + n), v, len, off + n, off)

\* What the callers of this behaviour may ask SetOffset for.
MayAsk(k, m, off, n) ==
    m # "read" =>
        /\ off + n <= use.longest
        /\ \/ use.growFull
           \/ value[k] = NoPage
           \/ off + n <= vallength[k]
           \/ value[k] # NoPage /\ file.len[value[k]] < Room

\* The value that the callers expect once it is at least n bytes long.
Expected(s, n) == s \o [i \in 1 .. Max({n - Len(s), 0}) |-> Unset]

\* r is the answer of the last SetOffset on the value of k.
ValueIs(k, r) ==
    /\ file' = r.f
    /\ value' = [value EXCEPT ![k] = r.value]
    /\ vallength' = [vallength EXCEPT ![k] = r.len]
    /\ content' = [content EXCEPT ![k] = Expected(@, r.len)]
    /\ broken' = IF r.ok \/ r.f = file THEN broken ELSE broken \cup {k}
    /\ UNCHANGED stale

\* GetDAccessObj, once Open has found the key: the offsets of the new object are
\* set as its mode asks, and if that fails the object is deleted.
Opened(t, k, m, off) ==
    /\ MayAsk(k, m, off, 0)
    /\ \E w \in {IF m = "read" THEN Placed(file, value[k], vallength[k], Mem!NoObject, Eof)
                 ELSE SetOffset(t, file, value[k], vallength[k], m, off, 0)} :
       \E r \in {IF m = "write" THEN [w EXCEPT !.obj = Mem!NoObject, !.at = Eof]
                 ELSE SetOffset(t, w.f, w.value, w.len, m, off, 0)} :
       LET ok == w.ok /\ r.ok
       IN /\ ValueIs(k, IF w.ok THEN r ELSE w)
          /\ wPage' = [wPage EXCEPT ![t] = IF ok THEN w.obj ELSE Mem!NoObject]
          /\ absW' = [absW EXCEPT ![t] = IF ok /\ m # "read" THEN off ELSE Eof]
          /\ pageW' = [pageW EXCEPT ![t] = IF ok THEN w.at ELSE Eof]
          /\ rPage' = [rPage EXCEPT ![t] = IF ok THEN r.obj ELSE Mem!NoObject]
          /\ absR' = [absR EXCEPT ![t] = IF ok /\ m # "write" THEN off ELSE Eof]
          /\ pageR' = [pageR EXCEPT ![t] = IF ok THEN r.at ELSE Eof]
          /\ open' = [open EXCEPT ![t] = ok]
          /\ Goto(t, IF ok THEN "ready" ELSE "idle")
          /\ IF ok THEN Lock(t, k, m) ELSE UNCHANGED locks

-----------------------------------------------------------------------------
(* Open.                                                                    *)

NewObject(t, k, m, off) ==
    /\ m \in use.modes[t]
    /\ mode' = [mode EXCEPT ![t] = m]
    /\ key' = [key EXCEPT ![t] = k]
    /\ offset' = [offset EXCEPT ![t] = off]

\* The key is found and stays locked.
OpenFound(t) ==
    /\ Begin(t)
    /\ \E k \in exists, m \in Modes, off \in Offsets :
          /\ NewObject(t, k, m, off)
          /\ CanLock(k, m)
          /\ Opened(t, k, m, off)
    /\ UNCHANGED <<use, exists, text, got>>

\* The key is not found.  For reading that is an error; for writing Set makes it,
\* without a value, while the lock of the failed search is still held, and then
\* the lock is given back and asked for again.
OpenMissing(t) ==
    /\ Begin(t)
    /\ \E k \in Keys \ exists, m \in Modes \ {"read"}, off \in Offsets :
          /\ NewObject(t, k, m, off)
          /\ off <= use.longest /\ (use.growFull \/ off <= Room)
          /\ Unlocked(k)
          /\ exists' = exists \cup {k}
          /\ content' = [content EXCEPT ![k] = <<>>]
    /\ Goto(t, "made")
    /\ UNCHANGED <<use, file, value, vallength, broken, stale, locks, text, open,
                   wPage, absW, pageW, rPage, absR, pageR, got>>

OpenMade(t) ==
    /\ pc[t] = "made"
    /\ Unlocked(key[t])
    /\ IF key[t] \in exists
       THEN Opened(t, key[t], mode[t], offset[t])
       ELSE Goto(t, "idle") /\ UNCHANGED <<store, locks, open, wPage, absW, pageW, rPage, absR, pageR>>
    /\ UNCHANGED <<use, exists, mode, key, offset, text, got, calls>>

\* The object is deleted.
Close(t) ==
    /\ pc[t] = "ready"
    /\ Unlock(t, key[t])
    /\ open' = [open EXCEPT ![t] = FALSE]
    /\ wPage' = [wPage EXCEPT ![t] = Mem!NoObject]
    /\ rPage' = [rPage EXCEPT ![t] = Mem!NoObject]
    /\ absW' = [absW EXCEPT ![t] = Eof] /\ pageW' = [pageW EXCEPT ![t] = Eof]
    /\ absR' = [absR EXCEPT ![t] = Eof] /\ pageR' = [pageR EXCEPT ![t] = Eof]
    /\ got' = [got EXCEPT ![t] = <<>>]
    /\ Goto(t, "idle")
    /\ UNCHANGED <<use, store, mode, key, offset, text, calls>>

-----------------------------------------------------------------------------
(* Calls on an open object.                                                 *)

Call(t) ==
    /\ pc[t] = "ready"
    /\ open[t]
    /\ calls < MaxCalls
    /\ calls' = calls + 1

SetWriteOffset(t) ==
    /\ Call(t)
    /\ mode[t] # "read"
    /\ \E off \in Offsets, n \in Lengths \cup {0} :
       LET k == key[t]
       IN /\ MayAsk(k, mode[t], off, n)
          /\ \E r \in {SetOffset(t, file, value[k], vallength[k], mode[t], off, n)} :
                /\ ValueIs(k, r)
                /\ wPage' = [wPage EXCEPT ![t] = r.obj]
                /\ absW' = [absW EXCEPT ![t] = IF r.ok THEN off ELSE Eof]
                /\ pageW' = [pageW EXCEPT ![t] = r.at]
    /\ UNCHANGED <<use, exists, locks, pc, mode, key, offset, text, open, rPage, absR, pageR, got>>

SetReadOffset(t) ==
    /\ Call(t)
    /\ mode[t] # "write"
    /\ \E off \in Offsets :
       LET k == key[t]
       IN /\ MayAsk(k, mode[t], off, 0)
          /\ \E r \in {SetOffset(t, file, value[k], vallength[k], mode[t], off, 0)} :
                /\ ValueIs(k, r)
                /\ rPage' = [rPage EXCEPT ![t] = r.obj]
                /\ absR' = [absR EXCEPT ![t] = IF r.ok THEN off ELSE Eof]
                /\ pageR' = [pageR EXCEPT ![t] = r.at]
    /\ UNCHANGED <<use, exists, locks, pc, mode, key, offset, text, open, wPage, absW, pageW, got>>

\* The value that the callers expect after s has been written at off.
Written(c, off, s) ==
    [i \in 1 .. Max({Len(c), off + Len(s)}) |->
        IF i \in off + 1 .. off + Len(s) THEN s[i - off]
        ELSE IF i <= Len(c) THEN c[i] ELSE Unset]

\* The element learns the new length only when a page has grown, and then it is
\* where the Write ended.
LengthAfter_Always(len, grown, end) == end

LengthAfter(len, grown, end) == IF grown THEN end ELSE len

\* SetData, once SetOffset has answered z.
DataSet(t, z, s) ==
    IF z.ok THEN SetData(t, z.f, z.obj, s, z.at)
    ELSE [ok |-> FALSE, f |-> z.f, obj |-> z.obj, off |-> z.at, grown |-> FALSE]

\* Write, up to the Unlock for its transaction.  An object at offset 0 of a key
\* without a value makes the value first.
Write(t) ==
    /\ Call(t)
    /\ mode[t] # "read"
    /\ absW[t] # Eof
    /\ \E s \in Texts :
       LET k   == key[t]
           end == absW[t] + Len(s)
       IN /\ end <= use.longest
          /\ wPage[t] = Mem!NoObject => MayAsk(k, mode[t], 0, Len(s))
          /\ \E z \in {IF absW[t] = 0 /\ wPage[t] = Mem!NoObject
                       THEN SetOffset(t, file, value[k], vallength[k], mode[t], 0, Len(s))
                       ELSE Placed(file, value[k], vallength[k], wPage[t], pageW[t])} :
             \E d \in {DataSet(t, z, s)} :
              /\ file' = d.f
              /\ value' = [value EXCEPT ![k] = z.value]
              /\ vallength' = [vallength EXCEPT ![k] = LengthAfter(z.len, d.ok /\ d.grown, end)]
              /\ content' = [content EXCEPT ![k] = IF d.ok THEN Written(@, absW[t], s)
                                                   ELSE Expected(@, z.len)]
              /\ broken' = IF d.ok \/ file' = file THEN broken ELSE broken \cup {k}
              /\ stale' = IF IsCurrent(wPage[t]) THEN stale ELSE stale \cup {k}
              /\ wPage' = [wPage EXCEPT ![t] = d.obj]
              /\ absW' = [absW EXCEPT ![t] = IF d.ok THEN end ELSE IF z.ok THEN @ ELSE Eof]
              /\ pageW' = [pageW EXCEPT ![t] = IF d.ok THEN d.off ELSE z.at]
              /\ IF d.ok THEN Unlock(t, k) /\ Goto(t, "relock")
                 ELSE UNCHANGED <<locks, pc>>
    /\ UNCHANGED <<use, exists, mode, key, offset, text, open, rPage, absR, pageR, got>>

\* Write, after its transaction: the lock again, and with it the element; without
\* one the object is no longer open, but it keeps the lock.
Relock(t) ==
    /\ pc[t] = "relock"
    /\ Lock(t, key[t], mode[t])
    /\ open' = [open EXCEPT ![t] = key[t] \in exists]
    /\ Goto(t, "ready")
    /\ UNCHANGED <<use, store, mode, key, offset, text, wPage, absW, pageW, rPage, absR, pageR,
                   got, calls>>

\* Read.  A Read that ends short in the page it began in has come to the end.
Read(t) ==
    /\ Call(t)
    /\ mode[t] # "write"
    /\ absR[t] # Eof
    /\ rPage[t] # Mem!NoObject
    /\ \E n \in Lengths :
       \E l \in {LoadData(t, file, rPage[t], pageR[t], n)} :
          LET finished == l.obj.page = rPage[t].page /\ Len(l.bytes) < n
          IN  /\ got' = [got EXCEPT ![t] = l.bytes]
              /\ rPage' = [rPage EXCEPT ![t] = l.obj]
              /\ pageR' = [pageR EXCEPT ![t] = IF finished THEN Eof ELSE l.off]
              /\ absR' = [absR EXCEPT ![t] = IF finished THEN Eof ELSE @ + Len(l.bytes)]
    /\ UNCHANGED <<use, store, locks, pc, mode, key, offset, text, open, wPage, absW, pageW>>

\* Read at an offset that has no page: it follows a null pointer, and the process
\* ends.  fullock gives back the locks of a process that has ended.
ReadNothing(t) ==
    /\ Call(t)
    /\ mode[t] # "write"
    /\ absR[t] # Eof
    /\ rPage[t] = Mem!NoObject
    /\ Unlock(t, key[t])
    /\ open' = [open EXCEPT ![t] = FALSE]
    /\ Goto(t, "dead")
    /\ UNCHANGED <<use, store, mode, key, offset, text, wPage, absW, pageW, rPage, absR, pageR, got>>

-----------------------------------------------------------------------------
(* Set and Remove of the same keys.                                         *)

\* The callers leave a key alone while a Write of it is between its locks.
LeftAlone(k) == \A u \in Threads : pc[u] = "relock" => key[u] # k

Emptied_HeadOnly(f, k) ==
    IF value[k] = NoPage THEN f
    ELSE Mem!PutBackPages([f EXCEPT !.len[value[k]] = 0], value[k], value[k])

Emptied(f, k) == IF value[k] = NoPage THEN f ELSE Mem!Free(f, value[k])

TakeOff(k) ==
    /\ Unlocked(k)
    /\ LeftAlone(k)
    /\ exists' = exists \ {k}
    /\ file' = Emptied(file, k)
    /\ value' = [value EXCEPT ![k] = NoPage]
    /\ vallength' = [vallength EXCEPT ![k] = 0]
    /\ content' = [content EXCEPT ![k] = <<>>]
    /\ broken' = broken \ {k}
    /\ UNCHANGED stale

Writes(t) == use.modes[t] \cap {"write", "rw"} # {}

RemoveKey(t) ==
    /\ Begin(t)
    /\ Writes(t)
    /\ \E k \in exists : TakeOff(k)
    /\ UNCHANGED <<use, locks, pc, handle>>

\* Set, the removal of the old element.
Set(t) ==
    /\ Begin(t)
    /\ Writes(t)
    /\ \E k \in Keys, s \in Texts :
          /\ Len(s) <= use.longest
          /\ TakeOff(k)
          /\ key' = [key EXCEPT ![t] = k]
          /\ text' = [text EXCEPT ![t] = s]
    /\ Goto(t, "insert")
    /\ UNCHANGED <<use, locks, mode, offset, open, wPage, absW, pageW, rPage, absR, pageR, got>>

\* Set, the new element: again from the removal on if there is one by now.
Insert(t) ==
    LET k == key[t]
    IN  /\ pc[t] = "insert"
        /\ Unlocked(k)
        /\ IF k \in exists
           THEN TakeOff(k) /\ UNCHANGED <<pc, text>>
           ELSE \E new \in {Mem!ReservePages(file, Len(text[t]))} :
                /\ text' = [text EXCEPT ![t] = <<>>]
                /\ Goto(t, "idle")
                /\ IF new.ok
                   THEN /\ exists' = exists \cup {k}
                        /\ file' = SetAll(t, new.f, new.first, text[t])
                        /\ value' = [value EXCEPT ![k] = new.first]
                        /\ vallength' = [vallength EXCEPT ![k] = Len(text[t])]
                        /\ content' = [content EXCEPT ![k] = text[t]]
                        /\ UNCHANGED <<broken, stale>>
                   ELSE UNCHANGED store
        /\ UNCHANGED <<use, locks, mode, key, offset, open, wPage, absW, pageW, rPage, absR,
                       pageR, got, calls>>

-----------------------------------------------------------------------------

Step(t) ==
    \/ OpenFound(t) \/ OpenMissing(t) \/ OpenMade(t) \/ Close(t)
    \/ SetWriteOffset(t) \/ SetReadOffset(t)
    \/ Write(t) \/ Relock(t) \/ Read(t) \/ ReadNothing(t)
    \/ RemoveKey(t) \/ Set(t) \/ Insert(t)

\* All calls made and returned, all objects deleted or their processes dead.
Finished ==
    /\ \A t \in Threads : pc[t] = "dead" \/ (pc[t] = "idle" /\ calls = MaxCalls)
    /\ UNCHANGED vars

Next == (\E t \in Threads : Step(t)) \/ Finished

Spec == Init /\ [][Next]_vars

-----------------------------------------------------------------------------
(* What direct access promises.                                             *)

\* The pages of a value hold what was written, at the offsets it was written at,
\* and as many bytes as the element says, whichever objects wrote it and
\* wherever the page boundaries lie, provided that no Write of the key has worked
\* from an old copy of a head (stale): such a Write may cut the chain.  Only a
\* call that reported an error may leave the value otherwise.
ValueAsWritten ==
    \A k \in exists \ (broken \cup stale) :
        LET bytes == BytesOf(file, k)
        IN  /\ Len(bytes) = vallength[k]
            /\ Len(content[k]) = vallength[k]
            /\ \A i \in DOMAIN bytes : content[k][i] \in {Unset, bytes[i]}

\* As long as no Write has worked from an old copy of a head, every page is in
\* the free list or in the chain of one value, once, and an object that is open
\* remembers pages of the value of its key: it cannot write into what another key
\* has got meanwhile.
PagesOfTheValue ==
    LET chains == {Mem!ChainFrom(file, file.free)} \cup
                  {Mem!ChainFrom(file, value[k]) : k \in exists}
    IN  stale = {} =>
        /\ UNION {Range(c) : c \in chains} = Pages
        /\ FoldSet(LAMBDA c, n : Len(c) + n, 0, chains \ {<<>>}) = LastPage
        /\ \A t \in Threads : open[t] =>
               {wPage[t].page, rPage[t].page} \subseteq
                  Range(Mem!ChainFrom(file, value[key[t]])) \cup {NoPage}

\* A Read returns the bytes of the value from the offset on that the object
\* stands at, also behind a page boundary, after a Write of the same object and
\* after Writes of others; fewer than asked for only at the end of the value.
\* That holds while the head it starts from is current: a Read with an old copy
\* of it, of a process that does not map the whole file, may end early.
ReadsWhatIsThere ==
    [][\A t \in Threads : Read(t) /\ IsCurrent(rPage[t]) /\ key[t] \notin stale =>
          LET bytes == BytesOf(file, key[t])
          IN  \E n \in Lengths :
                 /\ got'[t] = SubSeq(bytes, absR[t] + 1, Min({absR[t] + n, Len(bytes)}))
                 /\ absR'[t] \in {Eof, absR[t] + Len(got'[t])}
                 /\ absR'[t] = Eof => absR[t] + n > Len(bytes)]_vars

\* While an object is open for reading, the value of its key stays as it is: all
\* its Reads together are one snapshot.
ReaderSeesOneValue ==
    [][\A t \in Threads : open[t] /\ open'[t] /\ mode[t] = "read" =>
          /\ BytesOf(file, key[t])' = BytesOf(file, key[t])
          /\ content'[key[t]] = content[key[t]]]_vars
=============================================================================
