# k2hash in TLA+

TLA+ models of k2hash (`src/lib`), the shared-memory key value store of Yahoo! JAPAN, with the TLC runs that
check them and the theorems that TLAPS proves. `PROJECT.json` lists every run, property, mutant, source line and
hazard; this file says how they hang together.

## The system

A k2hash is one file, or one memory area, that threads of several processes map and work on together. There is no
server: every operation runs in its caller's thread, and what keeps callers apart are reader/writer locks
(`K2HLock`) on single words of the file.

| component | state | operations | talks to |
|---|---|---|---|
| key index (`k2hshm.cc`, `k2hstructure.h`) | `cur_mask`, the KINDEXes of every mask level and their `assign` marks, the CKINDEXes with their element lists and counts | `GetKIndex`, `ArrangeToUpperKIndex`, `GetCKIndex`, `GetElement`, `Set`, `Remove`, `CheckExpandingKeyArea` | locks; page and element store |
| page and element store (`k2hshm.cc`, `k2hpage*.cc`) | free list and count of pages, free list and count of elements, the pages of every key and value, the end of the file | `ReservePages`, `PutBackPages`, `ReserveElement`, `PutBackElement`, `AllocateElement`, `ReplacePage`, `ExpandPageArea`, `ExpandElementArea`, `LoadData` | the key index calls it with a CKINDEX locked; file monitor when the file grows |
| queues (`k2hshmque.cc`, `k2hqueue.cc`) | ordinary keys: a marker naming the first and last queued key, each queued key with the next one as its subkey | `AddFifoQueue`, `AddLifoQueue`, `PopQueueEx`, `RemoveQueue` | `Set`, `Remove`, `ReplacePage` of the store |
| element tree (`k2hshm.cc`) | one binary tree by hash and subhash per CKINDEX, lists of equals | `GetElementList`, `InsertElement`, `TakeOffElement` | key index |
| operations on whole keys (`k2hshm.cc`, `k2hsubkeys.cc`) | subkey lists, attributes, versions | `Set` with subkeys, `AddSubkey`, `AddAttr`, `Rename`, `Remove` with subkeys, `Get` with a callback | key index, one key after another; archive |
| direct access (`k2hdaccess.cc`, `k2hpagemem.cc`, `k2hpagefile.cc`) | offset and page of a reader or writer, the lock of its key | `Open`, `SetWriteOffset`, `SetReadOffset`, `Write`, `Read`, `Close` | page store, transactions |
| transactions and archive (`k2htrans.cc`, `k2harchive.cc`) | archive file, thread pool, a queue of transactions | `Put`, `Start`, `Stop`, `WorkerProc`, `WaitFinish`, `Load`, `Save` | called after an operation has unlocked; the queue |
| file monitor and mapping (`k2hfilemonitor.cc`, `k2hmmapinfo.cc`) | monitor file with an inode, an inode counter and an area counter; each process's copy and its mapped areas | `Open`, `CheckInode`, `CheckArea`, `UpdateInode`, `UpdateArea`, `AddArea` | every operation begins with a check |
| iterator (`k2hfind.cc`) | the current element and its lock | `begin`, `Next` | element areas, key index |
| direct get and set (`k2hshmdirect.cc`) | the hash where the next call goes on | `GetElementsByHash`, `SetElementByBinArray` | key index; the store of another node |
| compression (`k2hshmcomp.cc`) | the last area of the file | `AreaCompress` | page store |
| attributes (`k2hattr*.cc`) and encryption (`k2hcrypt*.cc`) | passwords and settings of each process | `UpdateAttr`, `MarkHistory`, `GetDecryptValue` | `Set`, `Get` |
| hash plugin, C API, streams, dump | none of their own | | everything above |

What is hard here, and which part of it each component has to get right:

* **Locks are short.** A call takes the lock of `cur_mask`, picks a KINDEX, releases it, and locks a CKINDEX. What
  it picked may be outgrown. *Key index: an element is where the lookup of its key looks.*
* **The index is rebuilt lazily** by whoever needs a KINDEX next, one CKINDEX at a time, while others use it. *No
  element is lost, doubled or hidden by an arrangement; `cur_mask` stands still under those who use it.*
* **`Set` of an existing key is a removal and an insertion**, with a retry. *Competing Sets end, and one of them wins.*
* **Two free lists are shared by everybody**, and their counts are kept apart from them. *Pages and elements are
  neither lost nor used twice, whatever fails half-way; a reader sees a value that was stored.*
* **A queue has no lock.** Every call reads, compares and retries. *A pushed key stays until it is taken, and is
  taken once; retries end.*
* **A transaction is archived after the operation it is about**, by the caller or by a worker, while the archive may
  be moved, closed or stopped. *What `Put` accepted is archived, once, and in order if one worker does it,
  while its queue keeps what it is given.*
* **The file grows and is replaced under the processes that have mapped it.** What tells them so is a pair of one-byte
  counters in another file. *A pointer into a new area leads somewhere; a replaced file is noticed; nobody resets
  the counters under the others.*
* **Operations on whole keys are made of several locked sections**, between which others work on the same keys and on
  the keys below them. *A key is in the file once; what was set can be read; loading the archive gives the file again.*
* **A writer of a part of a value remembers pages** from one call to the next. *It never writes into pages of others, and
  what it wrote is at the offsets where it wrote it.*
* **Whoever goes through all elements does so while the index and the element areas change.** *What stays in the file is
  found, and found once.*
* Processes may die anywhere: in `K2HMonitor` they do, for the other modules it is planned (below).

## Modules

| module | what it is |
|---|---|
| `K2HStore` | what an index promises: a map from keys to values; `Set` of a key is `Clear` and `Put` |
| `K2HKeyIndex` | the key index: one action per stretch of a call under one set of locks |
| `K2HKeyIndexStore` | `K2HKeyIndex` as an implementation of `K2HStore` |
| `K2HKeyIndexProofs` | theorems about `K2HKeyIndex`, and that implementation |
| `K2HPages` | the page and element store under `Set`, `Remove`, `Replace` and `Get` |
| `K2HSequences` | lemmas about sequences and lists of subkeys, induction over the naturals |
| `K2HPagesProofs` | theorems about `K2HPages` |
| `K2HPage` | the pages of a file with their heads, chains, and the list of free ones, byte by byte |
| `K2HPageMem`, `K2HPageFile` | the two kinds of page objects, for a file mapped whole and for one read and written |
| `K2HDAccess` | direct access to parts of a value, over those two |
| `K2HSubKeys`, `K2HAttr`, `K2HArchive` | operators: lists of subkeys; attributes; the commands of an archive and their loading |
| `K2HKeys` | the operations on whole keys, over those three |
| `K2HKeysInv`, `K2HKeysProofs` | its inductive invariants, with what its steps do to them; its theorems |
| `K2HWalk` | iterators, and the walk by hash that feeds another node |
| `K2HWalkProofs` | its theorems |
| `K2HQueueSpec` | what a queue promises |
| `K2HQueue` | FIFO and LIFO queues out of keys |
| `K2HQueueImpl` | `K2HQueue` as an implementation of `K2HQueueSpec` |
| `K2HQueueProofs` | theorems about `K2HQueue`, and that implementation |
| `K2HTrans` | transactions: clients, workers and the manager that starts and stops them |
| `K2HTransProofs` | its theorems |
| `K2HMonitor` | processes that attach, extend and replace a file, and the monitor file between them |
| `K2HMonitorProofs` | its theorems |
| `MCKeyIndex`, `MCPages`, `MCDAccess`, `MCKeys`, `MCWalk`, `MCQueue`, `MCTrans`, `MCMonitor` | small instances for TLC |

Common to all of them: a thread (of any process; the models do not tell threads of one process from threads of
two) is a program counter `pc[t]` and the local variables of the call it is in. An action is what the thread does
from taking a lock to releasing it, so that locks held from one action to the next are state, and a lock taken and
released inside one action is only a guard. A definition whose name has an underscore (`Mark_Unchecked`) is a
mutant: a wrong version of the definition behind it, used to show that the properties can fail.

Several modules have a constant for what callers may do (`Together`, `Callers`, `Uses`), and choose one of its members in
the initial state: one run then covers several kinds of use, and each behaviour is one of them.

### K2HKeyIndex

`cur` is `cur_mask` as a number of bits. `index[k]` for a KINDEX `k` (a level and a position, `GetKIndexPos`) holds
`assigned` and the elements of each of its CKINDEXes; `locks` has the holders of the lock of `cur_mask` and of each
CKINDEX. A call runs through `FindAssigned` (`GetKIndex`), then, if its KINDEX is not assigned, through
`StartArrange`, `SkipLevel`, `LockLower`, `MoveUp`, `AssignUpper` (`ArrangeToUpperKIndex`,
`MoveElementToUpperMask`), and then `LockCKIndex` (`GetCKIndex`), where the lock of `cur_mask` is already gone. Under
the lock of the CKINDEX it does `GetElement`, `RemoveEx` or `InsertElement`; after an insertion `CountElements`,
`TooLong`, `LockMaskToExpand`, `ExpandKIndexArea` are `CheckExpandingKeyArea`. `stale` remembers that a call has
used an outgrown KINDEX.

Elements are records of key and value; where an element is in its tree, its pages and its attributes are left to
other modules. The hash of a key is a constant.

### K2HPages

`free` is the list of free pages, `freeCount` its count in the head, `drop` the pages a thread is about to put back,
`hand` those it has reserved. Actions follow `AllocateElement` piece by piece (`ReservePages`, `ReservePagesFails`,
`ReserveElement`), the insertion, `TakeOff` and `PutBackElement` for a removal, `LockToReplace`, `SetValuePointer`
for `Replace`, and `LockToRead`, `LoadPage`, `ReturnValue` for a `Get`, which reads a chain page by page.
A page holds a part of a key or value: which value, and which part.

### K2HQueue

`marker` is the value of the marker key; `exists` and `next` are the queued keys and their subkeys. The steps of a
push, a Pop and a Remove are the looks and changes they make under one lock: `ReadMarker`, `Link`, `LinkTaken`,
`LinkGone`, `Mark...` and `CheckNewKey` for FIFO, `SetNewKey`, `EraseSubKey` and `Mark` for LIFO, `ReadStart`,
`ReadNext`, `ReadValue`, `Unmark...` and `Drop` for a Pop, and the same with `AskTop`, `AskAfter`, `ReadEnd`,
`ReadAfter`, `StopCutting` for `RemoveQueue` with a callback that answers anything. Whether a queue is FIFO or LIFO
is given when it is opened; `fifo` is chosen in the initial state. `Together` says which calls the callers let
overlap: the repository leaves it to them. In the run `queue` everything overlaps but two LIFO pushes; `met` remembers
which kinds of calls have overlapped. `mixed` says that a push has met a call that takes keys, or a LIFO push another
(`Harmless` lists what else may overlap): then a FIFO push may be cut off by a Pop (`queue_lost`), and
`NothingLostApart` and `ImplementsQueue` promise no more. `TakenOnceAndWhole` needs less: of a FIFO queue, pushes that
are kept apart from each other, though they meet takers (`PushesApart`). That every call returns is checked of all
behaviours. A push takes any name not made yet (`UniqKey`); names differ in nothing else.

### K2HTrans

`pc` and `hand` are where each client and worker is and the transaction it holds; `mpc` and `mjob` are the same for
the manager, the one caller of `Start`, `Stop` and `Detach`. A client that has changed the k2hash (`Set`) puts its
transaction. `Put` looks again whether transactions are wanted, and if not returns true with the transaction nowhere
(`NotWanted`); without a pool the client runs the handler itself (`Do`), with one it queues it (`BeginPush`, `Push` or
`PushFails`) and wakes up a worker (`Signal`). The handler `k2h_trans` is `GetArchiveFd`, `ReopenFails`, `NoArchiveFd`, `WriteTrans`, `WriteFails`; a worker
takes transactions (`BeginPop`, `Pop`), and if its handler failed pushes the transaction back to the top
(`BeginRecover`, `Recover`). `Stop` is `EraseFile` and then `ExitThreads`
(`SetExit`, `Broadcast`, `Join`), and `Start` is a `Stop`, `OpenFile` and `CreateThreads`. A write is whole or not at
all.

The transaction queue is a FIFO `K2HQueue` which `Put` and the workers use at once, and nothing keeps them apart: what
`queue_lost` shows is true of it too. A call on it therefore begins and works in two steps, and `mixed` becomes true
when a client's push overlaps a Pop, or a worker's push after a failure overlaps any call on the queue (two pushes of
clients, or two Pops, are harmless by `NothingLostApart`). From then on the queue may lose any part of its end whenever
a call works on it (`Remains`), a push may fail, and `ArchiveExact` and `QueuedIsArchived` claim nothing about the
transactions; that a key may then also be given twice is left out. Until then they hold: they are claims about the
manager and its workers for as long as its queue keeps what it is given, not about every `Put` that returned true. A
worker's push to the top of a queue that is used as a FIFO one is not in `K2HQueue`, whose queues have one kind; made
alone, it puts the start key below the new one. The transaction queue of another process with the same file is left
out.

`Put` looks up the pool and the prefix of the queue without a lock, so the model keeps `Start` and `Stop` apart from
clients in a call; workers run all the time. Where the code disables transactions for good (an archive that cannot
be opened again, `ReopenFails`) the model does too, until the next `Start`.

### K2HMonitor

Here a process is what the other modules call a thread: it has one `K2HShm` and one thread. `inode` is the file
that has the name, `files[i]` how far the file with inode `i` is initialised, how many areas its head lists, and into
which of them something in the file points. `mon` is the monitor file; `bup[p]` is what a process has copied from it,
`mapped[p]` the areas it has mapped, `openLock[p]` its lock on the first byte of the monitor file, `unArea[i]` the holder
of the lock of `unassign_area`. `FileMon.Open` is `OpenMonitor`, `WriteLock` or `NoWriteLock`, `ReadLock`, `CheckSize`,
`InitializeMonitor`, `ReadCounters`, `UpdateInodeOnOpen`, each as much as is done under one lock or by one system call; then
`AttachFile` goes on with `BuildMmapInfo` or `WrongVersion`, and `InitializeFile` with `ZeroFile`, `WriteVersion`,
`FillFile`, `TellInode`, `TellArea`. An operation begins with `Reload` or `CheckAreaUpdate` (`CheckFileUpdate`), follows a
pointer with `LookForArea` or `AreaIsMissing` (`GetMmapAddrOffset`), maps with `DoAreaUpdate` and extends the file with
`AddArea`, `NotifyArea` (`ExpandArea`) and `UseArea` (the pointers its caller then puts into the file). `Die` may come
at any step: the system gives up the locks, and what was written stays.

`behind[p]` counts the updates that `p` has not seen, up to a whole turn of the counter, `CounterMod`: 256 in the code,
3 in the run, so that a turn is complete within a few steps. Processes in `readers` never look for areas
(`k2hshm.cc:4145`), so the properties about areas are not about them.

Two things are kept apart that the code does not keep apart itself. `Create` does not overlap with attaching: a comment
(`k2hfilemonitor.h:94`) says that the inode is locked meanwhile, the code takes that lock in the other case
(`k2hfilemonitor.cc:395`). And nobody extends a file before its creator is done (`EarlyUse` is `FALSE`); with `TRUE` the
creator misses an area, see "Disagreements without a run".

What the code does let happen, and the model too, is that a process which already works on the old file reloads
(`Reload`) while its successor is being made: once the version is written `BuildMmapInfo` accepts the file, finds no
areas and maps nothing. Until the creator's `TellArea` the area counter tells of nothing to look for. `HalfMade` names
that state, and `AreasFound` is not about a process in it. It takes two replacements of the file: the first announces
itself, the second is half made when a process reacts. The attempt to prove `AreasFound` for any number of
replacements showed it.

### K2HDAccess

`file` is the pages with next pointers, lengths and bytes, `value[k]` the first page of the value of `k`, `content[k]`
what its callers expect in it (`Unset` where nobody has written: a value that grows keeps what was in its pages).
A thread has one `K2HDAccess` object. It holds the CKINDEX of its key from `OpenFound` or `OpenMade` to `Close`, so a
call on it is one step, except that `Write` gives the lock up for its transaction and `Relock` takes it again. `wPage`,
`absW`, `pageW` and their like for reading are the page object and the offsets that it remembers. `Truncate`,
`SetData` and `LoadData` are those of `K2HPageMem` or `K2HPageFile`, as the process has mapped the file; an object of
the second keeps a copy of the head of its page. `OpenMissing` makes a key without a value while the search still has
its lock, as the code does. A `Read` where there is no page follows a null pointer (`ReadNothing`,
`k2hdaccess.cc:549`), and the process is gone.

The copy of a head becomes old when another object writes the page (`IsCurrent`). That takes a process that does not
map the whole file, which reads the head once (`k2hpagefile.cc:189`) and writes all of it back when it changes one field
(`k2hpage.cc:136-160`): another thread writes while a `Write` is between its locks (`k2hdaccess.cc:437`), or the two
page objects of an object for reading and writing change the value after each other. Nothing in the code prevents it, and
the model has it. `stale` names the keys a `Write` has worked on from an old copy. `ValueAsWritten` and
`PagesOfTheValue` claim nothing of them, and `ReadsWhatIsThere` nothing of a `Read` that starts from one; without these
conditions TLC refutes each of the three on the instance of `daccess`. Processes that map the whole file have no copies,
and for them the conditions are always true.

Three things are left to the callers, as `Callers` says: not to set or remove a key while a `Write` of it is between its
locks (`LeftAlone`), not to ask for more bytes than a value has whose first page is full (`growFull`, below), and how
long values get, as page objects of a file that is not mapped write only two pages right (`daccess_file`). Who opens in
which mode is not restricted beyond what `MCDAccess` lists to keep the instance small.

### K2HKeys

`elems[k]` are the elements of a key in the order of a search; a key is a name with a unique id, 0 for the key itself
and others for its versions. One locked section is one step: `TakeOld` and `InsertNew` for `Set` with `Free` for its
second look, `Shelve` and `Shelved` for `RenameForHistory`, `Below` for each subkey to remove, `ReadSubs`, `ReadAttrs`
and `Replaced` for what `AddSubkey`, `AddAttr` and `Get` with a callback do, `Unlist` for `Remove` of one subkey, `Move`
and `Moved` for `Rename`. `stack` is the list of transactions of a call; it goes out in one step, `PutStack`, when the call
has nothing left to remove. `copy` is the store that loading everything archived gives, with `Load` of `K2HArchive` for
each command. The attributes a `Set` makes are `UpdateAttr` of `K2HAttr` under the settings of the process
(`packs[t]`): time of modification, history, expiry, encryption and its password.

What the code cannot promise is set aside by auxiliary state. `shared` has the names that two calls were at at the same
time: there the order of the archive and the chain of versions are not those of the file. `overlaid` has the names
where `AddAttr` has put old attributes back over newer ones: a value may then be stored under one password and
marked with another. Callers rename only to free names (`toFreeName`, below).

`UsesAssumption` says what settings, stores at the start and calls can be at all. `MaxUid` bounds the unique ids: it is
in the guards of `Shelve` and `InsertNew`, which wait for ever when it is used up; nine are enough in the run, or TLC
would report a deadlock. Three things that not every use has are hypotheses of theorems, and hold in the
run (`HypothesesAssumption` of `MCKeys`): `OneEncryption`, that all processes encrypt in one way; `FreeNames`, that no
call makes a key under a name that another call renames to; and `OneHistory`, that all processes keep versions or none
does. Without the first, what is set need not be readable: a value that is encrypted anew in another way cannot be read
(below). Without the second, `Rename` inserts without a look at its new name (`k2hshm.cc:3314`), and a key is in the file
twice. Without the third, a `Set` of a process that keeps no versions puts the parent id that it has read into the new
element (`k2hshm.cc:2227`, `UpdateAttr` leaves it alone): the key then leads back to versions before the one that was
replaced, which is lost, and TLC finds `VersionsKept` violated.

### K2HWalk

`slots` are the elements by address, `free` the free ones, `bits` and `assigned` the key index. What a writer does
under the lock of a CKINDEX is one step (`TakeOff`, `InsertElement`); giving an element back (`FreeElement`) is without that lock.
Where an element is follows from its hash and the assigned KINDEXes, with a collision mask of 0; that this is so is
what `K2HKeyIndex` shows. An iterator finds its next element without a lock (`PassOver`, `FindElement`), gets the lock
(`ReadElement`), and keeps it until it goes on; the copy that a postfix `++` makes keeps the lock before it too, which
`GetCKIndex` leaves open. An iterator over subkeys has a copy of the list from `BeginSubkeys`. The walk by hash is
`GetElementsByHash`, `TestHash` and `GetEnd`, with the filters of `GetElementListToBinary` (`Taken`), and
`SetElementByBinArray` at the other node, a store with `SetOther` and nothing else. `stay` has the elements that are in
the file from the beginning on, about which the properties speak; `got` counts how often each was found.

The assumptions on the constants say what an instance may begin with: a file whose linked elements have keys of their
own and are not newer than the clock (`UsesAssumption`), numbers for hashes and bits (`HashAssumption`,
`BitsAssumption`), and for a merge that its first time has come and that the other node has what it had before
(`MergeAssumption`; it is what the callers of `GetElementsByHash` use `startts` and the old ranges for).
`PowersAssumption` says of the powers of two what the prover cannot compute. TLC evaluates all of them in the run `walk`.

## Runs

The bounds are constants of the modules: threads, keys, calls (`MaxCalls`, shared by the threads), the last mask
level (`MaxBits`, the code's `max_mask`), the sizes of page and element areas and of the file.

| run | instance | shows |
|---|---|---|
| `key_index` | 2 threads, 3 keys, 3 calls, 2 to 4 mask bits, fairness | types, exact lookups until an outgrown KINDEX is used, the inductive invariant of the proofs, arrangements lose nothing, `cur_mask` stands still under its readers; until an outgrown KINDEX is used the index is a map; every call returns |
| `key_index_stale` | 2 threads | **violated**: a `Set` during an expansion stores a key nobody finds |
| `pages_pair` | 2 threads, 2 keys, values of 1 and 2 pages, areas of 2 pages up to 7, 4 calls | pages and elements conserved, stored chains whole, no torn read, the count promises only pages that are there |
| `daccess` | 2 threads, 1 key, 4 pages of 2 bytes, 6 calls; both mapping the file, one of them not (it reads and writes beside another writer, or reads values of three pages), or none | the value is what was written, where it was written; objects remember pages of their own key only; a `Read` gives what is there; all three as long as no copy of a page head is old; a reader sees one value |
| `daccess_file` | one process that does not map the whole file, values of three pages | **violated**: a `Write` over two page boundaries overwrites its second page |
| `keys` | 2 threads, 3 names, 3 or 4 calls; a tree of subkeys, all operations on one key, history, encryption and expiry | a key is in the file once, loading the archive gives the file again, versions lead back through every value, what was set can be read |
| `walk` | 3 keys, 2 writers, 1 to 2 mask bits, 2 calls, time to 4; an area iterator, an iterator over subkeys, a node that takes everything, one whose range changes | every element that stays is found once; the subkey an iterator stands on stays; a merge leaves nothing out |
| `walk_subkeys` | an iterator over two subkeys | **violated**: without the first one it finds none |
| `queue` | FIFO and LIFO, 2 threads, 3 keys, 4 calls, counts to 2, fairness | nothing is lost and it is a linearizable queue or stack while pushes and takers keep apart; no key is taken twice or without its value while FIFO pushes keep apart; retries end |
| `queue_lost` | FIFO, push against Pop | **violated**: a pushed key is lost |
| `trans` | 1 client with 2 changes, pools of 0, 1 and 2 workers, 2 starts or stops, 1 failure, 1 move of the archive, fairness | until calls overlap that the queue may lose keys by, queued transactions are kept and archived once, in order with one worker, and archived in the end; in any case `Start` and `Stop` return |
| `monitor` | 2 processes, of which one may only read, 1 replacement of the file, 3 areas, counters of 3 values, deaths at any step, fairness | a replaced file is noticed, a mapping that seems complete is, pointers lead somewhere, counters are not set back; opening the monitor file ends |

Why the bounds are enough to be worth something. Three keys, each CKINDEX over its limit with one element, split over
two levels: expansions, arrangements over a skipped level and collisions all happen; three calls are a `Set` that
has to remove and insert, one that competes with it, and one that looks or expands meanwhile. 7 pages are two
extensions of the file and then a failure in the middle of `AllocateElement`. Pages of two bytes and values of up to
five make writes that end at, before and behind a boundary, and a middle page; six calls are an open and a write by
one process, the same by another, and reads behind both. Three names make a tree in which a key is below two others, and
three or four calls a third one that sees what two have left half-done; the ids and times suffice for each to be
used. Two bits of mask, a free slot and two calls let an element move, be freed and its slot be taken again under a
walk. Three queued keys give a first, a middle and a last one, and make every retry of the queue fire; two
transactions, two workers and a failure let a later transaction overtake one that is pushed back; two areas more and the
announcement of a new file are a whole turn of a counter of three values. The passing runs together take every action
of every module.

`expect: violation` runs are where the code does something else than a line of the repository says; `findings` in
`PROJECT.json` quotes both.

**Fairness.** Each thread is a sequential program that goes on when it can. Weak fairness of `Step(t)` says that
and no more: new calls are not promised, and a lock is taken only when it is free. It is enough because `K2HKeyIndex`
and `K2HQueue` have finitely many calls (so a retry is only lost to a call that ends). With endless calls of others a
`Set` or a push may start over for ever; the code has no queue of waiters that would rule it out. In `K2HTrans` each
client, worker and the manager has weak fairness; for a worker that waits it stands on the time limit of
`pthread_cond_timedwait`, and failures are bounded, so that a handler fails only so often. In `K2HMonitor` a process goes on with what it has
begun (weak fairness of `Step(p)`), but it may die, and nobody has to begin anything. `OpenReturns` therefore leaves out
two cases that the code's endless loop has and no scheduler can rule out: other processes that come again for ever, and
two processes that find a monitor file without contents, left by one that died, and keep each other from
initialising it with their locks for reading. `K2HPages`, `K2HDAccess`, `K2HKeys` and `K2HWalk` have safety properties
only: their loops have a bound, and the one that has none, the retry of `Set`, is in `K2HKeyIndex`.

### Disagreements without a run

Met while modelling, in the models, and kept out of the passing runs by a named constant or a weaker property:

* `k2hshm.cc:723`: when more pages come back than `free_page_count` says, it is set to zero. The pages are in the list
  and never used again until the count has grown. `PromisedPagesExist` asks only that the count is not too high.
* `k2hshmque.cc:1620`: `RemoveQueue`, behind a key that stays, stops if that key's subkey is still the
  one it has read (`StopCutting`), which is when it should go on: keys that its callback told it to remove stay.
* `k2hshmque.cc:781`: a FIFO push that has lost its place goes on with the marker it has read since, and links its key
  behind that marker's end key. If its key had been queued and taken meanwhile, but not yet removed, it is queued again
  and taken a second time, without its value: `TakenOnceAndWhole` does not hold of two pushes that overlap and meet a
  taker. The smallest behaviour TLC finds has 3 threads, 7 calls and 35 states, more than the run `queue` has; the
  attempt to prove the property without `PushesApart` led to it.
* `k2hshmque.cc:887`: a LIFO push that has lost the race sets its key again, and `Set` removes the subkey of the first
  try, a queued key, with everything behind it (`SetNewKey`, `EraseSubKey`). A later Pop takes a key that is gone,
  without its value (2 threads, 6 calls, 28 states).
* `k2hshminit.cc:529`: `InitializeFile` does not look at `is_need_check`, so a creator misses areas that others have
  added since it announced the file (`EarlyUse`; `AreasFound` is violated with `TRUE`).
* `k2hshminit.cc:628`: `BuildMmapInfo` takes a file for initialised when its version is right, which `InitializeFile`
  writes before the areas: a process that reloads in between works without a single area for a while (`HalfMade`).
* `k2hshm.cc:3322`: `Rename` does not look for an element of the new name (`toFreeName`; with `FALSE`
  `OneElementPerKey` is violated).
* `k2hattrbuiltin.cc:671`: a value that is encrypted anew keeps the attribute of the other kind of encryption, and `GetEncryptType`
  (`:915`) looks for PBKDF2 first. Two processes that encrypt in different ways make a key that neither can read
  (`OneEncryption`; without it `ReadableAsSet` is violated by two calls of `Set`).
* `k2hpagemem.cc:512`: `Truncate` of a value whose first page is full adds pages for the whole length instead of the rest
  (`growFull`; with `TRUE` `ValueAsWritten` is violated).
* `k2hshmdirect.cc:295`: a call of `GetElementsByHash` computes the last hash once, and walks by the mask of the moment; an
  expansion inside a call hides elements from it (`GrowsInCall`; with `TRUE` `MergeComplete` is violated).
* `k2hdaccess.cc:384` says that `Write` writes at the offset and stretches the value. With an old copy of a page head
  (`k2hpagefile.cc:189`) a `Write` of a process that does not map the whole file cuts off the pages that another object has
  added, and they are lost to the free list; a `Read` ends early. Shortest: open a new key at offset 1 for reading and
  writing, `SetReadOffset` into the second page, which makes the value longer, and `Write` (`IsCurrent`; without it the
  three properties of `daccess` that name it or `stale` are violated).

## Proofs

The theorems hold for every value of the constants that the named assumption of each module admits, and the runs check
the same properties, and most of the invariants behind them, on small instances. All follow the standard argument: an
inductive invariant that holds initially, that every action keeps (one lemma per action and part of the invariant), and
that implies the property.

### Key index

`K2HKeyIndexProofs` proves, for any number of threads, keys, values, mask levels and calls, under
`IndexAssumption` of `K2HKeyIndex` (sizes are natural numbers, hashes are numbers, the initial mask is within the last):

* `TypeCorrect`: `[]TypeOK`.
* `IndexCorrect`: `[]IndexInv`, the inductive invariant: types, who holds which lock at which `pc`, what a thread
  in the middle of an arrangement knows (its level, the first position, that `cur_mask` is as it read it), assignment
  from below, placement, and at most one element of a key on the path that lookups follow.
* `PlacementHolds`, `AssignedFromBelowHolds`, `UnassignedOnlyInTransitHolds`, `LookupExactHolds`: the parts a reader
  cares for. The first three are conjuncts of `IndexInv`.
* `MaskStable`: the action property `MaskStableForReaders`.
* `StoreIsImplemented`: `ImplementsStore`, step by step: a `GetElement` is the Read of `K2HStore`, a `RemoveEx` its Delete or
  Clear, an `InsertElement` or a Set that starts over (`RetrySet`) its Put, and no other step is seen there.

Why a strengthening is needed: `LookupExact` says nothing of a thread that is about to insert, and is lost when
such a thread inserts a second element. `IndexInv` adds that a thread at `insert` holds the CKINDEX where lookups
for its key end and has seen that the key is not in it. The proof has one lemma per action and one step per part
of the invariant; the arithmetic of positions (halving a position goes one level down) is kept in lemmas of its own.
`key_index` checks `IndexInv` with TLC too.

The implementation rests on `LookupExact`. The value that the store has for a key is that of its element wherever that is
(`StoreBar`), so that a read, which looks at the end of one path, reads it only because there is one element and it is
there (`OneHome`, `FoundIsStored`). The step to look at is `MoveUp`: it takes an element out of one KINDEX and puts it into
another, and the store must not see it (`MoveUpUnseen`).

### Page and element store

`K2HPagesProofs` proves, for any number of threads, keys, values, pages, elements and calls, under `PagesAssumption` of
`K2HPages` (sizes are numbers and not zero, a CKINDEX for every key):

* `TypeCorrect`: `[]TypeOK`.
* `PromisedPages`: `[]PromisedPagesExist`, on which it rests that `ReservePages` does not run off the list.
* `FileIsConserved`: `[]FileConserved`, that each page and each element is in exactly one place.
* `StoredIsWhole`: `[]StoredWhole`, that a stored element leads to its whole key and to one whole value.
* `NoReadIsTorn`: `[]NoTornRead`, that a `Get`, which reads a chain page by page, returns no mixture.

The invariant is built in layers, each inductive with the ones before it: types, with what each step of a call holds
(`StepInv`) and the count of free pages; the locks of the CKINDEXes (`LockInv`); the owners of the elements
(`ElementsConserved`); one home for every page (`PagesApart`),
from which `PagesConserved`, a statement about a cardinality, follows at the end; what the pages hold (`ChainsWhole`); and
what readers have read (`StillThere`). `TypeOK` is not inductive alone, as pages are cut off the free list by a count;
`PagesConserved` is not without the locks, as the pages of a replaced value are for a while both on the free list and
under the element. That step is the one a reader should look at (`PutBackPages` with `Replacing`). `K2HSequences` has the
facts about cutting, appending and counting sequences that the proofs use.

### Transactions

`K2HTransProofs` proves, for any number of clients, workers, changes, restarts and failures, under `TransAssumption`:

* `TypeCorrect`: `[]TypeOK`.
* `ArchiveIsExact`: `[]ArchiveExact`, that until calls have overlapped by which the queue may lose keys (`mixed`), what
  `Put` has queued or archived is in the archive, in the queue or with a worker, once, and that with at most one worker
  the archive has each client's changes in their order.

`ArchiveExact` contains what makes it inductive: `PoolInv` says when there is a pool and who may be in a call while the
manager works, `HoldInv` that a client holds its last change and nobody else's, `OrderInv` that archive, worker and
queue are in this order. The last is where a failed handler matters: `Recover` puts a transaction back to the
top of the queue, which keeps the order only because one worker is all there is.

### File monitor

`K2HMonitorProofs` proves, for any number of processes, replacements, areas and any size of the counters greater than
one (with one value they could tell nothing; the code's have 256), under `MonitorAssumption`:

* `TypeCorrect`: `[]TypeOK`.
* `ReplacementIsNoticed`: `[]ReplacementNoticed`.
* `AllAreasAreFound`: `[]AreasFound`, if nobody extends a file before its creator is done (`EarlyUse` is `FALSE`, as in
  the run; with `TRUE` it does not hold).
* `NobodyResetsCounters`: the action property `CountersKept`.

`NamesInv` says for each step of a process which lock it has on the monitor file, which inode it has found, and what it
has copied (`StepOf`), what it has mapped (`AreaOf`), that one file at a time is being made and has no areas yet
(`NewFile`), and that a file that is ready is announced (`Announced`). `AreasInv` adds that the area counter is ahead of a
process's copy by `behind[p]` modulo `CounterMod` (`Counted`), and that a process which is not behind has mapped what is in
use and what those who have announced an area are about to use (`Knows`). The order in `ExpandArea` is what makes this
inductive: an area is announced before a pointer into it gets into the file.

### Queues

`K2HQueueProofs` proves, for any number of threads, keys, calls and rounds and any choice of the calls that callers let
overlap, under `QueueAssumption` of `K2HQueue` (there is a name, there are finitely many, `NoKey` and `Failed` are none):

* `TypeCorrect`: `[]TypeOK`.
* `NothingIsLost`: `[]NothingLostApart`.
* `KeysAreTakenOnce`: the action property `TakenOnceAndWhole`.
* `QueueIsImplemented`: `ImplementsQueue`, step by step: the abstract Push is `Link`, or `Mark` where the marker gets its
  start key, the abstract Pop is `Unmark`, a Pop of nothing is the look that finds no start key; `MarkOwn`, `MarkDeep`,
  `MarkAfterEmptied` and `LinkFails` do not happen until a push has met a taker.

`QueueInv`, proved by `QueueInvariant`, has two parts. `CommonInv` holds of every behaviour: which call is at which step,
that a name is given to one push, who has met whom. The other holds while `PushesApart` does: the queued keys form a line
(`IsLine`), from the start key of the marker through the subkeys, without a key twice. None of the properties says
anything of a key that is linked and not in the marker yet, or of what a call has read and will compare; so the invariant
does: such a key is the last of the line, and only one push is there (`PushInv`); the end key of the marker is the last of
the line or such a push is about to write it (`EndInv`); the start key that a Pop has read is still that one or has been
taken, and if it is still that one, what the Pop has read of its subkey is right, or older than one that a push has linked
since (`TakeInv`). The last "or" is the key that `queue_lost` loses. `StepCases` splits the steps that have two outcomes.
`ChainIsLine` says that the recursive function `Chain` is the line; it is proved by induction over the natural numbers in
the form of a statement about sets (`SetInduction`), which the provers can use.

### Walks

`K2HWalkProofs` proves, for any number of keys, writers, slots, bits and calls, under the assumptions named above:

* `TypeCorrect`: `[]TypeOK`, which says that the free list has every free slot once and that no two linked elements have
  one key.
* `ElementsAreFoundOnce`: `[]FoundOnce`.
* `TheSubkeyIsHeld`: `[]SubkeyHeld`.
* `MergeLeavesNothingOut`: `[]MergeComplete`, if the key area does not grow inside a call of `GetElementsByHash`
  (`GrowsInCall` is `FALSE`, as in the run; with `TRUE` it does not hold).

`Types` is the invariant below all of them: what the free list, the slots and the writers have of each other, with a
writer that has taken an element off and not yet freed it as the only owner of its slot (`TaskInv`). `FoundInv` adds that
an iterator which waits for a lock has not read its slot. `SubkeyHeld` stands on two facts about masks: an arrangement
moves nothing out of a KINDEX it does not go through (`WhereArranged`), and a new bit of the mask moves nothing until
something is arranged (`WhereWidened`); so the lock of one KINDEX, which no arrangement through it gets
(`CanArrange`), keeps its elements (`HeldStays`), and nobody takes them off (`HeldIsNotTakenOff`).

For `MergeComplete` the invariant says what the walk owes at every moment (`MergeInv`): what stays, is wanted and has been
passed has arrived or is among the data under way (`PassInv`); the data under way are what the elements are still
(`DataInv`); and what is older than the merge, and therefore not sent, the other node has had all the time and is not
made to lose, by the merge or by its own writers (`OldInv`). Where the mask grows between two calls, the hashes behind
the walk are the same in the wider mask (`BehindInBoth`); inside a call the last hash would be out of date, and `WalkAt`
would not hold.

### Keys

`K2HKeysProofs` proves, for any number of threads, names, unique ids and calls and any settings, under
`NamesAssumption` and `UsesAssumption` of `K2HKeys`:

* `TypeOKHolds`: `[]TypeOK`.
* `OneElementPerKeyHolds`: `[]OneElementPerKey`, for uses with `FreeNames`.
* `ArchiveReplaysHolds`: `[]ArchiveReplays`, for uses with `FreeNames`.
* `VersionsKeptHolds`: `[]VersionsKept`, for uses with `FreeNames` and `OneHistory`.
* `ReadableAsSetHolds`: `[]ReadableAsSet`, for uses with `OneEncryption`.
* `InsertKeepsOrder`, `EraseKeepsOrder` (in `K2HSequences`): what the two do to a list of subkeys of any length. Both rest on the search by
  halves (`Halve`), which ends at the name or between its neighbours (`HalveStops`); that is an induction over the width
  of what is left, in the form of a statement about sets (`SetInduction`).

An action of `K2HKeys` gives a call its next record of sixteen fields, in one of several ways. The lemmas `...Effect` put
each action into a form that names the new record (`ReadSubsDoes`, with `WithPcSubs`), once; what follows uses only these.
These forms and the invariants are in `K2HKeysInv`, which has no theorems.

`TypeInv` is the shape of the data, with what each step of a call has at hand: a held element is a whole one, a call that
shelves is of a process with history. `ReadInv` says that the attributes of every element fit its value: it is
encrypted with the password and in the way that they say, or not at all and they say nothing; that the attributes a call has
read say nothing false about histories; and that an element in the hands of a call fits too. It does not say so of
names in `overlaid`, and a Rename takes that along.

`OneElementPerKey` is about two elements of one key, and about versions. For the key itself a Set looks again under the lock
that it inserts under (`Free`), and a Rename relies on its name being free from the time the call begins (`RenamesFree`,
which is where `FreeNames` comes in). For versions a reader has to see why a unique id is never used twice under one name,
although elements carry their ids along: a Set gives a new element the attributes it has read, and with them the unique
id of an element that it has yet to take off. `OneInv` says where an id can be: given already (`Given`); at one name, in one
element and with no other call (`OnlyLive`); or with the one call that has taken it and has yet to put it back
(`OnlyTasks`); and that what a call has emptied stays so, and what it has read stays there, until another call is at the
name (`Emptied`, `AsRead`, `Exclusive`). What a step may do to all this is `Step(t, n)`, and `StepOne` that it is enough; each
action is then shown to be such a step. `OneInv` has been checked by TLC on the instance of `keys`.

`ArchiveReplays` is about a moment when nobody is at a name; its invariant (`ReplayInv`) has to say what the archive is
worth while somebody is. A call stacks its commands and puts them when it ends. So for every call the store is compared
with what loading would give if that call put its stack now (`Pending`): at each name that it alone has been at, the two
agree (`Matches`), but for the element that it has taken off to put under another key, which loading still has under the
old one (`Away`). That one call putting its stack leaves the others alone needs two things: the commands of a stack are
about names the call has been at (`Stackable`), and a command changes nothing at the other names and depends on
nothing there (`LoadAgree`, and by induction over the stack `LoadAllAgree`, `LoadAllApart`). A Rename is about two names; so a
name that is shared makes the new name shared too (`Kept`), and nobody renames to a name that is being renamed itself
(`NoChain`). `Emptied` of `OneInv` is what makes loading a Set onto a missing key, instead of onto an older element, right. `StepReplay`
puts this together: a step that writes only at some names (`Writes`), and there keeps `Matches` (`Makes`), keeps the
invariant. That the archive gives the file at the start is an induction over the commands of `Save` (`LoadSave`).
TLC has checked `ReplayInv` on the instance of `keys`, too.

`VersionsKept` needs a record of what every element ought to lead back to; that is its ghost `past`. `VersionInv` says that
the past of an element is the one of the version it follows (`Follows`, `LiveFollow`, `VersionsFollow`), which is older, so
that going back ends; and it says the same of the element in the hands of a call that has shelved it, and of the element a
call is about to insert (`TasksFollow`). Nothing may then change a version that something follows. A version is
only ever added: by the call that has taken the element off. So the invariant says that nothing follows an element
before it is a version (`Unfollowed`); that the call which shelves an element is the only one to have its id (`OnlyShelved`, which
rests on `OneInv`); and that nothing comes to follow what is left behind at a name that keys are renamed to
(`TargetsLast`), since an element that arrives there follows nothing there. A new element takes its ids from what the call
has read and shelved; `NewIds` goes through the cases of `UpdateAttr` and `DirectSetUniqId`: with a password, without,
with an old id or none. In one of them a Set gives two new ids, and the element follows the first, which nobody has;
`InVain` keeps it apart. `OneHistory` is needed because a Set of a process without history leaves the parent that the
attributes name, while the element that it replaced is gone. `Trace(t)` is what a step may do to all this, and
`StepVersion` that it is enough. That `VersionsKept`, which goes back recursively, follows from `VersionInv` is an induction over
ids (`PastsLeadBack`). TLC has checked `VersionInv` on the instance of `keys`, too.

### What is only model-checked

* Liveness (`CallsReturn`, `QueuedIsArchived`, `ManagerReturns`, `OpenReturns`): fairness and `ENABLED` are out of
  the prover's reach.
* Everything about `K2HDAccess`. It uses recursive operators (`K2HPageMem`, `K2HPageFile`), which the prover cannot work
  with.

## Not modelled

`PROJECT.json` has the list with reasons. In short: the element tree of one CKINDEX, which one thread at a time works on
under one lock; compression, which needs that tree and the layout of the areas; key queues and the operations on a
marker alone; plugin libraries; the ciphers and the hash function, which are pure; streams, dump and tools.

Assumed, and not checked: the fullock library implements reader/writer locks that a thread may take again (comments in
`k2hshmque.cc` rely on it) and gives back those of a process that has ended; `msync`, `mmap` and memory order. Each module
takes the others at their word: `K2HKeys` and `K2HDAccess` that a locked section works on the right element
(`K2HKeyIndex`), `K2HTrans` that its queue is one (`K2HQueueSpec`) while no calls have overlapped that `K2HQueue` loses keys by, `K2HKeys` that what is put is archived in its order
(`K2HTrans` with at most one worker and a queue that is not `mixed`). Every name of `K2HKeys` and `K2HDAccess` has a CKINDEX of its own. In `K2HKeys` a
loader of an archive sets no attributes of its own, and nothing runs out of room.

## Plan

Done: the key index with its theorems; pages; queues; transactions; the file monitor; direct access; operations on
whole keys with attributes, history, encryption and the archive; iterators and the merge between nodes.

Left to model, in this order:

1. The element tree, by recursive operators for TLC only, against the set of elements that `K2HKeyIndex` has.
2. Lock order: who holds what while waiting for what, with iterators, queues and expansions.
3. Crashes inside critical sections of `K2HPages` and `K2HQueue`; key queues and the operations of `K2HLowOpsQueue` on the
   marker.
4. Compression; several threads of one process in `K2HMonitor`.

Theorems next: `PagesOfTheValue` of `K2HDAccess`, with `ReadFrom` and `WriteFrom` as folds; `NothingLostApart` under a
weaker condition than `PushesApart`.
