------------------------------ MODULE K2HTrans ------------------------------
(***************************************************************************)
(* Transactions of one K2HShm (src/lib/k2htrans.cc, k2htransfunc.cc): a     *)
(* call that has changed the k2hash hands a record of what it did to the    *)
(* manager, which archives it at once or, with a thread pool, queues it for *)
(* its workers.                                                             *)
(*                                                                          *)
(* The queue is a K2HQueue in the k2hash itself.  A call on it begins, does *)
(* its work in one step and has returned: while calls that K2HQueue shows   *)
(* to be harmless overlap, that is what K2HQueueSpec promises.  Nothing     *)
(* keeps a client's Push from overlapping a worker's Pop, nor a worker's    *)
(* Push after a failure from overlapping either; K2HQueue shows that keys   *)
(* are cut off the end of the queue then.  Once that has happened the queue *)
(* may lose its end here too, and mixed says so; that K2HQueue may then     *)
(* also give a key twice is left out, as nothing is claimed of a mixed one. *)
(*                                                                          *)
(* The queue is used by one process, it has room, and nothing in it         *)
(* expires.  Start, Stop and WaitFinish are one caller's, the manager's.    *)
(* The code reads the pool and the prefix without their locks, so callers   *)
(* must keep Start and Stop apart from calls that put transactions; the     *)
(* workers run all the time.  Left out: prefixes, of which every worker has *)
(* a copy, and handlers of other libraries.                                 *)
(***************************************************************************)
EXTENDS Naturals, Sequences, FiniteSets, SequencesExt

CONSTANTS
    Clients,        \* threads that change the k2hash
    Workers,        \* threads that CreateThreads may make
    Nothing,        \* no transaction
    MaxSets,        \* bound on the changes each client makes
    MaxStarts,      \* bound on the calls of Start, Stop and WaitFinish
    MaxFailures,    \* bound on what fails: writes, opens, making threads
    MaxMoves        \* bound on how often the archive file is moved away

ASSUME TransAssumption ==
    /\ Clients \cap Workers = {}
    /\ IsFiniteSet(Workers)
    /\ Nothing \notin Clients \X (1 .. MaxSets)
    /\ {MaxSets, MaxStarts, MaxFailures, MaxMoves} \subseteq Nat

VARIABLES
    threadcnt,  \* size of the pool, set before anything starts
    enabled,    \* there is file information
    arfd,       \* the archive file: "open", or "closed" (-1)
    moved,      \* another file has, or no file has, its name by now
    archive,    \* the transactions in it, files that were moved away included
    queue,      \* the transaction queue, from the top
    pool,       \* the workers of the pool
    exiting,    \* is_exit of the workers
    lockPool,   \* LockPool is never released any more
    pc,         \* where each client and worker is
    hand,       \* the transaction it holds
    mpc,        \* where the manager is
    mjob,       \* the call it is in
    sets,       \* changes made so far by each client
    starts, failures, moves,
    acked,      \* (auxiliary) transactions that Put has queued or archived
    mixed       \* (auxiliary) calls on the queue have overlapped that may lose keys

file  == <<enabled, arfd, moved, archive>>
mgr   == <<mpc, mjob, pool, lockPool, starts>>
vars  == <<threadcnt, file, queue, mgr, exiting, pc, hand, sets, failures, moves, acked, mixed>>

-----------------------------------------------------------------------------

Threads == Clients \cup Workers
Transactions == Clients \X (1 .. MaxSets)

ClientSteps == {"idle", "put", "push", "signal", "fd", "write"}
WorkerSteps == {"off", "loop", "waiting", "woken", "pop", "take", "fd", "write",
                "recover", "repush"}

\* Where a thread has a transaction that is its own.
Holding == {"put", "push", "fd", "write", "recover", "repush"}

TypeOK ==
    /\ threadcnt \in 0 .. Cardinality(Workers)
    /\ enabled \in BOOLEAN
    /\ arfd \in {"open", "closed"}
    /\ moved \in BOOLEAN
    /\ archive \in Seq(Transactions)
    /\ queue \in Seq(Transactions)
    /\ pool \subseteq Workers
    /\ exiting \subseteq Workers
    /\ lockPool \in BOOLEAN
    /\ pc \in [Threads -> ClientSteps \cup WorkerSteps]
    /\ hand \in [Threads -> Transactions \cup {Nothing}]
    /\ \A c \in Clients : pc[c] \in ClientSteps
    /\ \A w \in Workers : pc[w] \in WorkerSteps
    /\ \A t \in Threads : hand[t] # Nothing <=> pc[t] \in Holding
    /\ mpc \in {"idle", "wait", "erase", "exit", "broadcast", "join", "file", "create"}
    /\ mjob \in {"start", "stop"}
    /\ sets \in [Clients -> 0 .. MaxSets]
    /\ starts \in 0 .. MaxStarts
    /\ failures \in 0 .. MaxFailures
    /\ moves \in 0 .. MaxMoves
    /\ acked \subseteq Transactions
    /\ mixed \in BOOLEAN

Init ==
    /\ threadcnt \in 0 .. Cardinality(Workers)
    /\ enabled = FALSE
    /\ arfd = "closed"
    /\ moved = FALSE
    /\ archive = <<>>
    /\ queue = <<>>
    /\ pool = {}
    /\ exiting = {}
    /\ lockPool = FALSE
    /\ pc = [t \in Threads |-> IF t \in Clients THEN "idle" ELSE "off"]
    /\ hand = [t \in Threads |-> Nothing]
    /\ mpc = "idle"
    /\ mjob = "stop"
    /\ sets = [c \in Clients |-> 0]
    /\ starts = 0
    /\ failures = 0
    /\ moves = 0
    /\ acked = {}
    /\ mixed = FALSE

Goto(t, step) == pc' = [pc EXCEPT ![t] = step]

\* A file that could not be opened again counts as no transaction wanted.
IsEnable == enabled /\ arfd = "open"

Fails == failures < MaxFailures /\ failures' = failures + 1

-----------------------------------------------------------------------------
\* Calls on the queue

\* A call begins, and may lose keys if a thread is in one of those steps.
Overlaps(steps) == mixed' = (mixed \/ \E t \in Threads : pc[t] \in steps)

\* What is left of a queue s: all of it, or what has not been cut off its end.
Remains(s) == IF mixed THEN Prefixes(s) ELSE {s}

-----------------------------------------------------------------------------
\* Clients

\* The change is made in the k2hash and its CKINDEX unlocked.
Set(c) ==
    /\ pc[c] = "idle" /\ mpc = "idle"
    /\ sets[c] < MaxSets
    /\ sets' = [sets EXCEPT ![c] = @ + 1]
    /\ IF IsEnable
         THEN hand' = [hand EXCEPT ![c] = <<c, sets'[c]>>] /\ Goto(c, "put")
         ELSE UNCHANGED <<hand, pc>>
    /\ UNCHANGED <<threadcnt, file, queue, mgr, exiting, failures, moves, acked, mixed>>

\* Put looks again, under LockVal: if no transaction is wanted any more it
\* returns true, and the transaction is nowhere.
NotWanted(c) ==
    /\ pc[c] = "put"
    /\ ~IsEnable
    /\ hand' = [hand EXCEPT ![c] = Nothing]
    /\ Goto(c, "idle")
    /\ UNCHANGED <<threadcnt, file, queue, mgr, exiting, sets, failures, moves, acked, mixed>>

\* With a pool it pushes to the FIFO queue.  Pushes of clients may overlap.
BeginPush(c) ==
    /\ pc[c] = "put"
    /\ IsEnable /\ pool # {}
    /\ Overlaps({"take", "repush"})
    /\ Goto(c, "push")
    /\ UNCHANGED <<threadcnt, file, queue, mgr, exiting, hand, sets, failures, moves, acked>>

\* The transaction goes to the end of the queue ...
Push(c) ==
    /\ pc[c] = "push"
    /\ queue' \in Remains(Append(queue, hand[c]))
    /\ acked' = acked \cup {hand[c]}
    /\ hand' = [hand EXCEPT ![c] = Nothing]
    /\ Goto(c, "signal")
    /\ UNCHANGED <<threadcnt, file, mgr, exiting, sets, failures, moves, mixed>>

\* ... or, the end key it has read being gone twice, Put returns false ...
PushFails(c) ==
    /\ pc[c] = "push"
    /\ mixed
    /\ hand' = [hand EXCEPT ![c] = Nothing]
    /\ Goto(c, "idle")
    /\ UNCHANGED <<threadcnt, file, queue, mgr, exiting, sets, failures, moves, acked, mixed>>

\* ... and one of the workers that wait, if any does, is woken up.
Signal(c) ==
    /\ pc[c] = "signal"
    /\ IF \E w \in pool : pc[w] = "waiting"
         THEN \E w \in pool : /\ pc[w] = "waiting"
                              /\ pc' = [pc EXCEPT ![c] = "idle", ![w] = "woken"]
         ELSE Goto(c, "idle")
    /\ UNCHANGED <<threadcnt, file, queue, mgr, exiting, hand, sets, failures, moves, acked, mixed>>

\* Put without a pool: the client runs the handler itself.
Do(c) ==
    /\ pc[c] = "put"
    /\ IsEnable /\ pool = {}
    /\ Goto(c, "fd")
    /\ UNCHANGED <<threadcnt, file, queue, mgr, exiting, hand, sets, failures, moves, acked, mixed>>

-----------------------------------------------------------------------------
\* The handler k2h_trans

\* Mutant: the worker leaves its loop without pushing back.
HandlerFails_NoRecover(t) ==
    IF t \in Workers
      THEN Goto(t, "loop") /\ UNCHANGED hand
      ELSE Goto(t, "idle") /\ hand' = [hand EXCEPT ![t] = Nothing]

\* Mutant: the worker tries again at once.
HandlerFails_Retries(t) ==
    IF t \in Workers
      THEN Goto(t, "fd") /\ UNCHANGED hand
      ELSE Goto(t, "idle") /\ hand' = [hand EXCEPT ![t] = Nothing]

\* Put returns false, or the worker pushes the transaction back.
HandlerFails(t) ==
    IF t \in Workers
      THEN Goto(t, "recover") /\ UNCHANGED hand
      ELSE Goto(t, "idle") /\ hand' = [hand EXCEPT ![t] = Nothing]

\* GetArchiveFd, under LockVal: the file is there, or, the interval being over,
\* is found to have been moved and is opened again.
GetArchiveFd(t) ==
    /\ pc[t] = "fd"
    /\ IsEnable
    /\ \/ UNCHANGED moved
       \/ moved /\ moved' = FALSE
    /\ Goto(t, "write")
    /\ UNCHANGED <<threadcnt, enabled, arfd, archive, queue, mgr, exiting, hand, sets, failures, moves, acked, mixed>>

\* CheckFile cannot open it again.
ReopenFails(t) ==
    /\ pc[t] = "fd"
    /\ IsEnable /\ moved
    /\ Fails
    /\ arfd' = "closed"
    /\ HandlerFails(t)
    /\ UNCHANGED <<threadcnt, enabled, moved, archive, queue, mgr, exiting, sets, moves, acked, mixed>>

NoArchiveFd(t) ==
    /\ pc[t] = "fd"
    /\ ~IsEnable
    /\ HandlerFails(t)
    /\ UNCHANGED <<threadcnt, file, queue, mgr, exiting, sets, failures, moves, acked, mixed>>

\* Under a lock on the file: the transaction is written at its end.
WriteTrans(t) ==
    /\ pc[t] = "write"
    /\ arfd = "open"
    /\ archive' = Append(archive, hand[t])
    /\ acked' = acked \cup {hand[t]}
    /\ hand' = [hand EXCEPT ![t] = Nothing]
    /\ Goto(t, IF t \in Workers THEN "pop" ELSE "idle")
    /\ UNCHANGED <<threadcnt, enabled, arfd, moved, queue, mgr, exiting, sets, failures, moves, mixed>>

\* The file has been closed since, or cannot be written.
WriteFails(t) ==
    /\ pc[t] = "write"
    /\ IF arfd = "open" THEN Fails ELSE UNCHANGED failures
    /\ HandlerFails(t)
    /\ UNCHANGED <<threadcnt, file, queue, mgr, exiting, sets, moves, acked, mixed>>

-----------------------------------------------------------------------------
\* WorkerProc

\* A worker that is not to exit waits to be woken up.
Wait(w) ==
    /\ pc[w] = "loop"
    /\ Goto(w, IF w \in exiting THEN "off" ELSE "waiting")
    /\ UNCHANGED <<threadcnt, file, queue, mgr, exiting, hand, sets, failures, moves, acked, mixed>>

\* Mutant: a worker waits without a time limit.
WaitTimeout_Never(w) ==
    /\ pc[w] = "waiting"
    /\ w \notin pool
    /\ Goto(w, "woken")
    /\ UNCHANGED <<threadcnt, file, queue, mgr, exiting, hand, sets, failures, moves, acked, mixed>>

\* It looks after the queue every DEFAULT_TREAD_COND_WAIT seconds anyway.
WaitTimeout(w) ==
    /\ pc[w] = "waiting"
    /\ Goto(w, "woken")
    /\ UNCHANGED <<threadcnt, file, queue, mgr, exiting, hand, sets, failures, moves, acked, mixed>>

CheckExit(w) ==
    /\ pc[w] = "woken"
    /\ Goto(w, IF w \in exiting THEN "off" ELSE "pop")
    /\ UNCHANGED <<threadcnt, file, queue, mgr, exiting, hand, sets, failures, moves, acked, mixed>>

\* Transactions are popped and given to the handler until there are none.  Pops
\* may overlap.
BeginPop(w) ==
    /\ pc[w] = "pop"
    /\ Overlaps({"push", "repush"})
    /\ Goto(w, "take")
    /\ UNCHANGED <<threadcnt, file, queue, mgr, exiting, hand, sets, failures, moves, acked>>

Pop(w) ==
    /\ pc[w] = "take"
    /\ IF queue = <<>>
         THEN Goto(w, "loop") /\ UNCHANGED <<queue, hand>>
         ELSE /\ queue' \in Remains(Tail(queue))
              /\ hand' = [hand EXCEPT ![w] = Head(queue)]
              /\ Goto(w, "fd")
    /\ UNCHANGED <<threadcnt, file, mgr, exiting, sets, failures, moves, acked, mixed>>

\* The handler has failed: the worker pushes to the queue, opened as a LIFO one.
BeginRecover(w) ==
    /\ pc[w] = "recover"
    /\ Overlaps({"push", "take", "repush"})
    /\ Goto(w, "repush")
    /\ UNCHANGED <<threadcnt, file, queue, mgr, exiting, hand, sets, failures, moves, acked>>

\* Mutant: its transaction goes to the end of the queue.
Recover_Fifo(w) ==
    /\ pc[w] = "repush"
    /\ queue' \in Remains(Append(queue, hand[w]))
    /\ hand' = [hand EXCEPT ![w] = Nothing]
    /\ Goto(w, "loop")
    /\ UNCHANGED <<threadcnt, file, mgr, exiting, sets, failures, moves, acked, mixed>>

\* Its transaction goes back to the top of the queue.
Recover(w) ==
    /\ pc[w] = "repush"
    /\ queue' \in Remains(<<hand[w]>> \o queue)
    /\ hand' = [hand EXCEPT ![w] = Nothing]
    /\ Goto(w, "loop")
    /\ UNCHANGED <<threadcnt, file, mgr, exiting, sets, failures, moves, acked, mixed>>

-----------------------------------------------------------------------------
\* The manager: Start, Stop and Detach

MgrGoto(step) == mpc' = step /\ UNCHANGED <<mjob, pool, lockPool, starts>>

\* Start stops first what is running; Detach waits for the queue and stops.
Call(job, step) ==
    /\ mpc = "idle"
    /\ \A c \in Clients : pc[c] = "idle"
    /\ starts < MaxStarts
    /\ starts' = starts + 1
    /\ mjob' = job
    /\ mpc' = step
    /\ UNCHANGED <<threadcnt, file, queue, pool, lockPool, exiting, pc, hand, sets, failures, moves, acked, mixed>>

Start == Call("start", "erase")
Stop == Call("stop", "erase")
Detach == Call("stop", "wait")

\* WaitFinish returns true when the queue is empty, and false when the time is
\* over or there are no transactions wanted.
WaitFinish ==
    /\ mpc = "wait"
    /\ MgrGoto("erase")
    /\ UNCHANGED <<threadcnt, file, queue, exiting, pc, hand, sets, failures, moves, acked, mixed>>

\* Under LockVal the file information goes and the file is closed.
EraseFile ==
    /\ mpc = "erase"
    /\ enabled' = FALSE
    /\ arfd' = "closed"
    /\ MgrGoto("exit")
    /\ UNCHANGED <<threadcnt, moved, archive, queue, exiting, pc, hand, sets, failures, moves, acked, mixed>>

AfterStop == IF mjob = "start" THEN "file" ELSE "idle"

\* ExitThreads, under LockPool: all workers are told to exit.
SetExit ==
    /\ mpc = "exit"
    /\ ~lockPool
    /\ exiting' = pool
    /\ MgrGoto(IF pool = {} THEN AfterStop ELSE "broadcast")
    /\ UNCHANGED <<threadcnt, file, queue, pc, hand, sets, failures, moves, acked, mixed>>

Broadcast ==
    /\ mpc = "broadcast"
    /\ pc' = [t \in Threads |-> IF t \in pool /\ pc[t] = "waiting" THEN "woken" ELSE pc[t]]
    /\ MgrGoto("join")
    /\ UNCHANGED <<threadcnt, file, queue, exiting, hand, sets, failures, moves, acked, mixed>>

\* All of them have exited, and the pool is deleted.
Join ==
    /\ mpc = "join"
    /\ \A w \in pool : pc[w] = "off"
    /\ pool' = {}
    /\ exiting' = {}
    /\ mpc' = AfterStop
    /\ UNCHANGED <<threadcnt, file, queue, mjob, lockPool, starts, pc, hand, sets, failures, moves, acked, mixed>>

OpenFile ==
    /\ mpc = "file"
    /\ enabled' = TRUE
    /\ arfd' = "open"
    /\ moved' = FALSE
    /\ MgrGoto(IF threadcnt = 0 THEN "idle" ELSE "create")
    /\ UNCHANGED <<threadcnt, archive, queue, exiting, pc, hand, sets, failures, moves, acked, mixed>>

OpenFails ==
    /\ mpc = "file"
    /\ Fails
    /\ MgrGoto("idle")
    /\ UNCHANGED <<threadcnt, file, queue, exiting, pc, hand, sets, moves, acked, mixed>>

\* CreateThreads, under LockPool, makes what threads it can.
CreateThreads(ws) ==
    /\ mpc = "create"
    /\ ~lockPool
    /\ ws # {} /\ Cardinality(ws) <= threadcnt
    /\ IF Cardinality(ws) < threadcnt THEN Fails ELSE UNCHANGED failures
    /\ pool' = ws
    /\ pc' = [t \in Threads |-> IF t \in ws THEN "loop" ELSE pc[t]]
    /\ mpc' = "idle"
    /\ UNCHANGED <<threadcnt, file, queue, mjob, lockPool, starts, exiting, hand, sets, moves, acked, mixed>>

\* If it can make none it returns with LockPool taken.
CreateFails ==
    /\ mpc = "create"
    /\ ~lockPool
    /\ Fails
    /\ lockPool' = TRUE
    /\ mpc' = "idle"
    /\ UNCHANGED <<threadcnt, file, queue, mjob, pool, starts, exiting, pc, hand, sets, moves, acked, mixed>>

\* Whoever looks after the archive moves it away, in one step or more.
MoveFile ==
    /\ arfd = "open" /\ ~moved
    /\ moves < MaxMoves
    /\ moves' = moves + 1
    /\ moved' = TRUE
    /\ UNCHANGED <<threadcnt, enabled, arfd, archive, queue, mgr, exiting, pc, hand, sets, failures, acked, mixed>>

-----------------------------------------------------------------------------

ThreadStep(t) ==
    \/ GetArchiveFd(t)
    \/ ReopenFails(t)
    \/ NoArchiveFd(t)
    \/ WriteTrans(t)
    \/ WriteFails(t)

ClientStep(c) ==
    \/ NotWanted(c)
    \/ BeginPush(c)
    \/ Push(c)
    \/ PushFails(c)
    \/ Signal(c)
    \/ Do(c)
    \/ ThreadStep(c)

WorkerStep(w) ==
    \/ Wait(w)
    \/ WaitTimeout(w)
    \/ CheckExit(w)
    \/ BeginPop(w)
    \/ Pop(w)
    \/ BeginRecover(w)
    \/ Recover(w)
    \/ ThreadStep(w)

MgrStep ==
    \/ WaitFinish
    \/ EraseFile
    \/ SetExit
    \/ Broadcast
    \/ Join
    \/ OpenFile
    \/ OpenFails
    \/ \E ws \in SUBSET Workers : CreateThreads(ws)
    \/ CreateFails

Next ==
    \/ \E c \in Clients : Set(c) \/ ClientStep(c)
    \/ \E w \in Workers : WorkerStep(w)
    \/ Start \/ Stop \/ Detach
    \/ MgrStep
    \/ MoveFile

Spec == Init /\ [][Next]_vars

\* Threads that can go on do; a wait for the condition ends by its time limit.
FairSpec ==
    /\ Spec
    /\ \A c \in Clients : WF_vars(ClientStep(c))
    /\ \A w \in Workers : WF_vars(WorkerStep(w))
    /\ WF_vars(MgrStep)

-----------------------------------------------------------------------------
\* Properties

Held == {hand[t] : t \in Threads} \ {Nothing}

\* A transaction that Put has queued or archived is in the archive, in the queue
\* or with a worker, through failures and restarts, if the queue keeps what it is
\* given (Put, WorkerProc, Stop).
NothingForgotten == acked \subseteq ToSet(archive) \cup ToSet(queue) \cup Held

\* It is there once, however the workers, failures and recoveries interleave.
ArchivedOnce ==
    /\ IsInjective(archive \o queue)
    /\ Held \cap ToSet(archive \o queue) = {}
    /\ \A t, u \in Threads : hand[t] = hand[u] /\ hand[t] # Nothing => t = u

\* With at most one worker the transactions of a client are archived in the
\* order of its changes, so that loading the archive ends with its last one
\* (WorkerProc, which pushes back to the top what it could not archive).
Before(X, Y) == \A x \in X, y \in Y : x[1] = y[1] => x[2] < y[2]

InOrder(s) ==
    \A i, j \in DOMAIN s : i < j /\ s[i][1] = s[j][1] => s[i][2] < s[j][2]

ArchivedInOrder == threadcnt <= 1 => InOrder(archive)

\* Why it holds.  There is a pool only between CreateThreads and Join; with
\* file information and no pool, none was wanted or none can be made any more
\* (CreateThreads, which then keeps LockPool, and Stop).  No client is in a call
\* while the manager is in one, and one runs the handler only without a pool.
PoolInv ==
    /\ \A w \in Workers \ pool : pc[w] = "off"
    /\ mpc \in {"file", "create"} => pool = {}
    /\ lockPool => pool = {} /\ mpc \in {"idle", "wait", "erase", "exit"}
    /\ threadcnt <= 1 => \A v, w \in pool : v = w
    /\ threadcnt = 0 => pool = {} /\ queue = <<>>
    /\ arfd = "open" => enabled
    /\ mpc \in {"exit", "broadcast", "join", "file"} => ~enabled
    /\ enabled /\ pool = {} /\ mpc # "create" => threadcnt = 0 \/ lockPool
    /\ mpc # "idle" => \A c \in Clients : pc[c] = "idle"
    /\ \A c \in Clients : pc[c] \in {"fd", "write"} => pool = {}
    /\ \A c \in Clients : pc[c] = "push" => pool # {}

\* A client holds its last change, which nobody has seen yet, and nothing that
\* any client has not made is anywhere (Put).
HoldInv ==
    /\ \A c \in Clients : hand[c] # Nothing => hand[c] = <<c, sets[c]>> /\ hand[c] \notin acked
    /\ \A x \in acked \cup ToSet(archive) \cup ToSet(queue) \cup Held : x[2] <= sets[x[1]]

\* The queue and a worker are behind the archive, and the queue is behind the
\* worker, as long as the queue is worked off at all (WorkerProc).
OrderInv ==
    threadcnt <= 1 =>
        /\ InOrder(queue)
        /\ ~lockPool => Before(ToSet(archive), ToSet(queue))
        /\ \A w \in Workers : hand[w] # Nothing =>
             Before(ToSet(archive), {hand[w]}) /\ Before({hand[w]}, ToSet(queue))

\* What becomes of the transactions, whatever fails and however threads interleave,
\* as long as no push to the queue overlaps a Pop and no push of a worker overlaps
\* any call on it.  Where one does, NothingLost of K2HQueue shows what is lost.
ArchiveExact ==
    /\ PoolInv
    /\ ~mixed => /\ NothingForgotten /\ ArchivedOnce /\ ArchivedInOrder
                 /\ HoldInv /\ OrderInv

\* A queued transaction is archived, woken workers or not, if only the manager
\* does not stop the workers, the file can be opened and the queue has lost
\* nothing (WorkerProc).
Running == IsEnable /\ mpc = "idle" /\ pool # {}

QueuedIsArchived ==
    \A x \in Transactions :
        x \in ToSet(queue) /\ Running ~> x \in ToSet(archive) \/ ~Running \/ mixed

\* Start, Stop and Detach return, unless no worker could be made once before
\* (CreateThreads returns without releasing LockPool).
ManagerReturns == mpc # "idle" ~> mpc = "idle" \/ lockPool
=============================================================================
