----------------------------- MODULE K2HMonitor -----------------------------
(***************************************************************************)
(* Processes that share one k2hash file (src/lib/k2hfilemonitor.cc,         *)
(* k2hshmupdater.cc, k2hmmapinfo.cc, k2hshminit.cc and the attaching part   *)
(* of k2hshm.cc).  Each has mapped some areas of the file; others add areas *)
(* to it, or put another file in its place.  What tells a process so is the *)
(* monitor file, with the inode, a counter of inodes and one of areas.      *)
(*                                                                          *)
(* A process here has one K2HShm and works on it with one thread.  Files    *)
(* have their inodes as names, in the order in which they are created.      *)
(***************************************************************************)
EXTENDS Naturals, FiniteSets

CONSTANTS
    Procs,          \* processes
    NoProc,
    ReaderSets,     \* the processes that may be the ones that only read
    CounterMod,     \* values of a counter in the monitor file: 256 in the code
    EarlyUse,       \* processes add areas to a file before its creator is done
    MaxCreates,     \* bound on the files that replace the first one
    MaxAreas        \* bound on the areas of all files together

ASSUME MonitorAssumption ==
    /\ NoProc \notin Procs
    /\ ReaderSets \subseteq SUBSET Procs
    /\ CounterMod \in Nat \ {0, 1}
    /\ EarlyUse \in BOOLEAN
    /\ MaxCreates \in Nat
    /\ MaxAreas \in Nat \ {0}

VARIABLES
    readers,    \* the processes that attach for reading only
    inode,      \* the file that has the name now
    files,      \* how far each file is initialised, its areas, those in use
    unArea,     \* who holds the lock of unassign_area of each file
    mon,        \* the monitor file
    openLock,   \* each process's lock on its first byte
    pc,         \* where each process is
    job,        \* whether it attaches to a file or creates one
    file,       \* the file it has opened
    seen,       \* the inode it found under the name when it opened the monitor
    bup,        \* its copies of the values of the monitor file
    mapped,     \* the areas it has mapped
    want,       \* the area it adds, or looks for; 0 for none
    behind,     \* (auxiliary) changes of the area counter it has not seen
    missed      \* (auxiliary) processes that did not find an area

shared == <<readers, inode, files, unArea, mon>>
aux    == <<behind, missed>>
vars   == <<shared, openLock, pc, job, file, seen, bup, mapped, want, aux>>

-----------------------------------------------------------------------------

Inodes == 0 .. MaxCreates
Areas  == 1 .. MaxAreas
Counter == 0 .. CounterMod - 1

None == [inodeCnt |-> 0, inodeVal |-> MaxCreates + 1, areaCnt |-> 0]
Values == [inodeCnt : Counter, inodeVal : 0 .. MaxCreates + 1, areaCnt : Counter]

OpenSteps   == {"open", "created", "opened", "tryRead", "size", "init", "map", "inode", "build"}
CreateSteps == {"zero", "head", "fill", "tell", "tellArea"}
UseSteps    == {"idle", "grow", "remap", "link"}

TypeOK ==
    /\ readers \subseteq Procs
    /\ inode \in Inodes
    /\ files \in [Inodes -> [step : {"none", "empty", "zero", "head", "ready"},
                             areas : 0 .. MaxAreas, used : SUBSET Areas]]
    /\ \A i \in Inodes : files[i].used \subseteq 1 .. files[i].areas
    /\ unArea \in [Inodes -> Procs \cup {NoProc}]
    /\ mon \in [size : {"none", "empty", "ok"}, val : Values]
    /\ openLock \in [Procs -> {"none", "read", "write"}]
    /\ \A p, q \in Procs : openLock[p] = "write" /\ p # q => openLock[q] = "none"
    /\ pc \in [Procs -> {"off"} \cup OpenSteps \cup CreateSteps \cup UseSteps]
    /\ job \in [Procs -> {"attach", "create"}]
    /\ file \in [Procs -> Inodes]
    /\ seen \in [Procs -> Inodes]
    /\ bup \in [Procs -> Values]
    /\ mapped \in [Procs -> SUBSET Areas]
    /\ want \in [Procs -> 0 .. MaxAreas]
    /\ behind \in [Procs -> 0 .. CounterMod]
    /\ missed \subseteq Procs

Init ==
    /\ readers \in ReaderSets
    /\ inode = 0
    /\ files = [i \in Inodes |->
                  IF i = 0 THEN [step |-> "ready", areas |-> 1, used |-> {1}]
                           ELSE [step |-> "none", areas |-> 0, used |-> {}]]
    /\ unArea = [i \in Inodes |-> NoProc]
    /\ mon = [size |-> "none", val |-> None]
    /\ openLock = [p \in Procs |-> "none"]
    /\ pc = [p \in Procs |-> "off"]
    /\ job = [p \in Procs |-> "attach"]
    /\ file = [p \in Procs |-> 0]
    /\ seen = [p \in Procs |-> 0]
    /\ bup = [p \in Procs |-> None]
    /\ mapped = [p \in Procs |-> {}]
    /\ want = [p \in Procs |-> 0]
    /\ behind = [p \in Procs |-> 0]
    /\ missed = {}

Goto(p, step) == pc' = [pc EXCEPT ![p] = step]

Opening(p)  == pc[p] \in OpenSteps
Creating(p) == pc[p] # "off" /\ job[p] = "create"
Attached(p) == pc[p] \in UseSteps

\* What a process may know of the file is compared with the monitor file.
SameInode(p) ==
    /\ bup[p].inodeCnt = mon.val.inodeCnt
    /\ bup[p].inodeVal = mon.val.inodeVal

SameArea(p) == bup[p].areaCnt = mon.val.areaCnt

-----------------------------------------------------------------------------
\* Attaching and creating

\* AttachFile opens the file.  Callers must not attach while a file is created.
Attach(p) ==
    /\ pc[p] = "off"
    /\ \A q \in Procs : ~Creating(q)
    /\ files[inode].step # "empty"
    /\ job' = [job EXCEPT ![p] = "attach"]
    /\ file' = [file EXCEPT ![p] = inode]
    /\ Goto(p, "open")
    /\ UNCHANGED <<shared, openLock, seen, bup, mapped, want, aux>>

\* Create removes the file there is and opens a new one.
Create(p) ==
    /\ pc[p] = "off" /\ p \notin readers
    /\ \A q \in Procs : ~Creating(q) /\ ~Opening(q)
    /\ inode < MaxCreates
    /\ inode' = inode + 1
    /\ files' = [files EXCEPT ![inode'].step = "empty"]
    /\ job' = [job EXCEPT ![p] = "create"]
    /\ file' = [file EXCEPT ![p] = inode']
    /\ Goto(p, "open")
    /\ UNCHANGED <<readers, unArea, mon, openLock, seen, bup, mapped, want, aux>>

\* K2HFileMonitor::Open: the inode under the name, then the monitor file.
OpenMonitor(p) ==
    /\ pc[p] = "open"
    /\ seen' = [seen EXCEPT ![p] = inode]
    /\ IF mon.size = "none"
         THEN mon' = [mon EXCEPT !.size = "empty"] /\ Goto(p, "created")
         ELSE Goto(p, "opened") /\ UNCHANGED mon
    /\ UNCHANGED <<readers, inode, files, unArea, openLock, job, file, bup, mapped, want, aux>>

\* Mutant: readers do not keep a writer out.
WriteLock_IgnoresReaders(p) ==
    /\ pc[p] \in {"created", "opened"}
    /\ \A q \in Procs \ {p} : openLock[q] # "write"
    /\ openLock' = [openLock EXCEPT ![p] = "write"]
    /\ Goto(p, "init")
    /\ UNCHANGED <<shared, job, file, seen, bup, mapped, want, aux>>

\* Whoever gets the lock for writing, which is not waited for, is alone and
\* initialises the monitor file, be it new or not.
WriteLock(p) ==
    /\ pc[p] \in {"created", "opened"}
    /\ \A q \in Procs \ {p} : openLock[q] = "none"
    /\ openLock' = [openLock EXCEPT ![p] = "write"]
    /\ Goto(p, "init")
    /\ UNCHANGED <<shared, job, file, seen, bup, mapped, want, aux>>

NoWriteLock(p) ==
    /\ pc[p] \in {"created", "opened"}
    /\ \E q \in Procs \ {p} : openLock[q] # "none"
    /\ Goto(p, IF pc[p] = "created" THEN "open" ELSE "tryRead")
    /\ UNCHANGED <<shared, openLock, job, file, seen, bup, mapped, want, aux>>

\* The others take it for reading, or start over.
ReadLock(p) ==
    /\ pc[p] = "tryRead"
    /\ IF \A q \in Procs \ {p} : openLock[q] # "write"
         THEN openLock' = [openLock EXCEPT ![p] = "read"] /\ Goto(p, "size")
         ELSE Goto(p, "open") /\ UNCHANGED openLock
    /\ UNCHANGED <<shared, job, file, seen, bup, mapped, want, aux>>

\* A reader of a file that has not been initialised starts over.
CheckSize(p) ==
    /\ pc[p] = "size"
    /\ IF mon.size = "ok"
         THEN Goto(p, "map") /\ UNCHANGED openLock
         ELSE Goto(p, "open") /\ openLock' = [openLock EXCEPT ![p] = "none"]
    /\ UNCHANGED <<shared, job, file, seen, bup, mapped, want, aux>>

\* Mutant: the lock is not changed to one for reading.
InitializeMonitor_KeepsLock(p) ==
    /\ pc[p] = "init"
    /\ mon' = [size |-> "ok", val |-> [None EXCEPT !.inodeVal = seen[p]]]
    /\ Goto(p, "map")
    /\ UNCHANGED <<readers, inode, files, unArea, openLock, job, file, seen, bup, mapped, want, aux>>

\* The writer sets the counters to zero and keeps a lock for reading.
InitializeMonitor(p) ==
    /\ pc[p] = "init"
    /\ mon' = [size |-> "ok", val |-> [None EXCEPT !.inodeVal = seen[p]]]
    /\ openLock' = [openLock EXCEPT ![p] = "read"]
    /\ Goto(p, "map")
    /\ UNCHANGED <<readers, inode, files, unArea, job, file, seen, bup, mapped, want, aux>>

\* The monitor file is mapped and the area counter copied; a process that
\* attaches copies what is known of the inode too (CheckInode).
ReadCounters(p) ==
    /\ pc[p] = "map"
    /\ IF job[p] = "attach"
         THEN bup' = [bup EXCEPT ![p] = mon.val] /\ Goto(p, "inode")
         ELSE bup' = [bup EXCEPT ![p].areaCnt = mon.val.areaCnt] /\ Goto(p, "zero")
    /\ behind' = [behind EXCEPT ![p] = 0]
    /\ seen' = [seen EXCEPT ![p] = 0]
    /\ UNCHANGED <<shared, openLock, job, file, mapped, want, missed>>

\* UpdateInode: the inode under the name goes into the monitor file.
UpdateInode(p) ==
    LET val == IF mon.val.inodeVal = inode
                 THEN mon.val
                 ELSE [mon.val EXCEPT !.inodeCnt = (@ + 1) % CounterMod, !.inodeVal = inode]
    IN /\ mon' = [mon EXCEPT !.val = val]
       /\ bup' = [bup EXCEPT ![p].inodeCnt = val.inodeCnt, ![p].inodeVal = val.inodeVal]

UpdateInodeOnOpen(p) ==
    /\ pc[p] = "inode"
    /\ UpdateInode(p)
    /\ Goto(p, "build")
    /\ UNCHANGED <<readers, inode, files, unArea, openLock, job, file, seen, mapped, want, aux>>

\* Clean, or what the system does with the locks of a process that has died.
Leave(p) ==
    /\ openLock' = [openLock EXCEPT ![p] = "none"]
    /\ unArea' = [i \in Inodes |-> IF unArea[i] = p THEN NoProc ELSE unArea[i]]
    /\ bup' = [bup EXCEPT ![p] = None]
    /\ mapped' = [mapped EXCEPT ![p] = {}]
    /\ want' = [want EXCEPT ![p] = 0]
    /\ behind' = [behind EXCEPT ![p] = 0]
    /\ job' = [job EXCEPT ![p] = "attach"]
    /\ seen' = [seen EXCEPT ![p] = 0]
    /\ UNCHANGED <<readers, inode, files, mon, missed>>

End(p) == Leave(p) /\ Goto(p, "off") /\ file' = [file EXCEPT ![p] = 0]

\* BuildMmapInfo maps all areas, of a file in which the version is written.
BuildMmapInfo(p) ==
    /\ pc[p] = "build"
    /\ unArea[file[p]] = NoProc
    /\ files[file[p]].step \in {"head", "ready"}
    /\ mapped' = [mapped EXCEPT ![p] = 1 .. files[file[p]].areas]
    /\ Goto(p, "idle")
    /\ UNCHANGED <<shared, openLock, job, file, seen, bup, want, aux>>

WrongVersion(p) ==
    /\ pc[p] = "build"
    /\ files[file[p]].step \notin {"head", "ready"}
    /\ End(p)

-----------------------------------------------------------------------------
\* InitializeFile, once the monitor file is open: zeros, the version, the rest

ZeroFile(p) ==
    /\ pc[p] = "zero"
    /\ files' = [files EXCEPT ![file[p]].step = "zero"]
    /\ Goto(p, "head")
    /\ UNCHANGED <<readers, inode, unArea, mon, openLock, job, file, seen, bup, mapped, want, aux>>

WriteVersion(p) ==
    /\ pc[p] = "head"
    /\ files' = [files EXCEPT ![file[p]].step = "head"]
    /\ Goto(p, "fill")
    /\ UNCHANGED <<readers, inode, unArea, mon, openLock, job, file, seen, bup, mapped, want, aux>>

FillFile(p) ==
    /\ pc[p] = "fill"
    /\ files' = [files EXCEPT ![file[p]].areas = 1, ![file[p]].used = {1}]
    /\ mapped' = [mapped EXCEPT ![p] = {1}]
    /\ Goto(p, "tell")
    /\ UNCHANGED <<readers, inode, unArea, mon, openLock, job, file, seen, bup, want, aux>>

\* Mutant: the others are not told.
TellInode_Not(p) ==
    /\ pc[p] = "tell"
    /\ files' = [files EXCEPT ![file[p]].step = "ready"]
    /\ Goto(p, "tellArea")
    /\ UNCHANGED <<readers, inode, unArea, mon, openLock, job, file, seen, bup, mapped, want, aux>>

\* The file is ready and is announced.
TellInode(p) ==
    /\ pc[p] = "tell"
    /\ UpdateInode(p)
    /\ files' = [files EXCEPT ![file[p]].step = "ready"]
    /\ Goto(p, "tellArea")
    /\ UNCHANGED <<readers, inode, unArea, openLock, job, file, seen, mapped, want, aux>>

\* UpdateArea: one more change, which the process itself need not look for.
UpdateArea(p) ==
    LET cnt == (mon.val.areaCnt + 1) % CounterMod
    IN /\ mon' = [mon EXCEPT !.val.areaCnt = cnt]
       /\ bup' = [bup EXCEPT ![p].areaCnt = cnt]
       /\ behind' = [q \in Procs |->
                       IF q = p /\ (~SameArea(p) \/ behind[p] < CounterMod) THEN 0
                       ELSE IF behind[q] < CounterMod THEN behind[q] + 1 ELSE CounterMod]

TellArea(p) ==
    /\ pc[p] = "tellArea"
    /\ UpdateArea(p)
    /\ job' = [job EXCEPT ![p] = "attach"]
    /\ Goto(p, "idle")
    /\ UNCHANGED <<readers, inode, files, unArea, openLock, file, seen, mapped, want, missed>>

-----------------------------------------------------------------------------
\* Work on the file

\* CheckFileUpdate, with which operations begin, finds another file under the
\* name: all is given up and the new file is attached.
Reload(p) ==
    /\ pc[p] = "idle"
    /\ ~SameInode(p)
    /\ file' = [file EXCEPT ![p] = inode]
    /\ Leave(p)
    /\ Goto(p, "open")

\* CheckArea copies a counter that has changed, and all areas are to be mapped.
CopyAreaCount(p) ==
    /\ p \notin readers
    /\ ~SameArea(p)
    /\ bup' = [bup EXCEPT ![p].areaCnt = mon.val.areaCnt]
    /\ behind' = [behind EXCEPT ![p] = 0]
    /\ Goto(p, "remap")

\* CheckFileUpdate finds more areas.
CheckAreaUpdate(p) ==
    /\ pc[p] = "idle"
    /\ SameInode(p)
    /\ CopyAreaCount(p)
    /\ UNCHANGED <<shared, openLock, job, file, seen, mapped, want, missed>>

\* An operation follows a pointer into an area that it has not mapped
\* (GetMmapAddrOffset), and looks for a change.
LookForArea(p, a) ==
    /\ pc[p] = "idle"
    /\ a \in files[file[p]].used \ mapped[p]
    /\ want' = [want EXCEPT ![p] = a]
    /\ CopyAreaCount(p)
    /\ UNCHANGED <<shared, openLock, job, file, seen, mapped, missed>>

\* It has mapped the file before its creator entered the first area, from which
\* nothing keeps a process that reloads while the next file is being made.
HalfMade(p) == 1 \notin mapped[p]

\* It finds none, and the pointer leads nowhere.
AreaIsMissing(p, a) ==
    /\ pc[p] = "idle"
    /\ a \in files[file[p]].used \ mapped[p]
    /\ p \in readers \/ SameArea(p)
    /\ missed' = IF p \notin readers /\ behind[p] < CounterMod /\ ~HalfMade(p)
                   THEN missed \cup {p} ELSE missed
    /\ UNCHANGED <<shared, openLock, pc, job, file, seen, bup, mapped, want, behind>>

\* DoAreaUpdate: everything in the array of areas is mapped, and the pointer
\* followed again.  A process that adds an area goes on to use it.
DoAreaUpdate(p) ==
    /\ pc[p] = "remap"
    /\ unArea[file[p]] = NoProc
    /\ mapped' = [mapped EXCEPT ![p] = 1 .. files[file[p]].areas]
    /\ LET known == files[file[p]].used \cup {0}
       IN IF want[p] \in known
            THEN /\ missed' = IF want[p] \in {0} \cup mapped'[p] THEN missed ELSE missed \cup {p}
                 /\ want' = [want EXCEPT ![p] = 0]
                 /\ Goto(p, "idle")
            ELSE Goto(p, "link") /\ UNCHANGED <<want, missed>>
    /\ UNCHANGED <<shared, openLock, job, file, seen, bup, behind>>

\* ExpandArea, under the lock of unassign_area: an area is added and mapped ...
AddArea(p) ==
    /\ pc[p] = "idle" /\ p \notin readers
    /\ unArea[file[p]] = NoProc
    /\ files[file[p]].areas > 0
    /\ Cardinality({ia \in Inodes \X Areas : ia[2] <= files[ia[1]].areas}) < MaxAreas
    /\ EarlyUse \/ \A q \in Procs : Creating(q) => file[q] # file[p]
    /\ LET a == files[file[p]].areas + 1
       IN /\ files' = [files EXCEPT ![file[p]].areas = a]
          /\ mapped' = [mapped EXCEPT ![p] = @ \cup {a}]
          /\ want' = [want EXCEPT ![p] = a]
    /\ unArea' = [unArea EXCEPT ![file[p]] = p]
    /\ Goto(p, "grow")
    /\ UNCHANGED <<readers, inode, mon, openLock, job, file, seen, bup, aux>>

\* Mutant: what others have added since is taken for known.
NotifyArea_NoCheck(p) ==
    /\ pc[p] = "grow"
    /\ UpdateArea(p)
    /\ unArea' = [unArea EXCEPT ![file[p]] = NoProc]
    /\ Goto(p, "link")
    /\ UNCHANGED <<readers, inode, files, openLock, job, file, seen, mapped, want, missed>>

\* ... and announced.  If others have added areas too they are to be mapped.
NotifyArea(p) ==
    /\ pc[p] = "grow"
    /\ UpdateArea(p)
    /\ unArea' = [unArea EXCEPT ![file[p]] = NoProc]
    /\ Goto(p, IF SameArea(p) THEN "link" ELSE "remap")
    /\ UNCHANGED <<readers, inode, files, openLock, job, file, seen, mapped, want, missed>>

\* Only now pointers into it get into the file.
UseArea(p) ==
    /\ pc[p] = "link"
    /\ files' = [files EXCEPT ![file[p]].used = @ \cup {want[p]}]
    /\ want' = [want EXCEPT ![p] = 0]
    /\ Goto(p, "idle")
    /\ UNCHANGED <<readers, inode, unArea, mon, openLock, job, file, seen, bup, mapped, aux>>

Detach(p) ==
    /\ pc[p] = "idle"
    /\ End(p)

\* A process may die at any step.
Die(p) ==
    /\ pc[p] \notin {"off", "idle"}
    /\ End(p)

-----------------------------------------------------------------------------

OpenStep(p) ==
    \/ OpenMonitor(p)
    \/ WriteLock(p)
    \/ NoWriteLock(p)
    \/ ReadLock(p)
    \/ CheckSize(p)
    \/ InitializeMonitor(p)
    \/ ReadCounters(p)
    \/ UpdateInodeOnOpen(p)
    \/ BuildMmapInfo(p)
    \/ WrongVersion(p)

CreateStep(p) ==
    \/ ZeroFile(p)
    \/ WriteVersion(p)
    \/ FillFile(p)
    \/ TellInode(p)
    \/ TellArea(p)

UseStep(p) ==
    \/ DoAreaUpdate(p)
    \/ NotifyArea(p)
    \/ UseArea(p)

Step(p) == OpenStep(p) \/ CreateStep(p) \/ UseStep(p)

Next ==
    \E p \in Procs :
        \/ Attach(p) \/ Create(p) \/ Detach(p) \/ Die(p)
        \/ Reload(p) \/ CheckAreaUpdate(p) \/ AddArea(p)
        \/ \E a \in Areas : LookForArea(p, a) \/ AreaIsMissing(p, a)
        \/ Step(p)

Spec == Init /\ [][Next]_vars

\* A process goes on with what it has begun.
FairSpec == Spec /\ \A p \in Procs : WF_vars(Step(p))

-----------------------------------------------------------------------------
\* Properties

\* A process at work on a file that has been replaced finds out with its next
\* operation (CheckFileUpdate), once the new file is announced.
ReplacementNoticed ==
    \A p \in Procs :
        Attached(p) /\ file[p] # inode /\ files[inode].step = "ready" => ~SameInode(p)

\* A process whose copy of the area counter is up to date, and not so by a whole
\* turn of the counter, has mapped all areas that are in use (CheckArea, UpdateArea),
\* unless it has attached a half-made file and has not remapped since.
MappingIsComplete ==
    \A p \in Procs \ readers :
        pc[p] = "idle" /\ SameArea(p) /\ behind[p] < CounterMod /\ ~HalfMade(p) =>
            files[file[p]].used \subseteq mapped[p]

\* A pointer into the file leads somewhere, wherever and whenever the area was
\* added (GetMmapAddrOffset); not so for those that only read, who do not look
\* for new areas.
AddressFound == missed = {}

\* What is in the file is found, whether the counter or a pointer tells of it.
AreasFound ==
    /\ MappingIsComplete
    /\ AddressFound

\* While a process has the monitor file open nobody sets its counters back.
CountersKept ==
    [][\A p \in Procs :
          /\ pc[p] \in {"inode", "build"} \cup CreateSteps \cup UseSteps
          /\ pc'[p] \in {"inode", "build"} \cup CreateSteps \cup UseSteps
          => /\ mon'.val.areaCnt \in {mon.val.areaCnt, (mon.val.areaCnt + 1) % CounterMod}
             /\ mon'.val.inodeCnt # mon.val.inodeCnt <=> mon'.val.inodeVal # mon.val.inodeVal]_vars

\* Opening the monitor file ends, whoever initialises it meanwhile or dies over
\* it, if others do not come for ever, and if processes that keep each other
\* from a file without contents with their locks for reading do not do so for ever
\* (InitializeFileMonitor, which has no bound on its loop).
OthersComeAgain(p) ==
    \E q \in Procs \ {p} : pc[q] = "off" /\ pc'[q] = "open"

OpenReturns ==
    \A p \in Procs :
        \/ [](Opening(p) => <>(~Opening(p) \/ [](mon.size # "ok")))
        \/ []<><<OthersComeAgain(p)>>_vars
=============================================================================
