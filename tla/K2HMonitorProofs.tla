-------------------------- MODULE K2HMonitorProofs --------------------------
(***************************************************************************)
(* Proofs about K2HMonitor, for any number of processes and of files.       *)
(*                                                                          *)
(* Each step of a process says what it has locked, which file it has open   *)
(* and what it has copied from the monitor file (StepOf); that the file is  *)
(* announced once it is ready follows.  The area counter is as far ahead of *)
(* a process's copy as `behind' says, and a process that is not behind has  *)
(* mapped all areas that are in use or about to be (Knows).                 *)
(***************************************************************************)
EXTENDS K2HMonitor, FiniteSetTheorems, TLAPS

-----------------------------------------------------------------------------
\* Types, and what each step of a process means

FileType ==
    /\ readers \subseteq Procs
    /\ inode \in Inodes
    /\ files \in [Inodes -> [step : {"none", "empty", "zero", "head", "ready"},
                             areas : 0 .. MaxAreas, used : SUBSET Areas]]
    /\ \A i \in Inodes : files[i].used \subseteq 1 .. files[i].areas
    /\ unArea \in [Inodes -> Procs \cup {NoProc}]
LockType ==
    /\ mon \in [size : {"none", "empty", "ok"}, val : Values]
    /\ openLock \in [Procs -> {"none", "read", "write"}]
    /\ \A p, q \in Procs : openLock[p] = "write" /\ p # q => openLock[q] = "none"
StepType ==
    /\ pc \in [Procs -> {"off"} \cup OpenSteps \cup CreateSteps \cup UseSteps]
    /\ job \in [Procs -> {"attach", "create"}]
    /\ file \in [Procs -> Inodes]
    /\ seen \in [Procs -> Inodes]
CopyType ==
    /\ bup \in [Procs -> Values]
    /\ mapped \in [Procs -> SUBSET Areas]
    /\ want \in [Procs -> 0 .. MaxAreas]
    /\ behind \in [Procs -> 0 .. CounterMod]
    /\ missed \subseteq Procs

LEMMA TypeParts ==
    /\ TypeOK <=> FileType /\ LockType /\ StepType /\ CopyType
    /\ TypeOK' <=> (FileType /\ LockType /\ StepType /\ CopyType)'
  BY DEF TypeOK, FileType, LockType, StepType, CopyType

\* From when on a process has the monitor file mapped, and has copied its values.
Knowing == {"inode", "build"} \cup CreateSteps \cup UseSteps

StepOf(p) ==
    /\ pc[p] \in {"off", "open", "created", "opened", "tryRead"} => openLock[p] = "none"
    /\ pc[p] = "init" => openLock[p] = "write"
    /\ pc[p] \in {"size", "map"} \cup Knowing => openLock[p] = "read"
    /\ pc[p] \in {"map"} \cup Knowing => mon.size = "ok"
    /\ pc[p] \in {"created", "opened", "tryRead", "size", "init"} => seen[p] = inode
    /\ file[p] <= inode
    /\ Opening(p) \/ Creating(p) => file[p] = inode
    /\ pc[p] \in CreateSteps => job[p] = "create"
    /\ pc[p] \in {"off", "inode", "build"} \cup UseSteps => job[p] = "attach"
    /\ pc[p] \in {"build", "tellArea"} \cup UseSteps => bup[p].inodeVal = file[p]

\* What it has mapped, and is looking for, is in the file.
AreaOf(p) ==
    /\ pc[p] \in {"off"} \cup OpenSteps \cup {"zero", "head", "fill"} => mapped[p] = {}
    /\ pc[p] \notin {"grow", "remap", "link"} => want[p] = 0
    /\ pc[p] \in {"grow", "link"} => want[p] # 0
    /\ pc[p] = "grow" => want[p] \in mapped[p]
    /\ mapped[p] \subseteq 1 .. files[file[p]].areas
    /\ want[p] <= files[file[p]].areas

\* The file that is made has no areas before FillFile, and nobody else makes one.
NewFile ==
    /\ \A p, q \in Procs : Creating(p) /\ Creating(q) => p = q
    /\ \A p \in Procs : Creating(p) /\ pc[p] \notin {"tell", "tellArea"} =>
           files[file[p]].areas = 0
    /\ \A i \in Inodes : i > inode => files[i].areas = 0

\* A file that is ready has been announced.
Announced == files[inode].step = "ready" /\ mon.size = "ok" => mon.val.inodeVal = inode

NamesInv ==
    /\ TypeOK
    /\ \A p \in Procs : StepOf(p)
    /\ \A p \in Procs : AreaOf(p)
    /\ NewFile
    /\ Announced

-----------------------------------------------------------------------------
\* One process moves

\* The others stay where they are.
Others(p) ==
    \A q \in Procs : q # p =>
        /\ pc'[q] = pc[q] /\ job'[q] = job[q] /\ file'[q] = file[q] /\ seen'[q] = seen[q]
        /\ openLock'[q] = openLock[q] /\ bup'[q] = bup[q]
        /\ mapped'[q] = mapped[q] /\ want'[q] = want[q]

\* What the others' steps mean is still so.
LEMMA OthersKept ==
    ASSUME NamesInv, NEW p \in Procs, Others(p),
           inode' = inode, mon.size = "ok" => mon'.size = "ok",
           \A i \in Inodes : files[i].areas <= files'[i].areas,
           StepOf(p)', AreaOf(p)', TypeOK'
    PROVE  \A q \in Procs : StepOf(q)' /\ AreaOf(q)'
  <1>1. ASSUME NEW q \in Procs, q # p PROVE StepOf(q)' /\ AreaOf(q)'
    <2>1. /\ pc'[q] = pc[q] /\ job'[q] = job[q] /\ file'[q] = file[q] /\ seen'[q] = seen[q]
          /\ openLock'[q] = openLock[q] /\ bup'[q] = bup[q]
          /\ mapped'[q] = mapped[q] /\ want'[q] = want[q]
      BY <1>1 DEF Others
    <2>2. StepOf(q) /\ AreaOf(q)
      BY DEF NamesInv
    <2>3. StepOf(q)'
      BY <2>1, <2>2 DEF StepOf, Opening, Creating
    <2>4. AreaOf(q)'
      <3>1. /\ file[q] \in Inodes /\ want[q] \in Nat
            /\ files[file[q]].areas \in Nat /\ files'[file[q]].areas \in Nat
            /\ files[file[q]].areas <= files'[file[q]].areas
        BY MonitorAssumption, <2>1 DEF NamesInv, TypeOK
      <3>2. mapped[q] \subseteq 1 .. files'[file[q]].areas /\ want[q] <= files'[file[q]].areas
        BY <2>2, <3>1 DEF AreaOf
      <3> QED
        BY <2>1, <2>2, <3>2 DEF AreaOf
    <2> QED
      BY <2>3, <2>4
  <1> QED
    BY <1>1

LEMMA FilesKept ==
    ASSUME NamesInv, NEW p \in Procs, Others(p), inode' = inode,
           \A i \in Inodes : files[i].areas = 0 => files'[i].areas = 0,
           Creating(p)' => /\ Creating(p) /\ file'[p] = file[p]
                           /\ pc[p] \in {"tell", "tellArea"} => pc'[p] \in {"tell", "tellArea"}
    PROVE  NewFile'
  <1>1. \A q \in Procs : Creating(q)' =>
           /\ Creating(q) /\ file'[q] = file[q]
           /\ pc[q] \in {"tell", "tellArea"} => pc'[q] \in {"tell", "tellArea"}
    BY DEF Others, Creating
  <1>2. \A q \in Procs : file[q] \in Inodes
    BY DEF NamesInv, TypeOK
  <1> QED
    BY <1>1, <1>2 DEF NamesInv, NewFile

LEMMA AnnouncedKept ==
    ASSUME Announced, inode' = inode,
           files'[inode].step = "ready" => files[inode].step = "ready",
           mon'.size = "ok" => mon.size = "ok" /\ mon'.val.inodeVal = mon.val.inodeVal
    PROVE  Announced'
  BY DEF Announced

LEMMA Zeros ==
    /\ 0 \in Inodes /\ 0 \in Counter /\ 0 \in 0 .. MaxAreas /\ 0 \in 0 .. CounterMod
    /\ CounterMod \in 0 .. CounterMod /\ CounterMod \in Nat
    /\ \A n \in Nat : (n + 1) % CounterMod \in Counter
    /\ Inodes \subseteq Nat /\ Inodes \subseteq 0 .. MaxCreates + 1
    /\ None \in Values /\ {} \in SUBSET Areas
    /\ None.areaCnt = 0 /\ None.inodeVal \notin Inodes
    /\ 0 .. MaxAreas \subseteq Nat
  BY MonitorAssumption DEF Inodes, Counter, None, Values

\* The counters in the monitor file, and in a copy, are numbers.
LEMMA ValueParts ==
    ASSUME NEW v \in Values
    PROVE  /\ v.inodeCnt \in Counter /\ v.areaCnt \in Counter
           /\ v.inodeCnt \in Nat /\ v.areaCnt \in Nat
  BY Zeros DEF Values, Counter

-----------------------------------------------------------------------------
\* Names and locks, step by step

\* What the operations that several steps make do to the monitor file and the copies.
LEMMA InodeUpdated ==
    ASSUME TypeOK, NEW p \in Procs, UpdateInode(p)
    PROVE  /\ mon' \in [size : {"none", "empty", "ok"}, val : Values]
           /\ mon'.size = mon.size /\ mon'.val.inodeVal = inode
           /\ mon'.val.areaCnt = mon.val.areaCnt
           /\ bup' \in [Procs -> Values]
           /\ bup'[p].inodeVal = inode /\ bup'[p].areaCnt = bup[p].areaCnt
           /\ \A q \in Procs : q # p => bup'[q] = bup[q]
  <1>1. /\ bup \in [Procs -> Values] /\ bup[p] \in Values /\ inode \in Inodes
        /\ mon \in [size : {"none", "empty", "ok"}, val : Values] /\ mon.val \in Values
    BY DEF TypeOK
  <1>2. (mon.val.inodeCnt + 1) % CounterMod \in Counter
    BY <1>1, Zeros, ValueParts
  <1> DEFINE new == [mon.val EXCEPT !.inodeCnt = (@ + 1) % CounterMod, !.inodeVal = inode]
  <1>3. new \in Values /\ new.inodeVal = inode /\ new.areaCnt = mon.val.areaCnt
    <2>1. new = [mon.val EXCEPT !.inodeCnt = (mon.val.inodeCnt + 1) % CounterMod, !.inodeVal = inode]
      BY <1>1 DEF Values
    <2> QED
      BY <1>1, <1>2, <2>1, Zeros DEF Values
  <1> DEFINE v == IF mon.val.inodeVal = inode THEN mon.val ELSE new
  <1>4. v \in Values /\ v.inodeVal = inode /\ v.areaCnt = mon.val.areaCnt /\ v.inodeCnt \in Counter
    BY <1>1, <1>3 DEF Values
  <1>5. /\ mon' = [mon EXCEPT !.val = v]
        /\ bup' = [bup EXCEPT ![p].inodeCnt = v.inodeCnt, ![p].inodeVal = v.inodeVal]
    BY DEF UpdateInode
  <1> HIDE DEF new, v
  <1>6. bup' = [bup EXCEPT ![p] = [bup[p] EXCEPT !.inodeCnt = v.inodeCnt, !.inodeVal = v.inodeVal]]
    BY <1>1, <1>5
  <1>7. /\ [bup[p] EXCEPT !.inodeCnt = v.inodeCnt, !.inodeVal = v.inodeVal] \in Values
        /\ [bup[p] EXCEPT !.inodeCnt = v.inodeCnt, !.inodeVal = v.inodeVal].inodeVal = inode
        /\ [bup[p] EXCEPT !.inodeCnt = v.inodeCnt, !.inodeVal = v.inodeVal].areaCnt = bup[p].areaCnt
    BY <1>1, <1>4, Zeros DEF Values
  <1> QED
    BY <1>1, <1>4, <1>5, <1>6, <1>7

LEMMA AreaUpdated ==
    ASSUME TypeOK, NEW p \in Procs, UpdateArea(p)
    PROVE  /\ mon' \in [size : {"none", "empty", "ok"}, val : Values]
           /\ mon'.size = mon.size /\ mon'.val.inodeVal = mon.val.inodeVal
           /\ mon'.val.areaCnt = (mon.val.areaCnt + 1) % CounterMod
           /\ bup' \in [Procs -> Values]
           /\ bup'[p].inodeVal = bup[p].inodeVal /\ bup'[p].areaCnt = mon'.val.areaCnt
           /\ \A q \in Procs : q # p => bup'[q] = bup[q]
           /\ behind' \in [Procs -> 0 .. CounterMod]
  <1>1. /\ bup \in [Procs -> Values] /\ bup[p] \in Values
        /\ mon \in [size : {"none", "empty", "ok"}, val : Values] /\ mon.val \in Values
        /\ behind \in [Procs -> 0 .. CounterMod]
    BY DEF TypeOK
  <1> DEFINE cnt == (mon.val.areaCnt + 1) % CounterMod
  <1>2. cnt \in Counter
    BY <1>1, Zeros, ValueParts
  <1>3. /\ mon' = [mon EXCEPT !.val.areaCnt = cnt]
        /\ bup' = [bup EXCEPT ![p].areaCnt = cnt]
    BY DEF UpdateArea
  <1>4. behind' \in [Procs -> 0 .. CounterMod]
    BY <1>1, MonitorAssumption DEF UpdateArea
  <1> HIDE DEF cnt
  <1>5. /\ mon' = [mon EXCEPT !.val = [mon.val EXCEPT !.areaCnt = cnt]]
        /\ bup' = [bup EXCEPT ![p] = [bup[p] EXCEPT !.areaCnt = cnt]]
    BY <1>1, <1>3
  <1>6. /\ [mon.val EXCEPT !.areaCnt = cnt] \in Values
        /\ [bup[p] EXCEPT !.areaCnt = cnt] \in Values
        /\ [mon.val EXCEPT !.areaCnt = cnt].inodeVal = mon.val.inodeVal
        /\ [mon.val EXCEPT !.areaCnt = cnt].areaCnt = cnt
        /\ [bup[p] EXCEPT !.areaCnt = cnt].inodeVal = bup[p].inodeVal
        /\ [bup[p] EXCEPT !.areaCnt = cnt].areaCnt = cnt
    BY <1>1, <1>2 DEF Values
  <1> QED
    BY <1>1, <1>4, <1>5, <1>6 DEF cnt

LEMMA AreaCopied ==
    ASSUME TypeOK, NEW p \in Procs, CopyAreaCount(p)
    PROVE  /\ bup' \in [Procs -> Values]
           /\ bup'[p].inodeVal = bup[p].inodeVal /\ bup'[p].areaCnt = mon.val.areaCnt
           /\ \A q \in Procs : q # p => bup'[q] = bup[q]
           /\ behind' \in [Procs -> 0 .. CounterMod]
           /\ pc' = [pc EXCEPT ![p] = "remap"]
  <1>1. /\ bup \in [Procs -> Values] /\ bup[p] \in Values /\ mon.val \in Values
        /\ behind \in [Procs -> 0 .. CounterMod]
    BY DEF TypeOK
  <1>2. /\ bup' = [bup EXCEPT ![p] = [bup[p] EXCEPT !.areaCnt = mon.val.areaCnt]]
        /\ [bup[p] EXCEPT !.areaCnt = mon.val.areaCnt] \in Values
        /\ [bup[p] EXCEPT !.areaCnt = mon.val.areaCnt].inodeVal = bup[p].inodeVal
        /\ [bup[p] EXCEPT !.areaCnt = mon.val.areaCnt].areaCnt = mon.val.areaCnt
    BY <1>1 DEF CopyAreaCount, Values
  <1> QED
    BY <1>1, <1>2, Zeros DEF CopyAreaCount, Goto

LEMMA HasLeft ==
    ASSUME TypeOK, NEW p \in Procs, Leave(p)
    PROVE  /\ openLock' \in [Procs -> {"none", "read", "write"}]
           /\ unArea' \in [Inodes -> Procs \cup {NoProc}]
           /\ bup' \in [Procs -> Values] /\ mapped' \in [Procs -> SUBSET Areas]
           /\ want' \in [Procs -> 0 .. MaxAreas] /\ behind' \in [Procs -> 0 .. CounterMod]
           /\ job' \in [Procs -> {"attach", "create"}] /\ seen' \in [Procs -> Inodes]
           /\ UNCHANGED <<readers, inode, files, mon, missed>>
           /\ openLock'[p] = "none" /\ bup'[p] = None /\ mapped'[p] = {} /\ want'[p] = 0
           /\ job'[p] = "attach" /\ seen'[p] = 0 /\ behind'[p] = 0
           /\ \A q \in Procs : q # p =>
                 /\ job'[q] = job[q] /\ seen'[q] = seen[q] /\ openLock'[q] = openLock[q]
                 /\ bup'[q] = bup[q] /\ mapped'[q] = mapped[q] /\ want'[q] = want[q]
                 /\ behind'[q] = behind[q]
  <1>1. /\ openLock' \in [Procs -> {"none", "read", "write"}]
        /\ unArea' \in [Inodes -> Procs \cup {NoProc}]
        /\ job' \in [Procs -> {"attach", "create"}] /\ seen' \in [Procs -> Inodes]
        /\ openLock'[p] = "none" /\ job'[p] = "attach" /\ seen'[p] = 0
        /\ \A q \in Procs : q # p =>
              job'[q] = job[q] /\ seen'[q] = seen[q] /\ openLock'[q] = openLock[q]
    BY Zeros DEF TypeOK, Leave
  <1>2. /\ bup' \in [Procs -> Values] /\ mapped' \in [Procs -> SUBSET Areas]
        /\ want' \in [Procs -> 0 .. MaxAreas] /\ behind' \in [Procs -> 0 .. CounterMod]
        /\ bup'[p] = None /\ mapped'[p] = {} /\ want'[p] = 0 /\ behind'[p] = 0
        /\ \A q \in Procs : q # p =>
              /\ bup'[q] = bup[q] /\ mapped'[q] = mapped[q] /\ want'[q] = want[q]
              /\ behind'[q] = behind[q]
    BY Zeros DEF TypeOK, Leave
  <1> QED
    BY <1>1, <1>2 DEF Leave

\* A file's entry is replaced by another one.
LEMMA FileTypeKept ==
    ASSUME FileType, NEW f \in Inodes,
           NEW new \in [step : {"none", "empty", "zero", "head", "ready"},
                        areas : 0 .. MaxAreas, used : SUBSET Areas],
           new.used \subseteq 1 .. new.areas, files' = [files EXCEPT ![f] = new],
           UNCHANGED <<readers, inode>>, unArea' \in [Inodes -> Procs \cup {NoProc}]
    PROVE  FileType'
  BY DEF FileType

\* The bound on all files' areas leaves room for one more in each.
LEMMA RoomForArea ==
    ASSUME FileType, NEW i \in Inodes,
           Cardinality({ia \in Inodes \X Areas : ia[2] <= files[ia[1]].areas}) < MaxAreas
    PROVE  files[i].areas + 1 \in 1 .. MaxAreas
  <1> USE MonitorAssumption
  <1> DEFINE all == {ia \in Inodes \X Areas : ia[2] <= files[ia[1]].areas}
  <1>1. files[i].areas \in 0 .. MaxAreas
    BY DEF FileType
  <1>2. SUFFICES ASSUME files[i].areas = MaxAreas PROVE FALSE
    BY <1>1
  <1>3. IsFiniteSet(Inodes \X Areas)
    <2>1. 0 \in Int /\ 1 \in Int /\ MaxCreates \in Int /\ MaxAreas \in Int
      OBVIOUS
    <2>2. IsFiniteSet(Inodes) /\ IsFiniteSet(Areas)
      BY <2>1, FS_Interval DEF Inodes, Areas
    <2> QED
      BY <2>2, FS_Product
  <1>4. IsFiniteSet(all)
    BY <1>3, FS_Subset
  <1>5. IsFiniteSet({i} \X Areas) /\ Cardinality({i} \X Areas) = MaxAreas
    <2>1. IsFiniteSet({i}) /\ Cardinality({i}) = 1
      BY FS_Singleton
    <2>2. IsFiniteSet(Areas) /\ Cardinality(Areas) = MaxAreas
      BY FS_Interval DEF Areas
    <2> QED
      BY <2>1, <2>2, FS_Product
  <1>6. {i} \X Areas \subseteq all
    BY <1>2 DEF Areas
  <1> QED
    <2>1. Cardinality({i} \X Areas) <= Cardinality(all)
      BY <1>4, <1>6, FS_Subset
    <2>2. Cardinality(all) \in Nat
      BY <1>4, FS_CardinalityType
    <2> QED
      BY <1>5, <2>1, <2>2

LEMMA AttachNames ==
    ASSUME NamesInv, NEW p \in Procs, Attach(p)
    PROVE  NamesInv' /\ Others(p)
  <1> USE MonitorAssumption DEF Attach, Goto, shared, aux
  <1>1. TypeOK /\ StepOf(p) /\ AreaOf(p) /\ NewFile /\ Announced
    BY DEF NamesInv
  <1>0. FileType /\ LockType /\ StepType /\ CopyType
    BY <1>1, TypeParts
  <1>2. FileType'
    BY <1>0 DEF FileType, StepType
  <1>3. LockType'
    BY <1>0, <1>1 DEF LockType, StepType, StepOf
  <1>4. StepType'
    BY <1>0, Zeros DEF FileType, StepType, OpenSteps, CreateSteps, UseSteps
  <1>5. CopyType'
    BY <1>0, Zeros DEF CopyType, FileType, LockType, StepType
  <1>6. TypeOK'
    BY <1>2, <1>3, <1>4, <1>5, TypeParts
  <1>7. Others(p)
    BY <1>0 DEF Others, StepType, LockType, CopyType
  <1>8. /\ pc[p] = "off" /\ pc'[p] = "open"
        /\ job'[p] = "attach" /\ file'[p] = inode /\ seen'[p] = seen[p] /\ openLock'[p] = openLock[p]
        /\ bup'[p] = bup[p] /\ mapped'[p] = mapped[p] /\ want'[p] = want[p]
    BY <1>0 DEF StepType, LockType, CopyType, FileType
  <1>9. StepOf(p)'
    BY <1>0, <1>1, <1>8, Zeros DEF StepOf, Opening, Creating, Knowing, OpenSteps, CreateSteps, UseSteps, LockType, FileType, Inodes, StepType
  <1>10. AreaOf(p)'
    <2>1. file'[p] \in Inodes /\ files'[file'[p]].areas \in Nat
      BY <1>2, <1>4 DEF FileType, StepType
    <2>2. mapped[p] = {} /\ want[p] = 0
      BY <1>1, <1>8 DEF AreaOf, OpenSteps, CreateSteps, UseSteps
    <2> QED
      BY <1>8, <2>1, <2>2 DEF AreaOf, OpenSteps, CreateSteps, UseSteps
  <1>11. inode' = inode /\ (mon.size = "ok" => mon'.size = "ok")
    BY <1>0 DEF LockType
  <1>12. \A i \in Inodes : files[i].areas <= files'[i].areas
    BY <1>0 DEF FileType, StepType
  <1>13. \A q \in Procs : StepOf(q)' /\ AreaOf(q)'
    BY <1>6, <1>7, <1>9, <1>10, <1>11, <1>12, OthersKept
  <1>14. NewFile'
    <2>1. /\ \A i \in Inodes : files[i].areas = 0 => files'[i].areas = 0
          /\ Creating(p)' => /\ Creating(p) /\ file'[p] = file[p]
                             /\ pc[p] \in {"tell", "tellArea"} => pc'[p] \in {"tell", "tellArea"}
      BY <1>1, <1>0 DEF FileType, StepType, Creating, StepOf, CreateSteps, UseSteps
    <2> QED
      BY <1>7, <1>11, <2>1, FilesKept
  <1>15. Announced'
    <2>1. /\ files'[inode].step = "ready" => files[inode].step = "ready"
          /\ mon'.size = "ok" => mon.size = "ok" /\ mon'.val.inodeVal = mon.val.inodeVal
      BY <1>1, <1>0 DEF FileType, LockType, Values
    <2> QED
      BY <1>1, <1>11, <2>1, AnnouncedKept
  <1> QED
    BY <1>6, <1>7, <1>13, <1>14, <1>15 DEF NamesInv

LEMMA OpenMonitorNames ==
    ASSUME NamesInv, NEW p \in Procs, OpenMonitor(p)
    PROVE  NamesInv' /\ Others(p)
  <1> USE MonitorAssumption DEF OpenMonitor, Goto, shared, aux
  <1>1. TypeOK /\ StepOf(p) /\ AreaOf(p) /\ NewFile /\ Announced
    BY DEF NamesInv
  <1>0. FileType /\ LockType /\ StepType /\ CopyType
    BY <1>1, TypeParts
  <1>2. FileType'
    BY <1>0 DEF FileType, StepType
  <1>3. LockType'
    BY <1>0, <1>1 DEF LockType, StepType, StepOf
  <1>4. StepType'
    <2>1. /\ pc' \in [Procs -> {"off"} \cup OpenSteps \cup CreateSteps \cup UseSteps]
          /\ UNCHANGED <<job, file>>
      BY <1>0 DEF StepType, OpenSteps, CreateSteps
    <2>2. seen' \in [Procs -> Inodes]
      BY <1>0, Zeros DEF StepType, FileType
    <2> QED
      BY <1>0, <2>1, <2>2 DEF StepType
  <1>5. CopyType'
    BY <1>0, Zeros DEF CopyType, FileType, LockType, StepType
  <1>6. TypeOK'
    BY <1>2, <1>3, <1>4, <1>5, TypeParts
  <1>7. Others(p)
    BY <1>0 DEF Others, StepType, LockType, CopyType
  <1>8. /\ pc[p] = "open" /\ pc'[p] \in {"created", "opened"}
        /\ job'[p] = job[p] /\ file'[p] = file[p] /\ seen'[p] = inode /\ openLock'[p] = openLock[p]
        /\ bup'[p] = bup[p] /\ mapped'[p] = mapped[p] /\ want'[p] = want[p]
    BY <1>0 DEF StepType, LockType, CopyType, FileType
  <1>9. StepOf(p)'
    BY <1>0, <1>1, <1>8, Zeros DEF StepOf, Opening, Creating, Knowing, OpenSteps, CreateSteps, UseSteps, LockType, FileType, Inodes, StepType
  <1>10. AreaOf(p)'
    BY <1>0, <1>1, <1>8 DEF AreaOf, OpenSteps, CreateSteps, UseSteps, FileType, StepType
  <1>11. inode' = inode /\ (mon.size = "ok" => mon'.size = "ok")
    BY <1>0 DEF LockType
  <1>12. \A i \in Inodes : files[i].areas <= files'[i].areas
    BY <1>0 DEF FileType, StepType
  <1>13. \A q \in Procs : StepOf(q)' /\ AreaOf(q)'
    BY <1>6, <1>7, <1>9, <1>10, <1>11, <1>12, OthersKept
  <1>14. NewFile'
    <2>1. /\ \A i \in Inodes : files[i].areas = 0 => files'[i].areas = 0
          /\ Creating(p)' => /\ Creating(p) /\ file'[p] = file[p]
                             /\ pc[p] \in {"tell", "tellArea"} => pc'[p] \in {"tell", "tellArea"}
      BY <1>1, <1>0 DEF FileType, StepType, Creating, StepOf, CreateSteps, UseSteps
    <2> QED
      BY <1>7, <1>11, <2>1, FilesKept
  <1>15. Announced'
    <2>1. /\ files'[inode].step = "ready" => files[inode].step = "ready"
          /\ mon'.size = "ok" => mon.size = "ok" /\ mon'.val.inodeVal = mon.val.inodeVal
      BY <1>1, <1>0 DEF FileType, LockType, Values
    <2> QED
      BY <1>1, <1>11, <2>1, AnnouncedKept
  <1> QED
    BY <1>6, <1>7, <1>13, <1>14, <1>15 DEF NamesInv

LEMMA WriteLockNames ==
    ASSUME NamesInv, NEW p \in Procs, WriteLock(p)
    PROVE  NamesInv' /\ Others(p)
  <1> USE MonitorAssumption DEF WriteLock, Goto, shared, aux
  <1>1. TypeOK /\ StepOf(p) /\ AreaOf(p) /\ NewFile /\ Announced
    BY DEF NamesInv
  <1>0. FileType /\ LockType /\ StepType /\ CopyType
    BY <1>1, TypeParts
  <1>2. FileType'
    BY <1>0 DEF FileType, StepType
  <1>3. LockType'
    BY <1>0, <1>1 DEF LockType, StepType, StepOf
  <1>4. StepType'
    BY <1>0, Zeros DEF FileType, StepType, OpenSteps, CreateSteps, UseSteps
  <1>5. CopyType'
    BY <1>0, Zeros DEF CopyType, FileType, LockType, StepType
  <1>6. TypeOK'
    BY <1>2, <1>3, <1>4, <1>5, TypeParts
  <1>7. Others(p)
    BY <1>0 DEF Others, StepType, LockType, CopyType
  <1>8. /\ pc[p] \in {"created", "opened"} /\ pc'[p] = "init"
        /\ job'[p] = job[p] /\ file'[p] = file[p] /\ seen'[p] = seen[p] /\ openLock'[p] = "write"
        /\ bup'[p] = bup[p] /\ mapped'[p] = mapped[p] /\ want'[p] = want[p]
    BY <1>0 DEF StepType, LockType, CopyType, FileType
  <1>9. StepOf(p)'
    BY <1>0, <1>1, <1>8, Zeros DEF StepOf, Opening, Creating, Knowing, OpenSteps, CreateSteps, UseSteps, LockType, FileType, Inodes, StepType
  <1>10. AreaOf(p)'
    BY <1>0, <1>1, <1>8 DEF AreaOf, OpenSteps, CreateSteps, UseSteps, FileType, StepType
  <1>11. inode' = inode /\ (mon.size = "ok" => mon'.size = "ok")
    BY <1>0 DEF LockType
  <1>12. \A i \in Inodes : files[i].areas <= files'[i].areas
    BY <1>0 DEF FileType, StepType
  <1>13. \A q \in Procs : StepOf(q)' /\ AreaOf(q)'
    BY <1>6, <1>7, <1>9, <1>10, <1>11, <1>12, OthersKept
  <1>14. NewFile'
    <2>1. /\ \A i \in Inodes : files[i].areas = 0 => files'[i].areas = 0
          /\ Creating(p)' => /\ Creating(p) /\ file'[p] = file[p]
                             /\ pc[p] \in {"tell", "tellArea"} => pc'[p] \in {"tell", "tellArea"}
      BY <1>1, <1>0 DEF FileType, StepType, Creating, StepOf, CreateSteps, UseSteps
    <2> QED
      BY <1>7, <1>11, <2>1, FilesKept
  <1>15. Announced'
    <2>1. /\ files'[inode].step = "ready" => files[inode].step = "ready"
          /\ mon'.size = "ok" => mon.size = "ok" /\ mon'.val.inodeVal = mon.val.inodeVal
      BY <1>1, <1>0 DEF FileType, LockType, Values
    <2> QED
      BY <1>1, <1>11, <2>1, AnnouncedKept
  <1> QED
    BY <1>6, <1>7, <1>13, <1>14, <1>15 DEF NamesInv

LEMMA NoWriteLockNames ==
    ASSUME NamesInv, NEW p \in Procs, NoWriteLock(p)
    PROVE  NamesInv' /\ Others(p)
  <1> USE MonitorAssumption DEF NoWriteLock, Goto, shared, aux
  <1>1. TypeOK /\ StepOf(p) /\ AreaOf(p) /\ NewFile /\ Announced
    BY DEF NamesInv
  <1>0. FileType /\ LockType /\ StepType /\ CopyType
    BY <1>1, TypeParts
  <1>2. FileType'
    BY <1>0 DEF FileType, StepType
  <1>3. LockType'
    BY <1>0, <1>1 DEF LockType, StepType, StepOf
  <1>4. StepType'
    BY <1>0, Zeros DEF FileType, StepType, OpenSteps, CreateSteps, UseSteps
  <1>5. CopyType'
    BY <1>0, Zeros DEF CopyType, FileType, LockType, StepType
  <1>6. TypeOK'
    BY <1>2, <1>3, <1>4, <1>5, TypeParts
  <1>7. Others(p)
    BY <1>0 DEF Others, StepType, LockType, CopyType
  <1>8. /\ pc[p] \in {"created", "opened"} /\ pc'[p] \in {"open", "tryRead"}
        /\ job'[p] = job[p] /\ file'[p] = file[p] /\ seen'[p] = seen[p] /\ openLock'[p] = openLock[p]
        /\ bup'[p] = bup[p] /\ mapped'[p] = mapped[p] /\ want'[p] = want[p]
    BY <1>0 DEF StepType, LockType, CopyType, FileType
  <1>9. StepOf(p)'
    BY <1>0, <1>1, <1>8, Zeros DEF StepOf, Opening, Creating, Knowing, OpenSteps, CreateSteps, UseSteps, LockType, FileType, Inodes, StepType
  <1>10. AreaOf(p)'
    BY <1>0, <1>1, <1>8 DEF AreaOf, OpenSteps, CreateSteps, UseSteps, FileType, StepType
  <1>11. inode' = inode /\ (mon.size = "ok" => mon'.size = "ok")
    BY <1>0 DEF LockType
  <1>12. \A i \in Inodes : files[i].areas <= files'[i].areas
    BY <1>0 DEF FileType, StepType
  <1>13. \A q \in Procs : StepOf(q)' /\ AreaOf(q)'
    BY <1>6, <1>7, <1>9, <1>10, <1>11, <1>12, OthersKept
  <1>14. NewFile'
    <2>1. /\ \A i \in Inodes : files[i].areas = 0 => files'[i].areas = 0
          /\ Creating(p)' => /\ Creating(p) /\ file'[p] = file[p]
                             /\ pc[p] \in {"tell", "tellArea"} => pc'[p] \in {"tell", "tellArea"}
      BY <1>1, <1>0 DEF FileType, StepType, Creating, StepOf, CreateSteps, UseSteps
    <2> QED
      BY <1>7, <1>11, <2>1, FilesKept
  <1>15. Announced'
    <2>1. /\ files'[inode].step = "ready" => files[inode].step = "ready"
          /\ mon'.size = "ok" => mon.size = "ok" /\ mon'.val.inodeVal = mon.val.inodeVal
      BY <1>1, <1>0 DEF FileType, LockType, Values
    <2> QED
      BY <1>1, <1>11, <2>1, AnnouncedKept
  <1> QED
    BY <1>6, <1>7, <1>13, <1>14, <1>15 DEF NamesInv

LEMMA ReadLockNames ==
    ASSUME NamesInv, NEW p \in Procs, ReadLock(p)
    PROVE  NamesInv' /\ Others(p)
  <1> USE MonitorAssumption DEF ReadLock, Goto, shared, aux
  <1>1. TypeOK /\ StepOf(p) /\ AreaOf(p) /\ NewFile /\ Announced
    BY DEF NamesInv
  <1>0. FileType /\ LockType /\ StepType /\ CopyType
    BY <1>1, TypeParts
  <1>2. FileType'
    BY <1>0 DEF FileType, StepType
  <1>3. LockType'
    BY <1>0, <1>1 DEF LockType, StepType, StepOf
  <1>4. StepType'
    BY <1>0, Zeros DEF FileType, StepType, OpenSteps, CreateSteps, UseSteps
  <1>5. CopyType'
    BY <1>0, Zeros DEF CopyType, FileType, LockType, StepType
  <1>6. TypeOK'
    BY <1>2, <1>3, <1>4, <1>5, TypeParts
  <1>7. Others(p)
    BY <1>0 DEF Others, StepType, LockType, CopyType
  <1>8. /\ pc[p] = "tryRead" /\ pc'[p] \in {"open", "size"}
        /\ job'[p] = job[p] /\ file'[p] = file[p] /\ seen'[p] = seen[p] /\ (IF pc'[p] = "open" THEN openLock'[p] = openLock[p] ELSE openLock'[p] = "read")
        /\ bup'[p] = bup[p] /\ mapped'[p] = mapped[p] /\ want'[p] = want[p]
    BY <1>0 DEF StepType, LockType, CopyType, FileType
  <1>9. StepOf(p)'
    BY <1>0, <1>1, <1>8, Zeros DEF StepOf, Opening, Creating, Knowing, OpenSteps, CreateSteps, UseSteps, LockType, FileType, Inodes, StepType
  <1>10. AreaOf(p)'
    BY <1>0, <1>1, <1>8 DEF AreaOf, OpenSteps, CreateSteps, UseSteps, FileType, StepType
  <1>11. inode' = inode /\ (mon.size = "ok" => mon'.size = "ok")
    BY <1>0 DEF LockType
  <1>12. \A i \in Inodes : files[i].areas <= files'[i].areas
    BY <1>0 DEF FileType, StepType
  <1>13. \A q \in Procs : StepOf(q)' /\ AreaOf(q)'
    BY <1>6, <1>7, <1>9, <1>10, <1>11, <1>12, OthersKept
  <1>14. NewFile'
    <2>1. /\ \A i \in Inodes : files[i].areas = 0 => files'[i].areas = 0
          /\ Creating(p)' => /\ Creating(p) /\ file'[p] = file[p]
                             /\ pc[p] \in {"tell", "tellArea"} => pc'[p] \in {"tell", "tellArea"}
      BY <1>1, <1>0 DEF FileType, StepType, Creating, StepOf, CreateSteps, UseSteps
    <2> QED
      BY <1>7, <1>11, <2>1, FilesKept
  <1>15. Announced'
    <2>1. /\ files'[inode].step = "ready" => files[inode].step = "ready"
          /\ mon'.size = "ok" => mon.size = "ok" /\ mon'.val.inodeVal = mon.val.inodeVal
      BY <1>1, <1>0 DEF FileType, LockType, Values
    <2> QED
      BY <1>1, <1>11, <2>1, AnnouncedKept
  <1> QED
    BY <1>6, <1>7, <1>13, <1>14, <1>15 DEF NamesInv

LEMMA CheckSizeNames ==
    ASSUME NamesInv, NEW p \in Procs, CheckSize(p)
    PROVE  NamesInv' /\ Others(p)
  <1> USE MonitorAssumption DEF CheckSize, Goto, shared, aux
  <1>1. TypeOK /\ StepOf(p) /\ AreaOf(p) /\ NewFile /\ Announced
    BY DEF NamesInv
  <1>0. FileType /\ LockType /\ StepType /\ CopyType
    BY <1>1, TypeParts
  <1>2. FileType'
    BY <1>0 DEF FileType, StepType
  <1>3. LockType'
    BY <1>0, <1>1 DEF LockType, StepType, StepOf
  <1>4. StepType'
    BY <1>0, Zeros DEF FileType, StepType, OpenSteps, CreateSteps, UseSteps
  <1>5. CopyType'
    BY <1>0, Zeros DEF CopyType, FileType, LockType, StepType
  <1>6. TypeOK'
    BY <1>2, <1>3, <1>4, <1>5, TypeParts
  <1>7. Others(p)
    BY <1>0 DEF Others, StepType, LockType, CopyType
  <1>8. /\ pc[p] = "size" /\ pc'[p] \in {"open", "map"}
        /\ job'[p] = job[p] /\ file'[p] = file[p] /\ seen'[p] = seen[p] /\ (IF pc'[p] = "open" THEN openLock'[p] = "none" ELSE openLock'[p] = openLock[p] /\ mon.size = "ok")
        /\ bup'[p] = bup[p] /\ mapped'[p] = mapped[p] /\ want'[p] = want[p]
    BY <1>0 DEF StepType, LockType, CopyType, FileType
  <1>9. StepOf(p)'
    BY <1>0, <1>1, <1>8, Zeros DEF StepOf, Opening, Creating, Knowing, OpenSteps, CreateSteps, UseSteps, LockType, FileType, Inodes, StepType
  <1>10. AreaOf(p)'
    BY <1>0, <1>1, <1>8 DEF AreaOf, OpenSteps, CreateSteps, UseSteps, FileType, StepType
  <1>11. inode' = inode /\ (mon.size = "ok" => mon'.size = "ok")
    BY <1>0 DEF LockType
  <1>12. \A i \in Inodes : files[i].areas <= files'[i].areas
    BY <1>0 DEF FileType, StepType
  <1>13. \A q \in Procs : StepOf(q)' /\ AreaOf(q)'
    BY <1>6, <1>7, <1>9, <1>10, <1>11, <1>12, OthersKept
  <1>14. NewFile'
    <2>1. /\ \A i \in Inodes : files[i].areas = 0 => files'[i].areas = 0
          /\ Creating(p)' => /\ Creating(p) /\ file'[p] = file[p]
                             /\ pc[p] \in {"tell", "tellArea"} => pc'[p] \in {"tell", "tellArea"}
      BY <1>1, <1>0 DEF FileType, StepType, Creating, StepOf, CreateSteps, UseSteps
    <2> QED
      BY <1>7, <1>11, <2>1, FilesKept
  <1>15. Announced'
    <2>1. /\ files'[inode].step = "ready" => files[inode].step = "ready"
          /\ mon'.size = "ok" => mon.size = "ok" /\ mon'.val.inodeVal = mon.val.inodeVal
      BY <1>1, <1>0 DEF FileType, LockType, Values
    <2> QED
      BY <1>1, <1>11, <2>1, AnnouncedKept
  <1> QED
    BY <1>6, <1>7, <1>13, <1>14, <1>15 DEF NamesInv

LEMMA InitializeMonitorNames ==
    ASSUME NamesInv, NEW p \in Procs, InitializeMonitor(p)
    PROVE  NamesInv' /\ Others(p)
  <1> USE MonitorAssumption DEF InitializeMonitor, Goto, shared, aux
  <1>1. TypeOK /\ StepOf(p) /\ AreaOf(p) /\ NewFile /\ Announced
    BY DEF NamesInv
  <1>0. FileType /\ LockType /\ StepType /\ CopyType
    BY <1>1, TypeParts
  <1>2. FileType'
    BY <1>0 DEF FileType, StepType
  <1>3. LockType'
    <2>1. [None EXCEPT !.inodeVal = seen[p]] \in Values
      BY <1>0, Zeros DEF StepType, None, Values
    <2>2. mon' \in [size : {"none", "empty", "ok"}, val : Values]
      BY <2>1
    <2>3. /\ openLock' \in [Procs -> {"none", "read", "write"}]
          /\ \A q, r \in Procs : openLock'[q] = "write" /\ q # r => openLock'[r] = "none"
      BY <1>0, <1>1 DEF LockType, StepOf
    <2> QED
      BY <2>2, <2>3 DEF LockType
  <1>4. StepType'
    BY <1>0, Zeros DEF FileType, StepType, OpenSteps, CreateSteps, UseSteps
  <1>5. CopyType'
    BY <1>0, Zeros DEF CopyType, FileType, LockType, StepType
  <1>6. TypeOK'
    BY <1>2, <1>3, <1>4, <1>5, TypeParts
  <1>7. Others(p)
    BY <1>0 DEF Others, StepType, LockType, CopyType
  <1>8. /\ pc[p] = "init" /\ pc'[p] = "map"
        /\ job'[p] = job[p] /\ file'[p] = file[p] /\ seen'[p] = seen[p] /\ openLock'[p] = "read"
        /\ bup'[p] = bup[p] /\ mapped'[p] = mapped[p] /\ want'[p] = want[p]
    BY <1>0 DEF StepType, LockType, CopyType, FileType
  <1>9. StepOf(p)'
    BY <1>0, <1>1, <1>8, Zeros DEF StepOf, Opening, Creating, Knowing, OpenSteps, CreateSteps, UseSteps, LockType, FileType, Inodes, StepType
  <1>10. AreaOf(p)'
    BY <1>0, <1>1, <1>8 DEF AreaOf, OpenSteps, CreateSteps, UseSteps, FileType, StepType
  <1>11. inode' = inode /\ (mon.size = "ok" => mon'.size = "ok")
    BY <1>0 DEF LockType
  <1>12. \A i \in Inodes : files[i].areas <= files'[i].areas
    BY <1>0 DEF FileType, StepType
  <1>13. \A q \in Procs : StepOf(q)' /\ AreaOf(q)'
    BY <1>6, <1>7, <1>9, <1>10, <1>11, <1>12, OthersKept
  <1>14. NewFile'
    <2>1. /\ \A i \in Inodes : files[i].areas = 0 => files'[i].areas = 0
          /\ Creating(p)' => /\ Creating(p) /\ file'[p] = file[p]
                             /\ pc[p] \in {"tell", "tellArea"} => pc'[p] \in {"tell", "tellArea"}
      BY <1>1, <1>0 DEF FileType, StepType, Creating, StepOf, CreateSteps, UseSteps
    <2> QED
      BY <1>7, <1>11, <2>1, FilesKept
  <1>15. Announced'
    BY <1>1 DEF StepOf, Announced, None
  <1> QED
    BY <1>6, <1>7, <1>13, <1>14, <1>15 DEF NamesInv

LEMMA ReadCountersNames ==
    ASSUME NamesInv, NEW p \in Procs, ReadCounters(p)
    PROVE  NamesInv' /\ Others(p)
  <1> USE MonitorAssumption DEF ReadCounters, Goto, shared, aux
  <1>1. TypeOK /\ StepOf(p) /\ AreaOf(p) /\ NewFile /\ Announced
    BY DEF NamesInv
  <1>0. FileType /\ LockType /\ StepType /\ CopyType
    BY <1>1, TypeParts
  <1>2. FileType'
    BY <1>0 DEF FileType, StepType
  <1>3. LockType'
    BY <1>0, <1>1 DEF LockType, StepType, StepOf
  <1>4. StepType'
    <2>1. /\ pc' \in [Procs -> {"off"} \cup OpenSteps \cup CreateSteps \cup UseSteps]
          /\ UNCHANGED <<job, file>>
      BY <1>0 DEF StepType, OpenSteps, CreateSteps
    <2>2. seen' \in [Procs -> Inodes]
      BY <1>0, Zeros DEF StepType, FileType
    <2> QED
      BY <1>0, <2>1, <2>2 DEF StepType
  <1>5. CopyType'
    <2>1. bup[p] \in Values /\ mon.val \in Values
      BY <1>0 DEF CopyType, LockType
    <2>2. mon.val.areaCnt \in Counter
      BY <2>1, Zeros, ValueParts
    <2>3. bup' \in [Procs -> Values]
      <3>1. CASE job[p] = "attach"
        BY <1>0, <2>1, <3>1 DEF CopyType
      <3>2. CASE job[p] # "attach"
        <4>1. bup' = [bup EXCEPT ![p] = [bup[p] EXCEPT !.areaCnt = mon.val.areaCnt]]
          BY <1>0, <3>2 DEF CopyType
        <4>2. [bup[p] EXCEPT !.areaCnt = mon.val.areaCnt] \in Values
          BY <2>1, <2>2 DEF Values
        <4> QED
          BY <1>0, <4>1, <4>2 DEF CopyType
      <3> QED
        BY <3>1, <3>2
    <2> QED
      BY <1>0, <2>3, Zeros DEF CopyType
  <1>6. TypeOK'
    BY <1>2, <1>3, <1>4, <1>5, TypeParts
  <1>7. Others(p)
    BY <1>0 DEF Others, StepType, LockType, CopyType
  <1>8. /\ pc[p] = "map" /\ pc'[p] \in {"inode", "zero"}
        /\ job'[p] = job[p] /\ file'[p] = file[p] /\ seen'[p] = 0 /\ openLock'[p] = openLock[p]
        /\ (pc'[p] = "inode" <=> job[p] = "attach") /\ mapped'[p] = mapped[p] /\ want'[p] = want[p]
    BY <1>0 DEF StepType, LockType, CopyType, FileType
  <1>9. StepOf(p)'
    BY <1>0, <1>1, <1>8, Zeros DEF StepOf, Opening, Creating, Knowing, OpenSteps, CreateSteps, UseSteps, LockType, FileType, Inodes, StepType
  <1>10. AreaOf(p)'
    BY <1>0, <1>1, <1>8 DEF AreaOf, OpenSteps, CreateSteps, UseSteps, FileType, StepType
  <1>11. inode' = inode /\ (mon.size = "ok" => mon'.size = "ok")
    BY <1>0 DEF LockType
  <1>12. \A i \in Inodes : files[i].areas <= files'[i].areas
    BY <1>0 DEF FileType, StepType
  <1>13. \A q \in Procs : StepOf(q)' /\ AreaOf(q)'
    BY <1>6, <1>7, <1>9, <1>10, <1>11, <1>12, OthersKept
  <1>14. NewFile'
    <2>1. /\ \A i \in Inodes : files[i].areas = 0 => files'[i].areas = 0
          /\ Creating(p)' => /\ Creating(p) /\ file'[p] = file[p]
                             /\ pc[p] \in {"tell", "tellArea"} => pc'[p] \in {"tell", "tellArea"}
      BY <1>1, <1>0 DEF FileType, StepType, Creating, StepOf, CreateSteps, UseSteps
    <2> QED
      BY <1>7, <1>11, <2>1, FilesKept
  <1>15. Announced'
    <2>1. /\ files'[inode].step = "ready" => files[inode].step = "ready"
          /\ mon'.size = "ok" => mon.size = "ok" /\ mon'.val.inodeVal = mon.val.inodeVal
      BY <1>1, <1>0 DEF FileType, LockType, Values
    <2> QED
      BY <1>1, <1>11, <2>1, AnnouncedKept
  <1> QED
    BY <1>6, <1>7, <1>13, <1>14, <1>15 DEF NamesInv

LEMMA UpdateInodeOnOpenNames ==
    ASSUME NamesInv, NEW p \in Procs, UpdateInodeOnOpen(p)
    PROVE  NamesInv' /\ Others(p)
  <1> USE MonitorAssumption DEF UpdateInodeOnOpen, Goto, shared, aux
  <1>1. TypeOK /\ StepOf(p) /\ AreaOf(p) /\ NewFile /\ Announced
    BY DEF NamesInv
  <1>0. FileType /\ LockType /\ StepType /\ CopyType
    BY <1>1, TypeParts
  <1>2. FileType'
    BY <1>0, <1>1, InodeUpdated DEF FileType, StepType
  <1>3. LockType'
    BY <1>0, <1>1, InodeUpdated DEF LockType, StepType, StepOf
  <1>4. StepType'
    BY <1>0, Zeros, <1>1, InodeUpdated DEF FileType, StepType, OpenSteps, CreateSteps, UseSteps
  <1>5. CopyType'
    BY <1>0, Zeros, <1>1, InodeUpdated DEF CopyType, FileType, LockType, StepType
  <1>6. TypeOK'
    BY <1>2, <1>3, <1>4, <1>5, TypeParts
  <1>7. Others(p)
    BY <1>0, <1>1, InodeUpdated DEF Others, StepType, LockType, CopyType
  <1>8. /\ pc[p] = "inode" /\ pc'[p] = "build"
        /\ job'[p] = job[p] /\ file'[p] = file[p] /\ seen'[p] = seen[p] /\ openLock'[p] = openLock[p]
        /\ bup'[p].inodeVal = inode /\ mapped'[p] = mapped[p] /\ want'[p] = want[p]
    BY <1>0, <1>1, InodeUpdated DEF StepType, LockType, CopyType, FileType
  <1>9. StepOf(p)'
    BY <1>0, <1>1, <1>8, Zeros, InodeUpdated DEF StepOf, Opening, Creating, Knowing, OpenSteps, CreateSteps, UseSteps, LockType, FileType, Inodes, StepType
  <1>10. AreaOf(p)'
    BY <1>0, <1>1, <1>8 DEF AreaOf, OpenSteps, CreateSteps, UseSteps, FileType, StepType
  <1>11. inode' = inode /\ (mon.size = "ok" => mon'.size = "ok")
    BY <1>0, <1>1, InodeUpdated DEF LockType
  <1>12. \A i \in Inodes : files[i].areas <= files'[i].areas
    BY <1>0, <1>1, InodeUpdated DEF FileType, StepType
  <1>13. \A q \in Procs : StepOf(q)' /\ AreaOf(q)'
    BY <1>6, <1>7, <1>9, <1>10, <1>11, <1>12, OthersKept
  <1>14. NewFile'
    <2>1. /\ \A i \in Inodes : files[i].areas = 0 => files'[i].areas = 0
          /\ Creating(p)' => /\ Creating(p) /\ file'[p] = file[p]
                             /\ pc[p] \in {"tell", "tellArea"} => pc'[p] \in {"tell", "tellArea"}
      BY <1>1, <1>0, InodeUpdated DEF FileType, StepType, Creating, StepOf, CreateSteps, UseSteps
    <2> QED
      BY <1>7, <1>11, <2>1, FilesKept
  <1>15. Announced'
    BY <1>1, <1>11, InodeUpdated DEF Announced
  <1> QED
    BY <1>6, <1>7, <1>13, <1>14, <1>15 DEF NamesInv

LEMMA BuildMmapInfoNames ==
    ASSUME NamesInv, NEW p \in Procs, BuildMmapInfo(p)
    PROVE  NamesInv' /\ Others(p)
  <1> USE MonitorAssumption DEF BuildMmapInfo, Goto, shared, aux
  <1>1. TypeOK /\ StepOf(p) /\ AreaOf(p) /\ NewFile /\ Announced
    BY DEF NamesInv
  <1>0. FileType /\ LockType /\ StepType /\ CopyType
    BY <1>1, TypeParts
  <1>2. FileType'
    BY <1>0 DEF FileType, StepType
  <1>3. LockType'
    BY <1>0, <1>1 DEF LockType, StepType, StepOf
  <1>4. StepType'
    BY <1>0, Zeros DEF FileType, StepType, OpenSteps, CreateSteps, UseSteps
  <1>5. CopyType'
    <2>1. file[p] \in Inodes /\ files[file[p]].areas \in 0 .. MaxAreas
      BY <1>0 DEF FileType, StepType
    <2>2. 1 .. files[file[p]].areas \subseteq Areas
      BY <2>1 DEF Areas
    <2> QED
      BY <1>0, <2>2 DEF CopyType
  <1>6. TypeOK'
    BY <1>2, <1>3, <1>4, <1>5, TypeParts
  <1>7. Others(p)
    BY <1>0 DEF Others, StepType, LockType, CopyType
  <1>8. /\ pc[p] = "build" /\ pc'[p] = "idle"
        /\ job'[p] = job[p] /\ file'[p] = file[p] /\ seen'[p] = seen[p] /\ openLock'[p] = openLock[p]
        /\ bup'[p] = bup[p] /\ mapped'[p] = 1 .. files[file[p]].areas /\ want'[p] = want[p]
    BY <1>0 DEF StepType, LockType, CopyType, FileType
  <1>9. StepOf(p)'
    BY <1>0, <1>1, <1>8, Zeros DEF StepOf, Opening, Creating, Knowing, OpenSteps, CreateSteps, UseSteps, LockType, FileType, Inodes, StepType
  <1>10. AreaOf(p)'
    BY <1>0, <1>1, <1>8 DEF AreaOf, OpenSteps, CreateSteps, UseSteps, FileType, StepType
  <1>11. inode' = inode /\ (mon.size = "ok" => mon'.size = "ok")
    BY <1>0 DEF LockType
  <1>12. \A i \in Inodes : files[i].areas <= files'[i].areas
    BY <1>0 DEF FileType, StepType
  <1>13. \A q \in Procs : StepOf(q)' /\ AreaOf(q)'
    BY <1>6, <1>7, <1>9, <1>10, <1>11, <1>12, OthersKept
  <1>14. NewFile'
    <2>1. /\ \A i \in Inodes : files[i].areas = 0 => files'[i].areas = 0
          /\ Creating(p)' => /\ Creating(p) /\ file'[p] = file[p]
                             /\ pc[p] \in {"tell", "tellArea"} => pc'[p] \in {"tell", "tellArea"}
      BY <1>1, <1>0 DEF FileType, StepType, Creating, StepOf, CreateSteps, UseSteps
    <2> QED
      BY <1>7, <1>11, <2>1, FilesKept
  <1>15. Announced'
    <2>1. /\ files'[inode].step = "ready" => files[inode].step = "ready"
          /\ mon'.size = "ok" => mon.size = "ok" /\ mon'.val.inodeVal = mon.val.inodeVal
      BY <1>1, <1>0 DEF FileType, LockType, Values
    <2> QED
      BY <1>1, <1>11, <2>1, AnnouncedKept
  <1> QED
    BY <1>6, <1>7, <1>13, <1>14, <1>15 DEF NamesInv

LEMMA WrongVersionNames ==
    ASSUME NamesInv, NEW p \in Procs, WrongVersion(p)
    PROVE  NamesInv' /\ Others(p)
  <1> USE MonitorAssumption DEF WrongVersion, Goto, shared, aux, End
  <1>1. TypeOK /\ StepOf(p) /\ AreaOf(p) /\ NewFile /\ Announced
    BY DEF NamesInv
  <1>0. FileType /\ LockType /\ StepType /\ CopyType
    BY <1>1, TypeParts
  <1>2. FileType'
    BY <1>0, <1>1, HasLeft DEF FileType, StepType
  <1>3. LockType'
    BY <1>0, <1>1, HasLeft DEF LockType, StepType, StepOf
  <1>4. StepType'
    BY <1>0, Zeros, <1>1, HasLeft DEF FileType, StepType, OpenSteps, CreateSteps, UseSteps
  <1>5. CopyType'
    BY <1>0, Zeros, <1>1, HasLeft DEF CopyType, FileType, LockType, StepType
  <1>6. TypeOK'
    BY <1>2, <1>3, <1>4, <1>5, TypeParts
  <1>7. Others(p)
    BY <1>0, <1>1, HasLeft DEF Others, StepType, LockType, CopyType
  <1>8. /\ pc[p] = "build" /\ pc'[p] = "off"
        /\ job'[p] = "attach" /\ file'[p] = 0 /\ seen'[p] = 0 /\ openLock'[p] = "none"
        /\ bup'[p] = None /\ mapped'[p] = {} /\ want'[p] = 0
    BY <1>0, <1>1, HasLeft DEF StepType, LockType, CopyType, FileType
  <1>9. StepOf(p)'
    BY <1>0, <1>1, <1>8, Zeros, HasLeft DEF StepOf, Opening, Creating, Knowing, OpenSteps, CreateSteps, UseSteps, LockType, FileType, Inodes, StepType
  <1>10. AreaOf(p)'
    <2>1. file'[p] \in Inodes /\ files'[file'[p]].areas \in Nat
      BY <1>2, <1>4 DEF FileType, StepType
    <2> QED
      BY <1>8, <2>1 DEF AreaOf, OpenSteps, CreateSteps, UseSteps
  <1>11. inode' = inode /\ (mon.size = "ok" => mon'.size = "ok")
    BY <1>0, <1>1, HasLeft DEF LockType
  <1>12. \A i \in Inodes : files[i].areas <= files'[i].areas
    BY <1>0, <1>1, HasLeft DEF FileType, StepType
  <1>13. \A q \in Procs : StepOf(q)' /\ AreaOf(q)'
    BY <1>6, <1>7, <1>9, <1>10, <1>11, <1>12, OthersKept
  <1>14. NewFile'
    <2>1. /\ \A i \in Inodes : files[i].areas = 0 => files'[i].areas = 0
          /\ Creating(p)' => /\ Creating(p) /\ file'[p] = file[p]
                             /\ pc[p] \in {"tell", "tellArea"} => pc'[p] \in {"tell", "tellArea"}
      BY <1>1, <1>0, HasLeft DEF FileType, StepType, Creating, StepOf, CreateSteps, UseSteps
    <2> QED
      BY <1>7, <1>11, <2>1, FilesKept
  <1>15. Announced'
    <2>1. /\ files'[inode].step = "ready" => files[inode].step = "ready"
          /\ mon'.size = "ok" => mon.size = "ok" /\ mon'.val.inodeVal = mon.val.inodeVal
      BY <1>1, <1>0, HasLeft DEF FileType, LockType, Values
    <2> QED
      BY <1>1, <1>11, <2>1, AnnouncedKept
  <1> QED
    BY <1>6, <1>7, <1>13, <1>14, <1>15 DEF NamesInv

LEMMA DetachNames ==
    ASSUME NamesInv, NEW p \in Procs, Detach(p)
    PROVE  NamesInv' /\ Others(p)
  <1> USE MonitorAssumption DEF Detach, Goto, shared, aux, End
  <1>1. TypeOK /\ StepOf(p) /\ AreaOf(p) /\ NewFile /\ Announced
    BY DEF NamesInv
  <1>0. FileType /\ LockType /\ StepType /\ CopyType
    BY <1>1, TypeParts
  <1>2. FileType'
    BY <1>0, <1>1, HasLeft DEF FileType, StepType
  <1>3. LockType'
    BY <1>0, <1>1, HasLeft DEF LockType, StepType, StepOf
  <1>4. StepType'
    BY <1>0, Zeros, <1>1, HasLeft DEF FileType, StepType, OpenSteps, CreateSteps, UseSteps
  <1>5. CopyType'
    BY <1>0, Zeros, <1>1, HasLeft DEF CopyType, FileType, LockType, StepType
  <1>6. TypeOK'
    BY <1>2, <1>3, <1>4, <1>5, TypeParts
  <1>7. Others(p)
    BY <1>0, <1>1, HasLeft DEF Others, StepType, LockType, CopyType
  <1>8. /\ pc[p] = "idle" /\ pc'[p] = "off"
        /\ job'[p] = "attach" /\ file'[p] = 0 /\ seen'[p] = 0 /\ openLock'[p] = "none"
        /\ bup'[p] = None /\ mapped'[p] = {} /\ want'[p] = 0
    BY <1>0, <1>1, HasLeft DEF StepType, LockType, CopyType, FileType
  <1>9. StepOf(p)'
    BY <1>0, <1>1, <1>8, Zeros, HasLeft DEF StepOf, Opening, Creating, Knowing, OpenSteps, CreateSteps, UseSteps, LockType, FileType, Inodes, StepType
  <1>10. AreaOf(p)'
    <2>1. file'[p] \in Inodes /\ files'[file'[p]].areas \in Nat
      BY <1>2, <1>4 DEF FileType, StepType
    <2> QED
      BY <1>8, <2>1 DEF AreaOf, OpenSteps, CreateSteps, UseSteps
  <1>11. inode' = inode /\ (mon.size = "ok" => mon'.size = "ok")
    BY <1>0, <1>1, HasLeft DEF LockType
  <1>12. \A i \in Inodes : files[i].areas <= files'[i].areas
    BY <1>0, <1>1, HasLeft DEF FileType, StepType
  <1>13. \A q \in Procs : StepOf(q)' /\ AreaOf(q)'
    BY <1>6, <1>7, <1>9, <1>10, <1>11, <1>12, OthersKept
  <1>14. NewFile'
    <2>1. /\ \A i \in Inodes : files[i].areas = 0 => files'[i].areas = 0
          /\ Creating(p)' => /\ Creating(p) /\ file'[p] = file[p]
                             /\ pc[p] \in {"tell", "tellArea"} => pc'[p] \in {"tell", "tellArea"}
      BY <1>1, <1>0, HasLeft DEF FileType, StepType, Creating, StepOf, CreateSteps, UseSteps
    <2> QED
      BY <1>7, <1>11, <2>1, FilesKept
  <1>15. Announced'
    <2>1. /\ files'[inode].step = "ready" => files[inode].step = "ready"
          /\ mon'.size = "ok" => mon.size = "ok" /\ mon'.val.inodeVal = mon.val.inodeVal
      BY <1>1, <1>0, HasLeft DEF FileType, LockType, Values
    <2> QED
      BY <1>1, <1>11, <2>1, AnnouncedKept
  <1> QED
    BY <1>6, <1>7, <1>13, <1>14, <1>15 DEF NamesInv

LEMMA DieNames ==
    ASSUME NamesInv, NEW p \in Procs, Die(p)
    PROVE  NamesInv' /\ Others(p)
  <1> USE MonitorAssumption DEF Die, Goto, shared, aux, End
  <1>1. TypeOK /\ StepOf(p) /\ AreaOf(p) /\ NewFile /\ Announced
    BY DEF NamesInv
  <1>0. FileType /\ LockType /\ StepType /\ CopyType
    BY <1>1, TypeParts
  <1>2. FileType'
    BY <1>0, <1>1, HasLeft DEF FileType, StepType
  <1>3. LockType'
    BY <1>0, <1>1, HasLeft DEF LockType, StepType, StepOf
  <1>4. StepType'
    BY <1>0, Zeros, <1>1, HasLeft DEF FileType, StepType, OpenSteps, CreateSteps, UseSteps
  <1>5. CopyType'
    BY <1>0, Zeros, <1>1, HasLeft DEF CopyType, FileType, LockType, StepType
  <1>6. TypeOK'
    BY <1>2, <1>3, <1>4, <1>5, TypeParts
  <1>7. Others(p)
    BY <1>0, <1>1, HasLeft DEF Others, StepType, LockType, CopyType
  <1>8. /\ pc[p] \notin {"off", "idle"} /\ pc'[p] = "off"
        /\ job'[p] = "attach" /\ file'[p] = 0 /\ seen'[p] = 0 /\ openLock'[p] = "none"
        /\ bup'[p] = None /\ mapped'[p] = {} /\ want'[p] = 0
    BY <1>0, <1>1, HasLeft DEF StepType, LockType, CopyType, FileType
  <1>9. StepOf(p)'
    BY <1>0, <1>1, <1>8, Zeros, HasLeft DEF StepOf, Opening, Creating, Knowing, OpenSteps, CreateSteps, UseSteps, LockType, FileType, Inodes, StepType
  <1>10. AreaOf(p)'
    <2>1. file'[p] \in Inodes /\ files'[file'[p]].areas \in Nat
      BY <1>2, <1>4 DEF FileType, StepType
    <2> QED
      BY <1>8, <2>1 DEF AreaOf, OpenSteps, CreateSteps, UseSteps
  <1>11. inode' = inode /\ (mon.size = "ok" => mon'.size = "ok")
    BY <1>0, <1>1, HasLeft DEF LockType
  <1>12. \A i \in Inodes : files[i].areas <= files'[i].areas
    BY <1>0, <1>1, HasLeft DEF FileType, StepType
  <1>13. \A q \in Procs : StepOf(q)' /\ AreaOf(q)'
    BY <1>6, <1>7, <1>9, <1>10, <1>11, <1>12, OthersKept
  <1>14. NewFile'
    <2>1. /\ \A i \in Inodes : files[i].areas = 0 => files'[i].areas = 0
          /\ Creating(p)' => /\ Creating(p) /\ file'[p] = file[p]
                             /\ pc[p] \in {"tell", "tellArea"} => pc'[p] \in {"tell", "tellArea"}
      BY <1>1, <1>0, HasLeft DEF FileType, StepType, Creating, StepOf, CreateSteps, UseSteps
    <2> QED
      BY <1>7, <1>11, <2>1, FilesKept
  <1>15. Announced'
    <2>1. /\ files'[inode].step = "ready" => files[inode].step = "ready"
          /\ mon'.size = "ok" => mon.size = "ok" /\ mon'.val.inodeVal = mon.val.inodeVal
      BY <1>1, <1>0, HasLeft DEF FileType, LockType, Values
    <2> QED
      BY <1>1, <1>11, <2>1, AnnouncedKept
  <1> QED
    BY <1>6, <1>7, <1>13, <1>14, <1>15 DEF NamesInv

LEMMA ReloadNames ==
    ASSUME NamesInv, NEW p \in Procs, Reload(p)
    PROVE  NamesInv' /\ Others(p)
  <1> USE MonitorAssumption DEF Reload, Goto, shared, aux
  <1>1. TypeOK /\ StepOf(p) /\ AreaOf(p) /\ NewFile /\ Announced
    BY DEF NamesInv
  <1>0. FileType /\ LockType /\ StepType /\ CopyType
    BY <1>1, TypeParts
  <1>2. FileType'
    BY <1>0, <1>1, HasLeft DEF FileType, StepType
  <1>3. LockType'
    BY <1>0, <1>1, HasLeft DEF LockType, StepType, StepOf
  <1>4. StepType'
    BY <1>0, Zeros, <1>1, HasLeft DEF FileType, StepType, OpenSteps, CreateSteps, UseSteps
  <1>5. CopyType'
    BY <1>0, Zeros, <1>1, HasLeft DEF CopyType, FileType, LockType, StepType
  <1>6. TypeOK'
    BY <1>2, <1>3, <1>4, <1>5, TypeParts
  <1>7. Others(p)
    BY <1>0, <1>1, HasLeft DEF Others, StepType, LockType, CopyType
  <1>8. /\ pc[p] = "idle" /\ pc'[p] = "open"
        /\ job'[p] = "attach" /\ file'[p] = inode /\ seen'[p] = 0 /\ openLock'[p] = "none"
        /\ bup'[p] = None /\ mapped'[p] = {} /\ want'[p] = 0
    BY <1>0, <1>1, HasLeft DEF StepType, LockType, CopyType, FileType
  <1>9. StepOf(p)'
    BY <1>0, <1>1, <1>8, Zeros, HasLeft DEF StepOf, Opening, Creating, Knowing, OpenSteps, CreateSteps, UseSteps, LockType, FileType, Inodes, StepType
  <1>10. AreaOf(p)'
    <2>1. file'[p] \in Inodes /\ files'[file'[p]].areas \in Nat
      BY <1>2, <1>4 DEF FileType, StepType
    <2> QED
      BY <1>8, <2>1 DEF AreaOf, OpenSteps, CreateSteps, UseSteps
  <1>11. inode' = inode /\ (mon.size = "ok" => mon'.size = "ok")
    BY <1>0, <1>1, HasLeft DEF LockType
  <1>12. \A i \in Inodes : files[i].areas <= files'[i].areas
    BY <1>0, <1>1, HasLeft DEF FileType, StepType
  <1>13. \A q \in Procs : StepOf(q)' /\ AreaOf(q)'
    BY <1>6, <1>7, <1>9, <1>10, <1>11, <1>12, OthersKept
  <1>14. NewFile'
    <2>1. /\ \A i \in Inodes : files[i].areas = 0 => files'[i].areas = 0
          /\ Creating(p)' => /\ Creating(p) /\ file'[p] = file[p]
                             /\ pc[p] \in {"tell", "tellArea"} => pc'[p] \in {"tell", "tellArea"}
      BY <1>1, <1>0, HasLeft DEF FileType, StepType, Creating, StepOf, CreateSteps, UseSteps
    <2> QED
      BY <1>7, <1>11, <2>1, FilesKept
  <1>15. Announced'
    <2>1. /\ files'[inode].step = "ready" => files[inode].step = "ready"
          /\ mon'.size = "ok" => mon.size = "ok" /\ mon'.val.inodeVal = mon.val.inodeVal
      BY <1>1, <1>0, HasLeft DEF FileType, LockType, Values
    <2> QED
      BY <1>1, <1>11, <2>1, AnnouncedKept
  <1> QED
    BY <1>6, <1>7, <1>13, <1>14, <1>15 DEF NamesInv

LEMMA ZeroFileNames ==
    ASSUME NamesInv, NEW p \in Procs, ZeroFile(p)
    PROVE  NamesInv' /\ Others(p)
  <1> USE MonitorAssumption DEF ZeroFile, Goto, shared, aux
  <1>1. TypeOK /\ StepOf(p) /\ AreaOf(p) /\ NewFile /\ Announced
    BY DEF NamesInv
  <1>0. FileType /\ LockType /\ StepType /\ CopyType
    BY <1>1, TypeParts
  <1>2. FileType'
    BY <1>0 DEF FileType, StepType
  <1>3. LockType'
    BY <1>0, <1>1 DEF LockType, StepType, StepOf
  <1>4. StepType'
    BY <1>0, Zeros DEF FileType, StepType, OpenSteps, CreateSteps, UseSteps
  <1>5. CopyType'
    BY <1>0, Zeros DEF CopyType, FileType, LockType, StepType
  <1>6. TypeOK'
    BY <1>2, <1>3, <1>4, <1>5, TypeParts
  <1>7. Others(p)
    BY <1>0 DEF Others, StepType, LockType, CopyType
  <1>8. /\ pc[p] = "zero" /\ pc'[p] = "head"
        /\ job'[p] = job[p] /\ file'[p] = file[p] /\ seen'[p] = seen[p] /\ openLock'[p] = openLock[p]
        /\ bup'[p] = bup[p] /\ mapped'[p] = mapped[p] /\ want'[p] = want[p]
    BY <1>0 DEF StepType, LockType, CopyType, FileType
  <1>9. StepOf(p)'
    BY <1>0, <1>1, <1>8, Zeros DEF StepOf, Opening, Creating, Knowing, OpenSteps, CreateSteps, UseSteps, LockType, FileType, Inodes, StepType
  <1>10. AreaOf(p)'
    BY <1>0, <1>1, <1>8 DEF AreaOf, OpenSteps, CreateSteps, UseSteps, FileType, StepType
  <1>11. inode' = inode /\ (mon.size = "ok" => mon'.size = "ok")
    BY <1>0 DEF LockType
  <1>12. \A i \in Inodes : files[i].areas <= files'[i].areas
    BY <1>0 DEF FileType, StepType
  <1>13. \A q \in Procs : StepOf(q)' /\ AreaOf(q)'
    BY <1>6, <1>7, <1>9, <1>10, <1>11, <1>12, OthersKept
  <1>14. NewFile'
    <2>1. /\ \A i \in Inodes : files[i].areas = 0 => files'[i].areas = 0
          /\ Creating(p)' => /\ Creating(p) /\ file'[p] = file[p]
                             /\ pc[p] \in {"tell", "tellArea"} => pc'[p] \in {"tell", "tellArea"}
      BY <1>1, <1>0 DEF FileType, StepType, Creating, StepOf, CreateSteps, UseSteps
    <2> QED
      BY <1>7, <1>11, <2>1, FilesKept
  <1>15. Announced'
    <2>1. /\ files'[inode].step = "ready" => files[inode].step = "ready"
          /\ mon'.size = "ok" => mon.size = "ok" /\ mon'.val.inodeVal = mon.val.inodeVal
      BY <1>1, <1>0 DEF FileType, LockType, Values
    <2> QED
      BY <1>1, <1>11, <2>1, AnnouncedKept
  <1> QED
    BY <1>6, <1>7, <1>13, <1>14, <1>15 DEF NamesInv

LEMMA WriteVersionNames ==
    ASSUME NamesInv, NEW p \in Procs, WriteVersion(p)
    PROVE  NamesInv' /\ Others(p)
  <1> USE MonitorAssumption DEF WriteVersion, Goto, shared, aux
  <1>1. TypeOK /\ StepOf(p) /\ AreaOf(p) /\ NewFile /\ Announced
    BY DEF NamesInv
  <1>0. FileType /\ LockType /\ StepType /\ CopyType
    BY <1>1, TypeParts
  <1>2. FileType'
    BY <1>0 DEF FileType, StepType
  <1>3. LockType'
    BY <1>0, <1>1 DEF LockType, StepType, StepOf
  <1>4. StepType'
    BY <1>0, Zeros DEF FileType, StepType, OpenSteps, CreateSteps, UseSteps
  <1>5. CopyType'
    BY <1>0, Zeros DEF CopyType, FileType, LockType, StepType
  <1>6. TypeOK'
    BY <1>2, <1>3, <1>4, <1>5, TypeParts
  <1>7. Others(p)
    BY <1>0 DEF Others, StepType, LockType, CopyType
  <1>8. /\ pc[p] = "head" /\ pc'[p] = "fill"
        /\ job'[p] = job[p] /\ file'[p] = file[p] /\ seen'[p] = seen[p] /\ openLock'[p] = openLock[p]
        /\ bup'[p] = bup[p] /\ mapped'[p] = mapped[p] /\ want'[p] = want[p]
    BY <1>0 DEF StepType, LockType, CopyType, FileType
  <1>9. StepOf(p)'
    BY <1>0, <1>1, <1>8, Zeros DEF StepOf, Opening, Creating, Knowing, OpenSteps, CreateSteps, UseSteps, LockType, FileType, Inodes, StepType
  <1>10. AreaOf(p)'
    BY <1>0, <1>1, <1>8 DEF AreaOf, OpenSteps, CreateSteps, UseSteps, FileType, StepType
  <1>11. inode' = inode /\ (mon.size = "ok" => mon'.size = "ok")
    BY <1>0 DEF LockType
  <1>12. \A i \in Inodes : files[i].areas <= files'[i].areas
    BY <1>0 DEF FileType, StepType
  <1>13. \A q \in Procs : StepOf(q)' /\ AreaOf(q)'
    BY <1>6, <1>7, <1>9, <1>10, <1>11, <1>12, OthersKept
  <1>14. NewFile'
    <2>1. /\ \A i \in Inodes : files[i].areas = 0 => files'[i].areas = 0
          /\ Creating(p)' => /\ Creating(p) /\ file'[p] = file[p]
                             /\ pc[p] \in {"tell", "tellArea"} => pc'[p] \in {"tell", "tellArea"}
      BY <1>1, <1>0 DEF FileType, StepType, Creating, StepOf, CreateSteps, UseSteps
    <2> QED
      BY <1>7, <1>11, <2>1, FilesKept
  <1>15. Announced'
    <2>1. /\ files'[inode].step = "ready" => files[inode].step = "ready"
          /\ mon'.size = "ok" => mon.size = "ok" /\ mon'.val.inodeVal = mon.val.inodeVal
      BY <1>1, <1>0 DEF FileType, LockType, Values
    <2> QED
      BY <1>1, <1>11, <2>1, AnnouncedKept
  <1> QED
    BY <1>6, <1>7, <1>13, <1>14, <1>15 DEF NamesInv

LEMMA FillFileNames ==
    ASSUME NamesInv, NEW p \in Procs, FillFile(p)
    PROVE  NamesInv' /\ Others(p)
  <1> USE MonitorAssumption DEF FillFile, Goto, shared, aux
  <1>1. TypeOK /\ StepOf(p) /\ AreaOf(p) /\ NewFile /\ Announced
    BY DEF NamesInv
  <1>0. FileType /\ LockType /\ StepType /\ CopyType
    BY <1>1, TypeParts
  <1>2. FileType'
    <2>1. file[p] \in Inodes /\ 1 \in Areas /\ 1 \in 0 .. MaxAreas
      BY <1>0 DEF StepType, Areas
    <2> DEFINE new == [files[file[p]] EXCEPT !.areas = 1, !.used = {1}]
    <2>2. /\ new.areas = 1 /\ new.used = {1}
          /\ new \in [step : {"none", "empty", "zero", "head", "ready"},
                      areas : 0 .. MaxAreas, used : SUBSET Areas]
      <3>1. files[file[p]] \in [step : {"none", "empty", "zero", "head", "ready"},
                                areas : 0 .. MaxAreas, used : SUBSET Areas]
        BY <1>0, <2>1 DEF FileType
      <3> QED
        BY <2>1, <3>1
    <2>4. files' = [files EXCEPT ![file[p]] = new]
      BY <1>0, <2>1 DEF FileType
    <2>5. new.used \subseteq 1 .. new.areas
      BY <2>2
    <2>3. UNCHANGED <<readers, inode>> /\ unArea' \in [Inodes -> Procs \cup {NoProc}]
      BY <1>0 DEF FileType
    <2> HIDE DEF new
    <2> QED
      BY <1>0, <2>1, <2>2, <2>3, <2>4, <2>5, FileTypeKept
  <1>3. LockType'
    BY <1>0, <1>1 DEF LockType, StepType, StepOf
  <1>4. StepType'
    BY <1>0, Zeros DEF FileType, StepType, OpenSteps, CreateSteps, UseSteps
  <1>5. CopyType'
    <2>1. 1 \in Areas
      BY DEF Areas
    <2> QED
      BY <1>0, <2>1 DEF CopyType
  <1>6. TypeOK'
    BY <1>2, <1>3, <1>4, <1>5, TypeParts
  <1>7. Others(p)
    BY <1>0 DEF Others, StepType, LockType, CopyType
  <1>8. /\ pc[p] = "fill" /\ pc'[p] = "tell"
        /\ job'[p] = job[p] /\ file'[p] = file[p] /\ seen'[p] = seen[p] /\ openLock'[p] = openLock[p]
        /\ bup'[p] = bup[p] /\ mapped'[p] = {1} /\ want'[p] = want[p]
    BY <1>0 DEF StepType, LockType, CopyType, FileType
  <1>9. StepOf(p)'
    BY <1>0, <1>1, <1>8, Zeros DEF StepOf, Opening, Creating, Knowing, OpenSteps, CreateSteps, UseSteps, LockType, FileType, Inodes, StepType
  <1>10. AreaOf(p)'
    <2>1. file'[p] = file[p] /\ files'[file[p]].areas = 1
      BY <1>0, <1>8 DEF FileType, StepType
    <2>2. want[p] = 0
      BY <1>1, <1>8 DEF AreaOf
    <2> QED
      BY <1>8, <2>1, <2>2 DEF AreaOf, OpenSteps, CreateSteps, UseSteps
  <1>11. inode' = inode /\ (mon.size = "ok" => mon'.size = "ok")
    BY <1>0 DEF LockType
  <1>12. \A i \in Inodes : files[i].areas <= files'[i].areas
    <2>1. files[file[p]].areas = 0
      BY <1>0, <1>1, <1>8 DEF NewFile, Creating, StepOf, CreateSteps
    <2> QED
      BY <1>0, <2>1 DEF FileType, StepType
  <1>13. \A q \in Procs : StepOf(q)' /\ AreaOf(q)'
    BY <1>6, <1>7, <1>9, <1>10, <1>11, <1>12, OthersKept
  <1>14. NewFile'
    <2>1. Creating(p) /\ \A q \in Procs : Creating(q)' => Creating(q)
      BY <1>0, <1>1 DEF Creating, StepOf, CreateSteps, StepType
    <2>2. \A q \in Procs : Creating(q)' => q = p
      BY <1>1, <2>1 DEF NewFile
    <2>3. \A i \in Inodes : i > inode => files'[i].areas = 0
      BY <1>0, <1>1, Zeros DEF NewFile, FileType, StepType, StepOf
    <2>4. pc'[p] = "tell" /\ inode' = inode
      BY <1>8, <1>11
    <2>5. (\A i \in Inodes : i > inode => files[i].areas = 0)'
      BY <2>3, <2>4
    <2>6. (\A q \in Procs : Creating(q) /\ pc[q] \notin {"tell", "tellArea"} => files[file[q]].areas = 0)'
      BY <2>2, <2>4
    <2>7. (\A q, r \in Procs : Creating(q) /\ Creating(r) => q = r)'
      BY <2>2
    <2> QED
      BY <2>5, <2>6, <2>7 DEF NewFile
  <1>15. Announced'
    <2>1. /\ files'[inode].step = "ready" => files[inode].step = "ready"
          /\ mon'.size = "ok" => mon.size = "ok" /\ mon'.val.inodeVal = mon.val.inodeVal
      BY <1>1, <1>0 DEF FileType, LockType, Values
    <2> QED
      BY <1>1, <1>11, <2>1, AnnouncedKept
  <1> QED
    BY <1>6, <1>7, <1>13, <1>14, <1>15 DEF NamesInv

LEMMA TellInodeNames ==
    ASSUME NamesInv, NEW p \in Procs, TellInode(p)
    PROVE  NamesInv' /\ Others(p)
  <1> USE MonitorAssumption DEF TellInode, Goto, shared, aux
  <1>1. TypeOK /\ StepOf(p) /\ AreaOf(p) /\ NewFile /\ Announced
    BY DEF NamesInv
  <1>0. FileType /\ LockType /\ StepType /\ CopyType
    BY <1>1, TypeParts
  <1>2. FileType'
    BY <1>0, <1>1, InodeUpdated DEF FileType, StepType
  <1>3. LockType'
    BY <1>0, <1>1, InodeUpdated DEF LockType, StepType, StepOf
  <1>4. StepType'
    BY <1>0, Zeros, <1>1, InodeUpdated DEF FileType, StepType, OpenSteps, CreateSteps, UseSteps
  <1>5. CopyType'
    BY <1>0, Zeros, <1>1, InodeUpdated DEF CopyType, FileType, LockType, StepType
  <1>6. TypeOK'
    BY <1>2, <1>3, <1>4, <1>5, TypeParts
  <1>7. Others(p)
    BY <1>0, <1>1, InodeUpdated DEF Others, StepType, LockType, CopyType
  <1>8. /\ pc[p] = "tell" /\ pc'[p] = "tellArea"
        /\ job'[p] = job[p] /\ file'[p] = file[p] /\ seen'[p] = seen[p] /\ openLock'[p] = openLock[p]
        /\ bup'[p].inodeVal = inode /\ mapped'[p] = mapped[p] /\ want'[p] = want[p]
    BY <1>0, <1>1, InodeUpdated DEF StepType, LockType, CopyType, FileType
  <1>9. StepOf(p)'
    BY <1>0, <1>1, <1>8, Zeros, InodeUpdated DEF StepOf, Opening, Creating, Knowing, OpenSteps, CreateSteps, UseSteps, LockType, FileType, Inodes, StepType
  <1>10. AreaOf(p)'
    BY <1>0, <1>1, <1>8 DEF AreaOf, OpenSteps, CreateSteps, UseSteps, FileType, StepType
  <1>11. inode' = inode /\ (mon.size = "ok" => mon'.size = "ok")
    BY <1>0, <1>1, InodeUpdated DEF LockType
  <1>12. \A i \in Inodes : files[i].areas <= files'[i].areas
    BY <1>0, <1>1, InodeUpdated DEF FileType, StepType
  <1>13. \A q \in Procs : StepOf(q)' /\ AreaOf(q)'
    BY <1>6, <1>7, <1>9, <1>10, <1>11, <1>12, OthersKept
  <1>14. NewFile'
    <2>1. /\ \A i \in Inodes : files[i].areas = 0 => files'[i].areas = 0
          /\ Creating(p)' => /\ Creating(p) /\ file'[p] = file[p]
                             /\ pc[p] \in {"tell", "tellArea"} => pc'[p] \in {"tell", "tellArea"}
      BY <1>1, <1>0, InodeUpdated DEF FileType, StepType, Creating, StepOf, CreateSteps, UseSteps
    <2> QED
      BY <1>7, <1>11, <2>1, FilesKept
  <1>15. Announced'
    BY <1>1, <1>11, InodeUpdated DEF Announced
  <1> QED
    BY <1>6, <1>7, <1>13, <1>14, <1>15 DEF NamesInv

LEMMA TellAreaNames ==
    ASSUME NamesInv, NEW p \in Procs, TellArea(p)
    PROVE  NamesInv' /\ Others(p)
  <1> USE MonitorAssumption DEF TellArea, Goto, shared, aux
  <1>1. TypeOK /\ StepOf(p) /\ AreaOf(p) /\ NewFile /\ Announced
    BY DEF NamesInv
  <1>0. FileType /\ LockType /\ StepType /\ CopyType
    BY <1>1, TypeParts
  <1>2. FileType'
    BY <1>0, <1>1, AreaUpdated DEF FileType, StepType
  <1>3. LockType'
    BY <1>0, <1>1, AreaUpdated DEF LockType, StepType, StepOf
  <1>4. StepType'
    BY <1>0, Zeros, <1>1, AreaUpdated DEF FileType, StepType, OpenSteps, CreateSteps, UseSteps
  <1>5. CopyType'
    BY <1>0, Zeros, <1>1, AreaUpdated DEF CopyType, FileType, LockType, StepType
  <1>6. TypeOK'
    BY <1>2, <1>3, <1>4, <1>5, TypeParts
  <1>7. Others(p)
    BY <1>0, <1>1, AreaUpdated DEF Others, StepType, LockType, CopyType
  <1>8. /\ pc[p] = "tellArea" /\ pc'[p] = "idle"
        /\ job'[p] = "attach" /\ file'[p] = file[p] /\ seen'[p] = seen[p] /\ openLock'[p] = openLock[p]
        /\ bup'[p].inodeVal = bup[p].inodeVal /\ mapped'[p] = mapped[p] /\ want'[p] = want[p]
    BY <1>0, <1>1, AreaUpdated DEF StepType, LockType, CopyType, FileType
  <1>9. StepOf(p)'
    BY <1>0, <1>1, <1>8, Zeros, AreaUpdated DEF StepOf, Opening, Creating, Knowing, OpenSteps, CreateSteps, UseSteps, LockType, FileType, Inodes, StepType
  <1>10. AreaOf(p)'
    BY <1>0, <1>1, <1>8 DEF AreaOf, OpenSteps, CreateSteps, UseSteps, FileType, StepType
  <1>11. inode' = inode /\ (mon.size = "ok" => mon'.size = "ok")
    BY <1>0, <1>1, AreaUpdated DEF LockType
  <1>12. \A i \in Inodes : files[i].areas <= files'[i].areas
    BY <1>0, <1>1, AreaUpdated DEF FileType, StepType
  <1>13. \A q \in Procs : StepOf(q)' /\ AreaOf(q)'
    BY <1>6, <1>7, <1>9, <1>10, <1>11, <1>12, OthersKept
  <1>14. NewFile'
    <2>1. /\ \A i \in Inodes : files[i].areas = 0 => files'[i].areas = 0
          /\ Creating(p)' => /\ Creating(p) /\ file'[p] = file[p]
                             /\ pc[p] \in {"tell", "tellArea"} => pc'[p] \in {"tell", "tellArea"}
      BY <1>1, <1>0, AreaUpdated DEF FileType, StepType, Creating, StepOf, CreateSteps, UseSteps
    <2> QED
      BY <1>7, <1>11, <2>1, FilesKept
  <1>15. Announced'
    <2>1. /\ files'[inode].step = "ready" => files[inode].step = "ready"
          /\ mon'.size = "ok" => mon.size = "ok" /\ mon'.val.inodeVal = mon.val.inodeVal
      BY <1>1, <1>0, AreaUpdated DEF FileType, LockType, Values
    <2> QED
      BY <1>1, <1>11, <2>1, AnnouncedKept
  <1> QED
    BY <1>6, <1>7, <1>13, <1>14, <1>15 DEF NamesInv

LEMMA CheckAreaUpdateNames ==
    ASSUME NamesInv, NEW p \in Procs, CheckAreaUpdate(p)
    PROVE  NamesInv' /\ Others(p)
  <1> USE MonitorAssumption DEF CheckAreaUpdate, Goto, shared, aux
  <1>1. TypeOK /\ StepOf(p) /\ AreaOf(p) /\ NewFile /\ Announced
    BY DEF NamesInv
  <1>0. FileType /\ LockType /\ StepType /\ CopyType
    BY <1>1, TypeParts
  <1>2. FileType'
    BY <1>0, <1>1, AreaCopied DEF FileType, StepType
  <1>3. LockType'
    BY <1>0, <1>1, AreaCopied DEF LockType, StepType, StepOf
  <1>4. StepType'
    BY <1>0, Zeros, <1>1, AreaCopied DEF FileType, StepType, OpenSteps, CreateSteps, UseSteps
  <1>5. CopyType'
    BY <1>0, Zeros, <1>1, AreaCopied DEF CopyType, FileType, LockType, StepType
  <1>6. TypeOK'
    BY <1>2, <1>3, <1>4, <1>5, TypeParts
  <1>7. Others(p)
    BY <1>0, <1>1, AreaCopied DEF Others, StepType, LockType, CopyType
  <1>8. /\ pc[p] = "idle" /\ pc'[p] = "remap"
        /\ job'[p] = job[p] /\ file'[p] = file[p] /\ seen'[p] = seen[p] /\ openLock'[p] = openLock[p]
        /\ bup'[p].inodeVal = bup[p].inodeVal /\ mapped'[p] = mapped[p] /\ want'[p] = want[p]
    BY <1>0, <1>1, AreaCopied DEF StepType, LockType, CopyType, FileType
  <1>9. StepOf(p)'
    BY <1>0, <1>1, <1>8, Zeros, AreaCopied DEF StepOf, Opening, Creating, Knowing, OpenSteps, CreateSteps, UseSteps, LockType, FileType, Inodes, StepType
  <1>10. AreaOf(p)'
    BY <1>0, <1>1, <1>8 DEF AreaOf, OpenSteps, CreateSteps, UseSteps, FileType, StepType
  <1>11. inode' = inode /\ (mon.size = "ok" => mon'.size = "ok")
    BY <1>0, <1>1, AreaCopied DEF LockType
  <1>12. \A i \in Inodes : files[i].areas <= files'[i].areas
    BY <1>0, <1>1, AreaCopied DEF FileType, StepType
  <1>13. \A q \in Procs : StepOf(q)' /\ AreaOf(q)'
    BY <1>6, <1>7, <1>9, <1>10, <1>11, <1>12, OthersKept
  <1>14. NewFile'
    <2>1. /\ \A i \in Inodes : files[i].areas = 0 => files'[i].areas = 0
          /\ Creating(p)' => /\ Creating(p) /\ file'[p] = file[p]
                             /\ pc[p] \in {"tell", "tellArea"} => pc'[p] \in {"tell", "tellArea"}
      BY <1>1, <1>0, AreaCopied DEF FileType, StepType, Creating, StepOf, CreateSteps, UseSteps
    <2> QED
      BY <1>7, <1>11, <2>1, FilesKept
  <1>15. Announced'
    <2>1. /\ files'[inode].step = "ready" => files[inode].step = "ready"
          /\ mon'.size = "ok" => mon.size = "ok" /\ mon'.val.inodeVal = mon.val.inodeVal
      BY <1>1, <1>0, AreaCopied DEF FileType, LockType, Values
    <2> QED
      BY <1>1, <1>11, <2>1, AnnouncedKept
  <1> QED
    BY <1>6, <1>7, <1>13, <1>14, <1>15 DEF NamesInv

LEMMA LookForAreaNames ==
    ASSUME NamesInv, NEW p \in Procs, NEW a \in Areas, LookForArea(p, a)
    PROVE  NamesInv' /\ Others(p)
  <1> USE MonitorAssumption DEF LookForArea, Goto, shared, aux
  <1>1. TypeOK /\ StepOf(p) /\ AreaOf(p) /\ NewFile /\ Announced
    BY DEF NamesInv
  <1>0. FileType /\ LockType /\ StepType /\ CopyType
    BY <1>1, TypeParts
  <1>2. FileType'
    BY <1>0, <1>1, AreaCopied DEF FileType, StepType
  <1>3. LockType'
    BY <1>0, <1>1, AreaCopied DEF LockType, StepType, StepOf
  <1>4. StepType'
    BY <1>0, Zeros, <1>1, AreaCopied DEF FileType, StepType, OpenSteps, CreateSteps, UseSteps
  <1>5. CopyType'
    <2>1. a \in 0 .. MaxAreas
      BY DEF Areas
    <2> QED
      BY <1>0, <1>1, <2>1, AreaCopied DEF CopyType
  <1>6. TypeOK'
    BY <1>2, <1>3, <1>4, <1>5, TypeParts
  <1>7. Others(p)
    BY <1>0, <1>1, AreaCopied DEF Others, StepType, LockType, CopyType
  <1>8. /\ pc[p] = "idle" /\ pc'[p] = "remap"
        /\ job'[p] = job[p] /\ file'[p] = file[p] /\ seen'[p] = seen[p] /\ openLock'[p] = openLock[p]
        /\ bup'[p].inodeVal = bup[p].inodeVal /\ mapped'[p] = mapped[p] /\ want'[p] = a /\ a \in files[file[p]].used
    BY <1>0, <1>1, AreaCopied DEF StepType, LockType, CopyType, FileType
  <1>9. StepOf(p)'
    BY <1>0, <1>1, <1>8, Zeros, AreaCopied DEF StepOf, Opening, Creating, Knowing, OpenSteps, CreateSteps, UseSteps, LockType, FileType, Inodes, StepType
  <1>10. AreaOf(p)'
    <2>1. file[p] \in Inodes /\ files' = files /\ files[file[p]].areas \in Nat
      BY <1>0 DEF FileType, StepType
    <2>2. want'[p] <= files[file[p]].areas
      BY <1>0, <1>8, <2>1 DEF FileType
    <2> QED
      BY <1>1, <1>8, <2>1, <2>2 DEF AreaOf, OpenSteps, CreateSteps, UseSteps
  <1>11. inode' = inode /\ (mon.size = "ok" => mon'.size = "ok")
    BY <1>0, <1>1, AreaCopied DEF LockType
  <1>12. \A i \in Inodes : files[i].areas <= files'[i].areas
    BY <1>0, <1>1, AreaCopied DEF FileType, StepType
  <1>13. \A q \in Procs : StepOf(q)' /\ AreaOf(q)'
    BY <1>6, <1>7, <1>9, <1>10, <1>11, <1>12, OthersKept
  <1>14. NewFile'
    <2>1. /\ \A i \in Inodes : files[i].areas = 0 => files'[i].areas = 0
          /\ Creating(p)' => /\ Creating(p) /\ file'[p] = file[p]
                             /\ pc[p] \in {"tell", "tellArea"} => pc'[p] \in {"tell", "tellArea"}
      BY <1>1, <1>0, AreaCopied DEF FileType, StepType, Creating, StepOf, CreateSteps, UseSteps
    <2> QED
      BY <1>7, <1>11, <2>1, FilesKept
  <1>15. Announced'
    <2>1. /\ files'[inode].step = "ready" => files[inode].step = "ready"
          /\ mon'.size = "ok" => mon.size = "ok" /\ mon'.val.inodeVal = mon.val.inodeVal
      BY <1>1, <1>0, AreaCopied DEF FileType, LockType, Values
    <2> QED
      BY <1>1, <1>11, <2>1, AnnouncedKept
  <1> QED
    BY <1>6, <1>7, <1>13, <1>14, <1>15 DEF NamesInv

LEMMA AreaIsMissingNames ==
    ASSUME NamesInv, NEW p \in Procs, NEW a \in Areas, AreaIsMissing(p, a)
    PROVE  NamesInv' /\ Others(p)
  <1> USE MonitorAssumption DEF AreaIsMissing, Goto, shared, aux
  <1>1. TypeOK /\ StepOf(p) /\ AreaOf(p) /\ NewFile /\ Announced
    BY DEF NamesInv
  <1>0. FileType /\ LockType /\ StepType /\ CopyType
    BY <1>1, TypeParts
  <1>2. FileType'
    BY <1>0 DEF FileType, StepType
  <1>3. LockType'
    BY <1>0, <1>1 DEF LockType, StepType, StepOf
  <1>4. StepType'
    BY <1>0, Zeros DEF FileType, StepType, OpenSteps, CreateSteps, UseSteps
  <1>5. CopyType'
    BY <1>0, Zeros DEF CopyType, FileType, LockType, StepType
  <1>6. TypeOK'
    BY <1>2, <1>3, <1>4, <1>5, TypeParts
  <1>7. Others(p)
    BY <1>0 DEF Others, StepType, LockType, CopyType
  <1>8. /\ pc[p] = "idle" /\ pc'[p] = pc[p]
        /\ job'[p] = job[p] /\ file'[p] = file[p] /\ seen'[p] = seen[p] /\ openLock'[p] = openLock[p]
        /\ bup'[p] = bup[p] /\ mapped'[p] = mapped[p] /\ want'[p] = want[p]
    BY <1>0 DEF StepType, LockType, CopyType, FileType
  <1>9. StepOf(p)'
    BY <1>0, <1>1, <1>8, Zeros DEF StepOf, Opening, Creating, Knowing, OpenSteps, CreateSteps, UseSteps, LockType, FileType, Inodes, StepType
  <1>10. AreaOf(p)'
    BY <1>0, <1>1, <1>8 DEF AreaOf, OpenSteps, CreateSteps, UseSteps, FileType, StepType
  <1>11. inode' = inode /\ (mon.size = "ok" => mon'.size = "ok")
    BY <1>0 DEF LockType
  <1>12. \A i \in Inodes : files[i].areas <= files'[i].areas
    BY <1>0 DEF FileType, StepType
  <1>13. \A q \in Procs : StepOf(q)' /\ AreaOf(q)'
    BY <1>6, <1>7, <1>9, <1>10, <1>11, <1>12, OthersKept
  <1>14. NewFile'
    <2>1. /\ \A i \in Inodes : files[i].areas = 0 => files'[i].areas = 0
          /\ Creating(p)' => /\ Creating(p) /\ file'[p] = file[p]
                             /\ pc[p] \in {"tell", "tellArea"} => pc'[p] \in {"tell", "tellArea"}
      BY <1>1, <1>0 DEF FileType, StepType, Creating, StepOf, CreateSteps, UseSteps
    <2> QED
      BY <1>7, <1>11, <2>1, FilesKept
  <1>15. Announced'
    <2>1. /\ files'[inode].step = "ready" => files[inode].step = "ready"
          /\ mon'.size = "ok" => mon.size = "ok" /\ mon'.val.inodeVal = mon.val.inodeVal
      BY <1>1, <1>0 DEF FileType, LockType, Values
    <2> QED
      BY <1>1, <1>11, <2>1, AnnouncedKept
  <1> QED
    BY <1>6, <1>7, <1>13, <1>14, <1>15 DEF NamesInv

LEMMA DoAreaUpdateNames ==
    ASSUME NamesInv, NEW p \in Procs, DoAreaUpdate(p)
    PROVE  NamesInv' /\ Others(p)
  <1> USE MonitorAssumption DEF DoAreaUpdate, Goto, shared, aux
  <1>1. TypeOK /\ StepOf(p) /\ AreaOf(p) /\ NewFile /\ Announced
    BY DEF NamesInv
  <1>0. FileType /\ LockType /\ StepType /\ CopyType
    BY <1>1, TypeParts
  <1>2. FileType'
    BY <1>0 DEF FileType, StepType
  <1>3. LockType'
    BY <1>0, <1>1 DEF LockType, StepType, StepOf
  <1>4. StepType'
    BY <1>0 DEF StepType, UseSteps
  <1>5. CopyType'
    <2>1. file[p] \in Inodes /\ files[file[p]].areas \in 0 .. MaxAreas
      BY <1>0 DEF FileType, StepType
    <2>2. 1 .. files[file[p]].areas \subseteq Areas
      BY <2>1 DEF Areas
    <2>3. mapped' \in [Procs -> SUBSET Areas]
      BY <1>0, <2>2 DEF CopyType
    <2>4. want' \in [Procs -> 0 .. MaxAreas]
      BY <1>0, Zeros DEF CopyType
    <2>5. missed' \subseteq Procs
      BY <1>0 DEF CopyType
    <2> QED
      BY <1>0, <2>3, <2>4, <2>5 DEF CopyType
  <1>6. TypeOK'
    BY <1>2, <1>3, <1>4, <1>5, TypeParts
  <1>7. Others(p)
    BY <1>0 DEF Others, StepType, LockType, CopyType
  <1>8. /\ pc[p] = "remap" /\ pc'[p] \in {"idle", "link"}
        /\ job'[p] = job[p] /\ file'[p] = file[p] /\ seen'[p] = seen[p] /\ openLock'[p] = openLock[p]
        /\ bup'[p] = bup[p] /\ mapped'[p] = 1 .. files[file[p]].areas /\ (IF pc'[p] = "idle" THEN want'[p] = 0 ELSE want'[p] = want[p] /\ want[p] # 0)
    BY <1>0 DEF StepType, LockType, CopyType, FileType
  <1>9. StepOf(p)'
    BY <1>0, <1>1, <1>8, Zeros DEF StepOf, Opening, Creating, Knowing, OpenSteps, CreateSteps, UseSteps, LockType, FileType, Inodes, StepType
  <1>10. AreaOf(p)'
    <2>1. file[p] \in Inodes /\ files' = files /\ files[file[p]].areas \in Nat /\ want[p] <= files[file[p]].areas
      BY <1>0, <1>1 DEF FileType, StepType, AreaOf
    <2> QED
      BY <1>8, <2>1 DEF AreaOf, OpenSteps, CreateSteps, UseSteps
  <1>11. inode' = inode /\ (mon.size = "ok" => mon'.size = "ok")
    BY <1>0 DEF LockType
  <1>12. \A i \in Inodes : files[i].areas <= files'[i].areas
    BY <1>0 DEF FileType, StepType
  <1>13. \A q \in Procs : StepOf(q)' /\ AreaOf(q)'
    BY <1>6, <1>7, <1>9, <1>10, <1>11, <1>12, OthersKept
  <1>14. NewFile'
    <2>1. /\ \A i \in Inodes : files[i].areas = 0 => files'[i].areas = 0
          /\ Creating(p)' => /\ Creating(p) /\ file'[p] = file[p]
                             /\ pc[p] \in {"tell", "tellArea"} => pc'[p] \in {"tell", "tellArea"}
      BY <1>1, <1>0 DEF FileType, StepType, Creating, StepOf, CreateSteps, UseSteps
    <2> QED
      BY <1>7, <1>11, <2>1, FilesKept
  <1>15. Announced'
    <2>1. /\ files'[inode].step = "ready" => files[inode].step = "ready"
          /\ mon'.size = "ok" => mon.size = "ok" /\ mon'.val.inodeVal = mon.val.inodeVal
      BY <1>1, <1>0 DEF FileType, LockType, Values
    <2> QED
      BY <1>1, <1>11, <2>1, AnnouncedKept
  <1> QED
    BY <1>6, <1>7, <1>13, <1>14, <1>15 DEF NamesInv

LEMMA AddAreaNames ==
    ASSUME NamesInv, NEW p \in Procs, AddArea(p)
    PROVE  NamesInv' /\ Others(p)
  <1> USE MonitorAssumption DEF AddArea, Goto, shared, aux
  <1>1. TypeOK /\ StepOf(p) /\ AreaOf(p) /\ NewFile /\ Announced
    BY DEF NamesInv
  <1>0. FileType /\ LockType /\ StepType /\ CopyType
    BY <1>1, TypeParts
  <1>2. FileType'
    <2>1. files[file[p]].areas + 1 \in 0 .. MaxAreas
      BY <1>0, RoomForArea DEF FileType, StepType
    <2>2. file[p] \in Inodes
      BY <1>0 DEF StepType
    <2> DEFINE new == [files[file[p]] EXCEPT !.areas = files[file[p]].areas + 1]
    <2>3. /\ files' = [files EXCEPT ![file[p]] = new] /\ new.used \subseteq 1 .. new.areas
          /\ new \in [step : {"none", "empty", "zero", "head", "ready"},
                      areas : 0 .. MaxAreas, used : SUBSET Areas]
      BY <1>0, <2>1, <2>2 DEF FileType
    <2>4. UNCHANGED <<readers, inode>> /\ unArea' \in [Inodes -> Procs \cup {NoProc}]
      BY <1>0 DEF FileType
    <2> HIDE DEF new
    <2> QED
      BY <1>0, <2>2, <2>3, <2>4, FileTypeKept
  <1>3. LockType'
    BY <1>0, <1>1 DEF LockType, StepType, StepOf
  <1>4. StepType'
    BY <1>0, Zeros DEF FileType, StepType, OpenSteps, CreateSteps, UseSteps
  <1>5. CopyType'
    <2>1. files[file[p]].areas + 1 \in 0 .. MaxAreas /\ files[file[p]].areas + 1 \in Areas
      BY <1>0, RoomForArea DEF FileType, StepType, Areas
    <2> QED
      BY <1>0, <2>1 DEF CopyType
  <1>6. TypeOK'
    BY <1>2, <1>3, <1>4, <1>5, TypeParts
  <1>7. Others(p)
    BY <1>0 DEF Others, StepType, LockType, CopyType
  <1>8. /\ pc[p] = "idle" /\ pc'[p] = "grow"
        /\ job'[p] = job[p] /\ file'[p] = file[p] /\ seen'[p] = seen[p] /\ openLock'[p] = openLock[p]
        /\ bup'[p] = bup[p] /\ mapped'[p] = mapped[p] \cup {files[file[p]].areas + 1} /\ want'[p] = files[file[p]].areas + 1
    BY <1>0 DEF StepType, LockType, CopyType, FileType
  <1>9. StepOf(p)'
    BY <1>0, <1>1, <1>8, Zeros DEF StepOf, Opening, Creating, Knowing, OpenSteps, CreateSteps, UseSteps, LockType, FileType, Inodes, StepType
  <1>10. AreaOf(p)'
    <2>1. /\ file[p] \in Inodes /\ files[file[p]].areas \in Nat
          /\ files'[file[p]].areas = files[file[p]].areas + 1
          /\ mapped[p] \subseteq 1 .. files[file[p]].areas
      BY <1>0, <1>1 DEF FileType, StepType, AreaOf
    <2> QED
      BY <1>8, <2>1 DEF AreaOf, OpenSteps, CreateSteps, UseSteps
  <1>11. inode' = inode /\ (mon.size = "ok" => mon'.size = "ok")
    BY <1>0 DEF LockType
  <1>12. \A i \in Inodes : files[i].areas <= files'[i].areas
    BY <1>0 DEF FileType, StepType
  <1>13. \A q \in Procs : StepOf(q)' /\ AreaOf(q)'
    BY <1>6, <1>7, <1>9, <1>10, <1>11, <1>12, OthersKept
  <1>14. NewFile'
    <2>1. /\ \A i \in Inodes : files[i].areas = 0 => files'[i].areas = 0
          /\ Creating(p)' => /\ Creating(p) /\ file'[p] = file[p]
                             /\ pc[p] \in {"tell", "tellArea"} => pc'[p] \in {"tell", "tellArea"}
      BY <1>1, <1>0 DEF FileType, StepType, Creating, StepOf, CreateSteps, UseSteps
    <2> QED
      BY <1>7, <1>11, <2>1, FilesKept
  <1>15. Announced'
    <2>1. /\ files'[inode].step = "ready" => files[inode].step = "ready"
          /\ mon'.size = "ok" => mon.size = "ok" /\ mon'.val.inodeVal = mon.val.inodeVal
      BY <1>1, <1>0 DEF FileType, LockType, Values
    <2> QED
      BY <1>1, <1>11, <2>1, AnnouncedKept
  <1> QED
    BY <1>6, <1>7, <1>13, <1>14, <1>15 DEF NamesInv

LEMMA NotifyAreaNames ==
    ASSUME NamesInv, NEW p \in Procs, NotifyArea(p)
    PROVE  NamesInv' /\ Others(p)
  <1> USE MonitorAssumption DEF NotifyArea, Goto, shared, aux
  <1>1. TypeOK /\ StepOf(p) /\ AreaOf(p) /\ NewFile /\ Announced
    BY DEF NamesInv
  <1>0. FileType /\ LockType /\ StepType /\ CopyType
    BY <1>1, TypeParts
  <1>2. FileType'
    BY <1>0, <1>1, AreaUpdated DEF FileType, StepType
  <1>3. LockType'
    BY <1>0, <1>1, AreaUpdated DEF LockType, StepType, StepOf
  <1>4. StepType'
    BY <1>0, Zeros, <1>1, AreaUpdated DEF FileType, StepType, OpenSteps, CreateSteps, UseSteps
  <1>5. CopyType'
    BY <1>0, Zeros, <1>1, AreaUpdated DEF CopyType, FileType, LockType, StepType
  <1>6. TypeOK'
    BY <1>2, <1>3, <1>4, <1>5, TypeParts
  <1>7. Others(p)
    BY <1>0, <1>1, AreaUpdated DEF Others, StepType, LockType, CopyType
  <1>8. /\ pc[p] = "grow" /\ pc'[p] \in {"link", "remap"}
        /\ job'[p] = job[p] /\ file'[p] = file[p] /\ seen'[p] = seen[p] /\ openLock'[p] = openLock[p]
        /\ bup'[p].inodeVal = bup[p].inodeVal /\ mapped'[p] = mapped[p] /\ want'[p] = want[p]
    BY <1>0, <1>1, AreaUpdated DEF StepType, LockType, CopyType, FileType
  <1>9. StepOf(p)'
    BY <1>0, <1>1, <1>8, Zeros, AreaUpdated DEF StepOf, Opening, Creating, Knowing, OpenSteps, CreateSteps, UseSteps, LockType, FileType, Inodes, StepType
  <1>10. AreaOf(p)'
    BY <1>0, <1>1, <1>8 DEF AreaOf, OpenSteps, CreateSteps, UseSteps, FileType, StepType
  <1>11. inode' = inode /\ (mon.size = "ok" => mon'.size = "ok")
    BY <1>0, <1>1, AreaUpdated DEF LockType
  <1>12. \A i \in Inodes : files[i].areas <= files'[i].areas
    BY <1>0, <1>1, AreaUpdated DEF FileType, StepType
  <1>13. \A q \in Procs : StepOf(q)' /\ AreaOf(q)'
    BY <1>6, <1>7, <1>9, <1>10, <1>11, <1>12, OthersKept
  <1>14. NewFile'
    <2>1. /\ \A i \in Inodes : files[i].areas = 0 => files'[i].areas = 0
          /\ Creating(p)' => /\ Creating(p) /\ file'[p] = file[p]
                             /\ pc[p] \in {"tell", "tellArea"} => pc'[p] \in {"tell", "tellArea"}
      BY <1>1, <1>0, AreaUpdated DEF FileType, StepType, Creating, StepOf, CreateSteps, UseSteps
    <2> QED
      BY <1>7, <1>11, <2>1, FilesKept
  <1>15. Announced'
    <2>1. /\ files'[inode].step = "ready" => files[inode].step = "ready"
          /\ mon'.size = "ok" => mon.size = "ok" /\ mon'.val.inodeVal = mon.val.inodeVal
      BY <1>1, <1>0, AreaUpdated DEF FileType, LockType, Values
    <2> QED
      BY <1>1, <1>11, <2>1, AnnouncedKept
  <1> QED
    BY <1>6, <1>7, <1>13, <1>14, <1>15 DEF NamesInv

LEMMA UseAreaNames ==
    ASSUME NamesInv, NEW p \in Procs, UseArea(p)
    PROVE  NamesInv' /\ Others(p)
  <1> USE MonitorAssumption DEF UseArea, Goto, shared, aux
  <1>1. TypeOK /\ StepOf(p) /\ AreaOf(p) /\ NewFile /\ Announced
    BY DEF NamesInv
  <1>0. FileType /\ LockType /\ StepType /\ CopyType
    BY <1>1, TypeParts
  <1>2. FileType'
    <2>1. file[p] \in Inodes /\ want[p] \in 1 .. files[file[p]].areas /\ want[p] \in Areas
      BY <1>0, <1>1 DEF FileType, StepType, CopyType, AreaOf, Areas
    <2> DEFINE new == [files[file[p]] EXCEPT !.used = files[file[p]].used \cup {want[p]}]
    <2>2. /\ files' = [files EXCEPT ![file[p]] = new] /\ new.used \subseteq 1 .. new.areas
          /\ new \in [step : {"none", "empty", "zero", "head", "ready"},
                      areas : 0 .. MaxAreas, used : SUBSET Areas]
      BY <1>0, <2>1 DEF FileType
    <2>3. UNCHANGED <<readers, inode>> /\ unArea' \in [Inodes -> Procs \cup {NoProc}]
      BY <1>0 DEF FileType
    <2> HIDE DEF new
    <2> QED
      BY <1>0, <2>1, <2>2, <2>3, FileTypeKept
  <1>3. LockType'
    BY <1>0, <1>1 DEF LockType, StepType, StepOf
  <1>4. StepType'
    BY <1>0, Zeros DEF FileType, StepType, OpenSteps, CreateSteps, UseSteps
  <1>5. CopyType'
    BY <1>0, Zeros DEF CopyType, FileType, LockType, StepType
  <1>6. TypeOK'
    BY <1>2, <1>3, <1>4, <1>5, TypeParts
  <1>7. Others(p)
    BY <1>0 DEF Others, StepType, LockType, CopyType
  <1>8. /\ pc[p] = "link" /\ pc'[p] = "idle"
        /\ job'[p] = job[p] /\ file'[p] = file[p] /\ seen'[p] = seen[p] /\ openLock'[p] = openLock[p]
        /\ bup'[p] = bup[p] /\ mapped'[p] = mapped[p] /\ want'[p] = 0
    BY <1>0 DEF StepType, LockType, CopyType, FileType
  <1>9. StepOf(p)'
    BY <1>0, <1>1, <1>8, Zeros DEF StepOf, Opening, Creating, Knowing, OpenSteps, CreateSteps, UseSteps, LockType, FileType, Inodes, StepType
  <1>10. AreaOf(p)'
    <2>1. /\ file[p] \in Inodes /\ files'[file[p]].areas = files[file[p]].areas
          /\ files[file[p]].areas \in Nat
      BY <1>0 DEF FileType, StepType
    <2> QED
      BY <1>1, <1>8, <2>1 DEF AreaOf, OpenSteps, CreateSteps, UseSteps
  <1>11. inode' = inode /\ (mon.size = "ok" => mon'.size = "ok")
    BY <1>0 DEF LockType
  <1>12. \A i \in Inodes : files[i].areas <= files'[i].areas
    BY <1>0 DEF FileType, StepType
  <1>13. \A q \in Procs : StepOf(q)' /\ AreaOf(q)'
    BY <1>6, <1>7, <1>9, <1>10, <1>11, <1>12, OthersKept
  <1>14. NewFile'
    <2>1. /\ \A i \in Inodes : files[i].areas = 0 => files'[i].areas = 0
          /\ Creating(p)' => /\ Creating(p) /\ file'[p] = file[p]
                             /\ pc[p] \in {"tell", "tellArea"} => pc'[p] \in {"tell", "tellArea"}
      BY <1>1, <1>0 DEF FileType, StepType, Creating, StepOf, CreateSteps, UseSteps
    <2> QED
      BY <1>7, <1>11, <2>1, FilesKept
  <1>15. Announced'
    <2>1. /\ files'[inode].step = "ready" => files[inode].step = "ready"
          /\ mon'.size = "ok" => mon.size = "ok" /\ mon'.val.inodeVal = mon.val.inodeVal
      BY <1>1, <1>0 DEF FileType, LockType, Values
    <2> QED
      BY <1>1, <1>11, <2>1, AnnouncedKept
  <1> QED
    BY <1>6, <1>7, <1>13, <1>14, <1>15 DEF NamesInv

LEMMA CreateNames ==
    ASSUME NamesInv, NEW p \in Procs, Create(p)
    PROVE  NamesInv' /\ Others(p)
  <1> USE MonitorAssumption DEF Create, Goto, shared, aux
  <1>1. TypeOK /\ StepOf(p) /\ AreaOf(p) /\ NewFile /\ Announced
    BY DEF NamesInv
  <1>0. FileType /\ LockType /\ StepType /\ CopyType
    BY <1>1, TypeParts
  <1>2. inode' \in Inodes /\ inode' = inode + 1 /\ inode \in Nat /\ Inodes \subseteq Nat
    BY <1>0 DEF FileType, Inodes
  <1>3. FileType' /\ files'[inode'].step = "empty" /\ \A i \in Inodes : files'[i].areas = files[i].areas
    <2> DEFINE new == [files[inode'] EXCEPT !.step = "empty"]
    <2>1. /\ new \in [step : {"none", "empty", "zero", "head", "ready"},
                      areas : 0 .. MaxAreas, used : SUBSET Areas]
          /\ new.used = files[inode'].used /\ new.areas = files[inode'].areas /\ new.step = "empty"
      BY <1>0, <1>2 DEF FileType
    <2>2. files' = [files EXCEPT ![inode'] = new]
      BY <1>0, <1>2 DEF FileType
    <2>3. readers' = readers /\ unArea' = unArea
      OBVIOUS
    <2> HIDE DEF new
    <2> QED
      BY <1>0, <1>2, <2>1, <2>2, <2>3 DEF FileType
  <1>4. StepType' /\ LockType' /\ CopyType'
    BY <1>0, <1>2 DEF StepType, OpenSteps, LockType, CopyType
  <1>5. TypeOK'
    BY <1>3, <1>4, TypeParts
  <1>6. /\ pc[p] = "off" /\ pc'[p] = "open" /\ job'[p] = "create" /\ file'[p] = inode'
        /\ UNCHANGED <<seen, openLock, bup, mapped, want, mon>>
    BY <1>0 DEF StepType
  <1>7. \A q \in Procs : q # p =>
           /\ pc'[q] = pc[q] /\ job'[q] = job[q] /\ file'[q] = file[q]
           /\ ~Opening(q) /\ ~Creating(q) /\ ~Opening(q)' /\ ~Creating(q)'
    BY <1>0 DEF StepType, Opening, Creating
  <1>8. \A q \in Procs : StepOf(q)'
    <2>1. StepOf(p)'
      BY <1>1, <1>2, <1>6 DEF StepOf, OpenSteps, CreateSteps, UseSteps, Knowing
    <2>2. ASSUME NEW q \in Procs, q # p PROVE StepOf(q)'
      <3>1. StepOf(q) /\ file[q] \in Nat
        BY <1>0, <1>2 DEF NamesInv, StepType
      <3>2. pc[q] \notin OpenSteps
        BY <1>7, <2>2 DEF Opening
      <3>3. file[q] <= inode'
        BY <1>2, <3>1 DEF StepOf
      <3> QED
        BY <1>6, <1>7, <2>2, <3>1, <3>2, <3>3 DEF StepOf, OpenSteps
    <2> QED
      BY <2>1, <2>2
  <1>9. \A q \in Procs : AreaOf(q)'
    <2>1. AreaOf(p)'
      <3>1. mapped[p] = {} /\ want[p] = 0
        BY <1>1, <1>6 DEF AreaOf
      <3>2. files'[inode'].areas \in Nat
        BY <1>2, <1>3 DEF FileType
      <3> QED
        BY <1>6, <3>1, <3>2 DEF AreaOf, OpenSteps, CreateSteps, UseSteps
    <2>2. ASSUME NEW q \in Procs, q # p PROVE AreaOf(q)'
      <3>1. AreaOf(q) /\ file[q] \in Inodes
        BY <1>0 DEF NamesInv, StepType
      <3>2. files'[file[q]].areas = files[file[q]].areas
        BY <1>3, <3>1
      <3> QED
        BY <1>6, <1>7, <2>2, <3>1, <3>2 DEF AreaOf
    <2> QED
      BY <2>1, <2>2
  <1>10. NewFile'
    <2>1. files'[inode'].areas = 0
      BY <1>1, <1>2, <1>3 DEF NewFile
    <2>2. (\A i \in Inodes : i > inode => files[i].areas = 0)'
      BY <1>1, <1>2, <1>3 DEF NewFile
    <2> QED
      BY <1>6, <1>7, <2>1, <2>2 DEF NewFile
  <1>11. Announced'
    BY <1>3 DEF Announced
  <1> QED
    BY <1>5, <1>6, <1>7, <1>8, <1>9, <1>10, <1>11 DEF NamesInv, Others

LEMMA NamesInit == Init => NamesInv
  <1> SUFFICES ASSUME Init PROVE NamesInv
    OBVIOUS
  <1> USE MonitorAssumption DEF Init
  <1>1. FileType
    <2>1. 1 \in Areas /\ 1 \in 0 .. MaxAreas /\ 0 \in 0 .. MaxAreas
      BY DEF Areas
    <2> DEFINE first == [step |-> "ready", areas |-> 1, used |-> {1}]
               none == [step |-> "none", areas |-> 0, used |-> {}]
    <2>2. /\ {first, none} \subseteq [step : {"none", "empty", "zero", "head", "ready"},
                                      areas : 0 .. MaxAreas, used : SUBSET Areas]
          /\ first.used \subseteq 1 .. first.areas /\ none.used \subseteq 1 .. none.areas
      BY <2>1
    <2>3. files = [i \in Inodes |-> IF i = 0 THEN first ELSE none]
      OBVIOUS
    <2> HIDE DEF first, none
    <2>4. \A i \in Inodes : files[i] \in {first, none}
      BY <2>3
    <2>5. /\ files \in [Inodes -> [step : {"none", "empty", "zero", "head", "ready"},
                                   areas : 0 .. MaxAreas, used : SUBSET Areas]]
          /\ \A i \in Inodes : files[i].used \subseteq 1 .. files[i].areas
      BY <2>2, <2>3, <2>4
    <2>6. readers \subseteq Procs /\ inode \in Inodes /\ unArea \in [Inodes -> Procs \cup {NoProc}]
      BY Zeros
    <2> QED
      BY <2>5, <2>6 DEF FileType
  <1>2. LockType /\ StepType /\ CopyType
    BY Zeros DEF LockType, StepType, CopyType
  <1>3. TypeOK
    BY <1>1, <1>2, TypeParts
  <1>4. \A p \in Procs : pc[p] = "off" /\ job[p] = "attach" /\ file[p] = 0
                         /\ mapped[p] = {} /\ want[p] = 0 /\ openLock[p] = "none"
    OBVIOUS
  <1>5. \A p \in Procs : StepOf(p)
    BY <1>4 DEF StepOf, Opening, Creating, Knowing, OpenSteps, CreateSteps, UseSteps
  <1>6. \A p \in Procs : AreaOf(p)
    <2>1. files[0].areas = 1
      BY Zeros
    <2> QED
      BY <1>4, <2>1 DEF AreaOf
  <1>7. NewFile /\ Announced
    <2>1. \A i \in Inodes : i > 0 => files[i].areas = 0
      BY Zeros
    <2> QED
      BY <1>4, <2>1 DEF NewFile, Creating, Announced
  <1> QED
    BY <1>3, <1>5, <1>6, <1>7 DEF NamesInv

LEMMA NamesStutter == NamesInv /\ UNCHANGED vars => NamesInv'
  BY DEF NamesInv, vars, shared, aux, TypeOK, StepOf, AreaOf, NewFile, Announced, Opening, Creating

LEMMA NamesNext == NamesInv /\ [Next]_vars => NamesInv'
  <1> SUFFICES ASSUME NamesInv, [Next]_vars PROVE NamesInv'
    OBVIOUS
  <1>1. CASE UNCHANGED vars
    BY <1>1, NamesStutter
  <1>2. CASE Next
    <2> PICK p \in Procs :
          \/ Attach(p) \/ Create(p) \/ Detach(p) \/ Die(p)
          \/ Reload(p) \/ CheckAreaUpdate(p) \/ AddArea(p)
          \/ \E a \in Areas : LookForArea(p, a) \/ AreaIsMissing(p, a)
          \/ Step(p)
      BY <1>2 DEF Next
    <2>1. CASE Attach(p) \/ Create(p) \/ Detach(p) \/ Die(p)
      BY <2>1, AttachNames, CreateNames, DetachNames, DieNames
    <2>2. CASE Reload(p) \/ CheckAreaUpdate(p) \/ AddArea(p)
      BY <2>2, ReloadNames, CheckAreaUpdateNames, AddAreaNames
    <2>3. CASE \E a \in Areas : LookForArea(p, a) \/ AreaIsMissing(p, a)
      BY <2>3, LookForAreaNames, AreaIsMissingNames
    <2>4. CASE OpenStep(p)
      BY <2>4, OpenMonitorNames, WriteLockNames, NoWriteLockNames, ReadLockNames, CheckSizeNames,
         InitializeMonitorNames, ReadCountersNames, UpdateInodeOnOpenNames, BuildMmapInfoNames,
         WrongVersionNames DEF OpenStep
    <2>5. CASE CreateStep(p)
      BY <2>5, ZeroFileNames, WriteVersionNames, FillFileNames, TellInodeNames, TellAreaNames
         DEF CreateStep
    <2>6. CASE UseStep(p)
      BY <2>6, DoAreaUpdateNames, NotifyAreaNames, UseAreaNames DEF UseStep
    <2> QED
      BY <2>1, <2>2, <2>3, <2>4, <2>5, <2>6 DEF Step
  <1> QED
    BY <1>1, <1>2

\* The model's variables keep their types (all of K2HMonitor).
THEOREM TypeCorrect == Spec => []TypeOK
  <1>1. NamesInv => TypeOK
    BY DEF NamesInv
  <1> QED
    BY <1>1, NamesInit, NamesNext, PTL DEF Spec

\* Whatever process replaces the file, and in whatever order processes open,
\* initialise and close the monitor file, a process at work on a replaced file
\* finds that out (UpdateInode, CheckInode).
THEOREM ReplacementIsNoticed == Spec => []ReplacementNoticed
  <1>1. NamesInv => ReplacementNoticed
    <2> SUFFICES ASSUME NamesInv, NEW p \in Procs, Attached(p), file[p] # inode,
                        files[inode].step = "ready"
                 PROVE  ~SameInode(p)
      BY DEF ReplacementNoticed
    <2>1. StepOf(p) /\ Announced
      BY DEF NamesInv
    <2>2. mon.size = "ok" /\ bup[p].inodeVal = file[p]
      BY <2>1 DEF StepOf, Attached, Knowing
    <2> QED
      BY <2>1, <2>2 DEF Announced, SameInode
  <1> QED
    BY <1>1, NamesInit, NamesNext, PTL DEF Spec

-----------------------------------------------------------------------------
\* The area counter and the areas that are mapped

\* The counter is as many changes ahead of a process's copy as `behind' says.
Counted(p) ==
    pc[p] \in Knowing /\ behind[p] < CounterMod =>
        mon.val.areaCnt = IF bup[p].areaCnt + behind[p] < CounterMod
                            THEN bup[p].areaCnt + behind[p]
                            ELSE bup[p].areaCnt + behind[p] - CounterMod

\* A process that is not behind has mapped what is in use, and what is going to
\* be, as an area is announced before a pointer into it gets into the file.
Knows(p) ==
    pc[p] \in {"idle", "grow", "link"} /\ behind[p] = 0 /\ ~HalfMade(p) =>
        /\ files[file[p]].used \subseteq mapped[p]
        /\ \A q \in Procs : file[q] = file[p] /\ pc[q] \in {"link", "remap"} =>
               want[q] \in mapped[p] \cup {0}

\* Nobody has added areas to a file whose creator is about to announce it.
Made(p) ==
    pc[p] \in {"tell", "tellArea"} => files[file[p]].areas = 1 /\ mapped[p] = {1}

AreasInv ==
    /\ NamesInv
    /\ \A p \in Procs : Counted(p) /\ Knows(p) /\ Made(p)
    /\ AddressFound

LEMMA CounterSteps ==
    \A n \in Counter : (n + 1) % CounterMod = IF n + 1 < CounterMod THEN n + 1 ELSE 0
  <1> SUFFICES ASSUME NEW n \in Counter
               PROVE  (n + 1) % CounterMod = IF n + 1 < CounterMod THEN n + 1 ELSE 0
    OBVIOUS
  <1>1. n \in Nat /\ CounterMod \in Nat /\ CounterMod > 0 /\ n + 1 <= CounterMod
    BY MonitorAssumption DEF Counter
  <1>2. CASE n + 1 < CounterMod
    BY <1>1, <1>2
  <1>3. CASE n + 1 = CounterMod
    BY <1>1, <1>3
  <1> QED
    BY <1>1, <1>2, <1>3

\* A copy that is equal to the counter is up to date, but for a whole turn.
LEMMA NotBehind ==
    ASSUME TypeOK, NEW p \in Procs, Counted(p), pc[p] \in Knowing, SameArea(p),
           behind[p] < CounterMod
    PROVE  behind[p] = 0
  <1>1. bup[p].areaCnt \in Nat /\ behind[p] \in Nat /\ CounterMod \in Nat
    BY MonitorAssumption, ValueParts DEF TypeOK
  <1> QED
    BY <1>1 DEF Counted, SameArea

-----------------------------------------------------------------------------
\* The steps that neither change the area counter nor the areas

Plain(p) ==
    /\ Others(p)
    /\ mon'.val.areaCnt = mon.val.areaCnt
    /\ \A i \in Inodes : files'[i].areas = files[i].areas /\ files'[i].used = files[i].used
    /\ \A q \in Procs : q # p => behind'[q] = behind[q]
    /\ AddressFound'

\* The process asks for no area that it has not asked for before.
NoWant(p) ==
    pc'[p] \in {"link", "remap"} =>
        /\ file'[p] = file[p]
        /\ \/ want'[p] \in files[file[p]].used \cup {0}
           \/ want'[p] = want[p] /\ pc[p] \in {"link", "remap"}

LEMMA PlainAreas ==
    ASSUME AreasInv, NamesInv', NEW p \in Procs, Plain(p), NoWant(p),
           Counted(p)', Knows(p)', Made(p)'
    PROVE  AreasInv'
  <1>1. ASSUME NEW q \in Procs, q # p PROVE Counted(q)' /\ Knows(q)' /\ Made(q)'
    <2>1. /\ pc'[q] = pc[q] /\ file'[q] = file[q] /\ bup'[q] = bup[q] /\ mapped'[q] = mapped[q]
          /\ want'[q] = want[q] /\ behind'[q] = behind[q]
      BY <1>1 DEF Plain, Others
    <2>2. file[q] \in Inodes /\ Counted(q) /\ Knows(q) /\ Made(q)
      BY DEF AreasInv, NamesInv, TypeOK
    <2>3. Counted(q)'
      BY <2>1, <2>2 DEF Counted, Plain
    <2>4. Made(q)'
      BY <2>1, <2>2 DEF Made, Plain
    <2>5. Knows(q)'
      <3> SUFFICES ASSUME pc[q] \in {"idle", "grow", "link"}, behind[q] = 0, ~HalfMade(q)
                   PROVE  /\ files'[file[q]].used \subseteq mapped[q]
                          /\ \A r \in Procs : file'[r] = file[q] /\ pc'[r] \in {"link", "remap"} =>
                                 want'[r] \in mapped[q] \cup {0}
        BY <2>1 DEF Knows, HalfMade
      <3>1. /\ files[file[q]].used \subseteq mapped[q]
            /\ \A r \in Procs : file[r] = file[q] /\ pc[r] \in {"link", "remap"} =>
                   want[r] \in mapped[q] \cup {0}
        BY <2>2 DEF Knows
      <3>2. ASSUME NEW r \in Procs, file'[r] = file[q], pc'[r] \in {"link", "remap"}
            PROVE  want'[r] \in mapped[q] \cup {0}
        <4>1. CASE r = p
          BY <3>1, <3>2, <4>1 DEF NoWant
        <4>2. CASE r # p
          BY <3>1, <3>2, <4>2 DEF Plain, Others
        <4> QED
          BY <4>1, <4>2
      <3> QED
        BY <2>2, <3>1, <3>2 DEF Plain
    <2> QED
      BY <2>3, <2>4, <2>5
  <1> QED
    BY <1>1 DEF AreasInv, Plain

\* Such a step after which the process does not know the counter.
LEMMA AwayAreas ==
    ASSUME AreasInv, NamesInv', NEW p \in Procs, Plain(p), pc'[p] \notin Knowing
    PROVE  AreasInv'
  <1>1. NoWant(p) /\ Counted(p)' /\ Knows(p)' /\ Made(p)'
    BY DEF NoWant, Counted, Knows, Made, Knowing, CreateSteps, UseSteps
  <1> QED
    BY <1>1, PlainAreas

LEMMA OpeningAreas ==
    ASSUME AreasInv, NEW p \in Procs,
           OpenMonitor(p) \/ WriteLock(p) \/ NoWriteLock(p) \/ ReadLock(p) \/ CheckSize(p)
    PROVE  AreasInv'
  <1>1. NamesInv /\ NamesInv' /\ Others(p)
    BY OpenMonitorNames, WriteLockNames, NoWriteLockNames, ReadLockNames, CheckSizeNames DEF AreasInv
  <1>2. pc \in [Procs -> {"off"} \cup OpenSteps \cup CreateSteps \cup UseSteps]
    BY <1>1 DEF NamesInv, TypeOK
  <1>3. /\ files' = files /\ UNCHANGED <<behind, missed>> /\ mon'.val = mon.val
        /\ pc'[p] \in {"open", "created", "opened", "tryRead", "size", "init", "map"}
    <2>1. CASE OpenMonitor(p)
      BY <1>1, <1>2, <2>1 DEF OpenMonitor, Goto, aux, NamesInv, TypeOK
    <2>2. CASE WriteLock(p) \/ NoWriteLock(p)
      BY <1>2, <2>2 DEF WriteLock, NoWriteLock, Goto, aux, shared
    <2>3. CASE ReadLock(p) \/ CheckSize(p)
      BY <1>2, <2>3 DEF ReadLock, CheckSize, Goto, aux, shared
    <2> QED
      BY <2>1, <2>2, <2>3
  <1>4. Plain(p) /\ pc'[p] \notin Knowing
    BY <1>1, <1>3 DEF Plain, AreasInv, AddressFound, Knowing, CreateSteps, UseSteps
  <1> QED
    BY <1>1, <1>4, AwayAreas

LEMMA LeavingAreas ==
    ASSUME AreasInv, NEW p \in Procs, Detach(p) \/ Die(p) \/ WrongVersion(p) \/ Reload(p)
    PROVE  AreasInv'
  <1>1. NamesInv /\ NamesInv' /\ Others(p)
    BY DetachNames, DieNames, WrongVersionNames, ReloadNames DEF AreasInv
  <1>2. Leave(p) /\ pc' \in {[pc EXCEPT ![p] = "off"], [pc EXCEPT ![p] = "open"]}
    BY DEF Detach, Die, WrongVersion, Reload, End, Goto
  <1>3. /\ UNCHANGED <<files, mon, missed>>
        /\ \A q \in Procs : q # p => behind'[q] = behind[q]
    BY <1>1, <1>2, HasLeft DEF NamesInv
  <1>4. pc'[p] \in {"off", "open"}
    BY <1>1, <1>2 DEF NamesInv, TypeOK
  <1>5. Plain(p) /\ pc'[p] \notin Knowing
    BY <1>1, <1>3, <1>4 DEF Plain, AreasInv, AddressFound, Knowing, CreateSteps, UseSteps
  <1> QED
    BY <1>1, <1>5, AwayAreas

LEMMA ComingAreas ==
    ASSUME AreasInv, NEW p \in Procs, Attach(p) \/ Create(p)
    PROVE  AreasInv'
  <1>1. NamesInv /\ NamesInv' /\ Others(p)
    BY AttachNames, CreateNames DEF AreasInv
  <1>2. /\ UNCHANGED <<mon, behind, missed>> /\ pc' = [pc EXCEPT ![p] = "open"]
        /\ \A i \in Inodes : files'[i].areas = files[i].areas /\ files'[i].used = files[i].used
    <2>1. CASE Attach(p)
      BY <2>1 DEF Attach, Goto, shared, aux
    <2>2. CASE Create(p)
      BY <1>1, <2>2 DEF Create, Goto, aux, NamesInv, TypeOK
    <2> QED
      BY <2>1, <2>2
  <1>3. pc'[p] = "open"
    BY <1>1, <1>2 DEF NamesInv, TypeOK
  <1>4. Plain(p) /\ pc'[p] \notin Knowing
    BY <1>1, <1>2, <1>3 DEF Plain, AreasInv, AddressFound, Knowing, CreateSteps, UseSteps
  <1> QED
    BY <1>1, <1>4, AwayAreas

\* Whoever sets the counters back is alone.
LEMMA InitializeMonitorAreas ==
    ASSUME AreasInv, NEW p \in Procs, InitializeMonitor(p)
    PROVE  AreasInv'
  <1>1. NamesInv /\ NamesInv' /\ Others(p)
    BY InitializeMonitorNames DEF AreasInv
  <1>2. pc[p] = "init" /\ pc'[p] = "map" /\ missed' = missed
    BY <1>1 DEF InitializeMonitor, Goto, aux, NamesInv, TypeOK
  <1>3. ASSUME NEW q \in Procs PROVE pc'[q] \notin Knowing
    <2>1. CASE q = p
      BY <1>2, <2>1 DEF Knowing, CreateSteps, UseSteps
    <2>2. CASE q # p
      <3>1. openLock[p] = "write" /\ openLock[q] = "none"
        BY <1>1, <1>2, <2>2 DEF NamesInv, StepOf, TypeOK
      <3>2. pc[q] \notin Knowing
        BY <1>1, <3>1 DEF NamesInv, StepOf
      <3> QED
        BY <1>1, <2>2, <3>2 DEF Others
    <2> QED
      BY <2>1, <2>2
  <1>4. \A q \in Procs : (Counted(q) /\ Knows(q) /\ Made(q))'
    BY <1>3 DEF Counted, Knows, Made, Knowing, CreateSteps, UseSteps
  <1> QED
    BY <1>1, <1>2, <1>4 DEF AreasInv, AddressFound

\* A process that has copied the counter is up to date with it.
LEMMA CopiedCounted ==
    ASSUME TypeOK, NEW p \in Procs, bup'[p].areaCnt = mon.val.areaCnt, behind'[p] = 0,
           mon'.val.areaCnt = mon.val.areaCnt
    PROVE  Counted(p)'
  <1>1. mon.val.areaCnt \in Counter
    BY ValueParts DEF TypeOK
  <1>2. mon.val.areaCnt + 0 = mon.val.areaCnt /\ mon.val.areaCnt < CounterMod
    BY <1>1, MonitorAssumption DEF Counter
  <1> QED
    BY <1>2 DEF Counted

LEMMA ReadCountersAreas ==
    ASSUME AreasInv, NEW p \in Procs, ReadCounters(p)
    PROVE  AreasInv'
  <1>1. NamesInv /\ NamesInv' /\ Others(p)
    BY ReadCountersNames DEF AreasInv
  <1>2. TypeOK
    BY <1>1 DEF NamesInv
  <1>3. /\ UNCHANGED <<mon, files, missed>> /\ behind'[p] = 0
        /\ bup'[p].areaCnt = mon.val.areaCnt /\ pc'[p] \in {"inode", "zero"}
        /\ \A q \in Procs : q # p => behind'[q] = behind[q]
    <2>1. bup'[p].areaCnt = mon.val.areaCnt
      BY <1>2 DEF ReadCounters, TypeOK, Values
    <2>2. pc'[p] \in {"inode", "zero"}
      BY <1>2 DEF ReadCounters, TypeOK, Goto
    <2> QED
      BY <1>2, <2>1, <2>2 DEF ReadCounters, TypeOK, shared
  <1>4. Plain(p) /\ NoWant(p) /\ Knows(p)' /\ Made(p)'
    BY <1>1, <1>3 DEF Plain, AreasInv, AddressFound, NoWant, Knows, Made
  <1> QED
    BY <1>1, <1>2, <1>3, <1>4, CopiedCounted, PlainAreas

LEMMA LookingAreas ==
    ASSUME AreasInv, NEW p \in Procs, CheckAreaUpdate(p) \/ \E a \in Areas : LookForArea(p, a)
    PROVE  AreasInv'
  <1>1. NamesInv /\ NamesInv' /\ Others(p)
    BY CheckAreaUpdateNames, LookForAreaNames DEF AreasInv
  <1>2. TypeOK /\ CopyAreaCount(p) /\ UNCHANGED <<mon, files, missed, file>>
    BY <1>1 DEF CheckAreaUpdate, LookForArea, NamesInv, shared
  <1>3. /\ bup'[p].areaCnt = mon.val.areaCnt /\ pc'[p] = "remap" /\ behind'[p] = 0
        /\ \A q \in Procs : q # p => behind'[q] = behind[q]
    <2>1. bup'[p].areaCnt = mon.val.areaCnt /\ pc' = [pc EXCEPT ![p] = "remap"]
      BY <1>2, AreaCopied
    <2>2. pc \in [Procs -> {"off"} \cup OpenSteps \cup CreateSteps \cup UseSteps]
          /\ behind \in [Procs -> 0 .. CounterMod] /\ behind' = [behind EXCEPT ![p] = 0]
      BY <1>2 DEF CopyAreaCount, TypeOK
    <2> QED
      BY <2>1, <2>2
  <1>4. want'[p] \in files[file[p]].used \cup {0}
    <2>1. CASE CheckAreaUpdate(p)
      BY <1>1, <2>1 DEF CheckAreaUpdate, NamesInv, AreaOf
    <2>2. CASE \E a \in Areas : LookForArea(p, a)
      BY <1>2, <2>2 DEF LookForArea, TypeOK
    <2> QED
      BY <2>1, <2>2
  <1>5. Plain(p) /\ NoWant(p) /\ Knows(p)' /\ Made(p)'
    BY <1>1, <1>2, <1>3, <1>4 DEF Plain, AreasInv, AddressFound, NoWant, Knows, Made
  <1> QED
    BY <1>1, <1>2, <1>3, <1>5, CopiedCounted, PlainAreas

\* The copy of the counter is what it was, and so is the counter.
LEMMA SameCounted ==
    ASSUME NEW p \in Procs, Counted(p), pc'[p] \in Knowing => pc[p] \in Knowing,
           bup'[p].areaCnt = bup[p].areaCnt, behind'[p] = behind[p],
           mon'.val.areaCnt = mon.val.areaCnt
    PROVE  Counted(p)'
  BY DEF Counted

LEMMA InodeAreas ==
    ASSUME AreasInv, NEW p \in Procs, UpdateInodeOnOpen(p) \/ TellInode(p)
    PROVE  AreasInv'
  <1>1. NamesInv /\ NamesInv' /\ Others(p) /\ TypeOK /\ Counted(p) /\ Made(p)
    BY UpdateInodeOnOpenNames, TellInodeNames DEF AreasInv, NamesInv
  <1>2. UpdateInode(p) /\ UNCHANGED <<behind, missed, file, mapped>>
    BY DEF UpdateInodeOnOpen, TellInode, aux
  <1>3. bup'[p].areaCnt = bup[p].areaCnt /\ mon'.val.areaCnt = mon.val.areaCnt
    BY <1>1, <1>2, InodeUpdated
  <1>4. /\ \/ pc[p] = "inode" /\ pc'[p] = "build"
           \/ pc[p] = "tell" /\ pc'[p] = "tellArea"
        /\ \A i \in Inodes : files'[i].areas = files[i].areas /\ files'[i].used = files[i].used
    <2>1. CASE UpdateInodeOnOpen(p)
      <3>1. files' = files /\ pc[p] = "inode" /\ pc' = [pc EXCEPT ![p] = "build"]
        BY <2>1 DEF UpdateInodeOnOpen, Goto
      <3>2. pc'[p] = "build"
        BY <1>1, <3>1 DEF TypeOK
      <3> QED
        BY <3>1, <3>2
    <2>2. CASE TellInode(p)
      BY <1>1, <2>2 DEF TellInode, Goto, TypeOK
    <2> QED
      BY <2>1, <2>2
  <1>5. Counted(p)'
    BY <1>1, <1>2, <1>3, <1>4, SameCounted DEF Knowing, CreateSteps
  <1>6. Made(p)'
    BY <1>1, <1>2, <1>4 DEF Made, TypeOK
  <1>7. Plain(p) /\ NoWant(p) /\ Knows(p)'
    BY <1>1, <1>2, <1>3, <1>4 DEF Plain, AreasInv, AddressFound, NoWant, Knows
  <1> QED
    BY <1>1, <1>5, <1>6, <1>7, PlainAreas

LEMMA PreparingAreas ==
    ASSUME AreasInv, NEW p \in Procs, ZeroFile(p) \/ WriteVersion(p)
    PROVE  AreasInv'
  <1>1. NamesInv /\ NamesInv' /\ Others(p) /\ TypeOK /\ Counted(p)
    BY ZeroFileNames, WriteVersionNames DEF AreasInv, NamesInv
  <1>2. /\ UNCHANGED <<behind, missed, bup, mon>>
        /\ pc[p] \in {"zero", "head"} /\ pc'[p] \in {"head", "fill"}
        /\ \A i \in Inodes : files'[i].areas = files[i].areas /\ files'[i].used = files[i].used
    <2>1. CASE ZeroFile(p)
      BY <1>1, <2>1 DEF ZeroFile, Goto, TypeOK, aux
    <2>2. CASE WriteVersion(p)
      BY <1>1, <2>2 DEF WriteVersion, Goto, TypeOK, aux
    <2> QED
      BY <2>1, <2>2
  <1>3. Counted(p)'
    BY <1>1, <1>2, SameCounted DEF Knowing, CreateSteps
  <1>4. Plain(p) /\ NoWant(p) /\ Knows(p)' /\ Made(p)'
    BY <1>1, <1>2 DEF Plain, AreasInv, AddressFound, NoWant, Knows, Made
  <1> QED
    BY <1>1, <1>3, <1>4, PlainAreas

\* A process that has mapped everything knows it all.
LEMMA MappedKnows ==
    ASSUME NamesInv', NEW p \in Procs, mapped'[p] = 1 .. files'[file'[p]].areas
    PROVE  Knows(p)'
  <1>1. /\ \A i \in Inodes : files'[i].used \subseteq 1 .. files'[i].areas
        /\ \A q \in Procs : file'[q] \in Inodes /\ want'[q] \in 0 .. MaxAreas
                            /\ want'[q] <= files'[file'[q]].areas
        /\ \A i \in Inodes : files'[i].areas \in 0 .. MaxAreas
    BY DEF NamesInv, TypeOK, AreaOf
  <1>2. files'[file'[p]].used \subseteq mapped'[p]
    BY <1>1
  <1>3. ASSUME NEW q \in Procs, file'[q] = file'[p] PROVE want'[q] \in mapped'[p] \cup {0}
    <2>1. want'[q] <= files'[file'[p]].areas /\ want'[q] \in 0 .. MaxAreas
          /\ files'[file'[p]].areas \in 0 .. MaxAreas
      BY <1>1, <1>3
    <2>2. MaxAreas \in Nat
      BY MonitorAssumption
    <2> QED
      BY <2>1, <2>2
  <1> QED
    BY <1>2, <1>3 DEF Knows

LEMMA MappingAreas ==
    ASSUME AreasInv, NEW p \in Procs, BuildMmapInfo(p) \/ DoAreaUpdate(p)
    PROVE  AreasInv'
  <1>1. NamesInv /\ NamesInv' /\ Others(p) /\ TypeOK /\ Counted(p) /\ AddressFound /\ AreaOf(p)
    BY BuildMmapInfoNames, DoAreaUpdateNames DEF AreasInv, NamesInv
  <1>2. /\ UNCHANGED <<behind, bup, mon, files, file>>
        /\ mapped'[p] = 1 .. files[file[p]].areas
        /\ pc[p] \in {"build", "remap"} /\ pc'[p] \in {"idle", "link"}
    <2>1. CASE BuildMmapInfo(p)
      BY <1>1, <2>1 DEF BuildMmapInfo, Goto, TypeOK, aux, shared
    <2>2. CASE DoAreaUpdate(p)
      BY <1>1, <2>2 DEF DoAreaUpdate, Goto, TypeOK, shared
    <2> QED
      BY <2>1, <2>2
  <1>3. AddressFound'
    <2>1. CASE BuildMmapInfo(p)
      BY <1>1, <2>1 DEF BuildMmapInfo, AddressFound, aux
    <2>2. CASE DoAreaUpdate(p)
      <3>1. want[p] \in 0 .. MaxAreas /\ want[p] <= files[file[p]].areas
            /\ files[file[p]].areas \in 0 .. MaxAreas /\ MaxAreas \in Nat
        BY <1>1, MonitorAssumption DEF TypeOK, AreaOf
      <3>2. want[p] \in {0} \cup mapped'[p]
        BY <1>2, <3>1
      <3> QED
        BY <1>1, <2>2, <3>2 DEF DoAreaUpdate, AddressFound
    <2> QED
      BY <2>1, <2>2
  <1>4. pc'[p] = "link" => pc[p] = "remap" /\ want'[p] = want[p]
    BY <1>1, <1>2 DEF BuildMmapInfo, DoAreaUpdate, Goto, TypeOK
  <1>5. Counted(p)'
    BY <1>1, <1>2, SameCounted DEF Knowing, UseSteps
  <1>6. Knows(p)'
    BY <1>1, <1>2, MappedKnows
  <1>7. Plain(p) /\ NoWant(p) /\ Made(p)'
    BY <1>1, <1>2, <1>3, <1>4 DEF Plain, NoWant, Made
  <1> QED
    BY <1>1, <1>5, <1>6, <1>7, PlainAreas

\* No process that is up to date misses an area.
LEMMA AreaIsMissingAreas ==
    ASSUME AreasInv, NEW p \in Procs, NEW a \in Areas, AreaIsMissing(p, a)
    PROVE  AreasInv'
  <1>1. NamesInv /\ NamesInv' /\ Others(p) /\ TypeOK /\ Counted(p) /\ Knows(p) /\ Made(p)
    BY AreaIsMissingNames DEF AreasInv, NamesInv
  <1>2. missed' = missed
    <2> SUFFICES ASSUME p \notin readers, behind[p] < CounterMod, ~HalfMade(p)
                 PROVE  FALSE
      BY DEF AreaIsMissing
    <2>1. pc[p] = "idle" /\ SameArea(p) /\ a \in files[file[p]].used \ mapped[p]
      BY DEF AreaIsMissing
    <2>2. behind[p] = 0
      BY <1>1, <2>1, NotBehind DEF Knowing, UseSteps
    <2> QED
      BY <1>1, <2>1, <2>2 DEF Knows
  <1>3. UNCHANGED <<shared, openLock, pc, job, file, seen, bup, mapped, want, behind>>
    BY DEF AreaIsMissing
  <1>4. Plain(p) /\ Counted(p)' /\ Made(p)' /\ NoWant(p)
    BY <1>1, <1>2, <1>3 DEF Plain, AreasInv, AddressFound, Counted, Made, NoWant, shared
  <1>5. Knows(p)'
    BY <1>1, <1>3 DEF Knows, HalfMade, shared
  <1> QED
    BY <1>1, <1>4, <1>5, PlainAreas

-----------------------------------------------------------------------------
\* The steps that add areas, use them or tell of them

\* The first area of a file is put into use; nobody has mapped it yet.
LEMMA FillFileAreas ==
    ASSUME AreasInv, NEW p \in Procs, FillFile(p)
    PROVE  AreasInv'
  <1>1. NamesInv /\ NamesInv' /\ Others(p) /\ TypeOK /\ Counted(p)
    BY FillFileNames DEF AreasInv, NamesInv
  <1>2. /\ UNCHANGED <<behind, missed, bup, mon, file, want>>
        /\ pc[p] = "fill" /\ pc'[p] = "tell" /\ mapped'[p] = {1}
    BY <1>1 DEF FillFile, Goto, TypeOK, aux
  <1>3. /\ file[p] \in Inodes /\ files'[file[p]].areas = 1 /\ files'[file[p]].used = {1}
        /\ \A i \in Inodes : i # file[p] =>
              files'[i].areas = files[i].areas /\ files'[i].used = files[i].used
    BY <1>1 DEF FillFile, TypeOK
  <1>4. Creating(p) /\ files[file[p]].areas = 0
    BY <1>1, <1>2 DEF NamesInv, NewFile, StepOf, Creating, CreateSteps
  <1>5. Counted(p)'
    BY <1>1, <1>2, SameCounted DEF Knowing, CreateSteps
  <1>6. Made(p)' /\ Knows(p)'
    BY <1>2, <1>3 DEF Made, Knows
  <1>7. ASSUME NEW q \in Procs, q # p PROVE Counted(q)' /\ Knows(q)' /\ Made(q)'
    <2>1. /\ pc'[q] = pc[q] /\ mapped'[q] = mapped[q] /\ file[q] \in Inodes
          /\ Counted(q) /\ Knows(q) /\ Made(q)
      BY <1>1, <1>7 DEF Others, AreasInv, TypeOK
    <2>2. Counted(q)'
      BY <1>2, <2>1 DEF Counted
    <2>3. Made(q)'
      <3>1. pc[q] \in {"tell", "tellArea"} => file[q] # file[p]
        BY <1>4, <2>1 DEF Made
      <3> QED
        BY <1>2, <1>3, <2>1, <3>1 DEF Made
    <2>4. Knows(q)'
      <3> SUFFICES ASSUME pc[q] \in {"idle", "grow", "link"}, behind[q] = 0, 1 \in mapped[q]
                   PROVE  /\ files'[file[q]].used \subseteq mapped[q]
                          /\ \A r \in Procs : file[r] = file[q] /\ pc'[r] \in {"link", "remap"} =>
                                 want[r] \in mapped[q] \cup {0}
        BY <1>2, <2>1 DEF Knows, HalfMade
      <3>1. /\ files[file[q]].used \subseteq mapped[q]
            /\ \A r \in Procs : file[r] = file[q] /\ pc[r] \in {"link", "remap"} =>
                   want[r] \in mapped[q] \cup {0}
        BY <2>1 DEF Knows, HalfMade
      <3>2. \A r \in Procs : pc'[r] \in {"link", "remap"} => pc[r] \in {"link", "remap"}
        BY <1>1, <1>2 DEF Others
      <3>3. files'[file[q]].used \subseteq mapped[q]
        BY <1>3, <2>1, <3>1
      <3> QED
        BY <3>1, <3>2, <3>3
    <2> QED
      BY <2>2, <2>3, <2>4
  <1> QED
    BY <1>1, <1>2, <1>5, <1>6, <1>7 DEF AreasInv, AddressFound

\* An area is added, of which no pointer tells yet.
LEMMA AddAreaAreas ==
    ASSUME AreasInv, EarlyUse = FALSE, NEW p \in Procs, AddArea(p)
    PROVE  AreasInv'
  <1>1. NamesInv /\ NamesInv' /\ Others(p) /\ TypeOK /\ Counted(p) /\ Knows(p) /\ AreaOf(p)
    BY AddAreaNames DEF AreasInv, NamesInv
  <1> DEFINE a == files[file[p]].areas + 1
  <1>2. /\ UNCHANGED <<behind, missed, bup, mon, file>>
        /\ pc[p] = "idle" /\ pc'[p] = "grow" /\ mapped'[p] = mapped[p] \cup {a}
        /\ files[file[p]].areas > 0
        /\ \A q \in Procs : Creating(q) => file[q] # file[p]
    BY <1>1 DEF AddArea, Goto, TypeOK, aux
  <1>3. /\ file[p] \in Inodes /\ files[file[p]].areas \in Nat
        /\ \A i \in Inodes : files'[i].used = files[i].used
        /\ \A i \in Inodes : i # file[p] => files'[i].areas = files[i].areas
    BY <1>1, MonitorAssumption DEF AddArea, TypeOK
  <1>4. a # 1
    BY <1>2, <1>3
  <1> HIDE DEF a
  <1>5. Counted(p)'
    BY <1>1, <1>2, SameCounted DEF Knowing, UseSteps
  <1>6. \A r \in Procs : pc'[r] \in {"link", "remap"} => pc[r] = pc'[r] /\ want'[r] = want[r]
    BY <1>1, <1>2 DEF Others
  <1>7. Knows(p)'
    <2> SUFFICES ASSUME behind[p] = 0, 1 \in mapped'[p]
                 PROVE  /\ files'[file[p]].used \subseteq mapped'[p]
                        /\ \A r \in Procs : file[r] = file[p] /\ pc'[r] \in {"link", "remap"} =>
                               want'[r] \in mapped'[p] \cup {0}
      BY <1>2 DEF Knows, HalfMade
    <2>1. 1 \in mapped[p]
      BY <1>2, <1>4
    <2>2. /\ files[file[p]].used \subseteq mapped[p]
          /\ \A r \in Procs : file[r] = file[p] /\ pc[r] \in {"link", "remap"} =>
                 want[r] \in mapped[p] \cup {0}
      BY <1>1, <1>2, <2>1 DEF Knows, HalfMade
    <2> QED
      BY <1>2, <1>3, <1>6, <2>2
  <1>8. Made(p)'
    BY <1>2 DEF Made
  <1>9. ASSUME NEW q \in Procs, q # p PROVE Counted(q)' /\ Knows(q)' /\ Made(q)'
    <2>1. /\ pc'[q] = pc[q] /\ mapped'[q] = mapped[q] /\ file[q] \in Inodes
          /\ Counted(q) /\ Knows(q) /\ Made(q) /\ StepOf(q)
      BY <1>1, <1>9 DEF Others, AreasInv, TypeOK, NamesInv
    <2>2. Counted(q)'
      BY <1>2, <2>1 DEF Counted
    <2>3. Made(q)'
      <3>1. pc[q] \in {"tell", "tellArea"} => file[q] # file[p]
        BY <1>2, <2>1 DEF StepOf, Creating, CreateSteps
      <3> QED
        BY <1>2, <1>3, <2>1, <3>1 DEF Made
    <2>4. Knows(q)'
      BY <1>2, <1>3, <1>6, <2>1 DEF Knows, HalfMade
    <2> QED
      BY <2>2, <2>3, <2>4
  <1> QED
    BY <1>1, <1>2, <1>5, <1>7, <1>8, <1>9 DEF AreasInv, AddressFound

\* A pointer into an area gets into the file: who is not behind has mapped it.
LEMMA UseAreaAreas ==
    ASSUME AreasInv, NEW p \in Procs, UseArea(p)
    PROVE  AreasInv'
  <1>1. NamesInv /\ NamesInv' /\ Others(p) /\ TypeOK /\ Counted(p) /\ Knows(p) /\ AreaOf(p)
    BY UseAreaNames DEF AreasInv, NamesInv
  <1>2. /\ UNCHANGED <<behind, missed, bup, mon, file, mapped>>
        /\ pc[p] = "link" /\ pc'[p] = "idle" /\ want[p] # 0
    BY <1>1 DEF UseArea, Goto, TypeOK, aux, AreaOf
  <1>3. /\ file[p] \in Inodes
        /\ \A i \in Inodes : files'[i].areas = files[i].areas
        /\ \A i \in Inodes : i # file[p] => files'[i].used = files[i].used
        /\ files'[file[p]].used = files[file[p]].used \cup {want[p]}
    BY <1>1 DEF UseArea, TypeOK
  <1>4. Counted(p)'
    BY <1>1, <1>2, SameCounted DEF Knowing, UseSteps
  <1>5. \A r \in Procs : pc'[r] \in {"link", "remap"} => pc[r] = pc'[r] /\ want'[r] = want[r]
    BY <1>1, <1>2 DEF Others
  <1>6. ASSUME NEW q \in Procs PROVE Knows(q)'
    <2>1. pc'[q] \in {"idle", "grow", "link"} => pc[q] \in {"idle", "grow", "link"}
      BY <1>1, <1>2 DEF Others
    <2> SUFFICES ASSUME pc[q] \in {"idle", "grow", "link"}, behind[q] = 0, ~HalfMade(q)
                 PROVE  /\ files'[file[q]].used \subseteq mapped[q]
                        /\ \A r \in Procs : file[r] = file[q] /\ pc'[r] \in {"link", "remap"} =>
                               want'[r] \in mapped[q] \cup {0}
      BY <1>2, <2>1 DEF Knows, HalfMade
    <2>2. /\ files[file[q]].used \subseteq mapped[q] /\ file[q] \in Inodes
          /\ \A r \in Procs : file[r] = file[q] /\ pc[r] \in {"link", "remap"} =>
                 want[r] \in mapped[q] \cup {0}
      BY <1>1 DEF AreasInv, Knows, TypeOK
    <2>3. file[q] = file[p] => want[p] \in mapped[q]
      BY <1>2, <2>2
    <2> QED
      BY <1>3, <1>5, <2>2, <2>3
  <1>7. Made(p)'
    BY <1>2 DEF Made
  <1>8. ASSUME NEW q \in Procs, q # p PROVE Counted(q)' /\ Made(q)'
    <2>1. pc'[q] = pc[q] /\ file[q] \in Inodes /\ Counted(q) /\ Made(q)
      BY <1>1, <1>8 DEF Others, AreasInv, TypeOK
    <2> QED
      BY <1>2, <1>3, <2>1 DEF Counted, Made
  <1> QED
    BY <1>1, <1>2, <1>4, <1>6, <1>7, <1>8 DEF AreasInv, AddressFound

\* The counter is changed: nobody else is up to date any more.
LEMMA UpdateAreaCounted ==
    ASSUME TypeOK, NEW p \in Procs, UpdateArea(p), \A q \in Procs : Counted(q),
           \A q \in Procs : pc'[q] \in Knowing => pc[q] \in Knowing
    PROVE  /\ \A q \in Procs : Counted(q)'
           /\ \A q \in Procs : q # p => behind'[q] # 0
  <1>1. /\ mon'.val.areaCnt = (mon.val.areaCnt + 1) % CounterMod
        /\ bup'[p].areaCnt = mon'.val.areaCnt
        /\ \A q \in Procs : q # p => bup'[q] = bup[q]
    BY AreaUpdated
  <1>2. mon.val.areaCnt \in Counter /\ CounterMod \in Nat \ {0, 1}
    BY MonitorAssumption, ValueParts DEF TypeOK
  <1>3. mon'.val.areaCnt = IF mon.val.areaCnt + 1 < CounterMod THEN mon.val.areaCnt + 1 ELSE 0
    BY <1>1, <1>2, CounterSteps
  <1>4. mon'.val.areaCnt \in Counter
    BY <1>2, <1>3 DEF Counter
  <1>5. behind' = [q \in Procs |->
                     IF q = p /\ (~SameArea(p) \/ behind[p] < CounterMod) THEN 0
                     ELSE IF behind[q] < CounterMod THEN behind[q] + 1 ELSE CounterMod]
    BY DEF UpdateArea
  <1>6. Counted(p)'
    <2>1. behind[p] \in 0 .. CounterMod
      BY DEF TypeOK
    <2>2. behind'[p] \in {0, CounterMod}
      BY <1>5, <2>1
    <2>3. mon'.val.areaCnt + 0 = mon'.val.areaCnt /\ mon'.val.areaCnt < CounterMod
      BY <1>2, <1>4 DEF Counter
    <2> QED
      BY <1>1, <1>2, <2>2, <2>3 DEF Counted
  <1>7. ASSUME NEW q \in Procs, q # p PROVE Counted(q)' /\ behind'[q] # 0
    <2>1. behind[q] \in 0 .. CounterMod /\ bup[q].areaCnt \in Counter /\ bup'[q] = bup[q]
      BY <1>1, <1>7, ValueParts DEF TypeOK
    <2>2. behind'[q] = IF behind[q] < CounterMod THEN behind[q] + 1 ELSE CounterMod
      BY <1>5, <1>7
    <2>3. behind'[q] # 0
      BY <1>2, <2>1, <2>2
    <2>4. ASSUME pc[q] \in Knowing, behind'[q] < CounterMod
          PROVE  mon'.val.areaCnt = IF bup[q].areaCnt + behind'[q] < CounterMod
                                      THEN bup[q].areaCnt + behind'[q]
                                      ELSE bup[q].areaCnt + behind'[q] - CounterMod
      <3>1. behind[q] < CounterMod /\ behind'[q] = behind[q] + 1
        BY <1>2, <2>1, <2>2, <2>4
      <3>2. mon.val.areaCnt = IF bup[q].areaCnt + behind[q] < CounterMod
                                THEN bup[q].areaCnt + behind[q]
                                ELSE bup[q].areaCnt + behind[q] - CounterMod
        BY <2>4, <3>1 DEF Counted
      <3> QED
        BY <1>2, <1>3, <2>1, <2>4, <3>1, <3>2 DEF Counter
    <2> QED
      BY <2>1, <2>3, <2>4 DEF Counted
  <1> QED
    BY <1>6, <1>7

LEMMA TellingAreas ==
    ASSUME AreasInv, NEW p \in Procs, TellArea(p) \/ NotifyArea(p)
    PROVE  AreasInv'
  <1>1. NamesInv /\ NamesInv' /\ Others(p) /\ TypeOK /\ AreaOf(p) /\ Counted(p) /\ Knows(p) /\ Made(p)
    BY TellAreaNames, NotifyAreaNames DEF AreasInv, NamesInv
  <1>2. UpdateArea(p) /\ UNCHANGED <<files, file, mapped, want, missed>>
    BY DEF TellArea, NotifyArea
  <1>3. \/ pc[p] = "tellArea" /\ pc'[p] = "idle"
        \/ pc[p] = "grow" /\ pc'[p] = "link" /\ SameArea(p)
        \/ pc[p] = "grow" /\ pc'[p] = "remap"
    BY <1>1 DEF TellArea, NotifyArea, Goto, TypeOK
  <1>4. \A q \in Procs : pc'[q] \in Knowing => pc[q] \in Knowing
    BY <1>1, <1>3 DEF Others, Knowing, CreateSteps, UseSteps
  <1>5. /\ \A q \in Procs : Counted(q)'
        /\ \A q \in Procs : q # p => behind'[q] # 0
    <2>1. \A q \in Procs : Counted(q)
      BY DEF AreasInv
    <2> QED
      BY <1>1, <1>2, <1>4, <2>1, UpdateAreaCounted
  <1>6. \A q \in Procs : Made(q)'
    <2>1. \A q \in Procs : pc'[q] \in {"tell", "tellArea"} => pc[q] \in {"tell", "tellArea"}
      BY <1>1, <1>3 DEF Others
    <2> QED
      BY <1>2, <2>1 DEF AreasInv, Made
  <1>7. Knows(p)'
    <2>1. CASE pc[p] = "tellArea"
      <3>1. mapped'[p] = {1} /\ files'[file'[p]].areas = 1
        BY <1>1, <1>2, <2>1 DEF Made
      <3>2. mapped'[p] = 1 .. files'[file'[p]].areas
        BY <3>1
      <3> QED
        BY <1>1, <3>2, MappedKnows
    <2>2. CASE pc[p] = "grow" /\ pc'[p] = "link" /\ SameArea(p)
      <3> SUFFICES ASSUME behind'[p] = 0, ~HalfMade(p)
                   PROVE  /\ files[file[p]].used \subseteq mapped[p]
                          /\ \A r \in Procs : file[r] = file[p] /\ pc'[r] \in {"link", "remap"} =>
                                 want[r] \in mapped[p] \cup {0}
        BY <1>2 DEF Knows, HalfMade
      <3>1. behind[p] < CounterMod
        <4>1. behind[p] \in 0 .. CounterMod /\ CounterMod \in Nat \ {0}
          BY <1>1, MonitorAssumption DEF TypeOK
        <4> QED
          BY <1>2, <2>2, <4>1 DEF UpdateArea
      <3>2. behind[p] = 0
        BY <1>1, <2>2, <3>1, NotBehind DEF Knowing, UseSteps
      <3>3. /\ files[file[p]].used \subseteq mapped[p]
            /\ \A r \in Procs : file[r] = file[p] /\ pc[r] \in {"link", "remap"} =>
                   want[r] \in mapped[p] \cup {0}
        BY <1>1, <2>2, <3>2 DEF Knows
      <3>4. want[p] \in mapped[p]
        BY <1>1, <2>2 DEF AreaOf
      <3> QED
        BY <1>1, <3>3, <3>4 DEF Others
    <2>3. CASE pc'[p] = "remap"
      BY <2>3 DEF Knows
    <2> QED
      BY <1>3, <2>1, <2>2, <2>3
  <1>8. \A q \in Procs : Knows(q)'
    BY <1>5, <1>7 DEF Knows
  <1> QED
    BY <1>1, <1>2, <1>5, <1>6, <1>8 DEF AreasInv, AddressFound

-----------------------------------------------------------------------------
\* All steps

LEMMA AreasInit == Init => AreasInv
  <1> SUFFICES ASSUME Init PROVE AreasInv
    OBVIOUS
  <1>1. \A p \in Procs : pc[p] = "off"
    BY DEF Init
  <1>2. \A p \in Procs : Counted(p) /\ Knows(p) /\ Made(p)
    BY <1>1 DEF Counted, Knows, Made, Knowing, CreateSteps, UseSteps
  <1> QED
    BY <1>2, NamesInit DEF AreasInv, AddressFound, Init

LEMMA AreasStutter == AreasInv /\ UNCHANGED vars => AreasInv'
  <1> SUFFICES ASSUME AreasInv, UNCHANGED vars PROVE AreasInv'
    OBVIOUS
  <1>1. NamesInv'
    BY NamesStutter DEF AreasInv
  <1>2. \A p \in Procs : (Counted(p) /\ Knows(p) /\ Made(p))'
    BY DEF AreasInv, Counted, Knows, Made, HalfMade, vars, shared, aux
  <1> QED
    BY <1>1, <1>2 DEF AreasInv, AddressFound, vars, aux

LEMMA AreasNext == EarlyUse = FALSE /\ AreasInv /\ [Next]_vars => AreasInv'
  <1> SUFFICES ASSUME EarlyUse = FALSE, AreasInv, [Next]_vars PROVE AreasInv'
    OBVIOUS
  <1>1. CASE UNCHANGED vars
    BY <1>1, AreasStutter
  <1>2. CASE Next
    <2> PICK p \in Procs :
          \/ Attach(p) \/ Create(p) \/ Detach(p) \/ Die(p)
          \/ Reload(p) \/ CheckAreaUpdate(p) \/ AddArea(p)
          \/ \E a \in Areas : LookForArea(p, a) \/ AreaIsMissing(p, a)
          \/ Step(p)
      BY <1>2 DEF Next
    <2>1. CASE Attach(p) \/ Create(p)
      BY <2>1, ComingAreas
    <2>2. CASE Detach(p) \/ Die(p) \/ Reload(p) \/ WrongVersion(p)
      BY <2>2, LeavingAreas
    <2>3. CASE CheckAreaUpdate(p) \/ \E a \in Areas : LookForArea(p, a)
      BY <2>3, LookingAreas
    <2>4. CASE AddArea(p) \/ \E a \in Areas : AreaIsMissing(p, a)
      BY <2>4, AddAreaAreas, AreaIsMissingAreas
    <2>5. CASE OpenStep(p)
      BY <2>2, <2>5, OpeningAreas, InitializeMonitorAreas, ReadCountersAreas, InodeAreas, MappingAreas
         DEF OpenStep
    <2>6. CASE CreateStep(p)
      BY <2>6, PreparingAreas, FillFileAreas, InodeAreas, TellingAreas DEF CreateStep
    <2>7. CASE UseStep(p)
      BY <2>7, MappingAreas, TellingAreas, UseAreaAreas DEF UseStep
    <2> QED
      BY <2>1, <2>2, <2>3, <2>4, <2>5, <2>6, <2>7 DEF Step
  <1> QED
    BY <1>1, <1>2

\* However many areas are added, by whom and in whatever order with the reading
\* of the counter, a process that is up to date with it has mapped all that are
\* in use, and none follows a pointer into an area that it cannot find, if files
\* are not used before their creators are done (AddArea, UpdateArea, CheckArea).
THEOREM AllAreasAreFound == ASSUME EarlyUse = FALSE PROVE Spec => []AreasFound
  <1>1. AreasInv => AreasFound
    <2> SUFFICES ASSUME AreasInv PROVE MappingIsComplete
      BY DEF AreasFound, AreasInv
    <2> SUFFICES ASSUME NEW p \in Procs, pc[p] = "idle", SameArea(p), behind[p] < CounterMod,
                        ~HalfMade(p)
                 PROVE  files[file[p]].used \subseteq mapped[p]
      BY DEF MappingIsComplete, AreasInv, NamesInv, TypeOK
    <2>1. TypeOK /\ Counted(p) /\ Knows(p)
      BY DEF AreasInv, NamesInv
    <2>2. behind[p] = 0
      BY <2>1, NotBehind DEF Knowing, UseSteps
    <2> QED
      BY <2>1, <2>2 DEF Knows
  <1>2. AreasInv /\ [Next]_vars => AreasInv'
    BY AreasNext
  <1> QED
    BY <1>1, <1>2, AreasInit, PTL DEF Spec

-----------------------------------------------------------------------------
\* The counters while somebody watches them

KeptCounters ==
    /\ mon'.val.areaCnt \in {mon.val.areaCnt, (mon.val.areaCnt + 1) % CounterMod}
    /\ mon'.val.inodeCnt # mon.val.inodeCnt <=> mon'.val.inodeVal # mon.val.inodeVal

\* Another inode is another count, as a counter has more than one value.
LEMMA InodeCounts == ASSUME TypeOK, NEW p \in Procs, UpdateInode(p) PROVE KeptCounters
  <1>1. /\ mon \in [size : {"none", "empty", "ok"}, val : Values] /\ mon.val \in Values
        /\ mon.val.inodeCnt \in Counter /\ mon'.val.areaCnt = mon.val.areaCnt
    BY ValueParts, InodeUpdated DEF TypeOK
  <1>2. CASE mon.val.inodeVal = inode
    BY <1>1, <1>2 DEF UpdateInode, KeptCounters
  <1>3. CASE mon.val.inodeVal # inode
    <2> DEFINE new == [mon.val EXCEPT !.inodeCnt = (@ + 1) % CounterMod, !.inodeVal = inode]
    <2>1. new.inodeCnt = (mon.val.inodeCnt + 1) % CounterMod /\ new.inodeVal = inode
      BY <1>1 DEF Values
    <2>2. mon' = [mon EXCEPT !.val = new]
      BY <1>3 DEF UpdateInode
    <2> HIDE DEF new
    <2>3. mon'.val = new
      BY <1>1, <2>2
    <2>4. (mon.val.inodeCnt + 1) % CounterMod # mon.val.inodeCnt
      <3>1. mon.val.inodeCnt \in Nat /\ CounterMod \in Nat \ {0, 1}
        BY <1>1, MonitorAssumption DEF Counter
      <3> QED
        BY <1>1, <3>1, CounterSteps
    <2> QED
      BY <1>1, <1>3, <2>1, <2>3, <2>4 DEF KeptCounters
  <1> QED
    BY <1>2, <1>3

LEMMA AreaCounts == ASSUME TypeOK, NEW p \in Procs, UpdateArea(p) PROVE KeptCounters
  <1>1. mon \in [size : {"none", "empty", "ok"}, val : Values] /\ mon.val \in Values
    BY DEF TypeOK
  <1> DEFINE new == [mon.val EXCEPT !.areaCnt = (mon.val.areaCnt + 1) % CounterMod]
  <1>2. /\ new.areaCnt = (mon.val.areaCnt + 1) % CounterMod
        /\ new.inodeCnt = mon.val.inodeCnt /\ new.inodeVal = mon.val.inodeVal
    BY <1>1 DEF Values
  <1>3. mon' = [mon EXCEPT !.val = new]
    BY <1>1 DEF UpdateArea
  <1> HIDE DEF new
  <1>4. mon'.val = new
    BY <1>1, <1>3
  <1> QED
    BY <1>2, <1>4 DEF KeptCounters

\* Whatever the others do, nobody sets the counters back while a process has the
\* monitor file open, and they go up one by one (InitializeFileMonitor).
THEOREM NobodyResetsCounters == Spec => CountersKept
  <1>1. ASSUME NamesInv, [Next]_vars, NEW p \in Procs, pc[p] \in Knowing, pc'[p] \in Knowing
        PROVE  KeptCounters
    <2>1. TypeOK
      BY <1>1 DEF NamesInv
    <2>2. CASE mon'.val = mon.val
      BY <2>2 DEF KeptCounters
    <2>3. CASE Next
      <3> PICK q \in Procs :
            \/ Attach(q) \/ Create(q) \/ Detach(q) \/ Die(q)
            \/ Reload(q) \/ CheckAreaUpdate(q) \/ AddArea(q)
            \/ \E a \in Areas : LookForArea(q, a) \/ AreaIsMissing(q, a)
            \/ Step(q)
        BY <2>3 DEF Next
      <3>1. CASE UpdateInodeOnOpen(q) \/ TellInode(q)
        BY <2>1, <3>1, InodeCounts DEF UpdateInodeOnOpen, TellInode
      <3>2. CASE TellArea(q) \/ NotifyArea(q)
        BY <2>1, <3>2, AreaCounts DEF TellArea, NotifyArea
      <3>3. CASE InitializeMonitor(q)
        <4>1. pc[q] = "init" /\ openLock[q] = "write"
          BY <1>1, <3>3 DEF InitializeMonitor, NamesInv, StepOf
        <4>2. openLock[p] = "read"
          BY <1>1 DEF NamesInv, StepOf
        <4> QED
          BY <2>1, <4>1, <4>2 DEF TypeOK
      <3>4. CASE Attach(q) \/ Create(q) \/ CheckAreaUpdate(q) \/ AddArea(q)
                 \/ \E a \in Areas : LookForArea(q, a) \/ AreaIsMissing(q, a)
        BY <2>2, <3>4 DEF Attach, Create, CheckAreaUpdate, AddArea, LookForArea, AreaIsMissing, shared
      <3>5. CASE Detach(q) \/ Die(q) \/ WrongVersion(q) \/ Reload(q)
        BY <2>2, <3>5 DEF Detach, Die, WrongVersion, Reload, End, Leave
      <3>6. CASE OpenMonitor(q)
        BY <2>1, <2>2, <3>6 DEF OpenMonitor, TypeOK
      <3>7. CASE WriteLock(q) \/ NoWriteLock(q) \/ ReadLock(q) \/ CheckSize(q) \/ ReadCounters(q)
                 \/ BuildMmapInfo(q)
        BY <2>2, <3>7 DEF WriteLock, NoWriteLock, ReadLock, CheckSize, ReadCounters, BuildMmapInfo,
           shared
      <3>8. CASE ZeroFile(q) \/ WriteVersion(q) \/ FillFile(q) \/ DoAreaUpdate(q) \/ UseArea(q)
        BY <2>2, <3>8 DEF ZeroFile, WriteVersion, FillFile, DoAreaUpdate, UseArea, shared
      <3> QED
        BY <3>1, <3>2, <3>3, <3>4, <3>5, <3>6, <3>7, <3>8 DEF Step, OpenStep, CreateStep, UseStep
    <2> QED
      BY <1>1, <2>2, <2>3 DEF vars, shared
  <1>2. NamesInv /\ [Next]_vars =>
          [\A p \in Procs :
             /\ pc[p] \in {"inode", "build"} \cup CreateSteps \cup UseSteps
             /\ pc'[p] \in {"inode", "build"} \cup CreateSteps \cup UseSteps
             => /\ mon'.val.areaCnt \in {mon.val.areaCnt, (mon.val.areaCnt + 1) % CounterMod}
                /\ mon'.val.inodeCnt # mon.val.inodeCnt <=> mon'.val.inodeVal # mon.val.inodeVal]_vars
    BY <1>1 DEF Knowing, KeptCounters
  <1> QED
    BY <1>2, NamesInit, NamesNext, PTL DEF Spec, CountersKept

=============================================================================
