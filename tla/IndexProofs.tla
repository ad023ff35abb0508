----------------------------- MODULE IndexProofs -----------------------------
(***************************************************************************)
(* Theorems about the parts of Index, for any instances of them: the lock  *)
(* of an index, whatever threads of other processes do to its file, the    *)
(* calls of git, the lists of modules, and the rows of calls and of        *)
(* descriptors that an update leaves.                                      *)
(***************************************************************************)
EXTENDS Index, FiniteSetTheorems, TLAPS

-----------------------------------------------------------------------------
(***************************************************************************)
(* The build lock: what it promises one process holds in all of them, for  *)
(* any threads, any assignment of threads to processes and any bounds.     *)
(***************************************************************************)

(* Where a thread is inside "with _active_locks_lock". *)
Busy == {"open", "flock", "unlock", "unlink"}

(* The record of a process names a thread of it that is inside and that holds
   the flock of the descriptor on record. *)
RecordOf(p) ==
  /\ owner[p] = NoThread <=> depth[p] = 0
  /\ owner[p] # NoThread =>
       /\ ProcOf[owner[p]] = p
       /\ pc[owner[p]] = "held"
       /\ calls[owner[p]] = depth[p]
       /\ fd[p] \in Inodes
       /\ flocked[fd[p]] = owner[p]

Recorded == \A p \in Procs : RecordOf(p)

(* A thread is inside exactly between acquire and release, and then on record. *)
InsideRecorded ==
  \A t \in Threads :
    /\ pc[t] = "held" <=> Inside(t)
    /\ pc[t] = "held" => owner[ProcOf[t]] = t

(* The threading lock excludes; under it the process holds no index lock. *)
MutexHeld ==
  /\ \A t \in Threads :
       pc[t] \in Busy => mutex[ProcOf[t]] = t /\ owner[ProcOf[t]] = NoThread
  /\ \A p \in Procs :
       mutex[p] # NoThread => ProcOf[mutex[p]] = p /\ pc[mutex[p]] \in Busy

(* The descriptor a thread works on under the threading lock. *)
Descriptors ==
  \A t \in Threads :
    /\ pc[t] \in {"flock", "unlock"} => tmp[t] \in Inodes
    /\ pc[t] = "unlock" => flocked[tmp[t]] = t

(* Every flock is that of a record or is about to be dropped. *)
FlocksAccounted ==
  \A i \in Inodes : flocked[i] # NoThread =>
    \/ Inside(flocked[i]) /\ fd[ProcOf[flocked[i]]] = i
    \/ pc[flocked[i]] = "unlock" /\ tmp[flocked[i]] = i

IInv == TypeOK /\ Recorded /\ InsideRecorded /\ MutexHeld /\ Descriptors /\ FlocksAccounted

-----------------------------------------------------------------------------
(* The initial state satisfies the inductive invariant. *)
LEMMA InitIInv == Init => IInv
  BY BuildLockAssumption DEF Init, IInv, TypeOK, Recorded, InsideRecorded, MutexHeld,
     Descriptors,
     FlocksAccounted, RecordOf, Inside, Busy, Procs, Inodes, NoInode, Pc

(* Where two threads of a process can stand at the same time. *)
LEMMA OneAtATime ==
  ASSUME IInv, NEW t \in Threads, NEW u \in Threads, t # u, ProcOf[u] = ProcOf[t]
  PROVE  /\ pc[t] \in Busy => pc[u] = "out"
         /\ pc[t] = "held" => pc[u] = "out"
         /\ mutex[ProcOf[t]] = NoThread => pc[u] \notin Busy
  <1>1. ProcOf[t] \in Procs /\ pc[u] \in Pc /\ NoThread \notin Threads
    BY BuildLockAssumption DEF IInv, TypeOK, Procs
  <1> QED BY <1>1 DEF IInv, InsideRecorded, MutexHeld, Busy, Pc

(* A thread that is not inside moves, and no record changes. *)
LEMMA RecordKept ==
  ASSUME IInv, NEW t \in Threads, pc[t] # "held", NEW q, Goto(t, q),
         UNCHANGED <<flocked, recVars, calls>>
  PROVE  Recorded'
  <1>1. pc' = [pc EXCEPT ![t] = q] /\ pc \in [Threads -> Pc]
    BY DEF Goto, IInv, TypeOK
  <1>2. ASSUME NEW p \in Procs PROVE RecordOf(p)'
    <2>1. RecordOf(p) /\ owner[p] \in Threads \cup {NoThread}
      BY <1>2 DEF IInv, Recorded, TypeOK
    <2>2. CASE owner[p] = NoThread
      BY <2>1, <2>2 DEF RecordOf, recVars
    <2>3. CASE owner[p] # NoThread
      <3>1. owner[p] # t /\ owner[p] \in Threads
        BY <2>1, <2>3 DEF RecordOf
      <3>2. pc'[owner[p]] = pc[owner[p]]
        BY <1>1, <3>1
      <3> QED BY <2>1, <2>3, <3>2 DEF RecordOf, recVars, Inodes
    <2> QED BY <2>2, <2>3
  <1> QED BY <1>2 DEF Recorded, Procs

(* An acquisition that is released without the lock is a nested one. *)
LEMMA NestedCalls ==
  ASSUME IInv, NEW t \in Threads, ReleaseNested(t)
  PROVE  calls[t] > 1
  <1>1. /\ owner[ProcOf[t]] = t /\ calls[t] > 0 /\ ProcOf[t] \in Procs
        /\ calls \in [Threads -> 0..MaxDepth]
    BY DEF ReleaseNested, IInv, TypeOK, InsideRecorded, Inside, Procs
  <1>2. depth[ProcOf[t]] = calls[t] /\ depth[ProcOf[t]] # 1
    BY <1>1, BuildLockAssumption DEF ReleaseNested, Outermost, IInv, Recorded, RecordOf
  <1> QED BY <1>1, <1>2, BuildLockAssumption

(* Every step keeps the types. *)
LEMMA TypeStep == IInv /\ [Next]_vars => TypeOK'
  <1> SUFFICES ASSUME IInv, [Next]_vars PROVE TypeOK'
    OBVIOUS
  <1>1. ASSUME NEW t \in Threads, AcquireBegin(t) PROVE TypeOK'
    BY <1>1 DEF AcquireBegin, Enter, Guarded, Goto, IInv, TypeOK, Pc, fileVars, recVars
  <1>2. ASSUME NEW t \in Threads, Reenter(t) PROVE TypeOK'
    BY <1>2, BuildLockAssumption DEF Reenter, Guarded, MayReenter, Goto, IInv, TypeOK, Recorded,
       RecordOf, Procs, fileVars
  <1>3. ASSUME NEW t \in Threads, Open(t) PROVE TypeOK'
    <2>1. created \in 0..MaxInodes /\ MaxInodes \in Nat
      BY BuildLockAssumption DEF IInv, TypeOK
    <2>2. created < MaxInodes => created + 1 \in 1..MaxInodes /\ created + 1 \in 0..MaxInodes
      BY <2>1
    <2>3. linked' \in Inodes \cup {NoInode} /\ created' \in 0..MaxInodes
      BY <1>3, <2>2 DEF Open, IInv, TypeOK, Inodes
    <2>4. tmp' \in [Threads -> Inodes \cup {NoInode}]
      BY <1>3, <2>2 DEF Open, IInv, TypeOK, Inodes
    <2>5. pc' \in [Threads -> Pc]
      BY <1>3 DEF Open, Goto, IInv, TypeOK, Pc
    <2> QED BY <1>3, <2>3, <2>4, <2>5 DEF Open, IInv, TypeOK, recVars
  <1>4. ASSUME NEW t \in Threads, OpenFails(t) PROVE TypeOK'
    BY <1>4 DEF OpenFails, Leave, Goto, IInv, TypeOK, Pc, fileVars, recVars
  <1>5. ASSUME NEW t \in Threads, FlockOk(t) PROVE TypeOK'
    BY <1>5, BuildLockAssumption DEF FlockOk, FlockFree, Leave, Goto, IInv, TypeOK, Descriptors,
       Procs, Pc
  <1>6. ASSUME NEW t \in Threads, FlockBusy(t) PROVE TypeOK'
    BY <1>6 DEF FlockBusy, FlockFree, Leave, Goto, IInv, TypeOK, Pc, fileVars, recVars
  <1>7. ASSUME NEW t \in Threads, ReleaseNested(t) PROVE TypeOK'
    BY <1>7, BuildLockAssumption DEF ReleaseNested, Guarded, Outermost, Drop, IInv, TypeOK,
       Recorded, RecordOf, InsideRecorded, Procs, Inodes, NoInode, Pc, fileVars
  <1>8. ASSUME NEW t \in Threads, ReleaseBegin(t) PROVE TypeOK'
    BY <1>8, BuildLockAssumption DEF ReleaseBegin, Guarded, Outermost, Enter, Drop, Goto, IInv,
       TypeOK, InsideRecorded, Inside, Procs, Pc, fileVars
  <1>9. ASSUME NEW t \in Threads, Unlock(t) PROVE TypeOK'
    BY <1>9 DEF Unlock, Goto, IInv, TypeOK, Pc, recVars
  <1>10. ASSUME NEW t \in Threads, Unlink(t) PROVE TypeOK'
    BY <1>10 DEF Unlink, Leave, Goto, IInv, TypeOK, Pc, recVars
  <1>11. ASSUME NEW p \in Procs, Crash(p) PROVE TypeOK'
    BY <1>11, BuildLockAssumption DEF Crash, IInv, TypeOK, Pc
  <1>12. CASE UNCHANGED vars
    BY <1>12 DEF vars, IInv, TypeOK, fileVars, recVars
  <1> QED BY <1>1, <1>2, <1>3, <1>4, <1>5, <1>6, <1>7, <1>8, <1>9, <1>10, <1>11, <1>12
     DEF Next, Step

(* Every step keeps the records true. *)
LEMMA RecordStep == IInv /\ [Next]_vars => Recorded'
  <1> SUFFICES ASSUME IInv, [Next]_vars PROVE Recorded'
    OBVIOUS
  <1>1. ASSUME NEW t \in Threads, AcquireBegin(t) PROVE Recorded'
    <2>1. pc[t] # "held" /\ Goto(t, "open") /\ UNCHANGED <<flocked, recVars, calls>>
      BY <1>1 DEF AcquireBegin, fileVars
    <2> QED BY <2>1, RecordKept
  <1>2. ASSUME NEW t \in Threads, Reenter(t) PROVE Recorded'
    <2>1. /\ pc' = [pc EXCEPT ![t] = "held"] /\ pc \in [Threads -> Pc]
          /\ calls' = [calls EXCEPT ![t] = @ + 1] /\ calls \in [Threads -> 0..MaxDepth]
          /\ depth' = [depth EXCEPT ![ProcOf[t]] = @ + 1] /\ depth \in [Procs -> 0..MaxDepth]
          /\ UNCHANGED <<owner, fd, flocked>> /\ owner[ProcOf[t]] = t /\ MaxDepth \in Nat
      BY <1>2, BuildLockAssumption DEF Reenter, MayReenter, Goto, fileVars, IInv, TypeOK
    <2>2. ASSUME NEW p \in Procs PROVE RecordOf(p)'
      <3>1. RecordOf(p) /\ owner[p] \in Threads \cup {NoThread}
        BY <2>2 DEF IInv, Recorded, TypeOK
      <3>2. CASE p = ProcOf[t]
        BY <2>1, <3>1, <3>2, BuildLockAssumption DEF RecordOf, Inodes
      <3>3. CASE p # ProcOf[t]
        <4>1. owner[p] # t /\ depth'[p] = depth[p]
          BY <2>1, <3>1, <3>3, BuildLockAssumption DEF RecordOf
        <4>2. owner[p] # NoThread => pc'[owner[p]] = pc[owner[p]] /\ calls'[owner[p]] = calls[owner[p]]
          BY <2>1, <3>1, <4>1
        <4> QED BY <2>1, <3>1, <4>1, <4>2 DEF RecordOf, Inodes
      <3> QED BY <3>2, <3>3
    <2> QED BY <2>2 DEF Recorded, Procs
  <1>3. ASSUME NEW t \in Threads, Open(t) PROVE Recorded'
    <2>1. pc[t] # "held" /\ Goto(t, "flock") /\ UNCHANGED <<flocked, recVars, calls>>
      BY <1>3 DEF Open, fileVars
    <2> QED BY <2>1, RecordKept
  <1>4. ASSUME NEW t \in Threads, OpenFails(t) PROVE Recorded'
    <2>1. pc[t] # "held" /\ Goto(t, "out") /\ UNCHANGED <<flocked, recVars, calls>>
      BY <1>4 DEF OpenFails, fileVars
    <2> QED BY <2>1, RecordKept
  <1>5. ASSUME NEW t \in Threads, FlockOk(t) PROVE Recorded'
    <2>1. /\ pc' = [pc EXCEPT ![t] = "held"] /\ pc \in [Threads -> Pc] /\ pc[t] = "flock"
          /\ flocked' = [flocked EXCEPT ![tmp[t]] = t] /\ flocked[tmp[t]] = NoThread
          /\ flocked \in [Inodes -> Threads \cup {NoThread}] /\ tmp[t] \in Inodes
          /\ owner' = [owner EXCEPT ![ProcOf[t]] = t] /\ owner \in [Procs -> Threads \cup {NoThread}]
          /\ depth' = [depth EXCEPT ![ProcOf[t]] = 1] /\ depth \in [Procs -> 0..MaxDepth]
          /\ fd' = [fd EXCEPT ![ProcOf[t]] = tmp[t]] /\ fd \in [Procs -> Inodes \cup {NoInode}]
          /\ calls' = [calls EXCEPT ![t] = 1] /\ calls \in [Threads -> 0..MaxDepth]
      BY <1>5 DEF FlockOk, FlockFree, Goto, IInv, TypeOK, Descriptors
    <2>2. ASSUME NEW p \in Procs PROVE RecordOf(p)'
      <3>1. CASE p = ProcOf[t]
        BY <2>1, <2>2, <3>1, BuildLockAssumption DEF RecordOf, Inodes
      <3>2. CASE p # ProcOf[t]
        <4>1. RecordOf(p) /\ owner[p] \in Threads \cup {NoThread}
          BY <2>2 DEF IInv, Recorded, TypeOK
        <4>2. owner'[p] = owner[p] /\ depth'[p] = depth[p] /\ fd'[p] = fd[p]
          BY <2>1, <2>2, <3>2
        <4>3. ASSUME owner[p] # NoThread
              PROVE  /\ pc'[owner[p]] = pc[owner[p]] /\ calls'[owner[p]] = calls[owner[p]]
                     /\ flocked'[fd[p]] = flocked[fd[p]]
          BY <2>1, <4>1, <4>3 DEF RecordOf
        <4> QED BY <4>1, <4>2, <4>3 DEF RecordOf, Inodes
      <3> QED BY <3>1, <3>2
    <2> QED BY <2>2 DEF Recorded, Procs
  <1>6. ASSUME NEW t \in Threads, FlockBusy(t) PROVE Recorded'
    <2>1. pc[t] # "held" /\ Goto(t, "out") /\ UNCHANGED <<flocked, recVars, calls>>
      BY <1>6 DEF FlockBusy, fileVars
    <2> QED BY <2>1, RecordKept
  <1>7. ASSUME NEW t \in Threads, ReleaseNested(t) PROVE Recorded'
    BY <1>7, BuildLockAssumption DEF ReleaseNested, Guarded, Outermost, Drop, IInv, TypeOK,
       Recorded, RecordOf, InsideRecorded, MutexHeld, Busy, fileVars
  <1>8. ASSUME NEW t \in Threads, ReleaseBegin(t) PROVE Recorded'
    BY <1>8 DEF ReleaseBegin, Guarded, Outermost, Enter, Drop, Goto, IInv, TypeOK, Recorded,
       RecordOf, fileVars
  <1>9. ASSUME NEW t \in Threads, Unlock(t) PROVE Recorded'
    <2>1. /\ pc' = [pc EXCEPT ![t] = "unlink"] /\ pc \in [Threads -> Pc] /\ pc[t] = "unlock"
          /\ flocked' = [flocked EXCEPT ![tmp[t]] = NoThread] /\ flocked[tmp[t]] = t
          /\ flocked \in [Inodes -> Threads \cup {NoThread}]
          /\ UNCHANGED <<owner, depth, fd, calls>>
      BY <1>9 DEF Unlock, Goto, recVars, IInv, TypeOK, Descriptors
    <2>2. ASSUME NEW p \in Procs PROVE RecordOf(p)'
      <3>1. RecordOf(p) /\ owner[p] \in Threads \cup {NoThread}
        BY <2>2 DEF IInv, Recorded, TypeOK
      <3>2. owner[p] # t
        BY <2>1, <3>1, BuildLockAssumption DEF RecordOf
      <3>3. owner[p] # NoThread => pc'[owner[p]] = pc[owner[p]] /\ flocked'[fd[p]] = flocked[fd[p]]
        BY <2>1, <3>1, <3>2 DEF RecordOf
      <3> QED BY <2>1, <3>1, <3>3 DEF RecordOf, Inodes
    <2> QED BY <2>2 DEF Recorded, Procs
  <1>10. ASSUME NEW t \in Threads, Unlink(t) PROVE Recorded'
    <2>1. pc[t] # "held" /\ Goto(t, "out") /\ UNCHANGED <<flocked, recVars, calls>>
      BY <1>10 DEF Unlink, fileVars
    <2> QED BY <2>1, RecordKept
  <1>11. ASSUME NEW p \in Procs, Crash(p) PROVE Recorded'
    <2>1. ASSUME NEW q \in Procs PROVE RecordOf(q)'
      <3>1. RecordOf(q) /\ owner[q] \in Threads \cup {NoThread}
        BY <2>1 DEF IInv, Recorded, TypeOK
      <3>2. CASE q = p
        BY <1>11, <2>1, <3>2 DEF Crash, RecordOf, IInv, TypeOK
      <3>3. CASE q # p
        <4>1. owner'[q] = owner[q] /\ depth'[q] = depth[q] /\ fd'[q] = fd[q]
          BY <1>11, <2>1, <3>3 DEF Crash, IInv, TypeOK
        <4>2. ASSUME owner[q] # NoThread
              PROVE  /\ pc'[owner[q]] = pc[owner[q]] /\ calls'[owner[q]] = calls[owner[q]]
                     /\ flocked'[fd[q]] = flocked[fd[q]]
          BY <1>11, <3>1, <3>3, <4>2 DEF Crash, RecordOf
        <4> QED BY <3>1, <4>1, <4>2 DEF RecordOf, Inodes
      <3> QED BY <3>2, <3>3
    <2> QED BY <2>1 DEF Recorded, Procs
  <1>12. CASE UNCHANGED vars
    BY <1>12 DEF vars, IInv, Recorded, RecordOf, fileVars, recVars
  <1> QED BY <1>1, <1>2, <1>3, <1>4, <1>5, <1>6, <1>7, <1>8, <1>9, <1>10, <1>11, <1>12
     DEF Next, Step

(* Every step keeps whoever is inside on record. *)
LEMMA InsideStep == IInv /\ [Next]_vars => InsideRecorded'
  <1> SUFFICES ASSUME IInv, [Next]_vars PROVE InsideRecorded'
    OBVIOUS
  <1>1. ASSUME NEW t \in Threads, AcquireBegin(t) PROVE InsideRecorded'
    BY <1>1 DEF AcquireBegin, Enter, Guarded, Goto, IInv, InsideRecorded, Inside, recVars
  <1>2. ASSUME NEW t \in Threads, Reenter(t) PROVE InsideRecorded'
    BY <1>2 DEF Reenter, Guarded, MayReenter, Goto, IInv, TypeOK, InsideRecorded, Inside
  <1>3. ASSUME NEW t \in Threads, Open(t) PROVE InsideRecorded'
    BY <1>3 DEF Open, Goto, IInv, InsideRecorded, Inside, recVars
  <1>4. ASSUME NEW t \in Threads, OpenFails(t) PROVE InsideRecorded'
    BY <1>4 DEF OpenFails, Leave, Goto, IInv, InsideRecorded, Inside, recVars
  <1>5. ASSUME NEW t \in Threads, FlockOk(t) PROVE InsideRecorded'
    BY <1>5, BuildLockAssumption DEF FlockOk, FlockFree, Leave, Goto, IInv, TypeOK,
       InsideRecorded, MutexHeld, Inside, Busy, Procs
  <1>6. ASSUME NEW t \in Threads, FlockBusy(t) PROVE InsideRecorded'
    BY <1>6 DEF FlockBusy, FlockFree, Leave, Goto, IInv, InsideRecorded, Inside, recVars
  <1>7. ASSUME NEW t \in Threads, ReleaseNested(t) PROVE InsideRecorded'
    <2>1. /\ calls' = [calls EXCEPT ![t] = @ - 1] /\ calls \in [Threads -> 0..MaxDepth]
          /\ UNCHANGED <<owner, pc>>
      BY <1>7 DEF ReleaseNested, Drop, IInv, TypeOK
    <2>2. calls[t] > 1
      BY <1>7, NestedCalls
    <2>3. ASSUME NEW u \in Threads PROVE Inside(u)' <=> Inside(u)
      BY <2>1, <2>2, <2>3, BuildLockAssumption DEF Inside
    <2> QED BY <2>1, <2>3 DEF IInv, InsideRecorded
  <1>8. ASSUME NEW t \in Threads, ReleaseBegin(t) PROVE InsideRecorded'
    BY <1>8 DEF ReleaseBegin, Guarded, Outermost, Enter, Drop, Goto, IInv, TypeOK, Recorded,
       RecordOf, InsideRecorded, Inside, Procs
  <1>9. ASSUME NEW t \in Threads, Unlock(t) PROVE InsideRecorded'
    BY <1>9 DEF Unlock, Goto, IInv, InsideRecorded, Inside, recVars
  <1>10. ASSUME NEW t \in Threads, Unlink(t) PROVE InsideRecorded'
    BY <1>10 DEF Unlink, Leave, Goto, IInv, InsideRecorded, Inside, recVars
  <1>11. ASSUME NEW p \in Procs, Crash(p) PROVE InsideRecorded'
    BY <1>11 DEF Crash, IInv, InsideRecorded, Inside
  <1>12. CASE UNCHANGED vars
    BY <1>12 DEF vars, IInv, InsideRecorded, Inside, recVars
  <1> QED BY <1>1, <1>2, <1>3, <1>4, <1>5, <1>6, <1>7, <1>8, <1>9, <1>10, <1>11, <1>12
     DEF Next, Step

(* Every step respects the threading lock. *)
LEMMA MutexStep == IInv /\ [Next]_vars => MutexHeld'
  <1> SUFFICES ASSUME IInv, [Next]_vars PROVE MutexHeld'
    OBVIOUS
  <1>1. ASSUME NEW t \in Threads, AcquireBegin(t) PROVE MutexHeld'
    <2>1. /\ pc' = [pc EXCEPT ![t] = "open"] /\ pc \in [Threads -> Pc]
          /\ mutex \in [Procs -> Threads \cup {NoThread}] /\ ProcOf[t] \in Procs
          /\ mutex' = [mutex EXCEPT ![ProcOf[t]] = t] /\ mutex[ProcOf[t]] = NoThread
          /\ UNCHANGED owner /\ owner[ProcOf[t]] = NoThread
      BY <1>1 DEF AcquireBegin, Enter, Guarded, Goto, recVars, IInv, TypeOK, Procs
    <2>2. ASSUME NEW u \in Threads, pc'[u] \in Busy
          PROVE  mutex'[ProcOf[u]] = u /\ owner'[ProcOf[u]] = NoThread
      <3>1. CASE u = t
        BY <2>1, <2>2, <3>1 DEF IInv, MutexHeld, Busy, TypeOK
      <3>2. CASE u # t
        <4>1. pc[u] \in Busy /\ ProcOf[u] \in Procs
          BY <2>1, <2>2, <3>2 DEF Procs
        <4>2. ProcOf[u] # ProcOf[t]
          BY <2>1, <3>2, <4>1, OneAtATime, BuildLockAssumption DEF Busy, IInv, MutexHeld
        <4> QED BY <2>1, <4>1, <4>2 DEF IInv, MutexHeld
      <3> QED BY <3>1, <3>2
    <2>3. ASSUME NEW p \in Procs, mutex'[p] # NoThread
          PROVE  ProcOf[mutex'[p]] = p /\ pc'[mutex'[p]] \in Busy
      <3>1. CASE p = ProcOf[t]
        BY <2>1, <2>3, <3>1 DEF IInv, MutexHeld, Busy
      <3>2. CASE p # ProcOf[t]
        <4>1. mutex'[p] = mutex[p] /\ mutex[p] \in Threads
          BY <2>1, <2>3, <3>2
        <4>2. ProcOf[mutex[p]] = p /\ pc[mutex[p]] \in Busy
          BY <2>3, <4>1, BuildLockAssumption DEF IInv, MutexHeld
        <4> QED BY <2>1, <3>2, <4>1, <4>2
      <3> QED BY <3>1, <3>2
    <2> QED BY <2>2, <2>3 DEF MutexHeld, Procs
  <1>2. ASSUME NEW t \in Threads, Reenter(t) PROVE MutexHeld'
    BY <1>2 DEF Reenter, Guarded, MayReenter, Goto, IInv, MutexHeld
  <1>3. ASSUME NEW t \in Threads, Open(t) PROVE MutexHeld'
    <2>1. /\ pc' = [pc EXCEPT ![t] = "flock"] /\ pc \in [Threads -> Pc]
          /\ mutex \in [Procs -> Threads \cup {NoThread}] /\ ProcOf[t] \in Procs
          /\ UNCHANGED <<mutex, owner>> /\ pc[t] \in Busy
          /\ mutex[ProcOf[t]] = t /\ owner[ProcOf[t]] = NoThread
      BY <1>3 DEF Open, Goto, recVars, IInv, TypeOK, Procs, MutexHeld, Busy
    <2>2. ASSUME NEW u \in Threads, pc'[u] \in Busy
          PROVE  mutex'[ProcOf[u]] = u /\ owner'[ProcOf[u]] = NoThread
      <3>1. CASE u = t
        BY <2>1, <2>2, <3>1 DEF IInv, MutexHeld, Busy, TypeOK
      <3>2. CASE u # t
        <4>1. pc[u] \in Busy /\ ProcOf[u] \in Procs
          BY <2>1, <2>2, <3>2 DEF Procs
        <4>2. ProcOf[u] # ProcOf[t]
          BY <2>1, <3>2, <4>1, OneAtATime, BuildLockAssumption DEF Busy, IInv, MutexHeld
        <4> QED BY <2>1, <4>1, <4>2 DEF IInv, MutexHeld
      <3> QED BY <3>1, <3>2
    <2>3. ASSUME NEW p \in Procs, mutex'[p] # NoThread
          PROVE  ProcOf[mutex'[p]] = p /\ pc'[mutex'[p]] \in Busy
      <3>1. CASE p = ProcOf[t]
        BY <2>1, <2>3, <3>1 DEF IInv, MutexHeld, Busy
      <3>2. CASE p # ProcOf[t]
        <4>1. mutex'[p] = mutex[p] /\ mutex[p] \in Threads
          BY <2>1, <2>3, <3>2
        <4>2. ProcOf[mutex[p]] = p /\ pc[mutex[p]] \in Busy
          BY <2>3, <4>1, BuildLockAssumption DEF IInv, MutexHeld
        <4> QED BY <2>1, <3>2, <4>1, <4>2
      <3> QED BY <3>1, <3>2
    <2> QED BY <2>2, <2>3 DEF MutexHeld, Procs
  <1>4. ASSUME NEW t \in Threads, OpenFails(t) PROVE MutexHeld'
    <2>1. /\ pc' = [pc EXCEPT ![t] = "out"] /\ pc \in [Threads -> Pc]
          /\ mutex \in [Procs -> Threads \cup {NoThread}] /\ ProcOf[t] \in Procs
          /\ mutex' = [mutex EXCEPT ![ProcOf[t]] = NoThread] /\ pc[t] \in Busy
          /\ UNCHANGED owner /\ mutex[ProcOf[t]] = t
      BY <1>4 DEF OpenFails, Leave, Goto, recVars, IInv, TypeOK, Procs, MutexHeld, Busy
    <2>2. ASSUME NEW u \in Threads, pc'[u] \in Busy
          PROVE  mutex'[ProcOf[u]] = u /\ owner'[ProcOf[u]] = NoThread
      <3>1. CASE u = t
        BY <2>1, <2>2, <3>1 DEF IInv, MutexHeld, Busy, TypeOK
      <3>2. CASE u # t
        <4>1. pc[u] \in Busy /\ ProcOf[u] \in Procs
          BY <2>1, <2>2, <3>2 DEF Procs
        <4>2. ProcOf[u] # ProcOf[t]
          BY <2>1, <3>2, <4>1, OneAtATime, BuildLockAssumption DEF Busy, IInv, MutexHeld
        <4> QED BY <2>1, <4>1, <4>2 DEF IInv, MutexHeld
      <3> QED BY <3>1, <3>2
    <2>3. ASSUME NEW p \in Procs, mutex'[p] # NoThread
          PROVE  ProcOf[mutex'[p]] = p /\ pc'[mutex'[p]] \in Busy
      <3>1. CASE p = ProcOf[t]
        BY <2>1, <2>3, <3>1 DEF IInv, MutexHeld, Busy
      <3>2. CASE p # ProcOf[t]
        <4>1. mutex'[p] = mutex[p] /\ mutex[p] \in Threads
          BY <2>1, <2>3, <3>2
        <4>2. ProcOf[mutex[p]] = p /\ pc[mutex[p]] \in Busy
          BY <2>3, <4>1, BuildLockAssumption DEF IInv, MutexHeld
        <4> QED BY <2>1, <3>2, <4>1, <4>2
      <3> QED BY <3>1, <3>2
    <2> QED BY <2>2, <2>3 DEF MutexHeld, Procs
  <1>5. ASSUME NEW t \in Threads, FlockOk(t) PROVE MutexHeld'
    <2>1. /\ pc' = [pc EXCEPT ![t] = "held"] /\ pc \in [Threads -> Pc]
          /\ mutex \in [Procs -> Threads \cup {NoThread}] /\ ProcOf[t] \in Procs
          /\ mutex' = [mutex EXCEPT ![ProcOf[t]] = NoThread] /\ pc[t] \in Busy
          /\ owner' = [owner EXCEPT ![ProcOf[t]] = t] /\ mutex[ProcOf[t]] = t
          /\ owner \in [Procs -> Threads \cup {NoThread}]
      BY <1>5 DEF FlockOk, FlockFree, Leave, Goto, recVars, IInv, TypeOK, Procs, MutexHeld, Busy
    <2>2. ASSUME NEW u \in Threads, pc'[u] \in Busy
          PROVE  mutex'[ProcOf[u]] = u /\ owner'[ProcOf[u]] = NoThread
      <3>1. CASE u = t
        BY <2>1, <2>2, <3>1 DEF IInv, MutexHeld, Busy, TypeOK
      <3>2. CASE u # t
        <4>1. pc[u] \in Busy /\ ProcOf[u] \in Procs
          BY <2>1, <2>2, <3>2 DEF Procs
        <4>2. ProcOf[u] # ProcOf[t]
          BY <2>1, <3>2, <4>1, OneAtATime, BuildLockAssumption DEF Busy, IInv, MutexHeld
        <4> QED BY <2>1, <4>1, <4>2 DEF IInv, MutexHeld
      <3> QED BY <3>1, <3>2
    <2>3. ASSUME NEW p \in Procs, mutex'[p] # NoThread
          PROVE  ProcOf[mutex'[p]] = p /\ pc'[mutex'[p]] \in Busy
      <3>1. CASE p = ProcOf[t]
        BY <2>1, <2>3, <3>1 DEF IInv, MutexHeld, Busy
      <3>2. CASE p # ProcOf[t]
        <4>1. mutex'[p] = mutex[p] /\ mutex[p] \in Threads
          BY <2>1, <2>3, <3>2
        <4>2. ProcOf[mutex[p]] = p /\ pc[mutex[p]] \in Busy
          BY <2>3, <4>1, BuildLockAssumption DEF IInv, MutexHeld
        <4> QED BY <2>1, <3>2, <4>1, <4>2
      <3> QED BY <3>1, <3>2
    <2> QED BY <2>2, <2>3 DEF MutexHeld, Procs
  <1>6. ASSUME NEW t \in Threads, FlockBusy(t) PROVE MutexHeld'
    BY <1>6 DEF FlockBusy, FlockFree, Leave, Goto, IInv, TypeOK, MutexHeld, Busy, recVars
  <1>7. ASSUME NEW t \in Threads, ReleaseNested(t) PROVE MutexHeld'
    BY <1>7 DEF ReleaseNested, Guarded, Outermost, Drop, IInv, MutexHeld
  <1>8. ASSUME NEW t \in Threads, ReleaseBegin(t) PROVE MutexHeld'
    <2>1. /\ pc' = [pc EXCEPT ![t] = "unlock"] /\ pc \in [Threads -> Pc]
          /\ mutex \in [Procs -> Threads \cup {NoThread}] /\ ProcOf[t] \in Procs
          /\ mutex' = [mutex EXCEPT ![ProcOf[t]] = t] /\ mutex[ProcOf[t]] = NoThread
          /\ owner \in [Procs -> Threads \cup {NoThread}]
          /\ owner' = [owner EXCEPT ![ProcOf[t]] = NoThread]
      BY <1>8 DEF ReleaseBegin, Guarded, Outermost, Enter, Drop, Goto, recVars, IInv, TypeOK,
         Procs
    <2>2. ASSUME NEW u \in Threads, pc'[u] \in Busy
          PROVE  mutex'[ProcOf[u]] = u /\ owner'[ProcOf[u]] = NoThread
      <3>1. CASE u = t
        BY <2>1, <2>2, <3>1 DEF IInv, MutexHeld, Busy, TypeOK
      <3>2. CASE u # t
        <4>1. pc[u] \in Busy /\ ProcOf[u] \in Procs
          BY <2>1, <2>2, <3>2 DEF Procs
        <4>2. ProcOf[u] # ProcOf[t]
          BY <2>1, <3>2, <4>1, OneAtATime, BuildLockAssumption DEF Busy, IInv, MutexHeld
        <4> QED BY <2>1, <4>1, <4>2 DEF IInv, MutexHeld
      <3> QED BY <3>1, <3>2
    <2>3. ASSUME NEW p \in Procs, mutex'[p] # NoThread
          PROVE  ProcOf[mutex'[p]] = p /\ pc'[mutex'[p]] \in Busy
      <3>1. CASE p = ProcOf[t]
        BY <2>1, <2>3, <3>1 DEF IInv, MutexHeld, Busy
      <3>2. CASE p # ProcOf[t]
        <4>1. mutex'[p] = mutex[p] /\ mutex[p] \in Threads
          BY <2>1, <2>3, <3>2
        <4>2. ProcOf[mutex[p]] = p /\ pc[mutex[p]] \in Busy
          BY <2>3, <4>1, BuildLockAssumption DEF IInv, MutexHeld
        <4> QED BY <2>1, <3>2, <4>1, <4>2
      <3> QED BY <3>1, <3>2
    <2> QED BY <2>2, <2>3 DEF MutexHeld, Procs
  <1>9. ASSUME NEW t \in Threads, Unlock(t) PROVE MutexHeld'
    <2>1. /\ pc' = [pc EXCEPT ![t] = "unlink"] /\ pc \in [Threads -> Pc]
          /\ mutex \in [Procs -> Threads \cup {NoThread}] /\ ProcOf[t] \in Procs
          /\ UNCHANGED <<mutex, owner>> /\ pc[t] \in Busy
          /\ mutex[ProcOf[t]] = t /\ owner[ProcOf[t]] = NoThread
      BY <1>9 DEF Unlock, Goto, recVars, IInv, TypeOK, Procs, MutexHeld, Busy
    <2>2. ASSUME NEW u \in Threads, pc'[u] \in Busy
          PROVE  mutex'[ProcOf[u]] = u /\ owner'[ProcOf[u]] = NoThread
      <3>1. CASE u = t
        BY <2>1, <2>2, <3>1 DEF IInv, MutexHeld, Busy, TypeOK
      <3>2. CASE u # t
        <4>1. pc[u] \in Busy /\ ProcOf[u] \in Procs
          BY <2>1, <2>2, <3>2 DEF Procs
        <4>2. ProcOf[u] # ProcOf[t]
          BY <2>1, <3>2, <4>1, OneAtATime, BuildLockAssumption DEF Busy, IInv, MutexHeld
        <4> QED BY <2>1, <4>1, <4>2 DEF IInv, MutexHeld
      <3> QED BY <3>1, <3>2
    <2>3. ASSUME NEW p \in Procs, mutex'[p] # NoThread
          PROVE  ProcOf[mutex'[p]] = p /\ pc'[mutex'[p]] \in Busy
      <3>1. CASE p = ProcOf[t]
        BY <2>1, <2>3, <3>1 DEF IInv, MutexHeld, Busy
      <3>2. CASE p # ProcOf[t]
        <4>1. mutex'[p] = mutex[p] /\ mutex[p] \in Threads
          BY <2>1, <2>3, <3>2
        <4>2. ProcOf[mutex[p]] = p /\ pc[mutex[p]] \in Busy
          BY <2>3, <4>1, BuildLockAssumption DEF IInv, MutexHeld
        <4> QED BY <2>1, <3>2, <4>1, <4>2
      <3> QED BY <3>1, <3>2
    <2> QED BY <2>2, <2>3 DEF MutexHeld, Procs
  <1>10. ASSUME NEW t \in Threads, Unlink(t) PROVE MutexHeld'
    BY <1>10 DEF Unlink, Leave, Goto, IInv, TypeOK, MutexHeld, Busy, recVars
  <1>11. ASSUME NEW p \in Procs, Crash(p) PROVE MutexHeld'
    <2>1. /\ pc' = [t \in Threads |-> IF ProcOf[t] = p THEN "out" ELSE pc[t]]
          /\ mutex' = [mutex EXCEPT ![p] = NoThread] /\ owner' = [owner EXCEPT ![p] = NoThread]
          /\ mutex \in [Procs -> Threads \cup {NoThread}]
          /\ owner \in [Procs -> Threads \cup {NoThread}]
      BY <1>11 DEF Crash, IInv, TypeOK
    <2>2. ASSUME NEW u \in Threads, pc'[u] \in Busy
          PROVE  mutex'[ProcOf[u]] = u /\ owner'[ProcOf[u]] = NoThread
      <3>1. ProcOf[u] # p /\ pc[u] \in Busy /\ ProcOf[u] \in Procs
        BY <2>1, <2>2 DEF Busy, Procs
      <3> QED BY <2>1, <3>1 DEF IInv, MutexHeld
    <2>3. ASSUME NEW q \in Procs, mutex'[q] # NoThread
          PROVE  ProcOf[mutex'[q]] = q /\ pc'[mutex'[q]] \in Busy
      <3>1. q # p /\ mutex'[q] = mutex[q] /\ mutex[q] \in Threads
        BY <2>1, <2>3
      <3>2. ProcOf[mutex[q]] = q /\ pc[mutex[q]] \in Busy
        BY <2>3, <3>1, BuildLockAssumption DEF IInv, MutexHeld
      <3> QED BY <2>1, <3>1, <3>2
    <2> QED BY <2>2, <2>3 DEF MutexHeld, Procs
  <1>12. CASE UNCHANGED vars
    BY <1>12 DEF vars, IInv, MutexHeld, recVars
  <1> QED BY <1>1, <1>2, <1>3, <1>4, <1>5, <1>6, <1>7, <1>8, <1>9, <1>10, <1>11, <1>12
     DEF Next, Step

(* Every step keeps the open descriptors valid. *)
LEMMA DescriptorStep == IInv /\ [Next]_vars => Descriptors'
  <1> SUFFICES ASSUME IInv, [Next]_vars PROVE Descriptors'
    OBVIOUS
  <1>1. ASSUME NEW t \in Threads, AcquireBegin(t) PROVE Descriptors'
    BY <1>1 DEF AcquireBegin, Enter, Guarded, Goto, IInv, Descriptors, fileVars
  <1>2. ASSUME NEW t \in Threads, Reenter(t) PROVE Descriptors'
    BY <1>2 DEF Reenter, Guarded, MayReenter, Goto, IInv, Descriptors, fileVars
  <1>3. ASSUME NEW t \in Threads, Open(t) PROVE Descriptors'
    BY <1>3, BuildLockAssumption DEF Open, Goto, IInv, TypeOK, Descriptors, Inodes
  <1>4. ASSUME NEW t \in Threads, OpenFails(t) PROVE Descriptors'
    BY <1>4 DEF OpenFails, Leave, Goto, IInv, Descriptors, fileVars
  <1>5. ASSUME NEW t \in Threads, FlockOk(t) PROVE Descriptors'
    BY <1>5, BuildLockAssumption DEF FlockOk, FlockFree, Leave, Goto, IInv, TypeOK, Descriptors
  <1>6. ASSUME NEW t \in Threads, FlockBusy(t) PROVE Descriptors'
    BY <1>6 DEF FlockBusy, FlockFree, Leave, Goto, IInv, TypeOK, Descriptors, fileVars
  <1>7. ASSUME NEW t \in Threads, ReleaseNested(t) PROVE Descriptors'
    BY <1>7 DEF ReleaseNested, Guarded, Outermost, Drop, IInv, Descriptors, fileVars
  <1>8. ASSUME NEW t \in Threads, ReleaseBegin(t) PROVE Descriptors'
    BY <1>8 DEF ReleaseBegin, Guarded, Outermost, Enter, Drop, Goto, IInv, TypeOK, Recorded,
       RecordOf, InsideRecorded, Descriptors, Procs, fileVars
  <1>9. ASSUME NEW t \in Threads, Unlock(t) PROVE Descriptors'
    BY <1>9 DEF Unlock, Goto, IInv, TypeOK, Descriptors
  <1>10. ASSUME NEW t \in Threads, Unlink(t) PROVE Descriptors'
    BY <1>10 DEF Unlink, Leave, Goto, IInv, Descriptors
  <1>11. ASSUME NEW p \in Procs, Crash(p) PROVE Descriptors'
    BY <1>11 DEF Crash, IInv, Descriptors
  <1>12. CASE UNCHANGED vars
    BY <1>12 DEF vars, IInv, Descriptors, fileVars
  <1> QED BY <1>1, <1>2, <1>3, <1>4, <1>5, <1>6, <1>7, <1>8, <1>9, <1>10, <1>11, <1>12
     DEF Next, Step

(* No step leaves a flock behind. *)
LEMMA FlockStep == IInv /\ [Next]_vars => FlocksAccounted'
  <1> SUFFICES ASSUME IInv, [Next]_vars PROVE FlocksAccounted'
    OBVIOUS
  <1>1. ASSUME NEW t \in Threads, AcquireBegin(t) PROVE FlocksAccounted'
    <2>1. /\ pc' = [pc EXCEPT ![t] = "open"] /\ pc \in [Threads -> Pc] /\ pc[t] = "out"
          /\ UNCHANGED <<flocked, fd, tmp, calls>>
          /\ flocked \in [Inodes -> Threads \cup {NoThread}]
      BY <1>1 DEF AcquireBegin, Goto, fileVars, recVars, IInv, TypeOK
    <2>2. ASSUME NEW i \in Inodes, flocked[i] # NoThread, pc[flocked[i]] = "unlock"
          PROVE  pc'[flocked[i]] = "unlock"
      BY <2>1, <2>2
    <2> QED BY <2>1, <2>2 DEF IInv, FlocksAccounted, Inside, Inodes
  <1>2. ASSUME NEW t \in Threads, Reenter(t) PROVE FlocksAccounted'
    BY <1>2 DEF Reenter, Guarded, MayReenter, Goto, IInv, TypeOK, FlocksAccounted, Inside,
       fileVars
  <1>3. ASSUME NEW t \in Threads, Open(t) PROVE FlocksAccounted'
    BY <1>3 DEF Open, Goto, IInv, TypeOK, FlocksAccounted, Inside, recVars
  <1>4. ASSUME NEW t \in Threads, OpenFails(t) PROVE FlocksAccounted'
    BY <1>4 DEF OpenFails, Leave, Goto, IInv, FlocksAccounted, Inside, fileVars, recVars
  <1>5. ASSUME NEW t \in Threads, FlockOk(t) PROVE FlocksAccounted'
    BY <1>5 DEF FlockOk, FlockFree, Leave, Goto, IInv, TypeOK, InsideRecorded, MutexHeld,
       FlocksAccounted, Inside, Busy, Procs
  <1>6. ASSUME NEW t \in Threads, FlockBusy(t) PROVE FlocksAccounted'
    BY <1>6 DEF FlockBusy, FlockFree, Leave, Goto, IInv, FlocksAccounted, Inside, fileVars,
       recVars
  <1>7. ASSUME NEW t \in Threads, ReleaseNested(t) PROVE FlocksAccounted'
    <2>1. /\ calls' = [calls EXCEPT ![t] = @ - 1] /\ calls \in [Threads -> 0..MaxDepth]
          /\ UNCHANGED <<flocked, fd, tmp, pc>>
          /\ flocked \in [Inodes -> Threads \cup {NoThread}]
      BY <1>7 DEF ReleaseNested, Drop, fileVars, IInv, TypeOK
    <2>2. calls[t] > 1
      BY <1>7, NestedCalls
    <2>3. ASSUME NEW u \in Threads, Inside(u) PROVE Inside(u)'
      BY <2>1, <2>2, <2>3, BuildLockAssumption DEF Inside
    <2>4. ASSUME NEW i \in Inodes, flocked[i] # NoThread PROVE flocked[i] \in Threads
      BY <2>1, <2>4
    <2> QED BY <2>1, <2>3, <2>4 DEF IInv, FlocksAccounted, Inodes
  <1>8. ASSUME NEW t \in Threads, ReleaseBegin(t) PROVE FlocksAccounted'
    <2>1. /\ pc' = [pc EXCEPT ![t] = "unlock"] /\ pc \in [Threads -> Pc] /\ pc[t] = "held"
          /\ calls' = [calls EXCEPT ![t] = @ - 1] /\ calls \in [Threads -> 0..MaxDepth]
          /\ tmp' = [tmp EXCEPT ![t] = fd[ProcOf[t]]] /\ tmp \in [Threads -> Inodes \cup {NoInode}]
          /\ fd' = [fd EXCEPT ![ProcOf[t]] = NoInode] /\ fd \in [Procs -> Inodes \cup {NoInode}]
          /\ UNCHANGED flocked /\ flocked \in [Inodes -> Threads \cup {NoThread}]
          /\ owner[ProcOf[t]] = t
      BY <1>8 DEF ReleaseBegin, Drop, Goto, fileVars, IInv, TypeOK, InsideRecorded
    <2>2. ASSUME NEW i \in Inodes, flocked[i] # NoThread
          PROVE  \/ Inside(flocked[i])' /\ fd'[ProcOf[flocked[i]]] = i
                 \/ pc'[flocked[i]] = "unlock" /\ tmp'[flocked[i]] = i
      <3> DEFINE u == flocked[i]
      <3>1. u \in Threads
        BY <2>1, <2>2
      <3>2. \/ Inside(u) /\ fd[ProcOf[u]] = i
            \/ pc[u] = "unlock" /\ tmp[u] = i
        BY <2>2 DEF IInv, FlocksAccounted
      <3>3. CASE u = t
        BY <2>1, <3>1, <3>2, <3>3
      <3>4. CASE u # t
        <4>1. /\ pc'[u] = pc[u] /\ calls'[u] = calls[u] /\ tmp'[u] = tmp[u]
          BY <2>1, <3>1, <3>4
        <4>2. Inside(u) => ProcOf[u] # ProcOf[t]
          BY <2>1, <3>1, <3>4 DEF IInv, InsideRecorded
        <4>3. Inside(u) => fd'[ProcOf[u]] = fd[ProcOf[u]]
          BY <2>1, <3>1, <4>2 DEF Procs
        <4> QED BY <2>1, <3>2, <4>1, <4>3 DEF Inside
      <3> QED BY <3>3, <3>4
    <2> QED BY <2>1, <2>2 DEF FlocksAccounted, Inodes
  <1>9. ASSUME NEW t \in Threads, Unlock(t) PROVE FlocksAccounted'
    BY <1>9 DEF Unlock, Goto, IInv, TypeOK, FlocksAccounted, Inside, recVars
  <1>10. ASSUME NEW t \in Threads, Unlink(t) PROVE FlocksAccounted'
    BY <1>10 DEF Unlink, Leave, Goto, IInv, FlocksAccounted, Inside, recVars
  <1>11. ASSUME NEW p \in Procs, Crash(p) PROVE FlocksAccounted'
    BY <1>11 DEF Crash, IInv, TypeOK, FlocksAccounted, Inside
  <1>12. CASE UNCHANGED vars
    BY <1>12 DEF vars, IInv, FlocksAccounted, Inside, fileVars, recVars
  <1> QED BY <1>1, <1>2, <1>3, <1>4, <1>5, <1>6, <1>7, <1>8, <1>9, <1>10, <1>11, <1>12
     DEF Next, Step

(* Every step keeps the inductive invariant. *)
LEMMA Inductive == IInv /\ [Next]_vars => IInv'
  BY TypeStep, RecordStep, InsideStep, MutexStep, DescriptorStep, FlockStep DEF IInv

(* The invariant gives the property of the run. *)
LEMMA InvariantSuffices == IInv => HeldExactlyByHolder
  <1> SUFFICES ASSUME IInv PROVE HeldExactlyByHolder
    OBVIOUS
  <1>1. ASSUME NEW t \in Threads, Inside(t)
        PROVE  owner[ProcOf[t]] = t /\ depth[ProcOf[t]] = calls[t] /\ flocked[fd[ProcOf[t]]] = t
    <2>1. owner[ProcOf[t]] = t /\ ProcOf[t] \in Procs
      BY <1>1 DEF IInv, InsideRecorded, Procs
    <2> QED BY <2>1, BuildLockAssumption DEF IInv, Recorded, RecordOf
  <1> QED BY <1>1 DEF IInv, FlocksAccounted, HeldExactlyByHolder

-----------------------------------------------------------------------------
(* The steps that change what a thread has acquired, as steps of ReentrantLock. *)

(* The flock is taken only when no thread of the process is inside. *)
LEMMA AcquireRefines ==
  ASSUME IInv, NEW t \in Threads, FlockOk(t)
  PROVE  PerProcess(ProcOf[t])!Acquire(t)
  <1>1. /\ pc[t] = "flock" /\ calls' = [calls EXCEPT ![t] = 1]
        /\ calls \in [Threads -> 0..MaxDepth]
    BY DEF FlockOk, IInv, TypeOK
  <1>2. ASSUME NEW u \in ThreadsOf(ProcOf[t]) PROVE CallsOf(ProcOf[t])[u] = 0
    <2>1. u \in Threads /\ ProcOf[u] = ProcOf[t]
      BY <1>2 DEF ThreadsOf
    <2>2. pc[u] # "held"
      BY <1>1, <2>1, OneAtATime DEF Busy
    <2>3. ~ Inside(u)
      BY <2>1, <2>2 DEF IInv, InsideRecorded
    <2> QED BY <1>1, <1>2, <2>1, <2>3, BuildLockAssumption DEF Inside, CallsOf
  <1>3. CallsOf(ProcOf[t])' = [CallsOf(ProcOf[t]) EXCEPT ![t] = 1]
    BY <1>1 DEF CallsOf, ThreadsOf
  <1> QED BY <1>2, <1>3 DEF PerProcess!Acquire

(* Only a thread that is inside enters again. *)
LEMMA ReenterRefines ==
  ASSUME IInv, NEW t \in Threads, Reenter(t)
  PROVE  PerProcess(ProcOf[t])!Reenter(t)
  <1>1. /\ calls' = [calls EXCEPT ![t] = @ + 1] /\ calls \in [Threads -> 0..MaxDepth]
        /\ owner[ProcOf[t]] = t /\ depth[ProcOf[t]] < MaxDepth /\ ProcOf[t] \in Procs
        /\ pc[t] = "held"
    BY DEF Reenter, MayReenter, IInv, TypeOK, Procs
  <1>2. calls[t] \in 1..MaxDepth - 1
    <2>1. depth[ProcOf[t]] = calls[t] /\ calls[t] > 0
      BY <1>1, BuildLockAssumption DEF IInv, Recorded, RecordOf, InsideRecorded, Inside
    <2> QED BY <1>1, <2>1, BuildLockAssumption
  <1>3. /\ CallsOf(ProcOf[t])[t] = calls[t]
        /\ CallsOf(ProcOf[t])' = [CallsOf(ProcOf[t]) EXCEPT ![t] = @ + 1]
    BY <1>1 DEF CallsOf, ThreadsOf
  <1> QED BY <1>2, <1>3 DEF PerProcess!Reenter

(* Only a thread that is inside releases, one acquisition at a time. *)
LEMMA ReleaseRefines ==
  ASSUME IInv, NEW t \in Threads, ReleaseNested(t) \/ ReleaseBegin(t)
  PROVE  PerProcess(ProcOf[t])!Release(t)
  <1>1. /\ calls' = [calls EXCEPT ![t] = @ - 1] /\ calls \in [Threads -> 0..MaxDepth]
        /\ pc[t] = "held"
    BY DEF ReleaseNested, ReleaseBegin, Drop, IInv, TypeOK
  <1>2. calls[t] > 0
    BY <1>1 DEF IInv, InsideRecorded, Inside
  <1>3. /\ CallsOf(ProcOf[t])[t] = calls[t]
        /\ CallsOf(ProcOf[t])' = [CallsOf(ProcOf[t]) EXCEPT ![t] = @ - 1]
    BY <1>1 DEF CallsOf, ThreadsOf
  <1> QED BY <1>2, <1>3 DEF PerProcess!Release

(* The death of a process ends all its acquisitions. *)
LEMMA CrashRefines ==
  ASSUME IInv, NEW p \in Procs, Crash(p)
  PROVE  PerProcess(p)!Die
  BY DEF Crash, PerProcess!Die, CallsOf, ThreadsOf

(* What a process does leaves the acquisitions of another one alone. *)
LEMMA OthersStutter ==
  ASSUME IInv, NEW p \in Procs, NEW t \in Threads, ProcOf[t] # p, NEW n,
         calls' = [calls EXCEPT ![t] = n]
  PROVE  UNCHANGED CallsOf(p)
  BY DEF CallsOf, ThreadsOf, IInv, TypeOK

(* Every step is a step of ReentrantLock or a stutter, for every process. *)
LEMMA StepRefines ==
  ASSUME IInv, [Next]_vars, NEW p \in Procs
  PROVE  [PerProcess(p)!Next]_(CallsOf(p))
  <1>1. CASE UNCHANGED calls
    BY <1>1 DEF CallsOf
  <1>2. ASSUME NEW t \in Threads, FlockOk(t) PROVE [PerProcess(p)!Next]_(CallsOf(p))
    <2>1. CASE ProcOf[t] = p
      BY <1>2, <2>1, AcquireRefines DEF PerProcess!Next, ThreadsOf
    <2>2. CASE ProcOf[t] # p
      BY <1>2, <2>2, OthersStutter DEF FlockOk
    <2> QED BY <2>1, <2>2
  <1>3. ASSUME NEW t \in Threads, Reenter(t) PROVE [PerProcess(p)!Next]_(CallsOf(p))
    <2>1. CASE ProcOf[t] = p
      BY <1>3, <2>1, ReenterRefines DEF PerProcess!Next, ThreadsOf
    <2>2. CASE ProcOf[t] # p
      BY <1>3, <2>2, OthersStutter DEF Reenter
    <2> QED BY <2>1, <2>2
  <1>4. ASSUME NEW t \in Threads, ReleaseNested(t) \/ ReleaseBegin(t)
        PROVE  [PerProcess(p)!Next]_(CallsOf(p))
    <2>1. CASE ProcOf[t] = p
      BY <1>4, <2>1, ReleaseRefines DEF PerProcess!Next, ThreadsOf
    <2>2. CASE ProcOf[t] # p
      BY <1>4, <2>2, OthersStutter DEF ReleaseNested, ReleaseBegin, Drop
    <2> QED BY <2>1, <2>2
  <1>5. ASSUME NEW q \in Procs, Crash(q) PROVE [PerProcess(p)!Next]_(CallsOf(p))
    <2>1. CASE q = p
      BY <1>5, <2>1, CrashRefines DEF PerProcess!Next
    <2>2. CASE q # p
      <3>1. \A t \in ThreadsOf(p) : calls'[t] = calls[t]
        BY <1>5, <2>2 DEF Crash, ThreadsOf
      <3> QED BY <3>1 DEF CallsOf
    <2> QED BY <2>1, <2>2
  <1>6. ASSUME NEW t \in Threads,
               \/ AcquireBegin(t) \/ Open(t) \/ OpenFails(t) \/ FlockBusy(t) \/ Unlock(t)
               \/ Unlink(t)
        PROVE  UNCHANGED calls
    BY <1>6 DEF AcquireBegin, Open, OpenFails, FlockBusy, Unlock, Unlink
  <1>7. CASE UNCHANGED vars
    BY <1>1, <1>7 DEF vars
  <1> QED BY <1>1, <1>2, <1>3, <1>4, <1>5, <1>6, <1>7 DEF Next, Step

-----------------------------------------------------------------------------
(***************************************************************************)
(* The calls of git.  What may be left when a call is over is paid for by  *)
(* refusals of the system: a tree that is in no job by one, a root that    *)
(* was not ended by another, a handle that is kept by one more.            *)
(***************************************************************************)

Early == {"open", "job", "create"}
Ending == {"unwind", "handles", "over"}

(* Where the caller is, and what it holds there. *)
GitTypes ==
  /\ running \in Early \cup {"spawned", "wait", "settle", "read"} \cup Ending
  /\ failures \in Nat /\ root \in {"none", "alive", "over"}
  /\ running = "open" => ~ child
  /\ running = "over" => ~ files

(* The tree of processes: there is none before its root, and in a job it is
   until the job is closed. *)
TreeOwned ==
  /\ running \in Early => root = "none"
  /\ running \in {"spawned", "wait", "settle", "read"} => root # "none"
  /\ running = "create" /\ job # "open" => failures > 0
  /\ root = "none" => ~ kid /\ ~ inJob
  /\ root # "none" /\ ~ inJob => failures > 0
  /\ inJob => job \in {"open", "closed"}
  /\ inJob /\ job = "closed" => root = "over" /\ ~ kid

(* What each refusal leaves behind. *)
LeftByRefusals ==
  /\ child /\ running \in {"wait", "settle", "read", "unwind", "handles"} => failures > 0
  /\ child /\ running = "over" => failures > 1
  /\ running \in {"settle", "read"} => root = "over"
  /\ kid /\ running \in {"read"} \cup Ending => failures > 0
  /\ root = "alive" /\ running = "unwind" => failures > 0 /\ (~ inJob => failures > 1)
  /\ root = "alive" /\ running \in {"handles", "over"} => failures > 1
  /\ running \in Ending /\ outcome = "done" => root = "over"
  /\ read = "part" => failures > 0

GitKept == GitTypes /\ TreeOwned /\ LeftByRefusals

LEMMA GitInit == Git!Init => GitKept
<1> SUFFICES ASSUME Git!Init PROVE GitKept
  OBVIOUS
<1>1. read # "part"
  <2>1. "" # "part"
    BY Zenon
  <2>2. QED
    BY <2>1, Zenon DEF Git!Init
<1>2. running = "open" /\ ~ files /\ ~ child /\ job = "none" /\ root = "none" /\ ~ inJob /\ ~ kid /\ failures = 0
  BY Zenon DEF Git!Init
<1>3. files = FALSE /\ child = FALSE /\ inJob = FALSE /\ kid = FALSE
  BY Zenon DEF Git!Init
<1>4. QED
  BY <1>1, <1>2, <1>3 DEF GitKept, GitTypes, TreeOwned, LeftByRefusals, Early, Ending

LEMMA GitStep == GitKept /\ Git!Next => GitKept'
<1> SUFFICES ASSUME GitKept, Git!Next PROVE GitKept'
  OBVIOUS
<1> USE DEF GitKept, GitTypes, TreeOwned, LeftByRefusals, Early, Ending
<1>1. CASE Git!Open
  <2>1. GitTypes'
    BY <1>1 DEF Git!Open, Git!Fine, Git!Fail, Git!Ends
  <2>2. TreeOwned'
    BY <1>1 DEF Git!Open, Git!Fine, Git!Fail, Git!Ends
  <2>3. LeftByRefusals'
    BY <1>1 DEF Git!Open, Git!Fine, Git!Fail, Git!Ends
  <2>4. QED
    BY <2>1, <2>2, <2>3 DEF GitKept
<1>2. CASE Git!MakeJob
  BY <1>2 DEF Git!MakeJob, Git!Fine, Git!Fail
<1>3. CASE Git!Create
  <2>1. GitTypes'
    BY <1>3 DEF Git!Create, Git!Fine, Git!Fail, Git!Ends
  <2>2. TreeOwned'
    <3>1. CASE root' # "none"
      <4>1. root' = "alive" /\ running' = "spawned" /\ job' = job /\ kid' = kid /\ failures' = failures
        BY <1>3, <3>1 DEF Git!Create, Git!Fine, Git!Fail, Git!Ends
      <4>2. inJob' <=> job = "open"
        BY <1>3, <3>1, Zenon DEF Git!Create, TreeOwned, Early
      <4>3. QED
        BY <1>3, <4>1, <4>2 DEF Git!Create
    <3>2. CASE root' = "none"
      BY <1>3, <3>2 DEF Git!Create, Git!Fine, Git!Fail, Git!Ends
    <3>3. QED
      BY <3>1, <3>2
  <2>3. LeftByRefusals'
    BY <1>3 DEF Git!Create, Git!Fine, Git!Fail, Git!Ends
  <2>4. QED
    BY <2>1, <2>2, <2>3 DEF GitKept
<1>4. CASE Git!Spawned
  <2>1. GitTypes'
    BY <1>4 DEF Git!Spawned, Git!GivesHandles, Git!Fine, Git!Fail
  <2>2. TreeOwned'
    BY <1>4 DEF Git!Spawned, Git!GivesHandles, Git!Fine, Git!Fail
  <2>3. LeftByRefusals'
    BY <1>4 DEF Git!Spawned, Git!GivesHandles, Git!Fine, Git!Fail
  <2>4. QED
    BY <2>1, <2>2, <2>3 DEF GitKept
<1>5. CASE Git!Exited
  BY <1>5 DEF Git!Exited
<1>6. CASE Git!GiveUp
  <2>1. GitTypes'
    BY <1>6 DEF Git!GiveUp, Git!KillsTree, Git!Fine, Git!Fail, Git!Ends
  <2>2. TreeOwned'
    BY <1>6 DEF Git!GiveUp, Git!KillsTree, Git!Fine, Git!Fail, Git!Ends
  <2>3. LeftByRefusals'
    BY <1>6 DEF Git!GiveUp, Git!KillsTree, Git!Fine, Git!Fail, Git!Ends
  <2>4. QED
    BY <2>1, <2>2, <2>3 DEF GitKept
<1>7. CASE Git!Settle
  <2>1. GitTypes'
    BY <1>7 DEF Git!Settle, Git!CloseJob, Git!Fine, Git!Fail
  <2>2. TreeOwned'
    BY <1>7 DEF Git!Settle, Git!CloseJob, Git!Fine, Git!Fail
  <2>3. LeftByRefusals'
    BY <1>7 DEF Git!Settle, Git!CloseJob, Git!Fine, Git!Fail
  <2>4. QED
    BY <2>1, <2>2, <2>3 DEF GitKept
<1>8. CASE Git!Read
  BY <1>8 DEF Git!Read, Git!Ends
<1>9. CASE Git!Unwind
  <2>1. GitTypes'
    BY <1>9 DEF Git!Unwind, Git!CloseJob, Git!Fine, Git!Fail
  <2>2. TreeOwned'
    BY <1>9 DEF Git!Unwind, Git!CloseJob, Git!Fine, Git!Fail
  <2>3. LeftByRefusals'
    BY <1>9 DEF Git!Unwind, Git!CloseJob, Git!Fine, Git!Fail
  <2>4. QED
    BY <2>1, <2>2, <2>3 DEF GitKept
<1>10. CASE Git!Unwound
  <2>1. GitTypes'
    BY <1>10 DEF Git!Unwound, Git!GivesHandles, Git!Fine, Git!Fail
  <2>2. TreeOwned'
    BY <1>10 DEF Git!Unwound, Git!GivesHandles, Git!Fine, Git!Fail
  <2>3. LeftByRefusals'
    BY <1>10 DEF Git!Unwound, Git!GivesHandles, Git!Fine, Git!Fail
  <2>4. QED
    BY <2>1, <2>2, <2>3 DEF GitKept
<1>11. CASE Git!RootStarts
  BY <1>11 DEF Git!RootStarts
<1>12. CASE Git!RootEnds
  BY <1>12 DEF Git!RootEnds
<1>13. CASE Git!KidEnds
  BY <1>13 DEF Git!KidEnds
<1>14. QED
  BY <1>1, <1>2, <1>3, <1>4, <1>5, <1>6, <1>7, <1>8, <1>9, <1>10, <1>11, <1>12, <1>13 DEF Git!Next

LEMMA GitSuffices == GitKept => Git!GitLeavesNothing
  BY DEF GitKept, GitTypes, TreeOwned, LeftByRefusals, Early, Ending, Git!GitLeavesNothing

-----------------------------------------------------------------------------
(***************************************************************************)
(* The lists of modules of a session.  Where the user's thread is says     *)
(* what of the rows is loaded, unless a timeout cut the loading short; and *)
(* what of the index was read between two looks at one generation is all   *)
(* of it, if the count of that generation is.                              *)
(***************************************************************************)

Loads == {"pre", "precount", "read", "post", "postcount", "judge", "append", "glob", "rows", "userows"}
Extends == {"ext", "extfiles", "attach", "meta", "built"}
Places == {"idle", "live", "walk", "publish", "end"} \cup Loads \cup Extends
Loaded == goal["user"] = "index" /\ at["user"] \in Extends
Scan == [from |-> "disk", paths |-> Main \ hidden, errors |-> IF hidden = {} THEN 0 ELSE 1]

(* What is asked for decides where a thread can be. *)
Control ==
  /\ at \in [{"user", "prewarm"} -> Places] /\ goal \in [{"user", "prewarm"} -> {"index", "live", "none"}]
  /\ goal["prewarm"] = "live" /\ at["prewarm"] \in {"live", "walk", "ext", "extfiles", "publish", "end"}
  /\ ~ reader => at["prewarm"] = "end"
  /\ at["user"] # "end"
  /\ at["user"] # "idle" => goal["user"] # "none"
  /\ at["user"] # "idle" /\ goal["user"] = "index" => ~ rowsBuilt /\ at["user"] \in Loads \cup Extends
  /\ at["user"] # "idle" /\ goal["user"] = "live"
       => at["user"] \in {"live", "walk", "publish", "glob", "rows", "userows", "ext", "extfiles"}
  /\ at["user"] \in {"walk"} \cup (Loads \ {"glob", "rows", "userows"}) => reader
  /\ goal["user"] = "live" /\ at["user"] \in {"glob", "rows", "userows"} => ~ reader

(* What a loader read of a generation of the index. *)
Reading ==
  /\ step \in Nat /\ old \subseteq Main /\ hidden \in {{}, MayBeHidden}
  /\ at["user"] \in {"read", "post", "postcount"} => pre.version <= step /\ pre.version \in Nat
  /\ at["user"] = "read" /\ pre.version = step => pre.count = Lists!Counted.count
  /\ at["user"] \in {"post", "postcount"} /\ pre.version = step /\ pre.count = Cardinality(Main) => got = Main
  /\ at["user"] = "judge" /\ pre = post /\ pre.count = Cardinality(Main) => got = Main
  /\ at["user"] = "append" => got = Main

(* What the scans of the files saw. *)
Scans ==
  /\ globbed.paths \subseteq Main
  /\ globbed.from = "disk" => globbed.paths = Main \ hidden
  /\ at["user"] \in {"rows", "userows"} \/ mainBuilt => globbed # Lists!Unread
  /\ at["user"] = "userows" => mainBuilt
  /\ cut.at # "rows" => \A f \in Lists!Files : mainRows[f] = IF mainBuilt /\ f \in globbed.paths THEN 1 ELSE 0
  /\ walked \in {Lists!Unread, Scan}
  /\ reader => \A t \in {"user", "prewarm"} : goal[t] = "live" /\ at[t] \in {"ext", "extfiles", "publish"} => walked = Scan

(* The modules of the extension. *)
ExtKept ==
  /\ extErrors \in Nat /\ extSet \subseteq Ext
  /\ extBuilt /\ extErrors = 0 => Ext \subseteq extSet
  /\ attached \/ at["user"] \in {"attach", "meta", "built", "publish"} \/ at["prewarm"] = "publish" => extBuilt
  /\ ext \in [Lists!Files -> Nat]
  /\ \A f \in Lists!Files : (f \in extSet => ext[f] # 0) /\ (f \in Main => ext[f] = 0)
  /\ ~ Lists!ExtCut => \A f \in Lists!Files : ext[f] = IF f \in extSet THEN 1 ELSE 0

(* The rows that are loaded. *)
RowsKept ==
  ~ Lists!RowsCut =>
    /\ ~ rowsBuilt /\ ~ Loaded => source = "none" /\ \A f \in Lists!Files : loaded[f] = 0
    /\ rowsBuilt \/ Loaded =>
         /\ source \in {"index", "live"} /\ (source = "live" => mainBuilt)
         /\ \A f \in Main : loaded[f] = IF source = "index" THEN 1 ELSE mainRows[f]
         /\ \A f \in Ext : loaded[f] = IF attached THEN ext[f] ELSE 0
    /\ attached <=> rowsBuilt \/ (Loaded /\ at["user"] \in {"meta", "built"})

(* The live catalogue. *)
LiveKept ==
  /\ live \in [Lists!Files -> Nat]
  /\ cut.at # "publish" => \A f \in Lists!Files : live[f] <= IF liveBuilt THEN 1 ELSE 0
  /\ liveBuilt => status.route = IF reader THEN "walk" ELSE "glob"
  /\ liveBuilt /\ status.complete /\ status.route = "walk" => hidden = {} /\ \A f \in Lists!Files : live[f] # 0

(* The descriptors of the extension. *)
MetaKept ==
  /\ metaBuilt /\ at["user"] # "meta" /\ cut.at # "meta" => descriptors = "all" \/ metaFailed
  /\ at["user"] \in {"meta", "built"} \/ rowsBuilt => metaBuilt

ListsKept == Control /\ Reading /\ Scans /\ ExtKept /\ RowsKept /\ LiveKept /\ MetaKept

(* Catalogues counts as FiniteSets does. *)
LEMMA SameCount == ASSUME NEW S PROVE Lists!Cardinality(S) = Cardinality(S)
  BY Zenon DEF Lists!Cardinality, Lists!IsFiniteSet, Cardinality, IsFiniteSet

LEMMA SubsetOfSameSize ==
  ASSUME NEW S, IsFiniteSet(S), NEW T \in SUBSET S, Cardinality(T) = Cardinality(S)
  PROVE  T = S
  BY FS_Subset, FS_CardinalityType

LEMMA PlusCounts ==
  ASSUME NEW list \in [Lists!Files -> Nat], NEW S
  PROVE  /\ Lists!Plus(list, S) \in [Lists!Files -> Nat]
         /\ \A f \in Lists!Files : Lists!Plus(list, S)[f] = IF f \in S THEN list[f] + 1 ELSE list[f]
  BY DEF Lists!Plus

(* Where the threads are. *)
LEMMA ControlStep == ListsKept /\ Lists!Next => Control'
<1> SUFFICES ASSUME ListsKept, Lists!Next PROVE Control'
  OBVIOUS
<1> USE DEF ListsKept, Control, Places, Loads, Extends, Lists!indexVars, Lists!readVars,
     Lists!scanned, Lists!rowVars, Lists!extVars, Lists!metaVars, Lists!liveVars, Lists!threadVars,
     Lists!Goes, Lists!Takes, Lists!Leaves
<1>1. CASE Lists!Commit
  BY <1>1 DEF Lists!Commit, Lists!Never
<1>2. CASE Lists!Ask("index")
  BY <1>2 DEF Lists!Ask
<1>3. CASE Lists!Ask("live")
  BY <1>3 DEF Lists!Ask
<1>4. CASE Lists!ReadMeta
  BY <1>4 DEF Lists!ReadMeta
<1>5. CASE Lists!ReadCount
  BY <1>5 DEF Lists!ReadCount, Lists!Counted
<1>6. CASE Lists!ReadRows
  BY <1>6 DEF Lists!ReadRows, Lists!Counted, Lists!Modules, Lists!Tables
<1>7. CASE Lists!Judge
  BY <1>7 DEF Lists!Judge, Lists!Proven, Lists!Whole
<1>8. CASE Lists!AppendRows
  BY <1>8 DEF Lists!AppendRows, Lists!Plus, Lists!Files
<1>9. CASE Lists!Glob
  BY <1>9 DEF Lists!Glob, Lists!GlobList, Lists!Paths
<1>10. CASE Lists!MainRows
  BY <1>10 DEF Lists!MainRows, Lists!Plus
<1>11. CASE Lists!UseRows
  BY <1>11 DEF Lists!UseRows, Lists!PlusAll
<1>12. CASE Lists!Attach
  BY <1>12 DEF Lists!Attach, Lists!PlusAll, Lists!Files
<1>13. CASE Lists!Describe
  BY <1>13 DEF Lists!Describe
<1>14. CASE Lists!RowsBuilt
  BY <1>14 DEF Lists!RowsBuilt
<1>15. CASE Lists!Cut
  BY <1>15 DEF Lists!Cut, Lists!NotYet, Lists!Never
<1>16. ASSUME NEW t \in {"user", "prewarm"}, Lists!EnterExt(t) PROVE Control'
  BY <1>16 DEF Lists!EnterExt, Lists!After
<1>17. ASSUME NEW t \in {"user", "prewarm"}, Lists!ExtFile(t) PROVE Control'
  BY <1>17 DEF Lists!ExtFile, Lists!Plus, Lists!Files
<1>18. ASSUME NEW t \in {"user", "prewarm"}, Lists!LeaveExt(t) PROVE Control'
  BY <1>18 DEF Lists!LeaveExt, Lists!After
<1>19. ASSUME NEW t \in {"user", "prewarm"}, Lists!EnterLive(t) PROVE Control'
  BY <1>19 DEF Lists!EnterLive
<1>20. ASSUME NEW t \in {"user", "prewarm"}, Lists!Walk(t) PROVE Control'
  BY <1>20 DEF Lists!Walk
<1>21. ASSUME NEW t \in {"user", "prewarm"}, Lists!Publish(t) PROVE Control'
  BY <1>21 DEF Lists!Publish, Lists!Plus, Lists!Has
<1>22. QED
  BY <1>1, <1>2, <1>3, <1>4, <1>5, <1>6, <1>7, <1>8, <1>9, <1>10, <1>11, <1>12, <1>13, <1>14,
       <1>15, <1>16, <1>17, <1>18, <1>19, <1>20, <1>21 DEF Lists!Next, Lists!UserStep, Lists!Step

(* What is read of the index. *)
LEMMA ReadingStep == ListsKept /\ Lists!Next => Reading'
<1> SUFFICES ASSUME ListsKept, Lists!Next PROVE Reading'
  OBVIOUS
<1> USE DEF ListsKept, Control, Places, Loads, Extends, Reading, Lists!indexVars, Lists!readVars,
     Lists!scanned, Lists!rowVars, Lists!extVars, Lists!metaVars, Lists!liveVars, Lists!threadVars,
     Lists!Goes, Lists!Takes, Lists!Leaves
<1>1. CASE Lists!Commit
  BY <1>1 DEF Lists!Commit, Lists!Never
<1>2. CASE Lists!Ask("index")
  BY <1>2 DEF Lists!Ask
<1>3. CASE Lists!Ask("live")
  BY <1>3 DEF Lists!Ask
<1>4. CASE Lists!ReadMeta
  BY <1>4 DEF Lists!ReadMeta
<1>5. CASE Lists!ReadCount
  <2>1. CASE Lists!Goes("user", "precount", "read")
    <3>1. pre' = [pre EXCEPT !.count = Lists!Counted.count, !.version = Lists!Counted.version] /\ step' = step /\ old' = old /\ hidden' = hidden
      BY <1>5, <2>1 DEF Lists!ReadCount
    <3>2. Lists!Counted' = Lists!Counted
      BY <3>1 DEF Lists!Counted, Lists!Modules, Lists!Tables
    <3>3. pre'.version = step /\ pre'.count = Lists!Counted.count
      BY <3>1 DEF Lists!Counted
    <3>4. QED
      BY <1>5, <2>1, <3>1, <3>2, <3>3
  <2>2. CASE Lists!Goes("user", "postcount", "judge")
    <3>1. post' = [post EXCEPT !.count = Lists!Counted.count, !.version = Lists!Counted.version] /\ UNCHANGED <<pre, step, old, hidden, got>>
      BY <1>5, <2>2 DEF Lists!ReadCount
    <3>2. post'.version = step
      BY <3>1 DEF Lists!Counted
    <3>3. QED
      BY <1>5, <2>2, <3>1, <3>2
  <2>3. QED
    BY <1>5, <2>1, <2>2 DEF Lists!ReadCount
<1>6. CASE Lists!ReadRows
  <2>1. CASE Lists!Tables /\ Lists!Goes("user", "read", "post") /\ got' = Lists!Modules
    <3>1. Lists!Modules \subseteq Main
      BY DEF Lists!Modules
    <3>2. pre.version = step /\ pre.count = Cardinality(Main) => Lists!Modules = Main
      <4>1. pre.version = step => pre.count = Cardinality(Lists!Modules)
        <5>1. Lists!Counted.count = Cardinality(Lists!Modules)
          BY <2>1, SameCount DEF Lists!Counted
        <5>2. pre.version = step => pre.count = Lists!Counted.count
          BY <2>1
        <5>3. QED
          BY <5>1, <5>2
      <4>2. Cardinality(Lists!Modules) = Cardinality(Main) => Lists!Modules = Main
        BY <3>1, ListsAssumption, SubsetOfSameSize
      <4>3. QED
        BY <4>1, <4>2
    <3>3. QED
      BY <1>6, <2>1, <3>2 DEF Lists!ReadRows
  <2>2. CASE ~ Lists!Tables /\ Lists!Goes("user", "read", "glob") /\ UNCHANGED got
    BY <1>6, <2>2 DEF Lists!ReadRows
  <2>3. QED
    BY <1>6, <2>1, <2>2 DEF Lists!ReadRows
<1>7. CASE Lists!Judge
  <2>1. Lists!Proven => got = Main
    BY <1>7, SameCount DEF Lists!Judge, Lists!Proven, Lists!Whole
  <2>2. QED
    BY <1>7, <2>1 DEF Lists!Judge
<1>8. CASE Lists!AppendRows
  BY <1>8 DEF Lists!AppendRows, Lists!Plus, Lists!Files
<1>9. CASE Lists!Glob
  BY <1>9 DEF Lists!Glob, Lists!GlobList, Lists!Paths
<1>10. CASE Lists!MainRows
  BY <1>10 DEF Lists!MainRows, Lists!Plus
<1>11. CASE Lists!UseRows
  BY <1>11 DEF Lists!UseRows, Lists!PlusAll
<1>12. CASE Lists!Attach
  BY <1>12 DEF Lists!Attach, Lists!PlusAll, Lists!Files
<1>13. CASE Lists!Describe
  BY <1>13 DEF Lists!Describe
<1>14. CASE Lists!RowsBuilt
  BY <1>14 DEF Lists!RowsBuilt
<1>15. CASE Lists!Cut
  BY <1>15 DEF Lists!Cut, Lists!NotYet, Lists!Never
<1>16. ASSUME NEW t \in {"user", "prewarm"}, Lists!EnterExt(t) PROVE Reading'
  BY <1>16 DEF Lists!EnterExt, Lists!Counted, Lists!Modules, Lists!Tables, Lists!After
<1>17. ASSUME NEW t \in {"user", "prewarm"}, Lists!ExtFile(t) PROVE Reading'
  BY <1>17 DEF Lists!ExtFile, Lists!Counted, Lists!Modules, Lists!Tables, Lists!After
<1>18. ASSUME NEW t \in {"user", "prewarm"}, Lists!LeaveExt(t) PROVE Reading'
  BY <1>18 DEF Lists!LeaveExt, Lists!Counted, Lists!Modules, Lists!Tables, Lists!After
<1>19. ASSUME NEW t \in {"user", "prewarm"}, Lists!EnterLive(t) PROVE Reading'
  BY <1>19 DEF Lists!EnterLive, Lists!Counted, Lists!Modules, Lists!Tables, Lists!After
<1>20. ASSUME NEW t \in {"user", "prewarm"}, Lists!Walk(t) PROVE Reading'
  BY <1>20 DEF Lists!Walk, Lists!Counted, Lists!Modules, Lists!Tables, Lists!After
<1>21. ASSUME NEW t \in {"user", "prewarm"}, Lists!Publish(t) PROVE Reading'
  BY <1>21 DEF Lists!Publish, Lists!Counted, Lists!Modules, Lists!Tables, Lists!After
<1>22. QED
  BY <1>1, <1>2, <1>3, <1>4, <1>5, <1>6, <1>7, <1>8, <1>9, <1>10, <1>11, <1>12, <1>13, <1>14,
       <1>15, <1>16, <1>17, <1>18, <1>19, <1>20, <1>21 DEF Lists!Next, Lists!UserStep, Lists!Step

(* The scans of the files. *)
LEMMA ScansStep == ListsKept /\ Lists!Next => Scans'
<1> SUFFICES ASSUME ListsKept, Lists!Next PROVE Scans'
  OBVIOUS
<1> USE DEF ListsKept, Control, Places, Loads, Extends, Scans, Scan, Lists!Unread, Lists!indexVars,
     Lists!readVars, Lists!scanned, Lists!rowVars, Lists!extVars, Lists!metaVars, Lists!liveVars,
     Lists!threadVars, Lists!Goes, Lists!Takes, Lists!Leaves
<1>1. CASE Lists!Commit
  BY <1>1 DEF Lists!Commit, Lists!Never
<1>2. CASE Lists!Ask("index")
  BY <1>2 DEF Lists!Ask
<1>3. CASE Lists!Ask("live")
  BY <1>3 DEF Lists!Ask
<1>4. CASE Lists!ReadMeta
  BY <1>4 DEF Lists!ReadMeta
<1>5. CASE Lists!ReadCount
  BY <1>5 DEF Lists!ReadCount, Lists!Counted
<1>6. CASE Lists!ReadRows
  BY <1>6 DEF Lists!ReadRows, Lists!Counted, Lists!Modules, Lists!Tables
<1>7. CASE Lists!Judge
  BY <1>7 DEF Lists!Judge, Lists!Proven, Lists!Whole
<1>8. CASE Lists!AppendRows
  BY <1>8 DEF Lists!AppendRows, Lists!Plus, Lists!Files
<1>9. CASE Lists!Glob
  BY <1>9 DEF Lists!Glob, Lists!GlobList, Lists!Paths
<1>10. CASE Lists!MainRows
  BY <1>10 DEF Lists!MainRows, Lists!Plus
<1>11. CASE Lists!UseRows
  BY <1>11 DEF Lists!UseRows, Lists!PlusAll
<1>12. CASE Lists!Attach
  BY <1>12 DEF Lists!Attach, Lists!PlusAll, Lists!Files
<1>13. CASE Lists!Describe
  BY <1>13 DEF Lists!Describe
<1>14. CASE Lists!RowsBuilt
  BY <1>14 DEF Lists!RowsBuilt
<1>15. CASE Lists!Cut
  BY <1>15 DEF Lists!Cut, Lists!NotYet, Lists!Never, Lists!Plus
<1>16. ASSUME NEW t \in {"user", "prewarm"}, Lists!EnterExt(t) PROVE Scans'
  BY <1>16 DEF Lists!EnterExt, Lists!After
<1>17. ASSUME NEW t \in {"user", "prewarm"}, Lists!ExtFile(t) PROVE Scans'
  BY <1>17 DEF Lists!ExtFile, Lists!Plus, Lists!Files
<1>18. ASSUME NEW t \in {"user", "prewarm"}, Lists!LeaveExt(t) PROVE Scans'
  BY <1>18 DEF Lists!LeaveExt, Lists!After
<1>19. ASSUME NEW t \in {"user", "prewarm"}, Lists!EnterLive(t) PROVE Scans'
  BY <1>19 DEF Lists!EnterLive
<1>20. ASSUME NEW t \in {"user", "prewarm"}, Lists!Walk(t) PROVE Scans'
  BY <1>20 DEF Lists!Walk
<1>21. ASSUME NEW t \in {"user", "prewarm"}, Lists!Publish(t) PROVE Scans'
  BY <1>21 DEF Lists!Publish, Lists!Plus, Lists!Has
<1>22. QED
  BY <1>1, <1>2, <1>3, <1>4, <1>5, <1>6, <1>7, <1>8, <1>9, <1>10, <1>11, <1>12, <1>13, <1>14,
       <1>15, <1>16, <1>17, <1>18, <1>19, <1>20, <1>21 DEF Lists!Next, Lists!UserStep, Lists!Step

(* The extension's modules. *)
LEMMA ExtKeptStep == ListsKept /\ Lists!Next => ExtKept'
<1> SUFFICES ASSUME ListsKept, Lists!Next PROVE ExtKept'
  OBVIOUS
<1> USE DEF ListsKept, Control, Places, Loads, Extends, ExtKept, Lists!ExtCut, Lists!indexVars,
     Lists!readVars, Lists!scanned, Lists!rowVars, Lists!extVars, Lists!metaVars, Lists!liveVars,
     Lists!threadVars, Lists!Goes, Lists!Takes, Lists!Leaves
<1>1. CASE Lists!Commit
  BY <1>1 DEF Lists!Commit, Lists!Never
<1>2. CASE Lists!Ask("index")
  BY <1>2 DEF Lists!Ask
<1>3. CASE Lists!Ask("live")
  BY <1>3 DEF Lists!Ask
<1>4. CASE Lists!ReadMeta
  BY <1>4 DEF Lists!ReadMeta
<1>5. CASE Lists!ReadCount
  BY <1>5 DEF Lists!ReadCount, Lists!Counted
<1>6. CASE Lists!ReadRows
  BY <1>6 DEF Lists!ReadRows, Lists!Counted, Lists!Modules, Lists!Tables
<1>7. CASE Lists!Judge
  BY <1>7 DEF Lists!Judge, Lists!Proven, Lists!Whole
<1>8. CASE Lists!AppendRows
  BY <1>8 DEF Lists!AppendRows, Lists!Plus, Lists!Files
<1>9. CASE Lists!Glob
  BY <1>9 DEF Lists!Glob, Lists!GlobList, Lists!Paths
<1>10. CASE Lists!MainRows
  BY <1>10 DEF Lists!MainRows, Lists!Plus
<1>11. CASE Lists!UseRows
  BY <1>11 DEF Lists!UseRows, Lists!PlusAll
<1>12. CASE Lists!Attach
  BY <1>12 DEF Lists!Attach, Lists!PlusAll, Lists!Files
<1>13. CASE Lists!Describe
  BY <1>13 DEF Lists!Describe
<1>14. CASE Lists!RowsBuilt
  BY <1>14 DEF Lists!RowsBuilt
<1>15. CASE Lists!Cut
  BY <1>15, ListsAssumption DEF Lists!Cut, Lists!NotYet, Lists!Never, Lists!Plus, Lists!Files
<1>16. ASSUME NEW t \in {"user", "prewarm"}, Lists!EnterExt(t) PROVE ExtKept'
  BY <1>16 DEF Lists!EnterExt, Lists!After
<1>17. ASSUME NEW t \in {"user", "prewarm"}, Lists!ExtFile(t) PROVE ExtKept'
  <2>1. PICK f \in Ext : ext' = Lists!Plus(ext, {f}) /\ extSet' = extSet \cup {f} /\ f \notin extSet
    BY <1>17 DEF Lists!ExtFile
  <2>2. f \notin Main /\ ext \in [Lists!Files -> Nat]
    BY <2>1, ListsAssumption
  <2>3. ext' \in [Lists!Files -> Nat] /\ \A g \in Lists!Files : ext'[g] = IF g = f THEN ext[g] + 1 ELSE ext[g]
    BY <2>1, <2>2, PlusCounts
  <2>4. ASSUME NEW g \in Lists!Files PROVE (g \in extSet' => ext'[g] # 0) /\ (g \in Main => ext'[g] = 0)
    <3>1. CASE g = f
      BY <2>2, <2>3, <3>1
    <3>2. CASE g # f
      BY <2>1, <2>3, <3>2
    <3>3. QED
      BY <3>1, <3>2
  <2>5. ~ Lists!ExtCut => \A g \in Lists!Files : ext'[g] = IF g \in extSet' THEN 1 ELSE 0
    BY <2>1, <2>2, <2>3
  <2>6. extSet' \subseteq Ext /\ UNCHANGED <<at, cut, extBuilt, extErrors, attached>> /\ ~ extBuilt
    BY <1>17, <2>1 DEF Lists!ExtFile
  <2>7. QED
    BY <2>3, <2>4, <2>5, <2>6
<1>18. ASSUME NEW t \in {"user", "prewarm"}, Lists!LeaveExt(t) PROVE ExtKept'
  BY <1>18 DEF Lists!LeaveExt, Lists!After
<1>19. ASSUME NEW t \in {"user", "prewarm"}, Lists!EnterLive(t) PROVE ExtKept'
  BY <1>19 DEF Lists!EnterLive
<1>20. ASSUME NEW t \in {"user", "prewarm"}, Lists!Walk(t) PROVE ExtKept'
  BY <1>20 DEF Lists!Walk
<1>21. ASSUME NEW t \in {"user", "prewarm"}, Lists!Publish(t) PROVE ExtKept'
  BY <1>21 DEF Lists!Publish, Lists!Plus, Lists!Has
<1>22. QED
  BY <1>1, <1>2, <1>3, <1>4, <1>5, <1>6, <1>7, <1>8, <1>9, <1>10, <1>11, <1>12, <1>13, <1>14,
       <1>15, <1>16, <1>17, <1>18, <1>19, <1>20, <1>21 DEF Lists!Next, Lists!UserStep, Lists!Step

(* The rows. *)
LEMMA RowsKeptStep == ListsKept /\ Lists!Next => RowsKept'
<1> SUFFICES ASSUME ListsKept, Lists!Next PROVE RowsKept'
  OBVIOUS
<1> USE DEF ListsKept, Control, Places, Loads, Extends, RowsKept, Loaded, Lists!RowsCut, ExtKept,
     Scans, Reading, Lists!Unread, Lists!indexVars, Lists!readVars, Lists!scanned, Lists!rowVars,
     Lists!extVars, Lists!metaVars, Lists!liveVars, Lists!threadVars, Lists!Goes, Lists!Takes,
     Lists!Leaves
<1>1. CASE Lists!Commit
  BY <1>1 DEF Lists!Commit, Lists!Never
<1>2. CASE Lists!Ask("index")
  BY <1>2 DEF Lists!Ask
<1>3. CASE Lists!Ask("live")
  BY <1>3 DEF Lists!Ask
<1>4. CASE Lists!ReadMeta
  BY <1>4 DEF Lists!ReadMeta
<1>5. CASE Lists!ReadCount
  BY <1>5 DEF Lists!ReadCount, Lists!Counted
<1>6. CASE Lists!ReadRows
  BY <1>6 DEF Lists!ReadRows, Lists!Counted, Lists!Modules, Lists!Tables
<1>7. CASE Lists!Judge
  BY <1>7 DEF Lists!Judge, Lists!Proven, Lists!Whole
<1>8. CASE Lists!AppendRows
  <2>1. got = Main /\ ~ rowsBuilt /\ ~ Loaded /\ goal["user"] = "index" /\ at' = [at EXCEPT !["user"] = "ext"]
    BY <1>8 DEF Lists!AppendRows
  <2>2. \A f \in Main : loaded[f] = 0 => loaded'[f] = 1
    BY <1>8, <2>1 DEF Lists!AppendRows, Lists!Plus, Lists!Files
  <2>3. \A f \in Ext : loaded[f] = 0 => loaded'[f] = 0
    BY <1>8, <2>1, ListsAssumption DEF Lists!AppendRows, Lists!Plus, Lists!Files
  <2>4. Main \subseteq Lists!Files /\ Ext \subseteq Lists!Files
    BY DEF Lists!Files
  <2>5. QED
    BY <1>8, <2>1, <2>2, <2>3, <2>4 DEF Lists!AppendRows
<1>9. CASE Lists!Glob
  BY <1>9 DEF Lists!Glob, Lists!GlobList, Lists!Paths
<1>10. CASE Lists!MainRows
  BY <1>10 DEF Lists!MainRows, Lists!Plus
<1>11. CASE Lists!UseRows
  <2>1. CASE goal["user"] = "index"
    <3>1. ~ rowsBuilt /\ ~ Loaded /\ at' = [at EXCEPT !["user"] = "ext"] /\ mainBuilt
      BY <1>11, <2>1 DEF Lists!UseRows
    <3>2. Main \subseteq Lists!Files /\ Ext \subseteq Lists!Files
      BY DEF Lists!Files
    <3>3. ~ Lists!RowsCut => \A f \in Lists!Files : loaded'[f] = mainRows[f]
      BY <1>11, <2>1, <3>1 DEF Lists!UseRows, Lists!PlusAll
    <3>4. ~ Lists!RowsCut => \A f \in Ext : mainRows[f] = 0
      BY <3>2, ListsAssumption
    <3>5. QED
      BY <1>11, <2>1, <3>1, <3>2, <3>3, <3>4 DEF Lists!UseRows
  <2>2. CASE goal["user"] # "index"
    BY <1>11, <2>2 DEF Lists!UseRows
  <2>3. QED
    BY <2>1, <2>2
<1>12. CASE Lists!Attach
  <2>1. /\ ~ rowsBuilt /\ Loaded /\ goal["user"] = "index" /\ at["user"] = "attach"
        /\ at' = [at EXCEPT !["user"] = IF metaBuilt THEN "built" ELSE "meta"]
    BY <1>12 DEF Lists!Attach
  <2>2. Main \subseteq Lists!Files /\ Ext \subseteq Lists!Files
    BY DEF Lists!Files
  <2>3. ~ Lists!RowsCut => \A f \in Lists!Files : loaded'[f] = loaded[f] + ext[f]
    BY <1>12, <2>1 DEF Lists!Attach, Lists!PlusAll
  <2>4. ~ Lists!RowsCut => \A f \in Main : loaded'[f] = loaded[f]
    BY <2>1, <2>2, <2>3
  <2>5. ~ Lists!RowsCut => \A f \in Ext : loaded'[f] = ext[f]
    BY <2>1, <2>2, <2>3
  <2>6. QED
    BY <1>12, <2>1, <2>4, <2>5 DEF Lists!Attach
<1>13. CASE Lists!Describe
  BY <1>13 DEF Lists!Describe
<1>14. CASE Lists!RowsBuilt
  BY <1>14 DEF Lists!RowsBuilt
<1>15. CASE Lists!Cut
  BY <1>15 DEF Lists!Cut, Lists!NotYet, Lists!Never
<1>16. ASSUME NEW t \in {"user", "prewarm"}, Lists!EnterExt(t) PROVE RowsKept'
  BY <1>16 DEF Lists!EnterExt, Lists!After
<1>17. ASSUME NEW t \in {"user", "prewarm"}, Lists!ExtFile(t) PROVE RowsKept'
  BY <1>17 DEF Lists!ExtFile, Lists!Plus, Lists!Files
<1>18. ASSUME NEW t \in {"user", "prewarm"}, Lists!LeaveExt(t) PROVE RowsKept'
  BY <1>18 DEF Lists!LeaveExt, Lists!After
<1>19. ASSUME NEW t \in {"user", "prewarm"}, Lists!EnterLive(t) PROVE RowsKept'
  BY <1>19 DEF Lists!EnterLive
<1>20. ASSUME NEW t \in {"user", "prewarm"}, Lists!Walk(t) PROVE RowsKept'
  BY <1>20 DEF Lists!Walk
<1>21. ASSUME NEW t \in {"user", "prewarm"}, Lists!Publish(t) PROVE RowsKept'
  BY <1>21 DEF Lists!Publish, Lists!Plus, Lists!Has
<1>22. QED
  BY <1>1, <1>2, <1>3, <1>4, <1>5, <1>6, <1>7, <1>8, <1>9, <1>10, <1>11, <1>12, <1>13, <1>14,
       <1>15, <1>16, <1>17, <1>18, <1>19, <1>20, <1>21 DEF Lists!Next, Lists!UserStep, Lists!Step

(* The live catalogue. *)
LEMMA LiveKeptStep == ListsKept /\ Lists!Next => LiveKept'
<1> SUFFICES ASSUME ListsKept, Lists!Next PROVE LiveKept'
  OBVIOUS
<1> USE DEF ListsKept, Control, Places, Loads, Extends, LiveKept, ExtKept, Scans, Scan,
     Lists!Unread, Lists!indexVars, Lists!readVars, Lists!scanned, Lists!rowVars, Lists!extVars,
     Lists!metaVars, Lists!liveVars, Lists!threadVars, Lists!Goes, Lists!Takes, Lists!Leaves
<1>1. CASE Lists!Commit
  BY <1>1 DEF Lists!Commit, Lists!Never
<1>2. CASE Lists!Ask("index")
  BY <1>2 DEF Lists!Ask
<1>3. CASE Lists!Ask("live")
  BY <1>3 DEF Lists!Ask
<1>4. CASE Lists!ReadMeta
  BY <1>4 DEF Lists!ReadMeta
<1>5. CASE Lists!ReadCount
  BY <1>5 DEF Lists!ReadCount, Lists!Counted
<1>6. CASE Lists!ReadRows
  BY <1>6 DEF Lists!ReadRows, Lists!Counted, Lists!Modules, Lists!Tables
<1>7. CASE Lists!Judge
  BY <1>7 DEF Lists!Judge, Lists!Proven, Lists!Whole
<1>8. CASE Lists!AppendRows
  BY <1>8 DEF Lists!AppendRows, Lists!Plus, Lists!Files
<1>9. CASE Lists!Glob
  BY <1>9 DEF Lists!Glob, Lists!GlobList, Lists!Paths
<1>10. CASE Lists!MainRows
  BY <1>10 DEF Lists!MainRows, Lists!Plus
<1>11. CASE Lists!UseRows
  BY <1>11 DEF Lists!UseRows, Lists!PlusAll
<1>12. CASE Lists!Attach
  BY <1>12 DEF Lists!Attach, Lists!PlusAll, Lists!Files
<1>13. CASE Lists!Describe
  BY <1>13 DEF Lists!Describe
<1>14. CASE Lists!RowsBuilt
  BY <1>14 DEF Lists!RowsBuilt
<1>15. CASE Lists!Cut
  BY <1>15 DEF Lists!Cut, Lists!NotYet, Lists!Never, Lists!Plus
<1>16. ASSUME NEW t \in {"user", "prewarm"}, Lists!EnterExt(t) PROVE LiveKept'
  BY <1>16 DEF Lists!EnterExt, Lists!After
<1>17. ASSUME NEW t \in {"user", "prewarm"}, Lists!ExtFile(t) PROVE LiveKept'
  BY <1>17 DEF Lists!ExtFile, Lists!Plus, Lists!Files
<1>18. ASSUME NEW t \in {"user", "prewarm"}, Lists!LeaveExt(t) PROVE LiveKept'
  BY <1>18 DEF Lists!LeaveExt, Lists!After
<1>19. ASSUME NEW t \in {"user", "prewarm"}, Lists!EnterLive(t) PROVE LiveKept'
  BY <1>19 DEF Lists!EnterLive
<1>20. ASSUME NEW t \in {"user", "prewarm"}, Lists!Walk(t) PROVE LiveKept'
  BY <1>20 DEF Lists!Walk
<1>21. ASSUME NEW t \in {"user", "prewarm"}, Lists!Publish(t) PROVE LiveKept'
  <2>1. CASE liveBuilt
    BY <1>21, <2>1 DEF Lists!Publish
  <2>2. CASE ~ liveBuilt
    <3> DEFINE seen == IF reader THEN walked ELSE [globbed EXCEPT !.paths = Lists!Has(mainRows)]
    <3>1. /\ live' = Lists!Plus(live, seen.paths \cup Lists!Has(ext)) /\ liveBuilt' = TRUE
          /\ status' = [complete |-> seen.errors + extErrors = 0, route |-> IF reader THEN "walk" ELSE "glob"]
          /\ UNCHANGED <<hidden, reader, cut>>
      BY <1>21, <2>2 DEF Lists!Publish
    <3>2. \A f \in Lists!Files : live'[f] = live[f] + IF f \in seen.paths \cup Lists!Has(ext) THEN 1 ELSE 0
      BY <3>1 DEF Lists!Plus
    <3>3. live' \in [Lists!Files -> Nat]
      BY <3>1, <3>2 DEF Lists!Plus
    <3>4. status'.complete /\ status'.route = "walk" => hidden = {} /\ \A f \in Lists!Files : live'[f] # 0
      <4>1. SUFFICES ASSUME status'.complete, status'.route = "walk" PROVE hidden = {} /\ \A f \in Lists!Files : live'[f] # 0
        OBVIOUS
      <4>2. reader
        BY <3>1, <4>1
      <4>3. seen = Scan /\ seen.errors + extErrors = 0 /\ extBuilt
        BY <1>21, <3>1, <4>1, <4>2 DEF Lists!Publish
      <4>4. hidden = {} /\ extErrors = 0
        BY <4>3
      <4>5. ASSUME NEW f \in Lists!Files PROVE f \in seen.paths \cup Lists!Has(ext)
        <5>1. CASE f \in Main
          BY <4>3, <4>4, <5>1
        <5>2. CASE f \in Ext
          BY <4>3, <4>4, <5>2 DEF Lists!Has
        <5>3. QED
          BY <5>1, <5>2 DEF Lists!Files
      <4>6. QED
        BY <3>2, <4>4, <4>5
    <3>5. cut'.at # "publish" => \A f \in Lists!Files : live'[f] <= 1
      <4>1. ASSUME cut.at # "publish", NEW f \in Lists!Files PROVE live[f] = 0
        BY <2>2, <4>1
      <4>2. ASSUME NEW f \in Lists!Files, live[f] = 0 PROVE live'[f] <= 1
        BY <3>2, <4>2
      <4>3. QED
        BY <3>1, <4>1, <4>2
    <3> HIDE DEF seen
    <3>6. liveBuilt' /\ status'.route = IF reader' THEN "walk" ELSE "glob"
      BY <3>1
    <3>7. QED
      <4>1. cut'.at # "publish" => \A f \in Lists!Files : live'[f] <= IF liveBuilt' THEN 1 ELSE 0
        BY <3>5, <3>6
      <4>2. liveBuilt' /\ status'.complete /\ status'.route = "walk" => hidden' = {} /\ \A f \in Lists!Files : live'[f] # 0
        BY <3>1, <3>4
      <4>3. QED
        BY <3>3, <3>6, <4>1, <4>2 DEF LiveKept
  <2>3. QED
    BY <2>1, <2>2
<1>22. QED
  BY <1>1, <1>2, <1>3, <1>4, <1>5, <1>6, <1>7, <1>8, <1>9, <1>10, <1>11, <1>12, <1>13, <1>14,
       <1>15, <1>16, <1>17, <1>18, <1>19, <1>20, <1>21 DEF Lists!Next, Lists!UserStep, Lists!Step

(* The descriptors. *)
LEMMA MetaKeptStep == ListsKept /\ Lists!Next => MetaKept'
<1> SUFFICES ASSUME ListsKept, Lists!Next PROVE MetaKept'
  OBVIOUS
<1> USE DEF ListsKept, Control, Places, Loads, Extends, MetaKept, Lists!indexVars, Lists!readVars,
     Lists!scanned, Lists!rowVars, Lists!extVars, Lists!metaVars, Lists!liveVars, Lists!threadVars,
     Lists!Goes, Lists!Takes, Lists!Leaves
<1>1. CASE Lists!Commit
  BY <1>1 DEF Lists!Commit, Lists!Never
<1>2. CASE Lists!Ask("index")
  BY <1>2 DEF Lists!Ask
<1>3. CASE Lists!Ask("live")
  BY <1>3 DEF Lists!Ask
<1>4. CASE Lists!ReadMeta
  BY <1>4 DEF Lists!ReadMeta
<1>5. CASE Lists!ReadCount
  BY <1>5 DEF Lists!ReadCount, Lists!Counted
<1>6. CASE Lists!ReadRows
  BY <1>6 DEF Lists!ReadRows, Lists!Counted, Lists!Modules, Lists!Tables
<1>7. CASE Lists!Judge
  BY <1>7 DEF Lists!Judge, Lists!Proven, Lists!Whole
<1>8. CASE Lists!AppendRows
  BY <1>8 DEF Lists!AppendRows, Lists!Plus, Lists!Files
<1>9. CASE Lists!Glob
  BY <1>9 DEF Lists!Glob, Lists!GlobList, Lists!Paths
<1>10. CASE Lists!MainRows
  BY <1>10 DEF Lists!MainRows, Lists!Plus
<1>11. CASE Lists!UseRows
  BY <1>11 DEF Lists!UseRows, Lists!PlusAll
<1>12. CASE Lists!Attach
  BY <1>12 DEF Lists!Attach, Lists!PlusAll, Lists!Files
<1>13. CASE Lists!Describe
  BY <1>13 DEF Lists!Describe
<1>14. CASE Lists!RowsBuilt
  BY <1>14 DEF Lists!RowsBuilt
<1>15. CASE Lists!Cut
  BY <1>15 DEF Lists!Cut, Lists!NotYet, Lists!Never
<1>16. ASSUME NEW t \in {"user", "prewarm"}, Lists!EnterExt(t) PROVE MetaKept'
  BY <1>16 DEF Lists!EnterExt, Lists!After
<1>17. ASSUME NEW t \in {"user", "prewarm"}, Lists!ExtFile(t) PROVE MetaKept'
  BY <1>17 DEF Lists!ExtFile, Lists!Plus, Lists!Files
<1>18. ASSUME NEW t \in {"user", "prewarm"}, Lists!LeaveExt(t) PROVE MetaKept'
  BY <1>18 DEF Lists!LeaveExt, Lists!After
<1>19. ASSUME NEW t \in {"user", "prewarm"}, Lists!EnterLive(t) PROVE MetaKept'
  BY <1>19 DEF Lists!EnterLive
<1>20. ASSUME NEW t \in {"user", "prewarm"}, Lists!Walk(t) PROVE MetaKept'
  BY <1>20 DEF Lists!Walk
<1>21. ASSUME NEW t \in {"user", "prewarm"}, Lists!Publish(t) PROVE MetaKept'
  BY <1>21 DEF Lists!Publish, Lists!Plus, Lists!Has
<1>22. QED
  BY <1>1, <1>2, <1>3, <1>4, <1>5, <1>6, <1>7, <1>8, <1>9, <1>10, <1>11, <1>12, <1>13, <1>14,
       <1>15, <1>16, <1>17, <1>18, <1>19, <1>20, <1>21 DEF Lists!Next, Lists!UserStep, Lists!Step

LEMMA ListsInit == Lists!Init => ListsKept
<1> SUFFICES ASSUME Lists!Init PROVE ListsKept
  OBVIOUS
<1>1. /\ at \in [{"user", "prewarm"} -> Places] /\ goal \in [{"user", "prewarm"} -> {"index", "live", "none"}]
      /\ at["user"] = "idle" /\ goal["user"] = "none" /\ goal["prewarm"] = "live"
      /\ at["prewarm"] = IF reader THEN "live" ELSE "end"
  BY DEF Lists!Init, Places, Loads, Extends
<1>2. Control
  BY <1>1 DEF Lists!Init, Control, Loads, Extends
<1>3. Reading
  BY <1>1, ListsAssumption DEF Lists!Init, Reading
<1>4. Scans
  BY <1>1 DEF Lists!Init, Scans, Lists!Unread, Lists!NoRows
<1>5. ExtKept
  BY <1>1 DEF Lists!Init, ExtKept, Lists!NoRows
<1>6. RowsKept
  BY <1>1 DEF Lists!Init, RowsKept, Loaded, Lists!NoRows
<1>7. LiveKept
  BY <1>1 DEF Lists!Init, LiveKept, Lists!NoRows
<1>8. MetaKept
  BY <1>1 DEF Lists!Init, MetaKept
<1>9. QED
  BY <1>2, <1>3, <1>4, <1>5, <1>6, <1>7, <1>8 DEF ListsKept

LEMMA ListsStutter == ListsKept /\ UNCHANGED listVars => ListsKept'
  BY DEF listVars, ListsKept, Control, Reading, Scans, ExtKept, RowsKept, LiveKept, MetaKept,
       Loaded, Scan,
     Lists!Counted, Lists!Modules, Lists!Tables, Lists!RowsCut, Lists!ExtCut

LEMMA ListsStep == ListsKept /\ Lists!Next => ListsKept'
  BY ControlStep, ReadingStep, ScansStep, ExtKeptStep, RowsKeptStep, LiveKeptStep,
       MetaKeptStep DEF ListsKept

(* What is kept makes the lists honest. *)
LEMMA ListsSuffice == ListsKept => Lists!CataloguesHonest
<1> SUFFICES ASSUME ListsKept PROVE Lists!CataloguesHonest
  OBVIOUS
<1> USE DEF ListsKept
<1>1. Lists!IndexRowsWhole
  <2>1. ~ Lists!RowsCut /\ source = "index" => rowsBuilt \/ Loaded
    BY DEF RowsKept
  <2>2. QED
    BY <2>1 DEF RowsKept, Lists!IndexRowsWhole
<1>2. Lists!LiveIsHonest
  <2>1. liveBuilt /\ cut.at # "publish" => \A f \in Lists!Files : live[f] <= 1
    BY DEF LiveKept
  <2>2. liveBuilt /\ status.complete /\ status.route = "walk" => Lists!Has(live) = Lists!Files
    BY DEF LiveKept, Lists!Has
  <2>3. QED
    BY <2>1, <2>2 DEF Lists!LiveIsHonest
<1>3. Lists!TotalIsExact
  <2>1. SUFFICES ASSUME rowsBuilt, Lists!TotalExact, ~ Lists!RowsCut, ~ Lists!ExtCut,
                        source = "live" => globbed.from = "disk" \/ globbed.paths = Main
                 PROVE  \A f \in Lists!Files : loaded[f] = 1
    BY DEF Lists!TotalIsExact
  <2>2. /\ attached /\ extBuilt /\ extErrors = 0 /\ cut.at # "rows"
        /\ source \in {"index", "live"} /\ (source = "live" => mainBuilt)
    BY <2>1 DEF RowsKept, ExtKept, Lists!TotalExact, Lists!RowsCut
  <2>3. ASSUME NEW f \in Ext PROVE loaded[f] = 1
    BY <2>1, <2>2 DEF RowsKept, ExtKept, Lists!Files
  <2>4. source = "live" => globbed.paths = Main
    BY <2>1, <2>2 DEF Lists!TotalExact, LiveKept, Scans
  <2>5. ASSUME NEW f \in Main PROVE loaded[f] = 1
    BY <2>1, <2>2, <2>4 DEF RowsKept, Scans, Lists!Files
  <2>6. QED
    BY <2>3, <2>5 DEF Lists!Files
<1>4. Lists!DescriptorsMarked
  BY DEF MetaKept, Control, Lists!DescriptorsMarked, Loads, Extends
<1>5. QED
  BY <1>1, <1>2, <1>3, <1>4 DEF Lists!CataloguesHonest

-----------------------------------------------------------------------------
(***************************************************************************)
(* The rows of calls.  Between updates the rows are those of the modules   *)
(* as they were read; only launches may be of another reading of the       *)
(* descriptors, and the next update knows of which: an update that is      *)
(* interrupted leaves its rows, but not the state that says so.            *)
(***************************************************************************)

(* The launches were read while the descriptors of H shadowed; of Off(H) they
   are wrong. *)
Off(H) == (H \ shadowed) \cup (shadowed \ H)
ReadUnder(H) == callRows = Graph!RowsOf(mods, graphPaths, H)

GraphTypes ==
  /\ part \in DOMAIN graphContentsOf
  /\ disk \in [graphPaths -> UNION {graphContentsOf[part][p] : p \in graphPaths}]
  /\ mods \in [graphPaths -> UNION {graphContentsOf[part][p] : p \in graphPaths}]
  /\ \A p \in graphPaths : disk[p] \in graphContentsOf[part][p] /\ mods[p] \in graphContentsOf[part][p]
  /\ shadowed \subseteq graphPaths /\ known \subseteq graphPaths
  /\ phase \in {"idle", "rows", "launches", "finish"} /\ mode \in {"fast", "scan"}
  /\ gap \in {"none", "open", "lost"}
  /\ count \in Int /\ grown \in Int

(* What an update has taken for changed. *)
Noticed ==
  /\ phase = "rows" => Graph!Stale \subseteq delta
  /\ phase \in {"launches", "finish"} => mods = disk
  /\ phase # "idle" => owned = (IF mode = "scan" THEN touched ELSE Off(known))
  /\ gap = "none" => Off(known) \subseteq touched

Counted ==
  /\ mode = "scan" => grown = 0
  /\ phase = "idle" => mode = "scan"
  /\ phase = "rows" /\ mode = "fast" =>
       grown = Graph!Cardinality(Graph!Present(disk)) - Graph!Cardinality(Graph!Present(mods))
  /\ \/ missed
     \/ count + (IF phase = "rows" THEN 0 ELSE grown) = Graph!Cardinality(Graph!Present(mods))

Derived == moves = Graph!MovesOf(mods, graphPaths) /\ resolved = Graph!Resolved(callRows)

(* After an interruption the launches of a module may be wrong, but then the
   full scan takes its descriptor for changed. *)
RowsRight ==
  /\ gap # "lost" => \E H \in SUBSET graphPaths : ReadUnder(H) /\ Off(H) \subseteq touched
  /\ gap = "none" /\ phase \in {"idle", "rows"} => ReadUnder(known)
  /\ gap # "lost" /\ phase = "launches" =>
       \E H \in SUBSET graphPaths :
         ReadUnder(H) /\ Off(H) \subseteq touched \ delta /\ (gap = "none" => Off(H) \subseteq Off(known))
  /\ phase = "finish" /\ gap \in (IF mode = "scan" THEN {"none", "open"} ELSE {"none"}) => callRows = Graph!Fresh

GraphKept == GraphTypes /\ Noticed /\ Counted /\ Derived /\ RowsRight

LEMMA GraphFacts ==
  /\ IsFiniteSet(graphPaths)
  /\ graphCommon \cup graphManagers \cup graphDescriptors \subseteq graphPaths
  /\ \A tree \in DOMAIN graphContentsOf, p \in graphPaths : \A content \in graphContentsOf[tree][p] :
       \A c \in content.calls : c.kind \in {"call", "background", "member", "dynamic"}
  BY GraphAssumption DEF graphPaths, graphCommon, graphManagers, graphDescriptors, graphContentsOf

LEMMA RowsShape ==
  ASSUME NEW m, NEW S, NEW H, NEW r
  PROVE  r \in Graph!RowsOf(m, S, H) <=>
           \E p \in S \cap Graph!Present(m) : \E c \in m[p].calls :
             /\ c.kind \in Graph!Launch => p \notin H
             /\ r = [file |-> p, call |-> c, key |-> Graph!Key(m, p, c)]
  BY DEF Graph!RowsOf, Graph!CallsIn

LEMMA MovesShape ==
  ASSUME NEW m, NEW S, NEW r
  PROVE  r \in Graph!MovesOf(m, S) <=>
           \E p \in S \cap Graph!Present(m) : \E v \in m[p].moves : r = [file |-> p, move |-> v]
  BY DEF Graph!MovesOf

LEMMA KeyStays ==
  ASSUME GraphTypes, Graph!Stale \subseteq delta,
         NEW p \in graphPaths, p \notin delta, NEW c \in mods[p].calls
  PROVE  Graph!Reresolved(disk, [file |-> p, call |-> c, key |-> Graph!Key(mods, p, c)])
           = [file |-> p, call |-> c, key |-> Graph!Key(disk, p, c)]
<1>1. \A q \in graphPaths \ delta : mods[q] = disk[q]
  BY DEF Graph!Stale
<1>2. Graph!Own(mods, p, c.name) = Graph!Own(disk, p, c.name)
  BY <1>1 DEF Graph!Own
<1>3. c.kind \in {"call", "background", "member", "dynamic"}
  BY GraphFacts DEF GraphTypes
<1> DEFINE row == [file |-> p, call |-> c, key |-> Graph!Key(mods, p, c)]
           late == IF c.via THEN c.head \in Graph!ChangedManagers
                  ELSE c.head \in Graph!ChangedCommon /\ c.kind \in {"call", "background"}
<1>4. Graph!Reresolved(disk, row) = IF late THEN [row EXCEPT !.key = Graph!Key(disk, p, c)] ELSE row
  BY DEF Graph!Reresolved
<1>5. CASE late
  BY <1>4, <1>5
<1>6. CASE ~late
  <2>1. CASE c.kind \in {"member", "dynamic"}
    BY <2>1, <1>4, <1>6 DEF Graph!Key
  <2>2. CASE c.kind \notin {"member", "dynamic"} /\ c.via
    <3>1. Graph!ManagersOf(mods, c.head) = Graph!ManagersOf(disk, c.head)
      BY <1>1, <1>6, <2>2 DEF Graph!ManagersOf, Graph!ChangedManagers, Graph!Present
    <3>2. Graph!ManagerKey(mods, c) = Graph!ManagerKey(disk, c)
      BY <3>1 DEF Graph!ManagerKey
    <3>3. Graph!Key(mods, p, c) = Graph!Key(disk, p, c)
      BY <3>2, <2>2 DEF Graph!Key
    <3>4. QED
      BY <3>3, <1>4, <1>6
  <2>3. CASE c.kind \notin {"member", "dynamic"} /\ ~c.via
    <3>1. c.head \notin Graph!ChangedCommon
      BY <1>3, <1>6, <2>3
    <3>3. Graph!Exported(mods, c.head, c.name) = Graph!Exported(disk, c.head, c.name)
      <4>1. {q \in graphCommon \cap Graph!Present(mods) : graphObjectOf[q] = c.head}
              = {q \in graphCommon \cap Graph!Present(disk) : graphObjectOf[q] = c.head}
        BY <1>1, <3>1 DEF Graph!ChangedCommon, Graph!Present
      <4>2. \A q \in {x \in graphCommon \cap Graph!Present(disk) : graphObjectOf[x] = c.head} : mods[q] = disk[q]
        BY <1>1, <3>1 DEF Graph!ChangedCommon, Graph!Present
      <4>3. QED
        BY <4>1, <4>2 DEF Graph!Exported
    <3>4. Graph!CommonKey(mods, c) = Graph!CommonKey(disk, c)
      BY <3>3 DEF Graph!CommonKey
    <3>5. Graph!Key(mods, p, c) = Graph!Key(disk, p, c)
      BY <3>4, <1>2, <2>3 DEF Graph!Key
    <3>6. QED
      BY <3>5, <1>4, <1>6
  <2>4. QED
    BY <2>1, <2>2, <2>3
<1>7. QED
  BY <1>5, <1>6

(* One transaction turns the rows of the old contents into those of the new. *)
LEMMA RowsWritten ==
  ASSUME GraphTypes, Graph!Stale \subseteq delta, NEW H \in SUBSET graphPaths, ReadUnder(H)
  PROVE  {Graph!Reresolved(disk, r) : r \in {q \in callRows : q.file \notin delta}}
           \cup Graph!RowsOf(disk, delta, shadowed)
         = Graph!RowsOf(disk, graphPaths, (H \ delta) \cup (shadowed \cap delta))
<1> DEFINE kept == {Graph!Reresolved(disk, r) : r \in {q \in callRows : q.file \notin delta}}
           mixed == (H \ delta) \cup (shadowed \cap delta)
           new(p, c) == [file |-> p, call |-> c, key |-> Graph!Key(disk, p, c)]
           was(p, c) == [file |-> p, call |-> c, key |-> Graph!Key(mods, p, c)]
<1>1. \A q \in graphPaths \ delta : mods[q] = disk[q] /\ (q \in Graph!Present(mods) <=> q \in Graph!Present(disk))
  BY DEF Graph!Stale, Graph!Present
<1>2. \A r : r \in callRows <=>
        \E p \in graphPaths \cap Graph!Present(mods) : \E c \in mods[p].calls :
          (c.kind \in Graph!Launch => p \notin H) /\ r = was(p, c)
  BY RowsShape DEF ReadUnder
<1>3. \A p \in graphPaths \ delta : \A c \in mods[p].calls : Graph!Reresolved(disk, was(p, c)) = new(p, c)
  BY KeyStays
<1>4. Graph!Present(disk) \subseteq graphPaths
  BY DEF Graph!Present
<1>5. ASSUME NEW r PROVE r \in kept <=>
        \E p \in graphPaths \cap Graph!Present(disk) : \E c \in disk[p].calls :
          p \notin delta /\ (c.kind \in Graph!Launch => p \notin H) /\ r = new(p, c)
  <2>1. ASSUME r \in kept
        PROVE \E p \in graphPaths \cap Graph!Present(disk) : \E c \in disk[p].calls :
          p \notin delta /\ (c.kind \in Graph!Launch => p \notin H) /\ r = new(p, c)
    <3>1. PICK q \in callRows : q.file \notin delta /\ r = Graph!Reresolved(disk, q)
      BY <2>1
    <3>2. PICK p \in graphPaths \cap Graph!Present(mods) : \E c \in mods[p].calls :
            (c.kind \in Graph!Launch => p \notin H) /\ q = was(p, c)
      BY <3>1, <1>2
    <3>3. PICK c \in mods[p].calls : (c.kind \in Graph!Launch => p \notin H) /\ q = was(p, c)
      BY <3>2
    <3>4. p \notin delta
      BY <3>1, <3>3
    <3>5. r = new(p, c)
      BY <3>1, <3>3, <3>4, <1>3
    <3>6. QED
      BY <3>3, <3>4, <3>5, <1>1
  <2>2. ASSUME NEW p \in graphPaths \cap Graph!Present(disk), NEW c \in disk[p].calls,
               p \notin delta, c.kind \in Graph!Launch => p \notin H, r = new(p, c)
        PROVE r \in kept
    <3>1. p \in Graph!Present(mods) /\ c \in mods[p].calls
      BY <2>2, <1>1
    <3>2. was(p, c) \in callRows /\ was(p, c).file \notin delta
      BY <2>2, <3>1, <1>2
    <3>3. Graph!Reresolved(disk, was(p, c)) = r
      BY <2>2, <3>1, <1>3
    <3>4. QED
      BY <3>2, <3>3
  <2>3. QED
    BY <2>1, <2>2
<1>6. ASSUME NEW r PROVE r \in Graph!RowsOf(disk, delta, shadowed) <=>
        \E p \in graphPaths \cap Graph!Present(disk) : \E c \in disk[p].calls :
          p \in delta /\ (c.kind \in Graph!Launch => p \notin shadowed) /\ r = new(p, c)
  <2>1. r \in Graph!RowsOf(disk, delta, shadowed) <=>
          \E p \in delta \cap Graph!Present(disk) : \E c \in disk[p].calls :
            (c.kind \in Graph!Launch => p \notin shadowed) /\ r = new(p, c)
    BY RowsShape
  <2>2. QED
    BY <2>1, <1>4
<1>7. ASSUME NEW r PROVE r \in Graph!RowsOf(disk, graphPaths, mixed) <=>
        \E p \in graphPaths \cap Graph!Present(disk) : \E c \in disk[p].calls :
          (c.kind \in Graph!Launch => p \notin mixed) /\ r = new(p, c)
  BY RowsShape
<1>8. ASSUME NEW p PROVE p \notin mixed <=> (IF p \in delta THEN p \notin shadowed ELSE p \notin H)
  OBVIOUS
<1> HIDE DEF kept, mixed, new
<1>9. ASSUME NEW r PROVE r \in kept \cup Graph!RowsOf(disk, delta, shadowed) <=> r \in Graph!RowsOf(disk, graphPaths, mixed)
  BY <1>5, <1>6, <1>7, <1>8
<1>10. kept \cup Graph!RowsOf(disk, delta, shadowed) = Graph!RowsOf(disk, graphPaths, mixed)
  BY <1>9
<1>11. QED
  BY <1>10 DEF kept, mixed

LEMMA MovesWritten ==
  ASSUME GraphTypes, Graph!Stale \subseteq delta, Derived
  PROVE  {v \in moves : v.file \notin delta} \cup Graph!MovesOf(disk, delta) = Graph!MovesOf(disk, graphPaths)
<1>1. \A q \in graphPaths \ delta : mods[q] = disk[q] /\ (q \in Graph!Present(mods) <=> q \in Graph!Present(disk))
  BY DEF Graph!Stale, Graph!Present
<1>2. Graph!Present(disk) \subseteq graphPaths
  BY DEF Graph!Present
<1>3. \A r : r \in moves <=> \E p \in graphPaths \cap Graph!Present(mods) : \E v \in mods[p].moves : r = [file |-> p, move |-> v]
  BY MovesShape DEF Derived
<1>4. ASSUME NEW r
      PROVE r \in {v \in moves : v.file \notin delta} \cup Graph!MovesOf(disk, delta) <=> r \in Graph!MovesOf(disk, graphPaths)
  <2>1. r \in {v \in moves : v.file \notin delta} <=>
          \E p \in graphPaths \cap Graph!Present(disk) : \E v \in disk[p].moves : p \notin delta /\ r = [file |-> p, move |-> v]
    BY <1>1, <1>3
  <2>2. r \in Graph!MovesOf(disk, delta) <=>
          \E p \in graphPaths \cap Graph!Present(disk) : \E v \in disk[p].moves : p \in delta /\ r = [file |-> p, move |-> v]
    BY <1>2, MovesShape
  <2>3. r \in Graph!MovesOf(disk, graphPaths) <=>
          \E p \in graphPaths \cap Graph!Present(disk) : \E v \in disk[p].moves : r = [file |-> p, move |-> v]
    BY MovesShape
  <2>4. QED
    BY <2>1, <2>2, <2>3
<1>5. QED
  BY <1>4

(* The launches of the modules whose descriptors changed are read again. *)
LEMMA LaunchesRead ==
  ASSUME NEW H \in SUBSET graphPaths, ReadUnder(H)
  PROVE  {r \in callRows : ~(r.file \in Graph!LaunchDependent /\ r.call.kind \in Graph!Launch)}
           \cup {r \in Graph!RowsOf(mods, Graph!LaunchDependent, shadowed) : r.call.kind \in Graph!Launch}
         = Graph!RowsOf(mods, graphPaths, (H \ Graph!LaunchDependent) \cup (shadowed \cap Graph!LaunchDependent))
<1> DEFINE again == Graph!LaunchDependent
           kept == {r \in callRows : ~(r.file \in again /\ r.call.kind \in Graph!Launch)}
           new == {r \in Graph!RowsOf(mods, again, shadowed) : r.call.kind \in Graph!Launch}
           mixed == (H \ again) \cup (shadowed \cap again)
           row(p, c) == [file |-> p, call |-> c, key |-> Graph!Key(mods, p, c)]
<1>1. again \subseteq graphPaths
  BY DEF Graph!LaunchDependent, Graph!Present
<1> HIDE DEF again
<1>2. ASSUME NEW r PROVE r \in kept <=>
        \E p \in graphPaths \cap Graph!Present(mods) : \E c \in mods[p].calls :
          ~(p \in again /\ c.kind \in Graph!Launch) /\ (c.kind \in Graph!Launch => p \notin H) /\ r = row(p, c)
  <2>1. r \in callRows <=>
          \E p \in graphPaths \cap Graph!Present(mods) : \E c \in mods[p].calls :
            (c.kind \in Graph!Launch => p \notin H) /\ r = row(p, c)
    BY RowsShape DEF ReadUnder
  <2>2. QED
    BY <2>1
<1>3. ASSUME NEW r PROVE r \in new <=>
        \E p \in graphPaths \cap Graph!Present(mods) : \E c \in mods[p].calls :
          p \in again /\ c.kind \in Graph!Launch /\ p \notin shadowed /\ r = row(p, c)
  <2>1. r \in Graph!RowsOf(mods, again, shadowed) <=>
          \E p \in again \cap Graph!Present(mods) : \E c \in mods[p].calls :
            (c.kind \in Graph!Launch => p \notin shadowed) /\ r = row(p, c)
    BY RowsShape
  <2>2. QED
    BY <2>1, <1>1
<1>4. ASSUME NEW r PROVE r \in Graph!RowsOf(mods, graphPaths, mixed) <=>
        \E p \in graphPaths \cap Graph!Present(mods) : \E c \in mods[p].calls :
          (c.kind \in Graph!Launch => p \notin mixed) /\ r = row(p, c)
  BY RowsShape
<1>5. ASSUME NEW p PROVE p \notin mixed <=> (IF p \in again THEN p \notin shadowed ELSE p \notin H)
  OBVIOUS
<1> HIDE DEF kept, new, mixed, row
<1>6. ASSUME NEW r PROVE r \in kept \cup new <=> r \in Graph!RowsOf(mods, graphPaths, mixed)
  BY <1>2, <1>3, <1>4, <1>5
<1>7. kept \cup new = Graph!RowsOf(mods, graphPaths, mixed)
  BY <1>6
<1>8. QED
  BY <1>7 DEF kept, new, mixed, again

(* Then nothing is left of another reading. *)
LEMMA LaunchesFresh ==
  ASSUME NEW H \in SUBSET graphPaths, Off(H) \subseteq owned \ delta
  PROVE  Graph!RowsOf(mods, graphPaths, (H \ Graph!LaunchDependent) \cup (shadowed \cap Graph!LaunchDependent))
         = Graph!RowsOf(mods, graphPaths, shadowed)
<1> DEFINE mixed == (H \ Graph!LaunchDependent) \cup (shadowed \cap Graph!LaunchDependent)
           row(p, c) == [file |-> p, call |-> c, key |-> Graph!Key(mods, p, c)]
<1>1. ASSUME NEW p \in Graph!Present(mods), NEW c \in mods[p].calls, c.kind \in Graph!Launch
      PROVE p \in mixed <=> p \in shadowed
  BY <1>1 DEF Off, Graph!LaunchDependent
<1>2. ASSUME NEW r PROVE r \in Graph!RowsOf(mods, graphPaths, mixed) <=>
        \E p \in graphPaths \cap Graph!Present(mods) : \E c \in mods[p].calls :
          (c.kind \in Graph!Launch => p \notin mixed) /\ r = row(p, c)
  BY RowsShape
<1>3. ASSUME NEW r PROVE r \in Graph!RowsOf(mods, graphPaths, shadowed) <=>
        \E p \in graphPaths \cap Graph!Present(mods) : \E c \in mods[p].calls :
          (c.kind \in Graph!Launch => p \notin shadowed) /\ r = row(p, c)
  BY RowsShape
<1> HIDE DEF mixed, row
<1>4. ASSUME NEW r PROVE r \in Graph!RowsOf(mods, graphPaths, mixed) <=> r \in Graph!RowsOf(mods, graphPaths, shadowed)
  BY <1>1, <1>2, <1>3
<1>5. QED
  BY <1>4 DEF mixed

LEMMA SameGraphCount == \A S : Graph!Cardinality(S) = Cardinality(S)
  BY Zenon DEF Cardinality, Graph!Cardinality

LEMMA PresentCounted ==
  ASSUME NEW m
  PROVE  Graph!Cardinality(Graph!Present(m)) \in Nat
<1>1. Graph!Present(m) \subseteq graphPaths
  BY DEF Graph!Present
<1>2. IsFiniteSet(Graph!Present(m))
  BY <1>1, GraphFacts, FS_Subset
<1>3. Cardinality(Graph!Present(m)) \in Nat
  BY <1>2, FS_CardinalityType
<1>4. QED
  BY <1>3, SameGraphCount

LEMMA GraphInit == Graph!Init => GraphKept
<1> SUFFICES ASSUME Graph!Init PROVE GraphKept
  OBVIOUS
<1>1. GraphTypes
  BY PresentCounted DEF Graph!Init, GraphTypes
<1>2. Noticed /\ Counted
  BY PresentCounted DEF Graph!Init, Noticed, Counted, Off
<1>3. Derived
  BY DEF Graph!Init, Derived
<1>4. ReadUnder({}) /\ Off({}) \subseteq {} /\ known = {} /\ touched = {} /\ phase = "idle"
  BY DEF Graph!Init, ReadUnder, Off, Graph!Fresh
<1>5. RowsRight
  BY <1>4 DEF RowsRight
<1>6. QED
  BY <1>1, <1>2, <1>3, <1>5 DEF GraphKept

LEMMA ListedNoneMeansSame ==
  ASSUME GraphTypes, Graph!Stale = {}
  PROVE  mods = disk
  BY DEF GraphTypes, Graph!Stale

(* What a transaction of rows leaves, also one with nothing to write. *)
LEMMA TreeIsRead ==
  ASSUME GraphTypes, Noticed, phase = "rows", Graph!ScanRows \/ Graph!FastRows
  PROVE  /\ mods' = disk
         /\ \/ delta = {} /\ UNCHANGED <<mods, callRows, moves, resolved>>
            \/ Graph!Written
<1>1. delta = {} => mods = disk
  BY ListedNoneMeansSame DEF Noticed
<1>2. QED
  BY <1>1 DEF Graph!ScanRows, Graph!FastRows, Graph!Written, Graph!tables

LEMMA GraphTypesKept ==
  ASSUME GraphKept, Graph!Next
  PROVE  GraphTypes'
<1> USE DEF GraphKept, GraphTypes
<1>1. ASSUME NEW p \in graphPaths, Graph!EditModule(p) PROVE GraphTypes'
  <2>1. PICK c \in graphContentsOf[part][p] : disk' = [disk EXCEPT ![p] = c]
    BY <1>1 DEF Graph!EditModule
  <2>2. part' = part /\ UNCHANGED <<shadowed, mods, known, phase, mode, gap, count, grown>>
    BY <1>1 DEF Graph!EditModule, Graph!tables, Graph!seen, Graph!running, Graph!ghosts
  <2>3. QED
    BY <2>1, <2>2
<1>2. ASSUME NEW p \in graphDescriptors, Graph!EditDescriptor(p) PROVE GraphTypes'
  <2>1. /\ part' = part /\ UNCHANGED <<disk, mods, known, phase, mode, gap, count, grown>>
        /\ shadowed' = (shadowed \ {p}) \cup ({p} \ shadowed)
    BY <1>2 DEF Graph!EditDescriptor, Graph!tables, Graph!running, Graph!ghosts
  <2>2. p \in graphPaths
    BY GraphFacts
  <2>3. QED
    BY <2>1, <2>2
<1>3. CASE Graph!Build
  BY <1>3, PresentCounted DEF Graph!Build, Graph!sources, Graph!running
<1>4. CASE Graph!StartScan
  BY <1>4 DEF Graph!StartScan, Graph!sources, Graph!tables, Graph!seen, Graph!ghosts
<1>5. ASSUME NEW extra, Graph!StartFast(extra) PROVE GraphTypes'
  <2>1. grown' \in Int
    BY <1>5, PresentCounted DEF Graph!StartFast
  <2>2. QED
    BY <1>5, <2>1 DEF Graph!StartFast, Graph!sources, Graph!tables, Graph!seen, Graph!ghosts
<1>6. CASE Graph!ScanRows
  <2>1. mods' = disk
    BY <1>6, TreeIsRead DEF Graph!ScanRows
  <2>2. count' \in Int
    BY <1>6, PresentCounted DEF Graph!ScanRows
  <2>3. QED
    BY <1>6, <2>1, <2>2 DEF Graph!ScanRows, Graph!sources, Graph!seen
<1>7. CASE Graph!FastRows
  <2>1. mods' = disk
    BY <1>7, TreeIsRead DEF Graph!FastRows
  <2>2. QED
    BY <1>7, <2>1 DEF Graph!FastRows, Graph!sources, Graph!seen, Graph!ghosts
<1>8. CASE Graph!RefreshLaunches
  BY <1>8 DEF Graph!RefreshLaunches, Graph!sources, Graph!seen, Graph!ghosts
<1>9. CASE Graph!FinishScan
  BY <1>9 DEF Graph!FinishScan, Graph!Rested, Graph!sources, Graph!tables
<1>10. CASE Graph!FinishFast
  BY <1>10 DEF Graph!FinishFast, Graph!Rested, Graph!sources, Graph!tables
<1>11. CASE Graph!Interrupted
  BY <1>11 DEF Graph!Interrupted, Graph!Rested, Graph!sources, Graph!tables, Graph!seen
<1>12. QED
  BY <1>1, <1>2, <1>3, <1>4, <1>5, <1>6, <1>7, <1>8, <1>9, <1>10, <1>11 DEF Graph!Next

LEMMA NoticedKept ==
  ASSUME GraphKept, Graph!Next
  PROVE  Noticed'
<1> USE DEF GraphKept, GraphTypes, Noticed, Off
<1>1. ASSUME NEW p \in graphPaths, Graph!EditModule(p) PROVE Noticed'
  BY <1>1 DEF Graph!EditModule, Graph!tables, Graph!seen, Graph!running, Graph!ghosts
<1>2. ASSUME NEW p \in graphDescriptors, Graph!EditDescriptor(p) PROVE Noticed'
  BY <1>2 DEF Graph!EditDescriptor, Graph!tables, Graph!running, Graph!ghosts
<1>3. CASE Graph!Build
  BY <1>3 DEF Graph!Build, Graph!sources, Graph!running
<1>4. CASE Graph!StartScan
  BY <1>4 DEF Graph!StartScan, Graph!sources, Graph!tables, Graph!seen, Graph!ghosts, Graph!Stale
<1>5. ASSUME NEW extra, Graph!StartFast(extra) PROVE Noticed'
  BY <1>5 DEF Graph!StartFast, Graph!sources, Graph!tables, Graph!seen, Graph!ghosts, Graph!Stale
<1>6. CASE Graph!ScanRows
  <2>1. mods' = disk
    BY <1>6, TreeIsRead DEF Graph!ScanRows
  <2>2. QED
    BY <1>6, <2>1 DEF Graph!ScanRows, Graph!sources, Graph!seen
<1>7. CASE Graph!FastRows
  <2>1. mods' = disk
    BY <1>7, TreeIsRead DEF Graph!FastRows
  <2>2. QED
    BY <1>7, <2>1 DEF Graph!FastRows, Graph!sources, Graph!seen, Graph!ghosts
<1>8. CASE Graph!RefreshLaunches
  BY <1>8 DEF Graph!RefreshLaunches, Graph!sources, Graph!seen, Graph!ghosts
<1>9. CASE Graph!FinishScan
  BY <1>9 DEF Graph!FinishScan, Graph!Rested, Graph!sources, Graph!tables
<1>10. CASE Graph!FinishFast
  BY <1>10 DEF Graph!FinishFast, Graph!Rested, Graph!sources, Graph!tables
<1>11. CASE Graph!Interrupted
  BY <1>11 DEF Graph!Interrupted, Graph!Rested, Graph!sources, Graph!tables, Graph!seen
<1>12. QED
  BY <1>1, <1>2, <1>3, <1>4, <1>5, <1>6, <1>7, <1>8, <1>9, <1>10, <1>11 DEF Graph!Next

LEMMA CountedKept ==
  ASSUME GraphKept, Graph!Next
  PROVE  Counted'
<1> USE DEF GraphKept, Counted
<1> DEFINE ofDisk == Graph!Cardinality(Graph!Present(disk))
           ofRows == Graph!Cardinality(Graph!Present(mods))
<1>0. ofDisk \in Int /\ ofRows \in Int /\ count \in Int /\ grown \in Int
  BY PresentCounted DEF GraphTypes
<1>1. ASSUME NEW p \in graphPaths, Graph!EditModule(p) PROVE Counted'
  BY <1>1 DEF Graph!EditModule, Graph!tables, Graph!seen, Graph!running, Graph!ghosts
<1>2. ASSUME NEW p \in graphDescriptors, Graph!EditDescriptor(p) PROVE Counted'
  BY <1>2 DEF Graph!EditDescriptor, Graph!tables, Graph!running, Graph!ghosts
<1>3. CASE Graph!Build
  BY <1>3, <1>0 DEF Graph!Build, Graph!sources, Graph!running
<1>4. CASE Graph!StartScan
  BY <1>4, <1>0 DEF Graph!StartScan, Graph!sources, Graph!tables, Graph!seen, Graph!ghosts
<1>5. ASSUME NEW extra, Graph!StartFast(extra) PROVE Counted'
  BY <1>5, <1>0 DEF Graph!StartFast, Graph!sources, Graph!tables, Graph!seen, Graph!ghosts
<1>6. CASE Graph!ScanRows
  <2>1. mods' = disk /\ (delta = {} => mods' = mods)
    BY <1>6, TreeIsRead DEF Graph!ScanRows, Graph!tables
  <2>2. QED
    BY <1>6, <2>1, <1>0 DEF Graph!ScanRows, Graph!sources, Graph!seen, Graph!tables
<1>7. CASE Graph!FastRows
  <2>1. mods' = disk
    BY <1>7, TreeIsRead DEF Graph!FastRows
  <2>2. QED
    BY <1>7, <2>1, <1>0 DEF Graph!FastRows, Graph!sources, Graph!seen, Graph!ghosts
<1>8. CASE Graph!RefreshLaunches
  BY <1>8, <1>0 DEF Graph!RefreshLaunches, Graph!sources, Graph!seen, Graph!ghosts
<1>9. CASE Graph!FinishScan
  BY <1>9, <1>0 DEF Graph!FinishScan, Graph!Rested, Graph!sources, Graph!tables
<1>10. CASE Graph!FinishFast
  BY <1>10, <1>0 DEF Graph!FinishFast, Graph!Rested, Graph!sources, Graph!tables
<1>11. CASE Graph!Interrupted
  <2>1. phase' = "idle" /\ mode' = "scan" /\ grown' = 0 /\ count' = count /\ mods' = mods
    BY <1>11 DEF Graph!Interrupted, Graph!Rested, Graph!tables
  <2>2. ~missed => (missed' <=> Graph!Uncounted)
    BY <1>11 DEF Graph!Interrupted
  <2>3. missed => missed'
    BY <1>11 DEF Graph!Interrupted
  <2>4. CASE missed \/ Graph!Uncounted
    BY <2>1, <2>2, <2>3, <2>4
  <2>5. CASE ~missed /\ ~Graph!Uncounted
    <3>1. phase = "rows" \/ grown = 0
      BY <2>5 DEF Graph!Uncounted, GraphTypes
    <3>2. count = ofRows
      BY <2>5, <3>1, <1>0
    <3>3. QED
      BY <2>1, <3>2, <1>0
  <2>6. QED
    BY <2>4, <2>5
<1>12. QED
  BY <1>1, <1>2, <1>3, <1>4, <1>5, <1>6, <1>7, <1>8, <1>9, <1>10, <1>11 DEF Graph!Next

LEMMA DerivedKept ==
  ASSUME GraphKept, Graph!Next
  PROVE  Derived'
<1> USE DEF GraphKept, Derived
<1>1. ASSUME NEW p \in graphPaths, Graph!EditModule(p) PROVE Derived'
  BY <1>1 DEF Graph!EditModule, Graph!tables
<1>2. ASSUME NEW p \in graphDescriptors, Graph!EditDescriptor(p) PROVE Derived'
  BY <1>2 DEF Graph!EditDescriptor, Graph!tables
<1>3. CASE Graph!Build
  BY <1>3 DEF Graph!Build
<1>4. CASE Graph!StartScan
  BY <1>4 DEF Graph!StartScan, Graph!tables
<1>5. ASSUME NEW extra, Graph!StartFast(extra) PROVE Derived'
  BY <1>5 DEF Graph!StartFast, Graph!tables
<1>6. CASE Graph!ScanRows \/ Graph!FastRows
  <2>1. phase = "rows"
    BY <1>6 DEF Graph!ScanRows, Graph!FastRows
  <2>2. CASE delta = {} /\ UNCHANGED <<mods, callRows, moves, resolved>>
    BY <2>2
  <2>3. CASE Graph!Written
    BY <2>1, <2>3, MovesWritten DEF Graph!Written, Noticed
  <2>4. QED
    BY <2>1, <2>2, <2>3, <1>6, TreeIsRead
<1>7. CASE Graph!RefreshLaunches
  BY <1>7 DEF Graph!RefreshLaunches
<1>8. CASE Graph!FinishScan \/ Graph!FinishFast \/ Graph!Interrupted
  BY <1>8 DEF Graph!FinishScan, Graph!FinishFast, Graph!Interrupted, Graph!tables
<1>9. QED
  BY <1>1, <1>2, <1>3, <1>4, <1>5, <1>6, <1>7, <1>8 DEF Graph!Next

(* A row can be found under some reading that the next scan knows to be old. *)
LEMMA RowsReadUnder ==
  ASSUME GraphKept, gap # "lost"
  PROVE  \E H \in SUBSET graphPaths :
           /\ ReadUnder(H) /\ Off(H) \subseteq touched
           /\ gap = "none" /\ phase \in {"idle", "rows"} => H = known
           /\ phase = "launches" => Off(H) \subseteq touched \ delta /\ (gap = "none" => Off(H) \subseteq Off(known))
<1> USE DEF GraphKept, GraphTypes, Noticed, RowsRight
<1>1. CASE gap = "none" /\ phase \in {"idle", "rows"}
  BY <1>1
<1>2. CASE phase = "launches"
  BY <1>2
<1>3. CASE ~(gap = "none" /\ phase \in {"idle", "rows"}) /\ phase # "launches"
  BY <1>3
<1>4. QED
  BY <1>1, <1>2, <1>3

LEMMA RowsWrittenUnder ==
  ASSUME GraphKept, phase = "rows", Graph!ScanRows \/ Graph!FastRows,
         NEW H \in SUBSET graphPaths, ReadUnder(H)
  PROVE  callRows' = Graph!RowsOf(disk, graphPaths, (H \ delta) \cup (shadowed \cap delta))
<1> USE DEF GraphKept
<1>1. CASE delta = {} /\ UNCHANGED <<mods, callRows, moves, resolved>>
  <2>1. mods = disk
    BY <1>1, ListedNoneMeansSame DEF Noticed
  <2>2. (H \ delta) \cup (shadowed \cap delta) = H
    BY <1>1
  <2>3. QED
    BY <1>1, <2>1, <2>2 DEF ReadUnder
<1>2. CASE Graph!Written
  BY <1>2, RowsWritten DEF Graph!Written, Noticed
<1>3. QED
  BY <1>1, <1>2, TreeIsRead

LEMMA CallRowsKept ==
  ASSUME GraphKept, Graph!Next
  PROVE  RowsRight'
<1> USE DEF GraphKept
<1>1. ASSUME NEW p \in graphPaths, Graph!EditModule(p) PROVE RowsRight'
  BY <1>1 DEF Graph!EditModule, Graph!tables, Graph!seen, Graph!running, Graph!ghosts, RowsRight, ReadUnder, Off
<1>2. ASSUME NEW p \in graphDescriptors, Graph!EditDescriptor(p) PROVE RowsRight'
  <2>1. /\ phase = "idle" /\ UNCHANGED <<disk, mods, callRows, known, phase, mode, gap>>
        /\ shadowed' = (shadowed \ {p}) \cup ({p} \ shadowed) /\ touched' = touched \cup {p}
    BY <1>2 DEF Graph!EditDescriptor, Graph!tables, Graph!running, Graph!ghosts
  <2>2. \A H \in SUBSET graphPaths : Off(H) \subseteq touched => Off(H)' \subseteq touched'
    BY <2>1 DEF Off
  <2>3. QED
    BY <2>1, <2>2 DEF RowsRight, ReadUnder
<1>3. CASE Graph!Build
  <2>1. callRows' = Graph!RowsOf(disk, graphPaths, shadowed) /\ mods' = disk /\ known' = shadowed /\ shadowed' = shadowed
        /\ phase' = "idle"
    BY <1>3 DEF Graph!Build, Graph!Fresh, Graph!sources, Graph!running
  <2>2. ReadUnder(shadowed)' /\ ReadUnder(known)' /\ Off(shadowed)' = {}
    BY <2>1 DEF ReadUnder, Off
  <2>3. QED
    BY <2>1, <2>2 DEF RowsRight, GraphTypes
<1>4. CASE Graph!StartScan \/ \E extra : Graph!StartFast(extra)
  <2>1. /\ UNCHANGED <<shadowed, mods, callRows, known, touched, gap>>
        /\ phase = "idle" /\ phase' = "rows"
    BY <1>4 DEF Graph!StartScan, Graph!StartFast, Graph!sources, Graph!tables, Graph!seen, Graph!ghosts
  <2>2. QED
    BY <2>1 DEF RowsRight, ReadUnder, Off
<1>5. CASE Graph!ScanRows \/ Graph!FastRows
  <2>1. /\ phase = "rows" /\ phase' = "launches"
        /\ UNCHANGED <<shadowed, known, touched, delta, gap, mode>> /\ mods' = disk
    BY <1>5, TreeIsRead DEF Graph!ScanRows, Graph!FastRows, Graph!sources, Graph!seen, Graph!ghosts
  <2>2. CASE gap = "lost"
    BY <2>1, <2>2 DEF RowsRight
  <2>3. CASE gap # "lost"
    <3>1. PICK H \in SUBSET graphPaths :
            ReadUnder(H) /\ Off(H) \subseteq touched /\ (gap = "none" => H = known)
      BY <2>1, <2>3, RowsReadUnder
    <3>2. PICK mixed \in SUBSET graphPaths : mixed = (H \ delta) \cup (shadowed \cap delta)
      BY DEF GraphTypes
    <3>3. callRows' = Graph!RowsOf(disk, graphPaths, mixed)
      BY <1>5, <2>1, <3>1, <3>2, RowsWrittenUnder
    <3>4. ReadUnder(mixed)'
      BY <2>1, <3>3 DEF ReadUnder
    <3>5. Off(mixed)' \subseteq touched' \ delta' /\ (gap' = "none" => Off(mixed)' \subseteq Off(known)')
      BY <2>1, <3>1, <3>2 DEF Off
    <3>6. QED
      BY <2>1, <3>4, <3>5 DEF RowsRight
  <2>4. QED
    BY <2>2, <2>3
<1>6. CASE Graph!RefreshLaunches
  <2>1. /\ phase = "launches" /\ phase' = "finish"
        /\ UNCHANGED <<disk, shadowed, mods, known, touched, delta, gap, mode>>
    BY <1>6 DEF Graph!RefreshLaunches, Graph!sources, Graph!seen, Graph!ghosts
  <2>2. CASE gap = "lost"
    BY <2>1, <2>2 DEF RowsRight
  <2>3. CASE gap # "lost"
    <3>1. PICK H \in SUBSET graphPaths :
            ReadUnder(H) /\ Off(H) \subseteq touched \ delta /\ (gap = "none" => Off(H) \subseteq Off(known))
      BY <2>1, <2>3, RowsReadUnder
    <3>2. PICK mixed \in SUBSET graphPaths :
            mixed = (H \ Graph!LaunchDependent) \cup (shadowed \cap Graph!LaunchDependent)
      BY DEF GraphTypes
    <3>3. callRows' = Graph!RowsOf(mods, graphPaths, mixed)
      BY <1>6, <3>1, <3>2, LaunchesRead DEF Graph!RefreshLaunches
    <3>4. ReadUnder(mixed)'
      BY <2>1, <3>3 DEF ReadUnder
    <3>5. Off(mixed)' \subseteq touched'
      BY <2>1, <3>1, <3>2 DEF Off
    <3>6. gap \in (IF mode = "scan" THEN {"none", "open"} ELSE {"none"}) => Off(H) \subseteq owned \ delta
      BY <2>1, <3>1 DEF Noticed
    <3>7. mods = disk
      BY <2>1 DEF Noticed
    <3>8. gap' \in (IF mode' = "scan" THEN {"none", "open"} ELSE {"none"}) => callRows' = Graph!Fresh'
      BY <2>1, <3>3, <3>6, <3>7, <3>2, LaunchesFresh DEF Graph!Fresh
    <3>9. QED
      BY <2>1, <3>4, <3>5, <3>8 DEF RowsRight
  <2>4. QED
    BY <2>2, <2>3
<1>7. CASE Graph!FinishScan \/ Graph!FinishFast
  <2>1. /\ phase = "finish" /\ phase' = "idle" /\ UNCHANGED <<disk, shadowed, mods, callRows>>
        /\ known' = shadowed /\ gap' \in {"none", "lost"}
        /\ gap' = "none" => gap \in (IF mode = "scan" THEN {"none", "open"} ELSE {"none"})
    BY <1>7 DEF Graph!FinishScan, Graph!FinishFast, Graph!Rested, Graph!sources, Graph!tables, GraphTypes
  <2>2. CASE gap' = "lost"
    BY <2>1, <2>2 DEF RowsRight
  <2>3. CASE gap' = "none"
    <3>1. callRows = Graph!RowsOf(mods, graphPaths, shadowed)
      BY <2>1, <2>3 DEF RowsRight, Noticed, Graph!Fresh
    <3>2. ReadUnder(known)' /\ ReadUnder(shadowed)' /\ Off(shadowed)' = {}
      BY <2>1, <3>1 DEF ReadUnder, Off
    <3>3. QED
      BY <2>1, <3>2 DEF RowsRight, GraphTypes
  <2>4. QED
    BY <2>1, <2>2, <2>3
<1>8. CASE Graph!Interrupted
  <2>1. /\ phase # "idle" /\ phase' = "idle" /\ UNCHANGED <<shadowed, mods, callRows, known, touched>>
        /\ gap' = (IF phase # "rows" /\ gap = "none" THEN "open" ELSE gap)
    BY <1>8 DEF Graph!Interrupted, Graph!Rested, Graph!sources, Graph!tables, Graph!seen
  <2>2. QED
    BY <2>1 DEF RowsRight, ReadUnder, Off
<1>9. QED
  BY <1>1, <1>2, <1>3, <1>4, <1>5, <1>6, <1>7, <1>8 DEF Graph!Next

LEMMA GraphStep == GraphKept /\ Graph!Next => GraphKept'
  BY GraphTypesKept, NoticedKept, CountedKept, DerivedKept, CallRowsKept DEF GraphKept

LEMMA GraphStutter == GraphKept /\ UNCHANGED <<part, graphVars>> => GraphKept'
<1> SUFFICES ASSUME GraphKept, UNCHANGED <<part, graphVars>> PROVE GraphKept'
  OBVIOUS
<1> USE DEF graphVars, GraphKept
<1>1. GraphTypes' /\ Counted'
  BY DEF GraphTypes, Counted
<1>2. Noticed'
  BY DEF Noticed, Off, Graph!Stale
<1>3. Derived' /\ RowsRight'
  BY DEF Derived, RowsRight, ReadUnder, Off, Graph!Fresh
<1>4. QED
  BY <1>1, <1>2, <1>3

LEMMA GraphSuffices == GraphKept => Graph!UpdateIsBuild
<1> SUFFICES ASSUME GraphKept, phase = "finish",
                    gap \in (IF mode = "scan" THEN {"none", "open"} ELSE {"none"})
             PROVE  /\ callRows = Graph!Fresh /\ moves = Graph!MovesOf(disk, graphPaths)
                    /\ resolved = Graph!Resolved(callRows)
                    /\ missed \/ count + grown = Graph!Cardinality(Graph!Present(disk))
  BY DEF Graph!UpdateIsBuild
<1>1. mods = disk
  BY DEF GraphKept, Noticed
<1>2. QED
  BY <1>1 DEF GraphKept, RowsRight, Derived, Counted

-----------------------------------------------------------------------------
(***************************************************************************)
(* The rows of descriptors.  In every table the rows of files that did not *)
(* change since the last update are those of a build; the fast path takes  *)
(* object by object from the files that may be old, and one step for each  *)
(* domain takes the rest.  The references are the rows of metadata and     *)
(* some of those of forms and of roles: all of them, but for the domains   *)
(* of which a full scan has dropped references.  Each step drops and       *)
(* writes its share of them.                                               *)
(***************************************************************************)

(* The files of which rows may be old, when some objects have been refreshed. *)
Suspect == {f \in since : ~(rowsAbout[f].cat \in point /\ \A d \in due : ~Rows!Same(f, d))}
(* The directories of forms the next update reads. *)
Dirs == {f \in Rows!Of({"form"}) : \E g \in since \cap Rows!Of({"form"}) : Rows!Same(f, g)}

RowsTypes ==
  /\ part \in DOMAIN rowsContentsOf
  /\ text = [f \in rowsFiles |-> text[f]]
  /\ \A f \in rowsFiles :
       \/ text[f] = Rows!Absent
       \/ f \in DOMAIN rowsContentsOf[part] /\ text[f] \in rowsContentsOf[part][f]
  /\ since \subseteq rowsFiles /\ due \subseteq Rows!Of({"desc"}) /\ point \subseteq rowsGroupA \cup rowsGroupB
  /\ stage \in {"idle", "objects", "synonyms", "rights", "forms"} /\ (stage # "objects" => point = {} /\ due = {})
  /\ \A d \in due : rowsAbout[d].cat \in point /\ text[d] # Rows!Malformed
  /\ tables = [own |-> tables.own, refs |-> tables.refs, syns |-> tables.syns,
               forms |-> tables.forms, rights |-> tables.rights, templates |-> tables.templates]

(* Without its descriptor an object has no files. *)
ObjectsWhole ==
  \A d \in Rows!Of({"desc"}), f \in rowsFiles : Rows!Same(f, d) /\ text[d] = Rows!Absent => text[f] = Rows!Absent

OfFiles(rs, S) == \A r \in rs : r.file \in S
(* The rows of the files of K, as far as they are not in A, are those of the sources. *)
Sure(rs, K, A) == Rows!Without(rs, A) = Rows!Rows(K \ A)

(* The references, when some of the domains gone may be missing. *)
RefsIn(t, gone) ==
  /\ t.own \subseteq t.refs /\ t.refs \subseteq t.own \cup t.forms \cup Rows!RoleRefs(t.rights)
  /\ "forms" \notin gone => t.forms \subseteq t.refs
  /\ "rights" \notin gone => Rows!RoleRefs(t.rights) \subseteq t.refs

TablesRight ==
  /\ OfFiles(tables.own, Rows!Metadata) /\ Sure(tables.own, Rows!Metadata, Suspect)
  /\ OfFiles(tables.syns, Rows!Of({"desc", "role"}))
  /\ Sure(tables.syns, Rows!Of({"desc", "role"}), Suspect)
  /\ OfFiles(tables.templates, Rows!Of({"template"}))
  /\ Sure(tables.templates, Rows!Of({"template"}), Suspect)
  /\ OfFiles(tables.rights, Rows!Of({"rights"})) /\ Sure(tables.rights, Rows!Of({"rights"}), since)
  /\ OfFiles(tables.forms, Rows!Of({"form"})) /\ Sure(tables.forms, Rows!Canonical, Dirs)
  /\ RefsIn(tables, dropped)

(* A scan has read the domains before the next. *)
ScanSure(t, next) ==
  /\ next \in {"synonyms", "rights", "forms"} =>
       Sure(t.own, Rows!Metadata, {}) /\ Sure(t.templates, Rows!Of({"template"}), {})
  /\ next \in {"rights", "forms"} => Sure(t.syns, Rows!Of({"desc", "role"}), {})
  /\ next = "forms" => Sure(t.rights, Rows!Of({"rights"}), {})

(* What it skips did not change, and its references are there. *)
MayBeSkipped(domains, gone, next) ==
  /\ domains \subseteq Rows!Domains /\ gone \subseteq {"forms", "rights"}
  /\ next \in {"idle", "objects"} => domains = {}
  /\ next = "synonyms" => "metadata" \notin domains
  /\ next = "rights" => domains \subseteq {"rights", "forms"}
  /\ next = "forms" => domains \subseteq {"forms"} /\ "rights" \notin gone
  /\ \A domain \in domains : Rows!DomainFiles(domain) \cap since = {} /\ domain \notin gone

ScanRight == MayBeSkipped(skip, dropped, stage) /\ ScanSure(tables, stage)

(* A row is stored under a name its file gives. *)
NamesRight ==
  \A r \in tables.own : rowsAbout[r.file].cat \in rowsGroupB =>
    r.text \in DOMAIN rowsNameIn[r.file] /\ r.name = rowsNameIn[r.file][r.text]

DescriptorsRight == RowsTypes /\ ObjectsWhole /\ TablesRight /\ ScanRight /\ NamesRight

(* What the assumption says in the words of DescriptorRows. *)
LEMMA RowsFacts ==
  /\ \A f \in rowsFiles :
       /\ rowsAbout[f].kind \in {"desc", "extra", "template", "role", "form", "rights"}
       /\ rowsAbout[f].kind \in {"desc", "template", "role"} => rowsAbout[f].trigger = "xml"
       /\ rowsAbout[f].kind = "extra" => rowsAbout[f].trigger \in {"xml", "command"}
       /\ rowsAbout[f].kind = "rights" => rowsAbout[f].trigger \in {"xml", "rights"}
       /\ rowsAbout[f].kind \in {"role", "rights"} <=> rowsAbout[f].cat = "Roles"
       /\ rowsAbout[f].cat \in rowsGroupB => rowsAbout[f].kind = "desc"
       /\ rowsAbout[f].cat \in rowsGroupA \cup rowsGroupB =>
            /\ \E d \in Rows!Of({"desc"}) : Rows!Same(f, d)
            /\ \A d, e \in Rows!Of({"desc"}) : Rows!Same(f, d) /\ Rows!Same(f, e) => d = e
  /\ "Roles" \notin rowsGroupA \cup rowsGroupB
  BY DescriptorsAssumption DEF Rows!Of, Rows!Same

(* The descriptors of a tree, and the names they may give. *)
LEMMA TreeFacts ==
  \A t \in DOMAIN rowsContentsOf :
    /\ \A d \in Rows!Of({"desc"}), f \in DOMAIN rowsContentsOf[t] : Rows!Same(f, d) => d \in DOMAIN rowsContentsOf[t]
    /\ \A f \in DOMAIN rowsContentsOf[t] :
         /\ f \in rowsFiles /\ 1 \in rowsContentsOf[t][f]
         /\ rowsAbout[f].cat \in rowsGroupB => rowsContentsOf[t][f] \subseteq {0, -1} \cup DOMAIN rowsNameIn[f]
  BY DescriptorsAssumption DEF Rows!Of, Rows!Same

(* A row is that of a file that is there and can be parsed. *)
LEMMA RowShape ==
  ASSUME NEW S, NEW r
  PROVE  r \in Rows!Rows(S) <=>
           \E f \in S : /\ text[f] \notin {Rows!Absent, Rows!Malformed}
                        /\ r = [file |-> f, name |-> Rows!NameOf(f), text |-> text[f]]
  BY DEF Rows!Rows

(* Rows are of the files they are read from. *)
LEMMA RowsOfFiles ==
  ASSUME NEW S
  PROVE  OfFiles(Rows!Rows(S), S)
  BY RowShape DEF OfFiles

(* Rows of some files of a table are read again. *)
LEMMA Reread ==
  ASSUME NEW X, NEW K, NEW A, NEW B, NEW D,
         Sure(X, K, A), A \ D \subseteq B
  PROVE  Sure(Rows!Without(X, D) \cup Rows!Rows(K \cap D), K, B)
<1> DEFINE N == Rows!Without(X, D) \cup Rows!Rows(K \cap D)
           row(f) == [file |-> f, name |-> Rows!NameOf(f), text |-> text[f]]
           present(f) == text[f] \notin {Rows!Absent, Rows!Malformed}
<1>1. \A r : r \in Rows!Rows(K \ A) <=> \E f \in K \ A : present(f) /\ r = row(f)
  BY RowShape
<1>2. \A r : r \in Rows!Rows(K \cap D) <=> \E f \in K \cap D : present(f) /\ r = row(f)
  BY RowShape
<1>3. \A r : r \in Rows!Rows(K \ B) <=> \E f \in K \ B : present(f) /\ r = row(f)
  BY RowShape
<1>4. \A f : row(f).file = f
  OBVIOUS
<1> HIDE DEF row, present
<1>5. ASSUME NEW r PROVE r \in Rows!Without(X, D) /\ r.file \notin B <=> r \in Rows!Rows(K \ A) /\ r.file \notin B \cup D
  BY DEF Sure, Rows!Without
<1>6. ASSUME NEW r PROVE r \in Rows!Without(N, B) <=> r \in Rows!Rows(K \ B)
  <2>1. r \in Rows!Without(N, B) <=> (r \in Rows!Without(X, D) \/ r \in Rows!Rows(K \cap D)) /\ r.file \notin B
    BY DEF Sure, Rows!Without
  <2>2. ASSUME r \in Rows!Without(X, D), r.file \notin B PROVE r \in Rows!Rows(K \ B)
    <3>1. r \in Rows!Rows(K \ A)
      BY <2>2, <1>5
    <3>2. PICK f \in K \ A : present(f) /\ r = row(f)
      BY <3>1, <1>1
    <3>3. f \notin B
      BY <3>2, <2>2, <1>4
    <3>4. QED
      BY <3>2, <3>3, <1>3
  <2>3. ASSUME r \in Rows!Rows(K \cap D), r.file \notin B PROVE r \in Rows!Rows(K \ B)
    BY <2>3, <1>2, <1>3, <1>4
  <2>4. ASSUME r \in Rows!Rows(K \ B) PROVE r \in Rows!Without(N, B)
    <3>1. PICK f \in K \ B : present(f) /\ r = row(f)
      BY <2>4, <1>3
    <3>2. r.file = f
      BY <3>1, <1>4
    <3>3. CASE f \in D
      BY <3>1, <3>2, <3>3, <2>1, <1>2
    <3>4. CASE f \notin D
      BY <3>1, <3>2, <3>4, <2>1, <1>1, <1>5
    <3>5. QED
      BY <3>3, <3>4
  <2>5. QED
    BY <2>1, <2>2, <2>3, <2>4
<1>7. Sure(N, K, B)
  BY <1>6 DEF Sure, Rows!Without
<1>8. QED
  BY <1>7

(* They still are when some are read again. *)
LEMMA StillOfFiles ==
  ASSUME NEW X, NEW K, NEW L, NEW D, OfFiles(X, L), K \subseteq L
  PROVE  OfFiles(Rows!Without(X, D) \cup Rows!Rows(K \cap D), L)
  BY RowShape DEF OfFiles, Rows!Without

(* What is right stays right when more files may be old. *)
LEMMA LessIsSure ==
  ASSUME NEW X, NEW K, NEW A, NEW B, Sure(X, K, A), A \subseteq B
  PROVE  Sure(X, K, B)
<1>1. \A r : r \in Rows!Without(X, B) <=> r \in Rows!Without(X, A) /\ r.file \notin B
  BY DEF Sure, Rows!Without
<1>2. \A r : r \in Rows!Rows(K \ B) <=> r \in Rows!Rows(K \ A) /\ r.file \notin B
  BY RowShape
<1>3. QED
  BY <1>1, <1>2 DEF Sure, Rows!Without

(* A table that no file of the difference has rows in. *)
LEMMA OtherFiles ==
  ASSUME NEW X, NEW K, NEW A, NEW B, OfFiles(X, K), Sure(X, K, A), K \cap A \subseteq B
  PROVE  Sure(X, K, B)
<1>1. \A r : r \in Rows!Without(X, B) <=> r \in Rows!Without(X, A) /\ r.file \notin B
  BY DEF Sure, Rows!Without, OfFiles
<1>2. \A r : r \in Rows!Rows(K \ B) <=> r \in Rows!Rows(K \ A) /\ r.file \notin B
  BY RowShape
<1>3. QED
  BY <1>1, <1>2 DEF Sure, Rows!Without

(* A table of which no file may be old is that of a build. *)
LEMMA NothingElse ==
  ASSUME NEW X, NEW K, Sure(X, K, {})
  PROVE  X = Rows!Rows(K)
<1>1. Rows!Without(X, {}) = X
  BY DEF Sure, Rows!Without
<1>2. K \ {} = K
  OBVIOUS
<1>3. QED
  BY <1>1, <1>2 DEF Sure

(* A row that is read has a name its file gives. *)
LEMMA FreshNames ==
  ASSUME RowsTypes, NEW S \in SUBSET rowsFiles, NEW r \in Rows!Rows(S), rowsAbout[r.file].cat \in rowsGroupB
  PROVE  r.text \in DOMAIN rowsNameIn[r.file] /\ r.name = rowsNameIn[r.file][r.text]
<1>1. PICK f \in S : text[f] \notin {Rows!Absent, Rows!Malformed}
                     /\ r = [file |-> f, name |-> Rows!NameOf(f), text |-> text[f]]
  BY RowShape
<1>2. r.file = f /\ r.text = text[f] /\ r.name = rowsNameIn[f][text[f]]
  BY <1>1 DEF Rows!NameOf
<1>3. f \in DOMAIN rowsContentsOf[part] /\ text[f] \in rowsContentsOf[part][f]
  BY <1>1 DEF RowsTypes
<1>4. text[f] \in DOMAIN rowsNameIn[f]
  BY <1>1, <1>2, <1>3, TreeFacts DEF RowsTypes, Rows!Absent, Rows!Malformed
<1>5. QED
  BY <1>2, <1>4

(* No scan is under way. *)
LEMMA NoScan ==
  ASSUME stage \in {"idle", "objects"}, skip = {}, dropped \subseteq {"forms", "rights"}
  PROVE  ScanRight
  BY DEF ScanRight, MayBeSkipped, ScanSure

(* A build is right. *)
LEMMA RowsInit == Rows!Init => DescriptorsRight
<1> SUFFICES ASSUME Rows!Init PROVE DescriptorsRight
  OBVIOUS
<1>1. /\ part \in DOMAIN rowsContentsOf
      /\ text = [f \in rowsFiles |-> IF f \in DOMAIN rowsContentsOf[part] THEN 1 ELSE Rows!Absent]
      /\ since = {} /\ tables = Rows!Built /\ stage = "idle" /\ point = {} /\ due = {}
      /\ skip = {} /\ dropped = {}
  BY DEF Rows!Init
<1>2. RowsTypes
  BY <1>1, TreeFacts DEF RowsTypes, Rows!Built
<1>3. ObjectsWhole
  BY <1>1, TreeFacts DEF ObjectsWhole, Rows!Of, Rows!Absent
<1>4. Suspect = {} /\ Dirs = {}
  BY <1>1 DEF Suspect, Dirs
<1>5. ASSUME NEW S PROVE OfFiles(Rows!Rows(S), S) /\ Sure(Rows!Rows(S), S, {})
  <2>1. S \ {} = S
    OBVIOUS
  <2>2. QED
    BY <2>1, RowsOfFiles DEF Sure, Rows!Without
<1>6. OfFiles(Rows!Rows(Rows!Canonical), Rows!Of({"form"}))
  BY RowsOfFiles DEF OfFiles, Rows!Canonical
<1>7. Rows!Rows(Rows!Metadata \cup Rows!Canonical) = Rows!Rows(Rows!Metadata) \cup Rows!Rows(Rows!Canonical)
  BY DEF Rows!Rows
<1>8. TablesRight
  BY <1>1, <1>4, <1>5, <1>6, <1>7 DEF TablesRight, RefsIn, Rows!Built
<1>9. NamesRight
  <2>1. ASSUME NEW r \in Rows!Rows(Rows!Metadata), rowsAbout[r.file].cat \in rowsGroupB
        PROVE r.text \in DOMAIN rowsNameIn[r.file] /\ r.name = rowsNameIn[r.file][r.text]
    BY <2>1, FreshNames, <1>2 DEF Rows!Metadata, Rows!Of
  <2>2. QED
    BY <1>1, <2>1 DEF NamesRight, Rows!Built
<1>10. QED
  BY <1>1, <1>2, <1>3, <1>8, <1>9, NoScan DEF DescriptorsRight

(* While no file changes the same rows are read. *)
LEMMA SameRows == ASSUME text' = text PROVE (\A S : Rows!Rows(S)' = Rows!Rows(S)) /\ Rows!Canonical' = Rows!Canonical
<1>1. \A S : Rows!Rows(S)' = Rows!Rows(S)
  BY DEF Rows!Rows, Rows!NameOf
<1>2. Rows!Canonical' = Rows!Canonical
  BY DEF Rows!Canonical
<1>3. QED
  BY <1>1, <1>2

(* No scan begins. *)
LEMMA StillNoScan ==
  ASSUME ScanRight, stage \in {"idle", "objects"}, stage' \in {"idle", "objects"}, skip' = skip, dropped' \subseteq dropped
  PROVE  ScanRight'
  BY DEF ScanRight, MayBeSkipped, ScanSure

(* A file has one of the contents of its tree. *)
LEMMA Contents ==
  ASSUME RowsTypes, NEW g \in rowsFiles
  PROVE  text[g] = Rows!Absent \/ (g \in DOMAIN rowsContentsOf[part] /\ text[g] \in rowsContentsOf[part][g])
<1>1. \A f \in rowsFiles :
       \/ text[f] = Rows!Absent
       \/ f \in DOMAIN rowsContentsOf[part] /\ text[f] \in rowsContentsOf[part][f]
  BY Zenon DEF RowsTypes
<1>2. QED
  BY Zenon, <1>1

(* An edit makes the rows of its files old, and of the other forms of its directory. *)
LEMMA EditKept ==
  ASSUME DescriptorsRight, NEW f \in DOMAIN rowsContentsOf[part], NEW c \in rowsContentsOf[part][f], Rows!Edit(f, c)
  PROVE  DescriptorsRight'
<1> USE DEF DescriptorsRight
<1> DEFINE gone == IF c = Rows!Absent /\ rowsAbout[f].kind \in {"desc", "role"}
                   THEN {g \in rowsFiles : Rows!Same(f, g)} ELSE {f}
           changed == {g \in gone : text[g] # Rows!Absent} \cup {f}
<1>1. /\ stage = "idle" /\ UNCHANGED <<part, tables, stage, point, due, skip, dropped>>
      /\ text' = [g \in rowsFiles |-> IF g = f THEN c ELSE IF g \in gone THEN Rows!Absent ELSE text[g]]
      /\ since' = since \cup changed
      /\ \A d \in Rows!Of({"desc", "role"}) : Rows!Same(f, d) /\ d # f => text[d] # Rows!Absent
  BY DEF Rows!Edit, Rows!fastVars, Rows!scanVars
<1>2. f \in rowsFiles
  BY TreeFacts DEF RowsTypes
<1>3. gone \subseteq rowsFiles /\ changed \subseteq rowsFiles
  BY <1>2
<1>4. \A g \in rowsFiles \ since' : text'[g] = text[g]
  BY <1>1
<1>5. RowsTypes'
  <2>1. text' = [g \in rowsFiles |-> text'[g]]
    BY <1>1
  <2>2. ASSUME NEW g \in rowsFiles
        PROVE  text'[g] = Rows!Absent \/ (g \in DOMAIN rowsContentsOf[part] /\ text'[g] \in rowsContentsOf[part][g])
    <3>1. text'[g] = IF g = f THEN c ELSE IF g \in gone THEN Rows!Absent ELSE text[g]
      BY <1>1
    <3>2. text[g] = Rows!Absent \/ (g \in DOMAIN rowsContentsOf[part] /\ text[g] \in rowsContentsOf[part][g])
      BY Contents
    <3>3. CASE g = f
      BY <3>1, <3>3
    <3>4. CASE g # f
      BY Zenon, <3>1, <3>2, <3>4
    <3>5. QED
      BY <3>3, <3>4
  <2>3. QED
    <3>1. since' \subseteq rowsFiles
      BY <1>1, <1>3 DEF RowsTypes
    <3>2. due = {} /\ point = {}
      BY <1>1 DEF RowsTypes
    <3>3. QED
      BY <1>1, <2>1, <2>2, <3>1, <3>2 DEF RowsTypes
<1>6. ObjectsWhole'
  <2> SUFFICES ASSUME NEW d \in Rows!Of({"desc"}), NEW g \in rowsFiles, Rows!Same(g, d), text'[d] = Rows!Absent
               PROVE  text'[g] = Rows!Absent
    BY DEF ObjectsWhole
  <2>1. d \in rowsFiles /\ rowsAbout[d].kind = "desc" /\ d \in Rows!Of({"desc", "role"})
    BY DEF Rows!Of
  <2>2. CASE Rows!Same(f, d)
    <3>1. CASE d = f
      BY <1>1, <2>1, <2>2, <3>1 DEF Rows!Same
    <3>2. CASE d # f
      <4>1. text[d] # Rows!Absent /\ d \in gone
        BY <1>1, <2>1, <2>2, <3>2
      <4>2. c = Rows!Absent /\ gone = {x \in rowsFiles : Rows!Same(f, x)}
        BY <4>1, <3>2
      <4>3. g \in gone
        BY <4>2, <2>2 DEF Rows!Same
      <4>4. QED
        BY <1>1, <4>2, <4>3
    <3>3. QED
      BY <3>1, <3>2
  <2>3. CASE ~Rows!Same(f, d)
    <3>1. d \notin gone /\ g \notin gone /\ d # f /\ g # f
      BY <2>3 DEF Rows!Same
    <3>2. QED
      BY <1>1, <2>1, <3>1 DEF ObjectsWhole
  <2>4. QED
    BY <2>2, <2>3
<1>7. Suspect = since /\ Suspect' = since'
  BY <1>1 DEF Suspect, RowsTypes
<1>8. ASSUME NEW S \in SUBSET rowsFiles, S \cap since' = {} PROVE Rows!Rows(S)' = Rows!Rows(S)
  BY <1>4, <1>8 DEF Rows!Rows, Rows!NameOf
<1>9. ASSUME NEW rs, NEW K \in SUBSET rowsFiles, Sure(rs, K, since)
      PROVE  Sure(rs, K, since)'
  <2>1. PICK A, B : A = since /\ B = since'
    OBVIOUS
  <2>2. A \subseteq B
    BY <1>1, <2>1
  <2>3. Sure(rs, K, A)
    BY <1>9, <2>1
  <2>4. Sure(rs, K, B)
    BY ONLY <2>2, <2>3, LessIsSure
  <2>5. Rows!Rows(K \ B)' = Rows!Rows(K \ B)
    BY <1>8, <2>1
  <2>6. Sure(rs, K, B)'
    BY <2>4, <2>5 DEF Sure, Rows!Without
  <2>7. QED
    BY <2>1, <2>6
<1>10. Dirs \subseteq Dirs' /\ Rows!Canonical' \ Dirs' = Rows!Canonical \ Dirs'
  <2>1. Dirs \subseteq Dirs'
    BY <1>1 DEF Dirs
  <2>2. ASSUME NEW x \in Rows!Of({"form"}) \ Dirs', NEW g \in Rows!Of({"form"}), Rows!Same(x, g)
        PROVE  text'[g] = text[g] /\ text'[x] = text[x]
    BY <2>2, <1>4 DEF Dirs, Rows!Of, Rows!Same
  <2>3. ASSUME NEW x \in Rows!Of({"form"}) \ Dirs' PROVE x \in Rows!Canonical' <=> x \in Rows!Canonical
    <3>1. text'[x] = text[x]
      BY <2>2 DEF Rows!Same
    <3>2. QED
      BY <2>2, <3>1 DEF Rows!Canonical
  <2>4. Rows!Canonical \subseteq Rows!Of({"form"}) /\ Rows!Canonical' \subseteq Rows!Of({"form"})
    BY DEF Rows!Canonical
  <2>5. QED
    BY <2>1, <2>3, <2>4
<1>11. Sure(tables.forms, Rows!Canonical, Dirs)'
  <2>1. PICK B, S : B = Dirs' /\ S = Rows!Canonical \ B
    OBVIOUS
  <2>2. Sure(tables.forms, Rows!Canonical, Dirs)
    BY DEF TablesRight
  <2>3. Dirs \subseteq B
    BY <1>10, <2>1
  <2>4. Sure(tables.forms, Rows!Canonical, B)
    BY ONLY <2>2, <2>3, LessIsSure
  <2>5. S \in SUBSET rowsFiles /\ S \cap since' = {}
    BY <2>1 DEF Rows!Canonical, Dirs, Rows!Of, Rows!Same
  <2>6. Rows!Rows(S)' = Rows!Rows(S)
    BY <1>8, <2>5
  <2>7. Rows!Rows(Rows!Canonical \ Dirs)' = Rows!Rows(S)'
    BY <2>1, <1>10
  <2>8. Rows!Without(tables'.forms, B) = Rows!Rows(S)
    BY <1>1, <2>1, <2>4 DEF Sure
  <2>9. QED
    BY <2>1, <2>6, <2>7, <2>8 DEF Sure
<1>12. TablesRight'
  <2>1. /\ Sure(tables.own, Rows!Metadata, since)'
        /\ Sure(tables.syns, Rows!Of({"desc", "role"}), since)'
        /\ Sure(tables.templates, Rows!Of({"template"}), since)'
        /\ Sure(tables.rights, Rows!Of({"rights"}), since)'
    <3>1. \A K : Rows!Of(K) \in SUBSET rowsFiles
      BY DEF Rows!Of
    <3>2. /\ Sure(tables.own, Rows!Metadata, since) /\ Sure(tables.syns, Rows!Of({"desc", "role"}), since)
          /\ Sure(tables.templates, Rows!Of({"template"}), since) /\ Sure(tables.rights, Rows!Of({"rights"}), since)
      BY <1>7 DEF TablesRight
    <3>3. QED
      BY <1>1, <1>9, <3>1, <3>2 DEF Rows!Metadata
  <2>2. /\ OfFiles(tables.own, Rows!Metadata)' /\ OfFiles(tables.syns, Rows!Of({"desc", "role"}))'
        /\ OfFiles(tables.templates, Rows!Of({"template"}))' /\ OfFiles(tables.rights, Rows!Of({"rights"}))'
        /\ OfFiles(tables.forms, Rows!Of({"form"}))'
        /\ RefsIn(tables, dropped)'
    BY <1>1 DEF TablesRight, OfFiles, RefsIn
  <2>3. QED
    BY <1>7, <1>11, <2>1, <2>2 DEF TablesRight
<1>13. NamesRight'
  BY <1>1 DEF NamesRight
<1>14. ScanRight'
  BY <1>1, StillNoScan
<1>15. QED
  BY <1>5, <1>6, <1>12, <1>13, <1>14

(* Only files of objects that are named are taken from the domains. *)
LEMMA FastStartKept ==
  ASSUME DescriptorsRight, Rows!FastStart
  PROVE  DescriptorsRight'
<1>1. /\ stage = "idle" /\ stage' = "objects" /\ UNCHANGED <<part, text, since, tables, skip, dropped>>
      /\ point' \subseteq {c \in Rows!Changed : Rows!MayPoint(c)}
      /\ due' = UNION {Rows!Touched(c) : c \in point'}
  BY DEF Rows!FastStart, Rows!scanVars
<1>2. \A d : d \in due' <=> \E c \in point' : d \in Rows!Touched(c)
  BY <1>1
<1>3. \A c \in point' : c \in rowsGroupA \cup rowsGroupB
  BY <1>1 DEF Rows!MayPoint
<1>4. \A d \in due' : d \in Rows!Of({"desc"}) /\ rowsAbout[d].cat \in point' /\ text[d] # Rows!Malformed
  <2> SUFFICES ASSUME NEW d \in due' PROVE d \in Rows!Of({"desc"}) /\ rowsAbout[d].cat \in point' /\ text[d] # Rows!Malformed
    OBVIOUS
  <2>1. PICK c \in point' : d \in Rows!Touched(c)
    BY <1>2
  <2>2. d \in Rows!Of({"desc"}) /\ rowsAbout[d].cat = c
    BY <2>1 DEF Rows!Touched, Rows!In
  <2>3. Rows!MayPoint(c)
    BY <1>1
  <2>4. text[d] # Rows!Malformed
    BY <2>1, <2>3 DEF Rows!MayPoint
  <2>5. QED
    BY <2>2, <2>4
<1>5. RowsTypes'
  <2>1. due' \subseteq Rows!Of({"desc"}) /\ point' \subseteq rowsGroupA \cup rowsGroupB
    BY <1>3, <1>4
  <2>2. \A f \in rowsFiles : \/ text[f] = Rows!Absent
                             \/ f \in DOMAIN rowsContentsOf[part] /\ text[f] \in rowsContentsOf[part][f]
    BY Contents DEF DescriptorsRight
  <2>3. QED
    BY <1>1, <1>4, <2>1, <2>2 DEF RowsTypes, DescriptorsRight
<1>6. ObjectsWhole' /\ NamesRight'
  BY <1>1 DEF ObjectsWhole, NamesRight, DescriptorsRight
<1>7. Suspect = since /\ since \subseteq rowsFiles
  BY <1>1 DEF Suspect, RowsTypes, DescriptorsRight
<1>8. Rows!Of({"desc", "extra", "template", "role"}) \cap since \subseteq Suspect'
  <2> SUFFICES ASSUME NEW f \in since, rowsAbout[f].kind \in {"desc", "extra", "template", "role"},
                      rowsAbout[f].cat \in point'
               PROVE  \E d \in due' : Rows!Same(f, d)
    BY <1>1 DEF Suspect, Rows!Of
  <2>1. f \in rowsFiles /\ rowsAbout[f].cat \in rowsGroupA \cup rowsGroupB
    BY <1>3, <1>7
  <2>2. PICK d \in Rows!Of({"desc"}) : Rows!Same(f, d)
    BY <2>1, RowsFacts
  <2>3. rowsAbout[f].trigger \in {"xml", "command"}
    BY <2>1, RowsFacts
  <2>4. d \in Rows!Touched(rowsAbout[f].cat)
    BY <2>2, <2>3 DEF Rows!Touched, Rows!Triggers, Rows!In, Rows!Of, Rows!Same
  <2>5. QED
    BY <1>2, <2>2, <2>4
<1>9. ASSUME NEW rs, NEW K, OfFiles(rs, K), K \subseteq Rows!Of({"desc", "extra", "template", "role"}), Sure(rs, K, since)
      PROVE  Sure(rs, K, Suspect)'
  <2>1. PICK A, B : A = since /\ B = Suspect'
    OBVIOUS
  <2>2. K \cap A \subseteq B
    BY <1>8, <1>9, <2>1
  <2>3. Sure(rs, K, A)
    BY <1>9, <2>1
  <2>4. Sure(rs, K, B)
    BY ONLY <1>9, <2>2, <2>3, OtherFiles
  <2>5. Sure(rs, K, B)'
    BY <1>1, <2>4, SameRows DEF Sure
  <2>6. QED
    BY <2>1, <2>5
<1>10. TablesRight'
  <2>1. /\ OfFiles(tables.own, Rows!Metadata) /\ Sure(tables.own, Rows!Metadata, since)
        /\ OfFiles(tables.syns, Rows!Of({"desc", "role"})) /\ Sure(tables.syns, Rows!Of({"desc", "role"}), since)
        /\ OfFiles(tables.templates, Rows!Of({"template"})) /\ Sure(tables.templates, Rows!Of({"template"}), since)
    BY <1>7 DEF TablesRight, DescriptorsRight
  <2>2. /\ Rows!Metadata \subseteq Rows!Of({"desc", "extra", "template", "role"})
        /\ Rows!Of({"desc", "role"}) \subseteq Rows!Of({"desc", "extra", "template", "role"})
        /\ Rows!Of({"template"}) \subseteq Rows!Of({"desc", "extra", "template", "role"})
    BY DEF Rows!Of, Rows!Metadata
  <2>3. /\ Sure(tables.own, Rows!Metadata, Suspect)' /\ Sure(tables.syns, Rows!Of({"desc", "role"}), Suspect)'
        /\ Sure(tables.templates, Rows!Of({"template"}), Suspect)'
    BY <1>1, <1>9, <2>1, <2>2
  <2>4. /\ Sure(tables.rights, Rows!Of({"rights"}), since)' /\ Sure(tables.forms, Rows!Canonical, Dirs)'
    <3>1. Sure(tables.rights, Rows!Of({"rights"}), since) /\ Sure(tables.forms, Rows!Canonical, Dirs)
      BY DEF TablesRight, DescriptorsRight
    <3>2. QED
      BY <1>1, <3>1, SameRows DEF Sure, Dirs
  <2>5. /\ OfFiles(tables.own, Rows!Metadata)' /\ OfFiles(tables.syns, Rows!Of({"desc", "role"}))'
        /\ OfFiles(tables.templates, Rows!Of({"template"}))' /\ OfFiles(tables.rights, Rows!Of({"rights"}))'
        /\ OfFiles(tables.forms, Rows!Of({"form"}))'
        /\ RefsIn(tables, dropped)'
    BY <1>1 DEF TablesRight, OfFiles, DescriptorsRight, RefsIn
  <2>6. QED
    BY <2>3, <2>4, <2>5 DEF TablesRight
<1>11. ScanRight'
  BY <1>1, StillNoScan DEF DescriptorsRight
<1>12. QED
  BY <1>5, <1>6, <1>10, <1>11 DEF DescriptorsRight

(* What a step makes of the references, table by table. *)
LEMMA Untouched ==
  ASSUME NEW X, NEW K, NEW D, OfFiles(X, K), K \cap D = {}
  PROVE  Rows!Without(X, D) = X
  BY DEF Rows!Without, OfFiles

(* Files without rows in a table do not matter. *)
LEMMA FewerLess ==
  ASSUME NEW X, NEW D, NEW K, NEW E, OfFiles(X, K), K \cap D = K \cap E
  PROVE  Rows!Without(X, D) = Rows!Without(X, E)
  BY DEF Rows!Without, OfFiles

(* Tables lose rows one by one. *)
LEMMA WithoutUnion ==
  ASSUME NEW X, NEW Y, NEW D
  PROVE  Rows!Without(X \cup Y, D) = Rows!Without(X, D) \cup Rows!Without(Y, D)
  BY DEF Rows!Without

(* No file, no row. *)
LEMMA NoRowsOfNone == Rows!Rows({}) = {}
  BY DEF Rows!Rows

(* The references of roles are of files of rights. *)
LEMMA RoleFiles ==
  ASSUME NEW X, OfFiles(X, Rows!Of({"rights"}))
  PROVE  OfFiles(Rows!RoleRefs(X), Rows!Of({"rights"}))
  BY DEF Rows!RoleRefs, OfFiles

(* Kinds of files do not meet; roles and rights are the files of Roles. *)
LEMMA Kinds ==
  /\ Rows!Metadata \cap Rows!Of({"form"}) = {} /\ Rows!Metadata \cap Rows!Of({"rights"}) = {}
  /\ Rows!Of({"form"}) \cap Rows!Of({"rights"}) = {}
  /\ Rows!Metadata \cap Rows!In({"Roles"}) = {} /\ Rows!Of({"form"}) \cap Rows!In({"Roles"}) = {}
  /\ Rows!Of({"rights"}) \subseteq Rows!In({"Roles"})
<1>1. \A f \in rowsFiles : rowsAbout[f].kind \in {"role", "rights"} <=> rowsAbout[f].cat = "Roles"
  BY RowsFacts
<1>2. QED
  BY <1>1 DEF Rows!Metadata, Rows!Of, Rows!In

(* The fields of a record of tables. *)
Table(t) == t = [own |-> t.own, refs |-> t.refs, syns |-> t.syns, forms |-> t.forms, rights |-> t.rights,
                 templates |-> t.templates]

(* The references are those of the rows of metadata, those G of forms and those R of rights. *)
Joint(t, G, R) ==
  /\ Table(t) /\ OfFiles(t.own, Rows!Metadata) /\ OfFiles(G, Rows!Of({"form"})) /\ OfFiles(R, Rows!Of({"rights"}))
  /\ t.refs = t.own \cup G \cup R

(* The shares of forms and of roles, and what they may lack. *)
Lacking(t, G, R, gone) ==
  /\ G \subseteq t.forms /\ R \subseteq Rows!RoleRefs(t.rights)
  /\ "forms" \notin gone => G = t.forms
  /\ "rights" \notin gone => R = Rows!RoleRefs(t.rights)

LEMMA SharesOf ==
  ASSUME NEW t, NEW gone, Table(t), RefsIn(t, gone), OfFiles(t.own, Rows!Metadata),
         OfFiles(t.forms, Rows!Of({"form"})), OfFiles(t.rights, Rows!Of({"rights"}))
  PROVE  \E G, R : Joint(t, G, R) /\ Lacking(t, G, R, gone)
<1>1. PICK G, R : G = {r \in t.refs : r \in t.forms} /\ R = {r \in t.refs : r \in Rows!RoleRefs(t.rights)}
  OBVIOUS
<1>2. OfFiles(G, Rows!Of({"form"})) /\ OfFiles(R, Rows!Of({"rights"}))
  BY <1>1, RoleFiles DEF OfFiles
<1>3. t.refs = t.own \cup G \cup R
  BY <1>1 DEF RefsIn
<1>4. Lacking(t, G, R, gone)
  BY <1>1 DEF RefsIn, Lacking
<1>5. QED
  BY <1>2, <1>3, <1>4 DEF Joint

LEMMA SharesGive ==
  ASSUME NEW t, NEW G, NEW R, NEW gone, Joint(t, G, R), Lacking(t, G, R, gone)
  PROVE  RefsIn(t, gone)
  BY DEF Joint, Lacking, RefsIn

(* The rows of the files D of one object are read again. *)
Again(u, D, G, R) ==
  /\ Table(u) /\ u.forms = tables.forms /\ u.rights = tables.rights
  /\ u.own = Rows!Without(tables.own, D) \cup Rows!Rows(Rows!Metadata \cap D)
  /\ u.syns = Rows!Without(tables.syns, D) \cup Rows!Rows(Rows!Of({"desc", "role"}) \cap D)
  /\ u.templates = Rows!Without(tables.templates, D) \cup Rows!Rows(Rows!Of({"template"}) \cap D)
  /\ u.refs = u.own \cup G \cup R

(* They are, whichever category the object is of. *)
LEMMA ObjectRead ==
  ASSUME DescriptorsRight, NEW d, d \in due, stage = "objects", NEW G, NEW R, Joint(tables, G, R)
  PROVE  Again(Rows!Refresh(tables, d), Rows!Object(d), G, R)
<1>a. PICK u, D : u = Rows!Refresh(tables, d) /\ D = Rows!Object(d)
  OBVIOUS
<1> SUFFICES Again(u, D, G, R)
  BY <1>a
<1>1. /\ tables = [own |-> tables.own, refs |-> tables.refs, syns |-> tables.syns,
                   forms |-> tables.forms, rights |-> tables.rights, templates |-> tables.templates]
      /\ d \in Rows!Of({"desc"}) /\ rowsAbout[d].cat \in point /\ text[d] # Rows!Malformed
      /\ point \subseteq rowsGroupA \cup rowsGroupB
  BY DEF DescriptorsRight, RowsTypes
<1>2. d \in rowsFiles /\ rowsAbout[d].kind = "desc" /\ rowsAbout[d].cat \in rowsGroupA \cup rowsGroupB
  BY <1>1 DEF Rows!Of
<1>3. \A f \in D : /\ f \in rowsFiles /\ rowsAbout[f].cat = rowsAbout[d].cat /\ Rows!Same(f, d)
                   /\ rowsAbout[f].kind \notin {"role", "rights"}
  <2>1. rowsAbout[d].cat # "Roles"
    BY <1>2, RowsFacts
  <2>2. \A f \in D : f \in rowsFiles /\ rowsAbout[f].cat = rowsAbout[d].cat /\ Rows!Same(f, d)
    BY <1>a DEF Rows!Object, Rows!Same
  <2>3. QED
    BY <2>1, <2>2, RowsFacts
<1>4. Rows!Of({"desc", "role"}) \cap D = {d}
  <2>1. d \in D
    BY <1>2, <1>a DEF Rows!Object, Rows!Same
  <2>2. ASSUME NEW f \in Rows!Of({"desc", "role"}) \cap D PROVE f = d
    <3>1. rowsAbout[f].kind = "desc" /\ f \in rowsFiles
      BY <1>3, <2>2 DEF Rows!Of
    <3>2. f \in Rows!Of({"desc"}) /\ Rows!Same(d, f) /\ Rows!Same(d, d)
      BY <1>3, <2>2, <3>1 DEF Rows!Of, Rows!Same
    <3>3. QED
      BY <1>1, <1>2, <3>2, RowsFacts
  <2>3. d \in Rows!Of({"desc", "role"})
    BY <1>2 DEF Rows!Of
  <2>4. QED
    BY <2>1, <2>2, <2>3
<1>5. /\ OfFiles(tables.own, Rows!Metadata) /\ OfFiles(G, Rows!Of({"form"})) /\ OfFiles(R, Rows!Of({"rights"}))
      /\ OfFiles(tables.templates, Rows!Of({"template"}))
      /\ tables.refs = tables.own \cup G \cup R
  BY DEF DescriptorsRight, TablesRight, Joint
<1>6. Rows!Of({"rights"}) \cap D = {}
  BY <1>3 DEF Rows!Of
<1>7. CASE rowsAbout[d].cat \notin rowsGroupB
  <2> DEFINE new == IF text[d] = Rows!Absent THEN {} ELSE D
  <2>1. u = [tables EXCEPT
               !.own = Rows!Without(tables.own, D) \cup Rows!Rows(Rows!Metadata \cap new),
               !.refs = Rows!Without(tables.refs, D \ Rows!Of({"form"})) \cup Rows!Rows(Rows!Metadata \cap new),
               !.syns = Rows!Without(tables.syns, D) \cup Rows!Rows({d} \cap new),
               !.templates = Rows!Without(tables.templates, D) \cup Rows!Rows(Rows!Of({"template"}) \cap new)]
    BY <1>7, <1>a DEF Rows!Refresh, Rows!RefreshA
  <2>2. ASSUME NEW K PROVE Rows!Rows(K \cap new) = Rows!Rows(K \cap D)
    <3>1. CASE text[d] = Rows!Absent
      <4>1. \A f \in D : text[f] = Rows!Absent
        BY <1>1, <1>3, <3>1 DEF DescriptorsRight, ObjectsWhole
      <4>2. Rows!Rows(K \cap D) = {}
        BY <4>1 DEF Rows!Rows
      <4>3. K \cap new = {}
        BY <3>1
      <4>4. QED
        BY <4>2, <4>3, NoRowsOfNone
    <3>2. CASE text[d] # Rows!Absent
      BY <3>2
    <3>3. QED
      BY <3>1, <3>2
  <2>3. {d} \cap new = Rows!Of({"desc", "role"}) \cap new
    BY <1>4
  <2>4. Rows!Rows({d} \cap new) = Rows!Rows(Rows!Of({"desc", "role"}) \cap D)
    BY <2>2, <2>3
  <2>5. /\ Rows!Rows(Rows!Metadata \cap new) = Rows!Rows(Rows!Metadata \cap D)
        /\ Rows!Rows(Rows!Of({"template"}) \cap new) = Rows!Rows(Rows!Of({"template"}) \cap D)
    BY <2>2
  <2> HIDE DEF new
  <2>6. /\ Table(u) /\ u.forms = tables.forms /\ u.rights = tables.rights
        /\ u.own = Rows!Without(tables.own, D) \cup Rows!Rows(Rows!Metadata \cap new)
        /\ u.syns = Rows!Without(tables.syns, D) \cup Rows!Rows({d} \cap new)
        /\ u.templates = Rows!Without(tables.templates, D) \cup Rows!Rows(Rows!Of({"template"}) \cap new)
        /\ u.refs = Rows!Without(tables.refs, D \ Rows!Of({"form"})) \cup Rows!Rows(Rows!Metadata \cap new)
    BY <1>1, <2>1 DEF Table
  <2>7. PICK F : F = D \ Rows!Of({"form"})
    OBVIOUS
  <2>8. /\ Rows!Without(tables.own, F) = Rows!Without(tables.own, D)
        /\ Rows!Without(G, F) = G /\ Rows!Without(R, F) = R
    <3>1. Rows!Metadata \cap F = Rows!Metadata \cap D /\ Rows!Of({"form"}) \cap F = {} /\ Rows!Of({"rights"}) \cap F = {}
      BY <1>6, <2>7, Kinds
    <3>2. QED
      BY <1>5, <3>1, FewerLess, Untouched
  <2>9. Rows!Without(tables.refs, F) = Rows!Without(tables.own, D) \cup G \cup R
    <3>1. Rows!Without(tables.own \cup G, F) = Rows!Without(tables.own, D) \cup G
      BY <2>8, WithoutUnion
    <3>2. Rows!Without((tables.own \cup G) \cup R, F) = Rows!Without(tables.own \cup G, F) \cup R
      BY <2>8, WithoutUnion
    <3>3. QED
      BY <1>5, <3>1, <3>2
  <2>10. QED
    BY <2>4, <2>5, <2>6, <2>7, <2>9 DEF Again
<1>8. CASE rowsAbout[d].cat \in rowsGroupB
  <2>1. D = {d}
    <3>1. \A f \in D : f \in Rows!Of({"desc", "role"})
      BY <1>3, <1>8, RowsFacts DEF Rows!Of
    <3>2. QED
      BY <1>4, <3>1
  <2>2. u = [tables EXCEPT !.own = {r \in tables.own : ~Rows!Replaced(d, r)} \cup Rows!Rows({d}),
                           !.refs = {r \in tables.refs : ~Rows!Replaced(d, r)} \cup Rows!Rows({d}),
                           !.syns = Rows!Without(tables.syns, {d}) \cup Rows!Rows({d})]
    BY <1>8, <1>a DEF Rows!Refresh, Rows!RefreshB
  <2>3. ASSUME NEW r \in tables.own PROVE Rows!Replaced(d, r) <=> r.file \in D
    <3>1. r.file \in rowsFiles
      BY <1>5 DEF OfFiles, Rows!Metadata, Rows!Of
    <3>2. CASE r.file = d
      BY <2>1, <3>2 DEF Rows!Replaced
    <3>3. CASE r.file # d /\ rowsAbout[r.file].cat = rowsAbout[d].cat
      <4>1. r.text \in DOMAIN rowsNameIn[r.file] /\ r.name = rowsNameIn[r.file][r.text]
        BY <1>8, <3>3 DEF DescriptorsRight, NamesRight
      <4>2. r.name # rowsAbout[d].obj /\ \A e \in DOMAIN rowsNameIn[d] : r.name # rowsNameIn[d][e]
        BY <1>2, <1>8, <3>1, <3>3, <4>1, DescriptorsAssumption
      <4>3. text[d] = Rows!Absent \/ text[d] \in DOMAIN rowsNameIn[d]
        BY <1>1, <1>2, <1>8, Contents, TreeFacts DEF DescriptorsRight, RowsTypes, Rows!Absent, Rows!Malformed
      <4>4. ~Rows!Replaced(d, r)
        BY <1>8, <3>3, <4>2, <4>3 DEF Rows!Replaced, Rows!NameOf
      <4>5. QED
        BY <2>1, <3>3, <4>4
    <3>4. CASE r.file # d /\ rowsAbout[r.file].cat # rowsAbout[d].cat
      BY <2>1, <3>4 DEF Rows!Replaced
    <3>5. QED
      BY <3>2, <3>3, <3>4
  <2>4. ASSUME NEW r \in G \cup R PROVE ~Rows!Replaced(d, r)
    <3>1. r.file \in rowsFiles /\ rowsAbout[r.file].kind \in {"form", "rights"}
      BY <1>5 DEF OfFiles, Rows!Of
    <3>2. rowsAbout[r.file].cat \notin rowsGroupB
      BY <3>1, RowsFacts
    <3>3. QED
      BY <1>8, <3>2 DEF Rows!Replaced
  <2>5. {r \in tables.own : ~Rows!Replaced(d, r)} = Rows!Without(tables.own, D)
    BY <2>3 DEF Rows!Without
  <2>6. {r \in tables.refs : ~Rows!Replaced(d, r)} = Rows!Without(tables.own, D) \cup G \cup R
    BY <1>5, <2>3, <2>4 DEF Rows!Without
  <2>7. Rows!Metadata \cap D = {d} /\ Rows!Of({"template"}) \cap D = {}
    BY <1>2, <2>1 DEF Rows!Metadata, Rows!Of
  <2>8. /\ Table(u) /\ u.forms = tables.forms /\ u.rights = tables.rights /\ u.templates = tables.templates
        /\ u.own = {r \in tables.own : ~Rows!Replaced(d, r)} \cup Rows!Rows({d})
        /\ u.refs = {r \in tables.refs : ~Rows!Replaced(d, r)} \cup Rows!Rows({d})
        /\ u.syns = Rows!Without(tables.syns, {d}) \cup Rows!Rows({d})
    BY <1>1, <2>2 DEF Table
  <2>9. Rows!Without(tables.templates, D) = tables.templates
    BY <1>5, <2>7, Untouched
  <2>10. u.own = Rows!Without(tables.own, D) \cup Rows!Rows(Rows!Metadata \cap D)
    BY <2>5, <2>7, <2>8
  <2>11. u.syns = Rows!Without(tables.syns, D) \cup Rows!Rows(Rows!Of({"desc", "role"}) \cap D)
    BY <1>4, <2>1, <2>8
  <2>12. u.templates = Rows!Without(tables.templates, D) \cup Rows!Rows(Rows!Of({"template"}) \cap D)
    BY <2>7, <2>8, <2>9, NoRowsOfNone
  <2>13. u.refs = u.own \cup G \cup R
    BY <2>5, <2>6, <2>8
  <2>14. QED
    BY <2>8, <2>10, <2>11, <2>12, <2>13 DEF Again
<1>9. QED
  BY <1>7, <1>8

(* Rows of the table own that are read again carry the names their files give. *)
LEMMA NamesRead ==
  ASSUME DescriptorsRight, NEW S, NEW u, NEW D,
         u = Rows!Without(tables.own, D) \cup Rows!Rows(Rows!Metadata \cap S),
         NEW r \in u, rowsAbout[r.file].cat \in rowsGroupB
  PROVE  r.text \in DOMAIN rowsNameIn[r.file] /\ r.name = rowsNameIn[r.file][r.text]
<1>1. CASE r \in tables.own
  BY <1>1 DEF DescriptorsRight, NamesRight
<1>2. CASE r \notin tables.own
  <2>1. r \in Rows!Rows(Rows!Metadata \cap S)
    BY <1>2 DEF Rows!Without
  <2>2. Rows!Metadata \cap S \in SUBSET rowsFiles
    BY DEF Rows!Metadata, Rows!Of
  <2>3. QED
    BY <2>1, <2>2, FreshNames DEF DescriptorsRight
<1>3. QED
  BY <1>1, <1>2

(* After the refresh of an object its rows are right. *)
LEMMA FastObjectKept ==
  ASSUME DescriptorsRight, NEW d, Rows!FastObject(d)
  PROVE  DescriptorsRight'
<1>1. /\ stage = "objects" /\ d \in due /\ UNCHANGED <<part, text, since, stage, point, skip, dropped>>
      /\ tables' = Rows!Refresh(tables, d) /\ due' = due \ {d}
  BY DEF Rows!FastObject, Rows!scanVars
<1>2. PICK D : D = Rows!Object(d)
  OBVIOUS
<1>3. PICK u : u = Rows!Refresh(tables, d)
  OBVIOUS
<1>4. /\ Table(u) /\ u.forms = tables.forms /\ u.rights = tables.rights
      /\ u.own = Rows!Without(tables.own, D) \cup Rows!Rows(Rows!Metadata \cap D)
      /\ u.syns = Rows!Without(tables.syns, D) \cup Rows!Rows(Rows!Of({"desc", "role"}) \cap D)
      /\ u.templates = Rows!Without(tables.templates, D) \cup Rows!Rows(Rows!Of({"template"}) \cap D)
      /\ RefsIn(u, dropped)
  <2>1. PICK G, R : Joint(tables, G, R) /\ Lacking(tables, G, R, dropped)
    BY SharesOf DEF DescriptorsRight, RowsTypes, TablesRight, Table
  <2>2. /\ Table(u) /\ u.forms = tables.forms /\ u.rights = tables.rights
        /\ u.own = Rows!Without(tables.own, D) \cup Rows!Rows(Rows!Metadata \cap D)
        /\ u.syns = Rows!Without(tables.syns, D) \cup Rows!Rows(Rows!Of({"desc", "role"}) \cap D)
        /\ u.templates = Rows!Without(tables.templates, D) \cup Rows!Rows(Rows!Of({"template"}) \cap D)
        /\ u.refs = u.own \cup G \cup R
    <3>1. stage = "objects" /\ d \in due /\ Joint(tables, G, R)
      BY <1>1, <2>1
    <3>2. DescriptorsRight
      OBVIOUS
    <3>3. Again(Rows!Refresh(tables, d), Rows!Object(d), G, R)
      BY ONLY <3>1, <3>2, ObjectRead
    <3>4. QED
      BY <1>2, <1>3, <3>3 DEF Again
  <2>3. OfFiles(tables.own, Rows!Metadata)
    BY DEF DescriptorsRight, TablesRight
  <2>4. OfFiles(u.own, Rows!Metadata)
    <3>1. OfFiles(Rows!Without(tables.own, D) \cup Rows!Rows(Rows!Metadata \cap D), Rows!Metadata)
      BY <2>3, StillOfFiles
    <3>2. QED
      BY <2>2, <3>1
  <2>5. Joint(u, G, R) /\ Lacking(u, G, R, dropped)
    BY <2>1, <2>2, <2>4 DEF Joint, Lacking
  <2>6. QED
    BY <2>2, <2>5, SharesGive
<1>5. tables' = u
  BY <1>1, <1>3
<1>6. RowsTypes'
  <2>1. \A f \in rowsFiles : \/ text[f] = Rows!Absent
                             \/ f \in DOMAIN rowsContentsOf[part] /\ text[f] \in rowsContentsOf[part][f]
    BY Contents DEF DescriptorsRight
  <2>2. tables' = [own |-> tables'.own, refs |-> tables'.refs, syns |-> tables'.syns,
                   forms |-> tables'.forms, rights |-> tables'.rights, templates |-> tables'.templates]
    BY <1>4, <1>5 DEF Table
  <2>3. due' \subseteq Rows!Of({"desc"}) /\ \A e \in due' : rowsAbout[e].cat \in point /\ text[e] # Rows!Malformed
    BY <1>1 DEF RowsTypes, DescriptorsRight
  <2>4. QED
    BY <1>1, <2>1, <2>2, <2>3 DEF RowsTypes, DescriptorsRight
<1>7. ObjectsWhole'
  BY <1>1 DEF ObjectsWhole, DescriptorsRight
<1>8. NamesRight'
  BY <1>4, <1>5, NamesRead DEF NamesRight
<1>9. Suspect \ D \subseteq Suspect'
  <2> SUFFICES ASSUME NEW f \in since, f \in rowsFiles, ~Rows!Same(f, d),
                      ~(rowsAbout[f].cat \in point /\ \A e \in due : ~Rows!Same(f, e))
               PROVE  ~(rowsAbout[f].cat \in point /\ \A e \in due' : ~Rows!Same(f, e))
    BY <1>1, <1>2 DEF Suspect, Rows!Object, RowsTypes, DescriptorsRight
  <2>1. QED
    BY <1>1
<1>10. ASSUME NEW X, NEW K, NEW Y, Y = Rows!Without(X, D) \cup Rows!Rows(K \cap D), Sure(X, K, Suspect)
       PROVE  Sure(Y, K, Suspect)'
  <2>1. PICK A, B : A = Suspect /\ B = Suspect'
    OBVIOUS
  <2>2. A \ D \subseteq B
    BY <1>9, <2>1
  <2>3. Sure(X, K, A)
    BY <1>10, <2>1
  <2>4. Sure(Rows!Without(X, D) \cup Rows!Rows(K \cap D), K, B)
    BY ONLY <2>2, <2>3, Reread
  <2>5. Sure(Y, K, B)
    BY <1>10, <2>4
  <2>6. Sure(Y, K, B)'
    BY <1>1, <2>5, SameRows DEF Sure
  <2>7. QED
    BY <2>1, <2>6
<1>11. TablesRight'
  <2>1. /\ OfFiles(tables.own, Rows!Metadata) /\ Sure(tables.own, Rows!Metadata, Suspect)
        /\ OfFiles(tables.syns, Rows!Of({"desc", "role"})) /\ Sure(tables.syns, Rows!Of({"desc", "role"}), Suspect)
        /\ OfFiles(tables.templates, Rows!Of({"template"})) /\ Sure(tables.templates, Rows!Of({"template"}), Suspect)
        /\ OfFiles(tables.rights, Rows!Of({"rights"})) /\ OfFiles(tables.forms, Rows!Of({"form"}))
    BY DEF TablesRight, DescriptorsRight
  <2>2. /\ OfFiles(u.own, Rows!Metadata) /\ OfFiles(u.syns, Rows!Of({"desc", "role"}))
        /\ OfFiles(u.templates, Rows!Of({"template"}))
    <3>1. ASSUME NEW X, NEW K, OfFiles(X, K) PROVE OfFiles(Rows!Without(X, D) \cup Rows!Rows(K \cap D), K)
      BY <3>1, StillOfFiles
    <3>2. QED
      BY <1>4, <2>1, <3>1
  <2>3. /\ Sure(tables.own, Rows!Metadata, Suspect)' /\ Sure(tables.syns, Rows!Of({"desc", "role"}), Suspect)'
        /\ Sure(tables.templates, Rows!Of({"template"}), Suspect)'
    <3>1. Sure(u.own, Rows!Metadata, Suspect)'
      BY <1>4, <1>10, <2>1
    <3>2. Sure(u.syns, Rows!Of({"desc", "role"}), Suspect)'
      BY <1>4, <1>10, <2>1
    <3>3. Sure(u.templates, Rows!Of({"template"}), Suspect)'
      BY <1>4, <1>10, <2>1
    <3>4. QED
      BY <1>5, <3>1, <3>2, <3>3
  <2>4. /\ Sure(tables.rights, Rows!Of({"rights"}), since)' /\ Sure(tables.forms, Rows!Canonical, Dirs)'
    <3>1. Sure(tables.rights, Rows!Of({"rights"}), since) /\ Sure(tables.forms, Rows!Canonical, Dirs)
      BY DEF TablesRight, DescriptorsRight
    <3>2. QED
      BY <1>1, <1>4, <1>5, <3>1, SameRows DEF Sure, Dirs
  <2>5. /\ OfFiles(tables.own, Rows!Metadata)' /\ OfFiles(tables.syns, Rows!Of({"desc", "role"}))'
        /\ OfFiles(tables.templates, Rows!Of({"template"}))' /\ OfFiles(tables.rights, Rows!Of({"rights"}))'
        /\ OfFiles(tables.forms, Rows!Of({"form"}))'
        /\ RefsIn(tables, dropped)'
    BY <1>1, <1>4, <1>5, <2>1, <2>2 DEF OfFiles, RefsIn
  <2>6. QED
    BY <2>3, <2>4, <2>5 DEF TablesRight
<1>12. ScanRight'
  BY <1>1, StillNoScan DEF DescriptorsRight
<1>13. QED
  BY <1>6, <1>7, <1>8, <1>11, <1>12 DEF DescriptorsRight

(* The collectors of whole categories. *)
LEMMA BulkDone ==
  ASSUME NEW t, NEW G, NEW R, Joint(t, G, R), NEW cats, NEW u, u = Rows!Bulk(t, cats)
  PROVE  /\ Joint(u, G, Rows!Without(R, Rows!In(cats)))
         /\ u.forms = t.forms /\ u.rights = t.rights /\ u.syns = t.syns
         /\ u.own = Rows!Without(t.own, Rows!In(cats)) \cup Rows!Rows(Rows!Metadata \cap Rows!In(cats))
         /\ u.templates = (IF cats = {} THEN t.templates ELSE Rows!Rows(Rows!Of({"template"})))
<1> DEFINE C == Rows!In(cats)
<1>a. /\ Table(t) /\ OfFiles(t.own, Rows!Metadata) /\ OfFiles(G, Rows!Of({"form"}))
      /\ OfFiles(R, Rows!Of({"rights"})) /\ t.refs = t.own \cup G \cup R
  BY DEF Joint
<1>b. OfFiles(Rows!Without(t.own, C) \cup Rows!Rows(Rows!Metadata \cap C), Rows!Metadata)
  BY <1>a, StillOfFiles
<1>c. OfFiles(Rows!Without(R, C), Rows!Of({"rights"}))
  BY <1>a DEF OfFiles, Rows!Without
<1> HIDE DEF C
<1>1. CASE cats = {}
  <2>1. C = {}
    BY <1>1 DEF Rows!In, C
  <2>2. Rows!Without(t.own, C) = t.own /\ Rows!Without(R, C) = R
    BY <2>1 DEF Rows!Without
  <2>3. Rows!Rows(Rows!Metadata \cap C) = {}
    BY <2>1, NoRowsOfNone
  <2>4. u = t
    BY <1>1 DEF Rows!Bulk
  <2>5. QED
    BY <1>1, <1>a, <2>2, <2>3, <2>4 DEF Joint, C
<1>2. CASE cats # {}
  <2>1. PICK F : F = C \ Rows!Of({"form"})
    OBVIOUS
  <2>2. PICK N : N = Rows!Rows(Rows!Metadata \cap C)
    OBVIOUS
  <2>3. u = [t EXCEPT !.own = Rows!Without(t.own, C) \cup N, !.refs = Rows!Without(t.refs, F) \cup N,
                      !.templates = Rows!Rows(Rows!Of({"template"}))]
    BY <1>2, <2>1, <2>2 DEF Rows!Bulk, C
  <2>4. /\ Table(u) /\ u.forms = t.forms /\ u.rights = t.rights /\ u.syns = t.syns
        /\ u.own = Rows!Without(t.own, C) \cup N /\ u.refs = Rows!Without(t.refs, F) \cup N
        /\ u.templates = Rows!Rows(Rows!Of({"template"}))
    BY <1>a, <2>3 DEF Table
  <2>5. Rows!Metadata \cap F = Rows!Metadata \cap C /\ Rows!Of({"form"}) \cap F = {}
        /\ Rows!Of({"rights"}) \cap F = Rows!Of({"rights"}) \cap C
    BY <2>1, Kinds
  <2>6. /\ Rows!Without(t.own, F) = Rows!Without(t.own, C) /\ Rows!Without(G, F) = G
        /\ Rows!Without(R, F) = Rows!Without(R, C)
    BY <1>a, <2>5, FewerLess, Untouched
  <2>7. Rows!Without(t.own \cup G, F) = Rows!Without(t.own, C) \cup G
    BY <2>6, WithoutUnion
  <2>8. Rows!Without((t.own \cup G) \cup R, F) = Rows!Without(t.own \cup G, F) \cup Rows!Without(R, C)
    BY <2>6, WithoutUnion
  <2>9. u.refs = (Rows!Without(t.own, C) \cup G \cup Rows!Without(R, C)) \cup N
    BY <1>a, <2>4, <2>7, <2>8
  <2>10. QED
    BY <1>2, <1>a, <1>b, <1>c, <2>2, <2>4, <2>9 DEF Joint, C
<1>3. QED
  BY <1>1, <1>2

(* The step of forms. *)
LEMMA FormsDone ==
  ASSUME NEW t, NEW G, NEW R, Joint(t, G, R), NEW S, S \subseteq Rows!Of({"form"}), NEW u, u = Rows!FormStep(t, S)
  PROVE  /\ Joint(u, Rows!Without(G, S) \cup Rows!Rows(Rows!Canonical \cap S), R)
         /\ u.own = t.own /\ u.rights = t.rights /\ u.syns = t.syns /\ u.templates = t.templates
         /\ u.forms = Rows!Without(t.forms, S) \cup Rows!Rows(Rows!Canonical \cap S)
<1>a. /\ Table(t) /\ OfFiles(t.own, Rows!Metadata) /\ OfFiles(G, Rows!Of({"form"}))
      /\ OfFiles(R, Rows!Of({"rights"})) /\ t.refs = t.own \cup G \cup R
  BY DEF Joint
<1>b. OfFiles(Rows!Without(G, S) \cup Rows!Rows(Rows!Canonical \cap S), Rows!Of({"form"}))
  <2>1. Rows!Canonical \subseteq Rows!Of({"form"})
    BY DEF Rows!Canonical
  <2>2. QED
    BY <1>a, <2>1, StillOfFiles
<1>1. PICK N : N = Rows!Rows(Rows!Canonical \cap S)
  OBVIOUS
<1>2. u = [t EXCEPT !.forms = Rows!Without(t.forms, S) \cup N, !.refs = Rows!Without(t.refs, S) \cup N]
  BY <1>1 DEF Rows!FormStep
<1>3. /\ Table(u) /\ u.own = t.own /\ u.rights = t.rights /\ u.syns = t.syns /\ u.templates = t.templates
      /\ u.forms = Rows!Without(t.forms, S) \cup N /\ u.refs = Rows!Without(t.refs, S) \cup N
  BY <1>2, <1>a DEF Table
<1>4. Rows!Metadata \cap S = {} /\ Rows!Of({"rights"}) \cap S = {}
  BY Kinds
<1>5. Rows!Without(t.own, S) = t.own /\ Rows!Without(R, S) = R
  BY <1>4, <1>a, Untouched
<1>6. Rows!Without(t.own \cup G, S) = t.own \cup Rows!Without(G, S)
  BY <1>5, WithoutUnion
<1>7. Rows!Without((t.own \cup G) \cup R, S) = Rows!Without(t.own \cup G, S) \cup R
  BY <1>5, WithoutUnion
<1>8. u.refs = (t.own \cup Rows!Without(G, S) \cup R) \cup N
  BY <1>a, <1>3, <1>6, <1>7
<1>9. QED
  BY <1>a, <1>b, <1>1, <1>3, <1>8 DEF Joint

(* The step of synonyms. *)
LEMMA SynonymsDone ==
  ASSUME NEW t, NEW G, NEW R, Joint(t, G, R), NEW cats, NEW u, u = Rows!SynonymStep(t, cats)
  PROVE  /\ Joint(u, G, R) /\ u.own = t.own /\ u.rights = t.rights /\ u.forms = t.forms /\ u.templates = t.templates
         /\ u.syns = Rows!Without(t.syns, Rows!In(cats)) \cup Rows!Rows(Rows!Of({"desc", "role"}) \cap Rows!In(cats))
<1>1. /\ Table(u) /\ u.own = t.own /\ u.rights = t.rights /\ u.forms = t.forms /\ u.templates = t.templates
      /\ u.syns = Rows!Without(t.syns, Rows!In(cats)) \cup Rows!Rows(Rows!Of({"desc", "role"}) \cap Rows!In(cats))
      /\ u.refs = t.refs
  BY DEF Rows!SynonymStep, Table, Joint
<1>2. QED
  BY <1>1 DEF Joint

(* The step of rights. *)
LEMMA RightsDone ==
  ASSUME NEW t, NEW G, NEW R, Joint(t, G, R), OfFiles(t.rights, Rows!Of({"rights"})), NEW S, NEW u, u = Rows!RightsStep(t, S)
  PROVE  /\ Joint(u, G, Rows!RoleRefs(u.rights)) /\ u.own = t.own /\ u.forms = t.forms /\ u.syns = t.syns
         /\ u.templates = t.templates
         /\ u.rights = Rows!Without(t.rights, S) \cup Rows!Rows(Rows!Of({"rights"}) \cap S)
<1>a. /\ Table(t) /\ OfFiles(t.own, Rows!Metadata) /\ OfFiles(G, Rows!Of({"form"}))
      /\ OfFiles(R, Rows!Of({"rights"})) /\ t.refs = t.own \cup G \cup R
  BY DEF Joint
<1>b. OfFiles(Rows!Without(t.rights, S) \cup Rows!Rows(Rows!Of({"rights"}) \cap S), Rows!Of({"rights"}))
  BY StillOfFiles
<1>1. PICK N, L : N = Rows!Without(t.rights, S) \cup Rows!Rows(Rows!Of({"rights"}) \cap S) /\ L = Rows!In({"Roles"})
  OBVIOUS
<1>2. u = [t EXCEPT !.rights = N, !.refs = Rows!Without(t.refs, L) \cup Rows!RoleRefs(N)]
  BY <1>1 DEF Rows!RightsStep
<1>3. /\ Table(u) /\ u.own = t.own /\ u.forms = t.forms /\ u.syns = t.syns /\ u.templates = t.templates
      /\ u.rights = N /\ u.refs = Rows!Without(t.refs, L) \cup Rows!RoleRefs(N)
  BY <1>2, <1>a DEF Table
<1>4. Rows!Metadata \cap L = {} /\ Rows!Of({"form"}) \cap L = {} /\ Rows!Of({"rights"}) \subseteq L
  BY <1>1, Kinds
<1>5. Rows!Without(t.own, L) = t.own /\ Rows!Without(G, L) = G
  BY <1>4, <1>a, Untouched
<1>6. Rows!Without(R, L) = {}
  BY <1>4, <1>a DEF Rows!Without, OfFiles
<1>7. Rows!Without(t.own \cup G, L) = t.own \cup G
  BY <1>5, WithoutUnion
<1>8. Rows!Without((t.own \cup G) \cup R, L) = t.own \cup G
  BY <1>6, <1>7, WithoutUnion
<1>9. QED
  BY <1>a, <1>b, <1>1, <1>3, <1>8, RoleFiles DEF Joint

(* An update that has read everything it had to read. *)
LEMMA AllRead ==
  ASSUME DescriptorsRight, UNCHANGED <<part, text>>, since' = {}, stage' = "idle", point' = {}, due' = {},
         skip' = {}, NEW gone, dropped' = gone, gone \subseteq {"forms", "rights"},
         NEW u, tables' = u, Table(u), NEW D,
         u.own = Rows!Without(tables.own, D) \cup Rows!Rows(Rows!Metadata \cap D),
         OfFiles(u.own, Rows!Metadata), Sure(u.own, Rows!Metadata, {}),
         OfFiles(u.syns, Rows!Of({"desc", "role"})), Sure(u.syns, Rows!Of({"desc", "role"}), {}),
         OfFiles(u.templates, Rows!Of({"template"})), Sure(u.templates, Rows!Of({"template"}), {}),
         OfFiles(u.rights, Rows!Of({"rights"})), Sure(u.rights, Rows!Of({"rights"}), {}),
         OfFiles(u.forms, Rows!Of({"form"})), Sure(u.forms, Rows!Canonical, {}),
         RefsIn(u, gone)
  PROVE  DescriptorsRight'
<1>1. RowsTypes'
  <2>1. \A f \in rowsFiles : \/ text[f] = Rows!Absent
                             \/ f \in DOMAIN rowsContentsOf[part] /\ text[f] \in rowsContentsOf[part][f]
    BY Contents DEF DescriptorsRight
  <2>2. tables' = [own |-> tables'.own, refs |-> tables'.refs, syns |-> tables'.syns,
                   forms |-> tables'.forms, rights |-> tables'.rights, templates |-> tables'.templates]
    BY DEF Table
  <2>3. QED
    BY <2>1, <2>2 DEF RowsTypes, DescriptorsRight
<1>2. ObjectsWhole'
  BY DEF ObjectsWhole, DescriptorsRight
<1>3. NamesRight'
  BY NamesRead DEF NamesRight
<1>4. Suspect' = {} /\ Dirs' = {}
  BY DEF Suspect, Dirs
<1>5. ASSUME NEW X, NEW K, Sure(X, K, {}) PROVE Sure(X, K, {})'
  BY <1>5, SameRows DEF Sure
<1>6. /\ Sure(u.own, Rows!Metadata, {})' /\ Sure(u.syns, Rows!Of({"desc", "role"}), {})'
      /\ Sure(u.templates, Rows!Of({"template"}), {})' /\ Sure(u.rights, Rows!Of({"rights"}), {})'
  BY <1>5
<1>7. Sure(u.forms, Rows!Canonical, {})'
  BY SameRows DEF Sure
<1>8. /\ Sure(tables.own, Rows!Metadata, Suspect)' /\ Sure(tables.syns, Rows!Of({"desc", "role"}), Suspect)'
      /\ Sure(tables.templates, Rows!Of({"template"}), Suspect)' /\ Sure(tables.rights, Rows!Of({"rights"}), since)'
      /\ Sure(tables.forms, Rows!Canonical, Dirs)'
  BY <1>4, <1>6, <1>7
<1>9. TablesRight'
  BY <1>8 DEF TablesRight, OfFiles, RefsIn
<1>10. ScanRight'
  BY DEF ScanRight, MayBeSkipped, ScanSure
<1>11. QED
  BY <1>1, <1>2, <1>3, <1>9, <1>10 DEF DescriptorsRight

(* The files a step reads are all that may be old. *)
LEMMA ReadAll ==
  ASSUME NEW X, NEW K, NEW A, NEW D, OfFiles(X, K), Sure(X, K, A), K \cap A \subseteq D,
         NEW Y, Y = Rows!Without(X, D) \cup Rows!Rows(K \cap D)
  PROVE  OfFiles(Y, K) /\ Sure(Y, K, {})
<1>1. Sure(X, K, D)
  BY OtherFiles
<1>2. D \ D \subseteq {}
  OBVIOUS
<1>3. Sure(Rows!Without(X, D) \cup Rows!Rows(K \cap D), K, {})
  BY ONLY <1>1, <1>2, Reread
<1>4. OfFiles(Rows!Without(X, D) \cup Rows!Rows(K \cap D), K)
  BY StillOfFiles
<1>5. QED
  BY <1>3, <1>4

(* A table without files of the difference is right as it is. *)
LEMMA NothingOld ==
  ASSUME NEW X, NEW K, NEW A, OfFiles(X, K), Sure(X, K, A), K \cap A = {}
  PROVE  Sure(X, K, {})
BY OtherFiles

(* So is one that is made anew. *)
LEMMA AllRows == ASSUME NEW K PROVE OfFiles(Rows!Rows(K), K) /\ Sure(Rows!Rows(K), K, {})
<1>1. K \ {} = K
  OBVIOUS
<1>2. QED
  BY <1>1, RowsOfFiles DEF Sure, Rows!Without

(* The steps after the objects read all that may be old. *)
LEMMA FastRestKept ==
  ASSUME DescriptorsRight, NEW whole \in BOOLEAN, Rows!FastRest(whole)
  PROVE  DescriptorsRight'
<1>1. /\ stage = "objects" /\ due = {} /\ UNCHANGED <<part, text>>
      /\ since' = {} /\ stage' = "idle" /\ point' = {} /\ due' = {} /\ skip' = {}
      /\ tables' = Rows!RightsRead(Rows!SynonymStep(Rows!FormsRead(Rows!Bulk(tables, Rows!Changed \ point), whole),
                                                    Rows!Renamed \ point), whole)
      /\ dropped' = dropped \ ((IF Rows!RightsDue THEN {"rights"} ELSE {})
                               \cup (IF whole /\ since \cap Rows!Of({"form"}) # {} THEN {"forms"} ELSE {}))
      /\ dropped \subseteq {"forms", "rights"}
  BY DEF Rows!FastRest, DescriptorsRight, ScanRight, MayBeSkipped
<1>2. PICK cats, named, F, t1, t2, t3, t4 :
        /\ cats = Rows!Changed \ point /\ named = Rows!Renamed \ point /\ F = Rows!Of({"form"})
        /\ t1 = Rows!Bulk(tables, cats) /\ t2 = Rows!FormsRead(t1, whole)
        /\ t3 = Rows!SynonymStep(t2, named) /\ t4 = Rows!RightsRead(t3, whole)
  OBVIOUS
<1>3. tables' = t4
  BY <1>1, <1>2
<1>4. PICK C, N, gone : C = Rows!In(cats) /\ N = Rows!In(named) /\ gone = dropped'
  OBVIOUS
<1>a. PICK G0, R : Joint(tables, G0, R) /\ Lacking(tables, G0, R, dropped)
  BY SharesOf DEF DescriptorsRight, RowsTypes, TablesRight, Table
<1>5. /\ since \subseteq rowsFiles
      /\ OfFiles(tables.own, Rows!Metadata) /\ Sure(tables.own, Rows!Metadata, Suspect)
      /\ OfFiles(tables.syns, Rows!Of({"desc", "role"})) /\ Sure(tables.syns, Rows!Of({"desc", "role"}), Suspect)
      /\ OfFiles(tables.templates, Rows!Of({"template"})) /\ Sure(tables.templates, Rows!Of({"template"}), Suspect)
      /\ OfFiles(tables.rights, Rows!Of({"rights"})) /\ Sure(tables.rights, Rows!Of({"rights"}), since)
      /\ OfFiles(tables.forms, F) /\ Sure(tables.forms, Rows!Canonical, Dirs)
  BY <1>2 DEF TablesRight, DescriptorsRight, RowsTypes
<1>6. /\ Rows!Metadata \cap Suspect \subseteq C /\ Rows!Of({"template"}) \cap Suspect \subseteq C
      /\ Rows!Of({"desc", "role"}) \cap Suspect \subseteq N
  <2>1. ASSUME NEW f \in Suspect, rowsAbout[f].trigger \in {"xml", "command"} PROVE f \in C
    <3>1. f \in since /\ rowsAbout[f].cat \notin point
      BY <1>1, <2>1 DEF Suspect
    <3>2. rowsAbout[f].cat \in Rows!Changed
      BY <2>1, <3>1 DEF Rows!Changed, Rows!Triggers, Rows!Categories
    <3>3. QED
      BY <1>2, <1>4, <1>5, <3>1, <3>2 DEF Rows!In
  <2>2. ASSUME NEW f \in Suspect, rowsAbout[f].trigger = "xml" PROVE f \in N
    <3>1. f \in since /\ rowsAbout[f].cat \notin point
      BY <1>1, <2>2 DEF Suspect
    <3>2. rowsAbout[f].cat \in Rows!Renamed
      BY <2>2, <3>1 DEF Rows!Renamed, Rows!Triggers, Rows!Categories
    <3>3. QED
      BY <1>2, <1>4, <1>5, <3>1, <3>2 DEF Rows!In
  <2>3. \A f \in Rows!Metadata \cup Rows!Of({"template"}) : rowsAbout[f].trigger \in {"xml", "command"}
    BY RowsFacts DEF Rows!Metadata, Rows!Of
  <2>4. \A f \in Rows!Of({"desc", "role"}) : rowsAbout[f].trigger = "xml"
    BY RowsFacts DEF Rows!Of
  <2>5. QED
    BY <2>1, <2>2, <2>3, <2>4
<1>7. /\ Joint(t1, G0, Rows!Without(R, C)) /\ t1.forms = tables.forms /\ t1.rights = tables.rights /\ t1.syns = tables.syns
      /\ t1.own = Rows!Without(tables.own, C) \cup Rows!Rows(Rows!Metadata \cap C)
      /\ t1.templates = (IF cats = {} THEN tables.templates ELSE Rows!Rows(Rows!Of({"template"})))
  <2>1. Joint(tables, G0, R) /\ t1 = Rows!Bulk(tables, cats)
    BY <1>2, <1>a
  <2>2. QED
    BY <1>4, <2>1, BulkDone
<1>8. OfFiles(t1.own, Rows!Metadata) /\ Sure(t1.own, Rows!Metadata, {})
  BY <1>5, <1>6, <1>7, ReadAll
<1>9. OfFiles(t1.templates, Rows!Of({"template"})) /\ Sure(t1.templates, Rows!Of({"template"}), {})
  <2>1. CASE cats = {}
    <3>1. Rows!Of({"template"}) \cap Suspect = {}
      BY <1>4, <1>6, <2>1 DEF Rows!In
    <3>2. QED
      BY <1>5, <1>7, <2>1, <3>1, NothingOld
  <2>2. CASE cats # {}
    BY <1>7, <2>2, AllRows
  <2>3. QED
    BY <2>1, <2>2
<1>10. PICK Q : Q = Rows!Without(R, C)
  OBVIOUS
<1>11. Joint(t1, G0, Q)
  BY <1>7, <1>10
<1>12. /\ \E G : Joint(t2, G, Q) /\ G \subseteq t2.forms /\ ("forms" \notin gone => G = t2.forms)
       /\ t2.own = t1.own /\ t2.rights = t1.rights /\ t2.syns = t1.syns /\ t2.templates = t1.templates
       /\ OfFiles(t2.forms, F) /\ Sure(t2.forms, Rows!Canonical, {})
  <2>1. CASE since \cap F = {}
    <3>1. t2 = t1
      BY <1>2, <2>1 DEF Rows!FormsRead
    <3>2. Dirs = {}
      BY <1>2, <2>1 DEF Dirs
    <3>3. "forms" \notin gone => "forms" \notin dropped
      BY <1>1, <1>2, <1>4, <2>1
    <3>4. G0 \subseteq t2.forms /\ ("forms" \notin gone => G0 = t2.forms)
      BY <1>7, <1>a, <3>1, <3>3 DEF Lacking
    <3>5. QED
      BY <1>5, <1>7, <1>11, <3>1, <3>2, <3>4
  <2>2. CASE since \cap F # {}
    <3>1. PICK S, N2 : S = (IF whole THEN F ELSE Dirs) /\ N2 = Rows!Rows(Rows!Canonical \cap S)
      OBVIOUS
    <3>2. t2 = Rows!FormStep(t1, S)
      BY <1>2, <2>2, <3>1 DEF Rows!FormsRead, Dirs
    <3>3. S \subseteq F /\ Dirs \subseteq S
      BY <1>2, <3>1 DEF Dirs
    <3>4. S \subseteq Rows!Of({"form"})
      BY <1>2, <3>3
    <3>5. /\ Joint(t2, Rows!Without(G0, S) \cup Rows!Rows(Rows!Canonical \cap S), Q) /\ t2.own = t1.own
          /\ t2.rights = t1.rights /\ t2.syns = t1.syns /\ t2.templates = t1.templates
          /\ t2.forms = Rows!Without(t1.forms, S) \cup Rows!Rows(Rows!Canonical \cap S)
      BY ONLY <1>11, <3>2, <3>4, FormsDone
    <3>6. Dirs \ S \subseteq {}
      BY <3>3
    <3>7. Sure(t1.forms, Rows!Canonical, Dirs)
      BY <1>5, <1>7
    <3>8. Sure(Rows!Without(t1.forms, S) \cup Rows!Rows(Rows!Canonical \cap S), Rows!Canonical, {})
      BY ONLY <3>6, <3>7, Reread
    <3>9. Rows!Canonical \subseteq F /\ OfFiles(t1.forms, F)
      BY <1>2, <1>5, <1>7 DEF Rows!Canonical
    <3>10. OfFiles(Rows!Without(t1.forms, S) \cup Rows!Rows(Rows!Canonical \cap S), F)
      BY <3>9, StillOfFiles
    <3>11. PICK G : G = Rows!Without(G0, S) \cup N2
      OBVIOUS
    <3>12. G0 \subseteq t1.forms /\ ("forms" \notin dropped => G0 = t1.forms)
      BY <1>7, <1>a DEF Lacking
    <3>13. G \subseteq t2.forms
      BY <3>1, <3>5, <3>11, <3>12 DEF Rows!Without
    <3>14. ASSUME "forms" \notin gone PROVE G = t2.forms
      <4>1. CASE "forms" \notin dropped
        BY <3>1, <3>5, <3>11, <3>12, <4>1
      <4>2. CASE "forms" \in dropped
        <5>1. whole
          BY <1>1, <1>4, <3>14, <4>2
        <5>2. Rows!Without(t1.forms, S) = {}
          BY <3>1, <3>9, <5>1 DEF Rows!Without, OfFiles
        <5>3. Rows!Without(G0, S) = {}
          BY <3>12, <5>2 DEF Rows!Without
        <5>4. QED
          BY <3>1, <3>5, <3>11, <5>2, <5>3
      <4>3. QED
        BY <4>1, <4>2
    <3>15. Joint(t2, G, Q)
      BY <3>1, <3>5, <3>11
    <3>16. QED
      BY <3>5, <3>8, <3>10, <3>13, <3>14, <3>15
  <2>3. QED
    BY <2>1, <2>2
<1>b. PICK G : Joint(t2, G, Q) /\ G \subseteq t2.forms /\ ("forms" \notin gone => G = t2.forms)
  BY <1>12
<1>13. /\ Joint(t3, G, Q) /\ t3.own = t1.own /\ t3.rights = tables.rights /\ t3.forms = t2.forms
       /\ t3.templates = t1.templates
       /\ t3.syns = Rows!Without(tables.syns, N) \cup Rows!Rows(Rows!Of({"desc", "role"}) \cap N)
  <2>1. Joint(t2, G, Q) /\ t3 = Rows!SynonymStep(t2, named)
    BY <1>2, <1>b
  <2>2. /\ Joint(t3, G, Q) /\ t3.own = t2.own /\ t3.rights = t2.rights /\ t3.forms = t2.forms
        /\ t3.templates = t2.templates
        /\ t3.syns = Rows!Without(t2.syns, Rows!In(named)) \cup Rows!Rows(Rows!Of({"desc", "role"}) \cap Rows!In(named))
    <3>1. Joint(t3, G, Q)
      BY ONLY <2>1, SynonymsDone
    <3>2. t3.own = t2.own /\ t3.rights = t2.rights /\ t3.forms = t2.forms /\ t3.templates = t2.templates
      BY ONLY <2>1 DEF Rows!SynonymStep, Joint, Table
    <3>3. t3.syns = Rows!Without(t2.syns, Rows!In(named)) \cup Rows!Rows(Rows!Of({"desc", "role"}) \cap Rows!In(named))
      BY ONLY <2>1, SynonymsDone
    <3>4. QED
      BY <3>1, <3>2, <3>3
  <2>3. QED
    BY <1>4, <1>7, <1>12, <2>2
<1>14. OfFiles(t3.syns, Rows!Of({"desc", "role"})) /\ Sure(t3.syns, Rows!Of({"desc", "role"}), {})
  BY <1>5, <1>6, <1>13, ReadAll
<1>15. /\ \E R2 : /\ Joint(t4, G, R2) /\ R2 \subseteq Rows!RoleRefs(t4.rights)
                  /\ "rights" \notin gone => R2 = Rows!RoleRefs(t4.rights)
       /\ t4.own = t1.own /\ t4.forms = t2.forms
       /\ t4.templates = t1.templates /\ t4.syns = t3.syns
       /\ OfFiles(t4.rights, Rows!Of({"rights"})) /\ Sure(t4.rights, Rows!Of({"rights"}), {})
  <2>1. CASE Rows!RightsDue
    <3>1. PICK S : S = IF whole \/ ~Rows!OneFilePerRole THEN Rows!Of({"rights"}) ELSE since
      OBVIOUS
    <3>2. t4 = Rows!RightsStep(t3, S)
      BY <1>2, <2>1, <3>1 DEF Rows!RightsRead
    <3>3. OfFiles(t3.rights, Rows!Of({"rights"})) /\ Joint(t3, G, Q)
      BY <1>5, <1>13
    <3>4. /\ Joint(t4, G, Rows!RoleRefs(t4.rights)) /\ t4.own = t3.own /\ t4.forms = t3.forms /\ t4.syns = t3.syns
          /\ t4.templates = t3.templates
          /\ t4.rights = Rows!Without(t3.rights, S) \cup Rows!Rows(Rows!Of({"rights"}) \cap S)
      <4>1. Joint(t4, G, Rows!RoleRefs(t4.rights))
        BY ONLY <3>2, <3>3, RightsDone
      <4>2. /\ t4.own = t3.own /\ t4.forms = t3.forms /\ t4.syns = t3.syns /\ t4.templates = t3.templates
            /\ t4.rights = Rows!Without(t3.rights, S) \cup Rows!Rows(Rows!Of({"rights"}) \cap S)
        BY ONLY <3>2, <3>3 DEF Rows!RightsStep, Joint, Table
      <4>3. QED
        BY <4>1, <4>2
    <3>5. Rows!Of({"rights"}) \cap since \subseteq S
      BY <3>1
    <3>6. OfFiles(t3.rights, Rows!Of({"rights"})) /\ Sure(t3.rights, Rows!Of({"rights"}), since)
      BY <1>5, <1>13
    <3>7. OfFiles(t4.rights, Rows!Of({"rights"})) /\ Sure(t4.rights, Rows!Of({"rights"}), {})
      BY <3>4, <3>5, <3>6, ReadAll
    <3>8. QED
      BY <1>13, <3>4, <3>7
  <2>2. CASE ~Rows!RightsDue
    <3>1. t4 = t3
      BY <1>2, <2>2 DEF Rows!RightsRead
    <3>2. Rows!Triggers({"rights"}) = {} /\ ~(Rows!Triggers({"xml"}) # {} /\ "Roles" \in Rows!Changed)
      BY <2>2 DEF Rows!RightsDue
    <3>3. ASSUME NEW f \in since, rowsAbout[f].cat = "Roles" PROVE FALSE
      <4>1. rowsAbout[f].trigger \in {"xml", "rights"}
        BY <1>5, <3>3, RowsFacts
      <4>2. CASE rowsAbout[f].trigger = "rights"
        BY <3>2, <4>2 DEF Rows!Triggers
      <4>3. CASE rowsAbout[f].trigger = "xml"
        BY <3>2, <3>3, <4>3 DEF Rows!Triggers, Rows!Changed, Rows!Categories
      <4>4. QED
        BY <4>1, <4>2, <4>3
    <3>4. Rows!Of({"rights"}) \cap since = {}
      BY <3>3, RowsFacts DEF Rows!Of
    <3>5. "Roles" \notin cats
      BY <1>2, <3>3 DEF Rows!Changed, Rows!Categories, Rows!Triggers
    <3>6. Rows!Of({"rights"}) \cap C = {}
      BY <1>4, <3>5, RowsFacts DEF Rows!Of, Rows!In
    <3>7. Q = R
      <4>1. OfFiles(R, Rows!Of({"rights"}))
        BY <1>a DEF Joint
      <4>2. QED
        BY <1>10, <3>6, <4>1, Untouched
    <3>8. Sure(tables.rights, Rows!Of({"rights"}), {})
      BY <1>5, <3>4, NothingOld
    <3>9. "rights" \notin gone => "rights" \notin dropped
      BY <1>1, <1>4, <2>2
    <3>10. Q \subseteq Rows!RoleRefs(t4.rights) /\ ("rights" \notin gone => Q = Rows!RoleRefs(t4.rights))
      BY <1>13, <1>a, <3>1, <3>7, <3>9 DEF Lacking
    <3>11. QED
      BY <1>5, <1>13, <3>1, <3>8, <3>10
  <2>3. QED
    BY <2>1, <2>2
<1>c. PICK R2 : /\ Joint(t4, G, R2) /\ R2 \subseteq Rows!RoleRefs(t4.rights)
                /\ "rights" \notin gone => R2 = Rows!RoleRefs(t4.rights)
  BY <1>15
<1>16. QED
  <2>1. /\ OfFiles(t4.own, Rows!Metadata) /\ Sure(t4.own, Rows!Metadata, {})
        /\ OfFiles(t4.syns, Rows!Of({"desc", "role"})) /\ Sure(t4.syns, Rows!Of({"desc", "role"}), {})
        /\ OfFiles(t4.templates, Rows!Of({"template"})) /\ Sure(t4.templates, Rows!Of({"template"}), {})
    BY <1>8, <1>9, <1>14, <1>15
  <2>2. /\ OfFiles(t4.rights, Rows!Of({"rights"})) /\ Sure(t4.rights, Rows!Of({"rights"}), {})
        /\ OfFiles(t4.forms, Rows!Of({"form"})) /\ Sure(t4.forms, Rows!Canonical, {})
    BY <1>2, <1>12, <1>15
  <2>3. Lacking(t4, G, R2, gone)
    BY <1>15, <1>b, <1>c DEF Lacking
  <2>4. Table(t4) /\ RefsIn(t4, gone)
    BY <1>c, <2>3, SharesGive DEF Joint
  <2>5. t4.own = Rows!Without(tables.own, C) \cup Rows!Rows(Rows!Metadata \cap C)
    BY <1>7, <1>15
  <2>6. /\ UNCHANGED <<part, text>> /\ since' = {} /\ stage' = "idle" /\ point' = {} /\ due' = {} /\ skip' = {}
        /\ tables' = t4 /\ dropped' = gone /\ gone \subseteq {"forms", "rights"}
    BY <1>1, <1>3, <1>4
  <2>7. DescriptorsRight
    OBVIOUS
  <2>8. QED
    BY ONLY <2>1, <2>2, <2>4, <2>5, <2>6, <2>7, AllRead

(* The files of the domains of a scan. *)
LEMMA FilesOfDomains ==
  /\ Rows!DomainFiles("metadata") = Rows!Of({"desc", "extra", "template"})
  /\ Rows!DomainFiles("synonyms") = Rows!Of({"desc", "role"})
  /\ Rows!DomainFiles("forms") = Rows!Of({"form"}) /\ Rows!DomainFiles("rights") = Rows!Of({"rights"})
  /\ Rows!Metadata \subseteq Rows!Of({"desc", "extra", "template"})
  /\ Rows!Of({"template"}) \subseteq Rows!Of({"desc", "extra", "template"})
BY DEF Rows!DomainFiles, Rows!Metadata, Rows!Of

(* A table that is not read. *)
LEMMA NoneRead == ASSUME NEW X, NEW K PROVE X = Rows!Without(X, {}) \cup Rows!Rows(K \cap {})
<1>1. K \cap {} = {} /\ Rows!Without(X, {}) = X
  BY DEF Rows!Without
<1>2. QED
  BY <1>1, NoRowsOfNone

(* A commit of a scan: what has been read is right, the rest is what it was. *)
LEMMA Committed ==
  ASSUME DescriptorsRight, UNCHANGED <<part, text, since, point, due>>, stage # "objects",
         NEW next, stage' = next, next \in {"idle", "synonyms", "rights", "forms"},
         NEW gone, dropped' = gone, NEW left, skip' = left,
         NEW u, tables' = u, Table(u), NEW D,
         u.own = Rows!Without(tables.own, D) \cup Rows!Rows(Rows!Metadata \cap D),
         OfFiles(u.own, Rows!Metadata), Sure(u.own, Rows!Metadata, since),
         OfFiles(u.syns, Rows!Of({"desc", "role"})), Sure(u.syns, Rows!Of({"desc", "role"}), since),
         OfFiles(u.templates, Rows!Of({"template"})), Sure(u.templates, Rows!Of({"template"}), since),
         OfFiles(u.rights, Rows!Of({"rights"})), Sure(u.rights, Rows!Of({"rights"}), since),
         u.forms = tables.forms,
         RefsIn(u, gone), ScanSure(u, next), MayBeSkipped(left, gone, next)
  PROVE  DescriptorsRight'
<1>1. point = {} /\ due = {}
  BY DEF DescriptorsRight, RowsTypes
<1>2. RowsTypes'
  <2>1. \A f \in rowsFiles : \/ text[f] = Rows!Absent
                             \/ f \in DOMAIN rowsContentsOf[part] /\ text[f] \in rowsContentsOf[part][f]
    BY Contents DEF DescriptorsRight
  <2>2. tables' = [own |-> tables'.own, refs |-> tables'.refs, syns |-> tables'.syns,
                   forms |-> tables'.forms, rights |-> tables'.rights, templates |-> tables'.templates]
    BY DEF Table
  <2>3. QED
    BY <1>1, <2>1, <2>2 DEF RowsTypes, DescriptorsRight
<1>3. ObjectsWhole'
  BY DEF ObjectsWhole, DescriptorsRight
<1>4. NamesRight'
  BY NamesRead DEF NamesRight
<1>5. Suspect' = since /\ Dirs' = Dirs
  BY <1>1 DEF Suspect, Dirs
<1>6. ASSUME NEW X, NEW K, NEW A, Sure(X, K, A) PROVE Rows!Without(X, A) = Rows!Rows(K \ A)'
  BY <1>6, SameRows DEF Sure
<1>7. /\ Sure(tables.own, Rows!Metadata, Suspect)' /\ Sure(tables.syns, Rows!Of({"desc", "role"}), Suspect)'
      /\ Sure(tables.templates, Rows!Of({"template"}), Suspect)' /\ Sure(tables.rights, Rows!Of({"rights"}), since)'
  BY <1>5, SameRows DEF Sure
<1>8. Sure(tables.forms, Rows!Canonical, Dirs)'
  <2>1. Sure(tables.forms, Rows!Canonical, Dirs)
    BY DEF DescriptorsRight, TablesRight
  <2>2. QED
    BY <1>5, <2>1, SameRows DEF Sure
<1>9. OfFiles(tables.forms, Rows!Of({"form"}))
  BY DEF DescriptorsRight, TablesRight
<1>10. TablesRight'
  BY <1>7, <1>8, <1>9 DEF TablesRight, OfFiles, RefsIn
<1>11. ScanRight'
  BY SameRows DEF ScanRight, MayBeSkipped, ScanSure, Sure
<1>12. QED
  BY <1>2, <1>3, <1>4, <1>10, <1>11 DEF DescriptorsRight

(* What a scan finds between its commits. *)
LEMMA AtCommit ==
  ASSUME DescriptorsRight, stage # "objects"
  PROVE  /\ Suspect = since /\ point = {} /\ due = {} /\ since \subseteq rowsFiles /\ Table(tables)
         /\ OfFiles(tables.own, Rows!Metadata) /\ Sure(tables.own, Rows!Metadata, since)
         /\ OfFiles(tables.syns, Rows!Of({"desc", "role"})) /\ Sure(tables.syns, Rows!Of({"desc", "role"}), since)
         /\ OfFiles(tables.templates, Rows!Of({"template"})) /\ Sure(tables.templates, Rows!Of({"template"}), since)
         /\ OfFiles(tables.rights, Rows!Of({"rights"})) /\ Sure(tables.rights, Rows!Of({"rights"}), since)
         /\ OfFiles(tables.forms, Rows!Of({"form"})) /\ Sure(tables.forms, Rows!Canonical, Dirs)
         /\ \E G, R : Joint(tables, G, R) /\ Lacking(tables, G, R, dropped)
         /\ MayBeSkipped(skip, dropped, stage) /\ ScanSure(tables, stage) /\ dropped \subseteq {"forms", "rights"}
<1>1. point = {} /\ due = {} /\ since \subseteq rowsFiles /\ Table(tables)
  BY DEF DescriptorsRight, RowsTypes, Table
<1>2. Suspect = since
  BY <1>1 DEF Suspect
<1>3. TablesRight /\ ScanRight
  BY DEF DescriptorsRight
<1>4. \E G, R : Joint(tables, G, R) /\ Lacking(tables, G, R, dropped)
  BY <1>1, <1>3, SharesOf DEF TablesRight
<1>5. QED
  BY <1>1, <1>2, <1>3, <1>4 DEF TablesRight, ScanRight, MayBeSkipped

(* The first commit of a scan: the references of what it will read are gone. *)
LEMMA ScanMetadataKept ==
  ASSUME DescriptorsRight, Rows!ScanMetadata
  PROVE  DescriptorsRight'
<1>1. PICK domains \in SUBSET Rows!Domains :
        /\ Rows!MaySkip(domains) /\ skip' = domains \ {"metadata"}
        /\ IF "metadata" \in domains THEN UNCHANGED <<tables, dropped>>
           ELSE /\ tables' = Rows!MetadataRead(tables, domains)
                /\ dropped' = dropped \cup Rows!Lost(tables.refs \ tables'.refs)
  BY DEF Rows!ScanMetadata
<1>2. stage = "idle" /\ stage' = "synonyms" /\ UNCHANGED <<part, text, since, point, due>>
  BY DEF Rows!ScanMetadata, Rows!fastVars
<1>3. PICK u, gone, F, RF, T :
        /\ u = tables' /\ gone = dropped' /\ F = Rows!Of({"form"}) /\ RF = Rows!Of({"rights"})
        /\ T = Rows!Of({"template"})
  OBVIOUS
<1>4. /\ Table(tables) /\ since \subseteq rowsFiles /\ dropped \subseteq {"forms", "rights"}
      /\ OfFiles(tables.own, Rows!Metadata) /\ Sure(tables.own, Rows!Metadata, since)
      /\ OfFiles(tables.syns, Rows!Of({"desc", "role"})) /\ Sure(tables.syns, Rows!Of({"desc", "role"}), since)
      /\ OfFiles(tables.templates, T) /\ Sure(tables.templates, T, since)
      /\ OfFiles(tables.rights, RF) /\ Sure(tables.rights, RF, since)
      /\ OfFiles(tables.forms, F)
  BY <1>2, <1>3, AtCommit
<1>5. PICK G, R : Joint(tables, G, R) /\ Lacking(tables, G, R, dropped)
  BY <1>2, AtCommit
(* What is skipped has no file of the difference, and nothing is missing. *)
<1>6. /\ \A domain \in domains : Rows!DomainFiles(domain) \cap since = {}
      /\ domains # {} => dropped = {}
  BY <1>1 DEF Rows!MaySkip, Rows!Unchanged
<1>7. "metadata" \in domains => Rows!Metadata \cap since = {} /\ T \cap since = {}
  BY <1>3, <1>6, FilesOfDomains
<1>8. PICK G2, Q : /\ G2 = (IF "metadata" \in domains \/ "forms" \in domains THEN G ELSE {})
                   /\ Q = (IF "metadata" \in domains \/ "rights" \in domains THEN R ELSE {})
  OBVIOUS
<1>9. OfFiles(G, F) /\ OfFiles(R, RF) /\ tables.refs = tables.own \cup G \cup R
  BY <1>3, <1>5 DEF Joint
<1>10. /\ Joint(u, G2, Q) /\ u.forms = tables.forms /\ u.rights = tables.rights /\ u.syns = tables.syns
       /\ u.own = (IF "metadata" \in domains THEN tables.own ELSE Rows!Rows(Rows!Metadata))
       /\ u.templates = (IF "metadata" \in domains THEN tables.templates ELSE Rows!Rows(T))
  <2>1. OfFiles(G2, F) /\ OfFiles(Q, RF)
    BY <1>8, <1>9 DEF OfFiles
  <2>2. CASE "metadata" \in domains
    BY <1>1, <1>3, <1>5, <1>8, <2>2
  <2>3. CASE "metadata" \notin domains
    <3>1. {r \in tables.refs : r.file \in F} = G
      <4>1. Rows!Metadata \cap F = {} /\ F \cap RF = {}
        BY <1>3, Kinds
      <4>2. QED
        BY <1>4, <1>9, <4>1 DEF OfFiles
    <3>2. "rights" \in domains => R = Rows!RoleRefs(tables.rights)
      BY <1>5, <1>6 DEF Lacking
    <3>3. PICK N : N = Rows!Rows(Rows!Metadata)
      OBVIOUS
    <3>4. u = [tables EXCEPT !.own = N, !.templates = Rows!Rows(T), !.refs = N \cup G2 \cup Q]
      BY <1>1, <1>3, <1>8, <2>3, <3>1, <3>2, <3>3 DEF Rows!MetadataRead
    <3>5. OfFiles(N, Rows!Metadata)
      BY <3>3, AllRows
    <3>6. /\ Table(u) /\ u.forms = tables.forms /\ u.rights = tables.rights /\ u.syns = tables.syns
          /\ u.own = N /\ u.refs = N \cup G2 \cup Q /\ u.templates = Rows!Rows(T)
      BY <1>4, <3>4 DEF Table
    <3>7. QED
      BY <1>3, <2>1, <2>3, <3>3, <3>5, <3>6 DEF Joint
  <2>4. QED
    BY <2>2, <2>3
<1>11. OfFiles(u.own, Rows!Metadata) /\ Sure(u.own, Rows!Metadata, {})
  BY <1>4, <1>7, <1>10, NothingOld, AllRows
<1>12. OfFiles(u.templates, T) /\ Sure(u.templates, T, {})
  BY <1>4, <1>7, <1>10, NothingOld, AllRows
(* A share that goes is one of those the scan has dropped. *)
<1>13. /\ gone \subseteq {"forms", "rights"} /\ dropped \subseteq gone
       /\ "forms" \notin gone => G2 = G
       /\ "rights" \notin gone => Q = R
  <2>1. CASE "metadata" \in domains
    BY <1>1, <1>3, <1>4, <1>8, <2>1
  <2>2. CASE "metadata" \notin domains
    <3>1. gone = dropped \cup Rows!Lost(tables.refs \ u.refs)
      BY <1>1, <1>3, <2>2
    <3>2. u.refs = u.own \cup G2 \cup Q
      BY <1>10 DEF Joint
    <3>3. /\ Rows!Metadata \cap F = {} /\ Rows!Metadata \cap RF = {} /\ F \cap RF = {}
      BY <1>3, Kinds
    <3>4. OfFiles(G2, F) /\ OfFiles(Q, RF)
      BY <1>8, <1>9 DEF OfFiles
    <3>5. ASSUME NEW r \in G, r \notin G2 PROVE "forms" \in gone
      <4>1. r \in tables.refs \ u.refs /\ r.file \in F
        BY <1>9, <1>11, <3>2, <3>3, <3>4, <3>5 DEF OfFiles
      <4>2. "forms" \in Rows!Lost(tables.refs \ u.refs)
        BY <1>3, <4>1, FilesOfDomains DEF Rows!Lost
      <4>3. QED
        BY <3>1, <4>2
    <3>6. ASSUME NEW r \in R, r \notin Q PROVE "rights" \in gone
      <4>1. r \in tables.refs \ u.refs /\ r.file \in RF
        BY <1>9, <1>11, <3>2, <3>3, <3>4, <3>6 DEF OfFiles
      <4>2. "rights" \in Rows!Lost(tables.refs \ u.refs)
        BY <1>3, <4>1, FilesOfDomains DEF Rows!Lost
      <4>3. QED
        BY <3>1, <4>2
    <3>7. gone \subseteq {"forms", "rights"} /\ dropped \subseteq gone
      BY <1>4, <3>1 DEF Rows!Lost
    <3>8. "forms" \notin gone => G2 = G
      BY <1>8, <3>5
    <3>9. "rights" \notin gone => Q = R
      BY <1>8, <3>6
    <3>10. QED
      BY <3>7, <3>8, <3>9
  <2>3. QED
    BY <2>1, <2>2
<1>14. Lacking(u, G2, Q, gone)
  <2>1. /\ G \subseteq u.forms /\ R \subseteq Rows!RoleRefs(u.rights)
        /\ "forms" \notin dropped => G = u.forms
        /\ "rights" \notin dropped => R = Rows!RoleRefs(u.rights)
    BY <1>5, <1>10 DEF Lacking
  <2>2. G2 \subseteq G /\ Q \subseteq R
    BY <1>8
  <2>3. QED
    BY <1>13, <2>1, <2>2 DEF Lacking
<1>15. RefsIn(u, gone) /\ Table(u)
  BY <1>10, <1>14, SharesGive DEF Joint
(* What is to be skipped is there. *)
<1>16. \A domain \in domains \ {"metadata"} : domain \notin gone
  <2> SUFFICES ASSUME NEW domain \in domains, domain # "metadata", domain \in gone PROVE FALSE
    OBVIOUS
  <2>1. dropped = {}
    BY <1>6
  <2>2. CASE "metadata" \in domains
    BY <1>1, <1>3, <2>1, <2>2
  <2>3. CASE "metadata" \notin domains
    <3>1. domain \in Rows!Lost(tables.refs \ u.refs)
      BY <1>1, <1>3, <2>1, <2>3
    <3>2. PICK r \in tables.refs \ u.refs : r.file \in Rows!DomainFiles(domain)
      BY <3>1 DEF Rows!Lost
    <3>3. domain \in {"forms", "rights"}
      BY <3>1 DEF Rows!Lost
    <3>4. /\ Rows!Metadata \cap F = {} /\ Rows!Metadata \cap RF = {} /\ F \cap RF = {}
      BY <1>3, Kinds
    <3>5. u.refs = u.own \cup G2 \cup Q
      BY <1>10 DEF Joint
    <3>6. CASE domain = "forms"
      <4>1. r.file \in F /\ G2 = G
        BY <1>3, <1>8, <3>2, <3>6, FilesOfDomains
      <4>2. r \in G
        BY <1>4, <1>9, <3>2, <3>4, <4>1 DEF OfFiles
      <4>3. QED
        BY <3>2, <3>5, <4>1, <4>2
    <3>7. CASE domain = "rights"
      <4>1. r.file \in RF /\ Q = R
        BY <1>3, <1>8, <3>2, <3>7, FilesOfDomains
      <4>2. r \in R
        BY <1>4, <1>9, <3>2, <3>4, <4>1 DEF OfFiles
      <4>3. QED
        BY <3>2, <3>5, <4>1, <4>2
    <3>8. QED
      BY <3>3, <3>6, <3>7
  <2>4. QED
    BY <2>2, <2>3
<1>17. PICK left : left = domains \ {"metadata"}
  OBVIOUS
<1>18. MayBeSkipped(left, gone, "synonyms")
  BY <1>6, <1>13, <1>16, <1>17 DEF MayBeSkipped
<1>19. ScanSure(u, "synonyms")
  BY <1>3, <1>11, <1>12 DEF ScanSure
<1>20. PICK D : D = IF "metadata" \in domains THEN {} ELSE rowsFiles
  OBVIOUS
<1>21. u.own = Rows!Without(tables.own, D) \cup Rows!Rows(Rows!Metadata \cap D)
  <2>1. CASE "metadata" \in domains
    BY <1>10, <1>20, <2>1, NoneRead
  <2>2. CASE "metadata" \notin domains
    <3>1. D = rowsFiles /\ Rows!Metadata \cap D = Rows!Metadata
      BY <1>20, <2>2 DEF Rows!Metadata, Rows!Of
    <3>2. Rows!Without(tables.own, D) = {}
      BY <1>4, <3>1 DEF Rows!Without, OfFiles
    <3>3. QED
      BY <1>10, <2>2, <3>1, <3>2
  <2>3. QED
    BY <2>1, <2>2
<1>22. /\ Sure(u.own, Rows!Metadata, since) /\ Sure(u.templates, T, since)
  <2>1. {} \subseteq since
    OBVIOUS
  <2>2. QED
    BY <1>11, <1>12, <2>1, LessIsSure
<1>23. QED
  <2>1. /\ OfFiles(u.own, Rows!Metadata) /\ Sure(u.own, Rows!Metadata, since)
        /\ OfFiles(u.syns, Rows!Of({"desc", "role"})) /\ Sure(u.syns, Rows!Of({"desc", "role"}), since)
        /\ OfFiles(u.templates, Rows!Of({"template"})) /\ Sure(u.templates, Rows!Of({"template"}), since)
        /\ OfFiles(u.rights, Rows!Of({"rights"})) /\ Sure(u.rights, Rows!Of({"rights"}), since)
        /\ u.forms = tables.forms
    BY <1>3, <1>4, <1>10, <1>11, <1>12, <1>22
  <2>2. /\ UNCHANGED <<part, text, since, point, due>> /\ stage # "objects" /\ stage' = "synonyms"
        /\ dropped' = gone /\ skip' = left /\ tables' = u
    BY <1>1, <1>2, <1>3, <1>17
  <2>3. DescriptorsRight /\ "synonyms" \in {"idle", "synonyms", "rights", "forms"}
    OBVIOUS
  <2>4. QED
    BY ONLY <1>15, <1>18, <1>19, <1>21, <2>1, <2>2, <2>3, Committed

(* The commit after the synonyms. *)
LEMMA ScanSynonymsKept ==
  ASSUME DescriptorsRight, Rows!ScanSynonyms
  PROVE  DescriptorsRight'
<1>1. PICK u, cats, C : /\ u = tables' /\ cats = Rows!Categories(rowsFiles) /\ C = Rows!In(cats)
  OBVIOUS
<1>2. /\ stage = "synonyms" /\ stage' = "rights" /\ UNCHANGED <<part, text, since, point, due>>
      /\ u = (IF "synonyms" \in skip THEN tables ELSE Rows!SynonymStep(tables, cats))
      /\ dropped' = dropped \ {"synonyms"} /\ skip' = skip \ {"synonyms"}
  BY <1>1 DEF Rows!ScanSynonyms, Rows!Scans, Rows!fastVars
<1>3. PICK K : K = Rows!Of({"desc", "role"})
  OBVIOUS
<1>4. /\ Table(tables) /\ since \subseteq rowsFiles /\ dropped \subseteq {"forms", "rights"}
      /\ OfFiles(tables.own, Rows!Metadata) /\ Sure(tables.own, Rows!Metadata, since)
      /\ OfFiles(tables.syns, K) /\ Sure(tables.syns, K, since)
      /\ OfFiles(tables.templates, Rows!Of({"template"})) /\ Sure(tables.templates, Rows!Of({"template"}), since)
      /\ OfFiles(tables.rights, Rows!Of({"rights"})) /\ Sure(tables.rights, Rows!Of({"rights"}), since)
      /\ MayBeSkipped(skip, dropped, stage) /\ ScanSure(tables, stage)
  BY <1>2, <1>3, AtCommit
<1>5. PICK G, R : Joint(tables, G, R) /\ Lacking(tables, G, R, dropped)
  BY <1>2, AtCommit
<1>6. /\ Joint(u, G, R) /\ u.own = tables.own /\ u.rights = tables.rights /\ u.forms = tables.forms
      /\ u.templates = tables.templates /\ OfFiles(u.syns, K) /\ Sure(u.syns, K, {})
  <2>1. CASE "synonyms" \in skip
    <3>1. K \cap since = {}
      BY <1>3, <1>4, <2>1, FilesOfDomains DEF MayBeSkipped
    <3>2. QED
      BY <1>2, <1>4, <1>5, <2>1, <3>1, NothingOld
  <2>2. CASE "synonyms" \notin skip
    <3>1. u = Rows!SynonymStep(tables, cats) /\ Joint(tables, G, R)
      BY <1>2, <1>5, <2>2
    <3>2. /\ Joint(u, G, R) /\ u.own = tables.own /\ u.rights = tables.rights /\ u.forms = tables.forms
          /\ u.templates = tables.templates
          /\ u.syns = Rows!Without(tables.syns, Rows!In(cats)) \cup Rows!Rows(Rows!Of({"desc", "role"}) \cap Rows!In(cats))
      BY ONLY <3>1, SynonymsDone
    <3>3. C = rowsFiles
      BY <1>1 DEF Rows!Categories, Rows!In
    <3>4. K \cap since \subseteq C
      BY <1>4, <3>3
    <3>5. OfFiles(u.syns, K) /\ Sure(u.syns, K, {})
      BY <1>1, <1>3, <1>4, <3>2, <3>4, ReadAll
    <3>6. QED
      BY <3>2, <3>5
  <2>3. QED
    BY <2>1, <2>2
<1>7. PICK gone, left, D : gone = dropped /\ left = skip \ {"synonyms"} /\ D = {}
  OBVIOUS
<1>8. RefsIn(u, gone) /\ Table(u)
  <2>1. Lacking(u, G, R, gone)
    BY <1>5, <1>6, <1>7 DEF Lacking
  <2>2. QED
    BY <1>6, <2>1, SharesGive DEF Joint
<1>9. MayBeSkipped(left, gone, "rights")
  BY <1>2, <1>4, <1>7 DEF MayBeSkipped, Rows!Domains
<1>10. ScanSure(u, "rights")
  BY <1>2, <1>3, <1>4, <1>6 DEF ScanSure
<1>11. Sure(u.syns, K, since)
  <2>1. {} \subseteq since
    OBVIOUS
  <2>2. QED
    BY <1>6, <2>1, LessIsSure
<1>12. u.own = Rows!Without(tables.own, D) \cup Rows!Rows(Rows!Metadata \cap D)
  BY <1>6, <1>7, NoneRead
<1>13. QED
  <2>1. /\ OfFiles(u.own, Rows!Metadata) /\ Sure(u.own, Rows!Metadata, since)
        /\ OfFiles(u.syns, Rows!Of({"desc", "role"})) /\ Sure(u.syns, Rows!Of({"desc", "role"}), since)
        /\ OfFiles(u.templates, Rows!Of({"template"})) /\ Sure(u.templates, Rows!Of({"template"}), since)
        /\ OfFiles(u.rights, Rows!Of({"rights"})) /\ Sure(u.rights, Rows!Of({"rights"}), since)
        /\ u.forms = tables.forms
    BY <1>3, <1>4, <1>6, <1>11
  <2>2. /\ UNCHANGED <<part, text, since, point, due>> /\ stage # "objects" /\ stage' = "rights"
        /\ dropped' = gone /\ skip' = left /\ tables' = u
    BY <1>1, <1>2, <1>4, <1>7
  <2>3. DescriptorsRight /\ "rights" \in {"idle", "synonyms", "rights", "forms"}
    OBVIOUS
  <2>4. QED
    BY ONLY <1>8, <1>9, <1>10, <1>12, <2>1, <2>2, <2>3, Committed

(* The commit after the rights: the references of roles are back. *)
LEMMA ScanRightsKept ==
  ASSUME DescriptorsRight, Rows!ScanRights
  PROVE  DescriptorsRight'
<1>1. PICK u, K : u = tables' /\ K = Rows!Of({"rights"})
  OBVIOUS
<1>2. /\ stage = "rights" /\ stage' = "forms" /\ UNCHANGED <<part, text, since, point, due>>
      /\ u = (IF "rights" \in skip THEN tables ELSE Rows!RightsStep(tables, K))
      /\ dropped' = dropped \ {"rights"} /\ skip' = skip \ {"rights"}
  BY <1>1 DEF Rows!ScanRights, Rows!Scans, Rows!fastVars
<1>3. /\ Table(tables) /\ since \subseteq rowsFiles /\ dropped \subseteq {"forms", "rights"}
      /\ OfFiles(tables.own, Rows!Metadata) /\ Sure(tables.own, Rows!Metadata, since)
      /\ OfFiles(tables.syns, Rows!Of({"desc", "role"})) /\ Sure(tables.syns, Rows!Of({"desc", "role"}), since)
      /\ OfFiles(tables.templates, Rows!Of({"template"})) /\ Sure(tables.templates, Rows!Of({"template"}), since)
      /\ OfFiles(tables.rights, K) /\ Sure(tables.rights, K, since)
      /\ MayBeSkipped(skip, dropped, stage) /\ ScanSure(tables, stage)
  BY <1>1, <1>2, AtCommit
<1>4. PICK G, R : Joint(tables, G, R) /\ Lacking(tables, G, R, dropped)
  BY <1>2, AtCommit
<1>5. /\ Joint(u, G, Rows!RoleRefs(u.rights)) /\ u.own = tables.own /\ u.forms = tables.forms /\ u.syns = tables.syns
      /\ u.templates = tables.templates /\ OfFiles(u.rights, K) /\ Sure(u.rights, K, {})
  <2>1. CASE "rights" \in skip
    <3>1. K \cap since = {} /\ "rights" \notin dropped
      BY <1>1, <1>3, <2>1, FilesOfDomains DEF MayBeSkipped
    <3>2. R = Rows!RoleRefs(tables.rights)
      BY <1>4, <3>1 DEF Lacking
    <3>3. QED
      BY <1>2, <1>3, <1>4, <2>1, <3>1, <3>2, NothingOld
  <2>2. CASE "rights" \notin skip
    <3>1. u = Rows!RightsStep(tables, K) /\ Joint(tables, G, R) /\ OfFiles(tables.rights, Rows!Of({"rights"}))
      BY <1>1, <1>2, <1>3, <1>4, <2>2
    <3>2. /\ Joint(u, G, Rows!RoleRefs(u.rights)) /\ u.own = tables.own /\ u.forms = tables.forms /\ u.syns = tables.syns
          /\ u.templates = tables.templates
          /\ u.rights = Rows!Without(tables.rights, K) \cup Rows!Rows(Rows!Of({"rights"}) \cap K)
      <4>1. Joint(u, G, Rows!RoleRefs(u.rights))
        BY ONLY <3>1, RightsDone
      <4>2. /\ u.own = tables.own /\ u.forms = tables.forms /\ u.syns = tables.syns /\ u.templates = tables.templates
            /\ u.rights = Rows!Without(tables.rights, K) \cup Rows!Rows(Rows!Of({"rights"}) \cap K)
        BY ONLY <3>1 DEF Rows!RightsStep, Joint, Table
      <4>3. QED
        BY <4>1, <4>2
    <3>3. K \cap since \subseteq K
      OBVIOUS
    <3>4. OfFiles(u.rights, K) /\ Sure(u.rights, K, {})
      BY <1>1, <1>3, <3>2, <3>3, ReadAll
    <3>5. QED
      BY <3>2, <3>4
  <2>3. QED
    BY <2>1, <2>2
<1>6. PICK gone, left, D : gone = dropped \ {"rights"} /\ left = skip \ {"rights"} /\ D = {}
  OBVIOUS
<1>7. RefsIn(u, gone) /\ Table(u)
  <2>1. Lacking(u, G, Rows!RoleRefs(u.rights), gone)
    BY <1>4, <1>5, <1>6 DEF Lacking
  <2>2. QED
    BY <1>5, <2>1, SharesGive DEF Joint
<1>8. MayBeSkipped(left, gone, "forms")
  BY <1>2, <1>3, <1>6 DEF MayBeSkipped
<1>9. ScanSure(u, "forms")
  BY <1>1, <1>2, <1>3, <1>5 DEF ScanSure
<1>10. Sure(u.rights, K, since)
  <2>1. {} \subseteq since
    OBVIOUS
  <2>2. QED
    BY <1>5, <2>1, LessIsSure
<1>11. u.own = Rows!Without(tables.own, D) \cup Rows!Rows(Rows!Metadata \cap D)
  BY <1>5, <1>6, NoneRead
<1>12. QED
  <2>1. /\ OfFiles(u.own, Rows!Metadata) /\ Sure(u.own, Rows!Metadata, since)
        /\ OfFiles(u.syns, Rows!Of({"desc", "role"})) /\ Sure(u.syns, Rows!Of({"desc", "role"}), since)
        /\ OfFiles(u.templates, Rows!Of({"template"})) /\ Sure(u.templates, Rows!Of({"template"}), since)
        /\ OfFiles(u.rights, Rows!Of({"rights"})) /\ Sure(u.rights, Rows!Of({"rights"}), since)
        /\ u.forms = tables.forms
    BY <1>1, <1>3, <1>5, <1>10
  <2>2. /\ UNCHANGED <<part, text, since, point, due>> /\ stage # "objects" /\ stage' = "forms"
        /\ dropped' = gone /\ skip' = left /\ tables' = u
    BY <1>1, <1>2, <1>6
  <2>3. DescriptorsRight /\ "forms" \in {"idle", "synonyms", "rights", "forms"}
    OBVIOUS
  <2>4. QED
    BY ONLY <1>7, <1>8, <1>9, <1>11, <2>1, <2>2, <2>3, Committed

(* The last commit: the references of forms are back, and nothing is old. *)
LEMMA ScanFormsKept ==
  ASSUME DescriptorsRight, Rows!ScanForms
  PROVE  DescriptorsRight'
<1>1. PICK u, F : u = tables' /\ F = Rows!Of({"form"})
  OBVIOUS
<1>2. /\ stage = "forms" /\ stage' = "idle" /\ since' = {} /\ UNCHANGED <<part, text, point, due>>
      /\ u = (IF "forms" \in skip THEN tables ELSE Rows!FormStep(tables, F))
      /\ dropped' = dropped \ {"forms"} /\ skip' = skip \ {"forms"}
  BY <1>1 DEF Rows!ScanForms, Rows!Scans, Rows!fastVars
<1>3. /\ Table(tables) /\ dropped \subseteq {"forms", "rights"} /\ point = {} /\ due = {}
      /\ OfFiles(tables.own, Rows!Metadata) /\ OfFiles(tables.syns, Rows!Of({"desc", "role"}))
      /\ OfFiles(tables.templates, Rows!Of({"template"})) /\ OfFiles(tables.rights, Rows!Of({"rights"}))
      /\ OfFiles(tables.forms, F) /\ Sure(tables.forms, Rows!Canonical, Dirs)
      /\ MayBeSkipped(skip, dropped, stage) /\ ScanSure(tables, stage)
  BY <1>1, <1>2, AtCommit
<1>4. PICK G, R : Joint(tables, G, R) /\ Lacking(tables, G, R, dropped)
  BY <1>2, AtCommit
<1>5. R = Rows!RoleRefs(tables.rights)
  BY <1>2, <1>3, <1>4 DEF MayBeSkipped, Lacking
<1>6. /\ Joint(u, u.forms, R) /\ u.own = tables.own /\ u.rights = tables.rights /\ u.syns = tables.syns
      /\ u.templates = tables.templates /\ OfFiles(u.forms, F) /\ Sure(u.forms, Rows!Canonical, {})
  <2>1. CASE "forms" \in skip
    <3>1. F \cap since = {} /\ "forms" \notin dropped
      BY <1>1, <1>3, <2>1, FilesOfDomains DEF MayBeSkipped
    <3>2. Dirs = {}
      BY <1>1, <3>1 DEF Dirs
    <3>3. G = tables.forms
      BY <1>4, <3>1 DEF Lacking
    <3>4. QED
      BY <1>2, <1>3, <1>4, <2>1, <3>2, <3>3
  <2>2. CASE "forms" \notin skip
    <3>1. u = Rows!FormStep(tables, F) /\ F \subseteq Rows!Of({"form"}) /\ Joint(tables, G, R)
      BY <1>1, <1>2, <1>4, <2>2
    <3>2. /\ Joint(u, Rows!Without(G, F) \cup Rows!Rows(Rows!Canonical \cap F), R)
          /\ u.own = tables.own /\ u.rights = tables.rights /\ u.syns = tables.syns /\ u.templates = tables.templates
          /\ u.forms = Rows!Without(tables.forms, F) \cup Rows!Rows(Rows!Canonical \cap F)
      <4>1. Joint(u, Rows!Without(G, F) \cup Rows!Rows(Rows!Canonical \cap F), R)
        BY ONLY <3>1, FormsDone
      <4>2. /\ u.own = tables.own /\ u.rights = tables.rights /\ u.syns = tables.syns /\ u.templates = tables.templates
            /\ u.forms = Rows!Without(tables.forms, F) \cup Rows!Rows(Rows!Canonical \cap F)
        BY ONLY <3>1 DEF Rows!FormStep, Joint, Table
      <4>3. QED
        BY <4>1, <4>2
    <3>3. OfFiles(G, F)
      BY <1>1, <1>4 DEF Joint
    <3>4. Rows!Without(G, F) = {} /\ Rows!Without(tables.forms, F) = {}
      BY <1>3, <3>3 DEF OfFiles, Rows!Without
    <3>5. Rows!Canonical \cap F = Rows!Canonical /\ Rows!Canonical \subseteq F
      BY <1>1 DEF Rows!Canonical
    <3>6. u.forms = Rows!Rows(Rows!Canonical)
      BY <3>2, <3>4, <3>5
    <3>7. Sure(u.forms, Rows!Canonical, {}) /\ OfFiles(u.forms, Rows!Canonical)
      BY <3>6, AllRows
    <3>8. OfFiles(u.forms, F)
      BY <3>5, <3>7 DEF OfFiles
    <3>9. Joint(u, u.forms, R)
      BY <3>2, <3>4
    <3>10. QED
      BY <3>2, <3>7, <3>8, <3>9
  <2>3. QED
    BY <2>1, <2>2
<1>7. PICK gone, D : gone = dropped \ {"forms"} /\ D = {}
  OBVIOUS
<1>8. RefsIn(u, gone) /\ Table(u)
  <2>1. Lacking(u, u.forms, R, gone)
    BY <1>5, <1>6 DEF Lacking
  <2>2. QED
    BY <1>6, <2>1, SharesGive DEF Joint
<1>9. u.own = Rows!Without(tables.own, D) \cup Rows!Rows(Rows!Metadata \cap D)
  BY <1>6, <1>7, NoneRead
<1>10. /\ Sure(u.own, Rows!Metadata, {}) /\ Sure(u.syns, Rows!Of({"desc", "role"}), {})
       /\ Sure(u.templates, Rows!Of({"template"}), {}) /\ Sure(u.rights, Rows!Of({"rights"}), {})
  BY <1>2, <1>3, <1>6 DEF ScanSure
<1>11. skip \subseteq {"forms"}
  BY <1>2, <1>3 DEF MayBeSkipped
<1>12. QED
  <2>1. /\ OfFiles(u.own, Rows!Metadata) /\ OfFiles(u.syns, Rows!Of({"desc", "role"}))
        /\ OfFiles(u.templates, Rows!Of({"template"})) /\ OfFiles(u.rights, Rows!Of({"rights"}))
        /\ OfFiles(u.forms, Rows!Of({"form"})) /\ Sure(u.forms, Rows!Canonical, {})
    BY <1>1, <1>3, <1>6
  <2>2. /\ UNCHANGED <<part, text>> /\ since' = {} /\ stage' = "idle" /\ point' = {} /\ due' = {} /\ skip' = {}
        /\ dropped' = gone /\ gone \subseteq {"forms", "rights"} /\ tables' = u
    BY <1>1, <1>2, <1>3, <1>7, <1>11
  <2>3. DescriptorsRight
    OBVIOUS
  <2>4. QED
    BY ONLY <1>8, <1>9, <1>10, <2>1, <2>2, <2>3, AllRead

(* What a scan that dies has committed stays right. *)
LEMMA ScanDiesKept ==
  ASSUME DescriptorsRight, Rows!ScanDies
  PROVE  DescriptorsRight'
<1>1. /\ stage \in Rows!Domains /\ stage' = "idle" /\ skip' = {}
      /\ UNCHANGED <<part, text, since, tables, point, due, dropped>>
  BY DEF Rows!ScanDies, Rows!fastVars
<1>2. stage # "objects"
  BY <1>1 DEF Rows!Domains
<1>3. PICK u, gone, left, D : u = tables /\ gone = dropped /\ left = {} /\ D = {}
  OBVIOUS
<1>4. TablesRight /\ Table(u) /\ Suspect = since /\ gone \subseteq {"forms", "rights"}
  BY <1>2, <1>3, AtCommit DEF DescriptorsRight
<1>5. RefsIn(u, gone)
  BY <1>3, <1>4 DEF TablesRight
<1>6. MayBeSkipped(left, gone, "idle") /\ ScanSure(u, "idle")
  BY <1>3, <1>4 DEF MayBeSkipped, ScanSure
<1>7. u.own = Rows!Without(tables.own, D) \cup Rows!Rows(Rows!Metadata \cap D)
  BY <1>3, NoneRead
<1>8. /\ OfFiles(u.own, Rows!Metadata) /\ Sure(u.own, Rows!Metadata, since)
      /\ OfFiles(u.syns, Rows!Of({"desc", "role"})) /\ Sure(u.syns, Rows!Of({"desc", "role"}), since)
      /\ OfFiles(u.templates, Rows!Of({"template"})) /\ Sure(u.templates, Rows!Of({"template"}), since)
      /\ OfFiles(u.rights, Rows!Of({"rights"})) /\ Sure(u.rights, Rows!Of({"rights"}), since)
      /\ u.forms = tables.forms
  BY <1>3, <1>4 DEF TablesRight
<1>9. /\ UNCHANGED <<part, text, since, point, due>> /\ stage' = "idle"
      /\ dropped' = gone /\ skip' = left /\ tables' = u
  BY <1>1, <1>3
<1>10. DescriptorsRight /\ "idle" \in {"idle", "synonyms", "rights", "forms"}
  OBVIOUS
<1>11. QED
  BY ONLY <1>2, <1>4, <1>5, <1>6, <1>7, <1>8, <1>9, <1>10, Committed

(* A step of another part changes nothing here. *)
LEMMA RowsStutter ==
  ASSUME DescriptorsRight, UNCHANGED <<part, text, since, tables, stage, point, due, skip, dropped>>
  PROVE  DescriptorsRight'
<1>1. RowsTypes'
  <2>1. \A f \in rowsFiles : \/ text[f] = Rows!Absent
                             \/ f \in DOMAIN rowsContentsOf[part] /\ text[f] \in rowsContentsOf[part][f]
    BY Contents DEF DescriptorsRight
  <2>2. QED
    BY <2>1 DEF RowsTypes, DescriptorsRight
<1>2. ObjectsWhole' /\ NamesRight'
  BY DEF ObjectsWhole, NamesRight, DescriptorsRight
<1>3. TablesRight'
  <2>1. TablesRight
    BY DEF DescriptorsRight
  <2>2. Suspect' = Suspect /\ Dirs' = Dirs
    BY DEF Suspect, Dirs
  <2>3. QED
    BY <2>1, <2>2, SameRows DEF TablesRight, Sure, OfFiles, RefsIn
<1>4. ScanRight'
  <2>1. ScanRight
    BY DEF DescriptorsRight
  <2>2. QED
    BY <2>1, SameRows DEF ScanRight, ScanSure, MayBeSkipped, Sure
<1>5. QED
  BY <1>1, <1>2, <1>3, <1>4 DEF DescriptorsRight

(* Every step keeps the rows right. *)
LEMMA RowsStep ==
  ASSUME DescriptorsRight, Rows!Next
  PROVE  DescriptorsRight'
<1>1. CASE \E f \in DOMAIN rowsContentsOf[part] : \E c \in rowsContentsOf[part][f] : Rows!Edit(f, c)
  BY <1>1, EditKept
<1>2. CASE Rows!FastStart
  BY <1>2, FastStartKept
<1>3. CASE \E d \in rowsFiles : Rows!FastObject(d)
  BY <1>3, FastObjectKept
<1>4. CASE \E whole \in BOOLEAN : Rows!FastRest(whole)
  BY <1>4, FastRestKept
<1>5. CASE Rows!ScanMetadata \/ Rows!ScanDies
  BY <1>5, ScanMetadataKept, ScanDiesKept
<1>6. CASE Rows!ScanSynonyms
  BY <1>6, ScanSynonymsKept
<1>7. CASE Rows!ScanRights
  BY <1>7, ScanRightsKept
<1>8. CASE Rows!ScanForms
  BY <1>8, ScanFormsKept
<1>9. QED
  BY <1>1, <1>2, <1>3, <1>4, <1>5, <1>6, <1>7, <1>8 DEF Rows!Next

(* Between updates and without an edit, right rows are those of a build. *)
LEMMA RowsSuffice == DescriptorsRight => Rows!MetadataIsBuild
<1> SUFFICES ASSUME DescriptorsRight, since = {}
             PROVE  /\ [tables EXCEPT !.refs = Rows!Built.refs] = Rows!Built /\ tables.refs \subseteq Rows!Built.refs
                    /\ \A r \in Rows!Built.refs \ tables.refs :
                         \E domain \in dropped : r.file \in Rows!DomainFiles(domain)
  BY DEF Rows!MetadataIsBuild
<1>1. Suspect = {} /\ Dirs = {}
  BY DEF Suspect, Dirs
<1>2. /\ Sure(tables.own, Rows!Metadata, {}) /\ Sure(tables.syns, Rows!Of({"desc", "role"}), {})
      /\ Sure(tables.templates, Rows!Of({"template"}), {}) /\ Sure(tables.rights, Rows!Of({"rights"}), {})
      /\ Sure(tables.forms, Rows!Canonical, {})
      /\ OfFiles(tables.forms, Rows!Of({"form"})) /\ OfFiles(tables.rights, Rows!Of({"rights"}))
      /\ RefsIn(tables, dropped)
  BY <1>1 DEF DescriptorsRight, TablesRight
<1>3. /\ tables.own = Rows!Rows(Rows!Metadata) /\ tables.syns = Rows!Rows(Rows!Of({"desc", "role"}))
      /\ tables.templates = Rows!Rows(Rows!Of({"template"})) /\ tables.rights = Rows!Rows(Rows!Of({"rights"}))
      /\ tables.forms = Rows!Rows(Rows!Canonical)
  BY <1>2, NothingElse
<1>4. Rows!Rows(Rows!Metadata \cup Rows!Canonical) = Rows!Rows(Rows!Metadata) \cup Rows!Rows(Rows!Canonical)
  BY DEF Rows!Rows
<1>5. Rows!Built.refs = tables.own \cup tables.forms \cup Rows!RoleRefs(tables.rights)
  BY <1>3, <1>4 DEF Rows!Built
<1>6. tables = [own |-> tables.own, refs |-> tables.refs, syns |-> tables.syns,
                forms |-> tables.forms, rights |-> tables.rights, templates |-> tables.templates]
  BY DEF DescriptorsRight, RowsTypes
<1>7. [tables EXCEPT !.refs = Rows!Built.refs] = Rows!Built
  <2>1. PICK b : b = Rows!Built.refs
    OBVIOUS
  <2>2. [tables EXCEPT !.refs = b]
        = [own |-> tables.own, refs |-> b, syns |-> tables.syns,
           forms |-> tables.forms, rights |-> tables.rights, templates |-> tables.templates]
    BY <1>6
  <2>3. QED
    BY <1>3, <2>1, <2>2 DEF Rows!Built
<1>8. tables.refs \subseteq Rows!Built.refs
  BY <1>2, <1>5 DEF RefsIn
<1>9. ASSUME NEW r \in Rows!Built.refs \ tables.refs PROVE \E domain \in dropped : r.file \in Rows!DomainFiles(domain)
  <2>1. CASE r \in tables.forms
    BY <1>2, <1>9, <2>1, FilesOfDomains DEF RefsIn, OfFiles
  <2>2. CASE r \in Rows!RoleRefs(tables.rights)
    BY <1>2, <1>9, <2>2, FilesOfDomains, RoleFiles DEF RefsIn, OfFiles
  <2>3. QED
    BY <1>2, <1>5, <1>9, <2>1, <2>2 DEF RefsIn
<1>10. QED
  BY <1>7, <1>8, <1>9

-----------------------------------------------------------------------------
(***************************************************************************)
(* The whole: a step of Index is one of a part, and leaves the others.     *)
(***************************************************************************)

LEMMA LockStep == [IndexNext]_indexVars => [Next]_vars
  BY DEF IndexNext, indexVars, LockNext, GraphNext, RowsNext, WalkNext, ListNext, AuditNext, GitNext, lockVars

LEMMA LockKept == IndexSpec => []IInv
<1>1. IndexInit => IInv
  BY InitIInv DEF IndexInit
<1>2. IInv /\ [IndexNext]_indexVars => IInv'
  BY Inductive, LockStep
<1>3. QED
  BY <1>1, <1>2, PTL DEF IndexSpec

(* The variables keep their types (record and descriptors of _BuildLock). *)
THEOREM TypeCorrect == IndexSpec => []TypeOK
  BY LockKept, PTL DEF IInv

(* The record, the flock and the thread that builds always agree, and no failed,
   released or killed acquisition leaves a flock behind: acquire and release of
   _BuildLock never lock the index for good. *)
THEOREM RecordIsHonest == IndexSpec => []HeldExactlyByHolder
  BY LockKept, InvariantSuffices, PTL

(* _BuildLock is for the threads of one process the exclusive, reentrant lock that
   ReentrantLock specifies, whatever other processes do. *)
THEOREM ImplementsReentrantLock == IndexSpec => LockOfAProcess
<1>1. IndexInit => \A p \in Procs : PerProcess(p)!Init
  BY DEF IndexInit, Init, PerProcess!Init, CallsOf, ThreadsOf
<1>2. IInv /\ [IndexNext]_indexVars => [\A p \in Procs : [PerProcess(p)!Next]_(CallsOf(p))]_calls
  BY StepRefines, LockStep
<1>3. QED
  BY <1>1, <1>2, LockKept, PTL DEF IndexSpec, LockOfAProcess

LEMMA GitCall == [IndexNext]_indexVars => Git!Next \/ UNCHANGED gitVars
  BY DEF IndexNext, indexVars, LockNext, GraphNext, RowsNext, WalkNext, ListNext, AuditNext, GitNext

(* A call of git (run_git) leaves no process and no file behind, whether it ends,
   fails or is given up, unless the system refuses it more than once, and what it
   read is all that was written. *)
THEOREM GitCallsLeaveNothing == IndexSpec => []GitLeavesNothing
<1>1. IndexInit => GitKept
  BY GitInit DEF IndexInit
<1>2. GitKept /\ [IndexNext]_indexVars => GitKept'
  <2>1. GitKept /\ UNCHANGED gitVars => GitKept'
    BY DEF gitVars, GitKept, GitTypes, TreeOwned, LeftByRefusals
  <2>2. QED
    BY <2>1, GitStep, GitCall
<1>3. GitKept => GitLeavesNothing
  BY GitSuffices DEF GitLeavesNothing
<1>4. QED
  BY <1>1, <1>2, <1>3, PTL DEF IndexSpec

(* The lists of modules that a session makes once and keeps are whole, or say that
   they are not (_ensure_index, _ensure_live_bsl_catalog), however a rebuild of the
   index, the prewarming thread and a timeout meet. *)
THEOREM ListsAreHonest == IndexSpec => []CataloguesHonest
<1> DEFINE Inv == part = "lists" => ListsKept
<1>1. IndexInit => Inv
  BY ListsInit DEF IndexInit
<1>2. Inv /\ [IndexNext]_indexVars => Inv'
  <2>1. [IndexNext]_indexVars => part' = part /\ (part = "lists" => Lists!Next \/ UNCHANGED listVars)
    BY DEF IndexNext, indexVars, LockNext, GraphNext, RowsNext, WalkNext, ListNext, AuditNext, GitNext
  <2>2. QED
    BY <2>1, ListsStep, ListsStutter
<1>3. Inv => CataloguesHonest
  BY ListsSuffice DEF CataloguesHonest
<1>4. QED
  BY <1>1, <1>2, <1>3, PTL DEF IndexSpec

(* An update leaves what a build would, of the rows of calls and of those of
   descriptors (update of IndexBuilder): also in modules it did not read, in tables
   that several domains write, and after interruptions what they allow.  A full scan
   may die at each of its commits; then the only rows an update can miss are the
   references of forms or roles that this scan had dropped. *)
THEOREM RowsAreBuilt == IndexSpec => []UpdateIsBuild
<1> DEFINE OfCalls == part \in DOMAIN graphContentsOf => GraphKept
           OfDescriptors == part \in DOMAIN rowsContentsOf => DescriptorsRight
           Inv == OfCalls /\ OfDescriptors
<1>1. IndexInit => Inv
  BY GraphInit, RowsInit DEF IndexInit
<1>2. OfCalls /\ [IndexNext]_indexVars => OfCalls'
  <2>1. [IndexNext]_indexVars => part' = part /\ (part \in DOMAIN graphContentsOf => Graph!Next \/ UNCHANGED graphVars)
    BY DEF IndexNext, indexVars, LockNext, GraphNext, RowsNext, WalkNext, ListNext, AuditNext, GitNext
  <2>2. QED
    BY <2>1, GraphStep, GraphStutter
<1>3. OfDescriptors /\ [IndexNext]_indexVars => OfDescriptors'
  <2>1. [IndexNext]_indexVars => part' = part /\ (part \in DOMAIN rowsContentsOf => Rows!Next \/ UNCHANGED rowVars)
    BY DEF IndexNext, indexVars, LockNext, GraphNext, RowsNext, WalkNext, ListNext, AuditNext, GitNext
  <2>2. DescriptorsRight /\ part' = part /\ UNCHANGED rowVars => DescriptorsRight'
    BY RowsStutter DEF rowVars
  <2>3. QED
    BY <2>1, <2>2, RowsStep
<1>4. Inv => UpdateIsBuild
  BY GraphSuffices, RowsSuffice DEF UpdateIsBuild
<1>5. QED
  BY <1>1, <1>2, <1>3, <1>4, PTL DEF IndexSpec
=============================================================================
