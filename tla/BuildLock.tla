----------------------------- MODULE BuildLock -----------------------------
(***************************************************************************)
(* _BuildLock (bsl_index.py): the file lock of an index on POSIX, taken by *)
(* threads of several processes.  A process keeps one record of the lock   *)
(* it holds (_active_locks) under a threading lock; between processes only *)
(* flock on the inode that lock_path names at the time excludes.           *)
(***************************************************************************)
EXTENDS Naturals, FiniteSets

CONSTANTS
  Threads,     (* threads that build or update                             *)
  ProcOf,      (* the process of a thread                                  *)
  NoThread,    (* nobody                                                   *)
  MaxDepth,    (* bound on nested acquisitions                             *)
  MaxInodes    (* bound on the lock files ever created                     *)

ASSUME BuildLockAssumption ==
  /\ NoThread \notin Threads
  /\ MaxDepth \in Nat \ {0}
  /\ MaxInodes \in Nat \ {0}

Procs == {ProcOf[t] : t \in Threads}
Inodes == 1..MaxInodes
NoInode == 0

VARIABLES
  linked,   (* the inode lock_path names, or NoInode                       *)
  created,  (* number of lock files created                                *)
  flocked,  (* who holds the flock of an inode                             *)
  mutex,    (* holder of _active_locks_lock in a process                   *)
  owner,    (* _owner_tid of the record in _active_locks                   *)
  depth,    (* its _depth                                                  *)
  fd,       (* its _fd: the inode it has locked                            *)
  pc,       (* where a thread stands in acquire or release                 *)
  tmp,      (* the descriptor it has opened or is about to unlock          *)
  calls     (* its _BuildLock objects whose _acquired is True              *)

fileVars == <<linked, created, flocked>>
recVars == <<owner, depth, fd>>
vars == <<fileVars, mutex, recVars, pc, tmp, calls>>

Pc == {"out", "open", "flock", "held", "unlock", "unlink"}

TypeOK ==
  /\ linked \in Inodes \cup {NoInode} /\ created \in 0..MaxInodes
  /\ flocked \in [Inodes -> Threads \cup {NoThread}]
  /\ mutex \in [Procs -> Threads \cup {NoThread}]
  /\ owner \in [Procs -> Threads \cup {NoThread}]
  /\ depth \in [Procs -> 0..MaxDepth]
  /\ fd \in [Procs -> Inodes \cup {NoInode}]
  /\ pc \in [Threads -> Pc]
  /\ tmp \in [Threads -> Inodes \cup {NoInode}]
  /\ calls \in [Threads -> 0..MaxDepth]

Init ==
  /\ linked = NoInode /\ created = 0
  /\ flocked = [i \in Inodes |-> NoThread]
  /\ mutex = [p \in Procs |-> NoThread]
  /\ owner = [p \in Procs |-> NoThread]
  /\ depth = [p \in Procs |-> 0]
  /\ fd = [p \in Procs |-> NoInode]
  /\ pc = [t \in Threads |-> "out"]
  /\ tmp = [t \in Threads |-> NoInode]
  /\ calls = [t \in Threads |-> 0]

-----------------------------------------------------------------------------
Goto(t, p) == pc' = [pc EXCEPT ![t] = p]

(* with _active_locks_lock: no other thread of the process is inside. *)
Guarded(t) == mutex[ProcOf[t]] = NoThread

Enter(t) == Guarded(t) /\ mutex' = [mutex EXCEPT ![ProcOf[t]] = t]
Leave(t) == mutex' = [mutex EXCEPT ![ProcOf[t]] = NoThread]

(* Mutated form of MayReenter: any thread of the process may. *)
MayReenterAny(t) == owner[ProcOf[t]] # NoThread

(* Reentry is for the thread that holds the lock. *)
MayReenter(t) == owner[ProcOf[t]] = t

(* The process holds no lock yet: open the file, under the threading lock. *)
AcquireBegin(t) ==
  /\ pc[t] = "out"
  /\ owner[ProcOf[t]] = NoThread
  /\ Enter(t)
  /\ Goto(t, "open")
  /\ UNCHANGED <<fileVars, recVars, tmp, calls>>

(* The nested acquire of a recovery build inside an update.  Another thread
   gets RuntimeError, which changes nothing. *)
Reenter(t) ==
  /\ pc[t] = IF owner[ProcOf[t]] = t THEN "held" ELSE "out"
  /\ Guarded(t)
  /\ MayReenter(t) /\ depth[ProcOf[t]] < MaxDepth
  /\ depth' = [depth EXCEPT ![ProcOf[t]] = @ + 1]
  /\ calls' = [calls EXCEPT ![t] = @ + 1]
  /\ Goto(t, "held")
  /\ UNCHANGED <<fileVars, mutex, owner, fd, tmp>>

(* os.open with O_CREAT. *)
Open(t) ==
  /\ pc[t] = "open"
  /\ IF linked # NoInode
     THEN /\ tmp' = [tmp EXCEPT ![t] = linked]
          /\ UNCHANGED <<linked, created>>
     ELSE /\ created < MaxInodes
          /\ created' = created + 1
          /\ linked' = created'
          /\ tmp' = [tmp EXCEPT ![t] = created']
  /\ Goto(t, "flock")
  /\ UNCHANGED <<flocked, mutex, recVars, calls>>

(* The file cannot be opened: OSError goes to the caller. *)
OpenFails(t) ==
  /\ pc[t] = "open"
  /\ Leave(t)
  /\ Goto(t, "out")
  /\ UNCHANGED <<fileVars, recVars, tmp, calls>>

(* Mutated form of FlockFree: a lock that is taken is not noticed. *)
FlockIgnored(i) == TRUE

FlockFree(i) == flocked[i] = NoThread

(* flock without waiting, then the record is registered. *)
FlockOk(t) ==
  /\ pc[t] = "flock"
  /\ FlockFree(tmp[t])
  /\ flocked' = [flocked EXCEPT ![tmp[t]] = t]
  /\ owner' = [owner EXCEPT ![ProcOf[t]] = t]
  /\ depth' = [depth EXCEPT ![ProcOf[t]] = 1]
  /\ fd' = [fd EXCEPT ![ProcOf[t]] = tmp[t]]
  /\ tmp' = [tmp EXCEPT ![t] = NoInode]
  /\ calls' = [calls EXCEPT ![t] = 1]
  /\ Leave(t)
  /\ Goto(t, "held")
  /\ UNCHANGED <<linked, created>>

(* The lock is taken: the descriptor is closed and RuntimeError raised. *)
FlockBusy(t) ==
  /\ pc[t] = "flock"
  /\ ~FlockFree(tmp[t])
  /\ tmp' = [tmp EXCEPT ![t] = NoInode]
  /\ Leave(t)
  /\ Goto(t, "out")
  /\ UNCHANGED <<fileVars, recVars, calls>>

(* _depth - 1 reaches 0 *)
Outermost(p) == depth[p] = 1

Drop(t) == calls' = [calls EXCEPT ![t] = @ - 1]

(* release of a nested acquisition *)
ReleaseNested(t) ==
  /\ pc[t] = "held"
  /\ Guarded(t)
  /\ ~Outermost(ProcOf[t])
  /\ Drop(t)
  /\ depth' = [depth EXCEPT ![ProcOf[t]] = @ - 1]
  /\ UNCHANGED <<fileVars, mutex, owner, fd, pc, tmp>>

(* release at depth 0: the record goes first ... *)
ReleaseBegin(t) ==
  /\ pc[t] = "held"
  /\ Outermost(ProcOf[t])
  /\ Enter(t)
  /\ Drop(t)
  /\ tmp' = [tmp EXCEPT ![t] = fd[ProcOf[t]]]
  /\ owner' = [owner EXCEPT ![ProcOf[t]] = NoThread]
  /\ depth' = [depth EXCEPT ![ProcOf[t]] = 0]
  /\ fd' = [fd EXCEPT ![ProcOf[t]] = NoInode]
  /\ Goto(t, "unlock")
  /\ UNCHANGED fileVars

(* ... then the flock and the descriptor ... *)
Unlock(t) ==
  /\ pc[t] = "unlock"
  /\ flocked' = [flocked EXCEPT ![tmp[t]] = NoThread]
  /\ tmp' = [tmp EXCEPT ![t] = NoInode]
  /\ Goto(t, "unlink")
  /\ UNCHANGED <<linked, created, mutex, recVars, calls>>

(* ... and last the file, whatever lock_path names by now; an error is
   ignored. *)
Unlink(t) ==
  /\ pc[t] = "unlink"
  /\ linked' \in {NoInode, linked}
  /\ Leave(t)
  /\ Goto(t, "out")
  /\ UNCHANGED <<created, flocked, recVars, tmp, calls>>

(* The process dies and is started again: the system drops its locks, the file
   stays. *)
Crash(p) ==
  /\ \E t \in Threads : ProcOf[t] = p /\ pc[t] # "out"
  /\ flocked' = [i \in Inodes |->
       IF flocked[i] # NoThread /\ ProcOf[flocked[i]] = p THEN NoThread ELSE flocked[i]]
  /\ mutex' = [mutex EXCEPT ![p] = NoThread]
  /\ owner' = [owner EXCEPT ![p] = NoThread]
  /\ depth' = [depth EXCEPT ![p] = 0]
  /\ fd' = [fd EXCEPT ![p] = NoInode]
  /\ pc' = [t \in Threads |-> IF ProcOf[t] = p THEN "out" ELSE pc[t]]
  /\ tmp' = [t \in Threads |-> IF ProcOf[t] = p THEN NoInode ELSE tmp[t]]
  /\ calls' = [t \in Threads |-> IF ProcOf[t] = p THEN 0 ELSE calls[t]]
  /\ UNCHANGED <<linked, created>>

Step(t) ==
  \/ AcquireBegin(t) \/ Reenter(t) \/ Open(t) \/ OpenFails(t) \/ FlockOk(t) \/ FlockBusy(t)
  \/ ReleaseNested(t) \/ ReleaseBegin(t) \/ Unlock(t) \/ Unlink(t)

Next == (\E t \in Threads : Step(t)) \/ (\E p \in Procs : Crash(p))

Spec == Init /\ [][Next]_vars

-----------------------------------------------------------------------------
(* Properties *)

(* t is between an acquire and the release of it. *)
Inside(t) == calls[t] > 0

ThreadsOf(p) == {t \in Threads : ProcOf[t] = p}

CallsOf(p) == [t \in ThreadsOf(p) |-> calls[t]]

PerProcess(p) == INSTANCE ReentrantLock WITH Threads <- ThreadsOf(p), depth <- CallsOf(p)

(* Seen from one process the lock is an exclusive, reentrant lock that dies
   with the process, whatever the other processes do. *)
LockOfAProcess ==
  /\ \A p \in Procs : PerProcess(p)!Init
  /\ [][\A p \in Procs : [PerProcess(p)!Next]_(CallsOf(p))]_calls

(* Who is inside is on record and holds the flock of the inode on record to
   itself, and nobody else's flock stays behind: a failed, released or killed
   acquisition never blocks the next build. *)
HeldExactlyByHolder ==
  /\ \A t \in Threads : Inside(t) => owner[ProcOf[t]] = t /\ depth[ProcOf[t]] = calls[t]
  /\ \A t \in Threads : Inside(t) => flocked[fd[ProcOf[t]]] = t
  /\ \A i \in Inodes : flocked[i] # NoThread =>
       \/ Inside(flocked[i]) /\ fd[ProcOf[flocked[i]]] = i
       \/ pc[flocked[i]] = "unlock" /\ tmp[flocked[i]] = i

(* At most one thread of all processes builds the index (class docstring:
   "Exclusive file lock for index build/update"). *)
Exclusive == \A t, u \in Threads : Inside(t) /\ Inside(u) => t = u

=============================================================================
