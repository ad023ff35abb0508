-------------------------- MODULE SessionLifecycle --------------------------
(***************************************************************************)
(* Sessions and the sandbox backends they own: SessionManager              *)
(* (session.py) and the backend registries of server.py, driven by         *)
(* concurrent rlm_start / rlm_execute / rlm_end calls, TTL eviction, the   *)
(* reaper thread and server shutdown.                                      *)
(*                                                                         *)
(* A session id is a fresh uuid and its rlm_start makes at most one        *)
(* backend, so a backend is named by its session id.  A step is one        *)
(* critical section of the manager lock, the registry lock or a backend,   *)
(* or one unlocked call between two of them.                               *)
(***************************************************************************)
EXTENDS Naturals, FiniteSets

CONSTANTS
  Threads,      (* the worker threads that run the tool handlers           *)
  Sids,         (* session ids                                             *)
  NoSid,        (* no session                                              *)
  NoThread,     (* no thread holds the execution lock                      *)
  MaxSessions,  (* SessionManager._max_sessions                            *)
  MaxExec,      (* Session.max_execute_calls                               *)
  MaxEpoch      (* bound on the number of shutdowns explored               *)

ASSUME LifecycleAssumption ==
  /\ NoSid \notin Sids
  /\ NoThread \notin Threads
  /\ MaxSessions \in Nat \ {0}
  /\ MaxExec \in Nat \ {0}
  /\ MaxEpoch \in Nat

VARIABLES
  sessions,   (* keys of SessionManager._sessions                          *)
  used,       (* every session id handed out so far                        *)
  known,      (* ids returned to a client by a successful rlm_start        *)
  execCalls,  (* Session.execute_calls                                     *)
  lock,       (* holder of Session.execution_lock                          *)
  registry,   (* keys of _sandboxes                                        *)
  starting,   (* backends in _starting_sandbox_backends                    *)
  epoch,      (* _sandbox_registry_epoch                                   *)
  accepting,  (* _sandbox_registry_accepting                               *)
  pending,    (* SandboxBackendReaper._pending                             *)
  attempt,    (* the backend whose finish_close the reaper thread calls    *)
  dequeued,   (* the pending backends that are not in its queue            *)
  handle,     (* state of a backend: alive, executing and dead are "open"  *)
  mode,       (* RLM_SANDBOX_MODE                                          *)
  pc, sid,    (* where a handler thread stands, and for which session      *)
  regEpoch,   (* the epoch its rlm_start captured                          *)
  toRelease,  (* ids whose _release_session_resources call it still owes   *)
  rel,        (* inline backend popped from the registry, not yet closed   *)
  phase,      (* progress of _shutdown_all_sandbox_backends                *)
  toRevoke,   (* its snapshot, request_close not yet called                *)
  claimed,    (* its snapshot, finish_close not yet called                 *)
  unfinished  (* its list "unfinished"                                     *)

mgrVars == <<sessions, used, known>>
exeVars == <<execCalls, lock>>
regVars == <<registry, starting, epoch, accepting>>
backVars == <<pending, handle>>
thrVars == <<pc, sid, regEpoch, toRelease, rel>>
shutVars == <<phase, toRevoke, claimed, unfinished>>
restVars == <<mode, attempt, dequeued>>
vars == <<mgrVars, exeVars, regVars, backVars, restVars, thrVars, shutVars>>

HandleState == {"none", "starting", "open", "closing", "closed"}

(* Handler positions.  "st_" is rlm_start, "ex_" rlm_execute, "end_" rlm_end. *)
StartPc == {"st_get", "st_create", "st_spawn", "st_unregister", "st_fail",
            "st_publish", "st_abort", "st_reap", "st_owner", "st_close"}
LockedPc == {"ex_check", "ex_call", "ex_run"}
Pc == {"idle", "st_cleanup", "st_new", "ex_get", "ex_lookup", "ex_lock", "end_pop"}
      \cup StartPc \cup LockedPc
Phase == {"up", "revoke", "finish", "drain", "abort", "abort_pending", "down"}

TypeOK ==
  /\ sessions \subseteq used /\ known \subseteq used /\ used \subseteq Sids
  /\ execCalls \in [Sids -> 0..MaxExec]
  /\ lock \in [Sids -> Threads \cup {NoThread}]
  /\ registry \subseteq Sids /\ starting \subseteq Sids
  /\ epoch \in Nat /\ accepting \in BOOLEAN
  /\ pending \subseteq Sids /\ attempt \in Sids \cup {NoSid} /\ dequeued \subseteq Sids
  /\ handle \in [Sids -> HandleState]
  /\ mode \in {"process", "inline"}
  /\ pc \in [Threads -> Pc]
  /\ sid \in [Threads -> Sids \cup {NoSid}]
  /\ regEpoch \in [Threads -> Nat]
  /\ toRelease \in [Threads -> SUBSET Sids]
  /\ rel \in [Threads -> Sids \cup {NoSid}]
  /\ phase \in Phase
  /\ toRevoke \subseteq Sids /\ claimed \subseteq Sids /\ unfinished \subseteq Sids

Init ==
  /\ sessions = {} /\ used = {} /\ known = {}
  /\ execCalls = [s \in Sids |-> 0]
  /\ lock = [s \in Sids |-> NoThread]
  /\ registry = {} /\ starting = {} /\ epoch = 0 /\ accepting = TRUE
  /\ pending = {} /\ attempt = NoSid /\ dequeued = {}
  /\ handle = [s \in Sids |-> "none"]
  /\ mode \in {"process", "inline"}
  /\ pc = [t \in Threads |-> "idle"]
  /\ sid = [t \in Threads |-> NoSid]
  /\ regEpoch = [t \in Threads |-> 0]
  /\ toRelease = [t \in Threads |-> {}]
  /\ rel = [t \in Threads |-> NoSid]
  /\ phase = "up" /\ toRevoke = {} /\ claimed = {} /\ unfinished = {}

-----------------------------------------------------------------------------
(* Helpers *)

(* Mutated form of Revoked: the revoke is lost. *)
RevokedLost(s) == handle

(* backend.request_close: an idempotent, non-blocking revoke. *)
Revoked(s) == [handle EXCEPT ![s] = IF @ \in {"starting", "open"} THEN "closing" ELSE @]

Closed(s) == [handle EXCEPT ![s] = "closed"]

(* SandboxBackendReaper.enqueue: a backend that is already pending is not
   queued twice. *)
Enqueue(s) == pending \cup {s}

(* The handler of t is at position p and owes no release call. *)
At(t, p) ==
  /\ pc[t] = p
  /\ toRelease[t] = {}
  /\ rel[t] = NoSid

Goto(t, p) == pc' = [pc EXCEPT ![t] = p]

(* SessionManager._cleanup_expired_locked inside a critical section of the
   manager: E is what the clock made expire, and every id of it is handed to
   on_evict after the lock is released. *)
Evict(t, E) == toRelease' = [toRelease EXCEPT ![t] = E]

(* The executing thread, if any, is inside backend.execute of s. *)
Running(s) == \E t \in Threads : pc[t] = "ex_run" /\ sid[t] = s

-----------------------------------------------------------------------------
(* rlm_start *)

(* Bound of the model: a call that will need a fresh id finds one in Sids. *)
FreshIdLeft ==
  Cardinality({u \in Threads : pc[u] \in {"st_cleanup", "st_new"}}) < Cardinality(Sids \ used)

(* Refuse while shutting down; otherwise remember the epoch. *)
StartBegin(t) ==
  /\ At(t, "idle")
  /\ FreshIdLeft
  /\ accepting
  /\ regEpoch' = [regEpoch EXCEPT ![t] = epoch]
  /\ Goto(t, "st_cleanup")
  /\ UNCHANGED <<mgrVars, exeVars, regVars, backVars, restVars, sid, toRelease, rel, shutVars>>

StartCleanup(t) ==
  /\ At(t, "st_cleanup")
  /\ \E E \in SUBSET sessions :
       /\ sessions' = sessions \ E
       /\ Evict(t, E)
  /\ \/ Goto(t, "st_new")
     \/ Goto(t, "idle")        \* a rejected argument or path: an error is returned
  /\ UNCHANGED <<used, known, exeVars, regVars, backVars, restVars, sid, regEpoch, rel, shutVars>>

(* SessionManager.create: evict, then insert unless at capacity.  on_evict
   fires for E in both cases. *)
AtCapacity(live) == Cardinality(live) >= MaxSessions

CreateSession(t) ==
  /\ At(t, "st_new")
  /\ \E E \in SUBSET sessions :
       /\ Evict(t, E)
       /\ \/ /\ AtCapacity(sessions \ E)
             /\ sessions' = sessions \ E
             /\ Goto(t, "idle")
             /\ UNCHANGED <<used, sid>>
          \/ /\ ~AtCapacity(sessions \ E)
             /\ \E s \in Sids \ used :
                  /\ sessions' = (sessions \ E) \cup {s}
                  /\ used' = used \cup {s}
                  /\ sid' = [sid EXCEPT ![t] = s]
             /\ Goto(t, "st_get")
  /\ UNCHANGED <<known, exeVars, regVars, backVars, restVars, regEpoch, rel, shutVars>>

(* session_manager.get right after create; the session may be gone already. *)
StartGet(t) ==
  /\ At(t, "st_get")
  /\ \E E \in SUBSET sessions :
       /\ sessions' = sessions \ E
       /\ Evict(t, E)
       /\ Goto(t, IF sid[t] \in sessions \ E THEN "st_create" ELSE "idle")
  /\ UNCHANGED <<used, known, exeVars, regVars, backVars, restVars, sid, regEpoch, rel, shutVars>>

(* An exception before any backend exists. *)
StartFailEarly(t) ==
  /\ At(t, "st_create")
  /\ Goto(t, "st_fail")
  /\ UNCHANGED <<mgrVars, exeVars, regVars, backVars, restVars, sid, regEpoch, toRelease, rel, shutVars>>

(* Mutated form of MayTrack: the captured epoch is ignored. *)
MayTrackAnyEpoch(t) == accepting

(* The condition of _track_starting_backend and of the publication: shutdown
   has not crossed this rlm_start. *)
MayTrack(t) == accepting /\ regEpoch[t] = epoch

(* The constructor registers itself before it spawns a worker; a refused
   registration leaves a closed backend and raises. *)
RegisterBackend(t) ==
  /\ At(t, "st_create")
  /\ mode = "process"
  /\ \/ /\ MayTrack(t)
        /\ starting' = starting \cup {sid[t]}
        /\ handle' = [handle EXCEPT ![sid[t]] = "starting"]
        /\ Goto(t, "st_spawn")
     \/ /\ ~MayTrack(t)
        /\ handle' = Closed(sid[t])
        /\ Goto(t, "st_fail")
        /\ UNCHANGED starting
  /\ UNCHANGED <<mgrVars, exeVars, registry, epoch, accepting, pending, restVars,
                 sid, regEpoch, toRelease, rel, shutVars>>

(* The worker answered init_ok and nobody revoked the backend meanwhile. *)
InitOk(t) ==
  /\ At(t, "st_spawn")
  /\ handle[sid[t]] = "starting"
  /\ handle' = [handle EXCEPT ![sid[t]] = "open"]
  /\ Goto(t, "st_publish")
  /\ UNCHANGED <<mgrVars, exeVars, regVars, pending, restVars, sid, regEpoch, toRelease, rel, shutVars>>

(* The constructor raises: a revoke was seen and the new generation destroyed,
   or the start failed. *)
InitFails(t) ==
  /\ At(t, "st_spawn")
  /\ \/ /\ handle[sid[t]] \in {"closing", "closed"}
        /\ handle' = Closed(sid[t])
     \/ UNCHANGED handle
  /\ Goto(t, "st_unregister")
  /\ UNCHANGED <<mgrVars, exeVars, regVars, pending, restVars, sid, regEpoch, toRelease, rel, shutVars>>

(* _reap_failed_starting_backend, under the registry lock: take the backend
   out of the startup registry, revoke it and hand it to the reaper.  When the
   entry is gone a shutdown has claimed the backend. *)
ReapFailed(s) ==
  \/ /\ s \in starting
     /\ starting' = starting \ {s}
     /\ handle' = Revoked(s)
     /\ pending' = Enqueue(s)
  \/ /\ s \notin starting
     /\ UNCHANGED <<starting, handle, pending>>

(* startup_unregister, called by the failing constructor. *)
Unregister(t) ==
  /\ At(t, "st_unregister")
  /\ ReapFailed(sid[t])
  /\ Goto(t, "st_fail")
  /\ UNCHANGED <<mgrVars, exeVars, registry, epoch, accepting, restVars, sid, regEpoch,
                 toRelease, rel, shutVars>>

(* except path of rlm_start with no backend: only the session is removed. *)
StartFail(t) ==
  /\ At(t, "st_fail")
  /\ sessions' = sessions \ {sid[t]}
  /\ Goto(t, "idle")
  /\ UNCHANGED <<used, known, exeVars, regVars, backVars, restVars, sid, regEpoch, toRelease, rel, shutVars>>

(* Inline mode: the backend is a plain object of this process. *)
CreateInline(t) ==
  /\ At(t, "st_create")
  /\ mode = "inline"
  /\ handle' = [handle EXCEPT ![sid[t]] = "open"]
  /\ Goto(t, "st_publish")
  /\ UNCHANGED <<mgrVars, exeVars, regVars, pending, restVars, sid, regEpoch, toRelease, rel, shutVars>>

(* Mutated form of StillCurrent: publication without the identity check. *)
PublishUnchecked(s) == TRUE

(* SessionManager._run_if_current: the session object of s is still registered. *)
StillCurrent(s) == s \in sessions

(* Mutated form of StartupAfterPublish: the entry is dropped in every case. *)
StartupDropped(s) == starting \ {s}

(* The startup entry is given up only inside the callback: when the session is
   gone the entry stays for the failure path. *)
StartupAfterPublish(s) == IF StillCurrent(s) THEN starting \ {s} ELSE starting

(* _publish_session_backend: the registry section runs inside the manager lock
   (_run_if_current), and only for a session that is still there. *)
Publish(t) ==
  /\ At(t, "st_publish")
  /\ starting' = StartupAfterPublish(sid[t])
  /\ \/ /\ StillCurrent(sid[t]) /\ MayTrack(t)
        /\ registry' = registry \cup {sid[t]}
        /\ known' = known \cup {sid[t]}
        /\ Goto(t, "idle")
     \/ /\ ~(StillCurrent(sid[t]) /\ MayTrack(t))
        /\ Goto(t, "st_abort")
        /\ UNCHANGED <<registry, known>>
  /\ UNCHANGED <<sessions, used, exeVars, epoch, accepting, backVars, restVars, sid,
                 regEpoch, toRelease, rel, shutVars>>

(* Any other exception once the backend exists. *)
StartFailLate(t) ==
  /\ At(t, "st_publish")
  /\ Goto(t, "st_abort")
  /\ UNCHANGED <<mgrVars, exeVars, regVars, backVars, restVars, sid, regEpoch, toRelease, rel, shutVars>>

(* except path with a backend: drop the session ... *)
StartAbort(t) ==
  /\ At(t, "st_abort")
  /\ sessions' = sessions \ {sid[t]}
  /\ Goto(t, IF mode = "process" THEN "st_reap" ELSE "st_close")
  /\ UNCHANGED <<used, known, exeVars, regVars, backVars, restVars, sid, regEpoch, toRelease, rel, shutVars>>

(* ... hand a process backend to the reaper if it is still in the startup
   registry ... *)
AbortReap(t) ==
  /\ At(t, "st_reap")
  /\ ReapFailed(sid[t])
  /\ Goto(t, IF sid[t] \in starting THEN "idle" ELSE "st_owner")
  /\ UNCHANGED <<mgrVars, exeVars, registry, epoch, accepting, restVars, sid, regEpoch,
                 toRelease, rel, shutVars>>

(* ... leave it to a shutdown that claimed it ... *)
AbortOwner(t) ==
  /\ At(t, "st_owner")
  /\ Goto(t, IF accepting THEN "st_close" ELSE "idle")
  /\ UNCHANGED <<mgrVars, exeVars, regVars, backVars, restVars, sid, regEpoch, toRelease, rel, shutVars>>

(* ... or close it here, a residual going to the reaper. *)
AbortClose(t) ==
  /\ At(t, "st_close")
  /\ starting' = starting \ {sid[t]}
  /\ \/ /\ handle' = Closed(sid[t])
        /\ UNCHANGED pending
     \/ /\ handle' = Revoked(sid[t])
        /\ pending' = Enqueue(sid[t])
  /\ Goto(t, "idle")
  /\ UNCHANGED <<mgrVars, exeVars, registry, epoch, accepting, restVars, sid, regEpoch,
                 toRelease, rel, shutVars>>

-----------------------------------------------------------------------------
(* rlm_execute *)

(* The id may be one this server never issued. *)
ExecBegin(t) ==
  /\ At(t, "idle")
  /\ \E s \in known \cup {NoSid} : sid' = [sid EXCEPT ![t] = s]
  /\ \E E \in SUBSET sessions :
       /\ sessions' = sessions \ E
       /\ Evict(t, E)
  /\ Goto(t, "ex_get")
  /\ UNCHANGED <<used, known, exeVars, regVars, backVars, restVars, regEpoch, rel, shutVars>>

ExecGet(t) ==
  /\ At(t, "ex_get")
  /\ \E E \in SUBSET sessions :
       /\ sessions' = sessions \ E
       /\ Evict(t, E)
       /\ Goto(t, IF sid[t] \in sessions \ E THEN "ex_lookup" ELSE "idle")
  /\ UNCHANGED <<used, known, exeVars, regVars, backVars, restVars, sid, regEpoch, rel, shutVars>>

ExecLookup(t) ==
  /\ At(t, "ex_lookup")
  /\ Goto(t, IF sid[t] \in registry THEN "ex_lock" ELSE "idle")
  /\ UNCHANGED <<mgrVars, exeVars, regVars, backVars, restVars, sid, regEpoch, toRelease, rel, shutVars>>

(* Mutated form of LockFree: the execution lock does not exclude. *)
LockIgnored(s) == TRUE

LockFree(s) == lock[s] = NoThread

(* with session.execution_lock *)
ExecLock(t) ==
  /\ At(t, "ex_lock")
  /\ LockFree(sid[t])
  /\ lock' = [lock EXCEPT ![sid[t]] = t]
  /\ Goto(t, "ex_check")
  /\ UNCHANGED <<mgrVars, execCalls, regVars, backVars, restVars, sid, regEpoch, toRelease, rel, shutVars>>

Unlock(t) ==
  /\ lock' = [lock EXCEPT ![sid[t]] = NoThread]
  /\ Goto(t, "idle")

(* Mutated form of MayExecute: the call counter is compared with <=. *)
MayExecuteOneMore(s) == s \in sessions \cap registry /\ execCalls[s] <= MaxExec

(* _session_backend_is_current after the wait for the lock, then the limit on
   execute calls. *)
MayExecute(s) == s \in sessions \cap registry /\ execCalls[s] < MaxExec

ExecCheck(t) ==
  /\ At(t, "ex_check")
  /\ IF MayExecute(sid[t])
     THEN /\ execCalls' = [execCalls EXCEPT ![sid[t]] = @ + 1]
          /\ Goto(t, "ex_call")
          /\ UNCHANGED lock
     ELSE /\ Unlock(t)
          /\ UNCHANGED execCalls
  /\ UNCHANGED <<mgrVars, regVars, backVars, restVars, sid, regEpoch, toRelease, rel, shutVars>>

(* backend.execute: runs code, or raises SandboxClosedError. *)
ExecCall(t) ==
  /\ At(t, "ex_call")
  /\ \/ /\ handle[sid[t]] = "open"
        /\ Goto(t, "ex_run")
        /\ UNCHANGED lock
     \/ /\ handle[sid[t]] # "open"
        /\ Unlock(t)
  /\ UNCHANGED <<mgrVars, execCalls, regVars, backVars, restVars, sid, regEpoch, toRelease, rel, shutVars>>

ExecReturn(t) ==
  /\ At(t, "ex_run")
  /\ Unlock(t)
  /\ UNCHANGED <<mgrVars, execCalls, regVars, backVars, restVars, sid, regEpoch, toRelease, rel, shutVars>>

-----------------------------------------------------------------------------
(* rlm_end and _release_session_resources *)

EndBegin(t) ==
  /\ At(t, "idle")
  /\ \E s \in known : sid' = [sid EXCEPT ![t] = s]
  /\ \E E \in SUBSET sessions :
       /\ sessions' = sessions \ E
       /\ Evict(t, E)
  /\ Goto(t, "end_pop")
  /\ UNCHANGED <<used, known, exeVars, regVars, backVars, restVars, regEpoch, rel, shutVars>>

(* session_manager.end; the release of its resources is owed. *)
EndPop(t) ==
  /\ At(t, "end_pop")
  /\ sessions' = sessions \ {sid[t]}
  /\ Evict(t, {sid[t]})
  /\ Goto(t, "idle")
  /\ UNCHANGED <<used, known, exeVars, regVars, backVars, restVars, sid, regEpoch, rel, shutVars>>

(* _release_session_resources under the registry lock: a process backend is
   revoked and handed to the reaper before the lock is released. *)
Release(t) ==
  /\ rel[t] = NoSid
  /\ \E s \in toRelease[t] :
       /\ toRelease' = [toRelease EXCEPT ![t] = @ \ {s}]
       /\ registry' = registry \ {s}
       /\ \/ /\ s \in registry /\ mode = "process"
             /\ handle' = Revoked(s)
             /\ pending' = Enqueue(s)
             /\ UNCHANGED rel
          \/ /\ s \in registry /\ mode = "inline"
             /\ rel' = [rel EXCEPT ![t] = s]
             /\ UNCHANGED <<handle, pending>>
          \/ /\ s \notin registry
             /\ UNCHANGED <<handle, pending, rel>>
  /\ UNCHANGED <<mgrVars, exeVars, starting, epoch, accepting, restVars, pc, sid, regEpoch, shutVars>>

(* Its second half for an inline backend, outside the lock: request_close,
   a bounded finish_close, and the reaper for what is left. *)
ReleaseInline(t) ==
  /\ rel[t] # NoSid
  /\ rel' = [rel EXCEPT ![t] = NoSid]
  /\ \/ /\ ~Running(rel[t])
        /\ handle' = Closed(rel[t])
        /\ UNCHANGED pending
     \/ /\ handle' = Revoked(rel[t])
        /\ pending' = Enqueue(rel[t])
  /\ UNCHANGED <<mgrVars, exeVars, regVars, restVars, pc, sid, regEpoch, toRelease, shutVars>>

-----------------------------------------------------------------------------
(* The reaper thread: one attempt of finish_close at a time.  What a shutdown took
   from pending stays queued, and closing it again changes nothing: left out. *)
ReapTake(s) ==
  /\ attempt = NoSid /\ s \in pending \ dequeued
  /\ attempt' = s /\ dequeued' = dequeued \cup {s}
  /\ UNCHANGED <<mgrVars, exeVars, regVars, backVars, mode, thrVars, shutVars>>

Reap(s) ==
  /\ attempt = s
  /\ attempt' = NoSid /\ dequeued' = dequeued \ {s}
  /\ pending' = pending \ {s}
  /\ handle' = Closed(s)
  /\ UNCHANGED <<mgrVars, exeVars, regVars, mode, thrVars, shutVars>>

(* Mutated form of Requeued: the backend stays pending, and nobody tries again. *)
RequeueForgotten(s) == dequeued

Requeued(s) == dequeued \ {s}

(* The attempt failed or left a residual: it is tried again later. *)
ReapResidual(s) ==
  /\ attempt = s
  /\ attempt' = NoSid /\ dequeued' = Requeued(s)
  /\ UNCHANGED <<mgrVars, exeVars, regVars, backVars, mode, thrVars, shutVars>>

-----------------------------------------------------------------------------
(* _shutdown_all_sandbox_backends *)

ShutdownBegin ==
  /\ phase = "up"
  /\ epoch < MaxEpoch
  /\ accepting' = FALSE
  /\ epoch' = epoch + 1
  /\ toRevoke' = registry \cup starting
  /\ claimed' = registry \cup starting
  /\ registry' = {}
  /\ starting' = {}
  /\ unfinished' = {}
  /\ phase' = "revoke"
  /\ UNCHANGED <<mgrVars, exeVars, backVars, restVars, thrVars>>

ShutdownRevoke ==
  /\ phase = "revoke"
  /\ \/ \E s \in toRevoke :
          /\ handle' = Revoked(s)
          /\ toRevoke' = toRevoke \ {s}
          /\ UNCHANGED phase
     \/ /\ toRevoke = {}
        /\ phase' = "finish"
        /\ UNCHANGED <<handle, toRevoke>>
  /\ UNCHANGED <<mgrVars, exeVars, regVars, pending, restVars, thrVars, claimed, unfinished>>

(* finish_close of each backend until the common deadline. *)
ShutdownFinish ==
  /\ phase = "finish"
  /\ \/ \E s \in claimed :
          /\ claimed' = claimed \ {s}
          /\ \/ handle' = Closed(s) /\ UNCHANGED unfinished
             \/ unfinished' = unfinished \cup {s} /\ UNCHANGED handle
          /\ UNCHANGED phase
     \/ /\ unfinished' = unfinished \cup claimed    \* all done, or the deadline
        /\ claimed' = {}
        /\ phase' = "drain"
        /\ UNCHANGED handle
  /\ UNCHANGED <<mgrVars, exeVars, regVars, pending, restVars, thrVars, toRevoke>>

(* _reaper.drain(deadline) returns. *)
ShutdownDrain ==
  /\ phase = "drain"
  /\ phase' = "abort"
  /\ UNCHANGED <<mgrVars, exeVars, regVars, backVars, restVars, thrVars, toRevoke, claimed, unfinished>>

(* force_abort of the rest; what it cannot confirm goes to the reaper. *)
ShutdownAbort ==
  /\ phase = "abort"
  /\ \/ \E s \in unfinished :
          /\ unfinished' = unfinished \ {s}
          /\ \/ handle' = Closed(s) /\ UNCHANGED pending
             \/ pending' = Enqueue(s) /\ UNCHANGED handle
          /\ UNCHANGED phase
     \/ /\ unfinished = {}
        /\ phase' = "abort_pending"
        /\ UNCHANGED <<handle, pending, unfinished>>
  /\ UNCHANGED <<mgrVars, exeVars, regVars, restVars, thrVars, toRevoke, claimed>>

(* _reaper.force_abort_pending: the confirmed ones leave the reaper. *)
ShutdownAbortPending ==
  /\ phase = "abort_pending"
  /\ \E C \in SUBSET pending :
       /\ pending' = pending \ C
       /\ handle' = [s \in Sids |-> IF s \in C THEN "closed" ELSE handle[s]]
  /\ phase' = "down"
  /\ UNCHANGED <<mgrVars, exeVars, regVars, restVars, thrVars, toRevoke, claimed, unfinished>>

(* _begin_sandbox_backend_lifecycle: the server is invoked again in the same
   process; the epoch is not reset. *)
BeginLifecycle ==
  /\ phase = "down"
  /\ accepting' = TRUE
  /\ phase' = "up"
  /\ UNCHANGED <<mgrVars, exeVars, registry, starting, epoch, backVars, restVars, thrVars,
                 toRevoke, claimed, unfinished>>

-----------------------------------------------------------------------------
StartStep(t) ==
  \/ StartCleanup(t) \/ CreateSession(t) \/ StartGet(t) \/ StartFailEarly(t)
  \/ RegisterBackend(t) \/ InitOk(t) \/ InitFails(t) \/ Unregister(t) \/ StartFail(t)
  \/ CreateInline(t) \/ Publish(t) \/ StartFailLate(t) \/ StartAbort(t)
  \/ AbortReap(t) \/ AbortOwner(t) \/ AbortClose(t)

ExecStep(t) ==
  \/ ExecGet(t) \/ ExecLookup(t) \/ ExecLock(t) \/ ExecCheck(t) \/ ExecCall(t) \/ ExecReturn(t)

(* The steps of a handler that has been called. *)
HandlerStep(t) ==
  \/ StartStep(t) \/ ExecStep(t) \/ EndPop(t) \/ Release(t) \/ ReleaseInline(t)

(* The arrival of a call. *)
ClientStep(t) == StartBegin(t) \/ ExecBegin(t) \/ EndBegin(t)

ReaperStep(s) == ReapTake(s) \/ Reap(s) \/ ReapResidual(s)

ShutdownStep ==
  \/ ShutdownRevoke \/ ShutdownFinish \/ ShutdownDrain \/ ShutdownAbort \/ ShutdownAbortPending

Next ==
  \/ \E t \in Threads : ClientStep(t) \/ HandlerStep(t)
  \/ \E s \in Sids : ReaperStep(s)
  \/ ShutdownBegin \/ ShutdownStep \/ BeginLifecycle

Spec == Init /\ [][Next]_vars

(* A called handler is a running thread; the reaper thread takes what is due in
   its order, every attempt ends, and the operating system lets some attempt
   succeed; a shutdown that began runs to its end.  No client is obliged to call. *)
Fairness ==
  /\ \A t \in Threads : WF_vars(HandlerStep(t))
  /\ \A s \in Sids : SF_vars(ReapTake(s)) /\ WF_vars(Reap(s) \/ ReapResidual(s)) /\ SF_vars(Reap(s))
  /\ WF_vars(ShutdownStep)

FairSpec == Spec /\ Fairness

-----------------------------------------------------------------------------
(* Properties *)

LiveHandle == {"starting", "open", "closing"}

(* t is the only one that can still close the backend of s: rlm_start holds it
   in a local variable (inline mode, or its own bounded close), or a release
   has popped it. *)
Holds(t, s) ==
  \/ rel[t] = s
  \/ sid[t] = s /\ pc[t] = "st_close"
  \/ sid[t] = s /\ mode = "inline" /\ pc[t] \in {"st_publish", "st_abort"}

Owned(s) ==
  \/ s \in starting \cup registry \cup pending \cup claimed \cup unfinished
  \/ \E t \in Threads : Holds(t, s)

(* Lifecycle ownership is continuous: a backend that is not closed is, at every
   moment, in a registry, with the reaper, in a shutdown's snapshot, or held by
   the thread that will close it.  (The comments of _release_session_resources
   and _reap_failed_starting_backend promise this.) *)
LifecycleOwned == \A s \in Sids : handle[s] \in LiveHandle => Owned(s)

(* A published backend whose session is gone is about to be released by the
   thread that evicted or ended the session: no registration outlives its
   session unnoticed. *)
NoZombieBackend ==
  \A s \in registry \ sessions : \E t \in Threads : s \in toRelease[t]

(* Once shutdown has taken its snapshot nothing is published or tracked behind
   its back, and what is being started belongs to the present epoch even when
   registration is opened again. *)
EpochFence ==
  /\ ~accepting => registry = {} /\ starting = {}
  /\ \A t \in Threads :
       pc[t] \in StartPc /\ sid[t] \in starting => regEpoch[t] = epoch

(* Two execute calls of one session never overlap, and the lock is held by
   exactly the thread that is past it. *)
ExclusiveExecution ==
  \A t \in Threads : pc[t] \in LockedPc => lock[sid[t]] = t

(* A backend enters the registry only while it can still serve: its session is
   registered and nobody has revoked it. *)
PublishedIsServable ==
  [][\A s \in registry' \ registry : s \in sessions' /\ handle[s] = "open"]_vars

(* Nothing is left to do for s: its session is gone, its backend has left the
   registry and every release of it has returned. *)
Released(s) ==
  /\ s \in known \ (sessions \cup registry \cup toRevoke)
  /\ \A t \in Threads : s \notin toRelease[t] /\ rel[t] # s

(* Once rlm_end or an eviction of a session has returned, no execute call that
   was already past its checks starts running code in the session's backend. *)
ReleasedNeverRuns ==
  [][\A t \in Threads : pc[t] # "ex_run" /\ pc'[t] = "ex_run" => ~Released(sid[t])]_vars

(* Every backend of a session that expired, ended or failed to start is
   eventually closed. *)
EventuallyReclaimed ==
  \A s \in Sids : (s \in used \ sessions) ~> (handle[s] \in {"none", "closed"})

=============================================================================
