----------------------- MODULE SessionLifecycleProofs -----------------------
(***************************************************************************)
(* Proofs about SessionLifecycle, for any set of threads and session ids   *)
(* and any number of shutdowns: its safety invariants and its action       *)
(* properties PublishedIsServable and ReleasedNeverRuns.  The inductive    *)
(* invariant is IInv; what it adds to the properties is the bookkeeping    *)
(* they rest on: fresh session ids (Ids, ListsUsed), the phases and the    *)
(* epochs of a shutdown (ShutdownLists, PhaseOrder, EpochOrder), and what  *)
(* a published handle looks like (PublishReady, KnownHandles).             *)
(***************************************************************************)
EXTENDS SessionLifecycle, TLAPS

(* A running rlm_start works on an id it got from create and that no client has
   been told yet. *)
StartIds ==
  \A t \in Threads :
    pc[t] \in StartPc => sid[t] \in used /\ sid[t] \notin known

(* No two of them work on the same id. *)
StartUnique ==
  \A t, u \in Threads :
    pc[t] \in StartPc /\ pc[u] \in StartPc /\ sid[t] = sid[u] => t = u

(* A call that got past session_manager.get has a session id. *)
CallIds ==
  \A t \in Threads :
    pc[t] \in {"ex_lookup", "ex_lock", "end_pop"} \cup LockedPc => sid[t] \in Sids

Ids ==
  /\ StartIds /\ StartUnique /\ CallIds
  /\ registry \subseteq known
  /\ starting \subseteq used

(* The lists of a shutdown are local to it: nothing is left in them when the
   next one takes its snapshot. *)
ShutdownLists ==
  /\ phase \notin {"revoke", "finish"} => claimed = {}
  /\ phase \notin {"finish", "drain", "abort"} => unfinished = {}

(* Registration is open exactly between shutdowns. *)
PhaseOrder ==
  /\ accepting <=> phase = "up"
  /\ phase # "revoke" => toRevoke = {}

(* The epoch a rlm_start captured is never ahead, and a shutdown puts every
   captured epoch behind. *)
EpochOrder ==
  \A t \in Threads :
    regEpoch[t] <= epoch /\ (phase # "up" => regEpoch[t] < epoch)

(* What waits to be closed was handed out before: a fresh id is in no list, and
   the reaper does not work on it. *)
ListsUsed ==
  /\ pending \cup claimed \cup unfinished \subseteq used
  /\ attempt # NoSid => attempt \in used

(* While no shutdown has crossed a rlm_start, nobody has revoked its backend. *)
PublishReady ==
  \A t \in Threads :
    pc[t] \in {"st_get", "st_create", "st_spawn", "st_publish"} /\ phase = "up" /\ regEpoch[t] = epoch
      => /\ sid[t] \notin pending \cup {attempt}
         /\ pc[t] = "st_publish" => handle[sid[t]] = "open"

(* A backend that a client knows of and that can still run code is registered,
   in the snapshot of a shutdown that is about to revoke it, or held by a
   release that is about to. *)
KnownHandles ==
  /\ \A t \in Threads : rel[t] # NoSid => rel[t] \in known
  /\ \A s \in known : handle[s] \in {"open", "closing", "closed"}
  /\ \A s \in known :
       \/ s \in registry \cup toRevoke
       \/ \E t \in Threads : rel[t] = s
       \/ handle[s] \in {"closing", "closed"}

IInv ==
  /\ TypeOK /\ Ids /\ ShutdownLists /\ PhaseOrder /\ EpochOrder
  /\ EpochFence /\ ListsUsed /\ PublishReady /\ KnownHandles
  /\ LifecycleOwned /\ NoZombieBackend /\ ExclusiveExecution

(* Whoever starts running code finds the backend open. *)
RunsInOpen ==
  \A t \in Threads : pc[t] # "ex_run" /\ pc'[t] = "ex_run" => handle[sid[t]] = "open"

(* Every step keeps the variables in their types. *)
LEMMA TypeStep ==
  ASSUME IInv, [Next]_vars
  PROVE  TypeOK'
<1> USE DEF mgrVars, exeVars, regVars, backVars, restVars, thrVars, shutVars, IInv,
            TypeOK, Ids, StartIds, CallIds, StartPc, LockedPc, Pc, Phase,
            HandleState
<1>1. ASSUME NEW t \in Threads,
             StartBegin(t) \/ StartFailEarly(t) \/ StartFailLate(t) \/
             AbortOwner(t)
      PROVE  TypeOK'
  BY <1>1 DEF StartBegin, StartFailEarly, StartFailLate, AbortOwner, At, Goto
<1>2. ASSUME NEW t \in Threads,
             StartFail(t) \/ StartAbort(t)
      PROVE  TypeOK'
  BY <1>2 DEF StartFail, StartAbort, At, Goto
<1>3. ASSUME NEW t \in Threads,
             StartCleanup(t) \/ ExecBegin(t) \/ EndBegin(t) \/
             EndPop(t)
      PROVE  TypeOK'
  BY <1>3 DEF StartCleanup, ExecBegin, EndBegin, EndPop, Evict, At, Goto
<1>4. ASSUME NEW t \in Threads, CreateSession(t) PROVE TypeOK'
  BY <1>4 DEF CreateSession, Evict, At, Goto
<1>5. ASSUME NEW t \in Threads, StartGet(t) PROVE TypeOK'
  BY <1>5 DEF StartGet, Evict, At, Goto
<1>6. ASSUME NEW t \in Threads, RegisterBackend(t) PROVE TypeOK'
  BY <1>6 DEF RegisterBackend, MayTrack, Closed, At, Goto
<1>7. ASSUME NEW t \in Threads, InitOk(t) PROVE TypeOK'
  BY <1>7 DEF InitOk, At, Goto
<1>8. ASSUME NEW t \in Threads, InitFails(t) PROVE TypeOK'
  BY <1>8 DEF InitFails, Closed, At, Goto
<1>9. ASSUME NEW t \in Threads, Unregister(t) PROVE TypeOK'
  BY <1>9 DEF Unregister, ReapFailed, Revoked, Enqueue, At, Goto
<1>10. ASSUME NEW t \in Threads, CreateInline(t) PROVE TypeOK'
  BY <1>10 DEF CreateInline, At, Goto
<1>11. ASSUME NEW t \in Threads, Publish(t) PROVE TypeOK'
  BY <1>11 DEF Publish, StartupAfterPublish, StillCurrent, MayTrack, At, Goto
<1>12. ASSUME NEW t \in Threads, AbortReap(t) PROVE TypeOK'
  BY <1>12 DEF AbortReap, ReapFailed, Revoked, Enqueue, At, Goto
<1>13. ASSUME NEW t \in Threads, AbortClose(t) PROVE TypeOK'
  BY <1>13 DEF AbortClose, Closed, Revoked, Enqueue, At, Goto
<1>14. ASSUME NEW t \in Threads, ExecGet(t) PROVE TypeOK'
  BY <1>14 DEF ExecGet, Evict, At, Goto
<1>15. ASSUME NEW t \in Threads, ExecLookup(t) PROVE TypeOK'
  BY <1>15 DEF ExecLookup, At, Goto
<1>16. ASSUME NEW t \in Threads, ExecLock(t) PROVE TypeOK'
  BY <1>16 DEF ExecLock, LockFree, At, Goto
<1>17. ASSUME NEW t \in Threads, ExecCheck(t) PROVE TypeOK'
  BY <1>17, LifecycleAssumption DEF ExecCheck, MayExecute, Unlock, At, Goto
<1>18. ASSUME NEW t \in Threads, ExecCall(t) PROVE TypeOK'
  BY <1>18 DEF ExecCall, Unlock, At, Goto
<1>19. ASSUME NEW t \in Threads, ExecReturn(t) PROVE TypeOK'
  BY <1>19 DEF ExecReturn, Unlock, At, Goto
<1>20. ASSUME NEW t \in Threads, Release(t) PROVE TypeOK'
  BY <1>20 DEF Release, Revoked, Enqueue
<1>21. ASSUME NEW t \in Threads, ReleaseInline(t) PROVE TypeOK'
  BY <1>21 DEF ReleaseInline, Closed, Revoked, Enqueue, Running
<1>22. ASSUME NEW s \in Sids, ReaperStep(s) PROVE TypeOK'
  BY <1>22 DEF ReaperStep, ReapTake, Reap, ReapResidual, Requeued, Closed
<1>23. CASE ShutdownBegin
  <2>1. epoch' \in Nat /\ phase' \in Phase
    BY <1>23 DEF ShutdownBegin
  <2>2. accepting' \in BOOLEAN
    BY <1>23, Zenon DEF ShutdownBegin
  <2>3. registry' \subseteq Sids /\ starting' \subseteq Sids
    BY <1>23 DEF ShutdownBegin
  <2>4. claimed' \subseteq Sids /\ toRevoke' \subseteq Sids /\ unfinished' \subseteq Sids
    BY <1>23 DEF ShutdownBegin
  <2>5. QED
    BY <1>23, <2>1, <2>2, <2>3, <2>4 DEF ShutdownBegin
<1>24. CASE ShutdownRevoke
  BY <1>24 DEF ShutdownRevoke, Revoked
<1>25. CASE ShutdownFinish
  BY <1>25 DEF ShutdownFinish, Closed
<1>26. CASE ShutdownDrain
  BY <1>26 DEF ShutdownDrain
<1>27. CASE ShutdownAbort
  BY <1>27 DEF ShutdownAbort, Closed, Enqueue
<1>28. CASE ShutdownAbortPending
  BY <1>28 DEF ShutdownAbortPending
<1>29. CASE BeginLifecycle
  BY <1>29 DEF BeginLifecycle
<1>30. CASE UNCHANGED vars
  BY <1>30 DEF vars
<1>. QED
  BY <1>1, <1>2, <1>3, <1>4, <1>5, <1>6, <1>7, <1>8, <1>9, <1>10, <1>11,
     <1>12, <1>13, <1>14, <1>15, <1>16, <1>17, <1>18, <1>19, <1>20, <1>21,
     <1>22, <1>23, <1>24, <1>25, <1>26, <1>27, <1>28, <1>29, <1>30
     DEF Next, ClientStep, HandlerStep, StartStep, ExecStep, ShutdownStep

(* Two rlm_start calls never work on one session id, and none of them works on
   an id that is already published: ids are fresh. *)
LEMMA IdsStep ==
  ASSUME IInv, [Next]_vars
  PROVE  Ids'
<1> USE DEF mgrVars, exeVars, regVars, backVars, restVars, thrVars, shutVars, IInv,
            TypeOK, Ids, StartIds, StartUnique, CallIds, StartPc, LockedPc
<1>1. ASSUME NEW t \in Threads,
             StartBegin(t) \/ StartFailEarly(t) \/ StartFailLate(t) \/
             AbortOwner(t)
      PROVE  Ids'
  BY <1>1 DEF StartBegin, StartFailEarly, StartFailLate, AbortOwner, At, Goto
<1>2. ASSUME NEW t \in Threads,
             StartFail(t) \/ StartAbort(t)
      PROVE  Ids'
  BY <1>2 DEF StartFail, StartAbort, At, Goto
<1>3. ASSUME NEW t \in Threads,
             StartCleanup(t) \/ EndPop(t)
      PROVE  Ids'
  BY <1>3 DEF StartCleanup, EndPop, Evict, At, Goto
<1>4. ASSUME NEW t \in Threads, CreateSession(t) PROVE Ids'
  BY <1>4 DEF CreateSession, Evict, At, Goto
<1>5. ASSUME NEW t \in Threads, StartGet(t) PROVE Ids'
  BY <1>5 DEF StartGet, Evict, At, Goto
<1>6. ASSUME NEW t \in Threads, RegisterBackend(t) PROVE Ids'
  BY <1>6 DEF RegisterBackend, MayTrack, Closed, At, Goto
<1>7. ASSUME NEW t \in Threads, InitOk(t) PROVE Ids'
  BY <1>7 DEF InitOk, At, Goto
<1>8. ASSUME NEW t \in Threads, InitFails(t) PROVE Ids'
  BY <1>8 DEF InitFails, Closed, At, Goto
<1>9. ASSUME NEW t \in Threads, Unregister(t) PROVE Ids'
  BY <1>9 DEF Unregister, ReapFailed, Revoked, Enqueue, At, Goto
<1>10. ASSUME NEW t \in Threads, CreateInline(t) PROVE Ids'
  BY <1>10 DEF CreateInline, At, Goto
<1>11. ASSUME NEW t \in Threads, Publish(t) PROVE Ids'
  BY <1>11 DEF Publish, StartupAfterPublish, StillCurrent, MayTrack, At, Goto
<1>12. ASSUME NEW t \in Threads, AbortReap(t) PROVE Ids'
  BY <1>12 DEF AbortReap, ReapFailed, Revoked, Enqueue, At, Goto
<1>13. ASSUME NEW t \in Threads, AbortClose(t) PROVE Ids'
  BY <1>13 DEF AbortClose, Closed, Revoked, Enqueue, At, Goto
<1>14. ASSUME NEW t \in Threads, ExecBegin(t) PROVE Ids'
  BY <1>14 DEF ExecBegin, Evict, At, Goto
<1>15. ASSUME NEW t \in Threads, ExecGet(t) PROVE Ids'
  BY <1>15 DEF ExecGet, Evict, At, Goto
<1>16. ASSUME NEW t \in Threads, ExecLookup(t) PROVE Ids'
  BY <1>16 DEF ExecLookup, At, Goto
<1>17. ASSUME NEW t \in Threads, ExecLock(t) PROVE Ids'
  BY <1>17 DEF ExecLock, LockFree, At, Goto
<1>18. ASSUME NEW t \in Threads, ExecCheck(t) PROVE Ids'
  BY <1>18 DEF ExecCheck, MayExecute, Unlock, At, Goto
<1>19. ASSUME NEW t \in Threads, ExecCall(t) PROVE Ids'
  BY <1>19 DEF ExecCall, Unlock, At, Goto
<1>20. ASSUME NEW t \in Threads, ExecReturn(t) PROVE Ids'
  BY <1>20 DEF ExecReturn, Unlock, At, Goto
<1>21. ASSUME NEW t \in Threads, EndBegin(t) PROVE Ids'
  BY <1>21 DEF EndBegin, Evict, At, Goto
<1>22. ASSUME NEW t \in Threads, Release(t) PROVE Ids'
  BY <1>22 DEF Release, Revoked, Enqueue
<1>23. ASSUME NEW t \in Threads, ReleaseInline(t) PROVE Ids'
  BY <1>23 DEF ReleaseInline, Closed, Revoked, Enqueue, Running
<1>24. ASSUME NEW s \in Sids, ReaperStep(s) PROVE Ids'
  BY <1>24 DEF ReaperStep, ReapTake, Reap, ReapResidual, Requeued, Closed
<1>25. CASE ShutdownBegin
  BY <1>25 DEF ShutdownBegin
<1>26. CASE ShutdownRevoke
  BY <1>26 DEF ShutdownRevoke, Revoked
<1>27. CASE ShutdownFinish
  BY <1>27 DEF ShutdownFinish, Closed
<1>28. CASE ShutdownDrain
  BY <1>28 DEF ShutdownDrain
<1>29. CASE ShutdownAbort
  BY <1>29 DEF ShutdownAbort, Closed, Enqueue
<1>30. CASE ShutdownAbortPending
  BY <1>30 DEF ShutdownAbortPending
<1>31. CASE BeginLifecycle
  BY <1>31 DEF BeginLifecycle
<1>32. CASE UNCHANGED vars
  BY <1>32 DEF vars
<1>. QED
  BY <1>1, <1>2, <1>3, <1>4, <1>5, <1>6, <1>7, <1>8, <1>9, <1>10, <1>11,
     <1>12, <1>13, <1>14, <1>15, <1>16, <1>17, <1>18, <1>19, <1>20, <1>21,
     <1>22, <1>23, <1>24, <1>25, <1>26, <1>27, <1>28, <1>29, <1>30, <1>31,
     <1>32
     DEF Next, ClientStep, HandlerStep, StartStep, ExecStep, ShutdownStep

(* The local lists of a shutdown are empty when it returns. *)
LEMMA ListsStep ==
  ASSUME IInv, [Next]_vars
  PROVE  ShutdownLists'
<1> USE DEF mgrVars, exeVars, regVars, backVars, restVars, thrVars, shutVars, IInv,
            TypeOK, ShutdownLists
<1>1. ASSUME NEW t \in Threads,
             StartBegin(t) \/ StartFailEarly(t) \/ StartFailLate(t) \/
             AbortOwner(t) \/ StartFail(t) \/ StartAbort(t)
      PROVE  ShutdownLists'
  BY <1>1 DEF StartBegin, StartFailEarly, StartFailLate, AbortOwner,
     StartFail, StartAbort, At, Goto
<1>2. ASSUME NEW t \in Threads,
             StartCleanup(t) \/ ExecBegin(t) \/ EndBegin(t) \/
             EndPop(t)
      PROVE  ShutdownLists'
  BY <1>2 DEF StartCleanup, ExecBegin, EndBegin, EndPop, Evict, At, Goto
<1>3. ASSUME NEW t \in Threads,
             ExecGet(t) \/ ExecLookup(t) \/ ExecLock(t) \/
             ExecCheck(t) \/ ExecCall(t) \/ ExecReturn(t)
      PROVE  ShutdownLists'
  BY <1>3 DEF ExecGet, ExecLookup, ExecLock, ExecCheck, ExecCall, ExecReturn,
     Evict, LockFree, MayExecute, Unlock, At, Goto
<1>4. ASSUME NEW t \in Threads, CreateSession(t) PROVE ShutdownLists'
  BY <1>4 DEF CreateSession, Evict, At, Goto
<1>5. ASSUME NEW t \in Threads, StartGet(t) PROVE ShutdownLists'
  BY <1>5 DEF StartGet, Evict, At, Goto
<1>6. ASSUME NEW t \in Threads, RegisterBackend(t) PROVE ShutdownLists'
  BY <1>6 DEF RegisterBackend, MayTrack, Closed, At, Goto
<1>7. ASSUME NEW t \in Threads, InitOk(t) PROVE ShutdownLists'
  BY <1>7 DEF InitOk, At, Goto
<1>8. ASSUME NEW t \in Threads, InitFails(t) PROVE ShutdownLists'
  BY <1>8 DEF InitFails, Closed, At, Goto
<1>9. ASSUME NEW t \in Threads, Unregister(t) PROVE ShutdownLists'
  BY <1>9 DEF Unregister, ReapFailed, Revoked, Enqueue, At, Goto
<1>10. ASSUME NEW t \in Threads, CreateInline(t) PROVE ShutdownLists'
  BY <1>10 DEF CreateInline, At, Goto
<1>11. ASSUME NEW t \in Threads, Publish(t) PROVE ShutdownLists'
  BY <1>11 DEF Publish, StartupAfterPublish, StillCurrent, MayTrack, At, Goto
<1>12. ASSUME NEW t \in Threads, AbortReap(t) PROVE ShutdownLists'
  BY <1>12 DEF AbortReap, ReapFailed, Revoked, Enqueue, At, Goto
<1>13. ASSUME NEW t \in Threads, AbortClose(t) PROVE ShutdownLists'
  BY <1>13 DEF AbortClose, Closed, Revoked, Enqueue, At, Goto
<1>14. ASSUME NEW t \in Threads, Release(t) PROVE ShutdownLists'
  BY <1>14 DEF Release, Revoked, Enqueue
<1>15. ASSUME NEW t \in Threads, ReleaseInline(t) PROVE ShutdownLists'
  BY <1>15 DEF ReleaseInline, Closed, Revoked, Enqueue, Running
<1>16. ASSUME NEW s \in Sids, ReaperStep(s) PROVE ShutdownLists'
  BY <1>16 DEF ReaperStep, ReapTake, Reap, ReapResidual, Requeued, Closed
<1>17. CASE ShutdownBegin
  BY <1>17 DEF ShutdownBegin
<1>18. CASE ShutdownRevoke
  BY <1>18 DEF ShutdownRevoke, Revoked
<1>19. CASE ShutdownFinish
  BY <1>19 DEF ShutdownFinish, Closed
<1>20. CASE ShutdownDrain
  BY <1>20 DEF ShutdownDrain
<1>21. CASE ShutdownAbort
  BY <1>21 DEF ShutdownAbort, Closed, Enqueue
<1>22. CASE ShutdownAbortPending
  BY <1>22 DEF ShutdownAbortPending
<1>23. CASE BeginLifecycle
  BY <1>23 DEF BeginLifecycle
<1>24. CASE UNCHANGED vars
  BY <1>24 DEF vars
<1>. QED
  BY <1>1, <1>2, <1>3, <1>4, <1>5, <1>6, <1>7, <1>8, <1>9, <1>10, <1>11,
     <1>12, <1>13, <1>14, <1>15, <1>16, <1>17, <1>18, <1>19, <1>20, <1>21,
     <1>22, <1>23, <1>24
     DEF Next, ClientStep, HandlerStep, StartStep, ExecStep, ShutdownStep

(* Shutdown empties both registries in the step that closes registration, and
   an entry is made only under the epoch the caller captured. *)
LEMMA FenceStep ==
  ASSUME IInv, [Next]_vars
  PROVE  EpochFence'
<1> USE DEF mgrVars, exeVars, regVars, backVars, restVars, thrVars, shutVars, IInv,
            TypeOK, Ids, StartIds, StartUnique, EpochFence, StartPc, LockedPc
<1>1. ASSUME NEW t \in Threads,
             StartBegin(t) \/ StartFailEarly(t) \/ StartFailLate(t) \/
             AbortOwner(t)
      PROVE  EpochFence'
  BY <1>1 DEF StartBegin, StartFailEarly, StartFailLate, AbortOwner, At, Goto
<1>2. ASSUME NEW t \in Threads,
             StartFail(t) \/ StartAbort(t)
      PROVE  EpochFence'
  BY <1>2 DEF StartFail, StartAbort, At, Goto
<1>3. ASSUME NEW t \in Threads,
             StartCleanup(t) \/ ExecBegin(t) \/ EndBegin(t) \/
             EndPop(t)
      PROVE  EpochFence'
  BY <1>3 DEF StartCleanup, ExecBegin, EndBegin, EndPop, Evict, At, Goto
<1>4. ASSUME NEW t \in Threads,
             ExecGet(t) \/ ExecLookup(t) \/ ExecLock(t) \/
             ExecCheck(t) \/ ExecCall(t) \/ ExecReturn(t)
      PROVE  EpochFence'
  BY <1>4 DEF ExecGet, ExecLookup, ExecLock, ExecCheck, ExecCall, ExecReturn,
     Evict, LockFree, MayExecute, Unlock, At, Goto
<1>5. ASSUME NEW t \in Threads, CreateSession(t) PROVE EpochFence'
  BY <1>5 DEF CreateSession, Evict, At, Goto
<1>6. ASSUME NEW t \in Threads, StartGet(t) PROVE EpochFence'
  BY <1>6 DEF StartGet, Evict, At, Goto
<1>7. ASSUME NEW t \in Threads, RegisterBackend(t) PROVE EpochFence'
  BY <1>7 DEF RegisterBackend, MayTrack, Closed, At, Goto
<1>8. ASSUME NEW t \in Threads, InitOk(t) PROVE EpochFence'
  BY <1>8 DEF InitOk, At, Goto
<1>9. ASSUME NEW t \in Threads, InitFails(t) PROVE EpochFence'
  BY <1>9 DEF InitFails, Closed, At, Goto
<1>10. ASSUME NEW t \in Threads, Unregister(t) PROVE EpochFence'
  BY <1>10 DEF Unregister, ReapFailed, Revoked, Enqueue, At, Goto
<1>11. ASSUME NEW t \in Threads, CreateInline(t) PROVE EpochFence'
  BY <1>11 DEF CreateInline, At, Goto
<1>12. ASSUME NEW t \in Threads, Publish(t) PROVE EpochFence'
  BY <1>12 DEF Publish, StartupAfterPublish, StillCurrent, MayTrack, At, Goto
<1>13. ASSUME NEW t \in Threads, AbortReap(t) PROVE EpochFence'
  BY <1>13 DEF AbortReap, ReapFailed, Revoked, Enqueue, At, Goto
<1>14. ASSUME NEW t \in Threads, AbortClose(t) PROVE EpochFence'
  BY <1>14 DEF AbortClose, Closed, Revoked, Enqueue, At, Goto
<1>15. ASSUME NEW t \in Threads, Release(t) PROVE EpochFence'
  BY <1>15 DEF Release, Revoked, Enqueue
<1>16. ASSUME NEW t \in Threads, ReleaseInline(t) PROVE EpochFence'
  BY <1>16 DEF ReleaseInline, Closed, Revoked, Enqueue, Running
<1>17. ASSUME NEW s \in Sids, ReaperStep(s) PROVE EpochFence'
  BY <1>17 DEF ReaperStep, ReapTake, Reap, ReapResidual, Requeued, Closed
<1>18. CASE ShutdownBegin
  BY <1>18 DEF ShutdownBegin
<1>19. CASE ShutdownRevoke
  BY <1>19 DEF ShutdownRevoke, Revoked
<1>20. CASE ShutdownFinish
  BY <1>20 DEF ShutdownFinish, Closed
<1>21. CASE ShutdownDrain
  BY <1>21 DEF ShutdownDrain
<1>22. CASE ShutdownAbort
  BY <1>22 DEF ShutdownAbort, Closed, Enqueue
<1>23. CASE ShutdownAbortPending
  BY <1>23 DEF ShutdownAbortPending
<1>24. CASE BeginLifecycle
  BY <1>24 DEF BeginLifecycle
<1>25. CASE UNCHANGED vars
  BY <1>25 DEF vars
<1>. QED
  BY <1>1, <1>2, <1>3, <1>4, <1>5, <1>6, <1>7, <1>8, <1>9, <1>10, <1>11,
     <1>12, <1>13, <1>14, <1>15, <1>16, <1>17, <1>18, <1>19, <1>20, <1>21,
     <1>22, <1>23, <1>24, <1>25
     DEF Next, ClientStep, HandlerStep, StartStep, ExecStep, ShutdownStep

(* A shutdown closes registration in its first step and the next lifecycle opens
   it again. *)
LEMMA PhaseStep ==
  ASSUME IInv, [Next]_vars
  PROVE  PhaseOrder'
<1> USE DEF mgrVars, exeVars, regVars, backVars, restVars, thrVars, shutVars, IInv,
            PhaseOrder
<1>1. ASSUME NEW t \in Threads,
             StartBegin(t) \/ StartFailEarly(t) \/ StartFailLate(t) \/
             AbortOwner(t) \/ StartFail(t) \/ StartAbort(t)
      PROVE  PhaseOrder'
  BY <1>1 DEF StartBegin, StartFailEarly, StartFailLate, AbortOwner,
     StartFail, StartAbort, At, Goto
<1>2. ASSUME NEW t \in Threads,
             StartCleanup(t) \/ ExecBegin(t) \/ EndBegin(t) \/
             EndPop(t)
      PROVE  PhaseOrder'
  BY <1>2 DEF StartCleanup, ExecBegin, EndBegin, EndPop, Evict, At, Goto
<1>3. ASSUME NEW t \in Threads,
             ExecGet(t) \/ ExecLookup(t) \/ ExecLock(t) \/
             ExecCheck(t) \/ ExecCall(t) \/ ExecReturn(t)
      PROVE  PhaseOrder'
  BY <1>3 DEF ExecGet, ExecLookup, ExecLock, ExecCheck, ExecCall, ExecReturn,
     Evict, LockFree, MayExecute, Unlock, At, Goto
<1>4. ASSUME NEW t \in Threads, CreateSession(t) PROVE PhaseOrder'
  BY <1>4 DEF CreateSession, Evict, At, Goto
<1>5. ASSUME NEW t \in Threads, StartGet(t) PROVE PhaseOrder'
  BY <1>5 DEF StartGet, Evict, At, Goto
<1>6. ASSUME NEW t \in Threads, RegisterBackend(t) PROVE PhaseOrder'
  BY <1>6 DEF RegisterBackend, MayTrack, Closed, At, Goto
<1>7. ASSUME NEW t \in Threads, InitOk(t) PROVE PhaseOrder'
  BY <1>7 DEF InitOk, At, Goto
<1>8. ASSUME NEW t \in Threads, InitFails(t) PROVE PhaseOrder'
  BY <1>8 DEF InitFails, Closed, At, Goto
<1>9. ASSUME NEW t \in Threads, Unregister(t) PROVE PhaseOrder'
  BY <1>9 DEF Unregister, ReapFailed, Revoked, Enqueue, At, Goto
<1>10. ASSUME NEW t \in Threads, CreateInline(t) PROVE PhaseOrder'
  BY <1>10 DEF CreateInline, At, Goto
<1>11. ASSUME NEW t \in Threads, Publish(t) PROVE PhaseOrder'
  BY <1>11 DEF Publish, StartupAfterPublish, StillCurrent, MayTrack, At, Goto
<1>12. ASSUME NEW t \in Threads, AbortReap(t) PROVE PhaseOrder'
  BY <1>12 DEF AbortReap, ReapFailed, Revoked, Enqueue, At, Goto
<1>13. ASSUME NEW t \in Threads, AbortClose(t) PROVE PhaseOrder'
  BY <1>13 DEF AbortClose, Closed, Revoked, Enqueue, At, Goto
<1>14. ASSUME NEW t \in Threads, Release(t) PROVE PhaseOrder'
  BY <1>14 DEF Release, Revoked, Enqueue
<1>15. ASSUME NEW t \in Threads, ReleaseInline(t) PROVE PhaseOrder'
  BY <1>15 DEF ReleaseInline, Closed, Revoked, Enqueue, Running
<1>16. ASSUME NEW s \in Sids, ReaperStep(s) PROVE PhaseOrder'
  BY <1>16 DEF ReaperStep, ReapTake, Reap, ReapResidual, Requeued, Closed
<1>17. CASE ShutdownBegin
  BY <1>17 DEF ShutdownBegin
<1>18. CASE ShutdownRevoke
  BY <1>18 DEF ShutdownRevoke, Revoked
<1>19. CASE ShutdownFinish
  BY <1>19 DEF ShutdownFinish, Closed
<1>20. CASE ShutdownDrain
  BY <1>20 DEF ShutdownDrain
<1>21. CASE ShutdownAbort
  BY <1>21 DEF ShutdownAbort, Closed, Enqueue
<1>22. CASE ShutdownAbortPending
  BY <1>22 DEF ShutdownAbortPending
<1>23. CASE BeginLifecycle
  BY <1>23 DEF BeginLifecycle
<1>24. CASE UNCHANGED vars
  BY <1>24 DEF vars
<1>. QED
  BY <1>1, <1>2, <1>3, <1>4, <1>5, <1>6, <1>7, <1>8, <1>9, <1>10, <1>11,
     <1>12, <1>13, <1>14, <1>15, <1>16, <1>17, <1>18, <1>19, <1>20, <1>21,
     <1>22, <1>23, <1>24
     DEF Next, ClientStep, HandlerStep, StartStep, ExecStep, ShutdownStep

(* Only a shutdown moves the epoch, and a rlm_start captures it between shutdowns. *)
LEMMA OrderStep ==
  ASSUME IInv, [Next]_vars
  PROVE  EpochOrder'
<1> USE DEF mgrVars, exeVars, regVars, backVars, restVars, thrVars, shutVars, IInv,
            TypeOK, EpochOrder, Phase
<1>1. ASSUME NEW t \in Threads,
             StartFailEarly(t) \/ StartFailLate(t) \/ AbortOwner(t) \/
             StartFail(t) \/ StartAbort(t)
      PROVE  EpochOrder'
  BY <1>1 DEF StartFailEarly, StartFailLate, AbortOwner, StartFail,
     StartAbort, At, Goto
<1>2. ASSUME NEW t \in Threads,
             StartCleanup(t) \/ ExecBegin(t) \/ EndBegin(t) \/
             EndPop(t)
      PROVE  EpochOrder'
  BY <1>2 DEF StartCleanup, ExecBegin, EndBegin, EndPop, Evict, At, Goto
<1>3. ASSUME NEW t \in Threads,
             ExecGet(t) \/ ExecLookup(t) \/ ExecLock(t) \/
             ExecCheck(t) \/ ExecCall(t) \/ ExecReturn(t)
      PROVE  EpochOrder'
  BY <1>3 DEF ExecGet, ExecLookup, ExecLock, ExecCheck, ExecCall, ExecReturn,
     Evict, LockFree, MayExecute, Unlock, At, Goto
<1>4. ASSUME NEW t \in Threads, StartBegin(t) PROVE EpochOrder'
  <2>1. phase = "up" /\ UNCHANGED <<phase, epoch>> /\ regEpoch' = [regEpoch EXCEPT ![t] = epoch]
    BY <1>4 DEF StartBegin, PhaseOrder
  <2>2. QED
    BY <2>1
<1>5. ASSUME NEW t \in Threads, CreateSession(t) PROVE EpochOrder'
  BY <1>5 DEF CreateSession, Evict, At, Goto
<1>6. ASSUME NEW t \in Threads, StartGet(t) PROVE EpochOrder'
  BY <1>6 DEF StartGet, Evict, At, Goto
<1>7. ASSUME NEW t \in Threads, RegisterBackend(t) PROVE EpochOrder'
  BY <1>7 DEF RegisterBackend, MayTrack, Closed, At, Goto
<1>8. ASSUME NEW t \in Threads, InitOk(t) PROVE EpochOrder'
  BY <1>8 DEF InitOk, At, Goto
<1>9. ASSUME NEW t \in Threads, InitFails(t) PROVE EpochOrder'
  BY <1>9 DEF InitFails, Closed, At, Goto
<1>10. ASSUME NEW t \in Threads, Unregister(t) PROVE EpochOrder'
  BY <1>10 DEF Unregister, ReapFailed, Revoked, Enqueue, At, Goto
<1>11. ASSUME NEW t \in Threads, CreateInline(t) PROVE EpochOrder'
  BY <1>11 DEF CreateInline, At, Goto
<1>12. ASSUME NEW t \in Threads, Publish(t) PROVE EpochOrder'
  BY <1>12 DEF Publish, StartupAfterPublish, StillCurrent, MayTrack, At, Goto
<1>13. ASSUME NEW t \in Threads, AbortReap(t) PROVE EpochOrder'
  BY <1>13 DEF AbortReap, ReapFailed, Revoked, Enqueue, At, Goto
<1>14. ASSUME NEW t \in Threads, AbortClose(t) PROVE EpochOrder'
  BY <1>14 DEF AbortClose, Closed, Revoked, Enqueue, At, Goto
<1>15. ASSUME NEW t \in Threads, Release(t) PROVE EpochOrder'
  BY <1>15 DEF Release, Revoked, Enqueue
<1>16. ASSUME NEW t \in Threads, ReleaseInline(t) PROVE EpochOrder'
  BY <1>16 DEF ReleaseInline, Closed, Revoked, Enqueue, Running
<1>17. ASSUME NEW s \in Sids, ReaperStep(s) PROVE EpochOrder'
  BY <1>17 DEF ReaperStep, ReapTake, Reap, ReapResidual, Requeued, Closed
<1>18. CASE ShutdownBegin
  BY <1>18 DEF ShutdownBegin
<1>19. CASE ShutdownRevoke
  BY <1>19 DEF ShutdownRevoke, Revoked
<1>20. CASE ShutdownFinish
  BY <1>20 DEF ShutdownFinish, Closed
<1>21. CASE ShutdownDrain
  BY <1>21 DEF ShutdownDrain
<1>22. CASE ShutdownAbort
  BY <1>22 DEF ShutdownAbort, Closed, Enqueue
<1>23. CASE ShutdownAbortPending
  BY <1>23 DEF ShutdownAbortPending
<1>24. CASE BeginLifecycle
  <2>1. phase # "up" /\ UNCHANGED <<epoch, regEpoch>>
    BY <1>24 DEF BeginLifecycle
  <2>2. QED
    BY <2>1
<1>25. CASE UNCHANGED vars
  BY <1>25 DEF vars
<1>. QED
  BY <1>1, <1>2, <1>3, <1>4, <1>5, <1>6, <1>7, <1>8, <1>9, <1>10, <1>11,
     <1>12, <1>13, <1>14, <1>15, <1>16, <1>17, <1>18, <1>19, <1>20, <1>21,
     <1>22, <1>23, <1>24, <1>25
     DEF Next, ClientStep, HandlerStep, StartStep, ExecStep, ShutdownStep

(* Only ids that were handed out are queued. *)
LEMMA UsedStep ==
  ASSUME IInv, [Next]_vars
  PROVE  ListsUsed'
<1> USE DEF mgrVars, exeVars, regVars, backVars, restVars, thrVars, shutVars, IInv,
            TypeOK, Ids, StartIds, ListsUsed, StartPc
<1>1. ASSUME NEW t \in Threads,
             StartBegin(t) \/ StartFailEarly(t) \/ StartFailLate(t) \/
             AbortOwner(t) \/ StartFail(t) \/ StartAbort(t)
      PROVE  ListsUsed'
  BY <1>1 DEF StartBegin, StartFailEarly, StartFailLate, AbortOwner,
     StartFail, StartAbort, At, Goto
<1>2. ASSUME NEW t \in Threads,
             StartCleanup(t) \/ ExecBegin(t) \/ EndBegin(t) \/
             EndPop(t)
      PROVE  ListsUsed'
  BY <1>2 DEF StartCleanup, ExecBegin, EndBegin, EndPop, Evict, At, Goto
<1>3. ASSUME NEW t \in Threads,
             ExecGet(t) \/ ExecLookup(t) \/ ExecLock(t) \/
             ExecCheck(t) \/ ExecCall(t) \/ ExecReturn(t)
      PROVE  ListsUsed'
  BY <1>3 DEF ExecGet, ExecLookup, ExecLock, ExecCheck, ExecCall, ExecReturn,
     Evict, LockFree, MayExecute, Unlock, At, Goto
<1>4. ASSUME NEW t \in Threads, CreateSession(t) PROVE ListsUsed'
  BY <1>4 DEF CreateSession, Evict, At, Goto
<1>5. ASSUME NEW t \in Threads, StartGet(t) PROVE ListsUsed'
  BY <1>5 DEF StartGet, Evict, At, Goto
<1>6. ASSUME NEW t \in Threads, RegisterBackend(t) PROVE ListsUsed'
  BY <1>6 DEF RegisterBackend, MayTrack, Closed, At, Goto
<1>7. ASSUME NEW t \in Threads, InitOk(t) PROVE ListsUsed'
  BY <1>7 DEF InitOk, At, Goto
<1>8. ASSUME NEW t \in Threads, InitFails(t) PROVE ListsUsed'
  BY <1>8 DEF InitFails, Closed, At, Goto
<1>9. ASSUME NEW t \in Threads, Unregister(t) PROVE ListsUsed'
  BY <1>9 DEF Unregister, ReapFailed, Revoked, Enqueue, At, Goto
<1>10. ASSUME NEW t \in Threads, CreateInline(t) PROVE ListsUsed'
  BY <1>10 DEF CreateInline, At, Goto
<1>11. ASSUME NEW t \in Threads, Publish(t) PROVE ListsUsed'
  BY <1>11 DEF Publish, StartupAfterPublish, StillCurrent, MayTrack, At, Goto
<1>12. ASSUME NEW t \in Threads, AbortReap(t) PROVE ListsUsed'
  BY <1>12 DEF AbortReap, ReapFailed, Revoked, Enqueue, At, Goto
<1>13. ASSUME NEW t \in Threads, AbortClose(t) PROVE ListsUsed'
  BY <1>13 DEF AbortClose, Closed, Revoked, Enqueue, At, Goto
<1>14. ASSUME NEW t \in Threads, Release(t) PROVE ListsUsed'
  BY <1>14 DEF Release, Revoked, Enqueue
<1>15. ASSUME NEW t \in Threads, ReleaseInline(t) PROVE ListsUsed'
  <2>1. rel[t] \in used
    BY <1>15 DEF ReleaseInline, KnownHandles
  <2>2. QED
    BY <1>15, <2>1 DEF ReleaseInline, Enqueue
<1>16. ASSUME NEW s \in Sids, ReaperStep(s) PROVE ListsUsed'
  BY <1>16 DEF ReaperStep, ReapTake, Reap, ReapResidual, Requeued, Closed
<1>17. CASE ShutdownBegin
  BY <1>17 DEF ShutdownBegin
<1>18. CASE ShutdownRevoke
  BY <1>18 DEF ShutdownRevoke, Revoked
<1>19. CASE ShutdownFinish
  BY <1>19 DEF ShutdownFinish, Closed
<1>20. CASE ShutdownDrain
  BY <1>20 DEF ShutdownDrain
<1>21. CASE ShutdownAbort
  BY <1>21 DEF ShutdownAbort, Closed, Enqueue
<1>22. CASE ShutdownAbortPending
  BY <1>22 DEF ShutdownAbortPending
<1>23. CASE BeginLifecycle
  BY <1>23 DEF BeginLifecycle
<1>24. CASE UNCHANGED vars
  BY <1>24 DEF vars
<1>. QED
  BY <1>1, <1>2, <1>3, <1>4, <1>5, <1>6, <1>7, <1>8, <1>9, <1>10, <1>11,
     <1>12, <1>13, <1>14, <1>15, <1>16, <1>17, <1>18, <1>19, <1>20, <1>21,
     <1>22, <1>23, <1>24
     DEF Next, ClientStep, HandlerStep, StartStep, ExecStep, ShutdownStep

(* Before it is published, a backend is revoked by its own failure path or by a
   shutdown only, and a shutdown moves the epoch. *)
LEMMA ReadyStep ==
  ASSUME IInv, [Next]_vars
  PROVE  PublishReady'
<1> USE DEF mgrVars, exeVars, regVars, backVars, restVars, thrVars, shutVars, IInv,
            TypeOK, Ids, StartIds, StartUnique, ShutdownLists, PhaseOrder,
            EpochOrder, ListsUsed, PublishReady, KnownHandles, StartPc,
            LockedPc
<1>1. ASSUME NEW t \in Threads,
             StartBegin(t) \/ StartFailEarly(t) \/ StartFailLate(t) \/
             AbortOwner(t)
      PROVE  PublishReady'
  BY <1>1 DEF StartBegin, StartFailEarly, StartFailLate, AbortOwner, At, Goto
<1>2. ASSUME NEW t \in Threads,
             StartFail(t) \/ StartAbort(t)
      PROVE  PublishReady'
  BY <1>2 DEF StartFail, StartAbort, At, Goto
<1>3. ASSUME NEW t \in Threads,
             StartCleanup(t) \/ ExecBegin(t) \/ EndBegin(t) \/
             EndPop(t)
      PROVE  PublishReady'
  BY <1>3 DEF StartCleanup, ExecBegin, EndBegin, EndPop, Evict, At, Goto
<1>4. ASSUME NEW t \in Threads,
             ExecGet(t) \/ ExecLookup(t) \/ ExecLock(t) \/
             ExecCheck(t) \/ ExecCall(t) \/ ExecReturn(t)
      PROVE  PublishReady'
  BY <1>4 DEF ExecGet, ExecLookup, ExecLock, ExecCheck, ExecCall, ExecReturn,
     Evict, LockFree, MayExecute, Unlock, At, Goto
<1>5. ASSUME NEW t \in Threads, CreateSession(t) PROVE PublishReady'
  BY <1>5, LifecycleAssumption DEF CreateSession, Evict, At, Goto
<1>6. ASSUME NEW t \in Threads, StartGet(t) PROVE PublishReady'
  BY <1>6 DEF StartGet, Evict, At, Goto
<1>7. ASSUME NEW t \in Threads, RegisterBackend(t) PROVE PublishReady'
  BY <1>7 DEF RegisterBackend, MayTrack, Closed, At, Goto
<1>8. ASSUME NEW t \in Threads, InitOk(t) PROVE PublishReady'
  BY <1>8 DEF InitOk, At, Goto
<1>9. ASSUME NEW t \in Threads, InitFails(t) PROVE PublishReady'
  BY <1>9 DEF InitFails, Closed, At, Goto
<1>10. ASSUME NEW t \in Threads, Unregister(t) PROVE PublishReady'
  BY <1>10 DEF Unregister, ReapFailed, Revoked, Enqueue, At, Goto
<1>11. ASSUME NEW t \in Threads, CreateInline(t) PROVE PublishReady'
  BY <1>11 DEF CreateInline, At, Goto
<1>12. ASSUME NEW t \in Threads, Publish(t) PROVE PublishReady'
  BY <1>12 DEF Publish, StartupAfterPublish, StillCurrent, MayTrack, At, Goto
<1>13. ASSUME NEW t \in Threads, AbortReap(t) PROVE PublishReady'
  BY <1>13 DEF AbortReap, ReapFailed, Revoked, Enqueue, At, Goto
<1>14. ASSUME NEW t \in Threads, AbortClose(t) PROVE PublishReady'
  BY <1>14 DEF AbortClose, Closed, Revoked, Enqueue, At, Goto
<1>15. ASSUME NEW t \in Threads, Release(t) PROVE PublishReady'
  BY <1>15 DEF Release, Revoked, Enqueue
<1>16. ASSUME NEW t \in Threads, ReleaseInline(t) PROVE PublishReady'
  BY <1>16 DEF ReleaseInline, Closed, Revoked, Enqueue, Running
<1>17. ASSUME NEW s \in Sids, ReaperStep(s) PROVE PublishReady'
  <2>1. \A t \in Threads : pc[t] \in StartPc => sid[t] # NoSid
    BY LifecycleAssumption
  <2>2. CASE ReapTake(s)
    BY <2>1, <2>2 DEF ReapTake
  <2>3. CASE Reap(s)
    BY <2>1, <2>3 DEF Reap, Closed
  <2>4. CASE ReapResidual(s)
    BY <2>1, <2>4 DEF ReapResidual
  <2>. QED
    BY <1>17, <2>2, <2>3, <2>4 DEF ReaperStep
<1>18. CASE ShutdownBegin
  BY <1>18 DEF ShutdownBegin
<1>19. CASE ShutdownRevoke
  BY <1>19 DEF ShutdownRevoke, Revoked
<1>20. CASE ShutdownFinish
  BY <1>20 DEF ShutdownFinish, Closed
<1>21. CASE ShutdownDrain
  BY <1>21 DEF ShutdownDrain
<1>22. CASE ShutdownAbort
  BY <1>22 DEF ShutdownAbort, Closed, Enqueue
<1>23. CASE ShutdownAbortPending
  BY <1>23 DEF ShutdownAbortPending
<1>24. CASE BeginLifecycle
  BY <1>24 DEF BeginLifecycle
<1>25. CASE UNCHANGED vars
  BY <1>25 DEF vars
<1>. QED
  BY <1>1, <1>2, <1>3, <1>4, <1>5, <1>6, <1>7, <1>8, <1>9, <1>10, <1>11,
     <1>12, <1>13, <1>14, <1>15, <1>16, <1>17, <1>18, <1>19, <1>20, <1>21,
     <1>22, <1>23, <1>24, <1>25
     DEF Next, ClientStep, HandlerStep, StartStep, ExecStep, ShutdownStep

(* Whoever takes a published backend away revokes it. *)
LEMMA KnownStep ==
  ASSUME IInv, [Next]_vars
  PROVE  KnownHandles'
<1> USE DEF mgrVars, exeVars, regVars, backVars, restVars, thrVars, shutVars, IInv,
            TypeOK, Ids, StartIds, ShutdownLists, PhaseOrder, PublishReady,
            KnownHandles, StartPc, LockedPc
<1>1. ASSUME NEW t \in Threads,
             StartBegin(t) \/ StartFailEarly(t) \/ StartFailLate(t) \/
             AbortOwner(t)
      PROVE  KnownHandles'
  BY <1>1 DEF StartBegin, StartFailEarly, StartFailLate, AbortOwner, At, Goto
<1>2. ASSUME NEW t \in Threads,
             StartFail(t) \/ StartAbort(t)
      PROVE  KnownHandles'
  BY <1>2 DEF StartFail, StartAbort, At, Goto
<1>3. ASSUME NEW t \in Threads,
             StartCleanup(t) \/ ExecBegin(t) \/ EndBegin(t) \/
             EndPop(t)
      PROVE  KnownHandles'
  BY <1>3 DEF StartCleanup, ExecBegin, EndBegin, EndPop, Evict, At, Goto
<1>4. ASSUME NEW t \in Threads,
             ExecGet(t) \/ ExecLookup(t) \/ ExecLock(t) \/
             ExecCheck(t) \/ ExecCall(t) \/ ExecReturn(t)
      PROVE  KnownHandles'
  BY <1>4 DEF ExecGet, ExecLookup, ExecLock, ExecCheck, ExecCall, ExecReturn,
     Evict, LockFree, MayExecute, Unlock, At, Goto
<1>5. ASSUME NEW t \in Threads, CreateSession(t) PROVE KnownHandles'
  BY <1>5 DEF CreateSession, Evict, At, Goto
<1>6. ASSUME NEW t \in Threads, StartGet(t) PROVE KnownHandles'
  BY <1>6 DEF StartGet, Evict, At, Goto
<1>7. ASSUME NEW t \in Threads, RegisterBackend(t) PROVE KnownHandles'
  BY <1>7 DEF RegisterBackend, MayTrack, Closed, At, Goto
<1>8. ASSUME NEW t \in Threads, InitOk(t) PROVE KnownHandles'
  BY <1>8 DEF InitOk, At, Goto
<1>9. ASSUME NEW t \in Threads, InitFails(t) PROVE KnownHandles'
  BY <1>9 DEF InitFails, Closed, At, Goto
<1>10. ASSUME NEW t \in Threads, Unregister(t) PROVE KnownHandles'
  BY <1>10 DEF Unregister, ReapFailed, Revoked, Enqueue, At, Goto
<1>11. ASSUME NEW t \in Threads, CreateInline(t) PROVE KnownHandles'
  BY <1>11 DEF CreateInline, At, Goto
<1>12. ASSUME NEW t \in Threads, Publish(t) PROVE KnownHandles'
  BY <1>12 DEF Publish, StartupAfterPublish, StillCurrent, MayTrack, At, Goto
<1>13. ASSUME NEW t \in Threads, AbortReap(t) PROVE KnownHandles'
  BY <1>13 DEF AbortReap, ReapFailed, Revoked, Enqueue, At, Goto
<1>14. ASSUME NEW t \in Threads, AbortClose(t) PROVE KnownHandles'
  BY <1>14 DEF AbortClose, Closed, Revoked, Enqueue, At, Goto
<1>15. ASSUME NEW t \in Threads, Release(t) PROVE KnownHandles'
  <2>1. PICK r \in toRelease[t] :
          /\ registry' = registry \ {r}
          /\ \/ handle' = Revoked(r) /\ UNCHANGED rel
             \/ r \in registry /\ rel' = [rel EXCEPT ![t] = r] /\ UNCHANGED handle
             \/ r \notin registry /\ UNCHANGED <<handle, rel>>
    BY <1>15 DEF Release
  <2>2. UNCHANGED <<known, toRevoke>> /\ rel[t] = NoSid /\ r \in Sids
    BY <1>15, <2>1 DEF Release
  <2>3. \A u \in Threads : rel'[u] # NoSid => rel'[u] \in known
    BY <2>1, <2>2
  <2>4. ASSUME NEW s \in known, s \notin registry' \cup toRevoke',
                \A u \in Threads : rel'[u] # s
         PROVE  handle'[s] \in {"closing", "closed"}
    <3>1. s \in Sids /\ s # NoSid
      BY <2>4, LifecycleAssumption
    <3>2. CASE s = r /\ handle' = Revoked(r)
      BY <3>1, <3>2 DEF Revoked, HandleState
    <3>3. CASE s # r \/ r \notin registry
      BY <2>1, <2>2, <2>4, <3>1, <3>3 DEF Revoked
    <3>4. QED
      BY <2>1, <2>2, <2>4, <3>2, <3>3
  <2>5. \A s \in known : handle'[s] \in {"open", "closing", "closed"}
    BY <2>1, <2>2 DEF Revoked
  <2>6. QED
    BY <2>2, <2>3, <2>4, <2>5
<1>16. ASSUME NEW t \in Threads, ReleaseInline(t) PROVE KnownHandles'
  <2>1. UNCHANGED <<known, registry, toRevoke>> /\ rel' = [rel EXCEPT ![t] = NoSid]
    BY <1>16 DEF ReleaseInline
  <2>2. \/ handle' = [handle EXCEPT ![rel[t]] = "closed"]
        \/ handle' = Revoked(rel[t])
    BY <1>16 DEF ReleaseInline, Closed
  <2>3. rel[t] \in known /\ rel[t] \in Sids /\ handle[rel[t]] \in {"open", "closing", "closed"}
    BY <1>16 DEF ReleaseInline
  <2>4. handle'[rel[t]] \in {"closing", "closed"}
    BY <2>2, <2>3 DEF Revoked
  <2>5. \A s \in Sids : handle[s] \in {"closing", "closed"} => handle'[s] \in {"closing", "closed"}
    BY <2>2, <2>3 DEF Revoked
  <2>6. \A s \in known : handle'[s] \in {"open", "closing", "closed"}
    BY <2>2, <2>3 DEF Revoked
  <2>7. ASSUME NEW s \in known, s \notin registry \cup toRevoke,
                \A u \in Threads : rel'[u] # s
         PROVE  handle'[s] \in {"closing", "closed"}
    <3>1. CASE s = rel[t]
      BY <2>4, <3>1
    <3>2. CASE s # rel[t]
      BY <2>1, <2>5, <2>7, <3>2
    <3>3. QED
      BY <3>1, <3>2
  <2>8. \A u \in Threads : rel'[u] # NoSid => rel'[u] \in known
    BY <2>1
  <2>9. QED
    BY <2>1, <2>6, <2>7, <2>8
<1>17. ASSUME NEW s \in Sids, ReaperStep(s) PROVE KnownHandles'
  BY <1>17 DEF ReaperStep, ReapTake, Reap, ReapResidual, Requeued, Closed
<1>18. CASE ShutdownBegin
  BY <1>18 DEF ShutdownBegin
<1>19. CASE ShutdownRevoke
  <2>1. UNCHANGED <<known, registry, rel>>
    BY <1>19 DEF ShutdownRevoke
  <2>2. CASE UNCHANGED <<handle, toRevoke>>
    BY <2>1, <2>2
  <2>3. ASSUME NEW r \in toRevoke, handle' = Revoked(r), toRevoke' = toRevoke \ {r}
         PROVE  KnownHandles'
    <3>1. r \in known => handle'[r] \in {"closing", "closed"}
      BY <2>3 DEF Revoked
    <3>2. \A s \in Sids : handle[s] \in {"closing", "closed"} => handle'[s] \in {"closing", "closed"}
      BY <2>3 DEF Revoked
    <3>3. \A s \in known : handle'[s] \in {"open", "closing", "closed"}
      BY <2>3 DEF Revoked
    <3>4. QED
      BY <2>1, <2>3, <3>1, <3>2, <3>3
  <2>4. QED
    BY <1>19, <2>2, <2>3 DEF ShutdownRevoke
<1>20. CASE ShutdownFinish
  BY <1>20 DEF ShutdownFinish, Closed
<1>21. CASE ShutdownDrain
  BY <1>21 DEF ShutdownDrain
<1>22. CASE ShutdownAbort
  BY <1>22 DEF ShutdownAbort, Closed, Enqueue
<1>23. CASE ShutdownAbortPending
  BY <1>23 DEF ShutdownAbortPending
<1>24. CASE BeginLifecycle
  BY <1>24 DEF BeginLifecycle
<1>25. CASE UNCHANGED vars
  BY <1>25 DEF vars
<1>. QED
  BY <1>1, <1>2, <1>3, <1>4, <1>5, <1>6, <1>7, <1>8, <1>9, <1>10, <1>11,
     <1>12, <1>13, <1>14, <1>15, <1>16, <1>17, <1>18, <1>19, <1>20, <1>21,
     <1>22, <1>23, <1>24, <1>25
     DEF Next, ClientStep, HandlerStep, StartStep, ExecStep, ShutdownStep

(* The ownership of a live backend passes from one owner to the next within one
   step: each action that takes it out of one place puts it into another, or
   closes it. *)
LEMMA OwnedStep ==
  ASSUME IInv, [Next]_vars
  PROVE  LifecycleOwned'
<1> USE DEF mgrVars, exeVars, regVars, backVars, restVars, thrVars, shutVars, IInv,
            TypeOK, Ids, StartIds, StartUnique, EpochFence, LifecycleOwned,
            Owned, Holds, LiveHandle, StartPc, LockedPc
<1>1. ASSUME NEW t \in Threads,
             StartBegin(t) \/ StartFailEarly(t) \/ StartFailLate(t) \/
             AbortOwner(t)
      PROVE  LifecycleOwned'
  BY <1>1 DEF StartBegin, StartFailEarly, StartFailLate, AbortOwner, At, Goto
<1>2. ASSUME NEW t \in Threads,
             StartFail(t)
      PROVE  LifecycleOwned'
  BY <1>2 DEF StartFail, At, Goto
<1>3. ASSUME NEW t \in Threads,
             StartCleanup(t) \/ ExecBegin(t) \/ EndBegin(t) \/
             EndPop(t)
      PROVE  LifecycleOwned'
  BY <1>3 DEF StartCleanup, ExecBegin, EndBegin, EndPop, Evict, At, Goto
<1>4. ASSUME NEW t \in Threads,
             ExecGet(t) \/ ExecLookup(t) \/ ExecLock(t) \/
             ExecCheck(t) \/ ExecCall(t) \/ ExecReturn(t)
      PROVE  LifecycleOwned'
  BY <1>4 DEF ExecGet, ExecLookup, ExecLock, ExecCheck, ExecCall, ExecReturn,
     Evict, LockFree, MayExecute, Unlock, At, Goto
<1>5. ASSUME NEW t \in Threads, CreateSession(t) PROVE LifecycleOwned'
  BY <1>5 DEF CreateSession, Evict, At, Goto
<1>6. ASSUME NEW t \in Threads, StartGet(t) PROVE LifecycleOwned'
  BY <1>6 DEF StartGet, Evict, At, Goto
<1>7. ASSUME NEW t \in Threads, RegisterBackend(t) PROVE LifecycleOwned'
  BY <1>7 DEF RegisterBackend, MayTrack, Closed, At, Goto
<1>8. ASSUME NEW t \in Threads, InitOk(t) PROVE LifecycleOwned'
  BY <1>8 DEF InitOk, At, Goto
<1>9. ASSUME NEW t \in Threads, InitFails(t) PROVE LifecycleOwned'
  BY <1>9 DEF InitFails, Closed, At, Goto
<1>10. ASSUME NEW t \in Threads, Unregister(t) PROVE LifecycleOwned'
  BY <1>10 DEF Unregister, ReapFailed, Revoked, Enqueue, At, Goto
<1>11. ASSUME NEW t \in Threads, CreateInline(t) PROVE LifecycleOwned'
  BY <1>11 DEF CreateInline, At, Goto
<1>12. ASSUME NEW t \in Threads, Publish(t) PROVE LifecycleOwned'
  BY <1>12 DEF Publish, StartupAfterPublish, StillCurrent, MayTrack, At, Goto
<1>13. ASSUME NEW t \in Threads, StartAbort(t) PROVE LifecycleOwned'
  BY <1>13 DEF StartAbort, At, Goto
<1>14. ASSUME NEW t \in Threads, AbortReap(t) PROVE LifecycleOwned'
  BY <1>14 DEF AbortReap, ReapFailed, Revoked, Enqueue, At, Goto
<1>15. ASSUME NEW t \in Threads, AbortClose(t) PROVE LifecycleOwned'
  BY <1>15 DEF AbortClose, Closed, Revoked, Enqueue, At, Goto
<1>16. ASSUME NEW t \in Threads, Release(t) PROVE LifecycleOwned'
  <2> SUFFICES ASSUME NEW s \in Sids, (handle[s] \in LiveHandle)'
               PROVE  Owned(s)'
    BY DEF LifecycleOwned
  <2>1. PICK r \in toRelease[t] :
          /\ registry' = registry \ {r}
          /\ \/ pending' = Enqueue(r) /\ handle' = Revoked(r) /\ UNCHANGED rel
             \/ rel' = [rel EXCEPT ![t] = r] /\ UNCHANGED <<handle, pending>>
             \/ r \notin registry /\ UNCHANGED <<handle, pending, rel>>
    BY <1>16 DEF Release
  <2>2. UNCHANGED <<starting, claimed, unfinished, pc, sid, mode>> /\ rel[t] = NoSid
    BY <1>16 DEF Release
  <2>3. r \in Sids
    BY <2>1
  <2>4. handle[s] \in LiveHandle
    BY <2>1 DEF Revoked, LiveHandle
  <2>5. Owned(s)
    BY <2>4 DEF LifecycleOwned
  <2>6. CASE s = r
    BY <2>1, <2>2, <2>3, <2>5, <2>6 DEF Enqueue, Owned, Holds
  <2>7. CASE s # r
    BY <2>1, <2>2, <2>3, <2>5, <2>7, LifecycleAssumption DEF Enqueue, Owned, Holds
  <2>8. QED
    BY <2>6, <2>7
<1>17. ASSUME NEW t \in Threads, ReleaseInline(t) PROVE LifecycleOwned'
  BY <1>17 DEF ReleaseInline, Closed, Revoked, Enqueue, Running
<1>18. ASSUME NEW s \in Sids, ReaperStep(s) PROVE LifecycleOwned'
  BY <1>18 DEF ReaperStep, ReapTake, Reap, ReapResidual, Requeued, Closed
<1>19. CASE ShutdownBegin
  <2> SUFFICES ASSUME NEW s \in Sids, (handle[s] \in LiveHandle)'
               PROVE  Owned(s)'
    BY DEF LifecycleOwned
  <2>1. claimed' = registry \cup starting /\ UNCHANGED <<handle, pending, mode, pc, sid, rel>>
    BY <1>19 DEF ShutdownBegin
  <2>2. claimed = {} /\ unfinished = {}
    BY <1>19 DEF ShutdownBegin, ShutdownLists
  <2>3. Owned(s)
    BY <2>1
  <2>4. QED
    BY <2>1, <2>2, <2>3
<1>20. CASE ShutdownRevoke
  BY <1>20 DEF ShutdownRevoke, Revoked
<1>21. CASE ShutdownFinish
  BY <1>21 DEF ShutdownFinish, Closed
<1>22. CASE ShutdownDrain
  BY <1>22 DEF ShutdownDrain
<1>23. CASE ShutdownAbort
  BY <1>23 DEF ShutdownAbort, Closed, Enqueue
<1>24. CASE ShutdownAbortPending
  BY <1>24 DEF ShutdownAbortPending
<1>25. CASE BeginLifecycle
  BY <1>25 DEF BeginLifecycle
<1>26. CASE UNCHANGED vars
  BY <1>26 DEF vars
<1>. QED
  BY <1>1, <1>2, <1>3, <1>4, <1>5, <1>6, <1>7, <1>8, <1>9, <1>10, <1>11,
     <1>12, <1>13, <1>14, <1>15, <1>16, <1>17, <1>18, <1>19, <1>20, <1>21,
     <1>22, <1>23, <1>24, <1>25, <1>26
     DEF Next, ClientStep, HandlerStep, StartStep, ExecStep, ShutdownStep

(* A session leaves the manager only in a step that makes its release owed, and
   the release that is paid takes the registration away. *)
LEMMA ZombieStep ==
  ASSUME IInv, [Next]_vars
  PROVE  NoZombieBackend'
<1> USE DEF mgrVars, exeVars, regVars, backVars, restVars, thrVars, shutVars, IInv,
            TypeOK, Ids, StartIds, StartUnique, NoZombieBackend, StartPc,
            LockedPc
<1>1. ASSUME NEW t \in Threads,
             StartBegin(t) \/ StartFailEarly(t) \/ StartFailLate(t) \/
             AbortOwner(t)
      PROVE  NoZombieBackend'
  BY <1>1 DEF StartBegin, StartFailEarly, StartFailLate, AbortOwner, At, Goto
<1>2. ASSUME NEW t \in Threads,
             StartFail(t) \/ StartAbort(t)
      PROVE  NoZombieBackend'
  BY <1>2 DEF StartFail, StartAbort, At, Goto
<1>3. ASSUME NEW t \in Threads,
             StartCleanup(t) \/ ExecBegin(t) \/ EndBegin(t) \/
             EndPop(t)
      PROVE  NoZombieBackend'
  BY <1>3 DEF StartCleanup, ExecBegin, EndBegin, EndPop, Evict, At, Goto
<1>4. ASSUME NEW t \in Threads,
             ExecGet(t) \/ ExecLookup(t) \/ ExecLock(t) \/
             ExecCheck(t) \/ ExecCall(t) \/ ExecReturn(t)
      PROVE  NoZombieBackend'
  BY <1>4 DEF ExecGet, ExecLookup, ExecLock, ExecCheck, ExecCall, ExecReturn,
     Evict, LockFree, MayExecute, Unlock, At, Goto
<1>5. ASSUME NEW t \in Threads, CreateSession(t) PROVE NoZombieBackend'
  BY <1>5 DEF CreateSession, Evict, At, Goto
<1>6. ASSUME NEW t \in Threads, StartGet(t) PROVE NoZombieBackend'
  BY <1>6 DEF StartGet, Evict, At, Goto
<1>7. ASSUME NEW t \in Threads, RegisterBackend(t) PROVE NoZombieBackend'
  BY <1>7 DEF RegisterBackend, MayTrack, Closed, At, Goto
<1>8. ASSUME NEW t \in Threads, InitOk(t) PROVE NoZombieBackend'
  BY <1>8 DEF InitOk, At, Goto
<1>9. ASSUME NEW t \in Threads, InitFails(t) PROVE NoZombieBackend'
  BY <1>9 DEF InitFails, Closed, At, Goto
<1>10. ASSUME NEW t \in Threads, Unregister(t) PROVE NoZombieBackend'
  BY <1>10 DEF Unregister, ReapFailed, Revoked, Enqueue, At, Goto
<1>11. ASSUME NEW t \in Threads, CreateInline(t) PROVE NoZombieBackend'
  BY <1>11 DEF CreateInline, At, Goto
<1>12. ASSUME NEW t \in Threads, Publish(t) PROVE NoZombieBackend'
  BY <1>12 DEF Publish, StartupAfterPublish, StillCurrent, MayTrack, At, Goto
<1>13. ASSUME NEW t \in Threads, AbortReap(t) PROVE NoZombieBackend'
  BY <1>13 DEF AbortReap, ReapFailed, Revoked, Enqueue, At, Goto
<1>14. ASSUME NEW t \in Threads, AbortClose(t) PROVE NoZombieBackend'
  BY <1>14 DEF AbortClose, Closed, Revoked, Enqueue, At, Goto
<1>15. ASSUME NEW t \in Threads, Release(t) PROVE NoZombieBackend'
  BY <1>15 DEF Release, Revoked, Enqueue
<1>16. ASSUME NEW t \in Threads, ReleaseInline(t) PROVE NoZombieBackend'
  BY <1>16 DEF ReleaseInline, Closed, Revoked, Enqueue, Running
<1>17. ASSUME NEW s \in Sids, ReaperStep(s) PROVE NoZombieBackend'
  BY <1>17 DEF ReaperStep, ReapTake, Reap, ReapResidual, Requeued, Closed
<1>18. CASE ShutdownBegin
  BY <1>18 DEF ShutdownBegin
<1>19. CASE ShutdownRevoke
  BY <1>19 DEF ShutdownRevoke, Revoked
<1>20. CASE ShutdownFinish
  BY <1>20 DEF ShutdownFinish, Closed
<1>21. CASE ShutdownDrain
  BY <1>21 DEF ShutdownDrain
<1>22. CASE ShutdownAbort
  BY <1>22 DEF ShutdownAbort, Closed, Enqueue
<1>23. CASE ShutdownAbortPending
  BY <1>23 DEF ShutdownAbortPending
<1>24. CASE BeginLifecycle
  BY <1>24 DEF BeginLifecycle
<1>25. CASE UNCHANGED vars
  BY <1>25 DEF vars
<1>. QED
  BY <1>1, <1>2, <1>3, <1>4, <1>5, <1>6, <1>7, <1>8, <1>9, <1>10, <1>11,
     <1>12, <1>13, <1>14, <1>15, <1>16, <1>17, <1>18, <1>19, <1>20, <1>21,
     <1>22, <1>23, <1>24, <1>25
     DEF Next, ClientStep, HandlerStep, StartStep, ExecStep, ShutdownStep

(* The execution lock of a session has one holder. *)
LEMMA LockStep ==
  ASSUME IInv, [Next]_vars
  PROVE  ExclusiveExecution'
<1> USE DEF mgrVars, exeVars, regVars, backVars, restVars, thrVars, shutVars, IInv,
            TypeOK, Ids, CallIds, ExclusiveExecution, StartPc, LockedPc
<1>1. ASSUME NEW t \in Threads,
             StartBegin(t) \/ StartFailEarly(t) \/ StartFailLate(t) \/
             AbortOwner(t)
      PROVE  ExclusiveExecution'
  BY <1>1 DEF StartBegin, StartFailEarly, StartFailLate, AbortOwner, At, Goto
<1>2. ASSUME NEW t \in Threads,
             StartFail(t) \/ StartAbort(t)
      PROVE  ExclusiveExecution'
  BY <1>2 DEF StartFail, StartAbort, At, Goto
<1>3. ASSUME NEW t \in Threads,
             StartCleanup(t) \/ EndPop(t)
      PROVE  ExclusiveExecution'
  BY <1>3 DEF StartCleanup, EndPop, Evict, At, Goto
<1>4. ASSUME NEW t \in Threads, CreateSession(t) PROVE ExclusiveExecution'
  BY <1>4 DEF CreateSession, Evict, At, Goto
<1>5. ASSUME NEW t \in Threads, StartGet(t) PROVE ExclusiveExecution'
  BY <1>5 DEF StartGet, Evict, At, Goto
<1>6. ASSUME NEW t \in Threads, RegisterBackend(t) PROVE ExclusiveExecution'
  BY <1>6 DEF RegisterBackend, MayTrack, Closed, At, Goto
<1>7. ASSUME NEW t \in Threads, InitOk(t) PROVE ExclusiveExecution'
  BY <1>7 DEF InitOk, At, Goto
<1>8. ASSUME NEW t \in Threads, InitFails(t) PROVE ExclusiveExecution'
  BY <1>8 DEF InitFails, Closed, At, Goto
<1>9. ASSUME NEW t \in Threads, Unregister(t) PROVE ExclusiveExecution'
  BY <1>9 DEF Unregister, ReapFailed, Revoked, Enqueue, At, Goto
<1>10. ASSUME NEW t \in Threads, CreateInline(t) PROVE ExclusiveExecution'
  BY <1>10 DEF CreateInline, At, Goto
<1>11. ASSUME NEW t \in Threads, Publish(t) PROVE ExclusiveExecution'
  BY <1>11 DEF Publish, StartupAfterPublish, StillCurrent, MayTrack, At, Goto
<1>12. ASSUME NEW t \in Threads, AbortReap(t) PROVE ExclusiveExecution'
  BY <1>12 DEF AbortReap, ReapFailed, Revoked, Enqueue, At, Goto
<1>13. ASSUME NEW t \in Threads, AbortClose(t) PROVE ExclusiveExecution'
  BY <1>13 DEF AbortClose, Closed, Revoked, Enqueue, At, Goto
<1>14. ASSUME NEW t \in Threads, ExecBegin(t) PROVE ExclusiveExecution'
  BY <1>14 DEF ExecBegin, Evict, At, Goto
<1>15. ASSUME NEW t \in Threads, ExecGet(t) PROVE ExclusiveExecution'
  BY <1>15 DEF ExecGet, Evict, At, Goto
<1>16. ASSUME NEW t \in Threads, ExecLookup(t) PROVE ExclusiveExecution'
  BY <1>16 DEF ExecLookup, At, Goto
<1>17. ASSUME NEW t \in Threads, ExecLock(t) PROVE ExclusiveExecution'
  BY <1>17, LifecycleAssumption DEF ExecLock, LockFree, At, Goto
<1>18. ASSUME NEW t \in Threads, ExecCheck(t) PROVE ExclusiveExecution'
  BY <1>18 DEF ExecCheck, MayExecute, Unlock, At, Goto
<1>19. ASSUME NEW t \in Threads, ExecCall(t) PROVE ExclusiveExecution'
  BY <1>19 DEF ExecCall, Unlock, At, Goto
<1>20. ASSUME NEW t \in Threads, ExecReturn(t) PROVE ExclusiveExecution'
  BY <1>20 DEF ExecReturn, Unlock, At, Goto
<1>21. ASSUME NEW t \in Threads, EndBegin(t) PROVE ExclusiveExecution'
  BY <1>21 DEF EndBegin, Evict, At, Goto
<1>22. ASSUME NEW t \in Threads, Release(t) PROVE ExclusiveExecution'
  BY <1>22 DEF Release, Revoked, Enqueue
<1>23. ASSUME NEW t \in Threads, ReleaseInline(t) PROVE ExclusiveExecution'
  BY <1>23 DEF ReleaseInline, Closed, Revoked, Enqueue, Running
<1>24. ASSUME NEW s \in Sids, ReaperStep(s) PROVE ExclusiveExecution'
  BY <1>24 DEF ReaperStep, ReapTake, Reap, ReapResidual, Requeued, Closed
<1>25. CASE ShutdownBegin
  BY <1>25 DEF ShutdownBegin
<1>26. CASE ShutdownRevoke
  BY <1>26 DEF ShutdownRevoke, Revoked
<1>27. CASE ShutdownFinish
  BY <1>27 DEF ShutdownFinish, Closed
<1>28. CASE ShutdownDrain
  BY <1>28 DEF ShutdownDrain
<1>29. CASE ShutdownAbort
  BY <1>29 DEF ShutdownAbort, Closed, Enqueue
<1>30. CASE ShutdownAbortPending
  BY <1>30 DEF ShutdownAbortPending
<1>31. CASE BeginLifecycle
  BY <1>31 DEF BeginLifecycle
<1>32. CASE UNCHANGED vars
  BY <1>32 DEF vars
<1>. QED
  BY <1>1, <1>2, <1>3, <1>4, <1>5, <1>6, <1>7, <1>8, <1>9, <1>10, <1>11,
     <1>12, <1>13, <1>14, <1>15, <1>16, <1>17, <1>18, <1>19, <1>20, <1>21,
     <1>22, <1>23, <1>24, <1>25, <1>26, <1>27, <1>28, <1>29, <1>30, <1>31,
     <1>32
     DEF Next, ClientStep, HandlerStep, StartStep, ExecStep, ShutdownStep

(* A thread starts running code only in a backend that is open. *)
LEMMA RunStep ==
  ASSUME IInv, [Next]_vars
  PROVE  RunsInOpen
<1> USE DEF mgrVars, exeVars, regVars, backVars, restVars, thrVars, shutVars, IInv,
            TypeOK, RunsInOpen
<1>1. ASSUME NEW t \in Threads,
             StartBegin(t) \/ StartFailEarly(t) \/ StartFailLate(t) \/
             AbortOwner(t)
      PROVE  RunsInOpen
  BY <1>1 DEF StartBegin, StartFailEarly, StartFailLate, AbortOwner, At, Goto
<1>2. ASSUME NEW t \in Threads,
             StartFail(t) \/ StartAbort(t)
      PROVE  RunsInOpen
  BY <1>2 DEF StartFail, StartAbort, At, Goto
<1>3. ASSUME NEW t \in Threads,
             StartCleanup(t) \/ ExecBegin(t) \/ EndBegin(t) \/
             EndPop(t)
      PROVE  RunsInOpen
  BY <1>3 DEF StartCleanup, ExecBegin, EndBegin, EndPop, Evict, At, Goto
<1>4. ASSUME NEW t \in Threads, CreateSession(t) PROVE RunsInOpen
  BY <1>4 DEF CreateSession, Evict, At, Goto
<1>5. ASSUME NEW t \in Threads, StartGet(t) PROVE RunsInOpen
  BY <1>5 DEF StartGet, Evict, At, Goto
<1>6. ASSUME NEW t \in Threads, RegisterBackend(t) PROVE RunsInOpen
  BY <1>6 DEF RegisterBackend, MayTrack, Closed, At, Goto
<1>7. ASSUME NEW t \in Threads, InitOk(t) PROVE RunsInOpen
  BY <1>7 DEF InitOk, At, Goto
<1>8. ASSUME NEW t \in Threads, InitFails(t) PROVE RunsInOpen
  BY <1>8 DEF InitFails, Closed, At, Goto
<1>9. ASSUME NEW t \in Threads, Unregister(t) PROVE RunsInOpen
  BY <1>9 DEF Unregister, ReapFailed, Revoked, Enqueue, At, Goto
<1>10. ASSUME NEW t \in Threads, CreateInline(t) PROVE RunsInOpen
  BY <1>10 DEF CreateInline, At, Goto
<1>11. ASSUME NEW t \in Threads, Publish(t) PROVE RunsInOpen
  BY <1>11 DEF Publish, StartupAfterPublish, StillCurrent, MayTrack, At, Goto
<1>12. ASSUME NEW t \in Threads, AbortReap(t) PROVE RunsInOpen
  BY <1>12 DEF AbortReap, ReapFailed, Revoked, Enqueue, At, Goto
<1>13. ASSUME NEW t \in Threads, AbortClose(t) PROVE RunsInOpen
  BY <1>13 DEF AbortClose, Closed, Revoked, Enqueue, At, Goto
<1>14. ASSUME NEW t \in Threads, ExecGet(t) PROVE RunsInOpen
  BY <1>14 DEF ExecGet, Evict, At, Goto
<1>15. ASSUME NEW t \in Threads, ExecLookup(t) PROVE RunsInOpen
  BY <1>15 DEF ExecLookup, At, Goto
<1>16. ASSUME NEW t \in Threads, ExecLock(t) PROVE RunsInOpen
  BY <1>16 DEF ExecLock, LockFree, At, Goto
<1>17. ASSUME NEW t \in Threads, ExecCheck(t) PROVE RunsInOpen
  BY <1>17 DEF ExecCheck, MayExecute, Unlock, At, Goto
<1>18. ASSUME NEW t \in Threads, ExecCall(t) PROVE RunsInOpen
  BY <1>18 DEF ExecCall, Unlock, At, Goto
<1>19. ASSUME NEW t \in Threads, ExecReturn(t) PROVE RunsInOpen
  BY <1>19 DEF ExecReturn, Unlock, At, Goto
<1>20. ASSUME NEW t \in Threads, Release(t) PROVE RunsInOpen
  BY <1>20 DEF Release, Revoked, Enqueue
<1>21. ASSUME NEW t \in Threads, ReleaseInline(t) PROVE RunsInOpen
  BY <1>21 DEF ReleaseInline, Closed, Revoked, Enqueue, Running
<1>22. ASSUME NEW s \in Sids, ReaperStep(s) PROVE RunsInOpen
  BY <1>22 DEF ReaperStep, ReapTake, Reap, ReapResidual, Requeued, Closed
<1>23. CASE ShutdownBegin
  BY <1>23 DEF ShutdownBegin
<1>24. CASE ShutdownRevoke
  BY <1>24 DEF ShutdownRevoke, Revoked
<1>25. CASE ShutdownFinish
  BY <1>25 DEF ShutdownFinish, Closed
<1>26. CASE ShutdownDrain
  BY <1>26 DEF ShutdownDrain
<1>27. CASE ShutdownAbort
  BY <1>27 DEF ShutdownAbort, Closed, Enqueue
<1>28. CASE ShutdownAbortPending
  BY <1>28 DEF ShutdownAbortPending
<1>29. CASE BeginLifecycle
  BY <1>29 DEF BeginLifecycle
<1>30. CASE UNCHANGED vars
  BY <1>30 DEF vars
<1>. QED
  BY <1>1, <1>2, <1>3, <1>4, <1>5, <1>6, <1>7, <1>8, <1>9, <1>10, <1>11,
     <1>12, <1>13, <1>14, <1>15, <1>16, <1>17, <1>18, <1>19, <1>20, <1>21,
     <1>22, <1>23, <1>24, <1>25, <1>26, <1>27, <1>28, <1>29, <1>30
     DEF Next, ClientStep, HandlerStep, StartStep, ExecStep, ShutdownStep

-----------------------------------------------------------------------------
LEMMA InitIInv == Init => IInv
<1> SUFFICES ASSUME Init PROVE IInv
  OBVIOUS
<1>1. TypeOK
  BY LifecycleAssumption DEF Init, TypeOK, HandleState, Pc, Phase
<1>2. Ids /\ ShutdownLists /\ ExclusiveExecution
  BY DEF Init, Ids, ShutdownLists, StartIds, StartUnique, CallIds, ExclusiveExecution, StartPc, LockedPc
<1>3. EpochFence /\ LifecycleOwned /\ NoZombieBackend
  BY DEF Init, EpochFence, LifecycleOwned, NoZombieBackend, LiveHandle, StartPc
<1>4. PhaseOrder /\ EpochOrder /\ ListsUsed /\ PublishReady /\ KnownHandles
  BY DEF Init, PhaseOrder, EpochOrder, ListsUsed, PublishReady, KnownHandles
<1>5. QED
  BY <1>1, <1>2, <1>3, <1>4 DEF IInv

(* IInv is inductive. *)
THEOREM Inductive == Spec => []IInv
<1>1. IInv /\ [Next]_vars => IInv'
  BY TypeStep, IdsStep, ListsStep, FenceStep, PhaseStep, OrderStep, UsedStep, ReadyStep, KnownStep,
     OwnedStep, ZombieStep, LockStep DEF IInv
<1>2. QED
  BY InitIInv, <1>1, PTL DEF Spec

(* The variables keep their types. *)
THEOREM TypeCorrect == Spec => []TypeOK
BY Inductive, PTL DEF IInv

(* Every backend that is not closed has an owner that will close it, whatever
   the interleaving of starts, ends, evictions and shutdowns. *)
THEOREM OwnershipIsContinuous == Spec => []LifecycleOwned
BY Inductive, PTL DEF IInv

(* No registration outlives its session without a release on its way. *)
THEOREM NoZombies == Spec => []NoZombieBackend
BY Inductive, PTL DEF IInv

(* Shutdown and a later lifecycle are fenced off from slow starts. *)
THEOREM Fenced == Spec => []EpochFence
BY Inductive, PTL DEF IInv

(* Execute calls of one session are serialised. *)
THEOREM MutualExclusion == Spec => []ExclusiveExecution
BY Inductive, PTL DEF IInv

(* Only a backend that can still serve is published. *)
THEOREM PublicationIsSound == Spec => PublishedIsServable
<1> DEFINE A == \A s \in registry' \ registry : s \in sessions' /\ handle[s] = "open"
<1>1. ASSUME IInv, [Next]_vars PROVE [A]_vars
  <2>1. ASSUME NEW t \in Threads, Publish(t) PROVE A
    BY <1>1, <2>1 DEF Publish, At, StillCurrent, IInv, PublishReady, MayTrack, PhaseOrder
  <2>2. ASSUME NEW t \in Threads, Release(t) PROVE A
    BY <2>2 DEF Release
  <2>3. CASE ShutdownBegin
    BY <2>3 DEF ShutdownBegin
  <2>4. CASE UNCHANGED registry
    BY <2>4
  <2>5. QED
    BY <1>1, <2>1, <2>2, <2>3, <2>4
    DEF Next, ClientStep, HandlerStep, StartStep, ExecStep, ShutdownStep, regVars, vars,
        StartBegin, StartCleanup, CreateSession, StartGet, StartFailEarly, RegisterBackend,
        InitOk, InitFails, Unregister, StartFail, CreateInline, StartFailLate, StartAbort,
        AbortReap, AbortOwner, AbortClose, ExecBegin, ExecGet, ExecLookup, ExecLock,
        ExecCheck, ExecCall, ExecReturn, EndBegin, EndPop, ReleaseInline, ReaperStep, ReapTake, Reap,
        ReapResidual, ShutdownRevoke, ShutdownFinish, ShutdownDrain, ShutdownAbort,
        ShutdownAbortPending, BeginLifecycle
<1>2. QED
  BY Inductive, <1>1, PTL DEF Spec, PublishedIsServable

(* After the release of a session has returned, no call starts running code in
   its backend. *)
THEOREM ReleaseIsFinal == Spec => ReleasedNeverRuns
<1> DEFINE A == \A t \in Threads :
                  pc[t] # "ex_run" /\ pc'[t] = "ex_run" => ~Released(sid[t])
<1>1. ASSUME IInv, [Next]_vars PROVE [A]_vars
  <2>1. RunsInOpen
    BY <1>1, RunStep
  <2>2. QED
    BY <1>1, <2>1 DEF RunsInOpen, IInv, TypeOK, KnownHandles, Released
<1>2. QED
  BY Inductive, <1>1, PTL DEF Spec, ReleasedNeverRuns
=============================================================================
