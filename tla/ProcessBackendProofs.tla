------------------------ MODULE ProcessBackendProofs ------------------------
(***************************************************************************)
(* Proofs about ProcessBackend, for any number of workers, closers and     *)
(* refused kills: its safety invariants and the action properties          *)
(* CloseIsFinal and NoSilentReset.  The inductive invariant is IInv.  What *)
(* it adds to the properties: who is inside the close lock (Locking); that *)
(* all marks and local variables speak of the latest worker (Latest) and   *)
(* that the earlier ones are gone (Past); what a step of a kill has        *)
(* established for the decision that follows it (Killed, Deciding).        *)
(***************************************************************************)
EXTENDS ProcessBackend, TLAPS

InLock == {"kill", "sweep", "confirm", "decide"}
RunnerLock == {"prepare", "prepared", "destroy", "destroyed", "destroy_end"}

(* Nothing of the worker of this start is visible yet. *)
Unseen == {"spawn", "spawning", "publish"}

(* The worker of this start was spawned, and has not been put to use. *)
NewPc == {"publish", "init", "wait", "cleanup", "join", "discard", "confirm_start",
          "destroy", "destroyed", "destroy_end"}

(* What holds the close lock is inside, and nobody finishes a backend that is
   not revoked, is finished or is being restarted. *)
Locking ==
  /\ \A c \in Closers : cpc[c] \in InLock => closeLock = c /\ Closing /\ ~finalized /\ ~restarting
  /\ \A c \in Closers : cpc[c] = "try" => Closing
  /\ vpc # "none" => Closing
  /\ rpc \in RunnerLock => closeLock = "runner"

(* The state of the backend and the place of the runner. *)
RunnerState ==
  /\ restarting => rpc \in StartPc \cup {"prepare", "prepared"}
  /\ rpc \in {"prepare", "prepared"} => restarting /\ ~finalized
  /\ state \in {"dead", "alive"} => rpc = "idle"

(* Everything the backend and its closers keep of a process is of the latest. *)
Latest ==
  /\ proc \in {None, spawned} /\ confirmed \in {None, spawned} /\ unconfirmed \in {None, spawned}
  /\ \A c \in Closers : cproc[c] \in {None, spawned}
  /\ rpc \in Unseen => proc = None /\ confirmed = None /\ unconfirmed = None
  /\ rpc \in Unseen \/ restarting \/ ~Closing => \A c \in Closers : cproc[c] = None

(* Workers are spawned in the order of their numbers. *)
Numbers ==
  /\ rpc = "spawning" => spawned < MaxProcs
  /\ rpc \in NewPc => spawned # 0
  /\ \A p \in Procs : root[p] = "none" <=> p > spawned
  /\ \A p \in inited : p <= spawned
  /\ rpc = "publish" => spawned \notin inited

(* A worker that was put to use has its group and its init; the one of a running
   start was not put to use. *)
Serving ==
  /\ served \subseteq grouped
  /\ rpc \in NewPc => spawned \notin served
  /\ rpc \in {"wait", "confirm_start"} => spawned \in inited
  /\ rpc = "confirm_start" => spawned \in grouped
  /\ rpc \in {"init", "wait", "confirm_start"} /\ ~Closing => confirmed = None /\ proc = spawned

(* Before a worker is spawned nothing is left of the ones before it. *)
Past ==
  \A p \in Procs :
    p < spawned \/ (p = spawned /\ rpc \in {"spawn", "spawning"})
      => ~Alive(p) /\ (p \in served => p \notin forked)

(* The worker was signalled, and descendants the signal missed are on record. *)
Doomed(p) == root[p] \in {"dying", "dead"} /\ (p \in forked => unconfirmed = p)

(* What the kills have established for the worker that was put to use last. *)
Killed ==
  spawned \in served =>
    /\ rpc \in {"prepare", "prepared", "spawn", "spawning", "start_failed", "term_join"} \/ state = "dead"
         => Doomed(spawned)
    /\ confirmed = spawned => root[spawned] \in {"dying", "dead"} /\ spawned \notin forked
    /\ proc = None => Gone(spawned)

(* What a closer has established when it decides. *)
Deciding ==
  \A c \in Closers : cpc[c] \in InLock =>
    /\ proc # None /\ proc \in served => cproc[c] = proc
    /\ cproc[c] = None /\ spawned \in inited => ~Alive(spawned)
    /\ cproc[c] = spawned /\ spawned \in served =>
         /\ cpc[c] = "sweep" /\ Alive(spawned) => Doomed(spawned)
         /\ cpc[c] \in {"confirm", "decide"} => Doomed(spawned)
    /\ cpc[c] = "decide" /\ rpc = "wait" => ~chan

(* A worker is forgotten when it is dead; or its start will see that the backend
   was closed meanwhile. *)
Forgotten == proc = None /\ rpc # "publish" /\ spawned # 0 => ~Alive(spawned) \/ finalized

(* A closed backend. *)
Final ==
  /\ finalized =>
       /\ state = "closed"
       /\ \A p \in served : Gone(p)
       /\ \A p \in inited : ~Alive(p)
       /\ rpc = "wait" => ~chan
       /\ rpc \in {"confirm_start", "destroy", "destroyed", "destroy_end"} => proc = None /\ unconfirmed = None
  /\ ~slot => finalized

(* Numbers of generations, and the notice of a restart. *)
Generations ==
  /\ generation <= spawned
  /\ rpc \in {"publish", "init", "wait"} => generation < spawned
  /\ ~restarting /\ rpc \in Unseen \cup {"init", "wait"} => generation = 0
  /\ ~restarting /\ rpc = "confirm_start" => generation <= 1
  /\ state = "alive" \/ rpc = "exec" => generation = lastSeen \/ generation <= 1 \/ marker = generation

IInv ==
  /\ TypeOK /\ Locking /\ RunnerState /\ Latest /\ Numbers /\ Serving /\ Past
  /\ Killed /\ Deciding /\ Forgotten /\ Final /\ Generations

(* What _confirm_tree_cleanup leaves is of the right types. *)
LEMMA ConfirmTypes ==
  ASSUME TypeOK, ConfirmTree
  PROVE  /\ root' \in [Procs -> {"none", "alive", "dying", "dead"}]
         /\ forked' \subseteq grouped /\ refused' \in 0..MaxRefused
         /\ confirmed' \in Procs \cup {None} /\ unconfirmed' \in Procs \cup {None}
BY BackendAssumption
   DEF TypeOK, ConfirmTree, GroupKilled, KillRefused, NoGroup, Doom, MarkConfirmed, markVars, treeVars

(* Every step keeps the types; a worker that is spawned has a number within
   the bound. *)
LEMMA TypeOKStep ==
  ASSUME IInv, [Next]_vars
  PROVE  TypeOK'
<1> USE BackendAssumption DEF lifeVars, genVars, markVars, treeVars, frameVars, runVars,
   closeVars, IInv, TypeOK
<1>1. CASE StartChecked
  BY <1>1 DEF StartChecked, RunnerTo, Closing, RunnerPc, StartPc
<1>2. CASE Spawn
  BY <1>2 DEF Spawn, RunnerPc, StartPc, Numbers, Procs
<1>3. CASE PublishRuntime
  BY <1>3 DEF PublishRuntime, RunnerTo, Closing, RunnerPc, StartPc, Numbers, NewPc, Procs, None
<1>4. CASE SendInit
  BY <1>4 DEF SendInit, RunnerTo, Closing, RunnerPc, StartPc, Numbers, NewPc, Procs, None
<1>5. CASE InitOk
  BY <1>5 DEF InitOk, RunnerTo, RunnerPc, StartPc, Numbers, Generations, Unseen, Procs
<1>6. CASE InitFails
  BY <1>6 DEF InitFails, RunnerTo, RunnerPc, StartPc
<1>7. CASE CleanupKill
  <2>1. chan' \in BOOLEAN /\ signalled' \in BOOLEAN
    BY <1>7 DEF CleanupKill
  <2>2. root' \in [Procs -> {"none", "alive", "dying", "dead"}] /\ forked' \subseteq grouped /\ refused' \in 0..MaxRefused
    BY <1>7 DEF CleanupKill, GroupKilled, Doom, KillRefused
  <2>3. QED
    BY <1>7, <2>1, <2>2 DEF CleanupKill, RunnerPc, StartPc
<1>8. CASE CleanupJoin
  <2>1. root' \in [Procs -> {"none", "alive", "dying", "dead"}] /\ forked' \subseteq grouped /\ refused' \in 0..MaxRefused
    BY <1>8 DEF CleanupJoin, GroupKilled, Doom, KillRefused
  <2>2. confirmed' \in Procs \cup {None} /\ unconfirmed' \in Procs \cup {None}
    BY <1>8 DEF CleanupJoin, MarkConfirmed, Numbers, NewPc, Procs
  <2>3. QED
    BY <1>8, <2>1, <2>2 DEF CleanupJoin, RunnerTo, RunnerPc, StartPc
<1>9. CASE Discard
  BY <1>9 DEF Discard, Alive, RunnerTo, RunnerPc, StartPc
<1>10. CASE StartFailed
  <2>1. CASE restarting
    <3>1. restarting' \in BOOLEAN /\ state' \in {"starting", "alive", "executing", "dead", "closing", "closed"}
      BY <1>10, <2>1 DEF StartFailed, RestartOver
    <3>2. QED
      BY <1>10, <2>1, <3>1 DEF StartFailed, RunnerTo, RunnerPc
  <2>2. CASE ~restarting /\ Closing
    BY <1>10, <2>2 DEF StartFailed, RunnerTo, RunnerPc
  <2>3. CASE ~restarting /\ ~Closing
    BY <1>10, <2>3 DEF StartFailed, RunnerTo, RunnerPc
  <2>4. QED
    BY <2>1, <2>2, <2>3
<1>11. CASE ConfirmStart
  <2>1. CASE WasRevoked
    BY <1>11, <2>1 DEF ConfirmStart, RunnerTo, RunnerPc, StartPc
  <2>2. CASE ~WasRevoked
    <3>1. restarting' \in BOOLEAN /\ marker' \in 0..MaxProcs
      BY <1>11, <2>2 DEF ConfirmStart, RestartOver, MarkerOf
    <3>2. served' \subseteq inited'
      BY <1>11, <2>2 DEF ConfirmStart, Serving
    <3>3. QED
      BY <1>11, <2>2, <3>1, <3>2 DEF ConfirmStart, RunnerTo, RunnerPc
  <2>3. QED
    BY <2>1, <2>2
<1>12. CASE DestroyKill
  BY <1>12 DEF DestroyKill, GroupKilled, NoGroup, KillRefused, Doom, MarkConfirmed, KillTree,
     KillCurrent, RunnerTo, MarkUnconfirmed, RunnerPc, StartPc
<1>13. CASE DestroyConfirm
  <2>1. chan' \in BOOLEAN
    BY <1>13 DEF DestroyConfirm
  <2>2. QED
    BY <1>13, <2>1, ConfirmTypes DEF DestroyConfirm, RunnerTo, RunnerPc, StartPc
<1>14. CASE DestroyDecide
  BY <1>14 DEF DestroyDecide, Incomplete, Alive, RestartOver, RunnerTo, RunnerPc, StartPc
<1>15. CASE Prepare
  <2>1. chan' \in BOOLEAN
    BY <1>15 DEF Prepare
  <2>2. QED
    BY <1>15, <2>1, ConfirmTypes DEF Prepare, RunnerTo, RunnerPc, StartPc
<1>16. CASE Prepared
  <2>1. restarting' \in BOOLEAN /\ state' \in {"starting", "alive", "executing", "dead", "closing", "closed"}
    BY <1>16 DEF Prepared, RestartOver
  <2>2. proc' \in Procs \cup {None} /\ confirmed' \in Procs \cup {None}
    BY <1>16 DEF Prepared
  <2>3. rpc' \in RunnerPc
    BY <1>16 DEF Prepared, RunnerTo, RunnerPc, StartPc
  <2>4. QED
    BY <1>16, <2>1, <2>2, <2>3 DEF Prepared, RunnerTo
<1>17. CASE ExecResult
  BY <1>17 DEF ExecResult, Closing, RunnerTo, RunnerPc, StartPc
<1>18. CASE ExecClosed
  BY <1>18 DEF ExecClosed, Closing, RunnerTo, RunnerPc, StartPc
<1>19. CASE ExecLost
  BY <1>19 DEF ExecLost, RunnerTo, RunnerPc, StartPc
<1>20. CASE TerminateKill
  BY <1>20 DEF TerminateKill, GroupKilled, NoGroup, KillRefused, Doom, MarkConfirmed, KillTree,
     KillCurrent, RunnerTo, MarkUnconfirmed, RunnerPc, StartPc
<1>21. CASE TerminateDone
  <2>1. chan' \in BOOLEAN /\ state' \in {"starting", "alive", "executing", "dead", "closing", "closed"}
    BY <1>21 DEF TerminateDone
  <2>2. QED
    BY <1>21, <2>1 DEF TerminateDone, RunnerTo, RunnerPc, StartPc
<1>22. CASE Execute
  BY <1>22 DEF Execute, RunnerTo, RunnerPc, StartPc
<1>23. CASE ExecuteDead
  BY <1>23 DEF ExecuteDead, RunnerTo, RunnerPc, StartPc
<1>24. CASE RequestClose
  BY <1>24 DEF RequestClose, Closing
<1>25. CASE RevokeKill
  BY <1>25 DEF RevokeKill, GroupKilled, NoGroup, KillRefused, Doom, MarkConfirmed, KillTree,
     KillCurrent, MarkUnconfirmed
<1>26. CASE RevokeConn
  BY <1>26 DEF RevokeConn
<1>27. ASSUME NEW c \in Closers, Finish(c) PROVE TypeOK'
  BY <1>27 DEF Finish, Closing, MayFinish, CloserTo, CloserPc
<1>28. ASSUME NEW c \in Closers, AbortGiveUp(c) PROVE TypeOK'
  BY <1>28 DEF AbortGiveUp, MayFinish, CloserTo, CloserPc
<1>29. ASSUME NEW c \in Closers, AbortKill(c) PROVE TypeOK'
  BY <1>29 DEF AbortKill, GroupKilled, NoGroup, KillRefused, Doom, MarkConfirmed, Closing,
     KillTree, KillCurrent, MarkUnconfirmed, CloserTo, CloserPc
<1>30. ASSUME NEW c \in Closers, FinishKill(c) PROVE TypeOK'
  BY <1>30 DEF FinishKill, GroupKilled, NoGroup, KillRefused, Doom, MarkConfirmed, Alive,
     KillTree, MarkUnconfirmed, CloserTo, CloserPc
<1>31. ASSUME NEW c \in Closers, FinishSweep(c) PROVE TypeOK'
  BY <1>31 DEF FinishSweep, GroupKilled, NoGroup, KillRefused, Doom, MarkConfirmed, Alive,
     KillTree, MarkUnconfirmed, CloserTo, CloserPc
<1>32. ASSUME NEW c \in Closers, FinishConfirm(c) PROVE TypeOK'
  <2>1. chan' \in BOOLEAN
    BY <1>32 DEF FinishConfirm
  <2>2. QED
    BY <1>32, <2>1, ConfirmTypes DEF FinishConfirm, CloserTo, CloserPc
<1>33. ASSUME NEW c \in Closers, FinishDecide(c) PROVE TypeOK'
  <2>1. finalized' \in BOOLEAN /\ slot' \in BOOLEAN
    BY <1>33 DEF FinishDecide, SlotAfterResidual
  <2>2. /\ proc' \in Procs \cup {None} /\ confirmed' \in Procs \cup {None}
        /\ state' \in {"starting", "alive", "executing", "dead", "closing", "closed"}
    BY <1>33 DEF FinishDecide
  <2>3. QED
    BY <1>33, <2>1, <2>2 DEF FinishDecide, CloserTo, CloserPc
<1>34. ASSUME NEW p \in Procs, MakeGroup(p) PROVE TypeOK'
  BY <1>34 DEF MakeGroup
<1>35. ASSUME NEW p \in Procs, Fork(p) PROVE TypeOK'
  BY <1>35 DEF Fork
<1>36. ASSUME NEW p \in Procs, DescendantsExit(p) PROVE TypeOK'
  BY <1>36 DEF DescendantsExit
<1>37. ASSUME NEW p \in Procs, Exit(p) PROVE TypeOK'
  BY <1>37 DEF Exit, Alive
<1>38. CASE UNCHANGED vars
  BY <1>38 DEF vars
<1> HIDE DEF lifeVars, genVars, markVars, treeVars, frameVars, runVars, closeVars, IInv, TypeOK
<1>39. QED
  BY <1>1, <1>2, <1>3, <1>4, <1>5, <1>6, <1>7, <1>8, <1>9, <1>10, <1>11, <1>12, <1>13, <1>14,
     <1>15, <1>16, <1>17, <1>18, <1>19, <1>20, <1>21, <1>22, <1>23, <1>24, <1>25, <1>26, <1>27,
     <1>28, <1>29, <1>30, <1>31, <1>32, <1>33, <1>34, <1>35, <1>36, <1>37, <1>38
     DEF Next, StartStep, ExecStep, Client, Revoke, FinishStep, System, Done

(* A closer is inside only with the lock, and only of a revoked, unfinished
   backend. *)
LEMMA LockingStep ==
  ASSUME IInv, [Next]_vars
  PROVE  Locking'
<1> USE BackendAssumption DEF lifeVars, genVars, markVars, treeVars, frameVars, runVars,
   closeVars, IInv, TypeOK, Locking, RunnerState, InLock, RunnerLock, Closing, StartPc
<1>1. CASE StartChecked
  BY <1>1 DEF StartChecked, RunnerTo
<1>2. CASE Spawn
  BY <1>2 DEF Spawn
<1>3. CASE PublishRuntime
  BY <1>3 DEF PublishRuntime, RunnerTo
<1>4. CASE SendInit
  BY <1>4 DEF SendInit, RunnerTo
<1>5. CASE InitOk
  BY <1>5 DEF InitOk, RunnerTo
<1>6. CASE InitFails
  BY <1>6 DEF InitFails, RunnerTo
<1>7. CASE CleanupKill
  BY <1>7 DEF CleanupKill, GroupKilled, NoGroup, KillRefused, Doom
<1>8. CASE CleanupJoin
  BY <1>8 DEF CleanupJoin, GroupKilled, NoGroup, KillRefused, Doom, MarkConfirmed, RunnerTo
<1>9. CASE Discard
  BY <1>9 DEF Discard, Alive, RunnerTo
<1>10. CASE StartFailed
  BY <1>10 DEF StartFailed, RestartOver, RunnerTo
<1>11. CASE ConfirmStart
  BY <1>11 DEF ConfirmStart, WasRevoked, RunnerTo, MarkerOf, RestartOver
<1>12. CASE DestroyKill
  BY <1>12 DEF DestroyKill, GroupKilled, NoGroup, KillRefused, Doom, MarkConfirmed, KillTree,
     KillCurrent, RunnerTo, MarkUnconfirmed
<1>13. CASE DestroyConfirm
  BY <1>13 DEF DestroyConfirm, GroupKilled, NoGroup, KillRefused, Doom, MarkConfirmed,
     ConfirmTree, RunnerTo
<1>14. CASE DestroyDecide
  BY <1>14 DEF DestroyDecide, Incomplete, Alive, RestartOver, RunnerTo
<1>15. CASE Prepare
  BY <1>15 DEF Prepare, GroupKilled, NoGroup, KillRefused, Doom, MarkConfirmed, ConfirmTree,
     RunnerTo
<1>16. CASE Prepared
  BY <1>16 DEF Prepared, Incomplete, Alive, RestartOver, RunnerTo
<1>17. CASE ExecResult
  BY <1>17 DEF ExecResult, RunnerTo
<1>18. CASE ExecClosed
  BY <1>18 DEF ExecClosed, RunnerTo
<1>19. CASE ExecLost
  BY <1>19 DEF ExecLost, RunnerTo
<1>20. CASE TerminateKill
  BY <1>20 DEF TerminateKill, GroupKilled, NoGroup, KillRefused, Doom, MarkConfirmed, KillTree,
     KillCurrent, RunnerTo, MarkUnconfirmed
<1>21. CASE TerminateDone
  BY <1>21 DEF TerminateDone, RunnerTo
<1>22. CASE Execute
  BY <1>22 DEF Execute, RunnerTo
<1>23. CASE ExecuteDead
  BY <1>23 DEF ExecuteDead, RunnerTo
<1>24. CASE RequestClose
  BY <1>24 DEF RequestClose
<1>25. CASE RevokeKill
  BY <1>25 DEF RevokeKill, GroupKilled, NoGroup, KillRefused, Doom, MarkConfirmed, KillTree,
     KillCurrent, MarkUnconfirmed
<1>26. CASE RevokeConn
  BY <1>26 DEF RevokeConn
<1>27. ASSUME NEW c \in Closers, Finish(c) PROVE Locking'
  BY <1>27 DEF Finish, MayFinish, CloserTo
<1>28. ASSUME NEW c \in Closers, AbortGiveUp(c) PROVE Locking'
  BY <1>28 DEF AbortGiveUp, MayFinish, CloserTo
<1>29. ASSUME NEW c \in Closers, AbortKill(c) PROVE Locking'
  BY <1>29 DEF AbortKill, GroupKilled, NoGroup, KillRefused, Doom, MarkConfirmed, KillTree,
     KillCurrent, MarkUnconfirmed, CloserTo
<1>30. ASSUME NEW c \in Closers, FinishKill(c) PROVE Locking'
  BY <1>30 DEF FinishKill, GroupKilled, NoGroup, KillRefused, Doom, MarkConfirmed, Alive,
     KillTree, MarkUnconfirmed, CloserTo
<1>31. ASSUME NEW c \in Closers, FinishSweep(c) PROVE Locking'
  BY <1>31 DEF FinishSweep, GroupKilled, NoGroup, KillRefused, Doom, MarkConfirmed, Alive,
     KillTree, MarkUnconfirmed, CloserTo
<1>32. ASSUME NEW c \in Closers, FinishConfirm(c) PROVE Locking'
  BY <1>32 DEF FinishConfirm, GroupKilled, NoGroup, KillRefused, Doom, MarkConfirmed,
     ConfirmTree, CloserTo
<1>33. ASSUME NEW c \in Closers, FinishDecide(c) PROVE Locking'
  BY <1>33 DEF FinishDecide, Incomplete, Alive, SlotAfterResidual, CloserTo
<1>34. ASSUME NEW p \in Procs, MakeGroup(p) PROVE Locking'
  BY <1>34 DEF MakeGroup
<1>35. ASSUME NEW p \in Procs, Fork(p) PROVE Locking'
  BY <1>35 DEF Fork
<1>36. ASSUME NEW p \in Procs, DescendantsExit(p) PROVE Locking'
  BY <1>36 DEF DescendantsExit
<1>37. ASSUME NEW p \in Procs, Exit(p) PROVE Locking'
  BY <1>37 DEF Exit, Alive
<1>38. CASE UNCHANGED vars
  BY <1>38 DEF vars
<1> HIDE DEF lifeVars, genVars, markVars, treeVars, frameVars, runVars, closeVars, IInv, TypeOK,
   Locking, RunnerState, InLock, RunnerLock, Closing, StartPc
<1>39. QED
  BY <1>1, <1>2, <1>3, <1>4, <1>5, <1>6, <1>7, <1>8, <1>9, <1>10, <1>11, <1>12, <1>13, <1>14,
     <1>15, <1>16, <1>17, <1>18, <1>19, <1>20, <1>21, <1>22, <1>23, <1>24, <1>25, <1>26, <1>27,
     <1>28, <1>29, <1>30, <1>31, <1>32, <1>33, <1>34, <1>35, <1>36, <1>37, <1>38
     DEF Next, StartStep, ExecStep, Client, Revoke, FinishStep, System, Done

(* A restart is under way only while the runner is in it. *)
LEMMA RunnerStateStep ==
  ASSUME IInv, [Next]_vars
  PROVE  RunnerState'
<1> USE BackendAssumption DEF lifeVars, genVars, markVars, treeVars, frameVars, runVars,
   closeVars, IInv, TypeOK, Locking, RunnerState, InLock, RunnerLock, Closing, StartPc
<1>1. CASE StartChecked
  BY <1>1 DEF StartChecked, RunnerTo
<1>2. CASE Spawn
  BY <1>2 DEF Spawn
<1>3. CASE PublishRuntime
  BY <1>3 DEF PublishRuntime, RunnerTo
<1>4. CASE SendInit
  BY <1>4 DEF SendInit, RunnerTo
<1>5. CASE InitOk
  BY <1>5 DEF InitOk, RunnerTo
<1>6. CASE InitFails
  BY <1>6 DEF InitFails, RunnerTo
<1>7. CASE CleanupKill
  BY <1>7 DEF CleanupKill, GroupKilled, NoGroup, KillRefused, Doom
<1>8. CASE CleanupJoin
  BY <1>8 DEF CleanupJoin, GroupKilled, NoGroup, KillRefused, Doom, MarkConfirmed, RunnerTo
<1>9. CASE Discard
  BY <1>9 DEF Discard, Alive, RunnerTo
<1>10. CASE StartFailed
  BY <1>10 DEF StartFailed, RestartOver, RunnerTo
<1>11. CASE ConfirmStart
  BY <1>11 DEF ConfirmStart, WasRevoked, RunnerTo, MarkerOf, RestartOver
<1>12. CASE DestroyKill
  BY <1>12 DEF DestroyKill, GroupKilled, NoGroup, KillRefused, Doom, MarkConfirmed, KillTree,
     KillCurrent, RunnerTo, MarkUnconfirmed
<1>13. CASE DestroyConfirm
  BY <1>13 DEF DestroyConfirm, GroupKilled, NoGroup, KillRefused, Doom, MarkConfirmed,
     ConfirmTree, RunnerTo
<1>14. CASE DestroyDecide
  BY <1>14 DEF DestroyDecide, Incomplete, Alive, RestartOver, RunnerTo
<1>15. CASE Prepare
  BY <1>15 DEF Prepare, GroupKilled, NoGroup, KillRefused, Doom, MarkConfirmed, ConfirmTree,
     RunnerTo
<1>16. CASE Prepared
  BY <1>16 DEF Prepared, Incomplete, Alive, RestartOver, RunnerTo
<1>17. CASE ExecResult
  BY <1>17 DEF ExecResult, RunnerTo
<1>18. CASE ExecClosed
  BY <1>18 DEF ExecClosed, RunnerTo
<1>19. CASE ExecLost
  BY <1>19 DEF ExecLost, RunnerTo
<1>20. CASE TerminateKill
  BY <1>20 DEF TerminateKill, GroupKilled, NoGroup, KillRefused, Doom, MarkConfirmed, KillTree,
     KillCurrent, RunnerTo, MarkUnconfirmed
<1>21. CASE TerminateDone
  BY <1>21 DEF TerminateDone, RunnerTo
<1>22. CASE Execute
  BY <1>22 DEF Execute, RunnerTo
<1>23. CASE ExecuteDead
  BY <1>23 DEF ExecuteDead, RunnerTo
<1>24. CASE RequestClose
  BY <1>24 DEF RequestClose
<1>25. CASE RevokeKill
  BY <1>25 DEF RevokeKill, GroupKilled, NoGroup, KillRefused, Doom, MarkConfirmed, KillTree,
     KillCurrent, MarkUnconfirmed
<1>26. CASE RevokeConn
  BY <1>26 DEF RevokeConn
<1>27. ASSUME NEW c \in Closers, Finish(c) PROVE RunnerState'
  BY <1>27 DEF Finish, MayFinish, CloserTo
<1>28. ASSUME NEW c \in Closers, AbortGiveUp(c) PROVE RunnerState'
  BY <1>28 DEF AbortGiveUp, MayFinish, CloserTo
<1>29. ASSUME NEW c \in Closers, AbortKill(c) PROVE RunnerState'
  BY <1>29 DEF AbortKill, GroupKilled, NoGroup, KillRefused, Doom, MarkConfirmed, KillTree,
     KillCurrent, MarkUnconfirmed, CloserTo
<1>30. ASSUME NEW c \in Closers, FinishKill(c) PROVE RunnerState'
  BY <1>30 DEF FinishKill, GroupKilled, NoGroup, KillRefused, Doom, MarkConfirmed, Alive,
     KillTree, MarkUnconfirmed, CloserTo
<1>31. ASSUME NEW c \in Closers, FinishSweep(c) PROVE RunnerState'
  BY <1>31 DEF FinishSweep, GroupKilled, NoGroup, KillRefused, Doom, MarkConfirmed, Alive,
     KillTree, MarkUnconfirmed, CloserTo
<1>32. ASSUME NEW c \in Closers, FinishConfirm(c) PROVE RunnerState'
  BY <1>32 DEF FinishConfirm, GroupKilled, NoGroup, KillRefused, Doom, MarkConfirmed,
     ConfirmTree, CloserTo
<1>33. ASSUME NEW c \in Closers, FinishDecide(c) PROVE RunnerState'
  BY <1>33 DEF FinishDecide, Incomplete, Alive, SlotAfterResidual, CloserTo
<1>34. ASSUME NEW p \in Procs, MakeGroup(p) PROVE RunnerState'
  BY <1>34 DEF MakeGroup
<1>35. ASSUME NEW p \in Procs, Fork(p) PROVE RunnerState'
  BY <1>35 DEF Fork
<1>36. ASSUME NEW p \in Procs, DescendantsExit(p) PROVE RunnerState'
  BY <1>36 DEF DescendantsExit
<1>37. ASSUME NEW p \in Procs, Exit(p) PROVE RunnerState'
  BY <1>37 DEF Exit, Alive
<1>38. CASE UNCHANGED vars
  BY <1>38 DEF vars
<1> HIDE DEF lifeVars, genVars, markVars, treeVars, frameVars, runVars, closeVars, IInv, TypeOK,
   Locking, RunnerState, InLock, RunnerLock, Closing, StartPc
<1>39. QED
  BY <1>1, <1>2, <1>3, <1>4, <1>5, <1>6, <1>7, <1>8, <1>9, <1>10, <1>11, <1>12, <1>13, <1>14,
     <1>15, <1>16, <1>17, <1>18, <1>19, <1>20, <1>21, <1>22, <1>23, <1>24, <1>25, <1>26, <1>27,
     <1>28, <1>29, <1>30, <1>31, <1>32, <1>33, <1>34, <1>35, <1>36, <1>37, <1>38
     DEF Next, StartStep, ExecStep, Client, Revoke, FinishStep, System, Done

(* No step brings an earlier worker back into the fields of the backend or
   into the locals of a closer. *)
LEMMA LatestStep ==
  ASSUME IInv, [Next]_vars
  PROVE  Latest'
<1> USE BackendAssumption DEF lifeVars, genVars, markVars, treeVars, frameVars, runVars,
   closeVars, IInv, TypeOK, Locking, RunnerState, Numbers, Latest, InLock, RunnerLock, Closing,
   StartPc, NewPc, Procs, Unseen, None
<1>1. CASE StartChecked
  BY <1>1 DEF StartChecked, RunnerTo
<1>2. CASE Spawn
  BY <1>2 DEF Spawn
<1>3. CASE PublishRuntime
  BY <1>3 DEF PublishRuntime, RunnerTo
<1>4. CASE SendInit
  BY <1>4 DEF SendInit, RunnerTo
<1>5. CASE InitOk
  BY <1>5 DEF InitOk, RunnerTo
<1>6. CASE InitFails
  BY <1>6 DEF InitFails, RunnerTo
<1>7. CASE CleanupKill
  BY <1>7 DEF CleanupKill, GroupKilled, NoGroup, KillRefused, Doom
<1>8. CASE CleanupJoin
  BY <1>8 DEF CleanupJoin, GroupKilled, NoGroup, KillRefused, Doom, MarkConfirmed, RunnerTo
<1>9. CASE Discard
  BY <1>9 DEF Discard, Alive, RunnerTo
<1>10. CASE StartFailed
  BY <1>10 DEF StartFailed, RestartOver, RunnerTo
<1>11. CASE ConfirmStart
  BY <1>11 DEF ConfirmStart, WasRevoked, RunnerTo, MarkerOf, RestartOver
<1>12. CASE DestroyKill
  BY <1>12 DEF DestroyKill, GroupKilled, NoGroup, KillRefused, Doom, MarkConfirmed, KillTree,
     KillCurrent, RunnerTo, MarkUnconfirmed
<1>13. CASE DestroyConfirm
  BY <1>13 DEF DestroyConfirm, GroupKilled, NoGroup, KillRefused, Doom, MarkConfirmed,
     ConfirmTree, RunnerTo
<1>14. CASE DestroyDecide
  BY <1>14 DEF DestroyDecide, Incomplete, Alive, RestartOver, RunnerTo
<1>15. CASE Prepare
  BY <1>15 DEF Prepare, GroupKilled, NoGroup, KillRefused, Doom, MarkConfirmed, ConfirmTree,
     RunnerTo
<1>16. CASE Prepared
  BY <1>16 DEF Prepared, Incomplete, Alive, RestartOver, RunnerTo
<1>17. CASE ExecResult
  BY <1>17 DEF ExecResult, RunnerTo
<1>18. CASE ExecClosed
  BY <1>18 DEF ExecClosed, RunnerTo
<1>19. CASE ExecLost
  BY <1>19 DEF ExecLost, RunnerTo
<1>20. CASE TerminateKill
  BY <1>20 DEF TerminateKill, GroupKilled, NoGroup, KillRefused, Doom, MarkConfirmed, KillTree,
     KillCurrent, RunnerTo, MarkUnconfirmed
<1>21. CASE TerminateDone
  BY <1>21 DEF TerminateDone, RunnerTo
<1>22. CASE Execute
  BY <1>22 DEF Execute, RunnerTo
<1>23. CASE ExecuteDead
  BY <1>23 DEF ExecuteDead, RunnerTo
<1>24. CASE RequestClose
  BY <1>24 DEF RequestClose
<1>25. CASE RevokeKill
  BY <1>25 DEF RevokeKill, GroupKilled, NoGroup, KillRefused, Doom, MarkConfirmed, KillTree,
     KillCurrent, MarkUnconfirmed
<1>26. CASE RevokeConn
  BY <1>26 DEF RevokeConn
<1>27. ASSUME NEW c \in Closers, Finish(c) PROVE Latest'
  BY <1>27 DEF Finish, MayFinish, CloserTo
<1>28. ASSUME NEW c \in Closers, AbortGiveUp(c) PROVE Latest'
  BY <1>28 DEF AbortGiveUp, MayFinish, CloserTo
<1>29. ASSUME NEW c \in Closers, AbortKill(c) PROVE Latest'
  BY <1>29 DEF AbortKill, GroupKilled, NoGroup, KillRefused, Doom, MarkConfirmed, KillTree,
     KillCurrent, MarkUnconfirmed, CloserTo
<1>30. ASSUME NEW c \in Closers, FinishKill(c) PROVE Latest'
  BY <1>30 DEF FinishKill, GroupKilled, NoGroup, KillRefused, Doom, MarkConfirmed, Alive,
     KillTree, MarkUnconfirmed, CloserTo
<1>31. ASSUME NEW c \in Closers, FinishSweep(c) PROVE Latest'
  BY <1>31 DEF FinishSweep, GroupKilled, NoGroup, KillRefused, Doom, MarkConfirmed, Alive,
     KillTree, MarkUnconfirmed, CloserTo
<1>32. ASSUME NEW c \in Closers, FinishConfirm(c) PROVE Latest'
  BY <1>32 DEF FinishConfirm, GroupKilled, NoGroup, KillRefused, Doom, MarkConfirmed,
     ConfirmTree, CloserTo
<1>33. ASSUME NEW c \in Closers, FinishDecide(c) PROVE Latest'
  BY <1>33 DEF FinishDecide, Incomplete, Alive, SlotAfterResidual, CloserTo
<1>34. ASSUME NEW p \in Procs, MakeGroup(p) PROVE Latest'
  BY <1>34 DEF MakeGroup
<1>35. ASSUME NEW p \in Procs, Fork(p) PROVE Latest'
  BY <1>35 DEF Fork
<1>36. ASSUME NEW p \in Procs, DescendantsExit(p) PROVE Latest'
  BY <1>36 DEF DescendantsExit
<1>37. ASSUME NEW p \in Procs, Exit(p) PROVE Latest'
  BY <1>37 DEF Exit, Alive
<1>38. CASE UNCHANGED vars
  BY <1>38 DEF vars
<1> HIDE DEF lifeVars, genVars, markVars, treeVars, frameVars, runVars, closeVars, IInv, TypeOK,
   Locking, RunnerState, Numbers, Latest, InLock, RunnerLock, Closing, StartPc, NewPc, Procs,
   Unseen, None
<1>39. QED
  BY <1>1, <1>2, <1>3, <1>4, <1>5, <1>6, <1>7, <1>8, <1>9, <1>10, <1>11, <1>12, <1>13, <1>14,
     <1>15, <1>16, <1>17, <1>18, <1>19, <1>20, <1>21, <1>22, <1>23, <1>24, <1>25, <1>26, <1>27,
     <1>28, <1>29, <1>30, <1>31, <1>32, <1>33, <1>34, <1>35, <1>36, <1>37, <1>38
     DEF Next, StartStep, ExecStep, Client, Revoke, FinishStep, System, Done

(* Workers are spawned in order, each number once. *)
LEMMA NumbersStep ==
  ASSUME IInv, [Next]_vars
  PROVE  Numbers'
<1> USE BackendAssumption DEF lifeVars, genVars, markVars, treeVars, frameVars, runVars,
   closeVars, IInv, TypeOK, Latest, Numbers, Unseen, Closing, None, NewPc, Procs
<1>1. CASE StartChecked
  BY <1>1 DEF StartChecked, RunnerTo
<1>2. CASE Spawn
  BY <1>2 DEF Spawn
<1>3. CASE PublishRuntime
  BY <1>3 DEF PublishRuntime, RunnerTo
<1>4. CASE SendInit
  BY <1>4 DEF SendInit, RunnerTo
<1>5. CASE InitOk
  BY <1>5 DEF InitOk, RunnerTo
<1>6. CASE InitFails
  BY <1>6 DEF InitFails, RunnerTo
<1>7. CASE CleanupKill
  BY <1>7 DEF CleanupKill, GroupKilled, NoGroup, KillRefused, Doom
<1>8. CASE CleanupJoin
  BY <1>8 DEF CleanupJoin, GroupKilled, NoGroup, KillRefused, Doom, MarkConfirmed, RunnerTo
<1>9. CASE Discard
  BY <1>9 DEF Discard, Alive, RunnerTo
<1>10. CASE StartFailed
  BY <1>10 DEF StartFailed, RestartOver, RunnerTo
<1>11. CASE ConfirmStart
  BY <1>11 DEF ConfirmStart, WasRevoked, RunnerTo, MarkerOf, RestartOver
<1>12. CASE DestroyKill
  BY <1>12 DEF DestroyKill, GroupKilled, NoGroup, KillRefused, Doom, MarkConfirmed, KillTree,
     KillCurrent, RunnerTo, MarkUnconfirmed
<1>13. CASE DestroyConfirm
  BY <1>13 DEF DestroyConfirm, GroupKilled, NoGroup, KillRefused, Doom, MarkConfirmed,
     ConfirmTree, RunnerTo
<1>14. CASE DestroyDecide
  BY <1>14 DEF DestroyDecide, Incomplete, Alive, RestartOver, RunnerTo
<1>15. CASE Prepare
  BY <1>15 DEF Prepare, GroupKilled, NoGroup, KillRefused, Doom, MarkConfirmed, ConfirmTree,
     RunnerTo
<1>16. CASE Prepared
  BY <1>16 DEF Prepared, Incomplete, Alive, RestartOver, RunnerTo
<1>17. CASE ExecResult
  BY <1>17 DEF ExecResult, RunnerTo
<1>18. CASE ExecClosed
  BY <1>18 DEF ExecClosed, RunnerTo
<1>19. CASE ExecLost
  BY <1>19 DEF ExecLost, RunnerTo
<1>20. CASE TerminateKill
  BY <1>20 DEF TerminateKill, GroupKilled, NoGroup, KillRefused, Doom, MarkConfirmed, KillTree,
     KillCurrent, RunnerTo, MarkUnconfirmed
<1>21. CASE TerminateDone
  BY <1>21 DEF TerminateDone, RunnerTo
<1>22. CASE Execute
  BY <1>22 DEF Execute, RunnerTo
<1>23. CASE ExecuteDead
  BY <1>23 DEF ExecuteDead, RunnerTo
<1>24. CASE RequestClose
  BY <1>24 DEF RequestClose
<1>25. CASE RevokeKill
  BY <1>25 DEF RevokeKill, GroupKilled, NoGroup, KillRefused, Doom, MarkConfirmed, KillTree,
     KillCurrent, MarkUnconfirmed
<1>26. CASE RevokeConn
  BY <1>26 DEF RevokeConn
<1>27. ASSUME NEW c \in Closers, Finish(c) PROVE Numbers'
  BY <1>27 DEF Finish, MayFinish, CloserTo
<1>28. ASSUME NEW c \in Closers, AbortGiveUp(c) PROVE Numbers'
  BY <1>28 DEF AbortGiveUp, MayFinish, CloserTo
<1>29. ASSUME NEW c \in Closers, AbortKill(c) PROVE Numbers'
  BY <1>29 DEF AbortKill, GroupKilled, NoGroup, KillRefused, Doom, MarkConfirmed, KillTree,
     KillCurrent, MarkUnconfirmed, CloserTo
<1>30. ASSUME NEW c \in Closers, FinishKill(c) PROVE Numbers'
  BY <1>30 DEF FinishKill, GroupKilled, NoGroup, KillRefused, Doom, MarkConfirmed, Alive,
     KillTree, MarkUnconfirmed, CloserTo
<1>31. ASSUME NEW c \in Closers, FinishSweep(c) PROVE Numbers'
  BY <1>31 DEF FinishSweep, GroupKilled, NoGroup, KillRefused, Doom, MarkConfirmed, Alive,
     KillTree, MarkUnconfirmed, CloserTo
<1>32. ASSUME NEW c \in Closers, FinishConfirm(c) PROVE Numbers'
  BY <1>32 DEF FinishConfirm, GroupKilled, NoGroup, KillRefused, Doom, MarkConfirmed,
     ConfirmTree, CloserTo
<1>33. ASSUME NEW c \in Closers, FinishDecide(c) PROVE Numbers'
  BY <1>33 DEF FinishDecide, Incomplete, Alive, SlotAfterResidual, CloserTo
<1>34. ASSUME NEW p \in Procs, MakeGroup(p) PROVE Numbers'
  BY <1>34 DEF MakeGroup
<1>35. ASSUME NEW p \in Procs, Fork(p) PROVE Numbers'
  BY <1>35 DEF Fork
<1>36. ASSUME NEW p \in Procs, DescendantsExit(p) PROVE Numbers'
  BY <1>36 DEF DescendantsExit
<1>37. ASSUME NEW p \in Procs, Exit(p) PROVE Numbers'
  BY <1>37 DEF Exit, Alive
<1>38. CASE UNCHANGED vars
  BY <1>38 DEF vars
<1> HIDE DEF lifeVars, genVars, markVars, treeVars, frameVars, runVars, closeVars, IInv, TypeOK,
   Latest, Numbers, Unseen, Closing, None, NewPc, Procs
<1>39. QED
  BY <1>1, <1>2, <1>3, <1>4, <1>5, <1>6, <1>7, <1>8, <1>9, <1>10, <1>11, <1>12, <1>13, <1>14,
     <1>15, <1>16, <1>17, <1>18, <1>19, <1>20, <1>21, <1>22, <1>23, <1>24, <1>25, <1>26, <1>27,
     <1>28, <1>29, <1>30, <1>31, <1>32, <1>33, <1>34, <1>35, <1>36, <1>37, <1>38
     DEF Next, StartStep, ExecStep, Client, Revoke, FinishStep, System, Done

(* A worker is put to use only after its init, and its start ends then. *)
LEMMA ServingStep ==
  ASSUME IInv, [Next]_vars
  PROVE  Serving'
<1> USE BackendAssumption DEF lifeVars, genVars, markVars, treeVars, frameVars, runVars,
   closeVars, IInv, TypeOK, Locking, RunnerState, Latest, Numbers, Serving, InLock, RunnerLock,
   Closing, StartPc, Unseen, None, NewPc, Procs
<1>1. CASE StartChecked
  BY <1>1 DEF StartChecked, RunnerTo
<1>2. CASE Spawn
  BY <1>2 DEF Spawn
<1>3. CASE PublishRuntime
  BY <1>3 DEF PublishRuntime, RunnerTo
<1>4. CASE SendInit
  BY <1>4 DEF SendInit, RunnerTo
<1>5. CASE InitOk
  BY <1>5 DEF InitOk, RunnerTo
<1>6. CASE InitFails
  BY <1>6 DEF InitFails, RunnerTo
<1>7. CASE CleanupKill
  BY <1>7 DEF CleanupKill, GroupKilled, NoGroup, KillRefused, Doom
<1>8. CASE CleanupJoin
  BY <1>8 DEF CleanupJoin, GroupKilled, NoGroup, KillRefused, Doom, MarkConfirmed, RunnerTo
<1>9. CASE Discard
  BY <1>9 DEF Discard, Alive, RunnerTo
<1>10. CASE StartFailed
  BY <1>10 DEF StartFailed, RestartOver, RunnerTo
<1>11. CASE ConfirmStart
  <2>1. CASE WasRevoked
    <3>1. rpc = "confirm_start" /\ rpc' = "destroy" /\ UNCHANGED <<spawned, frameVars>>
      BY <1>11, <2>1 DEF ConfirmStart, RunnerTo
    <3>2. QED
      BY <3>1
  <2>2. CASE ~WasRevoked
    BY <1>11, <2>2 DEF ConfirmStart, RunnerTo, RestartOver, WasRevoked
  <2>3. QED
    BY <2>1, <2>2
<1>12. CASE DestroyKill
  BY <1>12 DEF DestroyKill, GroupKilled, NoGroup, KillRefused, Doom, MarkConfirmed, KillTree,
     KillCurrent, RunnerTo, MarkUnconfirmed
<1>13. CASE DestroyConfirm
  BY <1>13 DEF DestroyConfirm, GroupKilled, NoGroup, KillRefused, Doom, MarkConfirmed,
     ConfirmTree, RunnerTo
<1>14. CASE DestroyDecide
  BY <1>14 DEF DestroyDecide, Incomplete, Alive, RestartOver, RunnerTo
<1>15. CASE Prepare
  BY <1>15 DEF Prepare, GroupKilled, NoGroup, KillRefused, Doom, MarkConfirmed, ConfirmTree,
     RunnerTo
<1>16. CASE Prepared
  BY <1>16 DEF Prepared, Incomplete, Alive, RestartOver, RunnerTo
<1>17. CASE ExecResult
  BY <1>17 DEF ExecResult, RunnerTo
<1>18. CASE ExecClosed
  BY <1>18 DEF ExecClosed, RunnerTo
<1>19. CASE ExecLost
  BY <1>19 DEF ExecLost, RunnerTo
<1>20. CASE TerminateKill
  BY <1>20 DEF TerminateKill, GroupKilled, NoGroup, KillRefused, Doom, MarkConfirmed, KillTree,
     KillCurrent, RunnerTo, MarkUnconfirmed
<1>21. CASE TerminateDone
  BY <1>21 DEF TerminateDone, RunnerTo
<1>22. CASE Execute
  BY <1>22 DEF Execute, RunnerTo
<1>23. CASE ExecuteDead
  BY <1>23 DEF ExecuteDead, RunnerTo
<1>24. CASE RequestClose
  BY <1>24 DEF RequestClose
<1>25. CASE RevokeKill
  BY <1>25 DEF RevokeKill, GroupKilled, NoGroup, KillRefused, Doom, MarkConfirmed, KillTree,
     KillCurrent, MarkUnconfirmed
<1>26. CASE RevokeConn
  BY <1>26 DEF RevokeConn
<1>27. ASSUME NEW c \in Closers, Finish(c) PROVE Serving'
  BY <1>27 DEF Finish, MayFinish, CloserTo
<1>28. ASSUME NEW c \in Closers, AbortGiveUp(c) PROVE Serving'
  BY <1>28 DEF AbortGiveUp, MayFinish, CloserTo
<1>29. ASSUME NEW c \in Closers, AbortKill(c) PROVE Serving'
  BY <1>29 DEF AbortKill, GroupKilled, NoGroup, KillRefused, Doom, MarkConfirmed, KillTree,
     KillCurrent, MarkUnconfirmed, CloserTo
<1>30. ASSUME NEW c \in Closers, FinishKill(c) PROVE Serving'
  BY <1>30 DEF FinishKill, GroupKilled, NoGroup, KillRefused, Doom, MarkConfirmed, Alive,
     KillTree, MarkUnconfirmed, CloserTo
<1>31. ASSUME NEW c \in Closers, FinishSweep(c) PROVE Serving'
  BY <1>31 DEF FinishSweep, GroupKilled, NoGroup, KillRefused, Doom, MarkConfirmed, Alive,
     KillTree, MarkUnconfirmed, CloserTo
<1>32. ASSUME NEW c \in Closers, FinishConfirm(c) PROVE Serving'
  BY <1>32 DEF FinishConfirm, GroupKilled, NoGroup, KillRefused, Doom, MarkConfirmed,
     ConfirmTree, CloserTo
<1>33. ASSUME NEW c \in Closers, FinishDecide(c) PROVE Serving'
  BY <1>33 DEF FinishDecide, Incomplete, Alive, SlotAfterResidual, CloserTo
<1>34. ASSUME NEW p \in Procs, MakeGroup(p) PROVE Serving'
  BY <1>34 DEF MakeGroup
<1>35. ASSUME NEW p \in Procs, Fork(p) PROVE Serving'
  BY <1>35 DEF Fork
<1>36. ASSUME NEW p \in Procs, DescendantsExit(p) PROVE Serving'
  BY <1>36 DEF DescendantsExit
<1>37. ASSUME NEW p \in Procs, Exit(p) PROVE Serving'
  BY <1>37 DEF Exit, Alive
<1>38. CASE UNCHANGED vars
  BY <1>38 DEF vars
<1> HIDE DEF lifeVars, genVars, markVars, treeVars, frameVars, runVars, closeVars, IInv, TypeOK,
   Locking, RunnerState, Latest, Numbers, Serving, InLock, RunnerLock, Closing, StartPc, Unseen,
   None, NewPc, Procs
<1>39. QED
  BY <1>1, <1>2, <1>3, <1>4, <1>5, <1>6, <1>7, <1>8, <1>9, <1>10, <1>11, <1>12, <1>13, <1>14,
     <1>15, <1>16, <1>17, <1>18, <1>19, <1>20, <1>21, <1>22, <1>23, <1>24, <1>25, <1>26, <1>27,
     <1>28, <1>29, <1>30, <1>31, <1>32, <1>33, <1>34, <1>35, <1>36, <1>37, <1>38
     DEF Next, StartStep, ExecStep, Client, Revoke, FinishStep, System, Done

(* A new worker is spawned only after the one before it is gone. *)
LEMMA PastStep ==
  ASSUME IInv, [Next]_vars
  PROVE  Past'
<1> USE BackendAssumption DEF lifeVars, genVars, markVars, treeVars, frameVars, runVars,
   closeVars, IInv, TypeOK, Latest, Numbers, Serving, Past, Killed, Forgotten, RunnerState,
   Unseen, Closing, None, NewPc, Procs, Alive, Doomed, Gone, StartPc
<1>1. CASE StartChecked
  BY <1>1 DEF StartChecked, RunnerTo
<1>2. CASE Spawn
  BY <1>2 DEF Spawn
<1>3. CASE PublishRuntime
  BY <1>3 DEF PublishRuntime, RunnerTo
<1>4. CASE SendInit
  BY <1>4 DEF SendInit, RunnerTo
<1>5. CASE InitOk
  BY <1>5 DEF InitOk, RunnerTo
<1>6. CASE InitFails
  BY <1>6 DEF InitFails, RunnerTo
<1>7. CASE CleanupKill
  BY <1>7 DEF CleanupKill, GroupKilled, NoGroup, KillRefused, Doom
<1>8. CASE CleanupJoin
  BY <1>8 DEF CleanupJoin, GroupKilled, NoGroup, KillRefused, Doom, MarkConfirmed, RunnerTo
<1>9. CASE Discard
  BY <1>9 DEF Discard, RunnerTo
<1>10. CASE StartFailed
  BY <1>10 DEF StartFailed, RestartOver, RunnerTo
<1>11. CASE ConfirmStart
  BY <1>11 DEF ConfirmStart, WasRevoked, RunnerTo, MarkerOf, RestartOver
<1>12. CASE DestroyKill
  BY <1>12 DEF DestroyKill, GroupKilled, NoGroup, KillRefused, Doom, MarkConfirmed, KillTree,
     KillCurrent, RunnerTo, MarkUnconfirmed
<1>13. CASE DestroyConfirm
  BY <1>13 DEF DestroyConfirm, GroupKilled, NoGroup, KillRefused, Doom, MarkConfirmed,
     ConfirmTree, RunnerTo
<1>14. CASE DestroyDecide
  BY <1>14 DEF DestroyDecide, Incomplete, RestartOver, RunnerTo
<1>15. CASE Prepare
  BY <1>15 DEF Prepare, GroupKilled, NoGroup, KillRefused, Doom, MarkConfirmed, ConfirmTree,
     RunnerTo
<1>16. CASE Prepared
  <2>1. CASE Incomplete(proc)
    BY <1>16, <2>1 DEF Prepared, RunnerTo, Closing, RestartOver
  <2>2. CASE ~Incomplete(proc)
    BY <1>16, <2>2 DEF Prepared, RunnerTo, Incomplete
  <2>3. QED
    BY <2>1, <2>2
<1>17. CASE ExecResult
  BY <1>17 DEF ExecResult, RunnerTo
<1>18. CASE ExecClosed
  BY <1>18 DEF ExecClosed, RunnerTo
<1>19. CASE ExecLost
  BY <1>19 DEF ExecLost, RunnerTo
<1>20. CASE TerminateKill
  BY <1>20 DEF TerminateKill, GroupKilled, NoGroup, KillRefused, Doom, MarkConfirmed, KillTree,
     KillCurrent, RunnerTo, MarkUnconfirmed
<1>21. CASE TerminateDone
  BY <1>21 DEF TerminateDone, RunnerTo
<1>22. CASE Execute
  BY <1>22 DEF Execute, RunnerTo
<1>23. CASE ExecuteDead
  BY <1>23 DEF ExecuteDead, RunnerTo
<1>24. CASE RequestClose
  BY <1>24 DEF RequestClose
<1>25. CASE RevokeKill
  BY <1>25 DEF RevokeKill, GroupKilled, NoGroup, KillRefused, Doom, MarkConfirmed, KillTree,
     KillCurrent, MarkUnconfirmed
<1>26. CASE RevokeConn
  BY <1>26 DEF RevokeConn
<1>27. ASSUME NEW c \in Closers, Finish(c) PROVE Past'
  BY <1>27 DEF Finish, MayFinish, CloserTo
<1>28. ASSUME NEW c \in Closers, AbortGiveUp(c) PROVE Past'
  BY <1>28 DEF AbortGiveUp, MayFinish, CloserTo
<1>29. ASSUME NEW c \in Closers, AbortKill(c) PROVE Past'
  BY <1>29 DEF AbortKill, GroupKilled, NoGroup, KillRefused, Doom, MarkConfirmed, KillTree,
     KillCurrent, MarkUnconfirmed, CloserTo
<1>30. ASSUME NEW c \in Closers, FinishKill(c) PROVE Past'
  BY <1>30 DEF FinishKill, GroupKilled, NoGroup, KillRefused, Doom, MarkConfirmed, KillTree,
     MarkUnconfirmed, CloserTo
<1>31. ASSUME NEW c \in Closers, FinishSweep(c) PROVE Past'
  BY <1>31 DEF FinishSweep, GroupKilled, NoGroup, KillRefused, Doom, MarkConfirmed, KillTree,
     MarkUnconfirmed, CloserTo
<1>32. ASSUME NEW c \in Closers, FinishConfirm(c) PROVE Past'
  BY <1>32 DEF FinishConfirm, GroupKilled, NoGroup, KillRefused, Doom, MarkConfirmed,
     ConfirmTree, CloserTo
<1>33. ASSUME NEW c \in Closers, FinishDecide(c) PROVE Past'
  BY <1>33 DEF FinishDecide, Incomplete, SlotAfterResidual, CloserTo
<1>34. ASSUME NEW p \in Procs, MakeGroup(p) PROVE Past'
  BY <1>34 DEF MakeGroup
<1>35. ASSUME NEW p \in Procs, Fork(p) PROVE Past'
  BY <1>35 DEF Fork
<1>36. ASSUME NEW p \in Procs, DescendantsExit(p) PROVE Past'
  BY <1>36 DEF DescendantsExit
<1>37. ASSUME NEW p \in Procs, Exit(p) PROVE Past'
  BY <1>37 DEF Exit
<1>38. CASE UNCHANGED vars
  BY <1>38 DEF vars
<1> HIDE DEF lifeVars, genVars, markVars, treeVars, frameVars, runVars, closeVars, IInv, TypeOK,
   Latest, Numbers, Serving, Past, Killed, Forgotten, RunnerState, Unseen, Closing, None, NewPc,
   Procs, Alive, Doomed, Gone, StartPc
<1>39. QED
  BY <1>1, <1>2, <1>3, <1>4, <1>5, <1>6, <1>7, <1>8, <1>9, <1>10, <1>11, <1>12, <1>13, <1>14,
     <1>15, <1>16, <1>17, <1>18, <1>19, <1>20, <1>21, <1>22, <1>23, <1>24, <1>25, <1>26, <1>27,
     <1>28, <1>29, <1>30, <1>31, <1>32, <1>33, <1>34, <1>35, <1>36, <1>37, <1>38
     DEF Next, StartStep, ExecStep, Client, Revoke, FinishStep, System, Done

(* What a kill established about the worker put to use last stays true: a
   worker that was signalled cannot fork. *)
LEMMA KilledStep ==
  ASSUME IInv, [Next]_vars
  PROVE  Killed'
<1> USE BackendAssumption DEF lifeVars, genVars, markVars, treeVars, frameVars, runVars,
   closeVars, IInv, TypeOK, Latest, Numbers, Serving, Past, Killed, Deciding, Locking,
   RunnerState, Final, Unseen, Closing, None, NewPc, Procs, Alive, Doomed, Gone, InLock,
   RunnerLock, StartPc
<1>1. CASE StartChecked
  BY <1>1 DEF StartChecked, RunnerTo
<1>2. CASE Spawn
  BY <1>2 DEF Spawn
<1>3. CASE PublishRuntime
  BY <1>3 DEF PublishRuntime, RunnerTo
<1>4. CASE SendInit
  BY <1>4 DEF SendInit, RunnerTo
<1>5. CASE InitOk
  BY <1>5 DEF InitOk, RunnerTo
<1>6. CASE InitFails
  BY <1>6 DEF InitFails, RunnerTo
<1>7. CASE CleanupKill
  BY <1>7 DEF CleanupKill, GroupKilled, NoGroup, KillRefused, Doom
<1>8. CASE CleanupJoin
  BY <1>8 DEF CleanupJoin, GroupKilled, NoGroup, KillRefused, Doom, MarkConfirmed, RunnerTo
<1>9. CASE Discard
  BY <1>9 DEF Discard, RunnerTo
<1>10. CASE StartFailed
  BY <1>10 DEF StartFailed, RestartOver, RunnerTo
<1>11. CASE ConfirmStart
  <2>1. CASE WasRevoked
    BY <1>11, <2>1 DEF ConfirmStart, RunnerTo
  <2>2. CASE ~WasRevoked
    BY <1>11, <2>2 DEF ConfirmStart, RunnerTo, RestartOver, WasRevoked
  <2>3. QED
    BY <2>1, <2>2
<1>12. CASE DestroyKill
  BY <1>12 DEF DestroyKill, GroupKilled, NoGroup, KillRefused, Doom, MarkConfirmed, KillTree,
     KillCurrent, RunnerTo, MarkUnconfirmed
<1>13. CASE DestroyConfirm
  BY <1>13 DEF DestroyConfirm, GroupKilled, NoGroup, KillRefused, Doom, MarkConfirmed,
     ConfirmTree, RunnerTo
<1>14. CASE DestroyDecide
  BY <1>14 DEF DestroyDecide, Incomplete, RestartOver, RunnerTo
<1>15. CASE Prepare
  BY <1>15 DEF Prepare, GroupKilled, NoGroup, KillRefused, Doom, MarkConfirmed, ConfirmTree,
     RunnerTo
<1>16. CASE Prepared
  BY <1>16 DEF Prepared, Incomplete, RestartOver, RunnerTo
<1>17. CASE ExecResult
  BY <1>17 DEF ExecResult, RunnerTo
<1>18. CASE ExecClosed
  BY <1>18 DEF ExecClosed, RunnerTo
<1>19. CASE ExecLost
  BY <1>19 DEF ExecLost, RunnerTo
<1>20. CASE TerminateKill
  BY <1>20 DEF TerminateKill, GroupKilled, NoGroup, KillRefused, Doom, MarkConfirmed, KillTree,
     KillCurrent, RunnerTo, MarkUnconfirmed
<1>21. CASE TerminateDone
  BY <1>21 DEF TerminateDone, RunnerTo
<1>22. CASE Execute
  BY <1>22 DEF Execute, RunnerTo
<1>23. CASE ExecuteDead
  BY <1>23 DEF ExecuteDead, RunnerTo
<1>24. CASE RequestClose
  BY <1>24 DEF RequestClose
<1>25. CASE RevokeKill
  BY <1>25 DEF RevokeKill, GroupKilled, NoGroup, KillRefused, Doom, MarkConfirmed, KillTree,
     KillCurrent, MarkUnconfirmed
<1>26. CASE RevokeConn
  BY <1>26 DEF RevokeConn
<1>27. ASSUME NEW c \in Closers, Finish(c) PROVE Killed'
  BY <1>27 DEF Finish, MayFinish, CloserTo
<1>28. ASSUME NEW c \in Closers, AbortGiveUp(c) PROVE Killed'
  BY <1>28 DEF AbortGiveUp, MayFinish, CloserTo
<1>29. ASSUME NEW c \in Closers, AbortKill(c) PROVE Killed'
  BY <1>29 DEF AbortKill, GroupKilled, NoGroup, KillRefused, Doom, MarkConfirmed, KillTree,
     KillCurrent, MarkUnconfirmed, CloserTo
<1>30. ASSUME NEW c \in Closers, FinishKill(c) PROVE Killed'
  BY <1>30 DEF FinishKill, GroupKilled, NoGroup, KillRefused, Doom, MarkConfirmed, KillTree,
     MarkUnconfirmed, CloserTo
<1>31. ASSUME NEW c \in Closers, FinishSweep(c) PROVE Killed'
  BY <1>31 DEF FinishSweep, GroupKilled, NoGroup, KillRefused, Doom, MarkConfirmed, KillTree,
     MarkUnconfirmed, CloserTo
<1>32. ASSUME NEW c \in Closers, FinishConfirm(c) PROVE Killed'
  BY <1>32 DEF FinishConfirm, GroupKilled, NoGroup, KillRefused, Doom, MarkConfirmed,
     ConfirmTree, CloserTo
<1>33. ASSUME NEW c \in Closers, FinishDecide(c) PROVE Killed'
  BY <1>33 DEF FinishDecide, Incomplete, SlotAfterResidual, CloserTo
<1>34. ASSUME NEW p \in Procs, MakeGroup(p) PROVE Killed'
  BY <1>34 DEF MakeGroup
<1>35. ASSUME NEW p \in Procs, Fork(p) PROVE Killed'
  BY <1>35 DEF Fork
<1>36. ASSUME NEW p \in Procs, DescendantsExit(p) PROVE Killed'
  BY <1>36 DEF DescendantsExit
<1>37. ASSUME NEW p \in Procs, Exit(p) PROVE Killed'
  BY <1>37 DEF Exit
<1>38. CASE UNCHANGED vars
  BY <1>38 DEF vars
<1> HIDE DEF lifeVars, genVars, markVars, treeVars, frameVars, runVars, closeVars, IInv, TypeOK,
   Latest, Numbers, Serving, Past, Killed, Deciding, Locking, RunnerState, Final, Unseen,
   Closing, None, NewPc, Procs, Alive, Doomed, Gone, InLock, RunnerLock, StartPc
<1>39. QED
  BY <1>1, <1>2, <1>3, <1>4, <1>5, <1>6, <1>7, <1>8, <1>9, <1>10, <1>11, <1>12, <1>13, <1>14,
     <1>15, <1>16, <1>17, <1>18, <1>19, <1>20, <1>21, <1>22, <1>23, <1>24, <1>25, <1>26, <1>27,
     <1>28, <1>29, <1>30, <1>31, <1>32, <1>33, <1>34, <1>35, <1>36, <1>37, <1>38
     DEF Next, StartStep, ExecStep, Client, Revoke, FinishStep, System, Done

(* From its kill to its decision a closer speaks of the worker it killed. *)
LEMMA DecidingStep ==
  ASSUME IInv, [Next]_vars
  PROVE  Deciding'
<1> USE BackendAssumption DEF lifeVars, genVars, markVars, treeVars, frameVars, runVars,
   closeVars, IInv, TypeOK, Latest, Numbers, Serving, Killed, Deciding, Locking, RunnerState,
   Final, Forgotten, Unseen, Closing, None, NewPc, Procs, Doomed, Gone, InLock, Alive,
   RunnerLock, StartPc
<1>1. CASE StartChecked
  BY <1>1 DEF StartChecked, RunnerTo
<1>2. CASE Spawn
  BY <1>2 DEF Spawn
<1>3. CASE PublishRuntime
  BY <1>3 DEF PublishRuntime, RunnerTo
<1>4. CASE SendInit
  BY <1>4 DEF SendInit, RunnerTo
<1>5. CASE InitOk
  BY <1>5 DEF InitOk, RunnerTo
<1>6. CASE InitFails
  BY <1>6 DEF InitFails, RunnerTo
<1>7. CASE CleanupKill
  BY <1>7 DEF CleanupKill, GroupKilled, NoGroup, KillRefused, Doom
<1>8. CASE CleanupJoin
  BY <1>8 DEF CleanupJoin, GroupKilled, NoGroup, KillRefused, Doom, MarkConfirmed, RunnerTo
<1>9. CASE Discard
  BY <1>9 DEF Discard, RunnerTo
<1>10. CASE StartFailed
  BY <1>10 DEF StartFailed, RestartOver, RunnerTo
<1>11. CASE ConfirmStart
  BY <1>11 DEF ConfirmStart, WasRevoked, RunnerTo, MarkerOf, RestartOver
<1>12. CASE DestroyKill
  BY <1>12 DEF DestroyKill, GroupKilled, NoGroup, KillRefused, Doom, MarkConfirmed, KillTree,
     KillCurrent, RunnerTo, MarkUnconfirmed
<1>13. CASE DestroyConfirm
  BY <1>13 DEF DestroyConfirm, GroupKilled, NoGroup, KillRefused, Doom, MarkConfirmed,
     ConfirmTree, RunnerTo
<1>14. CASE DestroyDecide
  BY <1>14 DEF DestroyDecide, Incomplete, RestartOver, RunnerTo
<1>15. CASE Prepare
  BY <1>15 DEF Prepare, GroupKilled, NoGroup, KillRefused, Doom, MarkConfirmed, ConfirmTree,
     RunnerTo
<1>16. CASE Prepared
  BY <1>16 DEF Prepared, Incomplete, RestartOver, RunnerTo
<1>17. CASE ExecResult
  BY <1>17 DEF ExecResult, RunnerTo
<1>18. CASE ExecClosed
  BY <1>18 DEF ExecClosed, RunnerTo
<1>19. CASE ExecLost
  BY <1>19 DEF ExecLost, RunnerTo
<1>20. CASE TerminateKill
  BY <1>20 DEF TerminateKill, GroupKilled, NoGroup, KillRefused, Doom, MarkConfirmed, KillTree,
     KillCurrent, RunnerTo, MarkUnconfirmed
<1>21. CASE TerminateDone
  BY <1>21 DEF TerminateDone, RunnerTo
<1>22. CASE Execute
  BY <1>22 DEF Execute, RunnerTo
<1>23. CASE ExecuteDead
  BY <1>23 DEF ExecuteDead, RunnerTo
<1>24. CASE RequestClose
  BY <1>24 DEF RequestClose
<1>25. CASE RevokeKill
  BY <1>25 DEF RevokeKill, GroupKilled, NoGroup, KillRefused, Doom, MarkConfirmed, KillTree,
     KillCurrent, MarkUnconfirmed
<1>26. CASE RevokeConn
  BY <1>26 DEF RevokeConn
<1>27. ASSUME NEW c \in Closers, Finish(c) PROVE Deciding'
  BY <1>27 DEF Finish, MayFinish, CloserTo
<1>28. ASSUME NEW c \in Closers, AbortGiveUp(c) PROVE Deciding'
  BY <1>28 DEF AbortGiveUp, MayFinish, CloserTo
<1>29. ASSUME NEW c \in Closers, AbortKill(c) PROVE Deciding'
  BY <1>29 DEF AbortKill, GroupKilled, NoGroup, KillRefused, Doom, MarkConfirmed, KillTree,
     KillCurrent, MarkUnconfirmed, CloserTo
<1>30. ASSUME NEW c \in Closers, FinishKill(c) PROVE Deciding'
  BY <1>30 DEF FinishKill, GroupKilled, NoGroup, KillRefused, Doom, MarkConfirmed, KillTree,
     MarkUnconfirmed, CloserTo
<1>31. ASSUME NEW c \in Closers, FinishSweep(c) PROVE Deciding'
  BY <1>31 DEF FinishSweep, GroupKilled, NoGroup, KillRefused, Doom, MarkConfirmed, KillTree,
     MarkUnconfirmed, CloserTo
<1>32. ASSUME NEW c \in Closers, FinishConfirm(c) PROVE Deciding'
  BY <1>32 DEF FinishConfirm, GroupKilled, NoGroup, KillRefused, Doom, MarkConfirmed,
     ConfirmTree, CloserTo
<1>33. ASSUME NEW c \in Closers, FinishDecide(c) PROVE Deciding'
  BY <1>33 DEF FinishDecide, Incomplete, SlotAfterResidual, CloserTo
<1>34. ASSUME NEW p \in Procs, MakeGroup(p) PROVE Deciding'
  BY <1>34 DEF MakeGroup
<1>35. ASSUME NEW p \in Procs, Fork(p) PROVE Deciding'
  BY <1>35 DEF Fork
<1>36. ASSUME NEW p \in Procs, DescendantsExit(p) PROVE Deciding'
  BY <1>36 DEF DescendantsExit
<1>37. ASSUME NEW p \in Procs, Exit(p) PROVE Deciding'
  BY <1>37 DEF Exit
<1>38. CASE UNCHANGED vars
  BY <1>38 DEF vars
<1> HIDE DEF lifeVars, genVars, markVars, treeVars, frameVars, runVars, closeVars, IInv, TypeOK,
   Latest, Numbers, Serving, Killed, Deciding, Locking, RunnerState, Final, Forgotten, Unseen,
   Closing, None, NewPc, Procs, Doomed, Gone, InLock, Alive, RunnerLock, StartPc
<1>39. QED
  BY <1>1, <1>2, <1>3, <1>4, <1>5, <1>6, <1>7, <1>8, <1>9, <1>10, <1>11, <1>12, <1>13, <1>14,
     <1>15, <1>16, <1>17, <1>18, <1>19, <1>20, <1>21, <1>22, <1>23, <1>24, <1>25, <1>26, <1>27,
     <1>28, <1>29, <1>30, <1>31, <1>32, <1>33, <1>34, <1>35, <1>36, <1>37, <1>38
     DEF Next, StartStep, ExecStep, Client, Revoke, FinishStep, System, Done

(* A worker that is still alive is forgotten only by a backend that is closed
   for good. *)
LEMMA ForgottenStep ==
  ASSUME IInv, [Next]_vars
  PROVE  Forgotten'
<1> USE BackendAssumption DEF lifeVars, genVars, markVars, treeVars, frameVars, runVars,
   closeVars, IInv, TypeOK, Latest, Numbers, Serving, Past, Killed, Deciding, Locking,
   RunnerState, Final, Forgotten, Unseen, Closing, None, NewPc, Procs, Alive, Doomed, Gone,
   InLock, RunnerLock, StartPc
<1>1. CASE StartChecked
  BY <1>1 DEF StartChecked, RunnerTo
<1>2. CASE Spawn
  BY <1>2 DEF Spawn
<1>3. CASE PublishRuntime
  BY <1>3 DEF PublishRuntime, RunnerTo
<1>4. CASE SendInit
  BY <1>4 DEF SendInit, RunnerTo
<1>5. CASE InitOk
  BY <1>5 DEF InitOk, RunnerTo
<1>6. CASE InitFails
  BY <1>6 DEF InitFails, RunnerTo
<1>7. CASE CleanupKill
  BY <1>7 DEF CleanupKill, GroupKilled, NoGroup, KillRefused, Doom
<1>8. CASE CleanupJoin
  BY <1>8 DEF CleanupJoin, GroupKilled, NoGroup, KillRefused, Doom, MarkConfirmed, RunnerTo
<1>9. CASE Discard
  BY <1>9 DEF Discard, RunnerTo
<1>10. CASE StartFailed
  BY <1>10 DEF StartFailed, RestartOver, RunnerTo
<1>11. CASE ConfirmStart
  BY <1>11 DEF ConfirmStart, WasRevoked, RunnerTo, MarkerOf, RestartOver
<1>12. CASE DestroyKill
  BY <1>12 DEF DestroyKill, GroupKilled, NoGroup, KillRefused, Doom, MarkConfirmed, KillTree,
     KillCurrent, RunnerTo, MarkUnconfirmed
<1>13. CASE DestroyConfirm
  BY <1>13 DEF DestroyConfirm, GroupKilled, NoGroup, KillRefused, Doom, MarkConfirmed,
     ConfirmTree, RunnerTo
<1>14. CASE DestroyDecide
  BY <1>14 DEF DestroyDecide, Incomplete, RestartOver, RunnerTo
<1>15. CASE Prepare
  BY <1>15 DEF Prepare, GroupKilled, NoGroup, KillRefused, Doom, MarkConfirmed, ConfirmTree,
     RunnerTo
<1>16. CASE Prepared
  BY <1>16 DEF Prepared, Incomplete, RestartOver, RunnerTo
<1>17. CASE ExecResult
  BY <1>17 DEF ExecResult, RunnerTo
<1>18. CASE ExecClosed
  BY <1>18 DEF ExecClosed, RunnerTo
<1>19. CASE ExecLost
  BY <1>19 DEF ExecLost, RunnerTo
<1>20. CASE TerminateKill
  BY <1>20 DEF TerminateKill, GroupKilled, NoGroup, KillRefused, Doom, MarkConfirmed, KillTree,
     KillCurrent, RunnerTo, MarkUnconfirmed
<1>21. CASE TerminateDone
  BY <1>21 DEF TerminateDone, RunnerTo
<1>22. CASE Execute
  BY <1>22 DEF Execute, RunnerTo
<1>23. CASE ExecuteDead
  BY <1>23 DEF ExecuteDead, RunnerTo
<1>24. CASE RequestClose
  BY <1>24 DEF RequestClose
<1>25. CASE RevokeKill
  BY <1>25 DEF RevokeKill, GroupKilled, NoGroup, KillRefused, Doom, MarkConfirmed, KillTree,
     KillCurrent, MarkUnconfirmed
<1>26. CASE RevokeConn
  BY <1>26 DEF RevokeConn
<1>27. ASSUME NEW c \in Closers, Finish(c) PROVE Forgotten'
  BY <1>27 DEF Finish, MayFinish, CloserTo
<1>28. ASSUME NEW c \in Closers, AbortGiveUp(c) PROVE Forgotten'
  BY <1>28 DEF AbortGiveUp, MayFinish, CloserTo
<1>29. ASSUME NEW c \in Closers, AbortKill(c) PROVE Forgotten'
  BY <1>29 DEF AbortKill, GroupKilled, NoGroup, KillRefused, Doom, MarkConfirmed, KillTree,
     KillCurrent, MarkUnconfirmed, CloserTo
<1>30. ASSUME NEW c \in Closers, FinishKill(c) PROVE Forgotten'
  BY <1>30 DEF FinishKill, GroupKilled, NoGroup, KillRefused, Doom, MarkConfirmed, KillTree,
     MarkUnconfirmed, CloserTo
<1>31. ASSUME NEW c \in Closers, FinishSweep(c) PROVE Forgotten'
  BY <1>31 DEF FinishSweep, GroupKilled, NoGroup, KillRefused, Doom, MarkConfirmed, KillTree,
     MarkUnconfirmed, CloserTo
<1>32. ASSUME NEW c \in Closers, FinishConfirm(c) PROVE Forgotten'
  BY <1>32 DEF FinishConfirm, GroupKilled, NoGroup, KillRefused, Doom, MarkConfirmed,
     ConfirmTree, CloserTo
<1>33. ASSUME NEW c \in Closers, FinishDecide(c) PROVE Forgotten'
  BY <1>33 DEF FinishDecide, Incomplete, SlotAfterResidual, CloserTo
<1>34. ASSUME NEW p \in Procs, MakeGroup(p) PROVE Forgotten'
  BY <1>34 DEF MakeGroup
<1>35. ASSUME NEW p \in Procs, Fork(p) PROVE Forgotten'
  BY <1>35 DEF Fork
<1>36. ASSUME NEW p \in Procs, DescendantsExit(p) PROVE Forgotten'
  BY <1>36 DEF DescendantsExit
<1>37. ASSUME NEW p \in Procs, Exit(p) PROVE Forgotten'
  BY <1>37 DEF Exit
<1>38. CASE UNCHANGED vars
  BY <1>38 DEF vars
<1> HIDE DEF lifeVars, genVars, markVars, treeVars, frameVars, runVars, closeVars, IInv, TypeOK,
   Latest, Numbers, Serving, Past, Killed, Deciding, Locking, RunnerState, Final, Forgotten,
   Unseen, Closing, None, NewPc, Procs, Alive, Doomed, Gone, InLock, RunnerLock, StartPc
<1>39. QED
  BY <1>1, <1>2, <1>3, <1>4, <1>5, <1>6, <1>7, <1>8, <1>9, <1>10, <1>11, <1>12, <1>13, <1>14,
     <1>15, <1>16, <1>17, <1>18, <1>19, <1>20, <1>21, <1>22, <1>23, <1>24, <1>25, <1>26, <1>27,
     <1>28, <1>29, <1>30, <1>31, <1>32, <1>33, <1>34, <1>35, <1>36, <1>37, <1>38
     DEF Next, StartStep, ExecStep, Client, Revoke, FinishStep, System, Done

(* Only a decision with nothing left closes the backend, and a closed backend
   spawns nothing. *)
LEMMA FinalStep ==
  ASSUME IInv, [Next]_vars
  PROVE  Final'
<1> USE BackendAssumption DEF lifeVars, genVars, markVars, treeVars, frameVars, runVars,
   closeVars, IInv, TypeOK, Latest, Numbers, Serving, Past, Killed, Deciding, Locking,
   RunnerState, Final, Forgotten, Unseen, Closing, None, NewPc, Procs, Alive, Doomed, Gone,
   InLock, RunnerLock, StartPc
<1>1. CASE StartChecked
  BY <1>1 DEF StartChecked, RunnerTo
<1>2. CASE Spawn
  BY <1>2 DEF Spawn
<1>3. CASE PublishRuntime
  BY <1>3 DEF PublishRuntime, RunnerTo
<1>4. CASE SendInit
  BY <1>4 DEF SendInit, RunnerTo
<1>5. CASE InitOk
  BY <1>5 DEF InitOk, RunnerTo
<1>6. CASE InitFails
  BY <1>6 DEF InitFails, RunnerTo
<1>7. CASE CleanupKill
  BY <1>7 DEF CleanupKill, GroupKilled, NoGroup, KillRefused, Doom
<1>8. CASE CleanupJoin
  BY <1>8 DEF CleanupJoin, GroupKilled, NoGroup, KillRefused, Doom, MarkConfirmed, RunnerTo
<1>9. CASE Discard
  BY <1>9 DEF Discard, RunnerTo
<1>10. CASE StartFailed
  BY <1>10 DEF StartFailed, RestartOver, RunnerTo
<1>11. CASE ConfirmStart
  BY <1>11 DEF ConfirmStart, WasRevoked, RunnerTo, MarkerOf, RestartOver
<1>12. CASE DestroyKill
  BY <1>12 DEF DestroyKill, GroupKilled, NoGroup, KillRefused, Doom, MarkConfirmed, KillTree,
     KillCurrent, RunnerTo, MarkUnconfirmed
<1>13. CASE DestroyConfirm
  BY <1>13 DEF DestroyConfirm, GroupKilled, NoGroup, KillRefused, Doom, MarkConfirmed,
     ConfirmTree, RunnerTo
<1>14. CASE DestroyDecide
  BY <1>14 DEF DestroyDecide, Incomplete, RestartOver, RunnerTo
<1>15. CASE Prepare
  BY <1>15 DEF Prepare, GroupKilled, NoGroup, KillRefused, Doom, MarkConfirmed, ConfirmTree,
     RunnerTo
<1>16. CASE Prepared
  BY <1>16 DEF Prepared, Incomplete, RestartOver, RunnerTo
<1>17. CASE ExecResult
  BY <1>17 DEF ExecResult, RunnerTo
<1>18. CASE ExecClosed
  BY <1>18 DEF ExecClosed, RunnerTo
<1>19. CASE ExecLost
  BY <1>19 DEF ExecLost, RunnerTo
<1>20. CASE TerminateKill
  BY <1>20 DEF TerminateKill, GroupKilled, NoGroup, KillRefused, Doom, MarkConfirmed, KillTree,
     KillCurrent, RunnerTo, MarkUnconfirmed
<1>21. CASE TerminateDone
  BY <1>21 DEF TerminateDone, RunnerTo
<1>22. CASE Execute
  BY <1>22 DEF Execute, RunnerTo
<1>23. CASE ExecuteDead
  BY <1>23 DEF ExecuteDead, RunnerTo
<1>24. CASE RequestClose
  BY <1>24 DEF RequestClose
<1>25. CASE RevokeKill
  BY <1>25 DEF RevokeKill, GroupKilled, NoGroup, KillRefused, Doom, MarkConfirmed, KillTree,
     KillCurrent, MarkUnconfirmed
<1>26. CASE RevokeConn
  BY <1>26 DEF RevokeConn
<1>27. ASSUME NEW c \in Closers, Finish(c) PROVE Final'
  BY <1>27 DEF Finish, MayFinish, CloserTo
<1>28. ASSUME NEW c \in Closers, AbortGiveUp(c) PROVE Final'
  BY <1>28 DEF AbortGiveUp, MayFinish, CloserTo
<1>29. ASSUME NEW c \in Closers, AbortKill(c) PROVE Final'
  BY <1>29 DEF AbortKill, GroupKilled, NoGroup, KillRefused, Doom, MarkConfirmed, KillTree,
     KillCurrent, MarkUnconfirmed, CloserTo
<1>30. ASSUME NEW c \in Closers, FinishKill(c) PROVE Final'
  BY <1>30 DEF FinishKill, GroupKilled, NoGroup, KillRefused, Doom, MarkConfirmed, KillTree,
     MarkUnconfirmed, CloserTo
<1>31. ASSUME NEW c \in Closers, FinishSweep(c) PROVE Final'
  BY <1>31 DEF FinishSweep, GroupKilled, NoGroup, KillRefused, Doom, MarkConfirmed, KillTree,
     MarkUnconfirmed, CloserTo
<1>32. ASSUME NEW c \in Closers, FinishConfirm(c) PROVE Final'
  BY <1>32 DEF FinishConfirm, GroupKilled, NoGroup, KillRefused, Doom, MarkConfirmed,
     ConfirmTree, CloserTo
<1>33. ASSUME NEW c \in Closers, FinishDecide(c) PROVE Final'
  BY <1>33 DEF FinishDecide, Incomplete, SlotAfterResidual, CloserTo
<1>34. ASSUME NEW p \in Procs, MakeGroup(p) PROVE Final'
  BY <1>34 DEF MakeGroup
<1>35. ASSUME NEW p \in Procs, Fork(p) PROVE Final'
  BY <1>35 DEF Fork
<1>36. ASSUME NEW p \in Procs, DescendantsExit(p) PROVE Final'
  BY <1>36 DEF DescendantsExit
<1>37. ASSUME NEW p \in Procs, Exit(p) PROVE Final'
  BY <1>37 DEF Exit
<1>38. CASE UNCHANGED vars
  BY <1>38 DEF vars
<1> HIDE DEF lifeVars, genVars, markVars, treeVars, frameVars, runVars, closeVars, IInv, TypeOK,
   Latest, Numbers, Serving, Past, Killed, Deciding, Locking, RunnerState, Final, Forgotten,
   Unseen, Closing, None, NewPc, Procs, Alive, Doomed, Gone, InLock, RunnerLock, StartPc
<1>39. QED
  BY <1>1, <1>2, <1>3, <1>4, <1>5, <1>6, <1>7, <1>8, <1>9, <1>10, <1>11, <1>12, <1>13, <1>14,
     <1>15, <1>16, <1>17, <1>18, <1>19, <1>20, <1>21, <1>22, <1>23, <1>24, <1>25, <1>26, <1>27,
     <1>28, <1>29, <1>30, <1>31, <1>32, <1>33, <1>34, <1>35, <1>36, <1>37, <1>38
     DEF Next, StartStep, ExecStep, Client, Revoke, FinishStep, System, Done

(* A generation is confirmed once per worker, and the marker of a restart is
   kept until a result carries it. *)
LEMMA GenerationsStep ==
  ASSUME IInv, [Next]_vars
  PROVE  Generations'
<1> USE BackendAssumption DEF lifeVars, genVars, markVars, treeVars, frameVars, runVars,
   closeVars, IInv, TypeOK, Locking, RunnerState, Numbers, Generations, InLock, RunnerLock,
   Closing, StartPc, NewPc, Procs, Unseen
<1>1. CASE StartChecked
  BY <1>1 DEF StartChecked, RunnerTo
<1>2. CASE Spawn
  BY <1>2 DEF Spawn
<1>3. CASE PublishRuntime
  BY <1>3 DEF PublishRuntime, RunnerTo
<1>4. CASE SendInit
  BY <1>4 DEF SendInit, RunnerTo
<1>5. CASE InitOk
  BY <1>5 DEF InitOk, RunnerTo
<1>6. CASE InitFails
  BY <1>6 DEF InitFails, RunnerTo
<1>7. CASE CleanupKill
  BY <1>7 DEF CleanupKill, GroupKilled, NoGroup, KillRefused, Doom
<1>8. CASE CleanupJoin
  BY <1>8 DEF CleanupJoin, GroupKilled, NoGroup, KillRefused, Doom, MarkConfirmed, RunnerTo
<1>9. CASE Discard
  BY <1>9 DEF Discard, Alive, RunnerTo
<1>10. CASE StartFailed
  BY <1>10 DEF StartFailed, RestartOver, RunnerTo
<1>11. CASE ConfirmStart
  BY <1>11 DEF ConfirmStart, WasRevoked, RunnerTo, MarkerOf, RestartOver
<1>12. CASE DestroyKill
  BY <1>12 DEF DestroyKill, GroupKilled, NoGroup, KillRefused, Doom, MarkConfirmed, KillTree,
     KillCurrent, RunnerTo, MarkUnconfirmed
<1>13. CASE DestroyConfirm
  BY <1>13 DEF DestroyConfirm, GroupKilled, NoGroup, KillRefused, Doom, MarkConfirmed,
     ConfirmTree, RunnerTo
<1>14. CASE DestroyDecide
  BY <1>14 DEF DestroyDecide, Incomplete, Alive, RestartOver, RunnerTo
<1>15. CASE Prepare
  BY <1>15 DEF Prepare, GroupKilled, NoGroup, KillRefused, Doom, MarkConfirmed, ConfirmTree,
     RunnerTo
<1>16. CASE Prepared
  BY <1>16 DEF Prepared, Incomplete, Alive, RestartOver, RunnerTo
<1>17. CASE ExecResult
  BY <1>17 DEF ExecResult, RunnerTo
<1>18. CASE ExecClosed
  BY <1>18 DEF ExecClosed, RunnerTo
<1>19. CASE ExecLost
  BY <1>19 DEF ExecLost, RunnerTo
<1>20. CASE TerminateKill
  BY <1>20 DEF TerminateKill, GroupKilled, NoGroup, KillRefused, Doom, MarkConfirmed, KillTree,
     KillCurrent, RunnerTo, MarkUnconfirmed
<1>21. CASE TerminateDone
  BY <1>21 DEF TerminateDone, RunnerTo
<1>22. CASE Execute
  BY <1>22 DEF Execute, RunnerTo
<1>23. CASE ExecuteDead
  BY <1>23 DEF ExecuteDead, RunnerTo
<1>24. CASE RequestClose
  BY <1>24 DEF RequestClose
<1>25. CASE RevokeKill
  BY <1>25 DEF RevokeKill, GroupKilled, NoGroup, KillRefused, Doom, MarkConfirmed, KillTree,
     KillCurrent, MarkUnconfirmed
<1>26. CASE RevokeConn
  BY <1>26 DEF RevokeConn
<1>27. ASSUME NEW c \in Closers, Finish(c) PROVE Generations'
  BY <1>27 DEF Finish, MayFinish, CloserTo
<1>28. ASSUME NEW c \in Closers, AbortGiveUp(c) PROVE Generations'
  BY <1>28 DEF AbortGiveUp, MayFinish, CloserTo
<1>29. ASSUME NEW c \in Closers, AbortKill(c) PROVE Generations'
  BY <1>29 DEF AbortKill, GroupKilled, NoGroup, KillRefused, Doom, MarkConfirmed, KillTree,
     KillCurrent, MarkUnconfirmed, CloserTo
<1>30. ASSUME NEW c \in Closers, FinishKill(c) PROVE Generations'
  BY <1>30 DEF FinishKill, GroupKilled, NoGroup, KillRefused, Doom, MarkConfirmed, Alive,
     KillTree, MarkUnconfirmed, CloserTo
<1>31. ASSUME NEW c \in Closers, FinishSweep(c) PROVE Generations'
  BY <1>31 DEF FinishSweep, GroupKilled, NoGroup, KillRefused, Doom, MarkConfirmed, Alive,
     KillTree, MarkUnconfirmed, CloserTo
<1>32. ASSUME NEW c \in Closers, FinishConfirm(c) PROVE Generations'
  BY <1>32 DEF FinishConfirm, GroupKilled, NoGroup, KillRefused, Doom, MarkConfirmed,
     ConfirmTree, CloserTo
<1>33. ASSUME NEW c \in Closers, FinishDecide(c) PROVE Generations'
  BY <1>33 DEF FinishDecide, Incomplete, Alive, SlotAfterResidual, CloserTo
<1>34. ASSUME NEW p \in Procs, MakeGroup(p) PROVE Generations'
  BY <1>34 DEF MakeGroup
<1>35. ASSUME NEW p \in Procs, Fork(p) PROVE Generations'
  BY <1>35 DEF Fork
<1>36. ASSUME NEW p \in Procs, DescendantsExit(p) PROVE Generations'
  BY <1>36 DEF DescendantsExit
<1>37. ASSUME NEW p \in Procs, Exit(p) PROVE Generations'
  BY <1>37 DEF Exit, Alive
<1>38. CASE UNCHANGED vars
  BY <1>38 DEF vars
<1> HIDE DEF lifeVars, genVars, markVars, treeVars, frameVars, runVars, closeVars, IInv, TypeOK,
   Locking, RunnerState, Numbers, Generations, InLock, RunnerLock, Closing, StartPc, NewPc,
   Procs, Unseen
<1>39. QED
  BY <1>1, <1>2, <1>3, <1>4, <1>5, <1>6, <1>7, <1>8, <1>9, <1>10, <1>11, <1>12, <1>13, <1>14,
     <1>15, <1>16, <1>17, <1>18, <1>19, <1>20, <1>21, <1>22, <1>23, <1>24, <1>25, <1>26, <1>27,
     <1>28, <1>29, <1>30, <1>31, <1>32, <1>33, <1>34, <1>35, <1>36, <1>37, <1>38
     DEF Next, StartStep, ExecStep, Client, Revoke, FinishStep, System, Done
-----------------------------------------------------------------------------
(* The constructor starts in the invariant. *)
LEMMA InitInv == Init => IInv
<1> USE BackendAssumption
<1> SUFFICES ASSUME Init PROVE IInv
  OBVIOUS
<1>1. TypeOK
  <2>1. finalized \in BOOLEAN /\ restarting \in BOOLEAN /\ slot \in BOOLEAN /\ chan \in BOOLEAN /\ signalled \in BOOLEAN
    BY DEF Init
  <2>2. cpc \in [Closers -> CloserPc] /\ cproc \in [Closers -> Procs \cup {None}]
    BY DEF Init, CloserPc
  <2>3. root \in [Procs -> {"none", "alive", "dying", "dead"}] /\ rpc \in RunnerPc
    BY DEF Init, RunnerPc, StartPc
  <2>4. QED
    BY <2>1, <2>2, <2>3 DEF Init, TypeOK
<1>2. Locking /\ RunnerState
  BY DEF Init, Locking, RunnerState, InLock, RunnerLock, Closing, StartPc
<1>3. Latest /\ Numbers /\ Serving
  BY DEF Init, Latest, Numbers, Serving, Procs, None, Unseen, NewPc, Closing
<1>4. Past /\ Killed /\ Deciding /\ Forgotten
  BY DEF Init, Past, Killed, Deciding, Forgotten, Procs, None, Alive, InLock
<1>5. Final /\ Generations
  BY DEF Init, Final, Generations, Unseen
<1>6. QED
  BY <1>1, <1>2, <1>3, <1>4, <1>5 DEF IInv

(* Every step keeps the invariant. *)
LEMMA StepInv == IInv /\ [Next]_vars => IInv'
<1> SUFFICES ASSUME IInv, [Next]_vars PROVE IInv'
  OBVIOUS
<1>1. TypeOK' /\ Locking' /\ RunnerState' /\ Latest' /\ Numbers' /\ Serving'
  BY TypeOKStep, LockingStep, RunnerStateStep, LatestStep, NumbersStep, ServingStep
<1>2. Past' /\ Killed' /\ Deciding' /\ Forgotten' /\ Final' /\ Generations'
  BY PastStep, KilledStep, DecidingStep, ForgottenStep, FinalStep, GenerationsStep
<1>3. QED
  BY <1>1, <1>2 DEF IInv

(* The inductive invariant holds in every reachable state, for any number of *)
(* workers, closers and refused kills.                                       *)
THEOREM Invariance == Spec => []IInv
<1>1. QED
  BY InitInv, StepInv, PTL DEF Spec

-----------------------------------------------------------------------------
(* A backend that reports closed has left neither a worker that was put to   *)
(* use nor a process such a worker started (finish_close answers closed only *)
(* when the kill of the tree was confirmed).                                 *)
THEOREM ClosedLeavesNothing == Spec => []ClosedMeansTreeGone
<1>1. IInv => ClosedMeansTreeGone
  BY DEF IInv, Final, ClosedMeansTreeGone
<1>2. QED
  BY Invariance, <1>1, PTL

(* The workers of two generations are never there together, and only one     *)
(* process of the backend can have an unresolved tree: a restart waits for   *)
(* the tree of the generation before it.                                     *)
THEOREM NoOverlap == Spec => []OneGeneration
<1>1. ASSUME IInv PROVE OneGeneration
  <2> USE BackendAssumption, <1>1 DEF IInv, TypeOK, Procs, None
  <2>1. ASSUME NEW p \in Procs, NEW q \in Procs, p < q, p \in served, root[q] # "none"
        PROVE  Gone(p)
    <3>1. p < spawned
      BY <2>1 DEF Numbers
    <3>2. ~Alive(p) /\ p \notin forked
      BY <2>1, <3>1 DEF Past
    <3>3. QED
      BY <3>2, <2>1 DEF Gone, Alive
  <2>2. ASSUME NEW p \in Procs, p = proc \/ \E d \in Closers : p = cproc[d]
        PROVE  unconfirmed \in {None, p}
    BY <2>2 DEF Latest
  <2>3. QED
    BY <2>1, <2>2 DEF OneGeneration
<1>2. QED
  BY Invariance, <1>1, PTL

(* The slot of the scan ledger is given back only when no worker that was    *)
(* told about it is alive to write to it.                                    *)
THEOREM SlotSafe == Spec => []SlotOutlivesWriter
<1>1. IInv => SlotOutlivesWriter
  BY DEF IInv, Final, SlotOutlivesWriter
<1>2. QED
  BY Invariance, <1>1, PTL

(* A backend once reported closed stays closed, whatever start, restart or   *)
(* closer is still under way.                                                *)
THEOREM ClosedForGood == Spec => CloseIsFinal
<1>1. ASSUME IInv, [Next]_vars
      PROVE  finalized => finalized' /\ state' = "closed"
  <2>1. SUFFICES finalized => finalized'
    BY <1>1, FinalStep DEF Final
  <2> SUFFICES ASSUME finalized PROVE finalized'
    OBVIOUS
  <2>2. CASE DestroyDecide
    BY <1>1, <2>2 DEF DestroyDecide, IInv, Final, Incomplete
  <2>3. ASSUME NEW c \in Closers, FinishDecide(c) PROVE finalized'
    BY <1>1, <2>3 DEF FinishDecide
  <2>4. QED
    BY <1>1, <2>2, <2>3
    DEF Next, StartStep, ExecStep, Client, Revoke, FinishStep, System, Done, vars, lifeVars,
        StartChecked, Spawn, PublishRuntime, SendInit, InitOk, InitFails,
        CleanupKill, CleanupJoin, Discard, StartFailed, ConfirmStart, DestroyKill,
        DestroyConfirm, Prepare, Prepared, ExecResult, ExecClosed, ExecLost,
        TerminateKill, TerminateDone, Execute, ExecuteDead, RequestClose,
        RevokeKill, RevokeConn, Finish, AbortGiveUp, AbortKill, FinishKill,
        FinishSweep, FinishConfirm, MakeGroup, Fork, DescendantsExit, Exit
<1>2. QED
  BY Invariance, <1>1, PTL DEF Spec, CloseIsFinal

(* The first result a client sees of a restarted generation carries the      *)
(* notice that the state of the one before it is lost.                       *)
THEOREM ResetIsTold == Spec => NoSilentReset
<1>1. ASSUME IInv, [Next]_vars
      PROVE  lastSeen' # lastSeen /\ lastSeen' > 1 => marker = lastSeen'
  <2>1. CASE ExecResult
    BY <1>1, <2>1 DEF ExecResult, IInv, TypeOK, Generations
  <2>2. QED
    BY <1>1, <2>1
    DEF Next, StartStep, ExecStep, Client, Revoke, FinishStep, System, Done, vars, genVars,
        StartChecked, Spawn, PublishRuntime, SendInit, InitOk, InitFails,
        CleanupKill, CleanupJoin, Discard, StartFailed, ConfirmStart, DestroyKill,
        DestroyConfirm, DestroyDecide, Prepare, Prepared, ExecClosed, ExecLost,
        TerminateKill, TerminateDone, Execute, ExecuteDead, RequestClose,
        RevokeKill, RevokeConn, Finish, AbortGiveUp, AbortKill, FinishKill,
        FinishSweep, FinishConfirm, FinishDecide, MakeGroup, Fork, DescendantsExit,
        Exit
<1>2. QED
  BY Invariance, <1>1, PTL DEF Spec, NoSilentReset

=============================================================================
