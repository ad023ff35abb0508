---------------------------- MODULE ProcessBackend ----------------------------
(***************************************************************************)
(* One ProcessSandboxBackend (sandbox_process.py) on POSIX: the worker     *)
(* process of a session, its lazy restart after a timeout or a crash, and  *)
(* its two-phase close.                                                    *)
(*                                                                         *)
(* The runner is the constructor and then, one at a time, the execute      *)
(* calls.  Beside it run one request_close (the first one wins) and the    *)
(* closers that call finish_close and force_abort: the reaper and a server *)
(* shutdown.  Workers, their process groups and their descendants belong   *)
(* to the operating system.                                                *)
(***************************************************************************)
EXTENDS Naturals, FiniteSets

CONSTANTS
  Closers,     (* threads that call finish_close or force_abort            *)
  MaxProcs,    (* bound on the workers spawned                             *)
  MaxRefused   (* bound on the kill calls the system refuses               *)

ASSUME BackendAssumption ==
  /\ Closers \cap {"free", "runner"} = {}
  /\ MaxProcs \in Nat \ {0}
  /\ MaxRefused \in Nat

Procs == 1..MaxProcs
None == 0                  \* Python's None where a process is expected

VARIABLES
  state,        (* _state                                                  *)
  finalized,    (* _finalized                                              *)
  restarting,   (* _restart_in_progress                                    *)
  generation,   (* generation                                              *)
  marker,       (* generation named by _pending_restarted_marker, or 0     *)
  slot,         (* _scan_slot is still ours                                *)
  proc,         (* _proc                                                   *)
  chan,         (* the IPC pipe of the latest worker is open               *)
  unconfirmed,  (* _tree_cleanup_target of an unconfirmed cleanup          *)
  confirmed,    (* _tree_cleanup_confirmed_target                          *)
  closeLock,    (* holder of _close_lock                                   *)
  rpc,          (* where the runner stands                                 *)
  spawned,      (* the worker of the latest start, 0 before the first      *)
  signalled,    (* local tree_signalled of _cleanup_failed_start           *)
  vpc,          (* where the effective request_close stands                *)
  cpc, cproc,   (* where a closer stands, and its local proc               *)
  root,         (* life of a worker process                                *)
  grouped,      (* workers that have their own process group               *)
  forked,       (* groups with a live descendant besides the worker        *)
  inited,       (* workers whose init frame was sent                       *)
  served,       (* workers that were put to use                            *)
  refused,      (* refused kill calls so far                               *)
  lastSeen      (* generation of the last result the client saw, 0 if none *)

lifeVars == <<state, finalized, restarting, slot>>
genVars == <<generation, marker, lastSeen>>
markVars == <<confirmed, unconfirmed>>
treeVars == <<root, forked, refused>>
frameVars == <<grouped, inited, served>>
runVars == <<rpc, spawned, signalled>>
closeVars == <<vpc, cpc, cproc>>
vars == <<lifeVars, genVars, proc, chan, markVars, closeLock, treeVars, frameVars,
          runVars, closeVars>>

StartPc == {"spawn", "spawning", "publish", "init", "wait", "cleanup", "join",
            "discard", "start_failed", "confirm_start", "destroy", "destroyed",
            "destroy_end"}
RunnerPc == StartPc \cup {"idle", "gone", "prepare", "prepared", "exec", "term", "term_join"}
CloserPc == {"idle", "kill", "sweep", "confirm", "decide", "try"}

TypeOK ==
  /\ state \in {"starting", "alive", "executing", "dead", "closing", "closed"}
  /\ finalized \in BOOLEAN /\ restarting \in BOOLEAN /\ slot \in BOOLEAN
  /\ generation \in 0..MaxProcs /\ marker \in 0..MaxProcs /\ lastSeen \in 0..MaxProcs
  /\ proc \in Procs \cup {None} /\ chan \in BOOLEAN
  /\ confirmed \in Procs \cup {None} /\ unconfirmed \in Procs \cup {None}
  /\ closeLock \in {"free", "runner"} \cup Closers
  /\ root \in [Procs -> {"none", "alive", "dying", "dead"}]
  /\ forked \subseteq grouped /\ grouped \subseteq Procs
  /\ inited \subseteq Procs /\ served \subseteq inited
  /\ refused \in 0..MaxRefused
  /\ rpc \in RunnerPc /\ spawned \in 0..MaxProcs /\ signalled \in BOOLEAN
  /\ vpc \in {"none", "kill", "conn", "done"}
  /\ cpc \in [Closers -> CloserPc]
  /\ cproc \in [Closers -> Procs \cup {None}]

Init ==
  /\ state = "starting" /\ finalized = FALSE /\ restarting = FALSE /\ slot = TRUE
  /\ generation = 0 /\ marker = 0 /\ lastSeen = 0
  /\ proc = None /\ chan = FALSE /\ confirmed = None /\ unconfirmed = None
  /\ closeLock = "free"
  /\ root = [p \in Procs |-> "none"]
  /\ forked = {} /\ grouped = {} /\ inited = {} /\ served = {} /\ refused = 0
  /\ rpc = "spawn" /\ spawned = 0 /\ signalled = FALSE
  /\ vpc = "none"
  /\ cpc = [c \in Closers |-> "idle"]
  /\ cproc = [c \in Closers |-> None]

-----------------------------------------------------------------------------
(* Killing a tree *)

Closing == state \in {"closing", "closed"}

Alive(p) == root[p] \in {"alive", "dying"}

(* killpg finds no process: the worker has not called setsid yet, or nothing
   of the group is left. *)
NoGroup(p) == p \notin grouped \/ (root[p] = "dead" /\ p \notin forked)

Doom(p) == root' = [root EXCEPT ![p] = IF @ = "alive" THEN "dying" ELSE @]

(* killpg(SIGKILL) reaches the whole group. *)
GroupKilled(p) ==
  /\ ~NoGroup(p)
  /\ Doom(p)
  /\ forked' = forked \ {p}
  /\ UNCHANGED refused

(* killpg fails with PermissionError or another OSError. *)
KillRefused(p) ==
  /\ ~NoGroup(p)
  /\ refused < MaxRefused
  /\ refused' = refused + 1
  /\ UNCHANGED forked

(* _mark_tree_cleanup_confirmed / _unconfirmed: a mark never replaces the
   unresolved mark of another process. *)
MarkConfirmed(p) ==
  IF unconfirmed \in {None, p}
  THEN unconfirmed' = None /\ confirmed' = p
  ELSE UNCHANGED markVars

MarkUnconfirmed(p) ==
  IF unconfirmed \in {None, p}
  THEN unconfirmed' = p /\ confirmed' = None
  ELSE UNCHANGED markVars

(* _kill_tree_raw: a refused killpg falls back to the worker alone, which says
   nothing about its descendants. *)
KillTree(p) ==
  \/ GroupKilled(p) /\ MarkConfirmed(p)
  \/ NoGroup(p) /\ MarkConfirmed(p) /\ UNCHANGED treeVars
  \/ /\ KillRefused(p) /\ Doom(p)
     /\ IF confirmed = p THEN UNCHANGED markVars ELSE MarkUnconfirmed(p)

KillCurrent(p) == IF p = None THEN UNCHANGED <<treeVars, markVars>> ELSE KillTree(p)

(* _confirm_tree_cleanup: the group-wide kill is repeated, without fallback. *)
ConfirmTree ==
  \/ unconfirmed = None /\ UNCHANGED <<treeVars, markVars>>
  \/ unconfirmed # None /\ GroupKilled(unconfirmed) /\ MarkConfirmed(unconfirmed)
  \/ unconfirmed # None /\ NoGroup(unconfirmed) /\ MarkConfirmed(unconfirmed) /\ UNCHANGED treeVars
  \/ unconfirmed # None /\ KillRefused(unconfirmed) /\ UNCHANGED <<root, markVars>>

(* Mutated form of Incomplete: a tree that was not confirmed dead is ignored. *)
IncompleteRootOnly(p) == p # None /\ Alive(p)

(* Something of the runtime of p is not known to be gone. *)
Incomplete(p) == (p # None /\ Alive(p)) \/ unconfirmed # None

-----------------------------------------------------------------------------
(* The operating system and the worker *)

MakeGroup(p) ==
  /\ root[p] = "alive" /\ p \notin grouped
  /\ grouped' = grouped \cup {p}
  /\ UNCHANGED <<lifeVars, genVars, proc, chan, markVars, closeLock, treeVars, inited, served,
                 runVars, closeVars>>

(* Code the worker runs, in its init or for the client, starts a process. *)
Fork(p) ==
  /\ root[p] = "alive" /\ p \in grouped \cap inited
  /\ forked' = forked \cup {p}
  /\ UNCHANGED <<lifeVars, genVars, proc, chan, markVars, closeLock, root, refused, frameVars,
                 runVars, closeVars>>

DescendantsExit(p) ==
  /\ p \in forked
  /\ forked' = forked \ {p}
  /\ UNCHANGED <<lifeVars, genVars, proc, chan, markVars, closeLock, root, refused, frameVars,
                 runVars, closeVars>>

(* The worker ends by itself (crash, end of file, shutdown command), or the
   signal that was sent takes effect. *)
Exit(p) ==
  /\ Alive(p)
  /\ root' = [root EXCEPT ![p] = "dead"]
  /\ UNCHANGED <<lifeVars, genVars, proc, chan, markVars, closeLock, forked, refused, frameVars,
                 runVars, closeVars>>

-----------------------------------------------------------------------------
(* _start_worker, for the constructor and for a lazy restart *)

RunnerTo(p) == rpc' = p /\ UNCHANGED <<spawned, signalled>>

(* Only a running start has its bound: the worker to spawn is in Procs. *)
StartChecked ==
  /\ rpc = "spawn" /\ spawned < MaxProcs
  /\ RunnerTo(IF Closing THEN "start_failed" ELSE "spawning")
  /\ UNCHANGED <<lifeVars, genVars, proc, chan, markVars, closeLock, treeVars, frameVars, closeVars>>

(* _start_process, or no process: resources, the spawn deadline, an error. *)
Spawn ==
  /\ rpc = "spawning"
  /\ \/ /\ spawned' = spawned + 1
        /\ root' = [root EXCEPT ![spawned'] = "alive"]
        /\ rpc' = "publish"
     \/ /\ rpc' = "start_failed"
        /\ UNCHANGED <<spawned, root>>
  /\ UNCHANGED <<lifeVars, genVars, proc, chan, markVars, closeLock, forked, refused, signalled,
                 frameVars, closeVars>>

(* The new runtime becomes visible to request_close and finish_close. *)
PublishRuntime ==
  /\ rpc = "publish"
  /\ proc' = spawned
  /\ chan' = TRUE
  /\ RunnerTo(IF Closing THEN "cleanup" ELSE "init")
  /\ UNCHANGED <<lifeVars, genVars, markVars, closeLock, treeVars, frameVars, closeVars>>

SendInit ==
  /\ rpc = "init"
  /\ ~Closing /\ chan
  /\ inited' = inited \cup {spawned}
  /\ RunnerTo("wait")
  /\ UNCHANGED <<lifeVars, genVars, proc, chan, markVars, closeLock, treeVars, grouped, served, closeVars>>

(* init_ok is read from the pipe; the worker may be gone by now. *)
InitOk ==
  /\ rpc = "wait"
  /\ chan /\ spawned \in grouped
  /\ generation' = generation + 1
  /\ RunnerTo("confirm_start")
  /\ UNCHANGED <<lifeVars, marker, lastSeen, proc, chan, markVars, closeLock, treeVars, frameVars,
                 closeVars>>

(* A revoke, the start deadline, an init error, a broken pipe. *)
InitFails ==
  /\ rpc \in {"init", "wait"}
  /\ RunnerTo("cleanup")
  /\ UNCHANGED <<lifeVars, genVars, proc, chan, markVars, closeLock, treeVars, frameVars, closeVars>>

(* _cleanup_failed_start: kill the group, or else the worker; leave the
   published cleanup state alone. *)
CleanupKill ==
  /\ rpc = "cleanup"
  /\ chan' = FALSE
  /\ \/ GroupKilled(spawned) /\ signalled' = TRUE
     \/ NoGroup(spawned) /\ Doom(spawned) /\ signalled' = FALSE /\ UNCHANGED <<forked, refused>>
     \/ KillRefused(spawned) /\ Doom(spawned) /\ signalled' = FALSE
  /\ rpc' = "join"
  /\ UNCHANGED <<lifeVars, genVars, proc, markVars, closeLock, frameVars, spawned, closeVars>>

(* ... join, a last kill of what still looks alive, and the missing proof for
   a request_close that could not confirm this very process. *)
CleanupJoin ==
  /\ rpc = "join"
  /\ \/ root[spawned] = "dead" /\ UNCHANGED treeVars
     \/ root[spawned] # "dead" /\ GroupKilled(spawned)
     \/ root[spawned] # "dead" /\ NoGroup(spawned) /\ UNCHANGED treeVars
     \/ root[spawned] # "dead" /\ KillRefused(spawned) /\ UNCHANGED root
  /\ IF signalled /\ unconfirmed = spawned THEN MarkConfirmed(spawned) ELSE UNCHANGED markVars
  /\ RunnerTo("discard")
  /\ UNCHANGED <<lifeVars, genVars, proc, chan, closeLock, frameVars, closeVars>>

(* _discard_failed_start_runtime: a worker that is still alive stays visible. *)
Discard ==
  /\ rpc = "discard"
  /\ proc' = IF proc = spawned /\ ~Alive(spawned) THEN None ELSE proc
  /\ RunnerTo("start_failed")
  /\ UNCHANGED <<lifeVars, genVars, chan, markVars, closeLock, treeVars, frameVars, closeVars>>

(* Mutated form of RestartOver: the flag is never taken back. *)
RestartStuck == restarting

(* The restart is over, with or without a new worker. *)
RestartOver == FALSE

(* The failed lazy restart leaves a dead backend; the failed constructor calls
   startup_unregister, which revokes the backend. *)
StartFailed ==
  /\ rpc = "start_failed"
  /\ IF restarting
     THEN /\ restarting' = RestartOver
          /\ state' = IF Closing THEN state ELSE "dead"
          /\ RunnerTo("idle")
          /\ UNCHANGED vpc
     ELSE /\ IF Closing
             THEN UNCHANGED <<state, vpc>>
             ELSE state' = "closing" /\ vpc' = "kill"
          /\ RunnerTo("gone")
          /\ UNCHANGED restarting
  /\ UNCHANGED <<finalized, slot, genVars, proc, chan, markVars, closeLock, treeVars, frameVars, cpc, cproc>>

(* Mutated form of MarkerOf: a restart is not announced. *)
MarkerForgotten(g) == marker

(* _pending_restarted_marker set by a lazy restart. *)
MarkerOf(g) == IF restarting THEN g ELSE marker

(* Mutated form of WasRevoked: the state is not looked at again. *)
WasRevokedUnchecked == FALSE

(* A close came while the worker was starting. *)
WasRevoked == Closing \/ finalized

(* Under _close_lock: never overwrite closing with alive. *)
ConfirmStart ==
  /\ rpc = "confirm_start"
  /\ closeLock = "free"
  /\ IF WasRevoked
     THEN /\ closeLock' = "runner"
          /\ RunnerTo("destroy")
          /\ UNCHANGED <<state, restarting, marker, served>>
     ELSE /\ state' = "alive"
          /\ served' = served \cup {spawned}
          /\ marker' = MarkerOf(generation)
          /\ restarting' = RestartOver
          /\ RunnerTo("idle")
          /\ UNCHANGED closeLock
  /\ UNCHANGED <<finalized, slot, generation, lastSeen, proc, chan, markVars, treeVars, grouped, inited, closeVars>>

(* _destroy_current_generation, under _close_lock ... *)
DestroyKill ==
  /\ rpc = "destroy"
  /\ KillCurrent(proc)
  /\ RunnerTo("destroyed")
  /\ UNCHANGED <<lifeVars, genVars, proc, chan, closeLock, frameVars, closeVars>>

DestroyConfirm ==
  /\ rpc = "destroyed"
  /\ ConfirmTree
  /\ chan' = FALSE
  /\ RunnerTo("destroy_end")
  /\ UNCHANGED <<lifeVars, genVars, proc, closeLock, frameVars, closeVars>>

(* ... which is final only when nothing is left. *)
DestroyDecide ==
  /\ rpc = "destroy_end"
  /\ IF Incomplete(proc)
     THEN /\ state' = "closing" /\ finalized' = FALSE
          /\ UNCHANGED <<slot, proc, confirmed>>
     ELSE /\ state' = "closed" /\ finalized' = TRUE
          /\ slot' = FALSE /\ proc' = None /\ confirmed' = None
  /\ closeLock' = "free"
  /\ restarting' = RestartOver
  /\ RunnerTo(IF restarting THEN "idle" ELSE "gone")
  /\ UNCHANGED <<genVars, chan, unconfirmed, treeVars, frameVars, closeVars>>

-----------------------------------------------------------------------------
(* execute *)

(* A dead backend is restarted first; the flag keeps the closers away. *)
ExecuteDead ==
  /\ rpc = "idle" /\ state = "dead" /\ spawned < MaxProcs
  /\ closeLock = "free" /\ ~finalized
  /\ closeLock' = "runner"
  /\ restarting' = TRUE
  /\ state' = "starting"
  /\ RunnerTo("prepare")
  /\ UNCHANGED <<finalized, slot, genVars, proc, chan, markVars, treeVars, frameVars, closeVars>>

(* _prepare_previous_generation_for_restart *)
Prepare ==
  /\ rpc = "prepare"
  /\ ConfirmTree
  /\ chan' = FALSE
  /\ RunnerTo("prepared")
  /\ UNCHANGED <<lifeVars, genVars, proc, closeLock, frameVars, closeVars>>

Prepared ==
  /\ rpc = "prepared"
  /\ closeLock' = "free"
  /\ IF Incomplete(proc)
     THEN /\ restarting' = RestartOver
          /\ state' = IF Closing THEN state ELSE "dead"
          /\ RunnerTo("idle")
          /\ UNCHANGED <<proc, confirmed>>
     ELSE /\ proc' = None /\ confirmed' = None
          /\ RunnerTo("spawn")
          /\ UNCHANGED <<restarting, state>>
  /\ UNCHANGED <<finalized, slot, genVars, chan, unconfirmed, treeVars, frameVars, closeVars>>

Execute ==
  /\ rpc = "idle" /\ state = "alive"
  /\ state' = "executing"
  /\ RunnerTo("exec")
  /\ UNCHANGED <<finalized, restarting, slot, genVars, proc, chan, markVars, closeLock, treeVars,
                 frameVars, closeVars>>

(* A result (or a refusal of oversized code): the client sees the generation,
   and the pending marker goes out with it. *)
ExecResult ==
  /\ rpc = "exec"
  /\ chan
  /\ lastSeen' = generation
  /\ marker' = 0
  /\ state' = IF Closing THEN state ELSE "alive"
  /\ RunnerTo("idle")
  /\ UNCHANGED <<finalized, restarting, slot, generation, proc, chan, markVars, closeLock, treeVars,
                 frameVars, closeVars>>

ExecClosed ==
  /\ rpc = "exec" /\ Closing
  /\ RunnerTo("idle")
  /\ UNCHANGED <<lifeVars, genVars, proc, chan, markVars, closeLock, treeVars, frameVars, closeVars>>

(* Hard timeout, crash or protocol violation: _terminate_current_worker. *)
ExecLost ==
  /\ rpc = "exec"
  /\ marker' = 0
  /\ RunnerTo("term")
  /\ UNCHANGED <<lifeVars, generation, lastSeen, proc, chan, markVars, closeLock, treeVars, frameVars,
                 closeVars>>

TerminateKill ==
  /\ rpc = "term"
  /\ KillCurrent(proc)
  /\ RunnerTo("term_join")
  /\ UNCHANGED <<lifeVars, genVars, proc, chan, closeLock, frameVars, closeVars>>

(* After a bounded join the backend is dead; the answer says so. *)
TerminateDone ==
  /\ rpc = "term_join"
  /\ chan' = FALSE
  /\ state' = IF Closing THEN state ELSE "dead"
  /\ RunnerTo("idle")
  /\ UNCHANGED <<finalized, restarting, slot, genVars, proc, markVars, closeLock, treeVars,
                 frameVars, closeVars>>

-----------------------------------------------------------------------------
(* request_close and finish_close *)

(* The revoke.  An idle worker only gets a shutdown command. *)
RequestClose ==
  /\ ~Closing
  /\ state' = "closing"
  /\ vpc' = IF state \in {"executing", "starting"} \/ restarting THEN "kill" ELSE "done"
  /\ UNCHANGED <<finalized, restarting, slot, genVars, proc, chan, markVars, closeLock, treeVars,
                 frameVars, runVars, cpc, cproc>>

RevokeKill ==
  /\ vpc = "kill"
  /\ KillCurrent(proc)
  /\ vpc' = "conn"
  /\ UNCHANGED <<lifeVars, genVars, proc, chan, closeLock, frameVars, runVars, cpc, cproc>>

RevokeConn ==
  /\ vpc = "conn"
  /\ chan' = FALSE
  /\ vpc' = "done"
  /\ UNCHANGED <<lifeVars, genVars, proc, markVars, closeLock, treeVars, frameVars, runVars, cpc, cproc>>

CloserTo(c, p) == cpc' = [cpc EXCEPT ![c] = p]

(* finish_close has nothing to do, or must come back later. *)
MayFinish == ~finalized /\ ~restarting

(* finish_close is called after request_close only. *)
Finish(c) ==
  /\ Closing
  /\ \/ cpc[c] = "idle"
     \/ cpc[c] = "try"               \* force_abort got the lock
  /\ closeLock = "free"
  /\ MayFinish
  /\ closeLock' = c
  /\ cproc' = [cproc EXCEPT ![c] = proc]
  /\ CloserTo(c, "kill")
  /\ UNCHANGED <<lifeVars, genVars, proc, chan, markVars, treeVars, frameVars, runVars, vpc>>

(* force_abort kills before it tries the lock, and gives up when it is taken. *)
AbortKill(c) ==
  /\ Closing /\ cpc[c] = "idle" /\ ~finalized
  /\ KillCurrent(proc)
  /\ CloserTo(c, "try")
  /\ UNCHANGED <<lifeVars, genVars, proc, chan, closeLock, frameVars, runVars, vpc, cproc>>

AbortGiveUp(c) ==
  /\ cpc[c] = "try"
  /\ closeLock # "free" \/ ~MayFinish
  /\ CloserTo(c, "idle")
  /\ UNCHANGED <<lifeVars, genVars, proc, chan, markVars, closeLock, treeVars, frameVars, runVars, vpc, cproc>>

(* Kill a worker that is alive after the grace period. *)
FinishKill(c) ==
  /\ cpc[c] = "kill"
  /\ IF cproc[c] # None /\ Alive(cproc[c])
     THEN KillTree(cproc[c])
     ELSE UNCHANGED <<treeVars, markVars>>
  /\ CloserTo(c, "sweep")
  /\ UNCHANGED <<lifeVars, genVars, proc, chan, closeLock, frameVars, runVars, vpc, cproc>>

(* A group may outlive its leader. *)
FinishSweep(c) ==
  /\ cpc[c] = "sweep"
  /\ IF cproc[c] # None /\ ~Alive(cproc[c]) /\ confirmed # cproc[c]
     THEN KillTree(cproc[c])
     ELSE UNCHANGED <<treeVars, markVars>>
  /\ CloserTo(c, "confirm")
  /\ UNCHANGED <<lifeVars, genVars, proc, chan, closeLock, frameVars, runVars, vpc, cproc>>

FinishConfirm(c) ==
  /\ cpc[c] = "confirm"
  /\ ConfirmTree
  /\ chan' = FALSE
  /\ CloserTo(c, "decide")
  /\ UNCHANGED <<lifeVars, genVars, proc, closeLock, frameVars, runVars, vpc, cproc>>

(* Mutated form of SlotAfterResidual: the slot is returned too early. *)
SlotDropped == FALSE

(* A residual backend keeps its slot of the scan ledger. *)
SlotAfterResidual == slot

(* residual: the reaper comes back; otherwise the backend is closed. *)
FinishDecide(c) ==
  /\ cpc[c] = "decide"
  /\ IF Incomplete(cproc[c])
     THEN /\ slot' = SlotAfterResidual
          /\ UNCHANGED <<proc, confirmed, state, finalized>>
     ELSE /\ proc' = None /\ confirmed' = None
          /\ state' = "closed" /\ finalized' = TRUE /\ slot' = FALSE
  /\ closeLock' = "free"
  /\ CloserTo(c, "idle")
  /\ UNCHANGED <<restarting, genVars, chan, unconfirmed, treeVars, frameVars, runVars, vpc, cproc>>

-----------------------------------------------------------------------------
StartStep ==
  \/ StartChecked \/ Spawn \/ PublishRuntime \/ SendInit \/ InitOk \/ InitFails
  \/ CleanupKill \/ CleanupJoin \/ Discard \/ StartFailed \/ ConfirmStart
  \/ DestroyKill \/ DestroyConfirm \/ DestroyDecide \/ Prepare \/ Prepared

ExecStep == ExecResult \/ ExecClosed \/ ExecLost \/ TerminateKill \/ TerminateDone

Client == Execute \/ ExecuteDead \/ RequestClose

Revoke == RevokeKill \/ RevokeConn

FinishStep(c) ==
  Finish(c) \/ AbortGiveUp(c) \/ FinishKill(c) \/ FinishSweep(c) \/ FinishConfirm(c) \/ FinishDecide(c)

System(p) == MakeGroup(p) \/ Fork(p) \/ DescendantsExit(p) \/ Exit(p)

(* The backend is closed and every thread is out of it. *)
Done == finalized /\ rpc \in {"idle", "gone"} /\ UNCHANGED vars

Next ==
  \/ StartStep \/ ExecStep \/ Client \/ Revoke \/ Done
  \/ \E c \in Closers : FinishStep(c) \/ AbortKill(c)
  \/ \E p \in Procs : System(p)

Spec == Init /\ [][Next]_vars

(* A running thread runs; a signalled process dies; a worker comes up far
   enough to have its group.  Nobody is obliged to execute or to close. *)
Fairness ==
  /\ WF_vars(StartStep) /\ WF_vars(ExecStep) /\ WF_vars(Revoke)
  /\ \A c \in Closers : WF_vars(FinishStep(c))
  /\ \A p \in Procs : WF_vars(MakeGroup(p)) /\ WF_vars(root[p] = "dying" /\ Exit(p))

FairSpec == Spec /\ Fairness

-----------------------------------------------------------------------------
(* Properties *)

(* No start is under way. *)
Settled == rpc \in {"idle", "gone", "exec", "term", "term_join"} /\ vpc \in {"none", "done"}

Gone(p) == root[p] \in {"none", "dead"} /\ p \notin forked

(* A backend that reports closed has left nothing behind of any worker that was
   ever put to use: neither the worker nor a process it started. *)
ClosedMeansTreeGone == finalized /\ Settled => \A p \in served : Gone(p)

(* Generations never overlap: while a later worker is running or spawning,
   nothing is left of an earlier one that was ever used; and at most one worker
   has an unresolved tree, the one the backend and every closer in the middle of
   a step work on: the marks of two generations never compete (the case
   _mark_tree_cleanup_* logs as an error and gives up on). *)
OneGeneration ==
  /\ \A p, q \in Procs : p < q /\ p \in served /\ root[q] # "none" => Gone(p)
  /\ \A p \in Procs : p \in {proc} \cup {cproc[c] : c \in {d \in Closers : cpc[d] # "idle"}}
                    => unconfirmed \in {None, p}

(* The slot of the scan ledger goes back to the pool only when no worker of this
   backend that was told about it can still write to it. *)
SlotOutlivesWriter == ~slot => \A p \in inited : ~Alive(p)

(* The backend does not come back to life after a closer reported it closed and
   the reaper forgot it. *)
CloseIsFinal == [][finalized => finalized' /\ state' = "closed"]_vars

(* The first result of a restarted generation tells the client that the state of the
   old one is lost, and names the generation it comes from. *)
NoSilentReset ==
  [][lastSeen' # lastSeen /\ lastSeen' > 1 => marker = lastSeen']_vars

(* A revoked backend is eventually closed, however its start, restart or
   execute was caught. *)
RevokedIsClosed == (state = "closing") ~> finalized

(* A backend whose start failed and that was then closed has left no process behind
   (docstring of _start_worker). *)
FailedStartLeavesNothing == finalized /\ Settled /\ generation = 0 => forked = {}

=============================================================================
