----------------------------- MODULE InlineBackend -----------------------------
(***************************************************************************)
(* One InlineSandboxBackend (sandbox_backend.py): code of the user that    *)
(* runs in a thread of the server, the reader of the index it uses, the    *)
(* background walk of the session, and the three that may close the        *)
(* backend.  Nothing can kill the code; a timeout is an exception raised   *)
(* in its thread, which may come late.                                     *)
(***************************************************************************)
EXTENDS Naturals

CONSTANTS Closers,  (* rlm_end, the reaper, a shutdown                       *)
          Reapers   \* those that try again until the backend is closed

VARIABLES
  state, executing, \* _state, _executing
  code,        (* where the thread of an execute call is                     *)
  timer,       (* the timer of the execution may still fire                  *)
  stray,       (* a TimeoutError is pending in the thread                    *)
  owned,       (* the backend holds its reader                               *)
  conn, connLock, \* the connection of the reader, and who is inside it
  detached,    (* the thread that closes a reader in use                     *)
  prewarm,     (* the background walk of the live catalogue                  *)
  closeLock, at, busy, left, \* closers: the lock, the step, what one saw
               (* of _executing, whether its deadline lies ahead             *)
  forced       (* a close went on although something was still running       *)
inlineVars == <<state, executing, code, timer, stray, owned, conn, connLock, detached, prewarm,
                closeLock, at, busy, left, forced>>

Init ==
  /\ state = "alive" /\ executing = FALSE /\ code = "idle" /\ timer = FALSE /\ stray = FALSE
  /\ owned = TRUE /\ conn = "open" /\ connLock = "" /\ detached = "none" /\ prewarm = "runs"
  /\ closeLock = "" /\ at = [c \in Closers |-> "idle"]
  /\ busy = [c \in Closers |-> FALSE] /\ left = [c \in Closers |-> FALSE] /\ forced = FALSE

running == <<state, executing, code, timer, stray>>
reader == <<owned, conn, connLock, detached>>
closing == <<closeLock, at, busy, left, forced>>

-----------------------------------------------------------------------------
(* execute: refused once the backend is revoked. *)
Execute ==
  /\ code = "idle" /\ ~ stray /\ state \notin {"closing", "closed"}
  /\ state' = "executing" /\ executing' = TRUE /\ code' = "runs" /\ timer' = TRUE
  /\ UNCHANGED <<stray, reader, prewarm, closing>>
(* A helper reads the index; on a closed connection it fails. *)
EnterReader ==
  /\ code = "runs" /\ connLock = "" /\ connLock' = "code" /\ code' = "reads"
  /\ UNCHANGED <<state, executing, timer, stray, owned, conn, detached, prewarm, closing>>
LeaveReader ==
  /\ code = "reads" /\ connLock' = "" /\ code' = "runs"
  /\ UNCHANGED <<state, executing, timer, stray, owned, conn, detached, prewarm, closing>>
(* The code ends; a timer that is firing already is not stopped any more. *)
Ends ==
  /\ code = "runs" /\ code' = "leaves" /\ timer' \in {FALSE, timer}
  /\ UNCHANGED <<state, executing, stray, reader, prewarm, closing>>
Timeout ==
  /\ timer /\ code # "idle" /\ timer' = FALSE /\ stray' = TRUE
  /\ UNCHANGED <<state, executing, code, reader, prewarm, closing>>
(* The exception is raised in the code, which may catch it ... *)
Raised ==
  /\ stray /\ code = "runs" /\ stray' = FALSE /\ code' \in {"runs", "leaves"}
  /\ UNCHANGED <<state, executing, timer, reader, prewarm, closing>>
(* ... or in the finally of execute, which then does nothing. *)
Leaves ==
  /\ code = "leaves" /\ code' = "idle" /\ timer' = FALSE
  /\ \/ /\ executing' = FALSE /\ state' = IF state = "executing" THEN "alive" ELSE state
        /\ UNCHANGED stray
     \/ stray /\ stray' = FALSE /\ UNCHANGED <<state, executing>>
  /\ UNCHANGED <<reader, prewarm, closing>>
(* A late exception hits what the thread does next, another request even. *)
RaisedElsewhere ==
  /\ stray /\ code = "idle" /\ stray' = FALSE
  /\ UNCHANGED <<state, executing, code, timer, reader, prewarm, closing>>

PrewarmEnds ==
  /\ prewarm = "runs" /\ prewarm' = "done" /\ UNCHANGED <<running, reader, closing>>
DetachedCloses ==
  /\ detached = "waits" /\ connLock = "" /\ conn' = "closed" /\ detached' = "done"
  /\ UNCHANGED <<running, owned, connLock, prewarm, closing>>

-----------------------------------------------------------------------------
RequestClose ==
  /\ state \notin {"closing", "closed"} /\ state' = "closing"
  /\ UNCHANGED <<executing, code, timer, stray, reader, prewarm, closing>>

(* finish_close of a revoked backend, with some or no time; force_abort     *)
(* goes on only if nobody is closing.                                      *)
Begin(c) ==
  /\ at[c] = "idle" /\ closeLock = "" /\ state \in {"closing", "closed"}
  /\ closeLock' = c /\ at' = [at EXCEPT ![c] = "looks"] /\ left' \in {[left EXCEPT ![c] = b] : b \in BOOLEAN}
  /\ UNCHANGED <<running, reader, prewarm, busy, forced>>

Returns(c) == closeLock' = "" /\ at' = [at EXCEPT ![c] = IF c \in Reapers THEN "idle" ELSE "over"]
InUseByState == state = "executing"
InUse == executing
Look(c) ==
  /\ at[c] = "looks"
  /\ IF state = "closed" \/ (InUse /\ left[c])
     THEN Returns(c) /\ UNCHANGED <<busy, owned>>   \* done already, or a residual
     ELSE /\ busy' = [busy EXCEPT ![c] = InUse] /\ owned' = FALSE
          /\ at' = [at EXCEPT ![c] = IF owned THEN "reader" ELSE "prewarm"] /\ UNCHANGED closeLock
  /\ UNCHANGED <<running, conn, connLock, detached, prewarm, left, forced>>
(* The reader is closed here, or by a thread of its own if code may be in it. *)
CloseReader(c) ==
  /\ at[c] = "reader" /\ at' = [at EXCEPT ![c] = "prewarm"]
  /\ \/ busy[c] /\ detached' = "waits" /\ forced' = TRUE /\ UNCHANGED conn
     \/ ~ busy[c] /\ connLock = "" /\ conn' = "closed" /\ UNCHANGED <<detached, forced>>
  /\ UNCHANGED <<running, owned, connLock, prewarm, closeLock, busy, left>>
TimePasses(c) ==
  /\ at[c] = "prewarm" /\ left[c] /\ left' = [left EXCEPT ![c] = FALSE]
  /\ UNCHANGED <<running, reader, prewarm, closeLock, at, busy, forced>>
(* The walk is waited for while there is time; without any it is left alone. *)
Prewarmed(c) ==
  /\ at[c] = "prewarm"
  /\ \/ prewarm = "runs" /\ left[c] /\ Returns(c) /\ UNCHANGED <<state, forced>>   \* a residual
     \/ /\ prewarm = "done" \/ ~ left[c]
        /\ Returns(c) /\ state' = "closed" /\ forced' = (forced \/ prewarm = "runs")
  /\ UNCHANGED <<executing, code, timer, stray, reader, prewarm, busy, left>>

Goes(c) == Look(c) \/ CloseReader(c) \/ Prewarmed(c)
LastAttempt(c) == c \in Reapers /\ Begin(c) /\ ~ left'[c]
Closer(c) == Begin(c) \/ Goes(c) \/ TimePasses(c)
Code == Execute \/ EnterReader \/ LeaveReader \/ Ends \/ Timeout \/ Raised \/ Leaves \/ RaisedElsewhere
Next == Code \/ PrewarmEnds \/ DetachedCloses \/ RequestClose \/ \E c \in Closers : Closer(c)

-----------------------------------------------------------------------------
(* No closer waits for the code of the user, nor closes the connection     *)
(* under it: whoever closes the reader itself finds the code gone for good, *)
(* wherever a late timeout hit the thread; and a closed backend has nothing *)
(* left that runs or is open, unless it had to be forced.                  *)
CloseNeverMeetsCode ==
  /\ \A c \in Closers : at[c] = "reader" /\ ~ busy[c] => code \notin {"runs", "reads"} /\ connLock = ""
  /\ state = "closed" => ~ owned /\ (forced \/ (conn = "closed" /\ prewarm = "done" /\ code \in {"idle", "leaves"}))

(* A revoked backend is closed in the end, even if its code never stops:   *)
(* the budget of the reaper's attempts runs out, and an attempt without    *)
(* time is not turned away.                                                *)
Revoked == state = "closing"
RevokedEnds == Revoked ~> ~ Revoked
=============================================================================
