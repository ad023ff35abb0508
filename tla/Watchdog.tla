------------------------------ MODULE Watchdog ------------------------------
(***************************************************************************)
(* The Windows service: the watchdog thread (_serve, _watch of             *)
(* _service_win.py) starts the server, probes it and restarts it as the    *)
(* RestartPolicy of _service_watchdog.py says, while SvcStop may come at   *)
(* any moment on the thread of the service manager.  Time is counted in    *)
(* rounds of the probe loop.                                               *)
(***************************************************************************)
EXTENDS Integers, Sequences, FiniteSetsExt

CONSTANTS FailuresBeforeKill,  \* missed probes in a row
          ReadinessRounds,     \* a new server may stay silent this long
          MaxRestarts,         \* failed starts in a row restarted at once
          HealthyRounds,       \* answering this long proves a start healthy
          RestartDelay,
          Backoff              \* the delays after that, the last one repeated

VARIABLES watch,        \* where the watchdog thread is
          child,        \* the server process
          exit,         \* how the child ended: "clean", "crash" or "killed"
          stopping,     \* SvcStop was called
          stop,         \* where SvcStop is
          target,       \* whether SvcStop's snapshot saw a child
          stopEvent,
          \* the policy: of the running process ...
          ready, age, misses, firstOk, span,
          \* ... and over the restarts
          failedStarts, backoffStep, delay
watchdogVars == <<watch, child, exit, stopping, stop, target, stopEvent,
          ready, age, misses, firstOk, span, failedStarts, backoffStep, delay>>
processVars == <<ready, age, misses, firstOk, span>>
restartVars == <<failedStarts, backoffStep, delay>>
stopVars == <<stopping, stop, target, stopEvent>>

Init ==
    /\ watch = "launch" /\ child = "none" /\ exit = "none"
    /\ stopping = FALSE /\ stop = "none" /\ target = FALSE /\ stopEvent = FALSE
    /\ ready = FALSE /\ age = 0 /\ misses = 0 /\ firstOk = -1 /\ span = 0
    /\ failedStarts = 0 /\ backoffStep = 0 /\ delay = 0

-----------------------------------------------------------------------------
(* Launching: under _proc_lock the intent is read again, then Popen.       *)
MayLaunchUnread == TRUE
MayLaunch == ~stopping

LaunchBegin ==
    /\ watch = "launch"
    /\ watch' = IF MayLaunch THEN "popen" ELSE "returned"
    /\ UNCHANGED <<child, exit, stopVars, processVars, restartVars>>

(* process_started resets what the policy knows of the process.            *)
ProcessStartedKeepingHealth ==
    /\ ready' = FALSE /\ age' = 0 /\ misses' = 0
    /\ UNCHANGED <<firstOk, span>>
ProcessStarted ==
    /\ ready' = FALSE /\ age' = 0 /\ misses' = 0 /\ firstOk' = -1 /\ span' = 0

Popen ==
    /\ watch = "popen"
    /\ child' = "running" /\ exit' = "none"
    /\ watch' = "grace"
    /\ ProcessStarted
    /\ UNCHANGED <<stopVars, restartVars>>

(* Popen raises, or the output pump cannot start after it.                 *)
LaunchRaises ==
    /\ watch = "popen"
    /\ \/ UNCHANGED <<child, exit>>
       \/ child' = "running" /\ exit' = "none"
    /\ watch' = "returned"
    /\ UNCHANGED <<stopVars, processVars, restartVars>>

StopAsked == stopping \/ stopEvent

(* Every wait of the loop looks at the stop: the rounds at the event only. *)
NoticeStop ==
    /\ \/ watch \in {"grace", "asked", "delay"} /\ StopAsked
       \/ watch = "rounds" /\ stopEvent
    /\ watch' = "abandon"
    /\ UNCHANGED <<child, exit, stopVars, processVars, restartVars>>

GraceOver ==
    /\ watch = "grace" /\ ~StopAsked
    /\ watch' = "rounds"
    /\ UNCHANGED <<child, exit, stopVars, processVars, restartVars>>

(* Thirty seconds pass; the probe takes up to ten more.                    *)
Round ==
    /\ watch = "rounds" /\ child = "running" /\ ~stopEvent
    /\ age' = Min({age + 1, ReadinessRounds})
    /\ firstOk' = IF firstOk < 0 THEN firstOk ELSE Min({firstOk + 1, HealthyRounds})
    /\ watch' = "asked"
    /\ UNCHANGED <<child, exit, stopVars, ready, misses, span, restartVars>>

(* A stop that arrived inside the probe is not taken for a missed one.     *)
ProbeRead ==
    /\ watch = "asked" /\ ~StopAsked
    /\ watch' = "probed"
    /\ UNCHANGED <<child, exit, stopVars, processVars, restartVars>>

(* probe_succeeded *)
ProbeOk ==
    /\ watch = "probed"
    /\ ready' = TRUE /\ misses' = 0
    /\ firstOk' = Max({firstOk, 0})
    /\ span' = Max({firstOk, 0})
    /\ watch' = "rounds"
    /\ UNCHANGED <<child, exit, stopVars, age, restartVars>>

(* probe_failed; a kill that is due terminates the child at once.          *)
KillDue ==
    /\ ready \/ age >= ReadinessRounds
    /\ misses + 1 >= FailuresBeforeKill

ProbeMissed ==
    /\ watch = "probed"
    /\ misses' = Min({misses + 1, FailuresBeforeKill})
    /\ IF KillDue
       THEN /\ exit' = IF child = "running" THEN "killed" ELSE exit
            /\ child' = "dead"
            /\ watch' = "killed"
       ELSE /\ watch' = "rounds"
            /\ UNCHANGED <<child, exit>>
    /\ UNCHANGED <<stopVars, ready, age, firstOk, span, restartVars>>

(* The server ends by itself. *)
ChildExits ==
    /\ child = "running"
    /\ child' = "dead"
    /\ exit' \in {"clean", "crash"}
    /\ UNCHANGED <<watch, stopVars, processVars, restartVars>>

(* The loop meets a dead child; note_restart decides how long to wait.     *)
HealthyAtAll == span > 0
Healthy == span >= HealthyRounds

NoteRestart ==
    IF Healthy
    THEN /\ failedStarts' = 0 /\ backoffStep' = 0 /\ delay' = RestartDelay
    ELSE /\ failedStarts' = Min({failedStarts + 1, MaxRestarts + 1})
         /\ IF failedStarts + 1 <= MaxRestarts
            THEN delay' = RestartDelay /\ UNCHANGED backoffStep
            ELSE /\ delay' = Backoff[Min({backoffStep + 1, Len(Backoff)})]
                 /\ backoffStep' = Min({backoffStep + 1, Len(Backoff)})

CleanExit == exit = "clean" /\ watch # "killed"

ChildEnded ==
    /\ watch \in {"rounds", "killed"} /\ child = "dead"
    /\ \/ /\ (CleanExit \/ StopAsked)
          /\ watch' = "returned"
          /\ UNCHANGED restartVars
       \/ /\ ~CleanExit /\ ~StopAsked
          /\ NoteRestart
          /\ watch' = "delay"
    /\ UNCHANGED <<child, exit, stopVars, processVars>>

DelayOver ==
    /\ watch = "delay" /\ ~StopAsked
    /\ watch' = "launch"
    /\ UNCHANGED <<child, exit, stopVars, processVars, restartVars>>

(* _abandon_child kills what runs; _run_server does it once more on every  *)
(* way out and then sets the event.                                        *)
LeftRunning == child
Killed == IF child = "running" THEN "dead" ELSE child

Abandon ==
    /\ watch \in {"abandon", "returned"}
    /\ child' = Killed
    /\ exit' = IF child = "running" THEN "killed" ELSE exit
    /\ watch' = IF watch = "abandon" THEN "returned" ELSE "left"
    /\ UNCHANGED <<stopVars, processVars, restartVars>>

Leave ==
    /\ watch = "left"
    /\ watch' = "ended"
    /\ stopEvent' = TRUE
    /\ UNCHANGED <<child, exit, stopping, stop, target, processVars, restartVars>>

-----------------------------------------------------------------------------
(* SvcStop: the intent first, then a snapshot of the child under the lock. *)
StopIntent ==
    /\ stop = "none"
    /\ stopping' = TRUE /\ stop' = "snapshot"
    /\ UNCHANGED <<watch, child, exit, target, stopEvent, processVars, restartVars>>

LockSkipped == TRUE
LockFree == watch # "popen"

StopSnapshot ==
    /\ stop = "snapshot" /\ LockFree
    /\ target' = (child # "none")
    /\ stop' = "terminate"
    /\ UNCHANGED <<watch, child, exit, stopping, stopEvent, processVars, restartVars>>

StopTerminate ==
    /\ stop = "terminate"
    /\ child' = IF target THEN Killed ELSE child
    /\ exit' = IF target /\ child = "running" THEN "killed" ELSE exit
    /\ stop' = "event"
    /\ UNCHANGED <<watch, stopping, target, stopEvent, processVars, restartVars>>

StopDone ==
    /\ stop = "event"
    /\ stopEvent' = TRUE /\ stop' = "done"
    /\ UNCHANGED <<watch, child, exit, stopping, target, processVars, restartVars>>

WatchStep ==
    \/ LaunchBegin \/ Popen \/ LaunchRaises \/ NoticeStop \/ GraceOver \/ Round \/ ProbeRead \/ ProbeOk
    \/ ProbeMissed \/ ChildEnded \/ DelayOver \/ Abandon \/ Leave
StopStep == StopIntent \/ StopSnapshot \/ StopTerminate \/ StopDone
Next == WatchStep \/ ChildExits \/ StopStep

Spec == Init /\ [][Next]_watchdogVars

-----------------------------------------------------------------------------
WatchTypeOK ==
    /\ watch \in {"launch", "popen", "grace", "rounds", "asked", "probed", "killed", "delay",
                  "abandon", "returned", "left", "ended"}
    /\ child \in {"none", "running", "dead"}
    /\ exit \in {"none", "clean", "crash", "killed"}
    /\ stop \in {"none", "snapshot", "terminate", "event", "done"}
    /\ {stopping, target, stopEvent, ready} \subseteq BOOLEAN
    /\ age \in 0..ReadinessRounds /\ misses \in 0..FailuresBeforeKill
    /\ firstOk \in -1..HealthyRounds /\ span \in 0..HealthyRounds
    /\ failedStarts \in 0..MaxRestarts + 1 /\ backoffStep \in 0..Len(Backoff)

(* A stop is final, wherever it comes in between: after SvcStop's snapshot *)
(* no other child is ever started, and once the watchdog has left, on      *)
(* whatever way, no server outlives the service.                           *)
StopIsFinal ==
    [][/\ child # "running" /\ child' = "running" => stop \in {"none", "snapshot"}
       /\ watch' \in {"left", "ended"} => child' # "running"]_watchdogVars

(* What clears the budget is proven health, never elapsed time (docstring  *)
(* of _service_watchdog): while no start proved healthy the wait between   *)
(* restarts never gets shorter, whatever the server does in between.       *)
OnlyHealthShortensDelay ==
    [][delay' < delay => span >= HealthyRounds /\ watch \in {"rounds", "killed"}]_watchdogVars
=============================================================================
