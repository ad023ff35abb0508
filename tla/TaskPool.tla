------------------------------ MODULE TaskPool ------------------------------
(***************************************************************************)
(* IndexTaskPool of _index_workers.py: each build or update runs its parse *)
(* tasks in worker processes, taken from one budget of the server process, *)
(* and gets the results in the order of the items.  Where workers cannot   *)
(* be started it goes on in the coordinator; where one dies it stops.  A   *)
(* terminated worker is gone when its join of 10 seconds returns.          *)
(***************************************************************************)
EXTENDS Integers, Sequences, FiniteSets, FiniteSetsExt

CONSTANTS Operations,  \* builds and updates of one server process
          Requested,   \* workers each asks for
          Limits,      \* RLM_INDEX_WORKERS and the CPUs, read at each reservation
          Items,       \* number of tasks of an operation
          Window       \* map_ordered's window

VARIABLES budget,      \* _budget_in_use
          op,          \* where each operation is
          reserved,    \* what each took from the budget; 1: nothing
          processes,   \* live worker processes of each executor
          submitted,   \* tasks taken from the iterator so far
          pending,     \* the window: a sequence of [item, state]
          yielded      \* the items whose results the operation got
poolVars == <<budget, op, reserved, processes, submitted, pending, yielded>>

taskVars == <<submitted, pending, yielded>>

Init ==
    /\ budget = 0
    /\ op = [o \in Operations |-> "new"]
    /\ reserved = [o \in Operations |-> 1]
    /\ processes = [o \in Operations |-> 0]
    /\ submitted = [o \in Operations |-> 0]
    /\ pending = [o \in Operations |-> <<>>]
    /\ yielded = [o \in Operations |-> <<>>]

FreeUnchecked(limit) == limit
Free(limit) == limit - budget

(* _reserve_workers: less than two means sequential and takes nothing.     *)
Reserve(o) ==
    /\ op[o] = "new"
    /\ \E limit \in Limits :
         LET granted == Min({Requested[o], Free(limit)}) IN
           IF Requested[o] > 1 /\ granted > 1
           THEN /\ budget' = budget + granted
                /\ reserved' = [reserved EXCEPT ![o] = granted]
                /\ op' = [op EXCEPT ![o] = "parallel"]
           ELSE /\ op' = [op EXCEPT ![o] = "sequential"]
                /\ UNCHANGED <<budget, reserved>>
    /\ UNCHANGED <<processes, taskVars>>

(* _release_budget gives back once; _release_workers never below zero.     *)
GiveBackAgain(o) ==
    /\ budget' = IF reserved[o] > 1 THEN Max({0, budget - reserved[o]}) ELSE budget
    /\ UNCHANGED reserved
GiveBackNothing(o) == UNCHANGED <<budget, reserved>>
GiveBack(o) ==
    /\ budget' = IF reserved[o] > 1 THEN Max({0, budget - reserved[o]}) ELSE budget
    /\ reserved' = [reserved EXCEPT ![o] = 1]

(* _ensure_executor, at the first submit: the processes start and answer   *)
(* the probe, or whatever started is terminated and the budget given back. *)
StartExecutor(o) ==
    /\ op[o] = "parallel" /\ processes[o] = 0
    /\ processes' = [processes EXCEPT ![o] = reserved[o]]
    /\ UNCHANGED <<budget, op, reserved, taskVars>>

(* _terminate_executor waits for the processes; the tasks it cancels or    *)
(* kills end with an error, those that were done keep their result.        *)
Killed(tasks) ==
    [i \in DOMAIN tasks |->
        IF tasks[i].state = "running" THEN [tasks[i] EXCEPT !.state = "lost"] ELSE tasks[i]]

FallBack(o) ==
    /\ op[o] = "parallel"
    /\ op' = [op EXCEPT ![o] = "sequential"]
    /\ processes' = [processes EXCEPT ![o] = 0]
    /\ pending' = [pending EXCEPT ![o] = Killed(@)]
    /\ GiveBack(o)
    /\ UNCHANGED <<submitted, yielded>>

(* submit: to the executor, or run at once in the coordinator.             *)
Submit(o) ==
    /\ \/ op[o] = "sequential"
       \/ op[o] = "parallel" /\ processes[o] > 0
    /\ submitted[o] < Items /\ Len(pending[o]) < Window
    /\ submitted' = [submitted EXCEPT ![o] = @ + 1]
    /\ \E state \in IF op[o] = "sequential" THEN {"done", "raised"} ELSE {"running"} :
         pending' = [pending EXCEPT ![o] = Append(@, [item |-> submitted[o] + 1, state |-> state])]
    /\ UNCHANGED <<budget, op, reserved, processes, yielded>>

(* Tasks finish in any order. *)
Finish(o) ==
    \E i \in DOMAIN pending[o], state \in {"done", "raised"} :
      /\ pending[o][i].state = "running"
      /\ pending' = [pending EXCEPT ![o][i].state = state]
      /\ UNCHANGED <<budget, op, reserved, processes, submitted, yielded>>

(* A worker dies: the executor is broken, unfinished tasks are lost.       *)
WorkerDies(o) ==
    /\ processes[o] > 0 /\ op[o] = "parallel"
    /\ op' = [op EXCEPT ![o] = "broken"]
    /\ processes' = [processes EXCEPT ![o] = @ - 1]
    /\ pending' = [pending EXCEPT ![o] = Killed(@)]
    /\ UNCHANGED <<budget, reserved, submitted, yielded>>

(* map_ordered hands out the oldest task's result; result_bytes raises for *)
(* a lost one, and a broken executor takes no further task.                *)
Working == {"sequential", "parallel", "broken"}
Oldest(o) == Head(pending[o])
YieldsAnyDone(o, i) == TRUE
Yields(o, i) == i = 1

Yield(o) ==
    /\ op[o] \in Working
    /\ \E i \in DOMAIN pending[o] :
         /\ Yields(o, i) /\ pending[o][i].state = "done"
         /\ yielded' = [yielded EXCEPT ![o] = Append(@, pending[o][i].item)]
         /\ pending' = [pending EXCEPT ![o] = SubSeq(@, 1, i - 1) \o SubSeq(@, i + 1, Len(@))]
    /\ UNCHANGED <<budget, op, reserved, processes, submitted>>

Fails(o) ==
    /\ \/ op[o] \in Working /\ pending[o] # <<>> /\ Oldest(o).state \in {"lost", "raised"}
       \/ op[o] = "broken" /\ submitted[o] < Items /\ Len(pending[o]) < Window
    /\ op' = [op EXCEPT ![o] = "closing on error"]
    /\ UNCHANGED <<budget, reserved, processes, taskVars>>

(* KeyboardInterrupt, or an error of the code around the pool.             *)
Interrupted(o) ==
    /\ op[o] \in Working
    /\ op' = [op EXCEPT ![o] = "closing on error"]
    /\ UNCHANGED <<budget, reserved, processes, taskVars>>

AllYielded(o) == submitted[o] = Items /\ pending[o] = <<>>

(* close: a clean exit waits for the idle processes, an error terminates   *)
(* them; the budget is given back last.                                    *)
CloseClean(o) ==
    /\ op[o] \in Working /\ AllYielded(o)
    /\ op' = [op EXCEPT ![o] = "closing"]
    /\ UNCHANGED <<budget, reserved, processes, taskVars>>

Shutdown(o) ==
    /\ op[o] \in {"closing", "closing on error"} /\ processes[o] > 0
    /\ processes' = [processes EXCEPT ![o] = 0]
    /\ UNCHANGED <<budget, op, reserved, taskVars>>

ProcessesIgnored(o) == TRUE
ProcessesGone(o) == processes[o] = 0

Closed(o) ==
    /\ op[o] \in {"closing", "closing on error"} /\ ProcessesGone(o)
    /\ GiveBack(o)
    /\ op' = [op EXCEPT ![o] = IF op[o] = "closing" THEN "done" ELSE "failed"]
    /\ UNCHANGED <<processes, taskVars>>

(* The next operation of the server starts from nothing. *)
Again(o) ==
    /\ op[o] \in {"done", "failed"} /\ processes[o] = 0
    /\ op' = [op EXCEPT ![o] = "new"]
    /\ submitted' = [submitted EXCEPT ![o] = 0]
    /\ pending' = [pending EXCEPT ![o] = <<>>]
    /\ yielded' = [yielded EXCEPT ![o] = <<>>]
    /\ UNCHANGED <<budget, reserved, processes>>

Step(o) ==
    \/ Reserve(o) \/ StartExecutor(o) \/ FallBack(o) \/ Submit(o) \/ Finish(o) \/ WorkerDies(o)
    \/ Yield(o) \/ Fails(o) \/ Interrupted(o) \/ CloseClean(o) \/ Shutdown(o) \/ Closed(o) \/ Again(o)
Next == \E o \in Operations : Step(o)
Spec == Init /\ [][Next]_poolVars

-----------------------------------------------------------------------------
PoolTypeOK ==
    /\ budget \in Nat
    /\ op \in [Operations -> Working \union {"new", "closing", "closing on error", "done", "failed"}]
    /\ reserved \in [Operations -> Nat \ {0}]
    /\ processes \in [Operations -> Nat]
    /\ submitted \in [Operations -> 0..Items]
    /\ \A o \in Operations :
         /\ pending[o] \in Seq([item : 1..Items, state : {"running", "done", "raised", "lost"}])
         /\ yielded[o] \in Seq(1..Items)

(* However operations overlap, fail, fall back or are interrupted, the     *)
(* budget is what the running ones reserved, worker processes never exceed *)
(* it, and it never exceeds the largest limit: nothing leaks, nothing is   *)
(* given back twice or before its processes are gone.                      *)
BudgetExact ==
    /\ budget = MapThenSumSet(LAMBDA o : IF reserved[o] > 1 THEN reserved[o] ELSE 0, Operations)
    /\ \A o \in Operations : processes[o] > 0 => processes[o] <= reserved[o]
    /\ budget <= Max(Limits)
    /\ (\A o \in Operations : op[o] \in {"new", "done", "failed"}) => budget = 0

(* Results come in the order of the items, and an operation that ends well *)
(* got every one: no file is skipped silently (IndexWorkerError).          *)
OrderedAndComplete ==
    \A o \in Operations :
      /\ yielded[o] = [i \in 1..Len(yielded[o]) |-> i]
      /\ op[o] = "done" => Len(yielded[o]) = Items
=============================================================================
