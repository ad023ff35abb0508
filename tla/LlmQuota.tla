------------------------------ MODULE LlmQuota ------------------------------
(***************************************************************************)
(* The LLM quota of a session with a sandbox process: the worker reserves  *)
(* calls in a shared counter (_WorkerLlmTools of sandbox_worker.py), the   *)
(* parent reads it without the lock, for the worker may have been killed   *)
(* inside the critical section, and starts the next generation from what   *)
(* it knows (_sync_llm_quota, _start_worker of sandbox_process.py).        *)
(***************************************************************************)
EXTENDS Integers, FiniteSetsExt

CONSTANTS Threads,      \* threads of the worker that call the provider
          Batch,        \* prompts of a thread's llm_query_batched
          MaxCalls,     \* max_llm_calls
          Generations   \* bound on workers of the session

VARIABLES known,       \* _llm_used of the parent
          counter,     \* the shared value of the generation
          generation,
          alive,
          lock,        \* the thread that holds the generation's quota lock
          call,        \* where each thread is, with the value it read
          calls        \* prompts that reached the provider, of all generations
quotaVars == <<known, counter, generation, alive, lock, call, calls>>

Nobody == "nobody"
Outside == [at |-> "out", used |-> 0]

Init ==
    /\ known = 0 /\ counter = 0 /\ generation = 1 /\ alive = TRUE
    /\ lock = Nobody
    /\ call = [t \in Threads |-> Outside]
    /\ calls = 0

LockIgnored(t) == TRUE
LockFree(t) == lock = Nobody

(* _reserve takes the lock and reads the counter ... *)
Enter(t) ==
    /\ alive /\ call[t].at = "out" /\ LockFree(t)
    /\ lock' = t
    /\ call' = [call EXCEPT ![t] = [at |-> "in", used |-> counter]]
    /\ UNCHANGED <<known, counter, generation, alive, calls>>

FitsOne(t) == call[t].used + 1 <= MaxCalls
Fits(t) == call[t].used + Batch[t] <= MaxCalls

(* ... and reserves the whole batch or nothing, before the provider call.  *)
Refuse(t) ==
    /\ alive /\ call[t].at = "in" /\ ~Fits(t)
    /\ lock' = Nobody
    /\ call' = [call EXCEPT ![t] = Outside]
    /\ UNCHANGED <<known, counter, generation, alive, calls>>

Write(t) ==
    /\ alive /\ call[t].at = "in" /\ Fits(t)
    /\ counter' = call[t].used + Batch[t]
    /\ call' = [call EXCEPT ![t].at = "reserved"]
    /\ UNCHANGED <<known, generation, alive, lock, calls>>

Unlock(t) ==
    /\ alive /\ call[t].at = "reserved"
    /\ lock' = Nobody
    /\ call' = [call EXCEPT ![t].at = "calling"]
    /\ UNCHANGED <<known, counter, generation, alive, calls>>

(* The provider is called with what was reserved; an error gives nothing   *)
(* back.                                                                   *)
CallProvider(t) ==
    /\ alive /\ call[t].at = "calling"
    /\ calls' = calls + Batch[t]
    /\ call' = [call EXCEPT ![t] = Outside]
    /\ UNCHANGED <<known, counter, generation, alive, lock>>

(* _sync_llm_quota: monotone, clamped to 0..MaxCalls. *)
SyncSkipped == known
Synced == Max({known, Min({Max({counter, 0}), MaxCalls})})

Sync ==
    /\ known' = Synced
    /\ UNCHANGED <<counter, generation, alive, lock, call, calls>>

(* The worker is killed at any instruction; the parent joins it and reads  *)
(* the counter once more (_terminate_current_worker).                      *)
Kill ==
    /\ alive
    /\ alive' = FALSE
    /\ call' = [t \in Threads |-> Outside]
    /\ known' = Synced
    /\ UNCHANGED <<counter, generation, lock, calls>>

(* A new counter and a new lock for the next generation. *)
FreshFromZero == 0
FreshCounter == known

Restart ==
    /\ ~alive /\ generation < Generations
    /\ generation' = generation + 1 /\ alive' = TRUE
    /\ counter' = FreshCounter
    /\ lock' = Nobody
    /\ UNCHANGED <<known, call, calls>>

Next ==
    \/ \E t \in Threads : Enter(t) \/ Refuse(t) \/ Write(t) \/ Unlock(t) \/ CallProvider(t)
    \/ Sync \/ Kill \/ Restart
Spec == Init /\ [][Next]_quotaVars

-----------------------------------------------------------------------------
QuotaTypeOK ==
    /\ known \in 0..MaxCalls /\ counter \in 0..MaxCalls
    /\ generation \in 1..Generations /\ alive \in BOOLEAN
    /\ lock \in Threads \union {Nobody}
    /\ call \in [Threads -> [at : {"out", "in", "reserved", "calling"}, used : 0..MaxCalls]]
    /\ calls \in Nat

(* Whenever the worker is killed, between the read and the write of the    *)
(* counter, with the lock held or before the provider answered, no session *)
(* ever makes more calls than its limit, over all its generations, and     *)
(* what the provider got was counted first.                                *)
Pending == MapThenSumSet(LAMBDA t : IF call[t].at \in {"reserved", "calling"} THEN Batch[t] ELSE 0, Threads)
CallsWithinQuota ==
    /\ calls <= MaxCalls
    /\ calls + Pending <= Max({known, counter})
=============================================================================
