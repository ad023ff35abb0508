---------------------------- MODULE SpawnBroker ----------------------------
(***************************************************************************)
(* _LinuxSpawnBroker of sandbox_process.py: every sandbox worker is forked *)
(* by one long-lived thread, because PR_SET_PDEATHSIG binds a child to the *)
(* thread that forked it.  A caller queues its Process and waits; if it    *)
(* gives up first, the broker takes no more requests and owns the worker   *)
(* that Process.start() may still produce.                                 *)
(***************************************************************************)
EXTENDS Integers, Sequences, FiniteSets

CONSTANT Callers       \* each starts one process

VARIABLES current,     \* the broker in _linux_spawn_broker; 0 before the first
          accepting,   \* per broker, _accepting
          queued,      \* per broker, the requests put and not taken
          serving,     \* per broker, the request its thread works on, or NoCaller
          stage,       \* per broker, what its thread does with it
          caller,      \* where each caller is
          mine,        \* the broker each caller picked
          request,     \* completed, abandoned and error of each request
          worker,      \* the process of each request
          childConn    \* the end of the pipe the child was given
brokerVars == <<current, accepting, queued, serving, stage, caller, mine, request, worker, childConn>>

Brokers == 1..Cardinality(Callers) + 1
NoCaller == "nobody"

Init ==
    /\ current = 0
    /\ accepting = [b \in Brokers |-> TRUE]
    /\ queued = [b \in Brokers |-> <<>>]
    /\ serving = [b \in Brokers |-> NoCaller]
    /\ stage = [b \in Brokers |-> "idle"]
    /\ caller = [c \in Callers |-> "new"]
    /\ mine = [c \in Callers |-> 0]
    /\ request = [c \in Callers |-> [completed |-> FALSE, abandoned |-> FALSE, error |-> FALSE]]
    /\ worker = [c \in Callers |-> "none"]
    /\ childConn = [c \in Callers |-> "open"]

threadVars == <<queued, serving, stage>>

(* _start_process: the current broker, or a new one when it was retired.   *)
Pick(c) ==
    /\ caller[c] = "new"
    /\ current' = IF current # 0 /\ accepting[current] THEN current ELSE current + 1
    /\ mine' = [mine EXCEPT ![c] = current']
    /\ caller' = [caller EXCEPT ![c] = "picked"]
    /\ UNCHANGED <<accepting, threadVars, request, worker, childConn>>

(* start: the request is put unless the broker retired since it was picked *)
(* (_SpawnBrokerRetired: the loop of _start_process begins again).         *)
Submit(c) ==
    /\ caller[c] = "picked"
    /\ \/ /\ accepting[mine[c]]
          /\ queued' = [queued EXCEPT ![mine[c]] = Append(@, c)]
          /\ caller' = [caller EXCEPT ![c] = "waiting"]
       \/ /\ ~accepting[mine[c]]
          /\ caller' = [caller EXCEPT ![c] = "new"]
          /\ UNCHANGED queued
    /\ UNCHANGED <<current, accepting, serving, stage, mine, request, worker, childConn>>

(* completed.wait ran into its timeout; nothing is locked yet. *)
TimesOut(c) ==
    /\ caller[c] = "waiting" /\ ~request[c].completed
    /\ caller' = [caller EXCEPT ![c] = "late"]
    /\ UNCHANGED <<current, accepting, threadVars, mine, request, worker, childConn>>

(* Under both locks: too late to give up a request that was completed.     *)
MayGiveUpAnyway(c) == TRUE
MayGiveUp(c) == ~request[c].completed

GiveUp(c) ==
    /\ caller[c] = "late" /\ MayGiveUp(c)
    /\ request' = [request EXCEPT ![c].abandoned = TRUE]
    /\ accepting' = [accepting EXCEPT ![mine[c]] = FALSE]
    /\ caller' = [caller EXCEPT ![c] = "left"]
    /\ UNCHANGED <<current, threadVars, mine, worker, childConn>>

(* The caller of start: it owns the worker and closes its end of the pipe, *)
(* or cleans up after an error.                                            *)
Answered(c) ==
    /\ \/ caller[c] = "waiting" /\ request[c].completed
       \/ caller[c] = "late" /\ ~MayGiveUp(c)
    /\ caller' = [caller EXCEPT ![c] = IF request[c].error THEN "failed" ELSE "owns"]
    /\ childConn' = [childConn EXCEPT ![c] = "closed"]
    /\ UNCHANGED <<current, accepting, threadVars, mine, request, worker>>

(* The broker's thread takes a request and looks whether its caller left.  *)
Take(b) ==
    /\ stage[b] = "idle" /\ queued[b] # <<>>
    /\ LET c == Head(queued[b]) IN
         /\ queued' = [queued EXCEPT ![b] = Tail(@)]
         /\ serving' = [serving EXCEPT ![b] = c]
         /\ stage' = [stage EXCEPT ![b] = IF request[c].abandoned THEN "finish" ELSE "starting"]
    /\ UNCHANGED <<current, accepting, caller, mine, request, worker, childConn>>

(* Process.start() forks, or fails. *)
Fork(b) ==
    /\ stage[b] = "starting"
    /\ worker' = [worker EXCEPT ![serving[b]] = "alive"]
    /\ stage' = [stage EXCEPT ![b] = "forked"]
    /\ UNCHANGED <<current, accepting, queued, serving, caller, mine, request, childConn>>
ForkFails(b) ==
    /\ stage[b] = "starting"
    /\ stage' = [stage EXCEPT ![b] = "unforked"]
    /\ UNCHANGED <<current, accepting, queued, serving, caller, mine, request, worker, childConn>>

(* Under the request's lock: the answer, unless nobody waits for it.       *)
AbandonedUnread(c) == FALSE
Abandoned(c) == request[c].abandoned

Report(b) ==
    /\ stage[b] \in {"forked", "unforked"}
    /\ LET c == serving[b]
           failed == stage[b] = "unforked" IN
         IF Abandoned(c)
         THEN /\ stage' = [stage EXCEPT ![b] = "finish"]
              /\ UNCHANGED <<serving, request, childConn>>
         ELSE /\ request' = [request EXCEPT ![c].completed = TRUE, ![c].error = failed]
              /\ childConn' = IF failed THEN [childConn EXCEPT ![c] = "closed"] ELSE childConn
              /\ stage' = [stage EXCEPT ![b] = "idle"]
              /\ serving' = [serving EXCEPT ![b] = NoCaller]
    /\ UNCHANGED <<current, accepting, queued, caller, mine, worker>>

(* _finish_abandoned_request: close the pipe, then make sure the worker    *)
(* is dead, then mark the request completed.                               *)
LateClose(b) ==
    /\ stage[b] = "finish"
    /\ childConn' = [childConn EXCEPT ![serving[b]] = "closed"]
    /\ stage' = [stage EXCEPT ![b] = "kill"]
    /\ UNCHANGED <<current, accepting, queued, serving, caller, mine, request, worker>>

LateLeft(c) == worker[c]
LateKilled(c) == IF worker[c] = "alive" THEN "dead" ELSE worker[c]

LateKill(b) ==
    /\ stage[b] = "kill"
    /\ LET c == serving[b] IN
         /\ worker' = [worker EXCEPT ![c] = LateKilled(c)]
         /\ request' = [request EXCEPT ![c].completed = TRUE]
    /\ stage' = [stage EXCEPT ![b] = "idle"]
    /\ serving' = [serving EXCEPT ![b] = NoCaller]
    /\ UNCHANGED <<current, accepting, queued, caller, mine, childConn>>

BrokerStep(b) == Take(b) \/ Fork(b) \/ ForkFails(b) \/ Report(b) \/ LateClose(b) \/ LateKill(b)
CallerStep(c) == Pick(c) \/ Submit(c) \/ GiveUp(c) \/ Answered(c)
Next == \/ \E c \in Callers : CallerStep(c) \/ TimesOut(c)
        \/ \E b \in Brokers : BrokerStep(b)

(* The broker's thread and the callers run; Process.start() returns in the *)
(* end.  No wait has to time out.                                          *)
Fairness == /\ \A b \in Brokers : WF_brokerVars(BrokerStep(b))
            /\ \A c \in Callers : WF_brokerVars(CallerStep(c))
Spec == Init /\ [][Next]_brokerVars /\ Fairness

-----------------------------------------------------------------------------
BrokerTypeOK ==
    /\ current \in 0..Cardinality(Callers) + 1
    /\ accepting \in [Brokers -> BOOLEAN]
    /\ queued \in [Brokers -> Seq(Callers)]
    /\ serving \in [Brokers -> Callers \union {NoCaller}]
    /\ stage \in [Brokers -> {"idle", "starting", "forked", "unforked", "finish", "kill"}]
    /\ caller \in [Callers -> {"new", "picked", "waiting", "late", "left", "owns", "failed"}]
    /\ mine \in [Callers -> 0..Cardinality(Callers) + 1]
    /\ request \in [Callers -> [completed : BOOLEAN, abandoned : BOOLEAN, error : BOOLEAN]]
    /\ worker \in [Callers -> {"none", "alive", "dead"}]
    /\ childConn \in [Callers -> {"open", "closed"}]

(* At the moment Process.start() returns, caller and broker agree on whose *)
(* the worker is: a caller never holds a worker the broker kills or that   *)
(* never started, and a worker nobody waits for is in the broker's hands.  *)
Held(b, c) == serving[b] = c \/ \E i \in DOMAIN queued[b] : queued[b][i] = c
WorkerHasOneOwner ==
    \A c \in Callers :
      /\ caller[c] = "owns" => worker[c] = "alive" /\ ~request[c].abandoned
      /\ worker[c] = "alive" /\ caller[c] # "owns"
            => (\E b \in Brokers : Held(b, c)) # (request[c].completed /\ ~request[c].error /\ ~request[c].abandoned)
      /\ caller[c] = "owns" => \A b \in Brokers : ~Held(b, c)

(* A worker that starts after its caller gave up does not stay behind, nor *)
(* does its end of the pipe.                                               *)
LateWorker == \E c \in Callers : caller[c] = "left" /\ (worker[c] = "alive" \/ childConn[c] = "open")
LateWorkerDies == LateWorker ~> ~ LateWorker
=============================================================================
