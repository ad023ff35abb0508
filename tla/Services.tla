------------------------------ MODULE Services ------------------------------
(***************************************************************************)
(* The protocols of the server that share no state with each other: a      *)
(* behaviour is one of one part, chosen at the start, and leaves the       *)
(* variables of the others at their initial values.                        *)
(***************************************************************************)
EXTENDS Integers, Sequences, FiniteSets

CONSTANTS
  Ledgers,       \* of ScanLedger, per part: walks, those in the server, slots, threads asked for, total
  JobsOf,        \* of IndexJobs, per part: paths, command lines, request threads, what they ask, files
  Callers,                                                 \* of SpawnBroker
  Operations, Requested, Limits, Items, Window,            \* of TaskPool
  FailuresBeforeKill, ReadinessRounds, MaxRestarts,
  HealthyRounds, RestartDelay, Backoff,                    \* of Watchdog
  Threads, Batch, MaxCalls, Generations,                   \* of LlmQuota
  Names, Dirs,                                             \* of ProjectRegistry
  Directories, Root, Extra, Links, Unreadable, Raising,    \* of TreeScan
  Closers, Reapers                                         \* of InlineBackend

VARIABLES part,
          ledger, delayed, pool, slotOf, walk,
          current, accepting, queued, serving, stage, caller, mine, request, worker, childConn,
          budget, op, reserved, processes, submitted, pending, yielded,
          watch, child, exit, stopping, stop, target, stopEvent,
          ready, age, misses, firstOk, span, failedStarts, backoffStep, delay,
          known, counter, generation, alive, lock, call, calls,
          disk, bak, cached, change, told, lookup,
          registered, job, builder, lockOf, dbOf, content, client,
          faulty, granted, started, startable, stack, seen, found, errors, undone, failure, at, dir, cut, outcome,
          state, executing, code, timer, stray, owned, conn, connLock, detached, prewarm, closeLock, closes, busy, left, forced

Late == INSTANCE ScanLedger WITH Buffered <- TRUE, Walks <- Ledgers["late"].walks,
          InlineWalks <- Ledgers["late"].inline, PoolSlots <- Ledgers["late"].slots,
          Want <- Ledgers["late"].want, Total <- Ledgers["late"].total
Ordered == INSTANCE ScanLedger WITH Buffered <- FALSE, Walks <- Ledgers["ordered"].walks,
          InlineWalks <- Ledgers["ordered"].inline, PoolSlots <- Ledgers["ordered"].slots,
          Want <- Ledgers["ordered"].want, Total <- Ledgers["ordered"].total
Broker == INSTANCE SpawnBroker
Pool == INSTANCE TaskPool
Service == INSTANCE Watchdog
Quota == INSTANCE LlmQuota
Registry == INSTANCE ProjectRegistry
Jobs == INSTANCE IndexJobs WITH Paths <- JobsOf["jobs"].paths, CommandLines <- JobsOf["jobs"].lines,
          Clients <- JobsOf["jobs"].clients, Asks <- JobsOf["jobs"].asks, MaxFiles <- JobsOf["jobs"].files
Asked == INSTANCE IndexJobs WITH Paths <- JobsOf["asked"].paths, CommandLines <- JobsOf["asked"].lines,
          Clients <- JobsOf["asked"].clients, Asks <- JobsOf["asked"].asks, MaxFiles <- JobsOf["asked"].files
Moved == INSTANCE IndexJobs WITH Paths <- JobsOf["moved"].paths, CommandLines <- JobsOf["moved"].lines,
          Clients <- JobsOf["moved"].clients, Asks <- JobsOf["moved"].asks, MaxFiles <- JobsOf["moved"].files
Scan == INSTANCE TreeScan WITH Dirs <- Directories, pending <- undone
Inline == INSTANCE InlineBackend WITH at <- closes

(* A list of workers and names is finite, and nobody and the holder of a   *)
(* free lock have a name of their own.                                     *)
ASSUME CallersAssumption == IsFiniteSet(Callers) /\ Broker!NoCaller \notin Callers
ASSUME ClosersAssumption == "" \notin Closers
ASSUME NamesAssumption == IsFiniteSet(Names)

(* Operations, requests and limits can be counted, and there is a limit.   *)
ASSUME PoolAssumption ==
  /\ IsFiniteSet(Operations) /\ Requested \in [Operations -> Nat] /\ Items \in Nat
  /\ IsFiniteSet(Limits) /\ Limits \subseteq Nat /\ Limits # {}

(* Threads and their batches can be counted, and nobody is no thread.      *)
ASSUME QuotaAssumption ==
  /\ IsFiniteSet(Threads) /\ Quota!Nobody \notin Threads
  /\ Batch \in [Threads -> Nat] /\ MaxCalls \in Nat /\ Generations \in Nat \ {0}

(* The tree is finite, and the threads of a walk are its own.              *)
ASSUME ScanAssumption ==
  /\ IsFiniteSet(Directories) /\ Root \in Directories
  /\ Len(Extra) \in Nat /\ DOMAIN Extra = 1..Len(Extra)
  /\ \A i, j \in 1..Len(Extra) : Extra[i] = Extra[j] => i = j
  /\ \A i \in 1..Len(Extra) : Extra[i] # "caller"

(* The slots are numbered from 1, and a walk that is here wants a thread.  *)
ASSUME LedgersAssumption ==
  \A l \in {"late", "ordered"} :
    /\ IsFiniteSet(Ledgers[l].walks) /\ Ledgers[l].walks # {} /\ Ledgers[l].inline \subseteq Ledgers[l].walks
    /\ IsFiniteSet(Ledgers[l].slots) /\ Ledgers[l].slots = 1..Cardinality(Ledgers[l].slots)
    /\ Ledgers[l].want \in [Ledgers[l].walks -> Nat \ {0}] /\ Ledgers[l].total \in Nat

(* The delays of the service do not get shorter from one restart to the    *)
(* next.                                                                   *)
ASSUME WatchAssumption ==
  /\ FailuresBeforeKill \in Nat /\ ReadinessRounds \in Nat /\ MaxRestarts \in Nat
  /\ HealthyRounds \in Nat /\ RestartDelay \in Nat
  /\ Len(Backoff) \in Nat \ {0} /\ \A i \in 1..Len(Backoff) : Backoff[i] \in Nat
  /\ RestartDelay <= Backoff[1]
  /\ \A i, j \in 1..Len(Backoff) : i <= j => Backoff[i] <= Backoff[j]

(* A path is no process, and neither is the name of nobody.                *)
ASSUME JobsAssumption ==
  \A p \in {"jobs", "asked", "moved"} :
    /\ JobsOf[p].paths \cap JobsOf[p].lines = {}
    /\ Jobs!Free \notin JobsOf[p].paths \cup JobsOf[p].lines
    /\ JobsOf[p].asks \subseteq {"register", "check drop", "info"} /\ JobsOf[p].files \in Nat

ledgerVars == <<ledger, delayed, pool, slotOf, walk>>
brokerVars == <<current, accepting, queued, serving, stage, caller, mine, request, worker, childConn>>
poolVars == <<budget, op, reserved, processes, submitted, pending, yielded>>
serviceVars == <<watch, child, exit, stopping, stop, target, stopEvent,
                 ready, age, misses, firstOk, span, failedStarts, backoffStep, delay>>
quotaVars == <<known, counter, generation, alive, lock, call, calls>>
registryVars == <<disk, bak, cached, change, told, lookup>>
jobsVars == <<registered, job, builder, lockOf, dbOf, content, client>>
scanVars == <<faulty, granted, started, startable, stack, seen, found, errors, undone, failure,
              at, dir, cut, outcome>>
inlineVars == <<state, executing, code, timer, stray, owned, conn, connLock, detached, prewarm,
                closeLock, closes, busy, left, forced>>
vars == <<part, ledgerVars, brokerVars, poolVars, serviceVars, quotaVars, registryVars, jobsVars, scanVars, inlineVars>>

Init ==
    /\ part \in {"late", "ordered", "broker", "pool", "service", "quota", "registry", "jobs", "asked", "moved", "scan", "inline"}
    /\ IF part = "late" THEN Late!Init ELSE Ordered!Init
    /\ Broker!Init /\ Pool!Init /\ Service!Init /\ Quota!Init /\ Registry!Init
    /\ CASE part = "moved" -> Moved!Init [] part = "asked" -> Asked!Init [] OTHER -> Jobs!Init
    /\ Scan!Init /\ (part # "scan" => granted = 1 /\ faulty.how = "not at all")
    /\ Inline!Init

LedgerNext ==
    /\ \/ part = "late" /\ Late!Next
       \/ part = "ordered" /\ Ordered!Next
    /\ UNCHANGED <<part, brokerVars, poolVars, serviceVars, quotaVars, registryVars, jobsVars, scanVars, inlineVars>>
BrokerNext ==
    /\ part = "broker" /\ Broker!Next
    /\ UNCHANGED <<part, ledgerVars, poolVars, serviceVars, quotaVars, registryVars, jobsVars, scanVars, inlineVars>>
PoolNext ==
    /\ part = "pool" /\ Pool!Next
    /\ UNCHANGED <<part, ledgerVars, brokerVars, serviceVars, quotaVars, registryVars, jobsVars, scanVars, inlineVars>>
ServiceNext ==
    /\ part = "service" /\ Service!Next
    /\ UNCHANGED <<part, ledgerVars, brokerVars, poolVars, quotaVars, registryVars, jobsVars, scanVars, inlineVars>>
QuotaNext ==
    /\ part = "quota" /\ Quota!Next
    /\ UNCHANGED <<part, ledgerVars, brokerVars, poolVars, serviceVars, registryVars, jobsVars, scanVars, inlineVars>>
RegistryNext ==
    /\ part = "registry" /\ Registry!Next
    /\ UNCHANGED <<part, ledgerVars, brokerVars, poolVars, serviceVars, quotaVars, jobsVars, scanVars, inlineVars>>
JobsNext ==
    /\ \/ part = "jobs" /\ Jobs!Next
       \/ part = "asked" /\ Asked!Next
       \/ part = "moved" /\ Moved!Next
    /\ UNCHANGED <<part, ledgerVars, brokerVars, poolVars, serviceVars, quotaVars, registryVars, scanVars, inlineVars>>
ScanNext ==
    /\ part = "scan" /\ Scan!Next
    /\ UNCHANGED <<part, ledgerVars, brokerVars, poolVars, serviceVars, quotaVars, registryVars, jobsVars, inlineVars>>
InlineNext ==
    /\ part = "inline" /\ Inline!Next
    /\ UNCHANGED <<part, ledgerVars, brokerVars, poolVars, serviceVars, quotaVars, registryVars, jobsVars, scanVars>>
Next == LedgerNext \/ BrokerNext \/ PoolNext \/ ServiceNext \/ QuotaNext \/ RegistryNext \/ JobsNext
        \/ ScanNext \/ InlineNext

(* The fairness of SpawnBroker, TreeScan and InlineBackend, for the         *)
(* behaviours of theirs: threads go on, and the reaper's budget runs out.  *)
OfBroker == part = "broker" /\ UNCHANGED <<part, ledgerVars, poolVars, serviceVars, quotaVars, registryVars, jobsVars, scanVars, inlineVars>>
OfScan == part = "scan" /\ UNCHANGED <<part, ledgerVars, brokerVars, poolVars, serviceVars, quotaVars, registryVars, jobsVars, inlineVars>>
OfInline == part = "inline" /\ UNCHANGED <<part, ledgerVars, brokerVars, poolVars, serviceVars, quotaVars, registryVars, jobsVars, scanVars>>
Fairness ==
    /\ \A b \in Broker!Brokers : WF_vars(OfBroker /\ Broker!BrokerStep(b))
    /\ \A c \in Callers : WF_vars(OfBroker /\ Broker!CallerStep(c))
    /\ WF_vars(OfScan /\ Scan!Caller)
    /\ \A w \in Scan!Walkers : WF_vars(OfScan /\ Scan!Walk(w))
    /\ WF_vars(OfInline /\ Inline!PrewarmEnds) /\ (\A c \in Reapers : SF_vars(OfInline /\ Inline!LastAttempt(c)))
    /\ \A c \in Closers : WF_vars(OfInline /\ Inline!Goes(c))
Spec == Init /\ [][Next]_vars /\ Fairness

-----------------------------------------------------------------------------
(* The first conjunct of a state invariant says that its part keeps its types. *)

(* No token of the scan budget is lost or kept for ever, and walks get no  *)
(* more at once than documented (ScanLedger).                              *)
LedgerExact ==
    IF part = "late" THEN Late!LedgerTypeOK /\ Late!LedgerExact /\ Late!GrantBounds
    ELSE Ordered!LedgerTypeOK /\ Ordered!LedgerExact /\ Ordered!GrantBounds
(* Caller and broker agree on whose a worker is (SpawnBroker). *)
WorkerHasOneOwner == Broker!BrokerTypeOK /\ Broker!WorkerHasOneOwner
(* A worker that starts too late is killed (SpawnBroker), the threads of a *)
(* walk end, also without their caller (TreeScan), and a revoked inline    *)
(* backend is closed whatever its code does (InlineBackend).               *)
LeftBehind ==
    \/ part = "broker" /\ Broker!LateWorker
    \/ part = "scan" /\ Scan!Walking
    \/ part = "inline" /\ Inline!Revoked
NothingStaysBehind == LeftBehind ~> ~ LeftBehind
(* No connection is closed under running code (InlineBackend). *)
CloseNeverMeetsCode == Inline!CloseNeverMeetsCode
(* The parallel walk gives what the serial one does (TreeScan). *)
ScanIsSerial == Scan!ScanIsSerial /\ Scan!WalkersCovered
(* The worker budget is what running operations reserved, and results come *)
(* in order with none missing (TaskPool).                                  *)
PoolExact == Pool!PoolTypeOK /\ Pool!BudgetExact /\ Pool!OrderedAndComplete
(* No server starts after a stop or outlives the service (Watchdog). *)
StopIsFinal == []Service!WatchTypeOK /\ Service!StopIsFinal
(* Only a start that proved healthy shortens the restart delay (Watchdog). *)
OnlyHealthShortensDelay == Service!OnlyHealthShortensDelay
(* No session calls the LLM more often than allowed (LlmQuota). *)
CallsWithinQuota == Quota!QuotaTypeOK /\ Quota!CallsWithinQuota
(* The registry on the disk survives failed saves and crashes, and only a  *)
(* removal can hide a registered name from resolve (ProjectRegistry).      *)
RegistryKept == Registry!RegistryTypeOK /\ Registry!CrashKeepsList /\ Registry!OnlyRemovalHides
(* Two builders never write to one index file unless the lock file of one  *)
(* was unlinked under it, and info reports statistics of whole indexes     *)
(* only, with the exceptions named there (IndexJobs).                      *)
JobsHonest ==
    /\ part = "moved" => Moved!JobsTypeOK /\ Moved!OneWriter /\ Moved!InfoHonest
    /\ part = "jobs" => Jobs!JobsTypeOK /\ Jobs!OneWriter /\ Jobs!InfoHonest
    /\ part = "asked" => Asked!JobsTypeOK /\ Asked!OneWriter /\ Asked!InfoHonest
=============================================================================
