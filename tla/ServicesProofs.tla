---------------------------- MODULE ServicesProofs ----------------------------
(***************************************************************************)
(* Proofs about Services, for any values of its constants that satisfy its *)
(* assumptions.                                                            *)
(***************************************************************************)
EXTENDS Services, FiniteSetTheorems, SequenceTheorems, TLAPS

-------------------------------------------------------------------------------
(* The inline backend.                                                     *)

(* The states after request_close.                                         *)
Revoking == {"closing", "closed"}
(* The types, and that the close lock is free or a closer's.               *)
InlineTypes ==
  /\ state \in {"alive", "executing"} \cup Revoking
  /\ executing \in BOOLEAN /\ owned \in BOOLEAN /\ forced \in BOOLEAN
  /\ code \in {"idle", "runs", "reads", "leaves"}
  /\ connLock \in {"", "code"}
  /\ prewarm \in {"runs", "done"}
  /\ conn \in {"open", "closed"} /\ detached \in {"none", "waits", "done"}
  /\ closeLock \in Closers \cup {""}
  /\ closes \in [Closers -> {"idle", "looks", "reader", "prewarm", "over"}]
  /\ busy \in [Closers -> BOOLEAN] /\ left \in [Closers -> BOOLEAN]

(* The code of a session runs while the backend counts as executing, and   *)
(* holds the connection's lock exactly while it reads.                     *)
CodeInside ==
  /\ code # "idle" => executing
  /\ code = "reads" <=> connLock = "code"

(* One closer at a time is past the close lock. From taking the reader on  *)
(* it owns it alone, and if the backend was not busy when it looked, no    *)
(* code runs.                                                              *)
OneCloser ==
  \A c \in Closers :
    /\ closes[c] \in {"looks", "reader", "prewarm"} <=> closeLock = c
    /\ closes[c] \in {"looks", "reader", "prewarm"} => state \in Revoking
    /\ closes[c] \in {"reader", "prewarm"} => ~ owned /\ state = "closing"
    /\ closes[c] = "reader" /\ ~ busy[c] => ~ executing

(* What a taken reader means: the session has been revoked, and once its   *)
(* closer is past it, the connection is closed and no code runs, unless    *)
(* the reaper's budget forced the close.                                   *)
LetGo ==
  /\ detached # "none" => forced
  /\ ~ owned => state \in Revoking
  /\ ~ owned /\ ~ forced /\ (\A c \in Closers : closes[c] # "reader") => conn = "closed" /\ ~ executing
  /\ state = "closed" => ~ owned /\ (forced \/ prewarm = "done")

(* The inductive invariant. That no connection is closed under running     *)
(* code rests on what the closer saw before it took the reader still being *)
(* true: a revoked backend executes nothing new, and nobody else has the   *)
(* close lock.                                                             *)
InlineInv == InlineTypes /\ CodeInside /\ OneCloser /\ LetGo

(* It holds at the start.                                                  *)
LEMMA InlineInit == Inline!Init => InlineInv
  BY ClosersAssumption DEF Inline!Init, InlineInv, InlineTypes, CodeInside, OneCloser, LetGo, Revoking

(* Every step keeps it.                                                    *)
LEMMA InlineStep == InlineInv /\ [Inline!Next]_(Inline!inlineVars) => InlineInv'
<1> SUFFICES ASSUME InlineInv, [Inline!Next]_(Inline!inlineVars) PROVE InlineInv'
  OBVIOUS
<1> USE ClosersAssumption DEF InlineInv, InlineTypes, CodeInside, OneCloser, LetGo, Revoking, Inline!running, Inline!reader, Inline!closing
<1>1. CASE Inline!Code
  <2>1. CASE Inline!Execute
    BY <2>1 DEF Inline!Execute
  <2>2. CASE Inline!EnterReader
    BY <2>2 DEF Inline!EnterReader
  <2>3. CASE Inline!LeaveReader
    BY <2>3 DEF Inline!LeaveReader
  <2>4. CASE Inline!Ends
    BY <2>4 DEF Inline!Ends
  <2>5. CASE Inline!Timeout
    BY <2>5 DEF Inline!Timeout
  <2>6. CASE Inline!Raised
    BY <2>6 DEF Inline!Raised
  <2>7. CASE Inline!Leaves
    BY <2>7 DEF Inline!Leaves
  <2>8. CASE Inline!RaisedElsewhere
    BY <2>8 DEF Inline!RaisedElsewhere
  <2>9. QED
    BY <1>1, <2>1, <2>2, <2>3, <2>4, <2>5, <2>6, <2>7, <2>8 DEF Inline!Code
<1>2. CASE Inline!PrewarmEnds
  BY <1>2 DEF Inline!PrewarmEnds
<1>3. CASE Inline!DetachedCloses
  BY <1>3 DEF Inline!DetachedCloses
<1>4. CASE Inline!RequestClose
  BY <1>4 DEF Inline!RequestClose
<1>5. ASSUME NEW c \in Closers, Inline!Closer(c) PROVE InlineInv'
  <2>1. CASE Inline!Begin(c)
    BY <2>1, ZenonT(40) DEF Inline!Begin
  <2>2. CASE Inline!Look(c)
    BY <2>2, ZenonT(40) DEF Inline!Look, Inline!Returns, Inline!InUse
  <2>3. CASE Inline!CloseReader(c)
    BY <2>3 DEF Inline!CloseReader
  <2>4. CASE Inline!Prewarmed(c)
    BY <2>4 DEF Inline!Prewarmed, Inline!Returns
  <2>5. CASE Inline!TimePasses(c)
    BY <2>5, ZenonT(40) DEF Inline!TimePasses
  <2>6. QED
    BY <1>5, <2>1, <2>2, <2>3, <2>4, <2>5 DEF Inline!Closer, Inline!Goes
<1>6. CASE UNCHANGED Inline!inlineVars
  BY <1>6, ZenonT(40) DEF Inline!inlineVars
<1>7. QED
  BY <1>1, <1>2, <1>3, <1>4, <1>5, <1>6 DEF Inline!Next

(* And no connection is closed under running code.                         *)
LEMMA InlineSafe == InlineInv => Inline!CloseNeverMeetsCode
  BY DEF InlineInv, InlineTypes, CodeInside, OneCloser, LetGo, Revoking, Inline!CloseNeverMeetsCode

-------------------------------------------------------------------------------
(* The watchdog.                                                           *)

(* The states of the two threads, and what a stop rests on: whoever stops  *)
(* has set the flag that forbids a launch, takes its snapshot outside a    *)
(* launch, and the watchdog leaves no server running.                      *)
StopStates ==
  /\ watch \in {"launch", "popen", "grace", "rounds", "asked", "probed", "killed", "delay",
                "abandon", "returned", "left", "ended"}
  /\ child \in {"none", "running", "dead"}
  /\ exit \in {"none", "clean", "crash", "killed"}
  /\ stop \in {"none", "snapshot", "terminate", "event", "done"}
  /\ stopping \in BOOLEAN /\ target \in BOOLEAN /\ stopEvent \in BOOLEAN /\ ready \in BOOLEAN
  /\ stop # "none" => stopping
  /\ watch = "popen" => stop \in {"none", "snapshot"}
  /\ watch \in {"left", "ended"} => child # "running"

(* The bounds of the counts of probes.                                     *)
ProbeCounts ==
  /\ age \in 0..ReadinessRounds /\ misses \in 0..FailuresBeforeKill
  /\ firstOk \in -1..HealthyRounds /\ span \in 0..HealthyRounds

(* The delay is that of the present backoff step, or, before the first,    *)
(* the plain one.                                                          *)
Delays ==
  /\ backoffStep \in 0..Len(Backoff)
  /\ failedStarts \in 0..(MaxRestarts + 1)
  /\ backoffStep > 0 <=> failedStarts > MaxRestarts
  /\ backoffStep > 0 => delay = Backoff[backoffStep]
  /\ backoffStep = 0 => delay \in {0, RestartDelay}

(* The inductive invariant.                                                *)
WatchInv == StopStates /\ ProbeCounts /\ Delays

(* The minimum and the maximum of two integers.                            *)
LEMMA WatchBounds ==
  \A i, j \in Int :
    /\ Service!Min({i, j}) = IF i <= j THEN i ELSE j
    /\ Service!Max({i, j}) = IF i <= j THEN j ELSE i
  BY DEF Service!Min, Service!Max

(* The constants are numbers.                                              *)
LEMMA WatchConstants ==
         /\ FailuresBeforeKill \in Nat /\ ReadinessRounds \in Nat /\ MaxRestarts \in Nat
         /\ HealthyRounds \in Nat /\ Len(Backoff) \in Nat /\ Len(Backoff) > 0
  BY WatchAssumption

(* The invariant holds at the start.                                       *)
LEMMA WatchInit == Service!Init => WatchInv
<1> SUFFICES ASSUME Service!Init PROVE WatchInv
  OBVIOUS
<1>1. StopStates
  BY DEF Service!Init, StopStates
<1>2. ProbeCounts
  BY WatchConstants DEF Service!Init, ProbeCounts
<1>3. Delays
  BY WatchConstants DEF Service!Init, Delays
<1> QED
  BY <1>1, <1>2, <1>3 DEF WatchInv

(* Every step keeps the bounds of the counts.                              *)
LEMMA ProbeCountsStep == ProbeCounts /\ [Service!Next]_(Service!watchdogVars) => ProbeCounts'
<1> SUFFICES ASSUME ProbeCounts, [Service!Next]_(Service!watchdogVars) PROVE ProbeCounts'
  OBVIOUS
<1> USE WatchConstants, WatchBounds DEF ProbeCounts
<1>1. CASE Service!Popen
  BY <1>1 DEF Service!Popen, Service!ProcessStarted
<1>2. CASE Service!Round
  BY <1>2, SMTT(20) DEF Service!Round
<1>3. CASE Service!ProbeOk
  <2>1. Service!Max({firstOk, 0}) = IF firstOk <= 0 THEN 0 ELSE firstOk
    <3>1. firstOk \in Int /\ 0 \in Int
      OBVIOUS
    <3>2. QED
      BY <3>1, WatchBounds
  <2>2. QED
    BY <1>3, <2>1 DEF Service!ProbeOk
<1>4. CASE Service!ProbeMissed
  BY <1>4 DEF Service!ProbeMissed
<1>5. CASE UNCHANGED Service!processVars
  BY <1>5 DEF Service!processVars
<1>6. QED
  BY <1>1, <1>2, <1>3, <1>4, <1>5 DEF Service!Next, Service!WatchStep, Service!StopStep, Service!watchdogVars, Service!processVars,
     Service!LaunchBegin, Service!LaunchRaises, Service!NoticeStop, Service!GraceOver, Service!ProbeRead, Service!ChildEnded, Service!DelayOver,
     Service!Abandon, Service!Leave, Service!StopIntent, Service!StopSnapshot, Service!StopTerminate, Service!StopDone, Service!ChildExits

(* Every step keeps the delay that of the backoff step.                    *)
LEMMA DelaysStep == Delays /\ [Service!Next]_(Service!watchdogVars) => Delays'
<1> SUFFICES ASSUME Delays, [Service!Next]_(Service!watchdogVars) PROVE Delays'
  OBVIOUS
<1>1. CASE Service!NoteRestart
  <2>1. CASE Service!Healthy
    BY <1>1, <2>1, WatchConstants DEF Service!NoteRestart, Delays
  <2>2. CASE ~ Service!Healthy /\ failedStarts + 1 <= MaxRestarts
    <3>1. Service!Min({failedStarts + 1, MaxRestarts + 1}) = failedStarts + 1
      <4>1. failedStarts + 1 \in Int /\ MaxRestarts + 1 \in Int
        BY WatchConstants DEF Delays
      <4>2. Service!Min({failedStarts + 1, MaxRestarts + 1}) = IF failedStarts + 1 <= MaxRestarts + 1 THEN failedStarts + 1 ELSE MaxRestarts + 1
        BY <4>1, WatchBounds
      <4>3. failedStarts \in Int /\ MaxRestarts \in Int
        BY WatchConstants DEF Delays
      <4> QED
        BY <2>2, <4>2, <4>3
    <3> QED
      BY <1>1, <2>2, <3>1, WatchConstants DEF Service!NoteRestart, Delays
  <2>3. CASE ~ Service!Healthy /\ ~ (failedStarts + 1 <= MaxRestarts)
    <3>1. /\ Service!Min({failedStarts + 1, MaxRestarts + 1}) = MaxRestarts + 1
          /\ Service!Min({backoffStep + 1, Len(Backoff)}) \in 1..Len(Backoff)
      <4>1. /\ failedStarts + 1 \in Int /\ MaxRestarts + 1 \in Int /\ failedStarts + 1 > MaxRestarts
            /\ backoffStep + 1 \in 1..Len(Backoff) + 1 /\ Len(Backoff) \in Nat \ {0} /\ backoffStep + 1 \in Int /\ Len(Backoff) \in Int
        BY <2>3, WatchConstants DEF Delays
      <4>2. Service!Min({failedStarts + 1, MaxRestarts + 1}) = IF failedStarts + 1 <= MaxRestarts + 1 THEN failedStarts + 1 ELSE MaxRestarts + 1
        BY <4>1, WatchBounds
      <4>3. Service!Min({backoffStep + 1, Len(Backoff)}) = IF backoffStep + 1 <= Len(Backoff) THEN backoffStep + 1 ELSE Len(Backoff)
        BY <4>1, WatchBounds
      <4>4. failedStarts <= MaxRestarts + 1 /\ failedStarts \in Int /\ MaxRestarts \in Int
        BY WatchConstants DEF Delays
      <4> QED
        BY <4>1, <4>2, <4>3, <4>4
    <3> QED
      BY <1>1, <2>3, <3>1, WatchConstants DEF Service!NoteRestart, Delays
  <2> QED
    BY <2>1, <2>2, <2>3
<1>2. CASE UNCHANGED Service!restartVars
  BY <1>2 DEF Service!restartVars, Delays
<1>3. QED
  BY <1>1, <1>2 DEF Service!Next, Service!WatchStep, Service!StopStep, Service!watchdogVars, Service!restartVars,
     Service!LaunchBegin, Service!Popen, Service!LaunchRaises, Service!NoticeStop, Service!GraceOver, Service!Round, Service!ProbeRead, Service!ProbeOk, Service!ProbeMissed, Service!ChildEnded, Service!DelayOver,
     Service!Abandon, Service!Leave, Service!StopIntent, Service!StopSnapshot, Service!StopTerminate, Service!StopDone, Service!ChildExits

(* Every step keeps what a stop rests on.                                  *)
LEMMA StopStatesStep == StopStates /\ [Service!Next]_(Service!watchdogVars) => StopStates'
<1> SUFFICES ASSUME StopStates, [Service!Next]_(Service!watchdogVars) PROVE StopStates'
  OBVIOUS
<1> USE DEF StopStates, Service!stopVars, Service!processVars
<1>1. CASE Service!LaunchBegin
  BY <1>1 DEF Service!LaunchBegin, Service!MayLaunch
<1>2. CASE Service!Popen
  BY <1>2 DEF Service!Popen, Service!ProcessStarted
<1>3. CASE Service!LaunchRaises
  BY <1>3 DEF Service!LaunchRaises
<1>4. CASE Service!NoticeStop
  BY <1>4 DEF Service!NoticeStop
<1>5. CASE Service!GraceOver
  BY <1>5 DEF Service!GraceOver
<1>6. CASE Service!Round
  BY <1>6 DEF Service!Round
<1>7. CASE Service!ProbeRead
  BY <1>7 DEF Service!ProbeRead
<1>8. CASE Service!ProbeOk
  BY <1>8 DEF Service!ProbeOk
<1>9. CASE Service!ProbeMissed
  BY <1>9 DEF Service!ProbeMissed
<1>10. CASE Service!ChildEnded
  BY <1>10 DEF Service!ChildEnded
<1>11. CASE Service!DelayOver
  BY <1>11 DEF Service!DelayOver
<1>12. CASE Service!Abandon
  BY <1>12 DEF Service!Abandon, Service!Killed
<1>13. CASE Service!Leave
  BY <1>13 DEF Service!Leave
<1>14. CASE Service!ChildExits
  BY <1>14 DEF Service!ChildExits
<1>15. CASE Service!StopIntent
  BY <1>15 DEF Service!StopIntent
<1>16. CASE Service!StopSnapshot
  BY <1>16 DEF Service!StopSnapshot, Service!LockFree
<1>17. CASE Service!StopTerminate
  BY <1>17 DEF Service!StopTerminate, Service!Killed
<1>18. CASE Service!StopDone
  BY <1>18 DEF Service!StopDone
<1>19. CASE UNCHANGED Service!watchdogVars
  BY <1>19 DEF Service!watchdogVars
<1> QED
  BY <1>1, <1>2, <1>3, <1>4, <1>5, <1>6, <1>7, <1>8, <1>9, <1>10, <1>11, <1>12, <1>13, <1>14, <1>15, <1>16, <1>17, <1>18, <1>19 DEF Service!Next, Service!WatchStep, Service!StopStep

(* No step starts a server after a stop took its snapshot, and none is     *)
(* left behind when the watchdog leaves.                                   *)
LEMMA StopKept ==
  ASSUME StopStates, [Service!Next]_(Service!watchdogVars)
  PROVE  /\ child # "running" /\ child' = "running" => stop \in {"none", "snapshot"}
         /\ watch' \in {"left", "ended"} => child' # "running"
<1>1. StopStates'
  BY StopStatesStep
<1>2. child # "running" /\ child' = "running" => watch = "popen"
  BY DEF Service!Next, Service!WatchStep, Service!StopStep, Service!watchdogVars, Service!stopVars,
     Service!LaunchBegin, Service!Popen, Service!LaunchRaises, Service!NoticeStop, Service!GraceOver, Service!Round, Service!ProbeRead, Service!ProbeOk, Service!ProbeMissed, Service!ChildEnded, Service!DelayOver,
     Service!Abandon, Service!Leave, Service!StopIntent, Service!StopSnapshot, Service!StopTerminate, Service!StopDone, Service!ChildExits, Service!Killed
<1>3. QED
  BY <1>1, <1>2 DEF StopStates

(* A step that shortens the delay is one of a server that proved healthy.  *)
LEMMA DelayKept ==
  ASSUME Delays, [Service!Next]_(Service!watchdogVars)
  PROVE  delay' < delay => span >= HealthyRounds /\ watch \in {"rounds", "killed"}
<1>0. delay \in Nat
  BY WatchConstants, WatchAssumption DEF Delays
<1>1. CASE Service!ChildEnded
  <2>1. CASE UNCHANGED Service!restartVars
    BY <1>0, <2>1 DEF Service!restartVars
  <2>2. CASE Service!NoteRestart /\ Service!Healthy
    BY <1>1, <2>2 DEF Service!ChildEnded, Service!Healthy
  <2>3. CASE Service!NoteRestart /\ ~ Service!Healthy
    <3> SUFFICES delay <= delay' /\ delay' \in Nat
      BY <1>0
    <3>1. CASE failedStarts + 1 <= MaxRestarts
      <4>1. backoffStep = 0 /\ delay' = RestartDelay
        BY <2>3, <3>1, WatchConstants DEF Service!NoteRestart, Delays
      <4> QED
        BY <4>1, WatchAssumption DEF Delays
    <3>2. CASE ~ (failedStarts + 1 <= MaxRestarts)
      <4> DEFINE next == Service!Min({backoffStep + 1, Len(Backoff)})
      <4>1. next \in 1..Len(Backoff) /\ 1 \in 1..Len(Backoff) /\ backoffStep <= next
        BY WatchConstants, WatchBounds DEF Delays
      <4>2. delay' = Backoff[next]
        BY <2>3, <3>2 DEF Service!NoteRestart
      <4>3. CASE backoffStep = 0
        BY <4>1, <4>2, <4>3, WatchAssumption DEF Delays
      <4>4. CASE backoffStep > 0
        BY <4>1, <4>2, <4>4, WatchConstants, WatchAssumption DEF Delays
      <4> QED
        BY <4>3, <4>4, WatchConstants DEF Delays
    <3> QED
      BY <3>1, <3>2
  <2> QED
    BY <1>1, <2>1, <2>2, <2>3 DEF Service!ChildEnded
<1>2. CASE UNCHANGED delay
  BY <1>0, <1>2
<1>3. QED
  BY <1>1, <1>2 DEF Service!Next, Service!WatchStep, Service!StopStep, Service!watchdogVars, Service!restartVars,
     Service!LaunchBegin, Service!Popen, Service!LaunchRaises, Service!NoticeStop, Service!GraceOver, Service!Round, Service!ProbeRead, Service!ProbeOk, Service!ProbeMissed, Service!DelayOver,
     Service!Abandon, Service!Leave, Service!StopIntent, Service!StopSnapshot, Service!StopTerminate, Service!StopDone, Service!ChildExits

(* Every step keeps the invariant.                                         *)
LEMMA WatchStep == WatchInv /\ [Service!Next]_(Service!watchdogVars) => WatchInv'
  BY StopStatesStep, ProbeCountsStep, DelaysStep DEF WatchInv

-------------------------------------------------------------------------------
(* The registry.                                                           *)

(* A registered project.                                                   *)
Project == [name : Names, dir : Dirs]
(* No name is registered twice.                                            *)
NameOnce(list) == \A i, j \in 1..Len(list) : list[i].name = list[j].name => i = j
(* A list of projects as the registry keeps it.                            *)
IsList(list) == list \in Seq(Project) /\ NameOnce(list)
(* A file that is missing, or holds such a list.                           *)
IsFile(file) == file = <<>> \/ \E list : IsList(list) /\ file = <<list>>

(* What the files, the cache and a change in progress hold.                *)
ListTypes ==
  /\ IsFile(disk) /\ IsFile(bak) /\ IsFile(cached) /\ IsList(told)
  /\ change \in [at : {"idle", "write", "backup", "replace"}, list : {change.list}] /\ IsList(change.list)

(* The file holds exactly what the clients were last told; or it is        *)
(* missing, between its backup and its replacement, and the backup holds   *)
(* it. CrashKeepsList, which says that one of the two does, is not         *)
(* inductive.                                                              *)
FileKept ==
  /\ disk # <<>> => disk = <<told>>
  /\ disk = <<>> => bak = <<told>> \/ (bak = <<>> /\ told = <<>>)

(* The name that is looked up is still ahead of the search.                *)
Ahead(list) == \E i \in lookup.next..Len(list) : list[i].name = lookup.query
(* How far a search can have come.                                         *)
LookupPlaces == 1..Cardinality(Names) + 1
(* A lookup of a client.                                                   *)
LookupRecord ==
  [at : {"none", "exact", "exact match", "not exact"}, query : Names \cup {""}, next : LookupPlaces,
   stays : BOOLEAN, removal : BOOLEAN]
(* A lookup in progress is one of a loaded list.                           *)
LookupTypes ==
  /\ lookup \in LookupRecord
  /\ cached = <<>> => lookup.at = "none"
(* Why a search finds its name: as long as the name stays registered and   *)
(* nothing was removed, it is still ahead.                                 *)
Searching ==
  /\ lookup.at = "exact" /\ lookup.stays /\ ~ lookup.removal => Ahead(cached[1])
  /\ lookup.at = "not exact" /\ lookup.stays => lookup.removal

(* The inductive invariant.                                                *)
RegistryInv == ListTypes /\ FileKept /\ LookupTypes /\ Searching

(* The registry counts as everybody does.                                  *)
LEMMA SameCardinality == Registry!Cardinality(Names) = Cardinality(Names)
  BY DEF Registry!Cardinality, Cardinality

(* A list in which no name occurs twice is no longer than the names are    *)
(* many.                                                                   *)
LEMMA ListBounded ==
  ASSUME NEW list, IsList(list)
  PROVE  Len(list) <= Cardinality(Names) /\ list \in Registry!Lists /\ Cardinality(Names) \in Nat
<1> DEFINE f == [i \in 1..Len(list) |-> list[i].name]
<1>1. list \in Seq(Project) /\ Len(list) \in Nat /\ NameOnce(list) /\ DOMAIN list = 1..Len(list) /\ list \in [1..Len(list) -> Project]
  BY DEF IsList
<1>2. f \in [1..Len(list) -> Names] /\ \A i \in 1..Len(list) : f[i] = list[i].name
  BY <1>1 DEF Project
<1>3. f \in Injection(1..Len(list), Names)
  BY <1>1, <1>2 DEF NameOnce, Injection, IsInjective
<1>4. Len(list) <= Cardinality(Names) /\ Cardinality(Names) \in Nat
  <2>1. Cardinality(1..Len(list)) = Len(list)
    BY <1>1, FS_Interval
  <2>2. Cardinality(1..Len(list)) <= Cardinality(Names)
    BY <1>3, FS_Injection, NamesAssumption
  <2>3. QED
    BY <2>1, <2>2, FS_CardinalityType, NamesAssumption
<1>5. list \in Registry!SeqOf(Project, Cardinality(Names))
  BY <1>1, <1>4 DEF Registry!SeqOf
<1>6. Registry!IsInjective([i \in DOMAIN list |-> list[i].name])
  BY <1>1 DEF NameOnce, Registry!IsInjective
<1>7. list \in Registry!SeqOf([name : Names, dir : Dirs], Cardinality(Names))
  BY <1>5 DEF Project
<1>8. list \in Registry!Lists
  BY <1>6, <1>7, SameCardinality, Zenon DEF Registry!Lists
<1> QED
  BY <1>4, <1>8

(* What an addition, a removal, a renaming and an update make of a list:   *)
(* names occur once, and whatever stays keeps its place unless the list    *)
(* gets shorter.                                                           *)
LEMMA ListChanges ==
  ASSUME NEW list, IsList(list),
         NEW new \in Registry!Added(list) \union Registry!Removed(list) \union Registry!Renamed(list) \union Registry!Updated(list)
  PROVE  /\ IsList(new)
         /\ Len(new) >= Len(list) =>
              \A i \in 1..Len(list) : list[i].name \in Registry!NamesIn(new) => i \in 1..Len(new) /\ new[i].name = list[i].name
<1>1. list \in Seq(Project) /\ Len(list) \in Nat /\ NameOnce(list) /\ DOMAIN list = 1..Len(list)
      /\ \A i \in 1..Len(list) : list[i] \in Project
  BY DEF IsList
<1>2. CASE new \in Registry!Added(list)
  <2>1. PICK e \in [name : Names \ Registry!NamesIn(list), dir : Dirs] : new = Append(list, e)
    BY <1>2 DEF Registry!Added
  <2>2. /\ new \in Seq(Project) /\ Len(new) = Len(list) + 1
        /\ \A i \in 1..Len(list) : new[i] = list[i]
        /\ new[Len(list) + 1] = e
    BY <1>1, <2>1, AppendProperties DEF Project
  <2>3. \A i \in 1..Len(list) : list[i].name # e.name
    BY <1>1 DEF Registry!NamesIn
  <2>4. NameOnce(new)
    BY <1>1, <2>2, <2>3 DEF NameOnce
  <2>5. QED
    BY <1>1, <2>2, <2>4 DEF IsList
<1>3. CASE new \in Registry!Removed(list)
  <2>1. PICK r \in 1..Len(list) : new = SubSeq(list, 1, r - 1) \o SubSeq(list, r + 1, Len(list))
    BY <1>1, <1>3 DEF Registry!Removed, Registry!RemoveAt
  <2> DEFINE front == SubSeq(list, 1, r - 1)
             back == SubSeq(list, r + 1, Len(list))
  <2>2. front \in Seq(Project) /\ Len(front) = r - 1 /\ \A i \in 1..r - 1 : front[i] = list[i]
    BY <1>1, SubSeqProperties
  <2>3. back \in Seq(Project) /\ Len(back) = Len(list) - r /\ \A i \in 1..Len(list) - r : back[i] = list[r + i]
    <3>1. r + 1 \in Int /\ Len(list) \in Int /\ \A i \in r + 1 .. Len(list) : list[i] \in Project
      BY <1>1
    <3>2. /\ back \in Seq(Project)
          /\ Len(back) = IF r + 1 <= Len(list) THEN Len(list) - (r + 1) + 1 ELSE 0
          /\ \A i \in 1 .. Len(list) - (r + 1) + 1 : back[i] = list[(r + 1) + i - 1]
      BY <3>1, SubSeqProperties
    <3> HIDE DEF back
    <3>3. Len(back) = Len(list) - r
      <4>0. Len(list) \in Nat
        BY <1>1
      <4>1. Len(list) - (r + 1) + 1 = Len(list) - r /\ (~ (r + 1 <= Len(list)) => Len(list) - r = 0)
        BY <4>0
      <4> QED
        BY <3>2, <4>1
    <3>4. ASSUME NEW i \in 1..Len(list) - r PROVE back[i] = list[r + i]
      <4>1. i \in 1 .. Len(list) - (r + 1) + 1 /\ (r + 1) + i - 1 = r + i
        BY <1>1
      <4> QED
        BY <3>2, <4>1
    <3> QED
      BY <3>2, <3>3, <3>4
  <2> HIDE DEF front, back
  <2>4. /\ new \in Seq(Project) /\ Len(new) = Len(list) - 1
        /\ \A i \in 1..Len(new) : new[i] = IF i < r THEN list[i] ELSE list[i + 1]
    <3>1. new = front \o back
      BY <2>1 DEF front, back
    <3>2. /\ new \in Seq(Project) /\ Len(new) = Len(front) + Len(back)
          /\ \A i \in 1..Len(front) + Len(back) : new[i] = IF i <= Len(front) THEN front[i] ELSE back[i - Len(front)]
      BY <2>2, <2>3, <3>1, ConcatProperties
    <3>3. ASSUME NEW i \in 1..Len(list) - 1 PROVE new[i] = IF i < r THEN list[i] ELSE list[i + 1]
      <4>1. i \in 1..Len(front) + Len(back) /\ r \in Int /\ Len(list) \in Int
        BY <1>1, <2>2, <2>3
      <4>2. CASE i < r
        <5>1. i \in 1..r - 1 /\ i <= Len(front)
          BY <2>2, <4>1, <4>2
        <5> QED
          BY <2>2, <3>2, <4>1, <4>2, <5>1
      <4>3. CASE ~ (i < r)
        <5>1. i - Len(front) \in 1..Len(list) - r /\ ~ (i <= Len(front)) /\ r + (i - Len(front)) = i + 1
          BY <2>2, <4>1, <4>3
        <5> QED
          BY <2>3, <3>2, <4>1, <4>3, <5>1
      <4> QED
        BY <4>2, <4>3
    <3> QED
      BY <1>1, <2>2, <2>3, <3>2, <3>3
  <2>5. NameOnce(new)
    BY <1>1, <2>4 DEF NameOnce
  <2>6. QED
    BY <1>1, <2>4, <2>5 DEF IsList
<1>4. CASE new \in Registry!Renamed(list)
  <2>1. PICK k \in 1..Len(list), n \in Names \ Registry!NamesIn(list) : new = [list EXCEPT ![k].name = n]
    BY <1>1, <1>4 DEF Registry!Renamed
  <2>2. /\ new \in Seq(Project) /\ Len(new) = Len(list) /\ DOMAIN new = 1..Len(list)
        /\ \A i \in 1..Len(list) : new[i].name = IF i = k THEN n ELSE list[i].name
    BY <1>1, <2>1 DEF Project
  <2>3. \A i \in 1..Len(list) : list[i].name # n
    BY <1>1 DEF Registry!NamesIn
  <2>4. NameOnce(new)
    BY <1>1, <2>2, <2>3 DEF NameOnce
  <2>5. ASSUME NEW i \in 1..Len(list), list[i].name \in Registry!NamesIn(new) PROVE i # k
    BY <1>1, <2>2, <2>3, <2>5 DEF NameOnce, Registry!NamesIn
  <2>6. QED
    BY <1>1, <2>2, <2>4, <2>5 DEF IsList
<1>5. CASE new \in Registry!Updated(list)
  <2>1. PICK k \in 1..Len(list), d \in Dirs : new = [list EXCEPT ![k].dir = d]
    BY <1>1, <1>5 DEF Registry!Updated
  <2>2. /\ new \in Seq(Project) /\ Len(new) = Len(list)
        /\ \A i \in 1..Len(list) : new[i].name = list[i].name
    BY <1>1, <2>1 DEF Project
  <2>3. NameOnce(new)
    BY <1>1, <2>2 DEF NameOnce
  <2>4. QED
    BY <1>1, <2>2, <2>3 DEF IsList
<1>6. QED
  BY <1>2, <1>3, <1>4, <1>5

(* The lookup of a client that has not begun one.                          *)
LEMMA NoLookupYet ==
         /\ Registry!NoLookup \in LookupRecord
         /\ Registry!NoLookup.at = "none" /\ Registry!NoLookup.next = 1
<1>1. 1 \in LookupPlaces
  BY FS_CardinalityType, NamesAssumption DEF LookupPlaces
<1>2. QED
  BY <1>1 DEF Registry!NoLookup, LookupRecord

(* The invariant holds at the start.                                       *)
LEMMA RegistryInit == Registry!Init => RegistryInv
<1> SUFFICES ASSUME Registry!Init PROVE RegistryInv
  OBVIOUS
<1>1. <<>> \in Seq(Project) /\ IsList(<<>>)
  BY DEF IsList, NameOnce
<1>2. ListTypes
  BY <1>1 DEF Registry!Init, Registry!Missing, ListTypes, IsFile
<1>3. FileKept
  BY DEF Registry!Init, Registry!Missing, FileKept
<1>4. LookupTypes /\ Searching
  BY NoLookupYet DEF Registry!Init, LookupTypes, Searching
<1> QED
  BY <1>2, <1>3, <1>4 DEF RegistryInv

(* What a step does to the lists. *)
LEMMA ListsStep ==
  ASSUME ListTypes, FileKept, [Registry!Next]_(Registry!registryVars)
  PROVE  ListTypes' /\ FileKept'
<1>0. IsList(<<>>)
  BY DEF IsList, NameOnce
<1> USE DEF ListTypes, FileKept, Registry!Missing
<1>1. CASE Registry!Load
  <2>1. IsFile(cached')
    BY <1>0, <1>1 DEF Registry!Load, Registry!Listed, IsFile
  <2>2. IsList(told') /\ FileKept'
    BY <1>1 DEF Registry!Load
  <2> QED
    BY <1>1, <2>1, <2>2 DEF Registry!Load
<1>2. CASE Registry!Mutate
  <2>1. PICK old : IsList(old) /\ cached = <<old>>
    BY <1>2 DEF Registry!Mutate, IsFile
  <2>2. PICK new \in Registry!Added(old) \union Registry!Removed(old) \union Registry!Renamed(old) \union Registry!Updated(old) :
           cached' = <<new>> /\ change' = [at |-> "write", list |-> new]
    BY <1>2, <2>1 DEF Registry!Mutate
  <2>3. IsList(new)
    BY <2>1, <2>2, ListChanges
  <2> QED
    BY <1>2, <2>2, <2>3 DEF Registry!Mutate, IsFile
<1>3. CASE Registry!WriteTmp
  BY <1>3 DEF Registry!WriteTmp
<1>4. CASE Registry!Backup
  <2>1. IsFile(bak') /\ IsFile(disk')
    BY <1>4 DEF Registry!Backup, Registry!BackupTaken, IsFile
  <2>2. FileKept'
    BY <1>4 DEF Registry!Backup, Registry!BackupTaken
  <2>3. change'.at = "replace" /\ change'.list = change.list /\ change' \in [at : {"idle", "write", "backup", "replace"}, list : {change'.list}]
    BY <1>4 DEF Registry!Backup
  <2> QED
    BY <1>4, <2>1, <2>2, <2>3 DEF Registry!Backup
<1>5. CASE Registry!Replace
  <2>1. IsFile(disk')
    BY <1>5 DEF Registry!Replace, IsFile
  <2> QED
    BY <1>5, <2>1 DEF Registry!Replace
<1>6. CASE Registry!ReplaceFails
  <2>1. IsFile(bak') /\ IsFile(disk')
    BY <1>6 DEF Registry!ReplaceFails, IsFile
  <2> QED
    BY <1>6, <2>1 DEF Registry!ReplaceFails
<1>7. CASE Registry!Crash
  <2>1. IsFile(cached')
    BY <1>7 DEF Registry!Crash, IsFile
  <2> QED
    BY <1>7, <2>1 DEF Registry!Crash
<1>8. CASE UNCHANGED <<disk, bak, cached, change, told>>
  BY <1>8 DEF IsFile
<1>9. QED
  BY <1>1, <1>2, <1>3, <1>4, <1>5, <1>6, <1>7, <1>8
  DEF Registry!Next, Registry!registryVars, Registry!LookupBegin, Registry!LookupStep, Registry!LookupEnd

(* A search that a client has not been answered yet. *)
LEMMA LookupsStep ==
  ASSUME ListTypes, LookupTypes, Searching, [Registry!Next]_(Registry!registryVars)
  PROVE  LookupTypes' /\ Searching'
<1>0. Cardinality(Names) \in Nat
  BY FS_CardinalityType, NamesAssumption
<1>1. CASE Registry!Load
  BY <1>1 DEF Registry!Load, Registry!Missing, LookupTypes, Searching
<1>2. CASE Registry!Mutate
  <2>1. PICK old : IsList(old) /\ cached = <<old>>
    BY <1>2 DEF Registry!Mutate, Registry!Missing, ListTypes, IsFile
  <2>2. PICK new \in Registry!Added(old) \union Registry!Removed(old) \union Registry!Renamed(old) \union Registry!Updated(old) :
           /\ cached' = <<new>>
           /\ lookup' = [lookup EXCEPT !.stays = @ /\ lookup.query \in Registry!NamesIn(new),
                                       !.removal = @ \/ Len(new) < Len(old)]
    BY <1>2, <2>1 DEF Registry!Mutate
  <2>3. LookupTypes'
    BY <2>2 DEF LookupTypes, LookupRecord
  <2>4. ASSUME lookup'.stays, ~ lookup'.removal
        PROVE  /\ lookup.stays /\ ~ lookup.removal
               /\ lookup.query \in Registry!NamesIn(new) /\ ~ (Len(new) < Len(old))
    BY <2>2, <2>4 DEF LookupTypes, LookupRecord
  <2>5. lookup'.at = lookup.at /\ lookup'.next = lookup.next /\ lookup'.query = lookup.query
    BY <2>2 DEF LookupTypes, LookupRecord
  <2>6. ASSUME lookup'.at = "exact", lookup'.stays, ~ lookup'.removal PROVE Ahead(new)'
    <3>1. PICK i \in lookup.next..Len(old) : old[i].name = lookup.query
      BY <2>1, <2>4, <2>5, <2>6 DEF Searching, Ahead
    <3>2. Len(new) \in Nat /\ Len(old) \in Nat /\ lookup.next \in LookupPlaces
      <4>1. IsList(new)
        BY <2>1, <2>2, ListChanges
      <4>2. lookup.next \in LookupPlaces
        BY DEF LookupTypes, LookupRecord
      <4> QED
        BY <2>1, <4>1, <4>2 DEF IsList
    <3>3. i \in 1..Len(old)
      BY <1>0, <3>1, <3>2 DEF LookupPlaces
    <3>4. i \in 1..Len(new) /\ new[i].name = lookup.query
      BY <2>1, <2>4, <2>6, <3>1, <3>2, <3>3, ListChanges
    <3> QED
      BY <2>5, <3>1, <3>2, <3>4 DEF Ahead
  <2> QED
    BY <2>2, <2>3, <2>4, <2>5, <2>6 DEF Searching, Ahead
<1>3. CASE Registry!Crash
  BY NoLookupYet, <1>3 DEF Registry!Crash, LookupTypes, Searching
<1>4. CASE Registry!LookupBegin
  <2>1. PICK query \in Names :
          lookup' = [Registry!NoLookup EXCEPT !.at = "exact", !.query = query, !.stays = query \in Registry!NamesIn(cached[1])]
    BY <1>4 DEF Registry!LookupBegin
  <2>2. PICK list : IsList(list) /\ cached = <<list>> /\ cached' = cached
    BY <1>4 DEF Registry!LookupBegin, Registry!Missing, ListTypes, IsFile
  <2> DEFINE stays == query \in Registry!NamesIn(list)
  <2>6. lookup' = [Registry!NoLookup EXCEPT !.at = "exact", !.query = query, !.stays = stays]
    BY <2>1, <2>2
  <2>7. stays \in BOOLEAN
    OBVIOUS
  <2> HIDE DEF stays
  <2>3. /\ lookup' \in LookupRecord
        /\ lookup'.at = "exact" /\ lookup'.next = 1 /\ lookup'.query = query
        /\ lookup'.stays = stays
    BY <2>6, <2>7, NoLookupYet DEF LookupRecord
  <2>4. cached' # <<>>
    BY <2>2
  <2>5. ASSUME stays PROVE \E i \in 1..Len(list) : list[i].name = query
    BY <2>2, <2>5 DEF Registry!NamesIn, IsList, stays
  <2> QED
    BY <2>2, <2>3, <2>4, <2>5 DEF Searching, Ahead, LookupTypes
<1>5. CASE Registry!LookupStep
  <2>1. PICK list : IsList(list) /\ cached = <<list>> /\ cached' = cached
    BY <1>5 DEF Registry!LookupStep, LookupTypes, ListTypes, IsFile
  <2>2. Len(list) \in Nat /\ Len(list) <= Cardinality(Names)
    BY <2>1, ListBounded DEF IsList
  <2>8. lookup.at = "exact" /\ lookup \in LookupRecord /\ lookup.next \in LookupPlaces
    BY <1>5 DEF Registry!LookupStep, LookupTypes, LookupRecord
  <2>3. lookup.at = "exact" /\ lookup \in LookupRecord /\ lookup.next \in Nat /\ lookup.next \in LookupPlaces
    BY <1>0, <2>8 DEF LookupPlaces
  <2>4. cached' # <<>>
    BY <2>1
  <2>5. CASE lookup.next > Len(list)
    <3>1. lookup' = [lookup EXCEPT !.at = "not exact"]
      BY <1>5, <2>1, <2>5 DEF Registry!LookupStep
    <3>2. /\ lookup' \in LookupRecord /\ lookup'.at = "not exact"
          /\ lookup'.stays = lookup.stays /\ lookup'.removal = lookup.removal
      BY <2>3, <3>1 DEF LookupRecord
    <3>3. ~ Ahead(list)
      BY <2>2, <2>3, <2>5 DEF Ahead
    <3> QED
      BY <2>1, <2>3, <2>4, <3>2, <3>3 DEF LookupTypes, Searching
  <2>6. CASE ~ (lookup.next > Len(list)) /\ list[lookup.next].name = lookup.query
    <3>1. lookup' = [lookup EXCEPT !.at = "exact match"]
      BY <1>5, <2>1, <2>6 DEF Registry!LookupStep
    <3>2. lookup' \in LookupRecord /\ lookup'.at = "exact match"
      BY <2>3, <3>1 DEF LookupRecord
    <3> QED
      BY <2>4, <3>2 DEF LookupTypes, Searching
  <2>7. CASE ~ (lookup.next > Len(list)) /\ list[lookup.next].name # lookup.query
    <3>1. lookup' = [lookup EXCEPT !.next = lookup.next + 1]
      BY <1>5, <2>1, <2>7 DEF Registry!LookupStep
    <3>2. lookup.next + 1 \in LookupPlaces
      BY <1>0, <2>2, <2>3, <2>7 DEF LookupPlaces
    <3>3. /\ lookup' \in LookupRecord /\ lookup'.at = "exact" /\ lookup'.next = lookup.next + 1
          /\ lookup'.query = lookup.query /\ lookup'.stays = lookup.stays /\ lookup'.removal = lookup.removal
      BY <2>3, <3>1, <3>2 DEF LookupRecord
    <3>4. ASSUME Ahead(list) PROVE Ahead(list)'
      <4>1. PICK i \in lookup.next..Len(list) : list[i].name = lookup.query
        BY <3>4 DEF Ahead
      <4>2. i \in lookup.next + 1 .. Len(list)
        BY <2>2, <2>3, <2>7, <4>1
      <4> QED
        BY <3>3, <4>1, <4>2 DEF Ahead
    <3> QED
      BY <2>1, <2>3, <2>4, <3>3, <3>4 DEF LookupTypes, Searching
  <2> QED
    BY <2>5, <2>6, <2>7
<1>6. CASE Registry!LookupEnd
  BY NoLookupYet, <1>6 DEF Registry!LookupEnd, LookupTypes, Searching
<1>7. CASE UNCHANGED <<cached, lookup>>
  BY <1>7 DEF LookupTypes, Searching, Ahead
<1>8. QED
  BY <1>1, <1>2, <1>3, <1>4, <1>5, <1>6, <1>7
  DEF Registry!Next, Registry!registryVars, Registry!WriteTmp, Registry!Backup, Registry!Replace, Registry!ReplaceFails

(* Every step keeps the invariant.                                         *)
LEMMA RegistryStep == RegistryInv /\ [Registry!Next]_(Registry!registryVars) => RegistryInv'
  BY ListsStep, LookupsStep DEF RegistryInv

(* What the invariant says of the files and of the search.                 *)
LEMMA RegistrySafe ==
  ASSUME RegistryInv
  PROVE  Registry!RegistryTypeOK /\ Registry!CrashKeepsList /\ Registry!OnlyRemovalHides
<1>1. Registry!CrashKeepsList
  BY DEF RegistryInv, FileKept, Registry!CrashKeepsList, Registry!Listed, Registry!Missing
<1>2. Registry!OnlyRemovalHides
  BY DEF RegistryInv, Searching, Registry!OnlyRemovalHides
<1>3. \A file : IsFile(file) => file \in {<<>>} \union {<<l>> : l \in Registry!Lists}
  BY ListBounded DEF IsFile
<1>4. {disk, bak, cached} \subseteq {<<>>} \union {<<l>> : l \in Registry!Lists}
  BY <1>3 DEF RegistryInv, ListTypes
<1>5. change.at \in {"idle", "write", "backup", "replace"} /\ change.list \in Registry!Lists /\ told \in Registry!Lists
  BY ListBounded DEF RegistryInv, ListTypes
<1>6. lookup.at \in {"none", "exact", "exact match", "not exact"} /\ lookup.next \in 1..Registry!Cardinality(Names) + 1
  BY SameCardinality DEF RegistryInv, LookupTypes, LookupRecord, LookupPlaces
<1> QED
  BY <1>1, <1>2, <1>4, <1>5, <1>6 DEF Registry!RegistryTypeOK, Registry!Missing

-------------------------------------------------------------------------------
(* The composition.                                                        *)

(* A step of the composition is one of the broker, or leaves it alone.     *)
LEMMA BrokerOnly == [Next]_vars => [Broker!Next]_(Broker!brokerVars)
  BY DEF Next, vars, LedgerNext, BrokerNext, PoolNext, ServiceNext, QuotaNext, RegistryNext, JobsNext, ScanNext,
         InlineNext, brokerVars, Broker!brokerVars

(* A step of the composition is one of the watchdog, or leaves it alone.   *)
LEMMA ServiceOnly == [Next]_vars => [Service!Next]_(Service!watchdogVars)
  BY DEF Next, vars, LedgerNext, BrokerNext, PoolNext, ServiceNext, QuotaNext, RegistryNext, JobsNext, ScanNext,
         InlineNext, serviceVars, Service!watchdogVars

(* A step of the composition is one of the registry, or leaves it alone.   *)
LEMMA RegistryOnly == [Next]_vars => [Registry!Next]_(Registry!registryVars)
  BY DEF Next, vars, LedgerNext, BrokerNext, PoolNext, ServiceNext, QuotaNext, RegistryNext, JobsNext, ScanNext,
         InlineNext, registryVars, Registry!registryVars

(* A step of the composition is one of the inline backend, or leaves it    *)
(* alone.                                                                  *)
LEMMA InlineOnly == [Next]_vars => [Inline!Next]_(Inline!inlineVars)
  BY DEF Next, vars, LedgerNext, BrokerNext, PoolNext, ServiceNext, QuotaNext, RegistryNext, JobsNext, ScanNext,
         InlineNext, inlineVars, Inline!inlineVars

(* A step of the composition keeps its part, and is one of that part's     *)
(* jobs, or leaves them alone.                                             *)
LEMMA JobsOnly ==
  [Next]_vars => /\ part' = part
                 /\ part = "jobs" => [Jobs!Next]_jobsVars
                 /\ part = "asked" => [Asked!Next]_jobsVars
                 /\ part = "moved" => [Moved!Next]_jobsVars
  BY DEF Next, vars, LedgerNext, BrokerNext, PoolNext, ServiceNext, QuotaNext, RegistryNext, JobsNext, ScanNext,
         InlineNext

(* Unless the reaper's budget forces it, an inline backend closes no       *)
(* connection while the code of its session runs, whoever closes: rlm_end, *)
(* the reaper or a shutdown, any number of them                            *)
(* (InlineSandboxBackend.execute and _finish_close_locked).                *)
THEOREM ConnectionsSafe == Spec => []CloseNeverMeetsCode
<1>1. Init => InlineInv
  BY InlineInit DEF Init
<1>2. InlineInv /\ [Next]_vars => InlineInv'
  BY InlineStep, InlineOnly
<1>3. InlineInv => CloseNeverMeetsCode
  BY InlineSafe DEF CloseNeverMeetsCode
<1>4. QED
  BY <1>1, <1>2, <1>3, PTL DEF Spec

(* The invariant of the watchdog holds in every reachable state.           *)
LEMMA Watched == Spec => []WatchInv
<1>1. Init => WatchInv
  BY WatchInit DEF Init
<1>2. WatchInv /\ [Next]_vars => WatchInv'
  BY WatchStep, ServiceOnly
<1>3. QED
  BY <1>1, <1>2, PTL DEF Spec

(* No server starts once a stop has chosen what it terminates, and none    *)
(* outlives the watchdog, for any limits and delays                        *)
(* (RlmWindowsService._watch, _abandon_child and SvcStop).                 *)
THEOREM StopsAreFinal == Spec => StopIsFinal
<1>1. WatchInv => Service!WatchTypeOK
  BY DEF WatchInv, StopStates, ProbeCounts, Delays, Service!WatchTypeOK
<1>2. ASSUME WatchInv, [Next]_vars
      PROVE  /\ child # "running" /\ child' = "running" => stop \in {"none", "snapshot"}
             /\ watch' \in {"left", "ended"} => child' # "running"
  BY <1>2, StopKept, ServiceOnly DEF WatchInv
<1>3. QED
  BY <1>1, <1>2, Watched, PTL DEF Spec, StopIsFinal, Service!StopIsFinal

(* Only a start that proved healthy shortens the restart delay, for any    *)
(* backoff that does not get shorter (RestartPolicy.note_restart).         *)
THEOREM DelaysHonest == Spec => OnlyHealthShortensDelay
<1>1. ASSUME WatchInv, [Next]_vars
      PROVE  delay' < delay => span >= HealthyRounds /\ watch \in {"rounds", "killed"}
  BY <1>1, DelayKept, ServiceOnly DEF WatchInv
<1>2. QED
  BY <1>1, Watched, PTL DEF Spec, OnlyHealthShortensDelay, Service!OnlyHealthShortensDelay

(* The registry on the disk survives failed saves and crashes at any step, *)
(* and only a removal can hide a registered name from resolve, for any     *)
(* number of names (ProjectRegistry._save, _ensure_loaded and resolve).    *)
THEOREM RegistrySurvives == Spec => []RegistryKept
<1>1. Init => RegistryInv
  BY RegistryInit DEF Init
<1>2. RegistryInv /\ [Next]_vars => RegistryInv'
  BY RegistryStep, RegistryOnly
<1>3. RegistryInv => RegistryKept
  BY RegistrySafe DEF RegistryKept
<1>4. QED
  BY <1>1, <1>2, <1>3, PTL DEF Spec

-------------------------------------------------------------------------------
(* The worker pool.                                                        *)

(* A task of the window.                                                   *)
Task == [item : 1..Items, state : {"running", "done", "raised", "lost"}]

(* The lists are sequences of tasks and of items, one of each operation.   *)
PoolTypes ==
  /\ Pool!PoolTypeOK
  /\ pending \in [Operations -> Seq(Task)]
  /\ yielded \in [Operations -> Seq(1..Items)]

(* The items of an operation: first those yielded, then the window, then   *)
(* those not submitted.                                                    *)
InPlace(got, window, taken) ==
  /\ Len(got) + Len(window) = taken
  /\ \A i \in 1..Len(got) : got[i] = i
  /\ \A i \in 1..Len(window) : window[i].item = Len(got) + i
(* So it is in each operation, and one that ends well has yielded all.     *)
InOrder(o) ==
  /\ InPlace(yielded[o], pending[o], submitted[o])
  /\ op[o] \in {"closing", "done"} => submitted[o] = Items /\ pending[o] = <<>>

(* Max and Min of two numbers.                                             *)
LEMMA PoolMaxMin ==
  ASSUME NEW a \in Int, NEW b \in Int
  PROVE  /\ Pool!Max({a, b}) = IF a < b THEN b ELSE a
         /\ Pool!Min({a, b}) = IF a < b THEN a ELSE b
<1> DEFINE m == Pool!Max({a, b})
           n == Pool!Min({a, b})
<1>1. (\E x \in {a, b} : \A y \in {a, b} : x >= y) /\ (\E x \in {a, b} : \A y \in {a, b} : x <= y)
  OBVIOUS
<1>2. /\ m \in {a, b} /\ \A y \in {a, b} : m >= y
      /\ n \in {a, b} /\ \A y \in {a, b} : n <= y
  BY <1>1, Zenon DEF Pool!Max, Pool!Min
<1> HIDE DEF m, n
<1>3. m \in {a, b} /\ m >= a /\ m >= b /\ n \in {a, b} /\ n <= a /\ n <= b
  BY <1>2
<1>4. m = (IF a < b THEN b ELSE a) /\ n = (IF a < b THEN a ELSE b)
  BY <1>3
<1>5. QED
  BY <1>4 DEF m, n

(* Tasks that are killed keep their items and places.                      *)
LEMMA KilledKeeps ==
  ASSUME NEW s \in Seq(Task)
  PROVE  /\ Pool!Killed(s) \in Seq(Task) /\ Len(Pool!Killed(s)) = Len(s)
         /\ \A i \in 1..Len(s) : Pool!Killed(s)[i].item = s[i].item
<1>1. /\ Pool!Killed(s) = [i \in 1..Len(s) |-> IF s[i].state = "running" THEN [s[i] EXCEPT !.state = "lost"] ELSE s[i]]
      /\ Len(s) \in Nat /\ \A i \in 1..Len(s) : s[i] \in Task
  BY DEF Pool!Killed
<1>2. \A i \in 1..Len(s) : Pool!Killed(s)[i] \in Task /\ Pool!Killed(s)[i].item = s[i].item
  <2>1. ASSUME NEW i \in 1..Len(s) PROVE Pool!Killed(s)[i] \in Task /\ Pool!Killed(s)[i].item = s[i].item
    <3>1. PICK t \in Task : t = s[i]
      BY <1>1
    <3>2. Pool!Killed(s)[i] = IF t.state = "running" THEN [t EXCEPT !.state = "lost"] ELSE t
      BY <1>1, <3>1
    <3>3. [t EXCEPT !.state = "lost"] \in Task /\ [t EXCEPT !.state = "lost"].item = t.item
      BY DEF Task
    <3>4. QED
      BY <3>1, <3>2, <3>3
  <2>2. QED
    BY <2>1
<1>3. QED
  BY <1>1, <1>2

(* Without its first task the rest of a window moves up.                   *)
LEMMA MovesUp ==
  ASSUME NEW s \in Seq(Task), Len(s) > 0
  PROVE  LET r == SubSeq(s, 1, 0) \o SubSeq(s, 2, Len(s)) IN
           r \in Seq(Task) /\ Len(r) = Len(s) - 1 /\ \A i \in 1..Len(r) : r[i] = s[i + 1]
<1> DEFINE a == SubSeq(s, 1, 0)
           b == SubSeq(s, 2, Len(s))
<1>1. a \in Seq(Task) /\ Len(a) = 0
  BY SubSeqProperties
<1>2. b \in Seq(Task) /\ Len(b) = Len(s) - 1 /\ \A i \in 1..Len(b) : b[i] = s[i + 1]
  <2>1. Len(s) \in Nat /\ 2 \in 1..Len(s) + 1 /\ Len(s) \in 1..Len(s)
    OBVIOUS
  <2>2. \A i \in 2..Len(s) : s[i] \in Task
    BY <2>1
  <2>3. /\ b \in Seq(Task) /\ Len(b) = (IF 2 <= Len(s) THEN Len(s) - 2 + 1 ELSE 0)
        /\ \A i \in 1..(Len(s) - 2 + 1) : b[i] = s[2 + i - 1]
    BY <2>1, <2>2, SubSeqProperties
  <2> HIDE DEF b
  <2>4. Len(b) = Len(s) - 1
    <3>1. PICK n \in Nat : n = Len(s)
      BY <2>1
    <3>2. n > 0 /\ Len(b) = IF 2 <= n THEN n - 2 + 1 ELSE 0
      BY <2>3, <3>1
    <3>3. (IF 2 <= n THEN n - 2 + 1 ELSE 0) = n - 1
      BY <3>1, <3>2
    <3>4. QED
      BY <3>1, <3>2, <3>3
  <2>5. ASSUME NEW i \in 1..Len(b) PROVE b[i] = s[i + 1]
    <3>1. i \in 1..(Len(s) - 2 + 1) /\ 2 + i - 1 = i + 1
      BY <2>1, <2>4
    <3>2. QED
      BY <2>3, <3>1
  <2>6. QED
    BY <2>3, <2>4, <2>5
<1> HIDE DEF a, b
<1>3. a \o b \in Seq(Task) /\ Len(a \o b) = Len(b) /\ \A i \in 1..Len(b) : (a \o b)[i] = b[i]
  BY <1>1, <1>2, ConcatProperties
<1>4. QED
  BY <1>2, <1>3 DEF a, b

(* What a step does to the lists of its operation: it leaves them, submits *)
(* the next item, changes states of tasks, yields the oldest or clears.    *)
Listed(o) ==
  \/ submitted'[o] = submitted[o] /\ yielded'[o] = yielded[o]
     /\ Len(pending'[o]) = Len(pending[o]) /\ (\A i \in 1..Len(pending[o]) : pending'[o][i].item = pending[o][i].item)
     /\ (op'[o] \in {"closing", "done"} => op[o] \in {"closing", "done"} \/ Pool!AllYielded(o))
  \/ submitted'[o] = submitted[o] + 1 /\ yielded'[o] = yielded[o] /\ op'[o] \notin {"closing", "done"}
     /\ \E s : pending'[o] = Append(pending[o], [item |-> submitted[o] + 1, state |-> s])
  \/ submitted'[o] = submitted[o] /\ op'[o] \notin {"closing", "done"} /\ Len(pending[o]) > 0
     /\ yielded'[o] = Append(yielded[o], pending[o][1].item)
     /\ Len(pending'[o]) = Len(pending[o]) - 1 /\ (\A i \in 1..Len(pending'[o]) : pending'[o][i] = pending[o][i + 1])
  \/ submitted'[o] = 0 /\ yielded'[o] = <<>> /\ pending'[o] = <<>> /\ op'[o] = "new"

(* Where an operation can be.                                              *)
OpStates == Pool!Working \union {"new", "closing", "closing on error", "done", "failed"}
(* Some of them.                                                           *)
LEMMA OpStatesAre == {"new", "sequential", "parallel", "broken", "done", "failed"} \subseteq OpStates
  BY Zenon DEF OpStates, Pool!Working
(* Only the operation that takes a step changes.                           *)
Alone(o) == \A v \in Operations \ {o} :
  op'[v] = op[v] /\ reserved'[v] = reserved[v] /\ processes'[v] = processes[v]
  /\ submitted'[v] = submitted[v] /\ pending'[v] = pending[v] /\ yielded'[v] = yielded[v]

(* The types of the variables, one by one.                                 *)
LEMMA PoolTypesAre ==
  PoolTypes <=> /\ budget \in Nat /\ op \in [Operations -> OpStates] /\ reserved \in [Operations -> Nat \ {0}]
                /\ processes \in [Operations -> Nat] /\ submitted \in [Operations -> 0..Items]
                /\ pending \in [Operations -> Seq(Task)] /\ yielded \in [Operations -> Seq(1..Items)]
  BY DEF PoolTypes, Pool!PoolTypeOK, OpStates, Task

(* And after a step.                                                       *)
LEMMA PoolTypesThen ==
  PoolTypes' <=> /\ budget' \in Nat /\ op' \in [Operations -> OpStates] /\ reserved' \in [Operations -> Nat \ {0}]
                 /\ processes' \in [Operations -> Nat] /\ submitted' \in [Operations -> 0..Items]
                 /\ pending' \in [Operations -> Seq(Task)] /\ yielded' \in [Operations -> Seq(1..Items)]
  BY DEF PoolTypes, Pool!PoolTypeOK, OpStates, Task

(* A step keeps types and places, and changes its operation only.          *)
LEMMA PoolTypesStep ==
  ASSUME PoolTypes, NEW o \in Operations, Pool!Step(o)
  PROVE  PoolTypes' /\ Listed(o) /\ Alone(o)
<1> DEFINE T == /\ budget' \in Nat /\ op' \in [Operations -> OpStates] /\ reserved' \in [Operations -> Nat \ {0}]
                /\ processes' \in [Operations -> Nat] /\ submitted' \in [Operations -> 0..Items]
                /\ pending' \in [Operations -> Seq(Task)] /\ yielded' \in [Operations -> Seq(1..Items)]
<1>0. /\ budget \in Nat /\ op \in [Operations -> OpStates] /\ reserved \in [Operations -> Nat \ {0}]
      /\ processes \in [Operations -> Nat] /\ submitted \in [Operations -> 0..Items]
      /\ pending \in [Operations -> Seq(Task)] /\ yielded \in [Operations -> Seq(1..Items)]
      /\ Items \in Nat /\ Requested \in [Operations -> Nat] /\ Limits \subseteq Nat
      /\ pending[o] \in Seq(Task) /\ yielded[o] \in Seq(1..Items) /\ Len(pending[o]) \in Nat /\ Len(yielded[o]) \in Nat
  BY PoolTypesAre, PoolAssumption
<1>1. T => PoolTypes'
  BY PoolTypesThen
<1>2. CASE Pool!Reserve(o)
  <2>1. PICK limit \in Limits :
          LET grant == Pool!Min({Requested[o], Pool!Free(limit)}) IN
            IF Requested[o] > 1 /\ grant > 1
            THEN budget' = budget + grant /\ reserved' = [reserved EXCEPT ![o] = grant] /\ op' = [op EXCEPT ![o] = "parallel"]
            ELSE op' = [op EXCEPT ![o] = "sequential"] /\ budget' = budget /\ reserved' = reserved
    BY <1>2, Zenon DEF Pool!Reserve
  <2>2. Pool!Min({Requested[o], Pool!Free(limit)}) \in Int
    <3>1. Requested[o] \in Int /\ Pool!Free(limit) \in Int
      BY <1>0 DEF Pool!Free
    <3>2. QED
      BY <3>1, PoolMaxMin
  <2>3. PICK grant \in Int : grant = Pool!Min({Requested[o], Pool!Free(limit)})
    BY <2>2
  <2>4. /\ budget' \in Nat /\ op' \in [Operations -> OpStates] /\ reserved' \in [Operations -> Nat \ {0}]
        /\ op'[o] \in {"parallel", "sequential"}
        /\ \A v \in Operations \ {o} : op'[v] = op[v] /\ reserved'[v] = reserved[v]
    <3>1. CASE Requested[o] > 1 /\ grant > 1
      <4>1. budget' = budget + grant /\ reserved' = [reserved EXCEPT ![o] = grant] /\ op' = [op EXCEPT ![o] = "parallel"]
        BY <2>1, <2>3, <3>1
      <4>2. grant \in Nat \ {0}
        BY <2>3, <3>1
      <4>3. QED
        BY <1>0, <4>1, <4>2, OpStatesAre
    <3>2. CASE ~ (Requested[o] > 1 /\ grant > 1)
      BY <1>0, <2>1, <2>3, <3>2, OpStatesAre
    <3>3. QED
      BY <3>1, <3>2
  <2>5. processes' = processes /\ submitted' = submitted /\ pending' = pending /\ yielded' = yielded
    BY <1>2 DEF Pool!Reserve, Pool!taskVars
  <2>6. QED
    BY <1>0, <1>1, <2>4, <2>5 DEF Listed, Alone
<1>3. CASE Pool!StartExecutor(o)
  <2>1. T /\ Alone(o)
    BY <1>0, <1>3 DEF Pool!StartExecutor, Pool!taskVars, Alone, OpStates, Pool!Working
  <2>2. Listed(o)
    BY <1>0, <1>3 DEF Pool!StartExecutor, Pool!taskVars, Listed
  <2>3. QED
    BY <1>1, <2>1, <2>2
<1>4. CASE Pool!FallBack(o)
  <2>1. /\ Pool!Killed(pending[o]) \in Seq(Task) /\ Len(Pool!Killed(pending[o])) = Len(pending[o])
        /\ \A i \in 1..Len(pending[o]) : Pool!Killed(pending[o])[i].item = pending[o][i].item
    BY <1>0, KilledKeeps
  <2>2. PICK r : /\ r \in Seq(Task) /\ Len(r) = Len(pending[o])
                 /\ \A i \in 1..Len(pending[o]) : r[i].item = pending[o][i].item
                 /\ pending' = [pending EXCEPT ![o] = r] /\ submitted' = submitted /\ yielded' = yielded
    BY <1>4, <2>1 DEF Pool!FallBack
  <2>3. /\ budget' \in Nat /\ op' = [op EXCEPT ![o] = "sequential"] /\ reserved' = [reserved EXCEPT ![o] = 1]
        /\ processes' = [processes EXCEPT ![o] = 0]
    <3>1. budget' = budget \/ budget' = Pool!Max({0, budget - reserved[o]})
      BY <1>4 DEF Pool!FallBack, Pool!GiveBack
    <3>2. Pool!Max({0, budget - reserved[o]}) \in Nat
      <4>1. 0 \in Int /\ budget - reserved[o] \in Int
        BY <1>0
      <4>2. QED
        BY <4>1, PoolMaxMin
    <3>3. QED
      BY <1>0, <1>4, <3>1, <3>2 DEF Pool!FallBack, Pool!GiveBack
  <2>4. T /\ Alone(o)
    BY <1>0, <2>2, <2>3, OpStatesAre DEF Alone
  <2>5. Listed(o)
    BY <1>0, <2>2, <2>3 DEF Listed
  <2>6. QED
    BY <1>1, <2>4, <2>5
<1>5. CASE Pool!Submit(o)
  <2>1. PICK s \in {"running", "done", "raised"} :
          pending' = [pending EXCEPT ![o] = Append(pending[o], [item |-> submitted[o] + 1, state |-> s])]
    BY <1>5 DEF Pool!Submit
  <2>2. /\ submitted' = [submitted EXCEPT ![o] = submitted[o] + 1] /\ submitted[o] < Items
        /\ op[o] \in {"sequential", "parallel"} /\ op' = op
        /\ budget' = budget /\ reserved' = reserved /\ processes' = processes /\ yielded' = yielded
    BY <1>5 DEF Pool!Submit
  <2>3. [item |-> submitted[o] + 1, state |-> s] \in Task
    BY <1>0, <2>2 DEF Task
  <2>4. Append(pending[o], [item |-> submitted[o] + 1, state |-> s]) \in Seq(Task)
    BY <1>0, <2>3, AppendProperties
  <2>5. T /\ Alone(o)
    BY <1>0, <2>1, <2>2, <2>4 DEF Alone
  <2>6. Listed(o)
    BY <1>0, <2>1, <2>2 DEF Listed
  <2>7. QED
    BY <1>1, <2>5, <2>6
<1>6. CASE Pool!Finish(o)
  <2>1. PICK i \in DOMAIN pending[o], s \in {"done", "raised"} : pending' = [pending EXCEPT ![o][i].state = s]
    BY <1>6 DEF Pool!Finish
  <2>2. /\ budget' = budget /\ op' = op /\ reserved' = reserved /\ processes' = processes
        /\ submitted' = submitted /\ yielded' = yielded
    BY <1>6 DEF Pool!Finish
  <2>3. PICK r : r = [pending[o] EXCEPT ![i].state = s]
    OBVIOUS
  <2>4. pending' = [pending EXCEPT ![o] = r]
    BY <2>1, <2>3
  <2>5. /\ r \in Seq(Task) /\ Len(r) = Len(pending[o])
        /\ \A j \in 1..Len(pending[o]) : r[j].item = pending[o][j].item
    <3>1. i \in 1..Len(pending[o]) /\ pending[o][i] \in Task
      BY <1>0
    <3>2. [pending[o][i] EXCEPT !.state = s] \in Task /\ [pending[o][i] EXCEPT !.state = s].item = pending[o][i].item
      BY <3>1 DEF Task
    <3>3. r = [pending[o] EXCEPT ![i] = [pending[o][i] EXCEPT !.state = s]]
      BY <2>3
    <3>4. QED
      BY <1>0, <3>1, <3>2, <3>3
  <2>6. T /\ Alone(o)
    BY <1>0, <2>2, <2>4, <2>5 DEF Alone
  <2>7. Listed(o)
    BY <1>0, <2>2, <2>4, <2>5 DEF Listed
  <2>8. QED
    BY <1>1, <2>6, <2>7
<1>7. CASE Pool!WorkerDies(o)
  <2>1. /\ Pool!Killed(pending[o]) \in Seq(Task) /\ Len(Pool!Killed(pending[o])) = Len(pending[o])
        /\ \A i \in 1..Len(pending[o]) : Pool!Killed(pending[o])[i].item = pending[o][i].item
    BY <1>0, KilledKeeps
  <2>2. PICK r : /\ r \in Seq(Task) /\ Len(r) = Len(pending[o])
                 /\ \A i \in 1..Len(pending[o]) : r[i].item = pending[o][i].item
                 /\ pending' = [pending EXCEPT ![o] = r] /\ submitted' = submitted /\ yielded' = yielded
    BY <1>7, <2>1 DEF Pool!WorkerDies
  <2>3. /\ budget' \in Nat /\ op' = [op EXCEPT ![o] = "broken"] /\ reserved' = reserved
        /\ processes' = [processes EXCEPT ![o] = processes[o] - 1] /\ processes[o] - 1 \in Nat
    BY <1>0, <1>7 DEF Pool!WorkerDies
  <2>4. T /\ Alone(o)
    BY <1>0, <2>2, <2>3, OpStatesAre DEF Alone
  <2>5. Listed(o)
    BY <1>0, <2>2, <2>3 DEF Listed
  <2>6. QED
    BY <1>1, <2>4, <2>5
<1>8. CASE Pool!Yield(o)
  <2>1. /\ Len(pending[o]) > 0 /\ op[o] \in Pool!Working
        /\ yielded' = [yielded EXCEPT ![o] = Append(yielded[o], pending[o][1].item)]
        /\ pending' = [pending EXCEPT ![o] = SubSeq(pending[o], 1, 0) \o SubSeq(pending[o], 2, Len(pending[o]))]
    <3>1. PICK i \in DOMAIN pending[o] :
            /\ i = 1
            /\ yielded' = [yielded EXCEPT ![o] = Append(yielded[o], pending[o][i].item)]
            /\ pending' = [pending EXCEPT ![o] = SubSeq(pending[o], 1, i - 1) \o SubSeq(pending[o], i + 1, Len(pending[o]))]
      BY <1>8 DEF Pool!Yield, Pool!Yields
    <3>2. 1 - 1 = 0 /\ 1 + 1 = 2 /\ Len(pending[o]) > 0
      BY <1>0, <3>1
    <3>3. QED
      BY <1>8, <3>1, <3>2 DEF Pool!Yield
  <2>2. /\ budget' = budget /\ op' = op /\ reserved' = reserved /\ processes' = processes /\ submitted' = submitted
    BY <1>8 DEF Pool!Yield
  <2>3. PICK r : r = SubSeq(pending[o], 1, 0) \o SubSeq(pending[o], 2, Len(pending[o]))
    OBVIOUS
  <2>4. r \in Seq(Task) /\ Len(r) = Len(pending[o]) - 1 /\ \A i \in 1..Len(r) : r[i] = pending[o][i + 1]
    BY <1>0, <2>1, <2>3, MovesUp
  <2>5. pending[o][1] \in Task /\ pending[o][1].item \in 1..Items
    <3>1. 1 \in 1..Len(pending[o])
      BY <1>0, <2>1
    <3>2. pending[o][1] \in Task
      BY <1>0, <3>1
    <3>3. QED
      BY <3>2 DEF Task
  <2>6. Append(yielded[o], pending[o][1].item) \in Seq(1..Items)
    BY <1>0, <2>5, AppendProperties
  <2>7. T /\ Alone(o)
    BY <1>0, <2>1, <2>2, <2>3, <2>4, <2>6 DEF Alone
  <2>8. Listed(o)
    BY <1>0, <2>1, <2>2, <2>3, <2>4 DEF Listed, Pool!Working
  <2>9. QED
    BY <1>1, <2>7, <2>8
<1>9. CASE Pool!Fails(o)
  <2>1. T /\ Alone(o)
    BY <1>0, <1>9 DEF Pool!Fails, Pool!taskVars, Pool!Working, Pool!Oldest, Alone, OpStates, Pool!Working
  <2>2. Listed(o)
    BY <1>0, <1>9 DEF Pool!Fails, Pool!taskVars, Pool!Working, Pool!Oldest, Listed
  <2>3. QED
    BY <1>1, <2>1, <2>2
<1>10. CASE Pool!Interrupted(o)
  <2>1. T /\ Alone(o)
    BY <1>0, <1>10 DEF Pool!Interrupted, Pool!taskVars, Pool!Working, Alone, OpStates, Pool!Working
  <2>2. Listed(o)
    BY <1>0, <1>10 DEF Pool!Interrupted, Pool!taskVars, Pool!Working, Listed
  <2>3. QED
    BY <1>1, <2>1, <2>2
<1>11. CASE Pool!CloseClean(o)
  <2>1. T /\ Alone(o)
    BY <1>0, <1>11 DEF Pool!CloseClean, Pool!taskVars, Pool!Working, Alone, OpStates, Pool!Working
  <2>2. Listed(o)
    BY <1>0, <1>11 DEF Pool!CloseClean, Pool!taskVars, Pool!Working, Listed
  <2>3. QED
    BY <1>1, <2>1, <2>2
<1>12. CASE Pool!Shutdown(o)
  <2>1. T /\ Alone(o)
    BY <1>0, <1>12 DEF Pool!Shutdown, Pool!taskVars, Alone, OpStates, Pool!Working
  <2>2. Listed(o)
    BY <1>0, <1>12 DEF Pool!Shutdown, Pool!taskVars, Listed
  <2>3. QED
    BY <1>1, <2>1, <2>2
<1>13. CASE Pool!Closed(o)
  <2>1. budget' = budget \/ budget' = Pool!Max({0, budget - reserved[o]})
    BY <1>13 DEF Pool!Closed, Pool!GiveBack
  <2>2. Pool!Max({0, budget - reserved[o]}) \in Nat
    <3>1. 0 \in Int /\ budget - reserved[o] \in Int
      BY <1>0
    <3>2. QED
      BY <3>1, PoolMaxMin
  <2>3. T /\ Alone(o)
    <3>1. /\ op' = [op EXCEPT ![o] = IF op[o] = "closing" THEN "done" ELSE "failed"]
          /\ reserved' = [reserved EXCEPT ![o] = 1] /\ budget' \in Nat
          /\ processes' = processes /\ submitted' = submitted /\ pending' = pending /\ yielded' = yielded
      BY <1>0, <1>13, <2>1, <2>2 DEF Pool!Closed, Pool!GiveBack, Pool!taskVars
    <3>2. QED
      BY <1>0, <3>1, OpStatesAre DEF Alone
  <2>4. Listed(o)
    BY <1>0, <1>13 DEF Pool!Closed, Pool!taskVars, Pool!GiveBack, Pool!ProcessesGone, Listed
  <2>5. QED
    BY <1>1, <2>3, <2>4
<1>14. CASE Pool!Again(o)
  <2>1. T /\ Alone(o)
    <3>1. /\ op' = [op EXCEPT ![o] = "new"] /\ submitted' = [submitted EXCEPT ![o] = 0]
          /\ pending' = [pending EXCEPT ![o] = <<>>] /\ yielded' = [yielded EXCEPT ![o] = <<>>]
          /\ budget' = budget /\ reserved' = reserved /\ processes' = processes
      BY <1>14 DEF Pool!Again
    <3>2. PICK p \in Seq(Task) : p = <<>>
      BY EmptySeq
    <3>3. PICK y \in Seq(1..Items) : y = <<>>
      BY EmptySeq
    <3>4. submitted' \in [Operations -> 0..Items] /\ op' \in [Operations -> OpStates]
      BY <1>0, <3>1, OpStatesAre
    <3>5. pending' = [pending EXCEPT ![o] = p] /\ yielded' = [yielded EXCEPT ![o] = y]
      BY <3>1, <3>2, <3>3
    <3>6. T
      BY <1>0, <3>1, <3>4, <3>5
    <3>7. Alone(o)
      BY <1>0, <3>1, <3>5 DEF Alone
    <3>8. QED
      BY <3>6, <3>7
  <2>2. Listed(o)
    BY <1>0, <1>14 DEF Pool!Again, Pool!taskVars, Listed
  <2>3. QED
    BY <1>1, <2>1, <2>2
<1>15. QED
  BY <1>2, <1>3, <1>4, <1>5, <1>6, <1>7, <1>8, <1>9, <1>10, <1>11, <1>12, <1>13, <1>14 DEF Pool!Step

(* Nothing moves.                                                          *)
LEMMA PlacesStay ==
  ASSUME NEW y, NEW p, NEW q, NEW m, InPlace(y, p, m), Len(q) = Len(p), \A i \in 1..Len(p) : q[i].item = p[i].item
  PROVE  InPlace(y, q, m)
  BY DEF InPlace

(* One more item is submitted.                                             *)
LEMMA PlacesGrow ==
  ASSUME NEW y \in Seq(1..Items), NEW p \in Seq(Task), NEW m \in Nat, NEW e, InPlace(y, p, m), e.item = m + 1
  PROVE  InPlace(y, Append(p, e), m + 1)
<1>0. Len(y) \in Nat /\ Len(p) \in Nat
  OBVIOUS
<1>1. PICK q : q = Append(p, e)
  OBVIOUS
<1>2. Len(q) = Len(p) + 1 /\ q[Len(p) + 1] = e /\ \A i \in 1..Len(p) : q[i] = p[i]
  BY <1>1
<1>3. \A i \in 1..Len(q) : q[i].item = Len(y) + i
  <2>1. ASSUME NEW i \in 1..Len(q) PROVE q[i].item = Len(y) + i
    <3>1. CASE i = Len(p) + 1
      <4>1. q[i].item = m + 1 /\ m = Len(y) + Len(p)
        BY <1>2, <3>1 DEF InPlace
      <4>2. QED
        BY <1>0, <3>1, <4>1
    <3>2. CASE i # Len(p) + 1
      <4>1. i \in 1..Len(p)
        BY <1>0, <1>2, <3>2
      <4>2. q[i] = p[i] /\ p[i].item = Len(y) + i
        BY <1>2, <4>1 DEF InPlace
      <4>3. QED
        BY <4>2
    <3>3. QED
      BY <3>1, <3>2
  <2>2. QED
    BY <2>1
<1>4. QED
  BY <1>0, <1>1, <1>2, <1>3 DEF InPlace

(* The oldest task is yielded.                                             *)
LEMMA PlacesMove ==
  ASSUME NEW y \in Seq(1..Items), NEW p \in Seq(Task), NEW q \in Seq(Task), NEW m \in Nat, InPlace(y, p, m),
         Len(p) > 0, Len(q) = Len(p) - 1, \A i \in 1..Len(q) : q[i] = p[i + 1]
  PROVE  InPlace(Append(y, p[1].item), q, m)
<1>0. Len(y) \in Nat /\ Len(p) \in Nat /\ Len(q) \in Nat /\ 1 \in 1..Len(p)
  OBVIOUS
<1>1. PICK e : e = p[1].item
  OBVIOUS
<1>2. e = Len(y) + 1
  BY <1>0, <1>1 DEF InPlace
<1>3. PICK z : z = Append(y, e)
  OBVIOUS
<1>4. Len(z) = Len(y) + 1 /\ z[Len(y) + 1] = e /\ \A i \in 1..Len(y) : z[i] = y[i]
  BY <1>3
<1>5. \A i \in 1..Len(q) : q[i].item = Len(z) + i
  <2>1. ASSUME NEW i \in 1..Len(q) PROVE q[i].item = Len(z) + i
    <3>1. i + 1 \in 1..Len(p)
      BY <1>0
    <3>2. p[i + 1].item = Len(y) + (i + 1)
      BY <3>1 DEF InPlace
    <3>3. QED
      BY <1>0, <1>4, <3>2
  <2>2. QED
    BY <2>1
<1>6. Len(y) + Len(p) = m /\ \A i \in 1..Len(y) : y[i] = i
  BY DEF InPlace
<1>7. ASSUME NEW i \in 1..Len(z) PROVE z[i] = i
  <2>1. i \in 1..Len(y) \/ i = Len(y) + 1
    BY <1>0, <1>4
  <2>2. QED
    BY <1>2, <1>4, <1>6, <2>1
<1>9. Len(z) + Len(q) = m
  <2>1. Len(z) = Len(y) + 1 /\ Len(q) = Len(p) - 1 /\ Len(y) + Len(p) = m
    BY <1>4, <1>6
  <2>2. PICK k \in Nat, l \in Nat : k = Len(y) /\ l = Len(p)
    BY <1>0
  <2>3. (k + 1) + (l - 1) = k + l
    BY <2>2
  <2>4. QED
    BY <2>1, <2>2, <2>3
<1>8. QED
  BY <1>1, <1>3, <1>5, <1>7, <1>9 DEF InPlace

(* A step keeps the order.                                                 *)
LEMMA OrderStep ==
  ASSUME PoolTypes, PoolTypes', NEW o \in Operations, InOrder(o), Listed(o)
  PROVE  InOrder(o)'
<1>0. /\ submitted[o] \in 0..Items /\ pending[o] \in Seq(Task) /\ yielded[o] \in Seq(1..Items)
      /\ submitted'[o] \in 0..Items /\ pending'[o] \in Seq(Task) /\ yielded'[o] \in Seq(1..Items)
      /\ Items \in Nat /\ submitted[o] \in Nat
  BY PoolTypesAre, PoolTypesThen, PoolAssumption
<1>1. ASSUME submitted'[o] = submitted[o], yielded'[o] = yielded[o], Len(pending'[o]) = Len(pending[o]),
             \A i \in 1..Len(pending[o]) : pending'[o][i].item = pending[o][i].item,
             op'[o] \in {"closing", "done"} => op[o] \in {"closing", "done"} \/ Pool!AllYielded(o)
      PROVE  InOrder(o)'
  <2>1. pending[o] = <<>> => pending'[o] = <<>>
    BY <1>0, <1>1
  <2>2. InPlace(yielded'[o], pending'[o], submitted'[o])
    BY <1>1, PlacesStay DEF InOrder
  <2>3. QED
    BY <1>1, <2>1, <2>2 DEF InOrder, Pool!AllYielded
<1>2. ASSUME submitted'[o] = submitted[o] + 1, yielded'[o] = yielded[o], op'[o] \notin {"closing", "done"},
             NEW s, pending'[o] = Append(pending[o], [item |-> submitted[o] + 1, state |-> s])
      PROVE  InOrder(o)'
  <2>1. PICK e : e = [item |-> submitted[o] + 1, state |-> s]
    OBVIOUS
  <2>2. e.item = submitted[o] + 1
    BY <2>1
  <2>3. InPlace(yielded[o], Append(pending[o], e), submitted[o] + 1)
    BY <1>0, <2>2, PlacesGrow DEF InOrder
  <2>4. InPlace(yielded'[o], pending'[o], submitted'[o])
    BY <1>2, <2>1, <2>3
  <2>5. QED
    BY <1>2, <2>4 DEF InOrder
<1>3. ASSUME submitted'[o] = submitted[o], op'[o] \notin {"closing", "done"}, Len(pending[o]) > 0,
             yielded'[o] = Append(yielded[o], pending[o][1].item),
             Len(pending'[o]) = Len(pending[o]) - 1, \A i \in 1..Len(pending'[o]) : pending'[o][i] = pending[o][i + 1]
      PROVE  InOrder(o)'
  <2>1. InPlace(Append(yielded[o], pending[o][1].item), pending'[o], submitted[o])
    BY <1>0, <1>3, PlacesMove DEF InOrder
  <2>2. InPlace(yielded'[o], pending'[o], submitted'[o])
    BY <1>3, <2>1
  <2>3. QED
    BY <1>3, <2>2 DEF InOrder
<1>4. ASSUME submitted'[o] = 0, yielded'[o] = <<>>, pending'[o] = <<>>, op'[o] = "new"
      PROVE  InOrder(o)'
  BY <1>4 DEF InOrder, InPlace
<1>5. QED
  BY <1>1, <1>2, <1>3, <1>4 DEF Listed

(* What a step does to the budget: nothing, or it takes within a limit, or *)
(* it gives back what its operation has.                                   *)
Charged(o) ==
  \/ budget' = budget /\ reserved'[o] = reserved[o]
  \/ /\ reserved[o] = 1 /\ reserved'[o] > 1 /\ budget' = budget + reserved'[o] /\ \E limit \in Limits : budget' <= limit
  \/ /\ reserved'[o] = 1
     /\ budget' = IF reserved[o] > 1 THEN Pool!Max({0, budget - reserved[o]}) ELSE budget
(* Processes run on what is reserved, and an operation that has not begun  *)
(* or has ended has nothing.                                               *)
Owns(o) ==
  /\ processes[o] <= reserved[o] \/ processes[o] = 0
  /\ op[o] \in {"new", "done", "failed"} => reserved[o] = 1
  /\ op[o] \in {"new", "sequential", "done", "failed"} => processes[o] = 0

(* Every step charges the budget like that.                                *)
LEMMA ChargedStep ==
  ASSUME PoolTypes, NEW o \in Operations, Owns(o), Pool!Step(o)
  PROVE  Charged(o) /\ Owns(o)'
<1>0. /\ budget \in Nat /\ op \in [Operations -> OpStates] /\ reserved \in [Operations -> Nat \ {0}]
      /\ processes \in [Operations -> Nat] /\ Requested \in [Operations -> Nat] /\ Limits \subseteq Nat
  BY PoolTypesAre, PoolAssumption
<1>1. CASE Pool!Reserve(o)
  <2>1. PICK limit \in Limits :
          LET grant == Pool!Min({Requested[o], Pool!Free(limit)}) IN
            IF Requested[o] > 1 /\ grant > 1
            THEN budget' = budget + grant /\ reserved' = [reserved EXCEPT ![o] = grant] /\ op' = [op EXCEPT ![o] = "parallel"]
            ELSE op' = [op EXCEPT ![o] = "sequential"] /\ budget' = budget /\ reserved' = reserved
    BY <1>1, Zenon DEF Pool!Reserve
  <2>2. PICK grant \in Int : grant = Pool!Min({Requested[o], Pool!Free(limit)}) /\ grant <= limit - budget
    <3>1. Requested[o] \in Int /\ Pool!Free(limit) \in Int /\ Pool!Free(limit) = limit - budget
      BY <1>0 DEF Pool!Free
    <3>2. Pool!Min({Requested[o], Pool!Free(limit)}) = IF Requested[o] < Pool!Free(limit) THEN Requested[o] ELSE Pool!Free(limit)
      BY <3>1, PoolMaxMin
    <3>3. QED
      BY <3>1, <3>2
  <2>3. limit \in Nat
    BY <1>0
  <2>4. op[o] = "new" /\ processes' = processes /\ reserved[o] = 1 /\ processes[o] = 0
    BY <1>1 DEF Pool!Reserve, Owns
  <2>5. CASE Requested[o] > 1 /\ grant > 1
    <3>1. budget' = budget + grant /\ reserved'[o] = grant /\ op'[o] = "parallel"
      BY <1>0, <2>1, <2>2, <2>5
    <3>2. budget' <= limit
      BY <1>0, <2>2, <2>3, <3>1
    <3>3. Charged(o)
      BY <2>4, <2>5, <3>1, <3>2 DEF Charged
    <3>4. Owns(o)'
      BY <2>4, <3>1 DEF Owns
    <3>5. QED
      BY <3>3, <3>4
  <2>6. CASE ~ (Requested[o] > 1 /\ grant > 1)
    <3>1. budget' = budget /\ reserved'[o] = reserved[o] /\ op'[o] = "sequential"
      BY <1>0, <2>1, <2>2, <2>6
    <3>2. QED
      BY <2>4, <3>1 DEF Charged, Owns
  <2>7. QED
    BY <2>5, <2>6
<1>2. CASE Pool!StartExecutor(o)
  BY <1>0, <1>2 DEF Pool!StartExecutor, Pool!taskVars, Charged, Owns
<1>3. CASE Pool!FallBack(o)
  BY <1>0, <1>3 DEF Pool!FallBack, Pool!taskVars, Pool!GiveBack, Charged, Owns
<1>4. CASE Pool!Submit(o)
  BY <1>0, <1>4 DEF Pool!Submit, Pool!taskVars, Charged, Owns
<1>5. CASE Pool!Finish(o)
  BY <1>0, <1>5 DEF Pool!Finish, Pool!taskVars, Charged, Owns
<1>6. CASE Pool!WorkerDies(o)
  BY <1>0, <1>6 DEF Pool!WorkerDies, Pool!taskVars, Charged, Owns
<1>7. CASE Pool!Yield(o)
  BY <1>0, <1>7 DEF Pool!Yield, Pool!taskVars, Pool!Yields, Pool!Working, Charged, Owns
<1>8. CASE Pool!Fails(o)
  BY <1>0, <1>8 DEF Pool!Fails, Pool!taskVars, Pool!Working, Pool!Oldest, Charged, Owns
<1>9. CASE Pool!Interrupted(o)
  BY <1>0, <1>9 DEF Pool!Interrupted, Pool!taskVars, Pool!Working, Charged, Owns
<1>10. CASE Pool!CloseClean(o)
  BY <1>0, <1>10 DEF Pool!CloseClean, Pool!taskVars, Pool!Working, Charged, Owns
<1>11. CASE Pool!Shutdown(o)
  BY <1>0, <1>11 DEF Pool!Shutdown, Pool!taskVars, Charged, Owns
<1>12. CASE Pool!Closed(o)
  BY <1>0, <1>12 DEF Pool!Closed, Pool!taskVars, Pool!GiveBack, Pool!ProcessesGone, Charged, Owns
<1>13. CASE Pool!Again(o)
  BY <1>0, <1>13 DEF Pool!Again, Pool!taskVars, Charged, Owns
<1>14. QED
  BY <1>1, <1>2, <1>3, <1>4, <1>5, <1>6, <1>7, <1>8, <1>9, <1>10, <1>11, <1>12, <1>13 DEF Pool!Step

-------------------------------------------------------------------------------
(* The tree walk.                                                          *)

(* Of some numbers up to a bound, one is the least.                        *)
LEMMA LeastNumber ==
  ASSUME NEW n \in Nat, NEW Bad \in SUBSET (0..n), Bad # {}
  PROVE  \E b \in Bad : \A m \in Bad : b <= m
<1> DEFINE S == 0..n
           Sets == {0..k : k \in Bad}
<1>1. IsFiniteSet(S)
  BY FS_Interval
<1>2. IsWellFoundedOn(StrictSubsetOrdering(S), SUBSET S)
  BY <1>1, FS_StrictSubsetOrderingWellFounded, FS_FiniteSubsetsOfFinite
<1>3. Sets \in SUBSET (SUBSET S) /\ Sets # {}
  <2>1. \A k \in Bad : 0..k \in SUBSET S
    OBVIOUS
  <2> HIDE DEF S
  <2>2. QED
    BY <2>1
<1> HIDE DEF S, Sets
<1>4. PICK T \in Sets : \A U \in Sets : ~ (<<U, T>> \in StrictSubsetOrdering(S))
  BY <1>2, <1>3, WFMin, Zenon
<1>5. PICK b \in Bad : T = 0..b
  BY DEF Sets
<1>6. ASSUME NEW m \in Bad, ~ (b <= m) PROVE FALSE
  <2>1. 0..m \in Sets /\ 0..m \subseteq 0..b /\ 0..m # 0..b
    BY <1>6 DEF Sets
  <2>2. <<0..m, T>> \in StrictSubsetOrdering(S)
    BY <1>3, <1>5, <2>1 DEF StrictSubsetOrdering
  <2>3. QED
    BY <1>4, <2>1, <2>2
<1>7. QED
  BY <1>6

(* The directories of a set and those that the readable ones lead to.      *)
Spread(s) == s \cup UNION {Links[d] \cap Directories : d \in {e \in s : ~ Scan!Fails(e, "unreadable")}}
(* The directories reached in so many steps.                               *)
Steps(g, n) == g = [i \in 0..n |-> IF i = 0 THEN {Root} ELSE Spread(g[i - 1])]

(* They are reached one step after the other.                              *)
LEMMA StepsAt ==
  ASSUME NEW n \in Nat, NEW g, Steps(g, n)
  PROVE  g[0] = {Root} /\ \A i \in 1..n : g[i] = Spread(g[i - 1])
<1>1. \A i \in 0..n : g[i] = IF i = 0 THEN {Root} ELSE Spread(g[i - 1])
  BY DEF Steps
<1>2. QED
  BY <1>1

(* There are such steps, as many as one likes.                             *)
LEMMA StepsExist ==
  ASSUME NEW n \in Nat
  PROVE  \E g : Steps(g, n)
<1> DEFINE Bad == {k \in 0..n : ~ \E g : Steps(g, k)}
<1>1. SUFFICES ASSUME Bad # {} PROVE FALSE
  OBVIOUS
<1>2. PICK b \in Bad : \A m \in Bad : b <= m
  <2> HIDE DEF Bad
  <2>1. Bad \in SUBSET (0..n)
    BY DEF Bad
  <2>2. QED
    BY <1>1, <2>1, LeastNumber
<1>3. b \in 0..n /\ ~ \E g : Steps(g, b)
  OBVIOUS
<1>4. CASE b = 0
  <2>1. Steps([i \in 0..0 |-> {Root}], 0)
    BY DEF Steps
  <2>2. QED
    BY <1>3, <1>4, <2>1
<1>5. CASE b # 0
  <2>1. b - 1 \in 0..n /\ b - 1 \notin Bad
    <3>1. b - 1 \in 0..n /\ ~ (b <= b - 1)
      BY <1>3, <1>5
    <3> HIDE DEF Bad
    <3>2. QED
      BY <1>2, <3>1
  <2>2. PICK g : Steps(g, b - 1)
    BY <2>1
  <2> HIDE DEF Bad
  <2> DEFINE h == [i \in 0..b |-> IF i = b THEN Spread(g[b - 1]) ELSE g[i]]
             f == [i \in 0..b |-> IF i = 0 THEN {Root} ELSE Spread(h[i - 1])]
  <2>3. ASSUME NEW i \in 0..b PROVE h[i] = f[i]
    <3>1. g[0] = {Root} /\ \A j \in 1..b - 1 : g[j] = Spread(g[j - 1])
      BY <1>3, <1>5, <2>2, StepsAt
    <3>2. CASE i = 0
      BY <1>5, <3>1, <3>2
    <3>3. CASE i # 0
      <4>1. i - 1 \in 0..b /\ h[i - 1] = g[i - 1] /\ f[i] = Spread(h[i - 1])
        BY <1>3, <3>3
      <4>2. h[i] = Spread(g[i - 1])
        BY <1>3, <3>1, <3>3
      <4>3. QED
        BY <4>1, <4>2
    <3>4. QED
      BY <3>2, <3>3
  <2>4. h = f
    BY <2>3
  <2>5. Steps(h, b)
    BY <2>4 DEF Steps
  <2>6. QED
    BY <1>3, <2>5
<1>6. QED
  BY <1>4, <1>5

(* The number of directories is what the tree walk takes it for.           *)
LEMMA CardinalityIs == \A S : Scan!Cardinality(S) = Cardinality(S)
  BY Zenon DEF Scan!Cardinality, Cardinality

(* The reference of the walk is the last of the steps.                     *)
LEMMA ReachedIs ==
  /\ Cardinality(Directories) \in Nat
  /\ \E g : Steps(g, Cardinality(Directories)) /\ Scan!Reached = g[Cardinality(Directories)]
<1>1. Cardinality(Directories) \in Nat
  BY FS_CardinalityType, ScanAssumption
<1> DEFINE n == Cardinality(Directories)
           E(g) == g = [i \in 0..Scan!Cardinality(Directories) |->
                          IF i = 0 THEN {Root}
                          ELSE g[i - 1] \cup UNION {Links[d] \cap Directories : d \in {e \in g[i - 1] : ~ Scan!Fails(e, "unreadable")}}]
<1>2. Scan!Reached = (CHOOSE g : E(g))[Scan!Cardinality(Directories)]
  BY Zenon DEF Scan!Reached
<1>3. \A g : E(g) <=> Steps(g, n)
  BY CardinalityIs, Zenon DEF Steps, Spread
<1> HIDE DEF E
<1>4. \E g : Steps(g, n)
  BY <1>1, StepsExist
<1>5. Steps(CHOOSE g : E(g), n)
  BY <1>3, <1>4, Zenon
<1>6. QED
  BY <1>1, <1>2, <1>5, CardinalityIs, Zenon

(* Without an exception at the start or after a step there is none.        *)
LEMMA NoException ==
  ASSUME NEW n \in Nat, NEW Bad \in SUBSET (0..n), 0 \notin Bad,
         \A i \in 1..n : i \in Bad => i - 1 \in Bad
  PROVE  Bad = {}
<1> SUFFICES ASSUME Bad # {} PROVE FALSE
  OBVIOUS
<1>1. PICK b \in Bad : \A m \in Bad : b <= m
  BY LeastNumber
<1>2. b \in 1..n
  OBVIOUS
<1>3. b - 1 \in Bad /\ ~ (b <= b - 1)
  BY <1>2
<1>4. QED
  BY <1>1, <1>3

(* What is reached is a part of the tree with its root.                    *)
LEMMA StepsInside ==
  ASSUME NEW n \in Nat, NEW g, Steps(g, n), NEW S, Root \in S, Spread(S) \subseteq S
  PROVE  \A i \in 0..n : Root \in g[i] /\ g[i] \subseteq S
<1>1. g[0] = {Root} /\ \A i \in 1..n : g[i] = Spread(g[i - 1])
  BY StepsAt
<1> DEFINE Bad == {i \in 0..n : ~ (Root \in g[i] /\ g[i] \subseteq S)}
<1>2. 0 \notin Bad
  BY <1>1
<1>3. ASSUME NEW i \in 1..n, i - 1 \notin Bad PROVE i \notin Bad
  <2>1. i - 1 \in 0..n
    OBVIOUS
  <2>2. Root \in g[i - 1] /\ g[i - 1] \subseteq S
    BY <1>3, <2>1
  <2>3. g[i] = Spread(g[i - 1])
    BY <1>1
  <2>4. Spread(g[i - 1]) \subseteq Spread(S) /\ g[i - 1] \subseteq Spread(g[i - 1])
    BY <2>2 DEF Spread
  <2>5. QED
    BY <2>2, <2>3, <2>4
<1>4. Bad \in SUBSET (0..n)
  OBVIOUS
<1> HIDE DEF Bad
<1>5. Bad = {}
  BY <1>2, <1>3, <1>4, NoException
<1>6. QED
  BY <1>5 DEF Bad

(* Each step reaches another directory, or none does any more.             *)
LEMMA StepsEnd ==
  ASSUME NEW n \in Nat, NEW g, Steps(g, n), \A i \in 0..n : g[i] \subseteq Directories
  PROVE  Spread(g[n]) = g[n] \/ Cardinality(g[n]) >= n + 1
<1>1. g[0] = {Root} /\ \A i \in 1..n : g[i] = Spread(g[i - 1])
  BY StepsAt
<1>2. \A i \in 0..n : IsFiniteSet(g[i]) /\ Cardinality(g[i]) \in Nat
  BY FS_Subset, FS_CardinalityType, ScanAssumption
<1> DEFINE Bad == {i \in 0..n : ~ (Spread(g[i]) = g[i] \/ Cardinality(g[i]) >= i + 1)}
<1>3. 0 \notin Bad
  <2>1. Cardinality(g[0]) = 1
    BY <1>1, FS_Singleton
  <2>2. QED
    BY <2>1
<1>4. ASSUME NEW i \in 1..n, i - 1 \notin Bad PROVE i \notin Bad
  <2>0. i - 1 \in 0..n /\ i \in 0..n
    OBVIOUS
  <2>1. g[i] = Spread(g[i - 1])
    BY <1>1
  <2>2. CASE Spread(g[i - 1]) = g[i - 1]
    BY <2>0, <2>1, <2>2
  <2>3. CASE Spread(g[i - 1]) # g[i - 1]
    <3>1. Cardinality(g[i - 1]) >= i
      BY <1>4, <2>0, <2>3
    <3>2. g[i - 1] \subseteq g[i] /\ g[i - 1] # g[i]
      BY <2>1, <2>3 DEF Spread
    <3>3. Cardinality(g[i - 1]) <= Cardinality(g[i]) /\ Cardinality(g[i - 1]) # Cardinality(g[i])
      BY <1>2, <2>0, <3>2, FS_Subset
    <3>4. Cardinality(g[i]) >= i + 1
      BY <1>2, <2>0, <3>1, <3>3
    <3>5. QED
      BY <3>4
  <2>4. QED
    BY <2>2, <2>3
<1>5. Bad \in SUBSET (0..n)
  OBVIOUS
<1> HIDE DEF Bad
<1>6. Bad = {}
  BY <1>3, <1>4, <1>5, NoException
<1>7. QED
  BY <1>6 DEF Bad

(* The reference is the least set of directories with the root and all     *)
(* that its readable ones lead to.                                         *)
LEMMA ReachedAre ==
  /\ Root \in Scan!Reached /\ Scan!Reached \subseteq Directories
  /\ Spread(Scan!Reached) \subseteq Scan!Reached
  /\ \A S : Root \in S /\ Spread(S) \subseteq S => Scan!Reached \subseteq S
<1>1. Cardinality(Directories) \in Nat
  BY ReachedIs
<1>2. PICK n \in Nat : n = Cardinality(Directories)
  BY <1>1
<1>3. PICK g : Steps(g, n) /\ Scan!Reached = g[n]
  BY <1>2, ReachedIs
<1>4. Root \in Directories /\ Spread(Directories) \subseteq Directories
  BY ScanAssumption DEF Spread
<1>5. \A i \in 0..n : Root \in g[i] /\ g[i] \subseteq Directories
  BY <1>3, <1>4, StepsInside
<1>6. Spread(g[n]) = g[n]
  <2>1. Cardinality(g[n]) <= n
    BY <1>2, <1>5, FS_Subset, ScanAssumption
  <2>2. Cardinality(g[n]) \in Nat
    BY <1>5, FS_Subset, FS_CardinalityType, ScanAssumption
  <2>3. Spread(g[n]) = g[n] \/ Cardinality(g[n]) >= n + 1
    BY <1>3, <1>5, StepsEnd
  <2>4. QED
    BY <2>1, <2>2, <2>3
<1>7. ASSUME NEW S, Root \in S, Spread(S) \subseteq S PROVE g[n] \subseteq S
  BY <1>3, <1>7, StepsInside
<1>8. QED
  BY <1>3, <1>5, <1>6, <1>7

(* What _take does to the stack.                                           *)
LEMMA TopTaken ==
  ASSUME NEW s \in Seq(Directories), s # <<>>, Scan!IsInjective(s)
  PROVE  /\ Len(s) > 0 /\ Scan!Last(s) \in Scan!ToSet(s)
         /\ Scan!Front(s) \in Seq(Directories) /\ Len(Scan!Front(s)) = Len(s) - 1 /\ Scan!IsInjective(Scan!Front(s))
         /\ Scan!ToSet(Scan!Front(s)) = Scan!ToSet(s) \ {Scan!Last(s)}
<1> DEFINE r == Scan!Front(s)
<1>1. PICK n \in Nat : n = Len(s)
  OBVIOUS
<1>2. n > 0 /\ DOMAIN s = 1..n /\ \A i \in 1..n : s[i] \in Directories
  BY <1>1
<1>3. r \in Seq(Directories) /\ Len(r) = n - 1 /\ \A i \in 1..n - 1 : r[i] = s[i]
  <2>1. \A i \in 1..n - 1 : s[i] \in Directories
    BY <1>2
  <2>2. /\ SubSeq(s, 1, n - 1) \in Seq(Directories)
        /\ Len(SubSeq(s, 1, n - 1)) = IF 1 <= n - 1 THEN n - 1 - 1 + 1 ELSE 0
        /\ \A i \in 1..(n - 1 - 1 + 1) : SubSeq(s, 1, n - 1)[i] = s[1 + i - 1]
    BY <1>2, <2>1, SubSeqProperties
  <2>3. r = SubSeq(s, 1, n - 1)
    BY <1>1 DEF Scan!Front
  <2> HIDE DEF r
  <2>4. r \in Seq(Directories) /\ Len(r) = n - 1
    BY <1>2, <2>2, <2>3
  <2>5. ASSUME NEW i \in 1..n - 1 PROVE r[i] = s[i]
    <3>1. i \in 1..(n - 1 - 1 + 1) /\ 1 + i - 1 = i
      BY <1>2
    <3>2. QED
      BY <2>2, <2>3, <3>1
  <2>6. QED
    BY <2>4, <2>5
<1>4. DOMAIN r = 1..n - 1
  BY <1>3
<1>5. \A i, j \in 1..n : s[i] = s[j] => i = j
  BY <1>2 DEF Scan!IsInjective
<1>6. Scan!IsInjective(r)
  <2> HIDE DEF r
  <2>1. QED
    BY <1>3, <1>4, <1>5 DEF Scan!IsInjective
<1>7. Scan!Last(s) = s[n]
  BY <1>1 DEF Scan!Last
<1>8. Scan!ToSet(s) = {s[i] : i \in 1..n} /\ Scan!ToSet(r) = {r[i] : i \in 1..n - 1}
  BY <1>2, <1>4 DEF Scan!ToSet
<1> HIDE DEF r
<1>9. Scan!ToSet(r) = Scan!ToSet(s) \ {s[n]}
  <2>1. \A i \in 1..n - 1 : i \in 1..n /\ s[i] # s[n]
    BY <1>2, <1>5
  <2>2. \A i \in 1..n : i # n => i \in 1..n - 1
    OBVIOUS
  <2>3. QED
    BY <1>3, <1>8, <2>1, <2>2
<1>10. s[n] \in Scan!ToSet(s)
  BY <1>2, <1>8
<1>11. QED
  BY <1>1, <1>2, <1>3, <1>6, <1>7, <1>9, <1>10 DEF r

(* What is pushed on it.                                                   *)
LEMMA Pushes ==
  ASSUME NEW s \in Seq(Directories), NEW t \in Seq(Directories), Scan!IsInjective(s), Scan!IsInjective(t),
         Scan!ToSet(s) \cap Scan!ToSet(t) = {}
  PROVE  /\ s \o t \in Seq(Directories) /\ Len(s \o t) = Len(s) + Len(t) /\ Scan!IsInjective(s \o t)
         /\ Scan!ToSet(s \o t) = Scan!ToSet(s) \cup Scan!ToSet(t)
<1> DEFINE u == s \o t
<1>1. PICK m \in Nat, n \in Nat : m = Len(s) /\ n = Len(t)
  OBVIOUS
<1>2. /\ u \in Seq(Directories) /\ Len(u) = m + n
      /\ \A i \in 1..m + n : u[i] = IF i <= m THEN s[i] ELSE t[i - m]
  BY <1>1, ConcatProperties
<1>3. /\ Scan!ToSet(s) = {s[i] : i \in 1..m} /\ Scan!ToSet(t) = {t[i] : i \in 1..n}
      /\ DOMAIN s = 1..m /\ DOMAIN t = 1..n
  BY <1>1 DEF Scan!ToSet
<1> HIDE DEF u
<1>4. Scan!ToSet(u) = {u[i] : i \in 1..m + n} /\ DOMAIN u = 1..m + n
  BY <1>2 DEF Scan!ToSet
<1>5. ASSUME NEW i \in 1..m + n
      PROVE  (i <= m /\ i \in 1..m /\ u[i] = s[i]) \/ (~ (i <= m) /\ i - m \in 1..n /\ u[i] = t[i - m])
  <2>1. u[i] = IF i <= m THEN s[i] ELSE t[i - m]
    BY <1>2
  <2>2. (i <= m /\ i \in 1..m) \/ (~ (i <= m) /\ i - m \in 1..n)
    OBVIOUS
  <2>3. QED
    BY <2>1, <2>2
<1>6. \A i \in 1..m : i \in 1..m + n /\ u[i] = s[i]
  BY <1>2
<1>7. \A i \in 1..n : i + m \in 1..m + n /\ u[i + m] = t[i]
  <2>1. ASSUME NEW i \in 1..n PROVE i + m \in 1..m + n /\ ~ (i + m <= m) /\ i + m - m = i
    OBVIOUS
  <2>2. QED
    BY <1>2, <2>1
<1>8. Scan!ToSet(u) = Scan!ToSet(s) \cup Scan!ToSet(t)
  BY <1>3, <1>4, <1>5, <1>6, <1>7
<1>9. ASSUME NEW i \in 1..m + n, NEW j \in 1..m + n, u[i] = u[j] PROVE i = j
  <2>1. /\ \A k, l \in 1..m : s[k] = s[l] => k = l
        /\ \A k, l \in 1..n : t[k] = t[l] => k = l
        /\ \A k \in 1..m, l \in 1..n : s[k] # t[l]
    <3>1. \A k, l \in 1..m : s[k] = s[l] => k = l
      BY <1>3 DEF Scan!IsInjective
    <3>2. \A k, l \in 1..n : t[k] = t[l] => k = l
      BY <1>3 DEF Scan!IsInjective
    <3>3. \A k \in 1..m, l \in 1..n : s[k] # t[l]
      BY <1>3
    <3>4. QED
      BY <3>1, <3>2, <3>3
  <2>2. CASE i <= m /\ j <= m
    BY <1>5, <1>9, <2>1, <2>2
  <2>3. CASE ~ (i <= m) /\ ~ (j <= m)
    <3>1. i - m = j - m
      BY <1>5, <1>9, <2>1, <2>3
    <3>2. QED
      BY <3>1
  <2>4. CASE i <= m /\ ~ (j <= m)
    BY <1>5, <1>9, <2>1, <2>4
  <2>5. CASE ~ (i <= m) /\ j <= m
    BY <1>5, <1>9, <2>1, <2>5
  <2>6. QED
    BY <2>2, <2>3, <2>4, <2>5
<1>10. Scan!IsInjective(u)
  BY <1>4, <1>9 DEF Scan!IsInjective
<1>11. QED
  BY <1>1, <1>2, <1>8, <1>10 DEF u

(* A directory more in the result.                                         *)
LEMMA Appended ==
  ASSUME NEW s \in Seq(Directories), NEW d \in Directories, Scan!IsInjective(s), d \notin Scan!ToSet(s)
  PROVE  /\ Append(s, d) \in Seq(Directories) /\ Scan!IsInjective(Append(s, d))
         /\ Scan!ToSet(Append(s, d)) = Scan!ToSet(s) \cup {d}
<1>1. <<d>> \in Seq(Directories) /\ Append(s, d) = s \o <<d>>
  OBVIOUS
<1>2. Scan!IsInjective(<<d>>) /\ Scan!ToSet(<<d>>) = {d}
  BY DEF Scan!IsInjective, Scan!ToSet
<1>3. PICK t \in Seq(Directories) : Append(s, d) = s \o t /\ Scan!IsInjective(t) /\ Scan!ToSet(t) = {d}
  BY <1>1, <1>2
<1>4. Scan!ToSet(s) \cap Scan!ToSet(t) = {}
  BY <1>3
<1>5. /\ s \o t \in Seq(Directories) /\ Scan!IsInjective(s \o t)
      /\ Scan!ToSet(s \o t) = Scan!ToSet(s) \cup Scan!ToSet(t)
  BY <1>3, <1>4, Pushes
<1>6. QED
  BY <1>3, <1>5

(* The order in which the entries of a directory are pushed.               *)
LEMMA Entries ==
  ASSUME NEW S \in SUBSET Directories
  PROVE  Scan!SetToSeq(S) \in Seq(Directories) /\ Scan!IsInjective(Scan!SetToSeq(S)) /\ Scan!ToSet(Scan!SetToSeq(S)) = S
<1>1. IsFiniteSet(S) /\ Cardinality(S) \in Nat /\ ExistsBijection(1..Cardinality(S), S)
  BY FS_Subset, FS_CardinalityType, ScanAssumption
<1>2. PICK n \in Nat : n = Cardinality(S)
  BY <1>1
<1>3. \E f \in [1..n -> S] : Scan!IsInjective(f)
  BY <1>1, <1>2 DEF ExistsBijection, Bijection, Injection, IsInjective, Scan!IsInjective
<1> DEFINE f == CHOOSE f \in [1..n -> S] : Scan!IsInjective(f)
<1>4. Scan!SetToSeq(S) = f
  BY <1>2, CardinalityIs DEF Scan!SetToSeq
<1>5. f \in [1..n -> S] /\ Scan!IsInjective(f)
  BY <1>3
<1> HIDE DEF f
<1>6. f \in Seq(Directories) /\ Len(f) = n /\ DOMAIN f = 1..n
  BY <1>5
<1>7. Scan!ToSet(f) = S
  <2>1. Scan!ToSet(f) = {f[i] : i \in 1..n} /\ Scan!ToSet(f) \subseteq S
    BY <1>5, <1>6 DEF Scan!ToSet
  <2>2. f \in Injection(1..n, Scan!ToSet(f))
    BY <1>5, <1>6, <2>1 DEF Injection, IsInjective, Scan!IsInjective
  <2>3. IsFiniteSet(Scan!ToSet(f)) /\ Cardinality(Scan!ToSet(f)) \in Nat /\ Cardinality(Scan!ToSet(f)) <= n
    BY <1>1, <1>2, <2>1, FS_Subset, FS_CardinalityType
  <2>4. Cardinality(1..n) = n
    BY FS_Interval
  <2>5. Cardinality(1..n) <= Cardinality(Scan!ToSet(f))
    BY <2>2, <2>3, FS_Injection
  <2>6. QED
    BY <1>1, <1>2, <2>1, <2>3, <2>4, <2>5, FS_Subset
<1>8. QED
  BY <1>4, <1>5, <1>6, <1>7

(* Where a walker can be.                                                  *)
Places == {"starts", "takes", "lists", "ends", "joins", "out"}
(* The types of the walk.                                                  *)
ScanTypes ==
  /\ stack \in Seq(Directories) /\ found \in Seq(Directories) /\ seen \in SUBSET Directories
  /\ errors \in Nat /\ undone \in Int /\ failure \in BOOLEAN
  /\ granted \in 0..Len(Extra) /\ started \in 0..Len(Extra)
  /\ at \in [Scan!Walkers -> Places] /\ dir \in [Scan!Walkers -> Directories]

(* Nothing interrupted the caller.                                         *)
Uncut == cut = ""
(* It has nothing to return yet.                                           *)
Unanswered == outcome = ""
(* Nothing failed and nothing interrupted the caller.                      *)
Unharmed == Uncut /\ ~ failure

(* The caller is interrupted once, and then it is gone or the walk has     *)
(* failed.  Without that, threads are started as granted, and the caller   *)
(* stays until they have left.                                             *)
Attended ==
  /\ \A w \in Scan!Walkers : at[w] \in {"starts", "joins"} => w = "caller"
  /\ ~ Uncut /\ at["caller"] # "out" => failure
  /\ Uncut => /\ at["caller"] = "out" <=> ~ Unanswered
              /\ \A i \in 1..Len(Extra) : at[Extra[i]] # "out" => Unanswered /\ i <= started
              /\ Unanswered => started <= granted
  /\ outcome = "result" => Unharmed

(* What is to be listed.                                                   *)
ToList == Scan!ToSet(stack) \cup {dir[w] : w \in {v \in Scan!Walkers : at[v] = "lists"}}
(* What was.                                                               *)
WasListed == seen \ ToList
(* Who has something to finish.                                            *)
Busy == {w \in Scan!Walkers : at[w] \in {"lists", "ends"}}

(* Each directory that was seen is to be listed once.                      *)
ListedOnce ==
  /\ Scan!IsInjective(stack) /\ Scan!ToSet(stack) \subseteq seen
  /\ \A w \in Scan!Walkers : at[w] = "lists" => dir[w] \in seen /\ dir[w] \notin Scan!ToSet(stack)
  /\ \A w, v \in Scan!Walkers : at[w] = "lists" /\ at[v] = "lists" /\ dir[w] = dir[v] => w = v
(* What was listed is in the result, and what it leads to was seen.        *)
Published ==
  /\ Root \in seen /\ seen \subseteq Scan!Reached
  /\ Scan!IsInjective(found) /\ Scan!ToSet(found) = {d \in WasListed : ~ Scan!Fails(d, "unreadable")}
  /\ \A d \in WasListed : ~ Scan!Fails(d, "raises") /\ (Scan!Fails(d, "unreadable") \/ Links[d] \cap Directories \subseteq seen)
  /\ errors = IF \E d \in WasListed : Scan!Fails(d, "unreadable") THEN 1 ELSE 0
  /\ \A w \in Scan!Walkers : at[w] = "ends" => ~ Scan!Fails(dir[w], "raises")
(* The counter is what is to be listed or to be finished, and the caller   *)
(* stays while there is something.                                         *)
CountedDown ==
  /\ undone = Len(stack) + Cardinality(Busy)
  /\ at["caller"] \in {"joins", "out"} => undone <= 0

(* What is true of a walk while it goes well.                              *)
GoesWell == ListedOnce /\ Published /\ CountedDown
(* The inductive invariant of the walk.                                    *)
ScanInv == ScanTypes /\ Attended /\ (Unharmed => GoesWell)

(* The caller and the threads.                                             *)
LEMMA WalkersAre ==
  /\ IsFiniteSet(Scan!Walkers) /\ "caller" \in Scan!Walkers
  /\ \A i \in 1..Len(Extra) : Extra[i] \in Scan!Walkers /\ Extra[i] # "caller"
  /\ \A w \in Scan!Walkers : w # "caller" => \E i \in 1..Len(Extra) : w = Extra[i]
<1>1. Scan!ToSet(Extra) = {Extra[i] : i \in 1..Len(Extra)}
  BY ScanAssumption DEF Scan!ToSet
<1>2. [i \in 1..Len(Extra) |-> Extra[i]] \in Surjection(1..Len(Extra), Scan!ToSet(Extra))
  BY <1>1 DEF Surjection
<1>3. IsFiniteSet(1..Len(Extra))
  BY FS_Interval, ScanAssumption
<1>4. IsFiniteSet(Scan!ToSet(Extra))
  BY <1>2, <1>3, FS_Surjection
<1>5. Scan!Walkers = Scan!ToSet(Extra) \cup {"caller"}
  BY DEF Scan!Walkers
<1>6. IsFiniteSet(Scan!Walkers)
  BY <1>4, <1>5, FS_AddElement
<1>7. QED
  BY <1>1, <1>5, <1>6, ScanAssumption

(* The walk starts with the root on its stack.                             *)
LEMMA ScanStarts ==
  ASSUME Scan!Init
  PROVE  /\ granted \in 1..Len(Extra) /\ started = 0 /\ startable
         /\ stack = <<Root>> /\ seen = {Root} /\ found = <<>> /\ errors = 0 /\ undone = 1 /\ failure = FALSE
         /\ at = [w \in Scan!Walkers |-> IF w = "caller" THEN "starts" ELSE "out"]
         /\ dir = [w \in Scan!Walkers |-> Root]
         /\ Uncut /\ Unanswered /\ outcome # "result"
  BY Zenon DEF Scan!Init, Uncut, Unanswered

(* The walk starts with its invariant.                                     *)
LEMMA ScanInit == Scan!Init => ScanInv
<1> SUFFICES ASSUME Scan!Init PROVE ScanInv
  OBVIOUS
<1>0. /\ granted \in 1..Len(Extra) /\ started = 0 /\ Len(Extra) \in Nat /\ Root \in Directories
      /\ seen = {Root} /\ errors = 0 /\ undone = 1 /\ failure = FALSE
      /\ Uncut /\ Unanswered /\ outcome # "result"
  BY ScanStarts, ScanAssumption
<1>a. /\ at = [w \in Scan!Walkers |-> IF w = "caller" THEN "starts" ELSE "out"]
      /\ dir = [w \in Scan!Walkers |-> Root]
  BY ScanStarts
<1>b. \A w \in Scan!Walkers : at[w] = (IF w = "caller" THEN "starts" ELSE "out")
  BY <1>a
<1>c. stack = <<Root>> /\ found = <<>>
  BY ScanStarts
<1>d. stack \in Seq(Directories) /\ found \in Seq(Directories) /\ Len(stack) = 1
  BY <1>0, <1>c
<1>1. ScanTypes
  <2>1. at \in [Scan!Walkers -> Places] /\ dir \in [Scan!Walkers -> Directories]
    BY <1>0, <1>a DEF Places
  <2>2. granted \in 0..Len(Extra) /\ started \in 0..Len(Extra)
    BY <1>0
  <2>3. seen \in SUBSET Directories /\ errors \in Nat /\ undone \in Int
    BY <1>0
  <2>4. failure \in BOOLEAN
    BY <1>0, Zenon
  <2>5. QED
    BY <1>d, <2>1, <2>2, <2>3, <2>4 DEF ScanTypes
<1>2. Attended
  <2>1. \A i \in 1..Len(Extra) : at[Extra[i]] = "out"
    BY <1>b, WalkersAre
  <2>2. at["caller"] = "starts" /\ \A w \in Scan!Walkers : w # "caller" => at[w] = "out"
    BY <1>b, WalkersAre
  <2>3. started <= granted
    BY <1>0
  <2>4. QED
    BY <1>0, <2>1, <2>2, <2>3 DEF Attended, Unharmed
<1>3. Scan!ToSet(stack) = {Root} /\ Scan!IsInjective(stack)
  BY <1>c DEF Scan!ToSet, Scan!IsInjective
<1>4. \A w \in Scan!Walkers : at[w] \notin {"lists", "ends"}
  BY <1>b
<1>5. ListedOnce
  BY <1>0, <1>3, <1>4 DEF ListedOnce
<1>6. WasListed = {} /\ Busy = {}
  BY <1>0, <1>3, <1>4 DEF WasListed, ToList, Busy
<1>7. Published
  <2>1. Scan!ToSet(found) = {} /\ Scan!IsInjective(found)
    BY <1>c DEF Scan!ToSet, Scan!IsInjective
  <2>2. QED
    BY <1>0, <1>4, <1>6, <2>1, ReachedAre DEF Published
<1>8. CountedDown
  <2>1. Cardinality(Busy) = 0
    BY <1>6, FS_EmptySet
  <2>2. at["caller"] = "starts"
    BY <1>b, WalkersAre
  <2>3. undone = Len(stack) + Cardinality(Busy)
    BY <1>0, <1>d, <2>1
  <2>4. QED
    BY <2>2, <2>3 DEF CountedDown
<1>9. QED
  BY <1>1, <1>2, <1>5, <1>7, <1>8 DEF ScanInv, GoesWell

(* What the invariant says when the caller has a result.                   *)
LEMMA ScanSafe == ScanInv => ScanIsSerial
<1> SUFFICES ASSUME ScanInv PROVE ScanIsSerial
  OBVIOUS
<1>0. /\ ScanTypes /\ Attended /\ (Unharmed => GoesWell)
      /\ stack \in Seq(Directories) /\ Len(stack) \in Nat /\ undone \in Int
  BY DEF ScanInv, ScanTypes
<1>1. IsFiniteSet(Busy) /\ Cardinality(Busy) \in Nat
  BY WalkersAre, FS_Subset, FS_CardinalityType DEF Busy
<1>2. Scan!WalkersCovered
  <2>1. ASSUME Uncut PROVE Scan!Cardinality({i \in DOMAIN Extra : at[Extra[i]] # "out"}) <= granted
    <3> DEFINE T == {i \in 1..Len(Extra) : at[Extra[i]] # "out"}
    <3>0. Scan!Cardinality({i \in DOMAIN Extra : at[Extra[i]] # "out"}) = Cardinality(T)
      BY CardinalityIs, ScanAssumption, Zenon
    <3>1. granted \in Nat /\ started \in Nat
      BY <1>0, ScanAssumption DEF ScanTypes
    <3>2. CASE Unanswered
      <4>1. T \subseteq 1..started /\ started <= granted
        <5>1. started <= granted /\ \A i \in 1..Len(Extra) : at[Extra[i]] # "out" => i <= started
          BY <1>0, <2>1, <3>2 DEF Attended
        <5>2. \A i \in 1..Len(Extra) : i \in Nat /\ 1 <= i
          BY ScanAssumption
        <5>3. QED
          BY <3>1, <5>1, <5>2
      <4> HIDE DEF T
      <4>2. IsFiniteSet(1..started) /\ Cardinality(1..started) = started
        BY <3>1, FS_Interval
      <4>3. Cardinality(T) <= started /\ Cardinality(T) \in Nat
        BY <4>1, <4>2, FS_Subset, FS_CardinalityType
      <4>4. Cardinality(T) <= granted
        BY <3>1, <4>1, <4>3
      <4>5. QED
        BY <3>0, <4>4 DEF T
    <3>3. CASE ~ Unanswered
      <4>1. T = {}
        BY <1>0, <2>1, <3>3 DEF Attended
      <4> HIDE DEF T
      <4>2. Cardinality(T) = 0
        BY <4>1, FS_EmptySet
      <4>3. QED
        BY <3>0, <3>1, <4>2 DEF T
    <3>4. QED
      BY <3>2, <3>3
  <2>2. ASSUME ~ failure, Uncut
        PROVE  undone = Len(stack) + Scan!Cardinality({w \in Scan!Walkers : at[w] \in {"lists", "ends"}})
    BY <1>0, <2>2, CardinalityIs DEF Unharmed, GoesWell, CountedDown, Busy
  <2>3. QED
    BY <2>1, <2>2, Zenon DEF Scan!WalkersCovered, Uncut
<1>3. Scan!ScanIsSerial
  <2> SUFFICES ASSUME outcome = "result"
               PROVE  /\ Scan!ToSet(found) = Scan!Readable /\ Scan!IsInjective(found)
                      /\ errors = Scan!Cardinality(Scan!Reached \ Scan!Readable)
                      /\ ~ \E d \in Scan!Reached : Scan!Fails(d, "raises")
    BY DEF Scan!ScanIsSerial
  <2>0. ~ Unanswered
    BY Zenon DEF Unanswered
  <2>1. Unharmed /\ ListedOnce /\ Published /\ CountedDown /\ at["caller"] = "out"
    BY <1>0, <2>0 DEF Attended, Unharmed, GoesWell
  <2>2. Len(stack) = 0 /\ Cardinality(Busy) = 0
    BY <1>0, <1>1, <2>1 DEF CountedDown
  <2>3. stack = <<>> /\ Busy = {}
    BY <1>0, <1>1, <2>2, FS_EmptySet
  <2>4. ToList = {}
    <3>1. Scan!ToSet(stack) = {}
      BY <2>3 DEF Scan!ToSet
    <3>2. \A w \in Scan!Walkers : at[w] # "lists"
      BY <2>3 DEF Busy
    <3>3. QED
      BY <3>1, <3>2 DEF ToList
  <2>5. WasListed = seen
    BY <2>4 DEF WasListed
  <2>6. Scan!Reached = seen
    <3>1. Spread(seen) \subseteq seen
      BY <2>1, <2>5 DEF Published, Spread
    <3>2. QED
      BY <2>1, <3>1, ReachedAre DEF Published
  <2>7. Scan!ToSet(found) = Scan!Readable /\ Scan!IsInjective(found)
    BY <2>1, <2>5, <2>6 DEF Published, Scan!Readable
  <2>8. errors = Cardinality(Scan!Reached \ Scan!Readable)
    <3> DEFINE U == {d \in seen : Scan!Fails(d, "unreadable")}
    <3>1. Scan!Reached \ Scan!Readable = U
      BY <2>6 DEF Scan!Readable
    <3>2. CASE U = {}
      <4>1. errors = 0
        BY <2>1, <2>5, <3>2 DEF Published
      <4>2. QED
        BY <3>1, <3>2, <4>1, FS_EmptySet
    <3>3. CASE U # {}
      <4>1. errors = 1
        BY <2>1, <2>5, <3>3 DEF Published
      <4>2. PICK d : d \in U
        BY <3>3
      <4>3. \A e \in U : e = d
        BY <4>2 DEF Scan!Fails
      <4>4. U = {d}
        BY <4>2, <4>3
      <4>5. Cardinality(U) = 1
        BY <4>4, FS_Singleton
      <4>6. QED
        BY <3>1, <4>1, <4>5
    <3>4. QED
      BY <3>2, <3>3
  <2>9. QED
    BY <2>1, <2>5, <2>6, <2>7, <2>8, CardinalityIs DEF Published
<1>4. QED
  BY <1>2, <1>3 DEF ScanIsSerial

(* The tree does not change while it is walked.                            *)
LEMMA SameTree ==
  ASSUME faulty' = faulty
  PROVE  /\ Scan!Reached' = Scan!Reached
         /\ \A d, how : Scan!Fails(d, how)' <=> Scan!Fails(d, how)
<1>1. \A d, how : Scan!Fails(d, how)' <=> Scan!Fails(d, how)
  BY DEF Scan!Fails
<1>2. Scan!Reached' = Scan!Reached
  BY DEF Scan!Reached, Scan!Fails
<1>3. QED
  BY <1>1, <1>2

(* What is left of the stack.                                              *)
LEMMA TopLeft ==
  ASSUME NEW s \in Seq(Directories), s # <<>>
  PROVE  Scan!Front(s) \in Seq(Directories) /\ Scan!Last(s) \in Directories
<1>1. PICK n \in Nat : n = Len(s)
  OBVIOUS
<1>2. n > 0 /\ \A i \in 1..n : s[i] \in Directories
  BY <1>1
<1>3. \A i \in 1..n - 1 : s[i] \in Directories
  BY <1>2
<1>4. SubSeq(s, 1, n - 1) \in Seq(Directories)
  BY <1>2, <1>3, SubSeqProperties
<1>5. QED
  BY <1>1, <1>2, <1>4 DEF Scan!Front, Scan!Last

(* Every step keeps the types.                                             *)
LEMMA ScanTypesStep ==
  ASSUME ScanTypes, Attended, Scan!Next
  PROVE  ScanTypes' /\ faulty' = faulty
<1>0. /\ stack \in Seq(Directories) /\ found \in Seq(Directories) /\ seen \in SUBSET Directories
      /\ errors \in Nat /\ undone \in Int /\ failure \in BOOLEAN
      /\ granted \in 0..Len(Extra) /\ started \in 0..Len(Extra) /\ Len(Extra) \in Nat
      /\ at \in [Scan!Walkers -> Places] /\ dir \in [Scan!Walkers -> Directories]
      /\ Root \in Directories
  BY ScanAssumption DEF ScanTypes
<1>1. CASE Scan!StartThread
  <2>1. started < granted /\ started' = started + 1 /\ started' \in 0..Len(Extra) /\ started + 1 \in 1..Len(Extra)
    BY <1>0, <1>1 DEF Scan!StartThread
  <2>2. at' = [at EXCEPT ![Extra[started + 1]] = "takes"] \/ at' = at
    BY <1>1 DEF Scan!StartThread
  <2>3. at' \in [Scan!Walkers -> Places]
    BY <1>0, <2>1, <2>2, WalkersAre DEF Places
  <2>4. QED
    BY <1>0, <1>1, <2>1, <2>3 DEF Scan!StartThread, Scan!shared, Scan!frame, ScanTypes
<1>2. CASE Scan!AllStarted
  <2>1. at' \in [Scan!Walkers -> Places]
    BY <1>0, <1>2 DEF Scan!AllStarted, Places
  <2>2. QED
    BY <1>0, <1>2, <2>1 DEF Scan!AllStarted, Scan!shared, Scan!frame, ScanTypes
<1>3. CASE Scan!Join
  <2>1. at' \in [Scan!Walkers -> Places]
    BY <1>0, <1>3 DEF Scan!Join, Places
  <2>2. granted' = 0
    BY <1>3 DEF Scan!Join
  <2>3. QED
    BY <1>0, <1>3, <2>1, <2>2 DEF Scan!Join, Scan!shared, ScanTypes
<1>4. ASSUME NEW w \in Scan!Walkers, Scan!Take(w) PROVE ScanTypes' /\ faulty' = faulty
  <2>1. CASE stack # <<>> /\ stack' = Scan!Front(stack) /\ dir' = [dir EXCEPT ![w] = Scan!Last(stack)]
             /\ at' = [at EXCEPT ![w] = "lists"]
    <3>1. stack' \in Seq(Directories) /\ dir' \in [Scan!Walkers -> Directories] /\ at' \in [Scan!Walkers -> Places]
      BY <1>0, <2>1, TopLeft DEF Places
    <3>2. QED
      BY <1>0, <1>4, <3>1 DEF Scan!Take, Scan!frame, ScanTypes
  <2>2. CASE at' = [at EXCEPT ![w] = IF w = "caller" THEN "joins" ELSE "out"] /\ UNCHANGED <<stack, dir>>
    <3>1. at' \in [Scan!Walkers -> Places]
      BY <1>0, <2>2 DEF Places
    <3>2. QED
      BY <1>0, <1>4, <2>2, <3>1 DEF Scan!Take, Scan!frame, ScanTypes
  <2>3. QED
    BY <1>4, <2>1, <2>2 DEF Scan!Take
<1>5. ASSUME NEW w \in Scan!Walkers, Scan!List(w) PROVE ScanTypes' /\ faulty' = faulty
  <2>1. at' \in [Scan!Walkers -> Places]
    BY <1>0, <1>5 DEF Scan!List, Places
  <2> DEFINE S == (Links[dir[w]] \cap Directories) \ seen
             new == Scan!SetToSeq(S)
  <2>2. new \in Seq(Directories) /\ Scan!ToSet(new) = S /\ Len(new) \in Nat
    BY Entries
  <2>3. \/ errors' = errors + 1 /\ UNCHANGED <<stack, seen, found, undone, failure>>
        \/ failure' = TRUE /\ UNCHANGED <<stack, seen, found, errors, undone>>
        \/ /\ found' = Append(found, dir[w]) /\ stack' = stack \o new /\ seen' = seen \cup Scan!ToSet(new)
           /\ undone' = undone + Len(new) /\ UNCHANGED <<errors, failure>>
    BY <1>5 DEF Scan!List, Scan!Pushed
  <2>4. S \subseteq Directories
    OBVIOUS
  <2> HIDE DEF new, S
  <2>5. stack \o new \in Seq(Directories) /\ Append(found, dir[w]) \in Seq(Directories)
    BY <1>0, <2>2
  <2>6. /\ stack' \in Seq(Directories) /\ found' \in Seq(Directories) /\ seen' \in SUBSET Directories
        /\ errors' \in Nat /\ undone' \in Int
    <3>1. CASE errors' = errors + 1 /\ UNCHANGED <<stack, seen, found, undone>>
      BY <1>0, <3>1
    <3>2. CASE UNCHANGED <<stack, seen, found, errors, undone>>
      BY <1>0, <3>2
    <3>3. CASE /\ found' = Append(found, dir[w]) /\ stack' = stack \o new /\ seen' = seen \cup Scan!ToSet(new)
               /\ undone' = undone + Len(new) /\ UNCHANGED errors
      BY <1>0, <2>2, <2>4, <2>5, <3>3
    <3>4. QED
      BY <2>3, <3>1, <3>2, <3>3
  <2>8. failure' \in BOOLEAN
    BY <1>0, <2>3, Zenon
  <2>7. QED
    BY <1>0, <1>5, <2>1, <2>6, <2>8 DEF Scan!List, Scan!frame, ScanTypes
<1>6. ASSUME NEW w \in Scan!Walkers, Scan!Done(w) PROVE ScanTypes' /\ faulty' = faulty
  <2>1. \E x \in {"joins", "takes", "out"} : at' = [at EXCEPT ![w] = x]
    BY <1>6, Zenon DEF Scan!Done
  <2>2. at' \in [Scan!Walkers -> Places]
    BY <1>0, <2>1 DEF Places
  <2>3. /\ undone' = undone - 1
        /\ UNCHANGED <<stack, seen, found, errors, failure, faulty, granted, started, dir>>
    BY <1>6, Zenon DEF Scan!Done, Scan!frame
  <2>4. QED
    BY <1>0, <2>2, <2>3 DEF ScanTypes
<1>7. CASE Scan!TimeoutInside
  <2>1. /\ failure' = TRUE /\ at' = [at EXCEPT !["caller"] = "ends"]
        /\ UNCHANGED <<stack, seen, found, errors, undone, faulty, granted, started, dir>>
    BY <1>7, Zenon DEF Scan!TimeoutInside
  <2>2. at' \in [Scan!Walkers -> Places]
    BY <1>0, <2>1 DEF Places
  <2>3. QED
    BY <1>0, <2>1, <2>2 DEF ScanTypes
<1>8. CASE Scan!TimeoutOutside
  <2>1. /\ granted' = 0 /\ at' = [at EXCEPT !["caller"] = "out"]
        /\ UNCHANGED <<stack, seen, found, errors, undone, failure, faulty, started, dir>>
    BY <1>8, Zenon DEF Scan!TimeoutOutside, Scan!shared
  <2>2. at' \in [Scan!Walkers -> Places]
    BY <1>0, <2>1 DEF Places
  <2>3. QED
    BY <1>0, <2>1, <2>2 DEF ScanTypes
<1>9. QED
  BY <1>1, <1>2, <1>3, <1>4, <1>5, <1>6, <1>7, <1>8 DEF Scan!Next, Scan!Caller, Scan!Walk

(* The caller stays with its threads.                                      *)
LEMMA AttendedStep ==
  ASSUME ScanTypes, Attended, Scan!Next
  PROVE  Attended'
<1>0. /\ at \in [Scan!Walkers -> Places] /\ "caller" \in Scan!Walkers
      /\ granted \in 0..Len(Extra) /\ started \in 0..Len(Extra) /\ Len(Extra) \in Nat
      /\ \A i \in 1..Len(Extra) : Extra[i] \in Scan!Walkers /\ Extra[i] # "caller"
      /\ \A i, j \in 1..Len(Extra) : Extra[i] = Extra[j] => i = j
      /\ \A w \in Scan!Walkers : w # "caller" => \E i \in 1..Len(Extra) : w = Extra[i]
  BY WalkersAre, ScanAssumption DEF ScanTypes
<1>a. /\ \A w \in Scan!Walkers : at[w] \in {"starts", "joins"} => w = "caller"
      /\ ~ Uncut /\ at["caller"] # "out" => failure
      /\ Uncut => /\ at["caller"] = "out" <=> ~ Unanswered
                  /\ \A i \in 1..Len(Extra) : at[Extra[i]] # "out" => Unanswered /\ i <= started
                  /\ Unanswered => started <= granted
      /\ outcome = "result" => Uncut /\ ~ failure
  BY DEF Attended, Unharmed
(* With a result nobody is left.                                           *)
<1>b. ASSUME outcome = "result" PROVE \A w \in Scan!Walkers : at[w] = "out"
  <2>1. ~ Unanswered
    BY <1>b, Zenon DEF Unanswered
  <2>2. QED
    BY <1>0, <1>a, <1>b, <2>1
<1>c. /\ cut' = cut => Uncut' = Uncut
      /\ outcome' = outcome => Unanswered' = Unanswered
  BY Zenon DEF Uncut, Unanswered
<1>1. CASE Scan!StartThread
  <2>1. at["caller"] = "starts" /\ started < granted /\ started' = started + 1 /\ UNCHANGED <<granted, cut, outcome, failure>>
    BY <1>1 DEF Scan!StartThread, Scan!shared, Scan!frame
  <2>2. started + 1 \in 1..Len(Extra) /\ started' <= granted /\ \A i \in 1..Len(Extra) : i <= started => i <= started'
    BY <1>0, <2>1
  <2>3. at' = [at EXCEPT ![Extra[started + 1]] = "takes"] \/ at' = at
    BY <1>1 DEF Scan!StartThread
  <2>4. at'["caller"] = at["caller"] /\ \A w \in Scan!Walkers : at'[w] \in {"starts", "joins"} => at'[w] = at[w]
    BY <1>0, <2>2, <2>3
  <2>5. \A i \in 1..Len(Extra) : at'[Extra[i]] # "out" => at[Extra[i]] # "out" \/ i = started + 1
    BY <1>0, <2>2, <2>3
  <2>6. \A i \in 1..Len(Extra) : i = started + 1 => i <= started'
    BY <1>0, <2>1
  <2>7. QED
    BY <1>a, <1>c, <2>1, <2>2, <2>4, <2>5, <2>6 DEF Attended, Unharmed
<1>2. CASE Scan!AllStarted
  <2>1. /\ at["caller"] = "starts" /\ UNCHANGED <<granted, started, cut, outcome, failure>>
        /\ at' = [at EXCEPT !["caller"] = "takes"]
    BY <1>2 DEF Scan!AllStarted, Scan!shared, Scan!frame
  <2>2. at'["caller"] = "takes" /\ \A w \in Scan!Walkers : w # "caller" => at'[w] = at[w]
    BY <1>0, <2>1
  <2>3. QED
    BY <1>0, <1>a, <1>c, <2>1, <2>2 DEF Attended, Unharmed
<1>3. CASE Scan!Join
  <2>1. /\ at["caller"] = "joins" /\ UNCHANGED <<cut, failure>> /\ outcome' = IF failure THEN "raised" ELSE "result"
        /\ at' = [at EXCEPT !["caller"] = "out"]
        /\ \A i \in 1..Len(Extra) : at[Extra[i]] = "out"
    BY <1>3, ScanAssumption DEF Scan!Join, Scan!shared
  <2>2. at'["caller"] = "out" /\ \A w \in Scan!Walkers : w # "caller" => at'[w] = at[w]
    BY <1>0, <2>1
  <2>3. ~ Unanswered'
    BY <2>1, Zenon DEF Unanswered
  <2>4. QED
    BY <1>0, <1>a, <1>c, <2>1, <2>2, <2>3 DEF Attended, Unharmed
<1>4. ASSUME NEW w \in Scan!Walkers, Scan!Take(w) \/ Scan!Done(w) PROVE Attended'
  <2>1. at[w] # "out" /\ UNCHANGED <<granted, started, cut, outcome, failure>>
    BY <1>4, Zenon DEF Scan!Take, Scan!Done, Scan!frame
  <2>2. /\ \A v \in Scan!Walkers : v # w => at'[v] = at[v]
        /\ at'[w] \in {"joins", "takes", "lists", "out"}
        /\ at'[w] = "out" => w # "caller"
        /\ at'[w] = "joins" => w = "caller"
    <3>1. CASE Scan!Take(w)
      BY <1>0, <3>1 DEF Scan!Take
    <3>2. CASE Scan!Done(w)
      <4>1. \E x \in {"joins", "takes", "out"} : at' = [at EXCEPT ![w] = x] /\ (x = "out" => w # "caller") /\ (x = "joins" => w = "caller")
        BY <3>2, Zenon DEF Scan!Done
      <4>2. QED
        BY <1>0, <4>1
    <3>3. QED
      BY <1>4, <3>1, <3>2
  <2>3. QED
    BY <1>0, <1>a, <1>c, <2>1, <2>2 DEF Attended, Unharmed
<1>5. ASSUME NEW w \in Scan!Walkers, Scan!List(w) PROVE Attended'
  <2>1. at[w] = "lists" /\ UNCHANGED <<granted, started, cut, outcome>> /\ (failure' = failure \/ failure')
    BY <1>5 DEF Scan!List, Scan!frame
  <2>2. /\ \A v \in Scan!Walkers : v # w => at'[v] = at[v]
        /\ at'[w] = "ends"
    BY <1>0, <1>5 DEF Scan!List
  <2>3. outcome # "result"
    BY <1>b, <2>1
  <2>4. QED
    BY <1>0, <1>a, <1>c, <2>1, <2>2, <2>3 DEF Attended, Unharmed
<1>6. CASE Scan!TimeoutInside
  <2>1. /\ at["caller"] = "lists" /\ ~ Uncut' /\ failure' /\ UNCHANGED outcome
        /\ at' = [at EXCEPT !["caller"] = "ends"]
    BY <1>6, Zenon DEF Scan!TimeoutInside, Uncut
  <2>2. outcome # "result"
    BY <1>0, <1>b, <2>1
  <2>3. at'["caller"] = "ends" /\ \A w \in Scan!Walkers : w # "caller" => at'[w] = at[w]
    BY <1>0, <2>1
  <2>4. QED
    BY <1>0, <1>a, <1>c, <2>1, <2>2, <2>3 DEF Attended, Unharmed
<1>7. CASE Scan!TimeoutOutside
  <2>1. /\ cut' = at["caller"] /\ outcome' = "raised"
        /\ at' = [at EXCEPT !["caller"] = "out"]
    BY <1>7, Zenon DEF Scan!TimeoutOutside
  <2>2. at'["caller"] = "out" /\ \A w \in Scan!Walkers : w # "caller" => at'[w] = at[w]
    BY <1>0, <2>1
  <2>3. ~ Uncut'
    <3>1. at["caller"] \in Places
      BY <1>0
    <3>2. QED
      BY <2>1, <3>1, Zenon DEF Places, Uncut
  <2>4. QED
    BY <1>0, <1>a, <2>1, <2>2, <2>3 DEF Attended, Unharmed
<1>8. QED
  BY <1>1, <1>2, <1>3, <1>4, <1>5, <1>6, <1>7 DEF Scan!Next, Scan!Caller, Scan!Walk

(* Who may have something to do is counted.                                *)
LEMMA BusyCounted ==
  /\ IsFiniteSet(Busy) /\ Cardinality(Busy) \in Nat
  /\ Cardinality(Busy) = 0 => Busy = {}
  /\ \A w \in Scan!Walkers : /\ w \notin Busy => Cardinality(Busy \cup {w}) = Cardinality(Busy) + 1
                             /\ w \in Busy => Cardinality(Busy \ {w}) = Cardinality(Busy) - 1 /\ Cardinality(Busy) > 0
<1>1. IsFiniteSet(Busy) /\ Cardinality(Busy) \in Nat
  BY WalkersAre, FS_Subset, FS_CardinalityType DEF Busy
<1>2. Cardinality(Busy) = 0 <=> Busy = {}
  BY <1>1, FS_EmptySet
<1>3. ASSUME NEW w \in Scan!Walkers
      PROVE  /\ w \notin Busy => Cardinality(Busy \cup {w}) = Cardinality(Busy) + 1
             /\ w \in Busy => Cardinality(Busy \ {w}) = Cardinality(Busy) - 1
  BY <1>1, FS_AddElement, FS_RemoveElement
<1>4. \A w \in Scan!Walkers : w \in Busy => Cardinality(Busy) > 0
  BY <1>1, <1>2
<1>5. QED
  BY <1>1, <1>2, <1>3, <1>4

(* Steps of the caller on its own lists leave the work as it is.           *)
LEMMA SameWork ==
  ASSUME ScanTypes, GoesWell, faulty' = faulty, dir' = dir, UNCHANGED Scan!shared,
         \A w \in Scan!Walkers : at'[w] \in {"lists", "ends"} \/ at[w] \in {"lists", "ends"} => at'[w] = at[w],
         at'["caller"] \in {"joins", "out"} => undone <= 0
  PROVE  GoesWell'
<1>1. UNCHANGED <<stack, seen, found, errors, undone>>
  BY DEF Scan!shared
<1>2. \A w \in Scan!Walkers : (at'[w] = "lists" <=> at[w] = "lists") /\ (at'[w] = "ends" <=> at[w] = "ends")
  OBVIOUS
<1>3. ToList' = ToList /\ Busy' = Busy
  <2>1. {v \in Scan!Walkers : at'[v] = "lists"} = {v \in Scan!Walkers : at[v] = "lists"}
    BY <1>2
  <2>2. {w \in Scan!Walkers : at'[w] \in {"lists", "ends"}} = {w \in Scan!Walkers : at[w] \in {"lists", "ends"}}
    BY <1>2
  <2>3. QED
    BY <1>1, <2>1, <2>2 DEF ToList, Busy
<1>4. WasListed' = WasListed
  BY <1>1, <1>3 DEF WasListed
<1>5. ListedOnce'
  BY <1>1, <1>2 DEF GoesWell, ListedOnce
<1>6. Published'
  BY <1>1, <1>2, <1>4, SameTree DEF GoesWell, Published
<1>7. CountedDown'
  BY <1>1, <1>3 DEF GoesWell, CountedDown
<1>8. QED
  BY <1>5, <1>6, <1>7 DEF GoesWell

(* So do taking a directory, which is to be listed still, and leaving.     *)
LEMMA TakeKeeps ==
  ASSUME ScanTypes, GoesWell, Unharmed, faulty' = faulty, NEW w \in Scan!Walkers, Scan!Take(w)
  PROVE  GoesWell'
<1>0. /\ stack \in Seq(Directories) /\ Len(stack) \in Nat /\ undone \in Int
      /\ at \in [Scan!Walkers -> Places] /\ dir \in [Scan!Walkers -> Directories]
  BY DEF ScanTypes
<1>1. at[w] = "takes" /\ UNCHANGED <<seen, found, errors, undone, failure>>
  BY DEF Scan!Take
<1>2. CASE Scan!Over
  <2>1. at' = [at EXCEPT ![w] = IF w = "caller" THEN "joins" ELSE "out"] /\ UNCHANGED <<stack, dir>>
    BY <1>2 DEF Scan!Take
  <2>2. undone <= 0
    BY <1>2 DEF Scan!Over, Unharmed
  <2>3. \A v \in Scan!Walkers : at'[v] \in {"lists", "ends"} \/ at[v] \in {"lists", "ends"} => at'[v] = at[v]
    BY <1>0, <1>1, <2>1
  <2>4. QED
    BY <1>1, <2>1, <2>2, <2>3, SameWork DEF Scan!shared
<1>3. CASE ~ Scan!Over
  <2> DEFINE d == Scan!Last(stack)
  <2>1. /\ stack # <<>> /\ stack' = Scan!Front(stack) /\ dir' = [dir EXCEPT ![w] = d]
        /\ at' = [at EXCEPT ![w] = "lists"]
    BY <1>3 DEF Scan!Take
  <2>2. /\ d \in Scan!ToSet(stack) /\ Len(stack') = Len(stack) - 1 /\ Scan!IsInjective(stack')
        /\ Scan!ToSet(stack') = Scan!ToSet(stack) \ {d}
    BY <1>0, <2>1, TopTaken DEF GoesWell, ListedOnce
  <2> HIDE DEF d
  <2>3. /\ at'[w] = "lists" /\ dir'[w] = d
        /\ \A v \in Scan!Walkers : v # w => at'[v] = at[v] /\ dir'[v] = dir[v]
    BY <1>0, <2>1
  <2>4. ToList' = ToList
    <3>1. {dir'[v] : v \in {u \in Scan!Walkers : at'[u] = "lists"}} = {dir[v] : v \in {u \in Scan!Walkers : at[u] = "lists"}} \cup {d}
      BY <1>1, <2>3
    <3>2. QED
      BY <2>2, <3>1 DEF ToList
  <2>5. Busy' = Busy \cup {w} /\ w \notin Busy
    BY <1>1, <2>3 DEF Busy
  <2>6. ListedOnce'
    <3>1. \A v \in Scan!Walkers : at'[v] = "lists" => dir'[v] \in seen /\ dir'[v] \notin Scan!ToSet(stack')
      BY <2>2, <2>3 DEF GoesWell, ListedOnce
    <3>2. ASSUME NEW u \in Scan!Walkers, NEW v \in Scan!Walkers, at'[u] = "lists", at'[v] = "lists", dir'[u] = dir'[v]
          PROVE  u = v
      BY <2>2, <2>3, <3>2 DEF GoesWell, ListedOnce
    <3>3. Scan!ToSet(stack') \subseteq seen'
      BY <1>1, <2>2 DEF GoesWell, ListedOnce
    <3>4. QED
      BY <1>1, <2>2, <3>1, <3>2, <3>3 DEF ListedOnce
  <2>7. Published'
    <3>1. WasListed' = WasListed
      BY <1>1, <2>4 DEF WasListed
    <3>2. \A v \in Scan!Walkers : at'[v] = "ends" => ~ Scan!Fails(dir'[v], "raises")
      BY <2>3 DEF GoesWell, Published
    <3>3. QED
      BY <1>1, <3>1, <3>2, SameTree DEF GoesWell, Published
  <2>8. CountedDown'
    <3>1. Cardinality(Busy') = Cardinality(Busy) + 1 /\ Cardinality(Busy) \in Nat
      BY <2>5, BusyCounted
    <3>2. undone' = Len(stack') + Cardinality(Busy')
      BY <1>0, <1>1, <2>2, <3>1 DEF GoesWell, CountedDown
    <3>3. ~ (undone <= 0)
      BY <1>3 DEF Scan!Over
    <3>4. at'["caller"] \notin {"joins", "out"}
      BY <2>3, <3>3, WalkersAre DEF GoesWell, CountedDown
    <3>5. QED
      BY <3>2, <3>4 DEF CountedDown
  <2>9. QED
    BY <2>6, <2>7, <2>8 DEF GoesWell
<1>4. QED
  BY <1>2, <1>3

(* A directory that was listed adds what it leads to and is in the result. *)
LEMMA ListKeeps ==
  ASSUME ScanTypes, GoesWell, ~ failure', faulty' = faulty, NEW w \in Scan!Walkers, Scan!List(w)
  PROVE  GoesWell'
<1> DEFINE d == dir[w]
           T == (Links[d] \cap Directories) \ seen
           new == Scan!SetToSeq(T)
<1>0. /\ stack \in Seq(Directories) /\ found \in Seq(Directories) /\ seen \in SUBSET Directories
      /\ Len(stack) \in Nat /\ undone \in Int /\ errors \in Nat
      /\ at \in [Scan!Walkers -> Places] /\ dir \in [Scan!Walkers -> Directories] /\ d \in Directories
  BY DEF ScanTypes
<1>1. /\ at[w] = "lists" /\ dir' = dir /\ at' = [at EXCEPT ![w] = "ends"]
      /\ \/ Scan!Fails(d, "unreadable") /\ errors' = errors + 1 /\ UNCHANGED <<stack, seen, found, undone>>
         \/ /\ ~ Scan!Fails(d, "unreadable") /\ ~ Scan!Fails(d, "raises")
            /\ found' = Append(found, d) /\ stack' = stack \o new /\ seen' = seen \cup Scan!ToSet(new)
            /\ undone' = undone + Len(new) /\ errors' = errors
  BY DEF Scan!List, Scan!Pushed
<1>2. T \in SUBSET Directories /\ T \cap seen = {}
  OBVIOUS
<1>3. new \in Seq(Directories) /\ Scan!IsInjective(new) /\ Scan!ToSet(new) = T /\ Len(new) \in Nat
  BY <1>2, Entries
<1>4. Links[d] \cap Directories \subseteq seen \cup T
  OBVIOUS
<1>5. T \subseteq Links[d] \cap Directories
  OBVIOUS
<1> HIDE DEF d, T, new
<1>6. /\ at'[w] = "ends" /\ \A v \in Scan!Walkers : v # w => at'[v] = at[v]
      /\ d = dir[w] /\ d \in seen /\ d \notin Scan!ToSet(stack)
      /\ \A v \in Scan!Walkers : at'[v] = "lists" => at[v] = "lists" /\ v # w /\ dir[v] # d
  BY <1>0, <1>1 DEF GoesWell, ListedOnce, d
<1>7. /\ Scan!ToSet(stack) \subseteq seen /\ Scan!IsInjective(stack) /\ Scan!IsInjective(found)
      /\ \A v \in Scan!Walkers : at[v] = "lists" => dir[v] \in seen /\ dir[v] \notin Scan!ToSet(stack)
  BY DEF GoesWell, ListedOnce, Published
<1>8. {dir[v] : v \in {u \in Scan!Walkers : at'[u] = "lists"}} = {dir[v] : v \in {u \in Scan!Walkers : at[u] = "lists"}} \ {d}
  BY <1>0, <1>1, <1>6
<1>9. d \in ToList /\ d \notin WasListed
  BY <1>1, <1>6 DEF ToList, WasListed
<1>10. Busy' = Busy
  BY <1>1, <1>6 DEF Busy
<1>11. ASSUME at'["caller"] \in {"joins", "out"} PROVE FALSE
  <2>1. undone <= 0
    BY <1>6, <1>11, WalkersAre DEF GoesWell, CountedDown
  <2>2. w \in Busy /\ Cardinality(Busy) > 0 /\ Cardinality(Busy) \in Nat
    BY <1>1, BusyCounted DEF Busy
  <2>3. QED
    BY <1>0, <2>1, <2>2 DEF GoesWell, CountedDown
<1>12. ~ Scan!Fails(d, "raises")
  BY <1>1 DEF Scan!Fails
<1>13. \A v \in Scan!Walkers : at'[v] = "ends" => ~ Scan!Fails(dir'[v], "raises")
  BY <1>1, <1>6, <1>12 DEF GoesWell, Published
<1>14. CASE Scan!Fails(d, "unreadable") /\ errors' = errors + 1 /\ UNCHANGED <<stack, seen, found, undone>>
  <2>1. WasListed' = WasListed \cup {d}
    BY <1>1, <1>6, <1>8, <1>14 DEF WasListed, ToList
  <2>2. ListedOnce'
    BY <1>1, <1>6, <1>7, <1>14 DEF ListedOnce, GoesWell
  <2>3. Published'
    <3>1. Scan!ToSet(found) = {e \in WasListed' : ~ Scan!Fails(e, "unreadable")}
      BY <1>14, <2>1 DEF GoesWell, Published
    <3>2. \A e \in WasListed : ~ Scan!Fails(e, "unreadable")
      BY <1>9, <1>14 DEF Scan!Fails
    <3>3. errors' = 1 /\ \E e \in WasListed' : Scan!Fails(e, "unreadable")
      BY <1>0, <1>14, <2>1, <3>2 DEF GoesWell, Published
    <3>4. \A e \in WasListed' : ~ Scan!Fails(e, "raises") /\ (Scan!Fails(e, "unreadable") \/ Links[e] \cap Directories \subseteq seen)
      BY <1>12, <1>14, <2>1 DEF GoesWell, Published
    <3>5. QED
      BY <1>1, <1>7, <1>13, <1>14, <3>1, <3>3, <3>4, SameTree DEF GoesWell, Published
  <2>4. CountedDown'
    BY <1>10, <1>11, <1>14 DEF GoesWell, CountedDown
  <2>5. QED
    BY <2>2, <2>3, <2>4 DEF GoesWell
<1>15. CASE /\ ~ Scan!Fails(d, "unreadable")
            /\ found' = Append(found, d) /\ stack' = stack \o new /\ seen' = seen \cup Scan!ToSet(new)
            /\ undone' = undone + Len(new) /\ errors' = errors
  <2>0. seen' = seen \cup T
    BY <1>3, <1>15
  <2>1. /\ Len(stack') = Len(stack) + Len(new) /\ Scan!IsInjective(stack')
        /\ Scan!ToSet(stack') = Scan!ToSet(stack) \cup T
    <3>1. Scan!ToSet(stack) \cap Scan!ToSet(new) = {}
      BY <1>2, <1>3, <1>7
    <3>2. QED
      BY <1>0, <1>3, <1>7, <1>15, <3>1, Pushes
  <2>2. WasListed' = WasListed \cup {d}
    <3>1. ToList' = (ToList \ {d}) \cup T
      <4>1. ToList' = Scan!ToSet(stack') \cup ({dir[v] : v \in {u \in Scan!Walkers : at[u] = "lists"}} \ {d})
        BY <1>1, <1>8 DEF ToList
      <4>2. QED
        BY <1>6, <2>1, <4>1 DEF ToList
    <3>2. QED
      BY <1>2, <1>6, <1>9, <2>0, <3>1 DEF WasListed
  <2>3. ListedOnce'
    <3>1. Scan!ToSet(stack') \subseteq seen'
      BY <1>7, <2>0, <2>1
    <3>2. \A v \in Scan!Walkers : at'[v] = "lists" => dir'[v] \in seen' /\ dir'[v] \notin Scan!ToSet(stack')
      BY <1>1, <1>2, <1>6, <1>7, <2>0, <2>1
    <3>3. \A u, v \in Scan!Walkers : at'[u] = "lists" /\ at'[v] = "lists" /\ dir'[u] = dir'[v] => u = v
      BY <1>1, <1>6 DEF GoesWell, ListedOnce
    <3>4. QED
      BY <2>1, <3>1, <3>2, <3>3 DEF ListedOnce
  <2>4. Published'
    <3>0. Scan!ToSet(found) = {e \in WasListed : ~ Scan!Fails(e, "unreadable")}
      BY DEF GoesWell, Published
    <3>1. Scan!IsInjective(found') /\ Scan!ToSet(found') = Scan!ToSet(found) \cup {d}
      <4>1. d \notin Scan!ToSet(found)
        BY <1>9, <3>0
      <4>2. QED
        BY <1>0, <1>7, <1>15, <4>1, Appended DEF d
    <3>2. Scan!ToSet(found') = {e \in WasListed' : ~ Scan!Fails(e, "unreadable")}
      BY <1>15, <2>2, <3>0, <3>1
    <3>3. (\E e \in WasListed' : Scan!Fails(e, "unreadable")) <=> (\E e \in WasListed : Scan!Fails(e, "unreadable"))
      BY <1>15, <2>2
    <3>4. \A e \in WasListed' : ~ Scan!Fails(e, "raises") /\ (Scan!Fails(e, "unreadable") \/ Links[e] \cap Directories \subseteq seen')
      BY <1>4, <1>12, <2>0, <2>2 DEF GoesWell, Published
    <3>5. seen' \subseteq Scan!Reached
      <4>1. seen \subseteq Scan!Reached /\ d \in Scan!Reached
        BY <1>6 DEF GoesWell, Published
      <4>2. Links[d] \cap Directories \subseteq Spread(Scan!Reached)
        BY <1>15, <4>1 DEF Spread
      <4>3. QED
        BY <1>5, <2>0, <4>1, <4>2, ReachedAre
    <3>6. Root \in seen'
      BY <2>0 DEF GoesWell, Published
    <3>7. errors' = IF \E e \in WasListed' : Scan!Fails(e, "unreadable") THEN 1 ELSE 0
      BY <1>15, <3>3 DEF GoesWell, Published
    <3>8. QED
      BY <1>13, <3>1, <3>2, <3>4, <3>5, <3>6, <3>7, SameTree DEF Published
  <2>5. CountedDown'
    <3>1. Cardinality(Busy) \in Nat
      BY BusyCounted
    <3>2. undone' = Len(stack') + Cardinality(Busy')
      BY <1>0, <1>3, <1>10, <1>15, <2>1, <3>1 DEF GoesWell, CountedDown
    <3>3. QED
      BY <1>11, <3>2 DEF CountedDown
  <2>6. QED
    BY <2>3, <2>4, <2>5 DEF GoesWell
<1>16. QED
  BY <1>1, <1>14, <1>15

(* A directory that is done is counted down.                               *)
LEMMA DoneKeeps ==
  ASSUME ScanTypes, GoesWell, Unharmed, faulty' = faulty, NEW w \in Scan!Walkers, Scan!Done(w)
  PROVE  GoesWell'
<1>0. /\ Len(stack) \in Nat /\ undone \in Int /\ at \in [Scan!Walkers -> Places]
  BY DEF ScanTypes
<1>1. /\ at[w] = "ends" /\ undone' = undone - 1
      /\ at'[w] = "takes" /\ \A v \in Scan!Walkers : v # w => at'[v] = at[v]
      /\ UNCHANGED <<stack, seen, found, errors, dir>>
  <2>1. /\ at[w] = "ends" /\ undone' = undone - 1 /\ UNCHANGED <<stack, seen, found, errors, dir>>
    BY Zenon DEF Scan!Done
  <2>2. ~ Scan!Fails(dir[w], "raises")
    BY <2>1 DEF GoesWell, Published
  <2>3. at' = [at EXCEPT ![w] = "takes"]
    BY <2>2, Zenon DEF Scan!Done, Unharmed, Uncut
  <2>4. QED
    BY <1>0, <2>1, <2>3
<1>3. ToList' = ToList
  <2>1. {v \in Scan!Walkers : at'[v] = "lists"} = {v \in Scan!Walkers : at[v] = "lists"}
    BY <1>1
  <2>2. QED
    BY <1>1, <2>1 DEF ToList
<1>4. WasListed' = WasListed
  BY <1>1, <1>3 DEF WasListed
<1>5. Busy' = Busy \ {w} /\ w \in Busy
  BY <1>1 DEF Busy
<1>6. ListedOnce'
  BY <1>1 DEF GoesWell, ListedOnce
<1>7. Published'
  BY <1>1, <1>4, SameTree DEF GoesWell, Published
<1>8. CountedDown'
  <2>1. Cardinality(Busy') = Cardinality(Busy) - 1 /\ Cardinality(Busy) \in Nat
    BY <1>5, BusyCounted
  <2>2. undone' = Len(stack') + Cardinality(Busy')
    BY <1>0, <1>1, <2>1 DEF GoesWell, CountedDown
  <2>3. at'["caller"] \in {"joins", "out"} => at["caller"] \in {"joins", "out"}
    BY <1>0, <1>1, WalkersAre
  <2>4. QED
    BY <1>0, <1>1, <2>2, <2>3 DEF GoesWell, CountedDown
<1>9. QED
  BY <1>6, <1>7, <1>8 DEF GoesWell

(* Every step keeps the invariant of the walk.                             *)
LEMMA ScanStep == ScanInv /\ [Scan!Next]_(Scan!scanVars) => ScanInv'
<1> SUFFICES ASSUME ScanInv, [Scan!Next]_(Scan!scanVars) PROVE ScanInv'
  OBVIOUS
<1>0. ScanTypes /\ Attended /\ (Unharmed => GoesWell)
  BY DEF ScanInv
<1>1. CASE UNCHANGED Scan!scanVars
  <2>1. UNCHANGED <<faulty, granted, started, stack, seen, found, errors, undone, failure, at, dir, cut, outcome>>
    BY <1>1 DEF Scan!scanVars
  <2>2. Unharmed' = Unharmed /\ Uncut' = Uncut /\ Unanswered' = Unanswered
    BY <2>1, Zenon DEF Unharmed, Uncut, Unanswered
  <2>3. ScanTypes' /\ Attended'
    BY <1>0, <2>1, <2>2 DEF ScanTypes, Attended
  <2>4. ASSUME GoesWell PROVE GoesWell'
    <3>1. at'["caller"] \in {"joins", "out"} => undone <= 0
      BY <2>1, <2>4 DEF GoesWell, CountedDown
    <3>2. QED
      BY <1>0, <2>1, <2>4, <3>1, SameWork DEF Scan!shared
  <2>5. QED
    BY <1>0, <2>2, <2>3, <2>4 DEF ScanInv
<1>2. CASE Scan!Next
  <2>1. ScanTypes' /\ faulty' = faulty /\ Attended'
    BY <1>0, <1>2, ScanTypesStep, AttendedStep
  <2>2. SUFFICES ASSUME Unharmed' PROVE GoesWell'
    BY <2>1 DEF ScanInv
  <2>3. Uncut' /\ ~ failure'
    BY <2>2 DEF Unharmed
  <2>4. /\ at \in [Scan!Walkers -> Places] /\ "caller" \in Scan!Walkers /\ started \in 0..Len(Extra) /\ Len(Extra) \in Nat
        /\ granted \in 0..Len(Extra)
        /\ \A i \in 1..Len(Extra) : Extra[i] \in Scan!Walkers /\ Extra[i] # "caller"
    BY <1>0, WalkersAre, ScanAssumption DEF ScanTypes
  <2>5. CASE Scan!StartThread
    <3>1. /\ UNCHANGED <<cut, dir, failure>> /\ UNCHANGED Scan!shared
          /\ started < granted /\ at["caller"] = "starts"
          /\ at' = at \/ at' = [at EXCEPT ![Extra[started + 1]] = "takes"]
      BY <2>5 DEF Scan!StartThread, Scan!frame, Scan!shared
    <3>2. Unharmed /\ Uncut
      BY <2>3, <3>1, Zenon DEF Unharmed, Uncut
    <3>3. started + 1 \in 1..Len(Extra) /\ ~ (started + 1 <= started)
      BY <2>4, <3>1
    <3>4. at[Extra[started + 1]] = "out"
      BY <1>0, <3>2, <3>3 DEF Attended
    <3>5. \A w \in Scan!Walkers : at'[w] \in {"lists", "ends"} \/ at[w] \in {"lists", "ends"} => at'[w] = at[w]
      BY <2>4, <3>1, <3>3, <3>4
    <3>6. at'["caller"] = "starts"
      BY <2>4, <3>1, <3>3
    <3>7. QED
      BY <1>0, <2>1, <3>1, <3>2, <3>5, <3>6, SameWork
  <2>6. CASE Scan!AllStarted
    <3>1. /\ UNCHANGED <<cut, dir, failure>> /\ UNCHANGED Scan!shared
          /\ at["caller"] = "starts" /\ at' = [at EXCEPT !["caller"] = "takes"]
      BY <2>6 DEF Scan!AllStarted, Scan!frame, Scan!shared
    <3>2. Unharmed
      BY <2>3, <3>1, Zenon DEF Unharmed, Uncut
    <3>3. \A w \in Scan!Walkers : at'[w] \in {"lists", "ends"} \/ at[w] \in {"lists", "ends"} => at'[w] = at[w]
      BY <2>4, <3>1
    <3>4. at'["caller"] = "takes"
      BY <2>4, <3>1
    <3>5. QED
      BY <1>0, <2>1, <3>1, <3>2, <3>3, <3>4, SameWork
  <2>7. CASE Scan!Join
    <3>1. /\ UNCHANGED <<cut, dir, failure>> /\ UNCHANGED Scan!shared
          /\ at["caller"] = "joins" /\ at' = [at EXCEPT !["caller"] = "out"]
      BY <2>7 DEF Scan!Join, Scan!shared
    <3>2. Unharmed
      BY <2>3, <3>1, Zenon DEF Unharmed, Uncut
    <3>3. \A w \in Scan!Walkers : at'[w] \in {"lists", "ends"} \/ at[w] \in {"lists", "ends"} => at'[w] = at[w]
      BY <2>4, <3>1
    <3>4. undone <= 0
      BY <1>0, <3>1, <3>2 DEF GoesWell, CountedDown
    <3>5. QED
      BY <1>0, <2>1, <3>1, <3>2, <3>3, <3>4, SameWork
  <2>8. ASSUME NEW w \in Scan!Walkers, Scan!Take(w) PROVE GoesWell'
    <3>1. UNCHANGED <<cut, failure>>
      BY <2>8 DEF Scan!Take, Scan!frame
    <3>2. Unharmed
      BY <2>3, <3>1, Zenon DEF Unharmed, Uncut
    <3>3. QED
      BY <1>0, <2>1, <2>8, <3>2, TakeKeeps
  <2>9. ASSUME NEW w \in Scan!Walkers, Scan!List(w) PROVE GoesWell'
    <3>1. cut' = cut /\ (failure' = failure \/ failure')
      BY <2>9 DEF Scan!List, Scan!frame
    <3>2. ~ failure
      BY <2>3, <3>1
    <3>3. Uncut
      BY <2>3, <3>1, Zenon DEF Uncut
    <3>4. QED
      BY <1>0, <2>1, <2>3, <2>9, <3>2, <3>3, ListKeeps DEF Unharmed
  <2>10. ASSUME NEW w \in Scan!Walkers, Scan!Done(w) PROVE GoesWell'
    <3>1. UNCHANGED <<cut, failure>>
      BY <2>10, Zenon DEF Scan!Done, Scan!frame
    <3>2. Unharmed
      BY <2>3, <3>1, Zenon DEF Unharmed, Uncut
    <3>3. QED
      BY <1>0, <2>1, <2>10, <3>2, DoneKeeps
  <2>11. CASE Scan!TimeoutInside
    BY <2>3, <2>11, Zenon DEF Scan!TimeoutInside
  <2>12. CASE Scan!TimeoutOutside
    <3>1. at["caller"] \in Places
      BY <2>4
    <3>2. cut' = at["caller"]
      BY <2>12, Zenon DEF Scan!TimeoutOutside
    <3>3. QED
      BY <2>3, <3>1, <3>2, Zenon DEF Uncut, Places
  <2>13. QED
    BY <1>2, <2>5, <2>6, <2>7, <2>8, <2>9, <2>10, <2>11, <2>12 DEF Scan!Next, Scan!Caller, Scan!Walk
<1>3. QED
  BY <1>1, <1>2

(* A step of the composition is one of the walk, or leaves it alone.       *)
LEMMA ScanOnly == [Next]_vars => [Scan!Next]_(Scan!scanVars)
  BY DEF Next, vars, LedgerNext, BrokerNext, PoolNext, ServiceNext, QuotaNext, RegistryNext, JobsNext, ScanNext,
         InlineNext, scanVars, Scan!scanVars

(* However the threads of a walk take turns, a walk that returns has every *)
(* module of the serial walk once and as many errors, an unexpected error  *)
(* is raised, and no more threads walk than the budget gave, for any       *)
(* finite tree, any links in it and any threads (_scan_bsl_tree_parallel). *)
THEOREM WalksAreSerial == Spec => []ScanIsSerial
<1>1. Init => ScanInv
  BY ScanInit DEF Init
<1>2. ScanInv /\ [Next]_vars => ScanInv'
  BY ScanStep, ScanOnly
<1>3. ScanInv => ScanIsSerial
  BY ScanSafe
<1>4. QED
  BY <1>1, <1>2, <1>3, PTL DEF Spec

-------------------------------------------------------------------------------
(* The proofs of the scan budget, where stores may be seen late. They are  *)
(* of another instance of its module, as are those of its kin below: with  *)
(* every definition expanded the two say the same.                         *)
LateProofs == INSTANCE ScanLedgerProofs WITH Buffered <- TRUE, Walks <- Ledgers["late"].walks,
                InlineWalks <- Ledgers["late"].inline, PoolSlots <- Ledgers["late"].slots,
                Want <- Ledgers["late"].want, Total <- Ledgers["late"].total

-------------------------------------------------------------------------------
(* The budget of the worker pool.                                          *)

(* What each operation has of the budget.                                  *)
Taken == [o \in Operations |-> IF reserved[o] > 1 THEN reserved[o] ELSE 0]

(* The budget is what is taken; processes run on what their operation has, *)
(* and an operation that has not begun or has ended has nothing.           *)
Budgeted ==
  /\ budget = LateProofs!Sum(Taken, Operations)
  /\ budget <= Pool!Max(Limits)
  /\ \A o \in Operations :
       /\ processes[o] <= reserved[o] \/ processes[o] = 0
       /\ op[o] \in {"new", "done", "failed"} => reserved[o] = 1
       /\ op[o] \in {"new", "sequential", "done", "failed"} => processes[o] = 0

(* The inductive invariant of the pool.                                    *)
PoolInv == PoolTypes /\ Budgeted /\ \A o \in Operations : InOrder(o)

(* The sum in the property is that of what operations have.                *)
LEMMA TakenSummed ==
  Pool!MapThenSumSet(LAMBDA o : IF reserved[o] > 1 THEN reserved[o] ELSE 0, Operations) = LateProofs!Sum(Taken, Operations)
<1> DEFINE e(o) == IF reserved[o] > 1 THEN reserved[o] ELSE 0
           f == Taken
           E(g) == g = [s \in SUBSET Operations |->
                          IF s = {} THEN 0 ELSE e(LateProofs!Pick(s)) + g[s \ {LateProofs!Pick(s)}]]
<1>1. Pool!MapThenSumSet(e, Operations) = (CHOOSE g : E(g))[Operations]
  BY Zenon DEF Pool!MapThenSumSet, Pool!MapThenFoldSet, LateProofs!Pick
<1>2. \A o \in Operations : f[o] = e(o)
  BY DEF Taken
<1> HIDE DEF f, e
<1>3. ASSUME NEW s \in SUBSET Operations, s # {} PROVE f[LateProofs!Pick(s)] = e(LateProofs!Pick(s))
  BY <1>2, <1>3, LateProofs!PickIn
<1>4. ASSUME NEW g PROVE LateProofs!AddsUp(f, Operations, g) <=> E(g)
  BY <1>3 DEF LateProofs!AddsUp
<1> HIDE DEF E
<1>5. (CHOOSE g : LateProofs!AddsUp(f, Operations, g)) = (CHOOSE g : E(g))
  BY <1>4, Zenon
<1>6. Pool!MapThenSumSet(e, Operations) = LateProofs!Sum(f, Operations)
  BY <1>1, <1>5 DEF LateProofs!Sum
<1>7. QED
  BY <1>6 DEF e, f

(* The largest limit.                                                      *)
LEMMA LargestLimit == Pool!Max(Limits) \in Nat /\ \A l \in Limits : l <= Pool!Max(Limits)
<1>1. Pool!Max(Limits) = LateProofs!Max(Limits)
  BY Zenon DEF Pool!Max, LateProofs!Max
<1>2. LateProofs!IsFiniteSet(Limits)
  BY PoolAssumption DEF LateProofs!IsFiniteSet, IsFiniteSet
<1>3. Limits \subseteq Int /\ Limits # {} => LateProofs!Max(Limits) \in Limits /\ \A l \in Limits : LateProofs!Max(Limits) >= l
  BY <1>2, LateProofs!GreatestOf
<1>4. Limits \subseteq Nat /\ Limits # {}
  BY PoolAssumption
<1>5. LateProofs!Max(Limits) \in Limits /\ \A l \in Limits : LateProofs!Max(Limits) >= l
  BY <1>3, <1>4
<1>6. QED
  BY <1>1, <1>4, <1>5

(* The pool starts with its invariant.                                     *)
LEMMA PoolInit == Pool!Init => PoolInv
<1> SUFFICES ASSUME Pool!Init PROVE PoolInv
  OBVIOUS
<1>1. PoolTypes
  BY PoolAssumption DEF Pool!Init, PoolTypes, Pool!PoolTypeOK, Pool!Working
<1>2. Budgeted
  <2>1. \A o \in Operations : Taken[o] = 0
    BY DEF Pool!Init, Taken
  <2>2. LateProofs!IsFiniteSet(Operations)
    BY PoolAssumption DEF LateProofs!IsFiniteSet, IsFiniteSet
  <2>3. LateProofs!Sum(Taken, Operations) = 0
    BY <2>1, <2>2, LateProofs!SumZero
  <2>4. QED
    BY <2>3, LargestLimit DEF Budgeted, Pool!Init
<1>3. \A o \in Operations : InOrder(o)
  BY DEF InOrder, InPlace, Pool!Init
<1>4. QED
  BY <1>1, <1>2, <1>3 DEF PoolInv

(* What an operation has is a number, and the sum changes by what it takes *)
(* or gives back.                                                          *)
LEMMA TakenChange ==
  ASSUME PoolTypes, PoolTypes', NEW o \in Operations, Alone(o)
  PROVE  /\ Taken[o] \in Nat /\ Taken'[o] \in Nat /\ Taken[o] <= LateProofs!Sum(Taken, Operations)
         /\ LateProofs!Sum(Taken, Operations) \in Nat
         /\ LateProofs!Sum(Taken, Operations)' = LateProofs!Sum(Taken, Operations) - Taken[o] + Taken'[o]
<1>0. LateProofs!IsFiniteSet(Operations)
  BY PoolAssumption DEF LateProofs!IsFiniteSet, IsFiniteSet
<1>1. \A v \in Operations : Taken[v] \in Nat /\ Taken'[v] \in Nat
  BY PoolTypesAre, PoolTypesThen DEF Taken
<1>2. \A v \in Operations \ {o} : Taken[v] = Taken'[v]
  BY DEF Taken, Alone
<1>3. PICK t : t = Taken'
  OBVIOUS
<1>4. LateProofs!Sum(t, Operations) = LateProofs!Sum(Taken, Operations) - Taken[o] + t[o]
  BY <1>0, <1>1, <1>2, <1>3, LateProofs!SumChanged
<1>5. LateProofs!Sum(Taken, Operations) \in Nat /\ \A v \in Operations : Taken[v] <= LateProofs!Sum(Taken, Operations)
  BY <1>0, <1>1, LateProofs!SumNat
<1>6. QED
  BY <1>1, <1>3, <1>4, <1>5

(* Every step of the pool keeps its invariant.                             *)
LEMMA PoolStep == PoolInv /\ [Pool!Next]_(Pool!poolVars) => PoolInv'
<1> SUFFICES ASSUME PoolInv, [Pool!Next]_(Pool!poolVars) PROVE PoolInv'
  OBVIOUS
<1>1. CASE UNCHANGED Pool!poolVars
  BY <1>1 DEF PoolInv, PoolTypes, Pool!PoolTypeOK, Budgeted, Taken, InOrder, Pool!poolVars
<1>2. ASSUME NEW o \in Operations, Pool!Step(o) PROVE PoolInv'
  <2>0. PoolTypes /\ Owns(o) /\ Budgeted /\ \A v \in Operations : InOrder(v) /\ Owns(v)
    BY DEF PoolInv, Budgeted, Owns
  <2>1. PoolTypes' /\ Listed(o) /\ Alone(o)
    BY <1>2, <2>0, PoolTypesStep
  <2>2. Charged(o) /\ Owns(o)'
    BY <1>2, <2>0, ChargedStep
  <2>3. \A v \in Operations : InOrder(v)'
    <3>1. InOrder(o)'
      BY <2>0, <2>1, OrderStep
    <3>2. \A v \in Operations \ {o} : InOrder(v)'
      BY <2>0, <2>1 DEF InOrder, Alone
    <3>3. QED
      BY <3>1, <3>2
  <2>4. \A v \in Operations : Owns(v)'
    BY <2>0, <2>1, <2>2 DEF Owns, Alone
  <2>5. budget' = LateProofs!Sum(Taken, Operations)' /\ budget' <= Pool!Max(Limits)
    <3>1. /\ Taken[o] \in Nat /\ Taken'[o] \in Nat /\ Taken[o] <= LateProofs!Sum(Taken, Operations)
          /\ LateProofs!Sum(Taken, Operations) \in Nat
          /\ LateProofs!Sum(Taken, Operations)' = LateProofs!Sum(Taken, Operations) - Taken[o] + Taken'[o]
      BY <2>0, <2>1, TakenChange
    <3>2. /\ reserved[o] \in Nat \ {0} /\ reserved'[o] \in Nat \ {0} /\ budget \in Nat
          /\ Taken[o] = (IF reserved[o] > 1 THEN reserved[o] ELSE 0) /\ Taken'[o] = (IF reserved'[o] > 1 THEN reserved'[o] ELSE 0)
      BY <2>0, <2>1, PoolTypesAre, PoolTypesThen DEF Taken
    <3>3. budget = LateProofs!Sum(Taken, Operations) /\ budget <= Pool!Max(Limits) /\ Pool!Max(Limits) \in Nat
      BY <2>0, LargestLimit DEF Budgeted
    <3>4. Pool!Max({0, budget - reserved[o]}) = IF 0 < budget - reserved[o] THEN budget - reserved[o] ELSE 0
      <4>1. 0 \in Int /\ budget - reserved[o] \in Int
        BY <3>2
      <4>2. QED
        BY <4>1, PoolMaxMin
    <3>5. ASSUME \E limit \in Limits : budget' <= limit PROVE budget' <= Pool!Max(Limits)
      <4>1. PICK limit \in Limits : budget' <= limit
        BY <3>5
      <4>2. limit <= Pool!Max(Limits) /\ limit \in Nat /\ budget' \in Nat
        BY <2>1, LargestLimit, PoolTypesThen, PoolAssumption
      <4>3. QED
        BY <3>3, <4>1, <4>2
    <3>6. QED
      BY <2>2, <3>1, <3>2, <3>3, <3>4, <3>5 DEF Charged
  <2>6. QED
    BY <2>1, <2>3, <2>4, <2>5 DEF PoolInv, Budgeted, Owns
<1>3. QED
  BY <1>1, <1>2 DEF Pool!Next

(* What the invariant of the pool says.                                    *)
LEMMA PoolSafe == PoolInv => PoolExact
<1> SUFFICES ASSUME PoolInv PROVE PoolExact
  OBVIOUS
<1>1. Pool!PoolTypeOK /\ PoolTypes /\ Budgeted
  BY DEF PoolInv, PoolTypes
<1>2. Pool!BudgetExact
  <2>1. ASSUME \A o \in Operations : op[o] \in {"new", "done", "failed"} PROVE budget = 0
    <3>1. \A o \in Operations : Taken[o] = 0
      BY <1>1, <2>1 DEF Budgeted, Taken
    <3>2. LateProofs!IsFiniteSet(Operations)
      BY PoolAssumption DEF LateProofs!IsFiniteSet, IsFiniteSet
    <3>3. QED
      BY <1>1, <3>1, <3>2, LateProofs!SumZero DEF Budgeted
  <2>2. \A o \in Operations : processes[o] > 0 => processes[o] <= reserved[o]
    BY <1>1, PoolTypesAre DEF Budgeted
  <2>3. QED
    BY <1>1, <2>1, <2>2, TakenSummed DEF Budgeted, Pool!BudgetExact
<1>3. Pool!OrderedAndComplete
  <2>1. ASSUME NEW o \in Operations
        PROVE  yielded[o] = [i \in 1..Len(yielded[o]) |-> i] /\ (op[o] = "done" => Len(yielded[o]) = Items)
    <3>1. yielded[o] \in Seq(1..Items) /\ pending[o] \in Seq(Task) /\ Len(yielded[o]) \in Nat /\ InOrder(o)
      BY <1>1, PoolTypesAre DEF PoolInv
    <3>5. Items \in Nat /\ Len(pending[o]) \in Nat
      BY <3>1, PoolAssumption
    <3>2. yielded[o] = [i \in 1..Len(yielded[o]) |-> i]
      BY <3>1 DEF InOrder, InPlace
    <3>3. op[o] = "done" => Len(yielded[o]) = Items
      <4>1. ASSUME op[o] = "done" PROVE Len(yielded[o]) = Items
        <5>1. pending[o] = <<>> /\ Len(yielded[o]) + Len(pending[o]) = Items
          BY <3>1, <4>1 DEF InOrder, InPlace
        <5>2. Len(pending[o]) = 0
          BY <3>1, <5>1
        <5>3. QED
          BY <3>1, <3>5, <5>1, <5>2
      <4>2. QED
        BY <4>1
    <3>4. QED
      BY <3>2, <3>3
  <2>2. QED
    BY <2>1 DEF Pool!OrderedAndComplete
<1>4. QED
  BY <1>1, <1>2, <1>3 DEF PoolExact

-------------------------------------------------------------------------------
(* The quota of calls. The lemmas about sums are those of the ledger's     *)
(* proofs.                                                                 *)

(* What each thread has reserved and not given to the provider.            *)
Promised == [t \in Threads |-> IF call[t].at \in {"reserved", "calling"} THEN Batch[t] ELSE 0]
(* All of it.                                                              *)
Promises == LateProofs!Sum(Promised, Threads)

(* Who reads or writes the counter holds the lock, and the counter is      *)
(* still what was read.                                                    *)
ReadersHold == \A t \in Threads : /\ call[t].at \in {"in", "reserved"} => lock = t
                                  /\ call[t].at = "in" => call[t].used = counter

(* What reached the provider and what will is in the counter of a live     *)
(* worker; the parent has taken the counter of a dead one over, and knows  *)
(* never more than a live one has.                                         *)
Counted ==
  IF alive THEN known <= counter /\ calls + Promises <= counter
  ELSE calls <= known /\ \A t \in Threads : call[t].at = "out"

(* The inductive invariant of the quota.                                   *)
QuotaInv == Quota!QuotaTypeOK /\ ReadersHold /\ Counted

(* Threads can be counted, and the sum in the property is that of what     *)
(* they have reserved.                                                     *)
LEMMA PromisesSummed == Quota!Pending = Promises
<1> DEFINE e(t) == IF call[t].at \in {"reserved", "calling"} THEN Batch[t] ELSE 0
           f == Promised
           E(g) == g = [s \in SUBSET Threads |->
                          IF s = {} THEN 0 ELSE e(LateProofs!Pick(s)) + g[s \ {LateProofs!Pick(s)}]]
<1>1. Quota!MapThenSumSet(e, Threads) = (CHOOSE g : E(g))[Threads]
  BY Zenon DEF Quota!MapThenSumSet, Quota!MapThenFoldSet, LateProofs!Pick
<1>2. \A t \in Threads : f[t] = e(t)
  BY DEF Promised
<1> HIDE DEF f, e
<1>3. ASSUME NEW s \in SUBSET Threads, s # {} PROVE f[LateProofs!Pick(s)] = e(LateProofs!Pick(s))
  BY <1>2, <1>3, LateProofs!PickIn
<1>4. ASSUME NEW g PROVE LateProofs!AddsUp(f, Threads, g) <=> E(g)
  BY <1>3 DEF LateProofs!AddsUp
<1> HIDE DEF E
<1>5. (CHOOSE g : LateProofs!AddsUp(f, Threads, g)) = (CHOOSE g : E(g))
  BY <1>4, Zenon
<1>6. Quota!MapThenSumSet(e, Threads) = LateProofs!Sum(f, Threads)
  BY <1>1, <1>5 DEF LateProofs!Sum
<1>7. QED
  BY <1>6 DEF e, f, Quota!Pending, Promises

(* What was reserved is a number, and none without a reservation.          *)
LEMMA PromisesTypes ==
  ASSUME Quota!QuotaTypeOK
  PROVE  /\ \A t \in Threads : Promised[t] \in Nat
         /\ Promises \in Nat
         /\ (\A t \in Threads : call[t].at = "out") => Promises = 0
<1>0. LateProofs!IsFiniteSet(Threads) /\ Batch \in [Threads -> Nat]
  BY QuotaAssumption DEF LateProofs!IsFiniteSet, IsFiniteSet
<1>1. \A t \in Threads : Promised[t] \in Nat
  BY <1>0 DEF Promised
<1>2. Promises \in Nat
  BY <1>0, <1>1, LateProofs!SumNat DEF Promises
<1>3. (\A t \in Threads : call[t].at = "out") => \A t \in Threads : Promised[t] = 0
  BY DEF Promised
<1>4. (\A t \in Threads : call[t].at = "out") => Promises = 0
  BY <1>0, <1>3, LateProofs!SumZero DEF Promises
<1>5. QED
  BY <1>1, <1>2, <1>4

(* When one thread goes on, the sum changes by what it reserves or uses.   *)
LEMMA PromisesChange ==
  ASSUME Quota!QuotaTypeOK, Quota!QuotaTypeOK', NEW t \in Threads,
         \A u \in Threads : u # t => call'[u] = call[u]
  PROVE  Promises' = Promises - Promised[t] + Promised'[t]
<1>0. LateProofs!IsFiniteSet(Threads) /\ Batch \in [Threads -> Nat]
  BY QuotaAssumption DEF LateProofs!IsFiniteSet, IsFiniteSet
<1>1. \A u \in Threads : Promised[u] \in Int /\ Promised'[u] \in Int
  BY <1>0 DEF Promised
<1>2. \A u \in Threads \ {t} : Promised[u] = Promised'[u]
  BY DEF Promised
<1>3. PICK p : p = Promised'
  OBVIOUS
<1>4. LateProofs!Sum(p, Threads) = LateProofs!Sum(Promised, Threads) - Promised[t] + p[t]
  BY <1>0, <1>1, <1>2, <1>3, LateProofs!SumChanged
<1>5. QED
  BY <1>3, <1>4 DEF Promises

(* Max and Min of two numbers.                                             *)
LEMMA QuotaMaxMin ==
  ASSUME NEW a \in Int, NEW b \in Int
  PROVE  /\ Quota!Max({a, b}) = IF a < b THEN b ELSE a
         /\ Quota!Min({a, b}) = IF a < b THEN a ELSE b
<1> DEFINE m == Quota!Max({a, b})
           n == Quota!Min({a, b})
<1>1. (\E x \in {a, b} : \A y \in {a, b} : x >= y) /\ (\E x \in {a, b} : \A y \in {a, b} : x <= y)
  OBVIOUS
<1>2. /\ m \in {a, b} /\ \A y \in {a, b} : m >= y
      /\ n \in {a, b} /\ \A y \in {a, b} : n <= y
  BY <1>1, Zenon DEF Quota!Max, Quota!Min
<1> HIDE DEF m, n
<1>3. m \in {a, b} /\ m >= a /\ m >= b /\ n \in {a, b} /\ n <= a /\ n <= b
  BY <1>2
<1>4. m = (IF a < b THEN b ELSE a) /\ n = (IF a < b THEN a ELSE b)
  BY <1>3
<1>5. QED
  BY <1>4 DEF m, n

(* What the parent knows after it has read the counter.                    *)
LEMMA SyncedIs ==
  ASSUME Quota!QuotaTypeOK
  PROVE  Quota!Synced = IF known < counter THEN counter ELSE known
<1>1. known \in 0..MaxCalls /\ counter \in 0..MaxCalls /\ MaxCalls \in Nat
  BY QuotaAssumption DEF Quota!QuotaTypeOK
<1>2. Quota!Max({counter, 0}) = counter
  BY <1>1, QuotaMaxMin
<1>3. Quota!Min({counter, MaxCalls}) = counter
  BY <1>1, QuotaMaxMin
<1>4. QED
  BY <1>1, <1>2, <1>3, QuotaMaxMin DEF Quota!Synced

(* The quota starts with its invariant.                                    *)
LEMMA QuotaInit == Quota!Init => QuotaInv
<1> SUFFICES ASSUME Quota!Init PROVE QuotaInv
  OBVIOUS
<1>1. Quota!QuotaTypeOK
  BY QuotaAssumption DEF Quota!Init, Quota!QuotaTypeOK, Quota!Outside, Quota!Nobody
<1>2. \A t \in Threads : call[t].at = "out"
  BY DEF Quota!Init, Quota!Outside
<1>3. Promises = 0
  BY <1>1, <1>2, PromisesTypes
<1>4. QED
  BY <1>1, <1>2, <1>3 DEF QuotaInv, ReadersHold, Counted, Quota!Init

(* A thread keeps the invariant.                                           *)
LEMMA ThreadKeeps ==
  ASSUME QuotaInv, NEW t \in Threads,
         Quota!Enter(t) \/ Quota!Refuse(t) \/ Quota!Write(t) \/ Quota!Unlock(t) \/ Quota!CallProvider(t)
  PROVE  QuotaInv'
<1>0. /\ Quota!QuotaTypeOK /\ ReadersHold /\ Quota!Nobody \notin Threads /\ Batch \in [Threads -> Nat]
      /\ MaxCalls \in Nat /\ Batch[t] \in Nat
      /\ call \in [Threads -> [at : {"out", "in", "reserved", "calling"}, used : 0..MaxCalls]]
      /\ calls \in Nat /\ counter \in 0..MaxCalls /\ known \in 0..MaxCalls /\ generation \in 1..Generations
      /\ lock \in Threads \cup {Quota!Nobody}
  BY QuotaAssumption DEF QuotaInv, Quota!QuotaTypeOK
<1>1. /\ alive /\ alive' /\ known' = known /\ generation' = generation
      /\ known <= counter /\ calls + Promises <= counter
  BY DEF QuotaInv, Counted, Quota!Enter, Quota!Refuse, Quota!Write, Quota!Unlock, Quota!CallProvider
<1>2. \A u \in Threads : u # t => call'[u] = call[u]
  BY <1>0 DEF Quota!Enter, Quota!Refuse, Quota!Write, Quota!Unlock, Quota!CallProvider
<1>3. Quota!QuotaTypeOK'
  <2>1. /\ counter' \in 0..MaxCalls /\ calls' \in Nat /\ lock' \in Threads \cup {Quota!Nobody}
    BY <1>0 DEF Quota!Enter, Quota!Refuse, Quota!Write, Quota!Unlock, Quota!CallProvider, Quota!Fits
  <2>2. call' \in [Threads -> [at : {"out", "in", "reserved", "calling"}, used : 0..MaxCalls]]
    BY <1>0 DEF Quota!Enter, Quota!Refuse, Quota!Write, Quota!Unlock, Quota!CallProvider, Quota!Outside
  <2>3. alive' \in BOOLEAN
    BY <1>0 DEF Quota!QuotaTypeOK, Quota!Enter, Quota!Refuse, Quota!Write, Quota!Unlock, Quota!CallProvider
  <2>4. QED
    BY <1>0, <1>1, <2>1, <2>2, <2>3 DEF Quota!QuotaTypeOK
<1>4. Promises \in Nat /\ Promises' = Promises - Promised[t] + Promised'[t]
  BY <1>0, <1>2, <1>3, PromisesChange, PromisesTypes
<1>5. CASE Quota!Enter(t)
  <2>1. ReadersHold'
    BY <1>0, <1>2, <1>5 DEF ReadersHold, Quota!Enter, Quota!LockFree
  <2>2. Promised[t] = 0 /\ Promised'[t] = 0 /\ counter' = counter /\ calls' = calls
    BY <1>0, <1>5 DEF Promised, Quota!Enter
  <2>3. QED
    BY <1>1, <1>3, <1>4, <2>1, <2>2 DEF QuotaInv, Counted
<1>6. CASE Quota!Refuse(t)
  <2>1. ReadersHold'
    BY <1>0, <1>2, <1>6 DEF ReadersHold, Quota!Refuse, Quota!Outside
  <2>2. Promised[t] = 0 /\ Promised'[t] = 0 /\ counter' = counter /\ calls' = calls
    BY <1>0, <1>6 DEF Promised, Quota!Refuse, Quota!Outside
  <2>3. QED
    BY <1>1, <1>3, <1>4, <2>1, <2>2 DEF QuotaInv, Counted
<1>7. CASE Quota!Write(t)
  <2>1. ReadersHold'
    BY <1>0, <1>2, <1>7 DEF ReadersHold, Quota!Write
  <2>2. Promised[t] = 0 /\ Promised'[t] = Batch[t] /\ counter' = counter + Batch[t] /\ calls' = calls
    BY <1>0, <1>7 DEF Promised, ReadersHold, Quota!Write
  <2>3. QED
    BY <1>0, <1>1, <1>3, <1>4, <2>1, <2>2 DEF QuotaInv, Counted
<1>8. CASE Quota!Unlock(t)
  <2>1. ReadersHold'
    BY <1>0, <1>2, <1>8 DEF ReadersHold, Quota!Unlock
  <2>2. Promised[t] = Batch[t] /\ Promised'[t] = Batch[t] /\ counter' = counter /\ calls' = calls
    BY <1>0, <1>8 DEF Promised, Quota!Unlock
  <2>3. QED
    BY <1>0, <1>1, <1>3, <1>4, <2>1, <2>2 DEF QuotaInv, Counted
<1>9. CASE Quota!CallProvider(t)
  <2>1. ReadersHold'
    BY <1>0, <1>2, <1>9 DEF ReadersHold, Quota!CallProvider, Quota!Outside
  <2>2. Promised[t] = Batch[t] /\ Promised'[t] = 0 /\ counter' = counter /\ calls' = calls + Batch[t]
    BY <1>0, <1>9 DEF Promised, Quota!CallProvider, Quota!Outside
  <2>3. QED
    BY <1>0, <1>1, <1>3, <1>4, <2>1, <2>2 DEF QuotaInv, Counted
<1>10. QED
  BY <1>5, <1>6, <1>7, <1>8, <1>9

(* So does every step.                                                     *)
LEMMA QuotaStep == QuotaInv /\ [Quota!Next]_(Quota!quotaVars) => QuotaInv'
<1> SUFFICES ASSUME QuotaInv, [Quota!Next]_(Quota!quotaVars) PROVE QuotaInv'
  OBVIOUS
<1>0. /\ Quota!QuotaTypeOK /\ MaxCalls \in Nat /\ Generations \in Nat \ {0} /\ Quota!Nobody \notin Threads
      /\ Promises \in Nat
  BY QuotaAssumption, PromisesTypes DEF QuotaInv
<1>1. CASE UNCHANGED Quota!quotaVars
  BY <1>1 DEF QuotaInv, Quota!QuotaTypeOK, ReadersHold, Counted, Promises, Promised, Quota!quotaVars
<1>2. CASE \E t \in Threads : Quota!Enter(t) \/ Quota!Refuse(t) \/ Quota!Write(t) \/ Quota!Unlock(t) \/ Quota!CallProvider(t)
  BY <1>2, ThreadKeeps
<1>3. CASE Quota!Sync
  <2>1. Quota!QuotaTypeOK' /\ known <= known' /\ (alive => known' <= counter)
    BY <1>0, <1>3, SyncedIs DEF Quota!Sync, Quota!QuotaTypeOK, QuotaInv, Counted
  <2>2. Promises' = Promises
    BY <1>3 DEF Quota!Sync, Promises, Promised
  <2>3. ReadersHold'
    BY <1>3 DEF Quota!Sync, ReadersHold, QuotaInv
  <2>4. QED
    BY <1>0, <1>3, <2>1, <2>2, <2>3 DEF Quota!Sync, QuotaInv, Counted, Quota!QuotaTypeOK
<1>4. CASE Quota!Kill
  <2>1. Quota!QuotaTypeOK' /\ counter <= known' /\ alive' = FALSE
    <3>1. /\ known' \in 0..MaxCalls /\ counter' \in 0..MaxCalls /\ counter <= known'
          /\ alive' = FALSE /\ generation' = generation /\ lock' = lock /\ calls' = calls
      BY <1>0, <1>4, SyncedIs DEF Quota!Kill, Quota!QuotaTypeOK
    <3>2. call' \in [Threads -> [at : {"out", "in", "reserved", "calling"}, used : 0..MaxCalls]]
      BY <1>0, <1>4 DEF Quota!Kill, Quota!Outside
    <3>3. QED
      BY <1>0, <3>1, <3>2 DEF Quota!QuotaTypeOK
  <2>2. \A t \in Threads : call'[t].at = "out"
    BY <1>4 DEF Quota!Kill, Quota!Outside
  <2>3. calls' = calls /\ calls <= counter
    BY <1>0, <1>4 DEF Quota!Kill, QuotaInv, Counted, Quota!QuotaTypeOK
  <2>4. QED
    BY <1>0, <2>1, <2>2, <2>3 DEF QuotaInv, Counted, ReadersHold, Quota!QuotaTypeOK
<1>5. CASE Quota!Restart
  <2>1. Quota!QuotaTypeOK' /\ alive' /\ counter' = known /\ known' = known /\ calls' = calls /\ call' = call /\ calls <= known
    BY <1>0, <1>5 DEF Quota!Restart, Quota!QuotaTypeOK, Quota!FreshCounter, QuotaInv, Counted
  <2>2. \A t \in Threads : call[t].at = "out"
    BY <1>5 DEF Quota!Restart, QuotaInv, Counted
  <2>3. Promises' = 0
    <3>1. Promises = 0
      BY <1>0, <2>2, PromisesTypes
    <3>2. QED
      BY <2>1, <3>1 DEF Promises, Promised
  <2>4. QED
    BY <1>0, <2>1, <2>2, <2>3 DEF QuotaInv, Counted, ReadersHold, Quota!QuotaTypeOK
<1>6. QED
  BY <1>1, <1>2, <1>3, <1>4, <1>5 DEF Quota!Next

(* What the invariant of the quota says.                                   *)
LEMMA QuotaSafe == QuotaInv => CallsWithinQuota
<1> SUFFICES ASSUME QuotaInv PROVE CallsWithinQuota
  OBVIOUS
<1>1. /\ Quota!QuotaTypeOK /\ MaxCalls \in Nat /\ Promises \in Nat /\ Quota!Pending = Promises
      /\ known \in 0..MaxCalls /\ counter \in 0..MaxCalls /\ calls \in Nat
  BY QuotaAssumption, PromisesTypes, PromisesSummed DEF QuotaInv, Quota!QuotaTypeOK
<1>2. ~alive => Promises = 0
  BY <1>1, PromisesTypes DEF QuotaInv, Counted
<1>3. Quota!Max({known, counter}) = IF known < counter THEN counter ELSE known
  BY <1>1, QuotaMaxMin
<1>4. Quota!CallsWithinQuota
  BY <1>1, <1>2, <1>3 DEF QuotaInv, Counted, Quota!CallsWithinQuota
<1>5. QED
  BY <1>1, <1>4 DEF CallsWithinQuota

-------------------------------------------------------------------------------
(* The quota and the pool in the composition.                              *)

(* A step of the composition is one of the quota, or leaves it alone.      *)
LEMMA QuotaOnly == [Next]_vars => [Quota!Next]_(Quota!quotaVars)
  BY DEF Next, vars, LedgerNext, BrokerNext, PoolNext, ServiceNext, QuotaNext, RegistryNext, JobsNext, ScanNext,
         InlineNext, quotaVars, Quota!quotaVars

(* A step of the composition is one of the pool, or leaves it alone.       *)
LEMMA PoolOnly == [Next]_vars => [Pool!Next]_(Pool!poolVars)
  BY DEF Next, vars, LedgerNext, BrokerNext, PoolNext, ServiceNext, QuotaNext, RegistryNext, JobsNext, ScanNext,
         InlineNext, poolVars, Pool!poolVars

(* Wherever workers are killed, a session calls the provider no more often *)
(* than max_llm_calls over all its generations, and what was called was    *)
(* counted before, for any finite set of threads and any batches           *)
(* (_WorkerLlmTools._reserve and _sync_llm_quota).                         *)
THEOREM CallsCounted == Spec => []CallsWithinQuota
<1>1. Init => QuotaInv
  BY QuotaInit DEF Init
<1>2. QuotaInv /\ [Next]_vars => QuotaInv'
  BY QuotaStep, QuotaOnly
<1>3. QuotaInv => CallsWithinQuota
  BY QuotaSafe
<1>4. QED
  BY <1>1, <1>2, <1>3, PTL DEF Spec

(* However operations overlap, fail, fall back or are interrupted, the     *)
(* budget of index workers is what the running ones have, within the       *)
(* largest limit, and each gets its results in order and, if it ends well, *)
(* all of them, for any finite set of operations, any requests, limits,    *)
(* items and window (IndexTaskPool).                                       *)
THEOREM WorkersBudgeted == Spec => []PoolExact
<1>1. Init => PoolInv
  BY PoolInit DEF Init
<1>2. PoolInv /\ [Next]_vars => PoolInv'
  BY PoolStep, PoolOnly
<1>3. PoolInv => PoolExact
  BY PoolSafe
<1>4. QED
  BY <1>1, <1>2, <1>3, PTL DEF Spec

-------------------------------------------------------------------------------
(* The scan budget.                                                        *)

(* The two instances of this ledger start and go on alike.                 *)
LEMMA LateStarts ==
  /\ Late!Init <=> LateProofs!Init
  /\ [Late!Next]_ledgerVars <=> [LateProofs!Next]_(LateProofs!ledgerVars)
  BY Zenon DEF ledgerVars,
      Late!ledgerVars, LateProofs!ledgerVars, Late!None, LateProofs!None, Late!Slots,
      LateProofs!Slots, Late!Idle, LateProofs!Idle, Late!Seen, LateProofs!Seen, Late!Store,
      LateProofs!Store, Late!StoreFlushed, LateProofs!StoreFlushed, Late!Init, LateProofs!Init,
      Late!Allocate, LateProofs!Allocate, Late!Acquiring, LateProofs!Acquiring, Late!LeaseFree,
      LateProofs!LeaseFree, Late!Acquire, LateProofs!Acquire, Late!Publish, LateProofs!Publish,
      Late!ReadSlot, LateProofs!ReadSlot, Late!OverTotal, LateProofs!OverTotal, Late!TakeBack,
      LateProofs!TakeBack, Late!Keep, LateProofs!Keep, Late!Drain, LateProofs!Drain, Late!GivenBack,
      LateProofs!GivenBack, Late!Release, LateProofs!Release, Late!Kill, LateProofs!Kill,
      Late!Zeroed, LateProofs!Zeroed, Late!Reclaim, LateProofs!Reclaim, Late!ReleaseSlot,
      LateProofs!ReleaseSlot, Late!WalkStep, LateProofs!WalkStep, Late!Next, LateProofs!Next,
      Late!Max, LateProofs!Max

(* They promise the same.                                                  *)
LEMMA LateAlike ==
  /\ Late!LedgerTypeOK <=> LateProofs!LedgerTypeOK
  /\ Late!LedgerExact <=> LateProofs!LedgerExact
  /\ Late!GrantBounds <=> LateProofs!GrantBounds
<1>1. Late!LedgerTypeOK <=> LateProofs!LedgerTypeOK
  BY Zenon DEF Late!LedgerTypeOK, LateProofs!LedgerTypeOK, Late!Slots, LateProofs!Slots, Late!None, LateProofs!None,
     Late!Acquiring, LateProofs!Acquiring
<1>2. Late!LedgerExact <=> LateProofs!LedgerExact
  BY Zenon DEF Late!LedgerExact, LateProofs!LedgerExact,
     Late!Slots, LateProofs!Slots, Late!None, LateProofs!None, Late!Acquiring, LateProofs!Acquiring,
     Late!Running, LateProofs!Running, Late!InSlot, LateProofs!InSlot, Late!WalksOf,
     LateProofs!WalksOf, Late!MapThenSumSet, LateProofs!MapThenSumSet, Late!MapThenFoldSet,
     LateProofs!MapThenFoldSet
<1>3. Late!GrantBounds <=> LateProofs!GrantBounds
  BY Zenon DEF Late!GrantBounds, LateProofs!GrantBounds,
     Late!None, LateProofs!None, Late!Acquiring, LateProofs!Acquiring, Late!Running,
     LateProofs!Running, Late!Granted, LateProofs!Granted, Late!MaxWant, LateProofs!MaxWant,
     Late!Max, LateProofs!Max, Late!Min, LateProofs!Min, Late!Cardinality, LateProofs!Cardinality,
     Late!MapThenSumSet, LateProofs!MapThenSumSet, Late!MapThenFoldSet, LateProofs!MapThenFoldSet
<1> QED
  BY <1>1, <1>2, <1>3

(* Its invariant, and what it says.                                        *)
LEMMA LateKept ==
  /\ Late!Init => LateProofs!IInv
  /\ LateProofs!IInv /\ [Late!Next]_ledgerVars => LateProofs!IInv'
  /\ LateProofs!IInv => Late!LedgerTypeOK /\ Late!LedgerExact /\ Late!GrantBounds
<1>1. LateProofs!LedgerAssumption
  <2>1. PICK n \in Nat : Ledgers["late"].slots = 1..n
    BY LedgersAssumption, FS_CardinalityType
  <2>2. LateProofs!IsFiniteSet(Ledgers["late"].walks)
    BY LedgersAssumption DEF LateProofs!IsFiniteSet, IsFiniteSet
  <2>3. QED
    BY <2>1, <2>2, LedgersAssumption DEF LateProofs!LedgerAssumption
<1> QED
  BY <1>1, LateStarts, LateAlike, LateProofs!InitIInv, LateProofs!StepIInv, LateProofs!Consequences

(* The scan budget where stores are seen in order.                         *)
OrderedProofs == INSTANCE ScanLedgerProofs WITH Buffered <- FALSE, Walks <- Ledgers["ordered"].walks,
                InlineWalks <- Ledgers["ordered"].inline, PoolSlots <- Ledgers["ordered"].slots,
                Want <- Ledgers["ordered"].want, Total <- Ledgers["ordered"].total

(* The two instances of this ledger start and go on alike.                 *)
LEMMA OrderedStarts ==
  /\ Ordered!Init <=> OrderedProofs!Init
  /\ [Ordered!Next]_ledgerVars <=> [OrderedProofs!Next]_(OrderedProofs!ledgerVars)
  BY Zenon DEF ledgerVars,
      Ordered!ledgerVars, OrderedProofs!ledgerVars, Ordered!None, OrderedProofs!None, Ordered!Slots,
      OrderedProofs!Slots, Ordered!Idle, OrderedProofs!Idle, Ordered!Seen, OrderedProofs!Seen,
      Ordered!Store, OrderedProofs!Store, Ordered!StoreFlushed, OrderedProofs!StoreFlushed,
      Ordered!Init, OrderedProofs!Init, Ordered!Allocate, OrderedProofs!Allocate, Ordered!Acquiring,
      OrderedProofs!Acquiring, Ordered!LeaseFree, OrderedProofs!LeaseFree, Ordered!Acquire,
      OrderedProofs!Acquire, Ordered!Publish, OrderedProofs!Publish, Ordered!ReadSlot,
      OrderedProofs!ReadSlot, Ordered!OverTotal, OrderedProofs!OverTotal, Ordered!TakeBack,
      OrderedProofs!TakeBack, Ordered!Keep, OrderedProofs!Keep, Ordered!Drain, OrderedProofs!Drain,
      Ordered!GivenBack, OrderedProofs!GivenBack, Ordered!Release, OrderedProofs!Release,
      Ordered!Kill, OrderedProofs!Kill, Ordered!Zeroed, OrderedProofs!Zeroed, Ordered!Reclaim,
      OrderedProofs!Reclaim, Ordered!ReleaseSlot, OrderedProofs!ReleaseSlot, Ordered!WalkStep,
      OrderedProofs!WalkStep, Ordered!Next, OrderedProofs!Next, Ordered!Max, OrderedProofs!Max

(* They promise the same.                                                  *)
LEMMA OrderedAlike ==
  /\ Ordered!LedgerTypeOK <=> OrderedProofs!LedgerTypeOK
  /\ Ordered!LedgerExact <=> OrderedProofs!LedgerExact
  /\ Ordered!GrantBounds <=> OrderedProofs!GrantBounds
<1>1. Ordered!LedgerTypeOK <=> OrderedProofs!LedgerTypeOK
  BY Zenon DEF Ordered!LedgerTypeOK, OrderedProofs!LedgerTypeOK, Ordered!Slots, OrderedProofs!Slots, Ordered!None, OrderedProofs!None,
     Ordered!Acquiring, OrderedProofs!Acquiring
<1>2. Ordered!LedgerExact <=> OrderedProofs!LedgerExact
  BY Zenon DEF Ordered!LedgerExact, OrderedProofs!LedgerExact,
     Ordered!Slots, OrderedProofs!Slots, Ordered!None, OrderedProofs!None, Ordered!Acquiring,
     OrderedProofs!Acquiring, Ordered!Running, OrderedProofs!Running, Ordered!InSlot,
     OrderedProofs!InSlot, Ordered!WalksOf, OrderedProofs!WalksOf, Ordered!MapThenSumSet,
     OrderedProofs!MapThenSumSet, Ordered!MapThenFoldSet, OrderedProofs!MapThenFoldSet
<1>3. Ordered!GrantBounds <=> OrderedProofs!GrantBounds
  BY Zenon DEF Ordered!GrantBounds, OrderedProofs!GrantBounds,
     Ordered!None, OrderedProofs!None, Ordered!Acquiring, OrderedProofs!Acquiring, Ordered!Running,
     OrderedProofs!Running, Ordered!Granted, OrderedProofs!Granted, Ordered!MaxWant,
     OrderedProofs!MaxWant, Ordered!Max, OrderedProofs!Max, Ordered!Min, OrderedProofs!Min,
     Ordered!Cardinality, OrderedProofs!Cardinality, Ordered!MapThenSumSet,
     OrderedProofs!MapThenSumSet, Ordered!MapThenFoldSet, OrderedProofs!MapThenFoldSet
<1> QED
  BY <1>1, <1>2, <1>3

(* Its invariant, and what it says.                                        *)
LEMMA OrderedKept ==
  /\ Ordered!Init => OrderedProofs!IInv
  /\ OrderedProofs!IInv /\ [Ordered!Next]_ledgerVars => OrderedProofs!IInv'
  /\ OrderedProofs!IInv => Ordered!LedgerTypeOK /\ Ordered!LedgerExact /\ Ordered!GrantBounds
<1>1. OrderedProofs!LedgerAssumption
  <2>1. PICK n \in Nat : Ledgers["ordered"].slots = 1..n
    BY LedgersAssumption, FS_CardinalityType
  <2>2. OrderedProofs!IsFiniteSet(Ledgers["ordered"].walks)
    BY LedgersAssumption DEF OrderedProofs!IsFiniteSet, IsFiniteSet
  <2>3. QED
    BY <2>1, <2>2, LedgersAssumption DEF OrderedProofs!LedgerAssumption
<1> QED
  BY <1>1, OrderedStarts, OrderedAlike, OrderedProofs!InitIInv, OrderedProofs!StepIInv, OrderedProofs!Consequences

(* A step of the composition keeps its part, and is one of that part's     *)
(* ledger, or leaves it alone.                                             *)
LEMMA LedgersOnly ==
  [Next]_vars => /\ part' = part
                 /\ part = "late" => [Late!Next]_ledgerVars
                 /\ part # "late" => [Ordered!Next]_ledgerVars
  BY DEF Next, vars, LedgerNext, BrokerNext, PoolNext, ServiceNext, QuotaNext, RegistryNext, JobsNext, ScanNext,
         InlineNext

(* Each ledger keeps its invariant.                                        *)
LedgerInv == IF part = "late" THEN LateProofs!IInv ELSE OrderedProofs!IInv

(* Whatever sandboxes and inline sessions walk, end or are killed, and     *)
(* whether their stores are seen late or not, no token of the scan budget  *)
(* is lost or kept for ever, and the walks have together no more and no    *)
(* fewer threads than documented, for any finite set of walks, any slots,  *)
(* requests and total (ScanLease and ScanLedger in _scan_budget.py).       *)
THEOREM BudgetKept == Spec => []LedgerExact
<1>1. Init => LedgerInv
  BY LateKept, OrderedKept DEF Init, LedgerInv
<1>2. LedgerInv /\ [Next]_vars => LedgerInv'
  BY LedgersOnly, LateKept, OrderedKept DEF LedgerInv
<1>3. LedgerInv => LedgerExact
  BY LateKept, OrderedKept DEF LedgerInv, LedgerExact
<1>4. QED
  BY <1>1, <1>2, <1>3, PTL DEF Spec

-------------------------------------------------------------------------------
(* The broker and the jobs.                                                *)

(* The proofs of the broker.                                               *)
BrokerProofs == INSTANCE SpawnBrokerProofs

(* The two instances of the broker start and go on alike.                  *)
LEMMA BrokerStarts ==
  /\ Broker!Init <=> BrokerProofs!Init
  /\ [Broker!Next]_(Broker!brokerVars) <=> [BrokerProofs!Next]_(BrokerProofs!brokerVars)
  BY DEF
      Broker!brokerVars, BrokerProofs!brokerVars, Broker!Brokers, BrokerProofs!Brokers,
      Broker!NoCaller, BrokerProofs!NoCaller, Broker!Init, BrokerProofs!Init,
      Broker!threadVars, BrokerProofs!threadVars, Broker!Pick, BrokerProofs!Pick,
      Broker!Submit, BrokerProofs!Submit, Broker!TimesOut, BrokerProofs!TimesOut,
      Broker!MayGiveUpAnyway, BrokerProofs!MayGiveUpAnyway, Broker!MayGiveUp,
      BrokerProofs!MayGiveUp, Broker!GiveUp, BrokerProofs!GiveUp, Broker!Answered,
      BrokerProofs!Answered, Broker!Take, BrokerProofs!Take, Broker!Fork, BrokerProofs!Fork,
      Broker!ForkFails, BrokerProofs!ForkFails, Broker!AbandonedUnread,
      BrokerProofs!AbandonedUnread, Broker!Abandoned, BrokerProofs!Abandoned, Broker!Report,
      BrokerProofs!Report, Broker!LateClose, BrokerProofs!LateClose, Broker!LateLeft,
      BrokerProofs!LateLeft, Broker!LateKilled, BrokerProofs!LateKilled, Broker!LateKill,
      BrokerProofs!LateKill, Broker!BrokerStep, BrokerProofs!BrokerStep, Broker!CallerStep,
      BrokerProofs!CallerStep, Broker!Next, BrokerProofs!Next, Broker!Cardinality,
      BrokerProofs!Cardinality

(* What the broker's invariant says of a worker and its owner.             *)
LEMMA BrokerSafe == BrokerProofs!IInv => WorkerHasOneOwner
<1>1. BrokerProofs!CallersAssumption
  BY CallersAssumption DEF BrokerProofs!CallersAssumption, Broker!NoCaller, BrokerProofs!NoCaller,
         BrokerProofs!IsFiniteSet, IsFiniteSet
<1>2. BrokerProofs!BrokerTypeOK /\ BrokerProofs!WorkerHasOneOwner <=> Broker!BrokerTypeOK /\ Broker!WorkerHasOneOwner
  BY DEF BrokerProofs!BrokerTypeOK, BrokerProofs!WorkerHasOneOwner, Broker!BrokerTypeOK, Broker!WorkerHasOneOwner,
         BrokerProofs!Held, Broker!Held, BrokerProofs!Brokers, Broker!Brokers, BrokerProofs!NoCaller, Broker!NoCaller,
         BrokerProofs!Cardinality, Broker!Cardinality
<1>3. BrokerProofs!IInv => BrokerProofs!BrokerTypeOK /\ BrokerProofs!WorkerHasOneOwner
  BY <1>1, BrokerProofs!Owned DEF BrokerProofs!IInv
<1> QED
  BY <1>2, <1>3 DEF WorkerHasOneOwner

(* The jobs of one path with a command line, those that are asked for      *)
(* statistics, and those of a project that moves.                          *)
JobsProofs == INSTANCE IndexJobsProofs WITH Paths <- JobsOf["jobs"].paths, CommandLines <- JobsOf["jobs"].lines,
                Clients <- JobsOf["jobs"].clients, Asks <- JobsOf["jobs"].asks, MaxFiles <- JobsOf["jobs"].files

(* The two instances of these jobs start and go on alike.                  *)
LEMMA JobsStarts ==
  /\ Jobs!Init <=> JobsProofs!Init
  /\ [Jobs!Next]_jobsVars <=> [JobsProofs!Next]_(JobsProofs!jobsVars)
  BY DEF jobsVars,
      Jobs!jobsVars, JobsProofs!jobsVars, Jobs!Free, JobsProofs!Free, Jobs!Builders,
      JobsProofs!Builders, Jobs!Files, JobsProofs!Files, Jobs!Fresh, JobsProofs!Fresh,
      Jobs!Off, JobsProofs!Off, Jobs!NoRequest, JobsProofs!NoRequest, Jobs!Init,
      JobsProofs!Init, Jobs!Used, JobsProofs!Used, Jobs!Retarget, JobsProofs!Retarget,
      Jobs!Request, JobsProofs!Request, Jobs!Answered, JobsProofs!Answered, Jobs!Ask,
      JobsProofs!Ask, Jobs!RegistersAnyway, JobsProofs!RegistersAnyway, Jobs!MayRegister,
      JobsProofs!MayRegister, Jobs!Register, JobsProofs!Register, Jobs!BuilderAt,
      JobsProofs!BuilderAt, Jobs!Resolve, JobsProofs!Resolve, Jobs!CliStarts,
      JobsProofs!CliStarts, Jobs!LockIgnored, JobsProofs!LockIgnored, Jobs!LockFree,
      JobsProofs!LockFree, Jobs!Lock, JobsProofs!Lock, Jobs!NoLock, JobsProofs!NoLock,
      Jobs!Commit, JobsProofs!Commit, Jobs!Holds, JobsProofs!Holds, Jobs!Marked,
      JobsProofs!Marked, Jobs!Mark, JobsProofs!Mark, Jobs!DropTables,
      JobsProofs!DropTables, Jobs!CreateTables, JobsProofs!CreateTables, Jobs!ClearMeta,
      JobsProofs!ClearMeta, Jobs!Fill, JobsProofs!Fill, Jobs!FillRest,
      JobsProofs!FillRest, Jobs!WriteMeta, JobsProofs!WriteMeta, Jobs!Overtaken,
      JobsProofs!Overtaken, Jobs!Finish, JobsProofs!Finish, Jobs!Building,
      JobsProofs!Building, Jobs!Fails, JobsProofs!Fails, Jobs!Unlock, JobsProofs!Unlock,
      Jobs!ReportsSuccessOnly, JobsProofs!ReportsSuccessOnly, Jobs!Reports,
      JobsProofs!Reports, Jobs!Report, JobsProofs!Report, Jobs!CheckDrop,
      JobsProofs!CheckDrop, Jobs!ResolveDrop, JobsProofs!ResolveDrop, Jobs!Unlink,
      JobsProofs!Unlink, Jobs!MarkerOf, JobsProofs!MarkerOf, Jobs!Info, JobsProofs!Info,
      Jobs!Count, JobsProofs!Count, Jobs!Meta, JobsProofs!Meta, Jobs!Refuses,
      JobsProofs!Refuses, Jobs!Again, JobsProofs!Again, Jobs!ServerDies,
      JobsProofs!ServerDies, Jobs!CliDies, JobsProofs!CliDies, Jobs!BuilderStep,
      JobsProofs!BuilderStep, Jobs!ClientStep, JobsProofs!ClientStep, Jobs!Next,
      JobsProofs!Next, Jobs!RecordFree, JobsProofs!RecordFree, Jobs!WritersOf,
      JobsProofs!WritersOf, Jobs!Joined, JobsProofs!Joined, Jobs!Connect,
      JobsProofs!Connect, Jobs!Releasing, JobsProofs!Releasing, Jobs!Locked,
      JobsProofs!Locked, Jobs!UnlinkLock, JobsProofs!UnlinkLock

AskedProofs == INSTANCE IndexJobsProofs WITH Paths <- JobsOf["asked"].paths, CommandLines <- JobsOf["asked"].lines,
                Clients <- JobsOf["asked"].clients, Asks <- JobsOf["asked"].asks, MaxFiles <- JobsOf["asked"].files

(* The two instances of these jobs start and go on alike.                  *)
LEMMA AskedStarts ==
  /\ Asked!Init <=> AskedProofs!Init
  /\ [Asked!Next]_jobsVars <=> [AskedProofs!Next]_(AskedProofs!jobsVars)
  BY DEF jobsVars,
      Asked!jobsVars, AskedProofs!jobsVars, Asked!Free, AskedProofs!Free, Asked!Builders,
      AskedProofs!Builders, Asked!Files, AskedProofs!Files, Asked!Fresh,
      AskedProofs!Fresh, Asked!Off, AskedProofs!Off, Asked!NoRequest,
      AskedProofs!NoRequest, Asked!Init, AskedProofs!Init, Asked!Used, AskedProofs!Used,
      Asked!Retarget, AskedProofs!Retarget, Asked!Request, AskedProofs!Request,
      Asked!Answered, AskedProofs!Answered, Asked!Ask, AskedProofs!Ask,
      Asked!RegistersAnyway, AskedProofs!RegistersAnyway, Asked!MayRegister,
      AskedProofs!MayRegister, Asked!Register, AskedProofs!Register, Asked!BuilderAt,
      AskedProofs!BuilderAt, Asked!Resolve, AskedProofs!Resolve, Asked!CliStarts,
      AskedProofs!CliStarts, Asked!LockIgnored, AskedProofs!LockIgnored, Asked!LockFree,
      AskedProofs!LockFree, Asked!Lock, AskedProofs!Lock, Asked!NoLock,
      AskedProofs!NoLock, Asked!Commit, AskedProofs!Commit, Asked!Holds,
      AskedProofs!Holds, Asked!Marked, AskedProofs!Marked, Asked!Mark, AskedProofs!Mark,
      Asked!DropTables, AskedProofs!DropTables, Asked!CreateTables,
      AskedProofs!CreateTables, Asked!ClearMeta, AskedProofs!ClearMeta, Asked!Fill,
      AskedProofs!Fill, Asked!FillRest, AskedProofs!FillRest, Asked!WriteMeta,
      AskedProofs!WriteMeta, Asked!Overtaken, AskedProofs!Overtaken, Asked!Finish,
      AskedProofs!Finish, Asked!Building, AskedProofs!Building, Asked!Fails,
      AskedProofs!Fails, Asked!Unlock, AskedProofs!Unlock, Asked!ReportsSuccessOnly,
      AskedProofs!ReportsSuccessOnly, Asked!Reports, AskedProofs!Reports, Asked!Report,
      AskedProofs!Report, Asked!CheckDrop, AskedProofs!CheckDrop, Asked!ResolveDrop,
      AskedProofs!ResolveDrop, Asked!Unlink, AskedProofs!Unlink, Asked!MarkerOf,
      AskedProofs!MarkerOf, Asked!Info, AskedProofs!Info, Asked!Count, AskedProofs!Count,
      Asked!Meta, AskedProofs!Meta, Asked!Refuses, AskedProofs!Refuses, Asked!Again,
      AskedProofs!Again, Asked!ServerDies, AskedProofs!ServerDies, Asked!CliDies,
      AskedProofs!CliDies, Asked!BuilderStep, AskedProofs!BuilderStep, Asked!ClientStep,
      AskedProofs!ClientStep, Asked!Next, AskedProofs!Next, Asked!RecordFree,
      AskedProofs!RecordFree, Asked!WritersOf, AskedProofs!WritersOf, Asked!Joined,
      AskedProofs!Joined, Asked!Connect, AskedProofs!Connect, Asked!Releasing,
      AskedProofs!Releasing, Asked!Locked, AskedProofs!Locked, Asked!UnlinkLock,
      AskedProofs!UnlinkLock

MovedProofs == INSTANCE IndexJobsProofs WITH Paths <- JobsOf["moved"].paths, CommandLines <- JobsOf["moved"].lines,
                Clients <- JobsOf["moved"].clients, Asks <- JobsOf["moved"].asks, MaxFiles <- JobsOf["moved"].files

(* The two instances of these jobs start and go on alike.                  *)
LEMMA MovedStarts ==
  /\ Moved!Init <=> MovedProofs!Init
  /\ [Moved!Next]_jobsVars <=> [MovedProofs!Next]_(MovedProofs!jobsVars)
  BY DEF jobsVars,
      Moved!jobsVars, MovedProofs!jobsVars, Moved!Free, MovedProofs!Free, Moved!Builders,
      MovedProofs!Builders, Moved!Files, MovedProofs!Files, Moved!Fresh,
      MovedProofs!Fresh, Moved!Off, MovedProofs!Off, Moved!NoRequest,
      MovedProofs!NoRequest, Moved!Init, MovedProofs!Init, Moved!Used, MovedProofs!Used,
      Moved!Retarget, MovedProofs!Retarget, Moved!Request, MovedProofs!Request,
      Moved!Answered, MovedProofs!Answered, Moved!Ask, MovedProofs!Ask,
      Moved!RegistersAnyway, MovedProofs!RegistersAnyway, Moved!MayRegister,
      MovedProofs!MayRegister, Moved!Register, MovedProofs!Register, Moved!BuilderAt,
      MovedProofs!BuilderAt, Moved!Resolve, MovedProofs!Resolve, Moved!CliStarts,
      MovedProofs!CliStarts, Moved!LockIgnored, MovedProofs!LockIgnored, Moved!LockFree,
      MovedProofs!LockFree, Moved!Lock, MovedProofs!Lock, Moved!NoLock,
      MovedProofs!NoLock, Moved!Commit, MovedProofs!Commit, Moved!Holds,
      MovedProofs!Holds, Moved!Marked, MovedProofs!Marked, Moved!Mark, MovedProofs!Mark,
      Moved!DropTables, MovedProofs!DropTables, Moved!CreateTables,
      MovedProofs!CreateTables, Moved!ClearMeta, MovedProofs!ClearMeta, Moved!Fill,
      MovedProofs!Fill, Moved!FillRest, MovedProofs!FillRest, Moved!WriteMeta,
      MovedProofs!WriteMeta, Moved!Overtaken, MovedProofs!Overtaken, Moved!Finish,
      MovedProofs!Finish, Moved!Building, MovedProofs!Building, Moved!Fails,
      MovedProofs!Fails, Moved!Unlock, MovedProofs!Unlock, Moved!ReportsSuccessOnly,
      MovedProofs!ReportsSuccessOnly, Moved!Reports, MovedProofs!Reports, Moved!Report,
      MovedProofs!Report, Moved!CheckDrop, MovedProofs!CheckDrop, Moved!ResolveDrop,
      MovedProofs!ResolveDrop, Moved!Unlink, MovedProofs!Unlink, Moved!MarkerOf,
      MovedProofs!MarkerOf, Moved!Info, MovedProofs!Info, Moved!Count, MovedProofs!Count,
      Moved!Meta, MovedProofs!Meta, Moved!Refuses, MovedProofs!Refuses, Moved!Again,
      MovedProofs!Again, Moved!ServerDies, MovedProofs!ServerDies, Moved!CliDies,
      MovedProofs!CliDies, Moved!BuilderStep, MovedProofs!BuilderStep, Moved!ClientStep,
      MovedProofs!ClientStep, Moved!Next, MovedProofs!Next, Moved!RecordFree,
      MovedProofs!RecordFree, Moved!WritersOf, MovedProofs!WritersOf, Moved!Joined,
      MovedProofs!Joined, Moved!Connect, MovedProofs!Connect, Moved!Releasing,
      MovedProofs!Releasing, Moved!Locked, MovedProofs!Locked, Moved!UnlinkLock,
      MovedProofs!UnlinkLock

(* Each part of IndexJobs keeps its invariant.                             *)
JobsInv ==
  /\ part = "jobs" => JobsProofs!IInv
  /\ part = "asked" => AskedProofs!IInv
  /\ part = "moved" => MovedProofs!IInv

(* The invariant of the jobs of one path, and what it says.                *)
LEMMA JobsKept ==
  /\ Jobs!Init => JobsProofs!IInv
  /\ JobsProofs!IInv /\ [Jobs!Next]_jobsVars => JobsProofs!IInv'
  /\ JobsProofs!IInv => Jobs!JobsTypeOK /\ Jobs!OneWriter /\ Jobs!InfoHonest
<1>1. JobsProofs!JobsAssumption
  BY JobsAssumption DEF JobsProofs!JobsAssumption, JobsProofs!Free, Jobs!Free
<1>2. JobsProofs!OneWriter /\ JobsProofs!InfoHonest /\ JobsProofs!JobsTypeOK => Jobs!JobsTypeOK /\ Jobs!OneWriter /\ Jobs!InfoHonest
  BY DEF Jobs!JobsTypeOK, JobsProofs!JobsTypeOK, Jobs!OneWriter, JobsProofs!OneWriter,
         Jobs!InfoHonest, JobsProofs!InfoHonest, Jobs!WritersOf, JobsProofs!WritersOf,
         Jobs!Free, JobsProofs!Free, Jobs!Builders, JobsProofs!Builders, Jobs!Files,
         JobsProofs!Files, Jobs!Building, JobsProofs!Building, Jobs!Releasing,
         JobsProofs!Releasing, Jobs!Locked, JobsProofs!Locked
<1> QED
  BY <1>1, <1>2, JobsStarts, JobsProofs!InitInv, JobsProofs!StepInv, JobsProofs!Consequences

(* The invariant of the jobs that are asked for statistics, and what it    *)
(* says.                                                                   *)
LEMMA AskedKept ==
  /\ Asked!Init => AskedProofs!IInv
  /\ AskedProofs!IInv /\ [Asked!Next]_jobsVars => AskedProofs!IInv'
  /\ AskedProofs!IInv => Asked!JobsTypeOK /\ Asked!OneWriter /\ Asked!InfoHonest
<1>1. AskedProofs!JobsAssumption
  BY JobsAssumption DEF AskedProofs!JobsAssumption, AskedProofs!Free, Jobs!Free
<1>2. AskedProofs!OneWriter /\ AskedProofs!InfoHonest /\ AskedProofs!JobsTypeOK => Asked!JobsTypeOK /\ Asked!OneWriter /\ Asked!InfoHonest
  BY DEF Asked!JobsTypeOK, AskedProofs!JobsTypeOK, Asked!OneWriter, AskedProofs!OneWriter,
         Asked!InfoHonest, AskedProofs!InfoHonest, Asked!WritersOf, AskedProofs!WritersOf,
         Asked!Free, AskedProofs!Free, Asked!Builders, AskedProofs!Builders, Asked!Files,
         AskedProofs!Files, Asked!Building, AskedProofs!Building, Asked!Releasing,
         AskedProofs!Releasing, Asked!Locked, AskedProofs!Locked
<1> QED
  BY <1>1, <1>2, AskedStarts, AskedProofs!InitInv, AskedProofs!StepInv, AskedProofs!Consequences

(* The invariant of the jobs of a project that moves, and what it says.    *)
LEMMA MovedKept ==
  /\ Moved!Init => MovedProofs!IInv
  /\ MovedProofs!IInv /\ [Moved!Next]_jobsVars => MovedProofs!IInv'
  /\ MovedProofs!IInv => Moved!JobsTypeOK /\ Moved!OneWriter /\ Moved!InfoHonest
<1>1. MovedProofs!JobsAssumption
  BY JobsAssumption DEF MovedProofs!JobsAssumption, MovedProofs!Free, Jobs!Free
<1>2. MovedProofs!OneWriter /\ MovedProofs!InfoHonest /\ MovedProofs!JobsTypeOK => Moved!JobsTypeOK /\ Moved!OneWriter /\ Moved!InfoHonest
  BY DEF Moved!JobsTypeOK, MovedProofs!JobsTypeOK, Moved!OneWriter, MovedProofs!OneWriter,
         Moved!InfoHonest, MovedProofs!InfoHonest, Moved!WritersOf, MovedProofs!WritersOf,
         Moved!Free, MovedProofs!Free, Moved!Builders, MovedProofs!Builders, Moved!Files,
         MovedProofs!Files, Moved!Building, MovedProofs!Building, Moved!Releasing,
         MovedProofs!Releasing, Moved!Locked, MovedProofs!Locked
<1> QED
  BY <1>1, <1>2, MovedStarts, MovedProofs!InitInv, MovedProofs!StepInv, MovedProofs!Consequences

(* Two threads of the server never write to one index file, nor two        *)
(* processes unless the lock file of one was unlinked by a builder that    *)
(* had given up the lock before; and info reports the statistics of whole  *)
(* indexes only, unless two builders were in the index or it was rebuilt   *)
(* or dropped between the two looks; for any paths, processes, requests    *)
(* and files (rlm_index and _rlm_index in server.py, _BuildLock in         *)
(* bsl_index.py).                                                          *)
THEOREM JobsAreHonest == Spec => []JobsHonest
<1>1. Init => JobsInv
  BY JobsKept, AskedKept, MovedKept DEF Init, JobsInv
<1>2. JobsInv /\ [Next]_vars => JobsInv'
  BY JobsOnly, JobsKept, AskedKept, MovedKept DEF JobsInv
<1>3. JobsInv => JobsHonest
  BY JobsKept, AskedKept, MovedKept DEF JobsInv, JobsHonest
<1>4. QED
  BY <1>1, <1>2, <1>3, PTL DEF Spec

(* Caller and broker agree on whose a worker is, for any finite set of     *)
(* callers: an owned worker lives and no broker has it, and one that lives *)
(* and is not owned is in the hands of a broker or has been answered to a  *)
(* caller that has not given up (_LinuxSpawnBroker._run,                   *)
(* _finish_abandoned_request and _start_process).                          *)
THEOREM WorkersOwned == Spec => []WorkerHasOneOwner
<1>1. BrokerProofs!CallersAssumption
  BY CallersAssumption DEF BrokerProofs!CallersAssumption, Broker!NoCaller, BrokerProofs!NoCaller,
     BrokerProofs!IsFiniteSet, IsFiniteSet
<1>2. Init => BrokerProofs!IInv
  BY <1>1, BrokerStarts, BrokerProofs!InitIInv DEF Init
<1>3. BrokerProofs!IInv /\ [Next]_vars => (BrokerProofs!IInv)'
  BY <1>1, BrokerStarts, BrokerOnly, BrokerProofs!StepInv
<1>4. BrokerProofs!IInv => WorkerHasOneOwner
  BY BrokerSafe
<1>5. QED
  BY <1>2, <1>3, <1>4, PTL DEF Spec
===============================================================================
