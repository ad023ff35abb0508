--------------------------- MODULE IndexJobsProofs ---------------------------
(***************************************************************************)
(* Proofs about IndexJobs, for any paths, command lines, request threads   *)
(* and number of files: however jobs, drops, retargeting and deaths        *)
(* overlap, an index file has one writer unless a lock file was unlinked   *)
(* under its holder, and statistics are of a whole index unless two        *)
(* builders were in it.                                                    *)
(***************************************************************************)
EXTENDS IndexJobs, TLAPS

(* A directory is no process, and neither is the name of nobody. *)
JobsAssumption ==
  /\ Paths \cap CommandLines = {}
  /\ Free \notin Paths \cup CommandLines
  /\ Asks \subseteq {"register", "check drop", "info"}
  /\ MaxFiles \in Nat

(* From the lock to its release. *)
Holding == Building \cup {"connect", "built", "not built"}
Reading == {"count", "meta", "again"}

Statuses == {"none", "building", "done", "error"}
Numbers == Files \cup {0}
Places == Paths \cup {Free}
BuilderSteps == Locked \cup {"off", "resolve", "lock", "succeeded", "failed"}
ClientSteps == Reading \cup {"idle", "register", "check drop", "resolve drop", "unlink", "info"}
Tables == {"none", "empty", "some", "all"}
Counts == Tables \cup {""}
Answers == {"none", "incomplete", "statistics"}

BuilderRecord == [at : BuilderSteps, path : Places, file : Numbers, nameless : BOOLEAN]
IndexRecord == [marker : BOOLEAN, tables : Tables, meta : BOOLEAN, shared : BOOLEAN]
ClientRecord == [at : ClientSteps, path : Places, file : Numbers, rows : Counts, meta : BOOLEAN,
                 answer : Answers, overtaken : BOOLEAN]

TableOK ==
  /\ registered \in Paths
  /\ job \in [Paths -> Statuses]
  /\ lockOf \in [Paths -> Builders \cup {Free}]
  /\ dbOf \in [Paths -> Numbers]
BuilderOK == builder \in [Builders -> BuilderRecord]
ContentOK == content \in [Files -> IndexRecord]
ClientOK == client \in [Clients -> ClientRecord]

(* A builder that writes to its index. *)
Writes(b) == builder[b].at \in Building

(* A job is building as long as its thread is there: no second thread takes
   its place. *)
OneThread == \A p \in Paths : builder[p].at # "off" => job[p] = "building"

(* Who writes has the lock file that the path it resolved names, or had it
   before it was unlinked. *)
Locks ==
  \A b \in Builders :
    /\ builder[b].at \in Locked \cup {"lock"} => builder[b].path \in Paths
    /\ builder[b].at \in Holding => builder[b].nameless \/ lockOf[builder[b].path] = b
    /\ Writes(b) => builder[b].file # 0

(* Threads of the server that are not through with their locks have different
   ones. *)
Recorded ==
  \A a, b \in Paths :
    a # b /\ builder[a].at \in Locked /\ builder[b].at \in Locked => builder[a].path # builder[b].path

(* A file is of one path: the one that names it, or the one a builder locked
   when it opened the file. *)
OnePath ==
  /\ \A p, q \in Paths : p # q /\ dbOf[p] # 0 => dbOf[p] # dbOf[q]
  /\ \A b \in Builders, q \in Paths : Writes(b) /\ q # builder[b].path => dbOf[q] # builder[b].file
  /\ \A a, b \in Builders :
       Writes(a) /\ Writes(b) /\ builder[a].path # builder[b].path => builder[a].file # builder[b].file

(* Builders in one index are known to have shared it. *)
Alone ==
  \A a, b \in Builders :
    a # b /\ Writes(a) /\ Writes(b) /\ builder[a].file = builder[b].file => content[builder[a].file].shared

(* Without the marker an index that nobody shared is whole, or was never
   begun. *)
Marks ==
  /\ \A b \in Builders :
       Writes(b) /\ ~content[builder[b].file].shared =>
         /\ builder[b].at \in Building \ {"mark"} => content[builder[b].file].marker
         /\ builder[b].at \in {"write meta", "finish"} => content[builder[b].file].tables = "all"
         /\ builder[b].at = "finish" => content[builder[b].file].meta
  /\ \A f \in Files :
       \/ content[f].shared \/ content[f].marker
       \/ content[f].tables = (IF content[f].meta THEN "all" ELSE "none")

(* A request that counted rows of a half-built index will find the marker, or
   that the index was shared, or is overtaken. *)
Looks ==
  \A c \in Clients :
    /\ client[c].at # "idle" => client[c].path \in Paths /\ client[c].answer = "none"
    /\ client[c].at \in {"info", "count"} => ~client[c].meta
    /\ client[c].at \in Reading =>
         /\ client[c].file # 0
         /\ client[c].overtaken \/ dbOf[client[c].path] = client[c].file
    /\ client[c].at \in {"meta", "again"} =>
         \/ client[c].overtaken \/ client[c].rows = "all"
         \/ client[c].rows = "none" /\ client[c].at = "again" /\ ~client[c].meta
         \/ content[client[c].file].marker \/ content[client[c].file].shared

Server == TableOK /\ BuilderOK /\ ContentOK /\ OneThread /\ Locks /\ Recorded /\ OnePath /\ Alone /\ Marks
Requests == ClientOK /\ Looks /\ InfoHonest
IInv == Server /\ Requests

-----------------------------------------------------------------------------
(* What the actions do to one builder, one index, one request. *)

Moved(b, x) ==
  /\ builder'[b].at = x /\ builder'[b].path = builder[b].path /\ builder'[b].file = builder[b].file
  /\ builder'[b].nameless = builder[b].nameless
  /\ \A a \in Builders \ {b} : builder'[a] = builder[a]

(* An action that moves one builder on. *)
LEMMA Moving ==
  ASSUME BuilderOK, NEW b \in Builders, NEW x \in BuilderSteps, builder' = [builder EXCEPT ![b].at = x]
  PROVE  BuilderOK' /\ Moved(b, x)
BY DEF BuilderOK, BuilderRecord, Moved

(* Requests do not disturb builders, nor builders requests. *)
LEMMA ServerKept ==
  ASSUME Server, UNCHANGED <<registered, job, builder, lockOf, dbOf, content>>
  PROVE  Server'
BY DEF Server, TableOK, BuilderOK, ContentOK, OneThread, Locks, Recorded, OnePath, Alone, Marks, Writes

(* Nor do requests notice a step that leaves indexes and their names alone. *)
LEMMA RequestsKept ==
  ASSUME Requests, UNCHANGED <<client, dbOf, content>>
  PROVE  Requests'
BY DEF Requests, ClientOK, Looks, InfoHonest

(* A builder that writes as it did before. *)
Stays(a) ==
  /\ Writes(a) /\ builder'[a].at = builder[a].at
  /\ builder'[a].path = builder[a].path /\ builder'[a].file = builder[a].file

(* A step after which fewer builders write, the others where they were. *)
Fewer == \A a \in Builders : Writes(a)' => Stays(a)

(* Such a step keeps what is known of indexes. *)
LEMMA FewerBuild ==
  ASSUME Server, UNCHANGED <<dbOf, content>>, Fewer, TableOK', BuilderOK', OneThread', Locks', Recorded'
  PROVE  Server'
<1>1. ContentOK'
  BY DEF Server, ContentOK
<1>2. OnePath'
  <2>1. \A p, q \in Paths : p # q /\ dbOf'[p] # 0 => dbOf'[p] # dbOf'[q]
    BY DEF Server, OnePath
  <2>2. ASSUME NEW b \in Builders, NEW q \in Paths, Writes(b)', q # builder'[b].path
        PROVE  dbOf'[q] # builder'[b].file
    <3>1. Stays(b)
      BY <2>2 DEF Fewer
    <3>2. QED
      BY <3>1, <2>2 DEF Server, OnePath, Stays
  <2>3. ASSUME NEW a \in Builders, NEW b \in Builders, Writes(a)', Writes(b)', builder'[a].path # builder'[b].path
        PROVE  builder'[a].file # builder'[b].file
    <3>1. Stays(a) /\ Stays(b)
      BY <2>3 DEF Fewer
    <3>2. QED
      BY <3>1, <2>3 DEF Server, OnePath, Stays
  <2>4. QED
    BY <2>1, <2>2, <2>3 DEF OnePath
<1>3. Alone'
  <2>1. ASSUME NEW a \in Builders, NEW b \in Builders, a # b, Writes(a)', Writes(b)',
               builder'[a].file = builder'[b].file
        PROVE  content'[builder'[a].file].shared
    <3>1. Stays(a) /\ Stays(b)
      BY <2>1 DEF Fewer
    <3>2. QED
      BY <3>1, <2>1 DEF Server, Alone, Stays
  <2>2. QED
    BY <2>1 DEF Alone
<1>4. Marks'
  <2>1. ASSUME NEW b \in Builders, Writes(b)', ~content'[builder'[b].file].shared
        PROVE  /\ builder'[b].at \in Building \ {"mark"} => content'[builder'[b].file].marker
               /\ builder'[b].at \in {"write meta", "finish"} => content'[builder'[b].file].tables = "all"
               /\ builder'[b].at = "finish" => content'[builder'[b].file].meta
    <3>1. Stays(b)
      BY <2>1 DEF Fewer
    <3>2. QED
      BY <3>1, <2>1 DEF Server, Marks, Stays
  <2>2. QED
    BY <2>1 DEF Server, Marks
<1>5. QED
  BY <1>1, <1>2, <1>3, <1>4 DEF Server

(* A builder's place is taken by one that writes to no index: it resolved a
   path; it has its lock, or the file of it was unlinked; no lock of another
   builder is lost; no other thread of the server has its path. *)
LEMMA Replaced ==
  ASSUME Server, NEW b \in Builders, NEW r \in BuilderRecord, builder' = [builder EXCEPT ![b] = r],
         r.at \notin Building,
         r.at \in Locked \cup {"lock"} => r.path \in Paths,
         r.at \in Holding => r.nameless \/ lockOf'[r.path] = b,
         \A a \in Builders \ {b}, p \in Paths : lockOf[p] = a => lockOf'[p] = a,
         b \in Paths /\ r.at \in Locked =>
           \A a \in Paths \ {b} : builder[a].at \in Locked => builder[a].path # r.path,
         UNCHANGED <<dbOf, content>>, TableOK', OneThread'
  PROVE  Server'
<1>1. BuilderOK' /\ builder'[b] = r /\ \A a \in Builders \ {b} : builder'[a] = builder[a]
  BY DEF Server, BuilderOK
<1>2. Fewer
  BY <1>1 DEF Fewer, Stays, Writes
<1>3. Locks'
  <2>1. ASSUME NEW a \in Builders \ {b}
        PROVE  /\ builder'[a].at \in Locked \cup {"lock"} => builder'[a].path \in Paths
               /\ builder'[a].at \in Holding => builder'[a].nameless \/ lockOf'[builder'[a].path] = a
               /\ Writes(a)' => builder'[a].file # 0
    <3>1. builder'[a] = builder[a] /\ Holding \subseteq Locked
      BY <1>1 DEF Holding, Locked
    <3>2. QED
      BY <3>1 DEF Server, Locks, Writes
  <2>2. QED
    BY <1>1, <2>1 DEF Locks, Writes
<1>4. Recorded'
  <2>1. ASSUME NEW a \in Paths, NEW c \in Paths, a # c, builder'[a].at \in Locked, builder'[c].at \in Locked
        PROVE  builder'[a].path # builder'[c].path
    <3>1. a \in Builders /\ c \in Builders
      BY DEF Builders
    <3>2. QED
      BY <3>1, <2>1, <1>1 DEF Server, Recorded
  <2>2. QED
    BY <2>1 DEF Recorded
<1>5. QED
  BY <1>1, <1>2, <1>3, <1>4, FewerBuild

(* A builder stays where it is but writes no more. *)
LEMMA MovesOutside ==
  ASSUME Server, NEW b \in Builders,
         NEW x \in {"connect", "failed", "succeeded", "built", "not built", "unlink built", "unlink not built"},
         builder' = [builder EXCEPT ![b].at = x], builder[b].at # "off", builder[b].path \in Paths,
         x \in Holding => builder[b].nameless \/ lockOf'[builder[b].path] = b,
         \A a \in Builders \ {b}, p \in Paths : lockOf[p] = a => lockOf'[p] = a,
         b \in Paths /\ x \in Locked =>
           \A a \in Paths \ {b} : builder[a].at \in Locked => builder[a].path # builder[b].path,
         UNCHANGED <<dbOf, content, job>>, TableOK'
  PROVE  Server'
<1> DEFINE r == [builder[b] EXCEPT !.at = x]
<1>1. x \in BuilderSteps /\ x \notin Building /\ x # "off"
  BY DEF BuilderSteps, Locked, Building, Releasing
<1>2. /\ r \in BuilderRecord /\ r.at = x /\ r.path = builder[b].path
      /\ r.nameless = builder[b].nameless /\ builder' = [builder EXCEPT ![b] = r]
  BY <1>1 DEF Server, BuilderOK, BuilderRecord
<1>3. OneThread'
  BY <1>1 DEF OneThread, Server, BuilderOK, BuilderRecord, Builders
<1> HIDE DEF r
<1>4. /\ r.at \notin Building
      /\ r.at \in Locked \cup {"lock"} => r.path \in Paths
      /\ r.at \in Holding => r.nameless \/ lockOf'[r.path] = b
      /\ b \in Paths /\ r.at \in Locked => \A a \in Paths \ {b} : builder[a].at \in Locked => builder[a].path # r.path
  BY <1>1, <1>2
<1>5. UNCHANGED <<dbOf, content>>
  OBVIOUS
<1>6. QED
  BY <1>2, <1>3, <1>4, <1>5, Replaced

(* A thread that has the lock of a path is the only one of the server that has. *)
LEMMA RecordedOf ==
  ASSUME Recorded, NEW b \in Paths, builder[b].at \in Locked
  PROVE  \A a \in Paths \ {b} : builder[a].at \in Locked => builder[a].path # builder[b].path
BY DEF Recorded

(* A builder that is off is a record, and in no index. *)
LEMMA NothingOpen == Off \in BuilderRecord /\ Off.at = "off" /\ "off" \notin Locked \cup Building \cup Holding \cup {"lock"}
BY DEF Off, BuilderRecord, BuilderSteps, Places, Numbers, Holding, Building, Locked, Releasing

(* The command line begins. *)
LEMMA CliStartsStep ==
  ASSUME JobsAssumption, Server, NEW l \in CommandLines, CliStarts(l)
  PROVE  Server'
<1>1. PICK p \in Paths : builder' = [builder EXCEPT ![l] = [Off EXCEPT !.at = "lock", !.path = p]]
  BY DEF CliStarts
<1> DEFINE r == [Off EXCEPT !.at = "lock", !.path = p]
<1>2. r.at = "lock" /\ r.path = p /\ r \in BuilderRecord
  BY DEF Off, BuilderRecord, BuilderSteps, Places, Numbers
<1>3. l \in Builders /\ l \notin Paths
  BY DEF Builders, JobsAssumption
<1> HIDE DEF r
<1>4. builder' = [builder EXCEPT ![l] = r]
  BY <1>1 DEF r
<1>5. "lock" \notin Locked /\ "lock" \notin Holding /\ "lock" \notin Building
  BY DEF Holding, Building, Locked, Releasing
<1>6. OneThread' /\ TableOK'
  BY <1>3, <1>4 DEF OneThread, TableOK, Server, BuilderOK, CliStarts, Builders
<1>7. QED
  BY <1>2, <1>3, <1>4, <1>5, <1>6, Replaced DEF CliStarts

(* The lock is refused, a build fails. *)
LEMMA NoLockStep ==
  ASSUME Server, NEW b \in Builders, NoLock(b)
  PROVE  Server'
<1>1. TableOK'
  BY DEF Server, TableOK, NoLock
<1>2. "failed" \notin Holding /\ "failed" \notin Locked /\ builder[b].at # "off" /\ builder[b].path \in Paths
  BY DEF Holding, Building, Locked, Releasing, NoLock, Server, Locks
<1>3. QED
  BY <1>1, <1>2, MovesOutside DEF NoLock, BuilderAt

(* The lock is taken: it is nobody's, and no thread of the server has the
   path. *)
LEMMA LockStep ==
  ASSUME JobsAssumption, Server, NEW b \in Builders, Lock(b)
  PROVE  Server'
<1>1. builder[b].path \in Paths /\ builder[b].at # "off" /\ lockOf[builder[b].path] = Free
  BY DEF Lock, LockFree, Server, Locks
<1>2. TableOK' /\ lockOf'[builder[b].path] = b
  BY <1>1 DEF Server, TableOK, Lock
<1>3. \A a \in Builders \ {b}, p \in Paths : lockOf[p] = a => lockOf'[p] = a
  BY <1>1 DEF Lock, Server, TableOK, JobsAssumption, Builders
<1>4. b \in Paths => \A a \in Paths \ {b} : builder[a].at \in Locked => builder[a].path # builder[b].path
  BY DEF Lock, RecordFree
<1>5. QED
  BY <1>1, <1>2, <1>3, <1>4, MovesOutside DEF Lock, BuilderAt

(* A build fails with the lock held. *)
LEMMA FailsStep ==
  ASSUME Server, NEW b \in Builders, Fails(b)
  PROVE  Server'
<1>1. TableOK'
  BY DEF Server, TableOK, Fails
<1>2. /\ builder[b].at \in Locked /\ builder[b].at \in Holding /\ builder[b].at # "off"
      /\ builder[b].path \in Paths
      /\ builder[b].nameless \/ lockOf'[builder[b].path] = b
  BY DEF Holding, Building, Locked, Fails, Server, Locks
<1>3. b \in Paths => \A a \in Paths \ {b} : builder[a].at \in Locked => builder[a].path # builder[b].path
  BY <1>2, RecordedOf DEF Server
<1>4. QED
  BY <1>1, <1>2, <1>3, MovesOutside DEF Fails, BuilderAt

(* The lock is given back: none of another builder is. *)
LEMMA UnlockStep ==
  ASSUME Server, NEW b \in Builders, Unlock(b)
  PROVE  Server'
<1>1. builder[b].at \in Locked /\ builder[b].at # "off" /\ builder[b].path \in Paths
  BY DEF Locked, Unlock, Server, Locks
<1>2. TableOK'
  BY DEF Server, TableOK, Unlock
<1>3. \A a \in Builders \ {b}, p \in Paths : lockOf[p] = a => lockOf'[p] = a
  BY DEF Unlock
<1>4. PICK x \in {"unlink built", "unlink not built"} : builder' = [builder EXCEPT ![b].at = x]
  BY DEF Unlock, BuilderAt
<1>5. x \notin Holding
  BY DEF Holding, Building
<1>6. b \in Paths => \A a \in Paths \ {b} : builder[a].at \in Locked => builder[a].path # builder[b].path
  BY <1>1, RecordedOf DEF Server
<1>7. QED
  BY <1>1, <1>2, <1>3, <1>4, <1>5, <1>6, MovesOutside DEF Unlock

(* The lock file is unlinked: whoever has locked it since is left with one
   that has no name. *)
LEMMA UnlinkLockStep ==
  ASSUME JobsAssumption, Server, NEW b \in Builders, UnlinkLock(b)
  PROVE  Server'
<1> DEFINE p == builder[b].path
<1>1. builder[b].at \in Releasing /\ builder[b].at # "off" /\ p \in Paths
  BY DEF UnlinkLock, Releasing, Locked, Server, Locks
<1>2. PICK to \in {"succeeded", "failed"} :
        \/ /\ lockOf' = [lockOf EXCEPT ![p] = Free]
           /\ builder' = [a \in Builders |-> IF a = b THEN [builder[a] EXCEPT !.at = to, !.nameless = FALSE]
                                             ELSE IF a = lockOf[p] THEN [builder[a] EXCEPT !.nameless = TRUE]
                                             ELSE builder[a]]
        \/ UNCHANGED lockOf /\ builder' = [builder EXCEPT ![b].at = to, ![b].nameless = FALSE]
  BY DEF UnlinkLock
<1>3. UNCHANGED <<registered, job, dbOf, content>>
  BY DEF UnlinkLock
<1>4. TableOK'
  BY <1>1, <1>2, <1>3 DEF Server, TableOK
<1>5. \A a \in Builders : builder[a] \in BuilderRecord
  BY DEF Server, BuilderOK
<1>6. to \in BuilderSteps /\ to \notin Building /\ to \notin Locked /\ to \notin Holding /\ to # "off" /\ to # "lock"
  BY DEF BuilderSteps, Building, Locked, Releasing, Holding
<1> HIDE DEF p
<1>7. BuilderOK'
  <2>1. \A a \in Builders : [builder[a] EXCEPT !.at = to, !.nameless = FALSE] \in BuilderRecord
    BY <1>5, <1>6 DEF BuilderRecord
  <2>2. \A a \in Builders : [builder[a] EXCEPT !.nameless = TRUE] \in BuilderRecord
    BY <1>5 DEF BuilderRecord
  <2>3. CASE builder' = [builder EXCEPT ![b].at = to, ![b].nameless = FALSE]
    BY <2>1, <2>3 DEF Server, BuilderOK
  <2>4. CASE builder' = [a \in Builders |-> IF a = b THEN [builder[a] EXCEPT !.at = to, !.nameless = FALSE]
                                            ELSE IF a = lockOf[p] THEN [builder[a] EXCEPT !.nameless = TRUE]
                                            ELSE builder[a]]
    BY <2>1, <2>2, <2>4, <1>5 DEF BuilderOK
  <2>5. QED
    BY <1>2, <2>3, <2>4
<1>8. /\ builder'[b].at = to
      /\ \A a \in Builders \ {b} :
           /\ builder'[a].at = builder[a].at /\ builder'[a].path = builder[a].path /\ builder'[a].file = builder[a].file
           /\ builder[a].nameless => builder'[a].nameless
           /\ builder'[a].nameless \/ \A q \in Paths : lockOf[q] = a => lockOf'[q] = a
  <2>1. CASE UNCHANGED lockOf /\ builder' = [builder EXCEPT ![b].at = to, ![b].nameless = FALSE]
    BY <2>1, <1>5 DEF Server, BuilderOK, BuilderRecord
  <2>2. CASE /\ lockOf' = [lockOf EXCEPT ![p] = Free]
             /\ builder' = [a \in Builders |-> IF a = b THEN [builder[a] EXCEPT !.at = to, !.nameless = FALSE]
                                               ELSE IF a = lockOf[p] THEN [builder[a] EXCEPT !.nameless = TRUE]
                                               ELSE builder[a]]
    <3>1. builder'[b].at = to
      BY <2>2, <1>5 DEF BuilderRecord
    <3>2. ASSUME NEW a \in Builders \ {b}
          PROVE  /\ builder'[a].at = builder[a].at /\ builder'[a].path = builder[a].path
                 /\ builder'[a].file = builder[a].file
                 /\ builder[a].nameless => builder'[a].nameless
                 /\ a = lockOf[p] => builder'[a].nameless
      <4>1. builder'[a] = builder[a] \/ builder'[a] = [builder[a] EXCEPT !.nameless = TRUE]
        BY <2>2
      <4>2. a = lockOf[p] => builder'[a] = [builder[a] EXCEPT !.nameless = TRUE]
        BY <2>2
      <4>3. QED
        BY <4>1, <4>2, <1>5 DEF BuilderRecord
    <3>3. ASSUME NEW a \in Builders \ {b}, a # lockOf[p], NEW q \in Paths, lockOf[q] = a
          PROVE  lockOf'[q] = a
      BY <2>2, <3>3 DEF Server, TableOK
    <3>4. QED
      BY <3>1, <3>2, <3>3
  <2>3. QED
    BY <1>2, <2>1, <2>2
<1>9. Fewer
  BY <1>6, <1>8 DEF Fewer, Stays, Writes
<1>10. OneThread'
  BY <1>1, <1>3, <1>8 DEF Server, OneThread, Builders
<1>11. Locks'
  <2>1. ASSUME NEW a \in Builders \ {b}
        PROVE  /\ builder'[a].at \in Locked \cup {"lock"} => builder'[a].path \in Paths
               /\ builder'[a].at \in Holding => builder'[a].nameless \/ lockOf'[builder'[a].path] = a
               /\ Writes(a)' => builder'[a].file # 0
    <3>1. Holding \subseteq Locked
      BY DEF Holding, Locked
    <3>2. QED
      BY <3>1, <1>8 DEF Server, Locks, Writes
  <2>2. QED
    BY <2>1, <1>6, <1>8 DEF Locks, Writes
<1>12. Recorded'
  BY <1>6, <1>8 DEF Server, Recorded, Builders
<1>13. QED
  BY <1>3, <1>4, <1>7, <1>9, <1>10, <1>11, <1>12, FewerBuild

(* The command line is killed: its lock goes with it. *)
LEMMA CliDiesStep ==
  ASSUME JobsAssumption, Server, NEW l \in CommandLines, CliDies(l)
  PROVE  Server'
<1>1. l \in Builders /\ l \notin Paths
  BY DEF Builders, JobsAssumption
<1>2. TableOK'
  BY DEF Server, TableOK, CliDies
<1>3. OneThread'
  BY <1>1 DEF OneThread, Server, BuilderOK, CliDies, Builders
<1>4. \A a \in Builders \ {l}, p \in Paths : lockOf[p] = a => lockOf'[p] = a
  BY DEF CliDies
<1>5. QED
  BY <1>1, <1>2, <1>3, <1>4, NothingOpen, Replaced DEF CliDies

(* The thread of a job reports and is gone. *)
LEMMA ReportStep ==
  ASSUME JobsAssumption, Server, NEW b \in Builders, Report(b)
  PROVE  Server'
<1>1. TableOK'
  BY DEF Server, TableOK, Report, Statuses
<1>2. OneThread'
  <2>1. ASSUME NEW p \in Paths, builder'[p].at # "off" PROVE p # b /\ builder'[p] = builder[p]
    BY <2>1, NothingOpen DEF Report, Builders, Server, BuilderOK
  <2>2. ASSUME NEW p \in Paths, p # b PROVE job'[p] = job[p]
    BY <2>2 DEF Report, Server, TableOK
  <2>3. QED
    BY <2>1, <2>2 DEF OneThread, Server
<1>3. QED
  BY <1>1, <1>2, NothingOpen, Replaced DEF Report

(* The thread resolves its project. *)
LEMMA ResolveStep ==
  ASSUME Server, NEW b \in Builders, Resolve(b)
  PROVE  Server'
<1> DEFINE r == [builder[b] EXCEPT !.at = "lock", !.path = registered]
<1>1. TableOK' /\ registered \in Paths
  BY DEF Server, TableOK, Resolve
<1>2. r \in BuilderRecord /\ r.at = "lock" /\ r.path = registered /\ builder' = [builder EXCEPT ![b] = r]
  BY <1>1 DEF Server, BuilderOK, BuilderRecord, Resolve, BuilderSteps, Places
<1> HIDE DEF r
<1>3. "lock" \notin Locked /\ "lock" \notin Holding /\ "lock" \notin Building /\ builder[b].at # "off"
  BY DEF Holding, Building, Locked, Releasing, Resolve
<1>4. OneThread'
  BY <1>2, <1>3 DEF OneThread, Server, BuilderOK, Builders, Resolve
<1>5. /\ r.at \notin Building /\ r.at \notin Holding /\ r.at \notin Locked /\ r.path \in Paths
      /\ UNCHANGED <<lockOf, dbOf, content>>
  BY <1>1, <1>2, <1>3 DEF Resolve
<1>6. QED
  BY <1>1, <1>2, <1>4, <1>5, Replaced

(* The server ends, and its threads with it. *)
LEMMA ServerDiesBuilders ==
  ASSUME JobsAssumption, Server, ServerDies
  PROVE  Server'
<1>1. TableOK'
  BY DEF Server, TableOK, ServerDies, Statuses, Builders
<1>2. BuilderOK'
  BY NothingOpen DEF Server, BuilderOK, ServerDies
<1>3. \A a \in Builders : builder'[a] = IF a \in CommandLines THEN builder[a] ELSE Off
  BY DEF ServerDies
<1>4. OneThread' /\ Recorded'
  BY <1>3, NothingOpen DEF OneThread, Recorded, JobsAssumption, Builders
<1>5. Fewer
  BY <1>3, NothingOpen DEF Fewer, Stays, Writes
<1>6. Locks'
  <2>1. ASSUME NEW a \in Builders
        PROVE  /\ builder'[a].at \in Locked \cup {"lock"} => builder'[a].path \in Paths
               /\ builder'[a].at \in Holding => builder'[a].nameless \/ lockOf'[builder'[a].path] = a
               /\ Writes(a)' => builder'[a].file # 0
    <3>1. CASE a \in CommandLines
      <4>1. builder'[a] = builder[a] /\ Holding \subseteq Locked
        BY <3>1, <1>3 DEF Holding, Locked
      <4>2. \A p \in Paths : lockOf[p] = a => lockOf'[p] = a
        BY <3>1 DEF ServerDies
      <4>3. QED
        BY <4>1, <4>2 DEF Server, Locks, Writes
    <3>2. CASE a \notin CommandLines
      BY <3>2, <1>3, NothingOpen DEF Writes
    <3>3. QED
      BY <3>1, <3>2
  <2>2. QED
    BY <2>1 DEF Locks
<1>7. QED
  BY <1>1, <1>2, <1>4, <1>5, <1>6, FewerBuild DEF ServerDies

(* A project is given another directory. *)
LEMMA RetargetStep ==
  ASSUME Server, Retarget
  PROVE  Server'
<1>1. TableOK'
  BY DEF Server, TableOK, Retarget
<1>2. QED
  BY <1>1 DEF Server, Retarget, BuilderOK, ContentOK, OneThread, Locks, Recorded, OnePath, Alone, Marks, Writes

-----------------------------------------------------------------------------
(* What opening an index does: the file of the path, which others may be in,
   or a new one. *)
LEMMA Opens ==
  ASSUME Server, NEW b \in Builders, Connect(b)
  PROVE  /\ builder[b].path \in Paths /\ builder[b].at = "connect"
         /\ UNCHANGED <<registered, job, lockOf, client>>
         /\ \E f \in Files :
              /\ builder' = [builder EXCEPT ![b].at = "mark", ![b].file = f]
              /\ dbOf' = [dbOf EXCEPT ![builder[b].path] = f]
              /\ \/ dbOf[builder[b].path] = f /\ content' = [content EXCEPT ![f] = Joined(f)]
                 \/ dbOf[builder[b].path] = 0 /\ f \notin Used /\ content' = [content EXCEPT ![f] = Fresh]
<1>1. builder[b].path \in Paths /\ builder[b].at = "connect"
  BY DEF Connect, Locks, Server, Locked
<1>2. dbOf[builder[b].path] \in Numbers /\ 0 \notin Files /\ content \in [Files -> IndexRecord]
  BY <1>1 DEF Server, TableOK, ContentOK, Files
<1>3. PICK f \in IF dbOf[builder[b].path] # 0 THEN {dbOf[builder[b].path]} ELSE Files \ Used :
        /\ builder' = [builder EXCEPT ![b].at = "mark", ![b].file = f]
        /\ dbOf' = [dbOf EXCEPT ![builder[b].path] = f]
        /\ content' = [content EXCEPT ![f] = IF dbOf[builder[b].path] = f THEN Joined(f) ELSE Fresh]
  BY DEF Connect
<1>4. f \in Files
  BY <1>2, <1>3 DEF Numbers
<1>5. CASE dbOf[builder[b].path] # 0
  <2>1. dbOf[builder[b].path] = f
    BY <1>3, <1>5
  <2>2. content' = [content EXCEPT ![f] = Joined(f)]
    BY <1>3, <2>1
  <2>3. QED
    BY <1>1, <1>3, <1>4, <2>1, <2>2 DEF Connect
<1>6. CASE dbOf[builder[b].path] = 0
  BY <1>1, <1>2, <1>3, <1>4, <1>6 DEF Connect
<1>7. QED
  BY <1>5, <1>6

(* A builder opens an index: whoever writes to the file of that path shares it
   from now on, and a new file is nobody's. *)
LEMMA ConnectStep ==
  ASSUME JobsAssumption, IInv, NEW b \in Builders, Connect(b)
  PROVE  IInv'
<1> DEFINE p == builder[b].path
<1>1. PICK f \in Files :
        /\ builder' = [builder EXCEPT ![b].at = "mark", ![b].file = f]
        /\ dbOf' = [dbOf EXCEPT ![p] = f]
        /\ \/ dbOf[p] = f /\ content' = [content EXCEPT ![f] = Joined(f)]
           \/ dbOf[p] = 0 /\ f \notin Used /\ content' = [content EXCEPT ![f] = Fresh]
  BY Opens DEF IInv
<1>2. p \in Paths /\ builder[b].at = "connect" /\ UNCHANGED <<registered, job, lockOf, client>>
  BY Opens DEF IInv
<1>3. /\ f # 0 /\ f \in Numbers
      /\ "mark" \in BuilderSteps /\ "mark" \in Building /\ "mark" \in Holding /\ "mark" \in Locked
      /\ "connect" \notin Building /\ "connect" \in Holding /\ "connect" \in Locked
  BY DEF Files, Numbers, BuilderSteps, Holding, Building, Locked
<1>4. /\ BuilderOK'
      /\ builder'[b].at = "mark" /\ builder'[b].file = f /\ builder'[b].path = p
      /\ builder'[b].nameless = builder[b].nameless
      /\ \A a \in Builders \ {b} : builder'[a] = builder[a]
  BY <1>1, <1>3 DEF IInv, Server, BuilderOK, BuilderRecord
<1>5. TableOK'
  BY <1>1, <1>2, <1>3 DEF IInv, Server, TableOK
<1>6. dbOf'[p] = f /\ \A q \in Paths \ {p} : dbOf'[q] = dbOf[q]
  BY <1>1, <1>2 DEF IInv, Server, TableOK
<1> HIDE DEF p
<1>7. \A a \in Builders \ {b} : Writes(a)' = Writes(a)
  BY <1>4 DEF Writes
<1>8. ~Writes(b) /\ Writes(b)'
  BY <1>2, <1>3, <1>4 DEF Writes
<1>9. OneThread'
  BY <1>2, <1>4 DEF IInv, Server, OneThread, Builders
<1>10. Locks' /\ Recorded'
  <2>1. ASSUME NEW a \in Builders
        PROVE  /\ builder'[a].path = builder[a].path /\ builder'[a].nameless = builder[a].nameless
               /\ builder'[a].at \in Holding => builder[a].at \in Holding
               /\ builder'[a].at \in Locked => builder[a].at \in Locked
               /\ builder'[a].at = "lock" => builder[a].at = "lock"
    BY <1>2, <1>3, <1>4 DEF p
  <2>2. Locks'
    <3>1. ASSUME NEW a \in Builders, Writes(a)' PROVE builder'[a].file # 0
      BY <3>1, <1>3, <1>4, <1>7 DEF IInv, Server, Locks
    <3>2. QED
      BY <2>1, <3>1, <1>2 DEF IInv, Server, Locks
  <2>3. Recorded'
    BY <2>1 DEF IInv, Server, Recorded, Builders
  <2>4. QED
    BY <2>2, <2>3
<1>11. \A q \in Paths \ {p} : dbOf[q] # f
  <2>1. CASE dbOf[p] = f
    BY <2>1, <1>2, <1>3 DEF IInv, Server, OnePath, p
  <2>2. CASE f \notin Used
    BY <2>2 DEF Used
  <2>3. QED
    BY <1>1, <2>1, <2>2 DEF p
<1>12. \A a \in Builders : Writes(a) /\ builder[a].file = f => builder[a].path = p /\ dbOf[p] = f
  <2>1. CASE dbOf[p] = f
    BY <2>1, <1>2 DEF IInv, Server, OnePath, p
  <2>2. CASE f \notin Used
    BY <2>2 DEF Used
  <2>3. QED
    BY <1>1, <2>1, <2>2 DEF p
<1>13. OnePath'
  <2>1. ASSUME NEW q \in Paths, NEW r \in Paths, q # r, dbOf'[q] # 0 PROVE dbOf'[q] # dbOf'[r]
    BY <2>1, <1>6, <1>11 DEF IInv, Server, OnePath
  <2>2. ASSUME NEW a \in Builders, NEW q \in Paths, Writes(a)', q # builder'[a].path
        PROVE  dbOf'[q] # builder'[a].file
    <3>1. CASE a = b
      BY <3>1, <2>2, <1>4, <1>6, <1>11
    <3>2. CASE a # b
      <4>1. Writes(a) /\ builder'[a] = builder[a]
        BY <3>2, <2>2, <1>4, <1>7
      <4>2. dbOf[q] # builder[a].file /\ (builder[a].file = f => builder[a].path = p)
        BY <4>1, <2>2, <1>12 DEF IInv, Server, OnePath
      <4>3. QED
        BY <4>1, <4>2, <2>2, <1>6
    <3>3. QED
      BY <3>1, <3>2
  <2>3. ASSUME NEW a \in Builders, NEW c \in Builders, Writes(a)', Writes(c)', builder'[a].path # builder'[c].path
        PROVE  builder'[a].file # builder'[c].file
    <3>1. CASE a # b /\ c # b
      BY <3>1, <2>3, <1>4, <1>7 DEF IInv, Server, OnePath
    <3>2. CASE a = b \/ c = b
      BY <3>2, <2>3, <1>4, <1>7, <1>12
    <3>3. QED
      BY <3>1, <3>2
  <2>4. QED
    BY <2>1, <2>2, <2>3 DEF OnePath
<1>14. /\ ContentOK'
       /\ \A g \in Files \ {f} : content'[g] = content[g]
       /\ \/ /\ dbOf[p] = f /\ content'[f].tables = content[f].tables
             /\ content'[f].marker = content[f].marker /\ content'[f].meta = content[f].meta
             /\ content'[f].shared <=> content[f].shared \/ WritersOf(f) # {}
          \/ f \notin Used /\ content'[f] = Fresh
  <2>1. Fresh \in IndexRecord
    BY DEF Fresh, IndexRecord, Tables
  <2>2. content \in [Files -> IndexRecord]
    BY DEF IInv, Server, ContentOK
  <2>3. CASE dbOf[p] = f /\ content' = [content EXCEPT ![f] = Joined(f)]
    <3>1. /\ Joined(f) \in IndexRecord /\ Joined(f).tables = content[f].tables
          /\ Joined(f).marker = content[f].marker /\ Joined(f).meta = content[f].meta
          /\ Joined(f).shared <=> content[f].shared \/ WritersOf(f) # {}
      BY <2>2 DEF Joined, IndexRecord
    <3>2. ContentOK'
      BY <2>2, <2>3, <3>1 DEF ContentOK
    <3>3. QED
      BY <2>2, <2>3, <3>1, <3>2
  <2>4. CASE f \notin Used /\ content' = [content EXCEPT ![f] = Fresh]
    BY <2>1, <2>2, <2>4 DEF ContentOK
  <2>5. QED
    BY <1>1, <2>3, <2>4 DEF p
<1>15. Alone'
  <2>1. ASSUME NEW a \in Builders, NEW c \in Builders, a # c, Writes(a)', Writes(c)',
               builder'[a].file = builder'[c].file
        PROVE  content'[builder'[a].file].shared
    <3>1. CASE a # b /\ c # b /\ builder[a].file # f
      <4>1. content[builder[a].file].shared /\ builder[a].file \in Files
        BY <2>1, <3>1, <1>4, <1>7 DEF IInv, Server, Alone, Locks, BuilderOK, BuilderRecord, Numbers
      <4>2. QED
        BY <4>1, <3>1, <1>4, <1>14
    <3>2. CASE builder'[a].file = f
      <4>1. PICK d \in Builders \ {b} : Writes(d) /\ builder[d].file = f
        <5>1. CASE a # b
          BY <5>1, <3>2, <2>1, <1>4, <1>7
        <5>2. CASE a = b
          BY <5>2, <3>2, <2>1, <1>4, <1>7
        <5>3. QED
          BY <5>1, <5>2
      <4>2. d \in WritersOf(f) /\ f \in Used
        BY <4>1 DEF WritersOf, Writes, Used
      <4>3. QED
        BY <4>2, <3>2, <1>14
    <3>3. QED
      BY <3>1, <3>2, <2>1, <1>4
  <2>2. QED
    BY <2>1 DEF Alone
<1>16. Marks'
  <2>1. ASSUME NEW a \in Builders, Writes(a)', ~content'[builder'[a].file].shared
        PROVE  /\ builder'[a].at \in Building \ {"mark"} => content'[builder'[a].file].marker
               /\ builder'[a].at \in {"write meta", "finish"} => content'[builder'[a].file].tables = "all"
               /\ builder'[a].at = "finish" => content'[builder'[a].file].meta
    <3>1. CASE a = b
      BY <3>1, <1>4
    <3>2. CASE a # b
      <4>1. Writes(a) /\ builder'[a] = builder[a] /\ builder[a].file \in Files
        BY <3>2, <2>1, <1>4, <1>7 DEF IInv, Server, BuilderOK, BuilderRecord, Locks, Numbers
      <4>2. builder[a].file # f
        <5>1. ASSUME builder[a].file = f PROVE FALSE
          <6>1. a \in WritersOf(f) /\ f \in Used
            BY <4>1, <5>1 DEF WritersOf, Writes, Used
          <6>2. QED
            BY <6>1, <5>1, <4>1, <2>1, <1>14
        <5>2. QED
          BY <5>1
      <4>3. content'[builder[a].file] = content[builder[a].file]
        BY <4>1, <4>2, <1>14
      <4>4. QED
        BY <4>1, <4>3, <2>1 DEF IInv, Server, Marks
    <3>3. QED
      BY <3>1, <3>2
  <2>2. ASSUME NEW g \in Files
        PROVE  \/ content'[g].shared \/ content'[g].marker
               \/ content'[g].tables = (IF content'[g].meta THEN "all" ELSE "none")
    <3>1. ~Fresh.meta /\ Fresh.tables = "none"
      BY DEF Fresh
    <3>2. CASE g = f
      BY <3>1, <3>2, <1>14 DEF IInv, Server, Marks
    <3>3. CASE g # f
      BY <3>3, <1>14 DEF IInv, Server, Marks
    <3>4. QED
      BY <3>2, <3>3
  <2>3. QED
    BY <2>1, <2>2 DEF Marks
<1>17. ClientOK' /\ InfoHonest'
  BY <1>2 DEF IInv, Requests, ClientOK, InfoHonest
<1>18. Looks'
  <2>1. ASSUME NEW c \in Clients, client[c].at \in Reading
        PROVE  /\ content[client[c].file].marker => content'[client[c].file].marker
               /\ content[client[c].file].shared => content'[client[c].file].shared
               /\ client[c].overtaken \/ dbOf'[client[c].path] = client[c].file
    <3>1. /\ client[c].file # 0 /\ client[c].file \in Files /\ client[c].path \in Paths
          /\ client[c].overtaken \/ dbOf[client[c].path] = client[c].file
      BY <2>1 DEF IInv, Requests, Looks, ClientOK, ClientRecord, Numbers, Reading
    <3>2. client[c].file \in Used
      BY DEF Used
    <3>3. client[c].path = p /\ dbOf[p] # 0 => dbOf'[p] = dbOf[p]
      BY <1>1, <1>6 DEF p
    <3>4. QED
      BY <3>1, <3>2, <3>3, <1>6, <1>14
  <2>2. {"meta", "again"} \subseteq Reading
    BY DEF Reading
  <2>3. QED
    BY <2>1, <2>2, <1>2 DEF IInv, Requests, Looks
<1>19. QED
  BY <1>4, <1>5, <1>9, <1>10, <1>13, <1>14, <1>15, <1>16, <1>17, <1>18 DEF IInv, Server, Requests

-----------------------------------------------------------------------------
(* A step within the index of one builder, after which that builder is still
   in it: what is known of names and of builders. *)
LEMMA WithinBuild ==
  ASSUME Server, NEW b \in Builders, NEW x \in BuilderSteps, builder' = [builder EXCEPT ![b].at = x],
         Writes(b), x \in Building \cup {"built"}, UNCHANGED <<registered, job, lockOf, dbOf>>
  PROVE  /\ TableOK' /\ BuilderOK' /\ OneThread' /\ Locks' /\ Recorded' /\ OnePath' /\ Moved(b, x)
         /\ \A a \in Builders : Writes(a)' => Writes(a) /\ builder'[a].file = builder[a].file
<1>1. /\ x \in Holding /\ x \in Locked /\ x # "off" /\ x # "lock"
      /\ builder[b].at # "off" /\ builder[b].at \in Holding /\ builder[b].at \in Locked
  BY DEF Holding, Building, Locked, Writes
<1>2. BuilderOK' /\ Moved(b, x)
  BY Moving DEF Server
<1>3. \A a \in Builders :
        /\ builder'[a].path = builder[a].path /\ builder'[a].file = builder[a].file
        /\ builder'[a].nameless = builder[a].nameless
        /\ builder'[a].at \in Locked => builder[a].at \in Locked
        /\ builder'[a].at \in Holding => builder[a].at \in Holding
        /\ builder'[a].at = "lock" => builder[a].at = "lock"
        /\ builder'[a].at # "off" => builder[a].at # "off"
        /\ Writes(a)' => Writes(a)
  BY <1>1, <1>2 DEF Moved, Writes
<1>4. TableOK' /\ OneThread'
  BY <1>3 DEF Server, TableOK, OneThread, Builders
<1>5. Locks' /\ Recorded'
  BY <1>3 DEF Server, Locks, Recorded, Builders
<1>6. OnePath'
  BY <1>3 DEF Server, OnePath
<1>7. QED
  BY <1>2, <1>3, <1>4, <1>5, <1>6

(* A commit of a builder writes to its own index, where the marker is by then;
   so a request that counted rows of a half-built index still finds it.  Only
   a builder that is alone in it makes it its own again. *)
LEMMA CommitStep ==
  ASSUME IInv, NEW b \in Builders, NEW from \in Building, NEW to \in Building, NEW new \in IndexRecord,
         Commit(b, from, new, to),
         new.shared \/ new.marker,
         ~new.shared => content[builder[b].file].shared = FALSE \/ (WritersOf(builder[b].file) = {b} /\ new.marker),
         content[builder[b].file].marker => new.marker,
         to # "mark", ~new.shared /\ to \in {"write meta", "finish"} => new.tables = "all",
         ~new.shared /\ to = "finish" => new.meta
  PROVE  IInv'
<1> DEFINE f == builder[b].file
<1>1. Writes(b) /\ to \in BuilderSteps
  BY DEF Commit, Writes, BuilderSteps, Locked
<1>2. builder' = [builder EXCEPT ![b].at = to] /\ UNCHANGED <<registered, job, lockOf, dbOf, client>>
  BY DEF Commit, BuilderAt
<1>3. /\ TableOK' /\ BuilderOK' /\ OneThread' /\ Locks' /\ Recorded' /\ OnePath' /\ Moved(b, to)
      /\ \A a \in Builders : Writes(a)' => Writes(a) /\ builder'[a].file = builder[a].file
  BY <1>1, <1>2, WithinBuild DEF IInv
<1>4. f \in Files
  BY <1>1 DEF IInv, Server, Locks, BuilderOK, BuilderRecord, Numbers
<1>5. PICK tables \in {new.tables} \union (IF new.shared THEN {"some"} ELSE {}) :
        content' = [content EXCEPT ![f] = [new EXCEPT !.tables = tables]]
  BY DEF Commit
<1> HIDE DEF f
<1>6. /\ ContentOK' /\ \A g \in Files \ {f} : content'[g] = content[g]
      /\ content'[f].marker = new.marker /\ content'[f].shared = new.shared /\ content'[f].meta = new.meta
      /\ ~new.shared => content'[f].tables = new.tables
  <2>1. content \in [Files -> IndexRecord]
    BY DEF IInv, Server, ContentOK
  <2>2. tables \in Tables /\ (~new.shared => tables = new.tables)
    BY <1>5 DEF IndexRecord, Tables
  <2>3. [new EXCEPT !.tables = tables] \in IndexRecord
    BY <2>2 DEF IndexRecord
  <2>4. content'[f] = [new EXCEPT !.tables = tables]
    BY <1>4, <1>5, <2>1
  <2>5. ContentOK' /\ \A g \in Files \ {f} : content'[g] = content[g]
    BY <1>5, <2>1, <2>3 DEF ContentOK
  <2>6. QED
    BY <2>2, <2>4, <2>5 DEF IndexRecord
<1>7. \A a \in Builders : Writes(a) /\ builder[a].file = f /\ a # b => new.shared
  <2>1. ASSUME NEW a \in Builders, Writes(a), builder[a].file = f, a # b PROVE new.shared
    <3>1. content[f].shared
      BY <2>1, <1>1 DEF IInv, Server, Alone, f
    <3>2. a \in WritersOf(f)
      BY <2>1 DEF WritersOf, Writes
    <3>3. QED
      BY <3>1, <3>2, <2>1 DEF f
  <2>2. QED
    BY <2>1
<1>8. Alone'
  <2>1. ASSUME NEW a \in Builders, NEW c \in Builders, a # c, Writes(a)', Writes(c)',
               builder'[a].file = builder'[c].file
        PROVE  content'[builder'[a].file].shared
    <3>1. /\ Writes(a) /\ Writes(c) /\ builder[a].file = builder[c].file /\ builder'[a].file = builder[a].file
          /\ builder[a].file \in Files
      BY <2>1, <1>3 DEF IInv, Server, Locks, BuilderOK, BuilderRecord, Numbers
    <3>2. CASE builder[a].file = f
      <4>1. new.shared
        BY <3>1, <3>2, <2>1, <1>7
      <4>2. QED
        BY <3>1, <3>2, <4>1, <1>6
    <3>3. CASE builder[a].file # f
      BY <3>1, <3>3, <2>1, <1>6 DEF IInv, Server, Alone
    <3>4. QED
      BY <3>2, <3>3
  <2>2. QED
    BY <2>1 DEF Alone
<1>9. Marks'
  <2>1. ASSUME NEW a \in Builders, Writes(a)', ~content'[builder'[a].file].shared
        PROVE  /\ builder'[a].at \in Building \ {"mark"} => content'[builder'[a].file].marker
               /\ builder'[a].at \in {"write meta", "finish"} => content'[builder'[a].file].tables = "all"
               /\ builder'[a].at = "finish" => content'[builder'[a].file].meta
    <3>1. CASE a = b
      BY <3>1, <2>1, <1>3, <1>6 DEF Moved, f
    <3>2. CASE a # b
      <4>1. Writes(a) /\ builder'[a] = builder[a] /\ builder[a].file \in Files
        BY <3>2, <2>1, <1>3 DEF Moved, IInv, Server, BuilderOK, BuilderRecord, Locks, Numbers
      <4>2. builder[a].file # f
        BY <4>1, <3>2, <2>1, <1>6, <1>7
      <4>3. content'[builder[a].file] = content[builder[a].file]
        BY <4>1, <4>2, <1>6
      <4>4. QED
        BY <4>1, <4>3, <2>1 DEF IInv, Server, Marks
    <3>3. QED
      BY <3>1, <3>2
  <2>2. ASSUME NEW g \in Files
        PROVE  \/ content'[g].shared \/ content'[g].marker
               \/ content'[g].tables = (IF content'[g].meta THEN "all" ELSE "none")
    <3>1. CASE g = f
      BY <3>1, <1>6
    <3>2. CASE g # f
      BY <3>2, <1>6 DEF IInv, Server, Marks
    <3>3. QED
      BY <3>1, <3>2
  <2>3. QED
    BY <2>1, <2>2 DEF Marks
<1>10. ClientOK' /\ InfoHonest'
  BY <1>2 DEF IInv, Requests, ClientOK, InfoHonest
<1>11. Looks'
  <2>1. ASSUME NEW c \in Clients, client[c].at \in Reading,
               content[client[c].file].marker \/ content[client[c].file].shared
        PROVE  content'[client[c].file].marker \/ content'[client[c].file].shared
    <3>1. client[c].file \in Files
      BY <2>1 DEF IInv, Requests, Looks, ClientOK, ClientRecord, Numbers
    <3>2. QED
      BY <2>1, <3>1, <1>6
  <2>2. {"meta", "again"} \subseteq Reading
    BY DEF Reading
  <2>3. QED
    BY <2>1, <2>2, <1>2 DEF IInv, Requests, Looks
<1>12. QED
  BY <1>3, <1>6, <1>8, <1>9, <1>10, <1>11 DEF IInv, Server, Requests

(* Every commit of a rebuild is such a commit. *)
LEMMA CommitsStep ==
  ASSUME IInv, NEW b \in Builders,
         \/ Mark(b) \/ DropTables(b) \/ CreateTables(b) \/ ClearMeta(b)
         \/ Fill(b) \/ FillRest(b) \/ WriteMeta(b)
  PROVE  IInv'
<1>1. builder[b].at \in Building
  BY DEF Mark, DropTables, CreateTables, ClearMeta, Fill, FillRest, WriteMeta, Commit, Building
<1>2. Holds(b) \in IndexRecord
  <2>1. builder[b].file \in Files
    BY <1>1 DEF IInv, Server, Locks, Writes, BuilderOK, BuilderRecord, Numbers
  <2>2. QED
    BY <2>1 DEF IInv, Server, ContentOK, Holds
<1>3. /\ ~Holds(b).shared /\ builder[b].at # "mark" => Holds(b).marker
      /\ ~Holds(b).shared /\ builder[b].at = "write meta" => Holds(b).tables = "all"
  BY <1>1 DEF IInv, Server, Marks, Holds, Writes
<1> DEFINE h == Holds(b)
<1> HIDE DEF h
<1>4. /\ h \in IndexRecord /\ h = Holds(b) /\ h = content[builder[b].file]
      /\ h.shared \in BOOLEAN
  BY <1>2 DEF h, Holds, IndexRecord
<1>5. CASE Mark(b)
  <2>1. /\ Marked(b) \in IndexRecord /\ Marked(b).marker
        /\ ~Marked(b).shared => WritersOf(builder[b].file) = {b}
    BY <1>2 DEF Marked, IndexRecord
  <2>2. QED
    BY <1>5, <2>1, CommitStep DEF Mark, Building
<1>6. CASE DropTables(b)
  <2> DEFINE n == [h EXCEPT !.tables = "none"]
  <2>1. n \in IndexRecord /\ n.marker = h.marker /\ n.shared = h.shared
    BY <1>4 DEF IndexRecord, Tables
  <2>2. Commit(b, "drop", n, "create")
    BY <1>6, <1>4 DEF DropTables
  <2> HIDE DEF n
  <2>3. n.shared \/ n.marker
    BY <2>1, <2>2, <1>3, <1>4 DEF Commit
  <2>4. QED
    BY <2>1, <2>2, <2>3, <1>4, CommitStep DEF Building
<1>7. CASE CreateTables(b)
  <2> DEFINE n == [h EXCEPT !.tables = "empty"]
  <2>1. n \in IndexRecord /\ n.marker = h.marker /\ n.shared = h.shared
    BY <1>4 DEF IndexRecord, Tables
  <2>2. Commit(b, "create", n, "clear")
    BY <1>7, <1>4 DEF CreateTables
  <2> HIDE DEF n
  <2>3. n.shared \/ n.marker
    BY <2>1, <2>2, <1>3, <1>4 DEF Commit
  <2>4. QED
    BY <2>1, <2>2, <2>3, <1>4, CommitStep DEF Building
<1>8. CASE ClearMeta(b)
  <2> DEFINE n == [h EXCEPT !.meta = FALSE]
  <2>1. n \in IndexRecord /\ n.marker = h.marker /\ n.shared = h.shared
    BY <1>4 DEF IndexRecord, Tables
  <2>2. Commit(b, "clear", n, "fill")
    BY <1>8, <1>4 DEF ClearMeta
  <2> HIDE DEF n
  <2>3. n.shared \/ n.marker
    BY <2>1, <2>2, <1>3, <1>4 DEF Commit
  <2>4. QED
    BY <2>1, <2>2, <2>3, <1>4, CommitStep DEF Building
<1>9. CASE Fill(b)
  <2> DEFINE n == [h EXCEPT !.tables = "some"]
  <2>1. n \in IndexRecord /\ n.marker = h.marker /\ n.shared = h.shared
    BY <1>4 DEF IndexRecord, Tables
  <2>2. Commit(b, "fill", n, "fill the rest")
    BY <1>9, <1>4 DEF Fill
  <2> HIDE DEF n
  <2>3. n.shared \/ n.marker
    BY <2>1, <2>2, <1>3, <1>4 DEF Commit
  <2>4. QED
    BY <2>1, <2>2, <2>3, <1>4, CommitStep DEF Building
<1>10. CASE FillRest(b)
  <2> DEFINE n == [h EXCEPT !.tables = "all"]
  <2>1. n \in IndexRecord /\ n.marker = h.marker /\ n.shared = h.shared /\ n.tables = "all"
    BY <1>4 DEF IndexRecord, Tables
  <2>2. Commit(b, "fill the rest", n, "write meta")
    BY <1>10, <1>4 DEF FillRest
  <2> HIDE DEF n
  <2>3. n.shared \/ n.marker
    BY <2>1, <2>2, <1>3, <1>4 DEF Commit
  <2>4. QED
    BY <2>1, <2>2, <2>3, <1>4, CommitStep DEF Building
<1>11. CASE WriteMeta(b)
  <2> DEFINE n == [h EXCEPT !.meta = TRUE]
  <2>1. n \in IndexRecord /\ n.marker = h.marker /\ n.shared = h.shared /\ n.tables = h.tables /\ n.meta
    BY <1>4 DEF IndexRecord
  <2>2. Commit(b, "write meta", n, "finish")
    BY <1>11, <1>4 DEF WriteMeta
  <2> HIDE DEF n
  <2>3. n.shared \/ (n.marker /\ n.tables = "all")
    BY <2>1, <2>2, <1>3, <1>4 DEF Commit
  <2>4. QED
    BY <2>1, <2>2, <2>3, <1>4, CommitStep DEF Building
<1>12. QED
  BY <1>5, <1>6, <1>7, <1>8, <1>9, <1>10, <1>11

(* The success gate: whoever reads this index between two looks at the
   marker is overtaken. *)
LEMMA FinishStep ==
  ASSUME IInv, NEW b \in Builders, Finish(b)
  PROVE  IInv'
<1> DEFINE f == builder[b].file
<1>1. /\ builder[b].at = "finish" /\ Writes(b)
      /\ "built" \in BuilderSteps /\ "built" \notin Building
  BY DEF Finish, Writes, Building, Locked, BuilderSteps
<1>2. /\ builder' = [builder EXCEPT ![b].at = "built"]
      /\ content' = [content EXCEPT ![f].marker = FALSE]
      /\ client' = [c \in Clients |-> Overtaken(client[c], f)]
      /\ UNCHANGED <<registered, job, lockOf, dbOf>>
  BY DEF Finish, BuilderAt
<1>3. /\ TableOK' /\ BuilderOK' /\ OneThread' /\ Locks' /\ Recorded' /\ OnePath' /\ Moved(b, "built")
      /\ \A a \in Builders : Writes(a)' => Writes(a) /\ builder'[a].file = builder[a].file
  BY <1>1, <1>2, WithinBuild DEF IInv
<1>4. f \in Files /\ f # 0
  BY <1>1 DEF IInv, Server, Locks, BuilderOK, BuilderRecord, Numbers
<1> HIDE DEF f
<1>5. /\ ContentOK' /\ \A g \in Files \ {f} : content'[g] = content[g]
      /\ content'[f].tables = content[f].tables /\ content'[f].meta = content[f].meta
      /\ content'[f].shared = content[f].shared
  <2>1. content \in [Files -> IndexRecord]
    BY DEF IInv, Server, ContentOK
  <2>2. QED
    BY <1>2, <1>4, <2>1 DEF ContentOK, IndexRecord
<1>6. ASSUME NEW a \in Builders, Writes(a)'
      PROVE  /\ a # b /\ builder'[a] = builder[a] /\ Writes(a) /\ builder[a].file \in Files
             /\ content'[builder[a].file].shared = content[builder[a].file].shared
             /\ builder[a].file = f => content[f].shared
             /\ builder[a].file # f => content'[builder[a].file] = content[builder[a].file]
  <2>1. a # b
    BY <1>6, <1>1, <1>3 DEF Moved, Writes
  <2>2. builder'[a] = builder[a] /\ Writes(a)
    BY <2>1, <1>6, <1>3 DEF Moved
  <2>3. builder[a].file \in Files
    BY <2>2 DEF IInv, Server, BuilderOK, BuilderRecord, Locks, Numbers
  <2>4. builder[a].file = f => content[f].shared
    BY <2>1, <2>2, <1>1 DEF IInv, Server, Alone, f
  <2>5. QED
    BY <2>1, <2>2, <2>3, <2>4, <1>5
<1>7. Alone'
  BY <1>6 DEF IInv, Server, Alone
<1>8. Marks'
  <2>1. ASSUME NEW a \in Builders, Writes(a)', ~content'[builder'[a].file].shared
        PROVE  /\ builder'[a].at \in Building \ {"mark"} => content'[builder'[a].file].marker
               /\ builder'[a].at \in {"write meta", "finish"} => content'[builder'[a].file].tables = "all"
               /\ builder'[a].at = "finish" => content'[builder'[a].file].meta
    <3>1. builder'[a] = builder[a] /\ Writes(a) /\ content'[builder[a].file] = content[builder[a].file]
      BY <2>1, <1>5, <1>6
    <3>2. QED
      BY <3>1, <2>1 DEF IInv, Server, Marks
  <2>2. content[f].shared \/ (content[f].tables = "all" /\ content[f].meta)
    BY <1>1 DEF IInv, Server, Marks, f
  <2>3. ASSUME NEW g \in Files
        PROVE  \/ content'[g].shared \/ content'[g].marker
               \/ content'[g].tables = (IF content'[g].meta THEN "all" ELSE "none")
    <3>1. CASE g = f
      BY <3>1, <2>2, <1>5
    <3>2. CASE g # f
      BY <3>2, <1>5 DEF IInv, Server, Marks
    <3>3. QED
      BY <3>1, <3>2
  <2>4. QED
    BY <2>1, <2>3 DEF Marks
<1>9. ASSUME NEW c \in Clients
       PROVE  /\ client'[c] \in ClientRecord
              /\ client'[c] = client[c] \/ (client[c].file = f /\ client'[c].overtaken)
              /\ client'[c].at = client[c].at /\ client'[c].path = client[c].path /\ client'[c].file = client[c].file
              /\ client'[c].answer = client[c].answer /\ client'[c].meta = client[c].meta
  <2>1. client[c] \in ClientRecord
    BY DEF IInv, Requests, ClientOK
  <2>2. client'[c] = client[c] \/ (client[c].file = f /\ client'[c] = [client[c] EXCEPT !.overtaken = TRUE])
    <3>1. client'[c] = Overtaken(client[c], f)
      BY <1>2
    <3>2. CASE client[c].file = f /\ f # 0
      BY <3>1, <3>2 DEF Overtaken
    <3>3. CASE ~(client[c].file = f /\ f # 0)
      <4>1. client'[c] = client[c]
        BY <3>1, <3>3 DEF Overtaken
      <4>2. QED
        BY <4>1
    <3>4. QED
      BY <3>2, <3>3
  <2>3. QED
    BY <2>1, <2>2 DEF ClientRecord
<1>10. ClientOK'
  BY <1>2, <1>9 DEF ClientOK
<1>11. InfoHonest'
  BY <1>9 DEF IInv, Requests, InfoHonest
<1>12. Looks'
  <2>1. ASSUME NEW c \in Clients, client'[c].at \in Reading, ~client'[c].overtaken
        PROVE  client'[c] = client[c] /\ content'[client[c].file] = content[client[c].file]
    <3>1. client'[c] = client[c] /\ client[c].file # f
      <4>1. client'[c] = client[c]
        BY <2>1, <1>9
      <4>2. ASSUME client[c].file = f PROVE client'[c].overtaken
        <5>1. client'[c] = [client[c] EXCEPT !.overtaken = TRUE]
          BY <4>2, <1>2, <1>4 DEF Overtaken
        <5>2. client[c] \in ClientRecord
          BY DEF IInv, Requests, ClientOK
        <5>3. QED
          BY <5>1, <5>2 DEF ClientRecord
      <4>3. QED
        BY <4>1, <4>2, <2>1
    <3>2. client[c].file \in Files
      BY <2>1, <3>1 DEF IInv, Requests, Looks, ClientOK, ClientRecord, Numbers
    <3>3. QED
      BY <3>1, <3>2, <1>5
  <2>2. {"meta", "again"} \subseteq Reading
    BY DEF Reading
  <2>3. ASSUME NEW c \in Clients
        PROVE  /\ client'[c].at # "idle" => client'[c].path \in Paths /\ client'[c].answer = "none"
               /\ client'[c].at \in {"info", "count"} => ~client'[c].meta
               /\ client'[c].at \in Reading => client'[c].file # 0
    BY <1>9 DEF IInv, Requests, Looks
  <2>4. ASSUME NEW c \in Clients, client'[c].at \in Reading, ~client'[c].overtaken
        PROVE  /\ dbOf'[client'[c].path] = client'[c].file
               /\ client'[c].at \in {"meta", "again"} =>
                    \/ client'[c].rows = "all"
                    \/ client'[c].rows = "none" /\ client'[c].at = "again" /\ ~client'[c].meta
                    \/ content'[client'[c].file].marker \/ content'[client'[c].file].shared
    BY <2>1, <2>2, <2>4, <1>2 DEF IInv, Requests, Looks
  <2>5. QED
    BY <2>2, <2>3, <2>4 DEF Looks
<1>13. QED
  BY <1>3, <1>5, <1>7, <1>8, <1>10, <1>11, <1>12 DEF IInv, Server, Requests

-----------------------------------------------------------------------------
(* Requests *)

(* A request is replaced by one that has not looked at an index. *)
LEMMA Begins ==
  ASSUME Requests, NEW c \in Clients, NEW r \in ClientRecord, client' = [client EXCEPT ![c] = r],
         r.at \notin Reading, r.at # "idle" => r.path \in Paths /\ r.answer = "none", r.answer # "statistics", ~r.meta,
         UNCHANGED <<dbOf, content>>
  PROVE  Requests'
<1>1. ClientOK' /\ client'[c] = r /\ \A d \in Clients \ {c} : client'[d] = client[d]
  BY DEF Requests, ClientOK
<1>2. {"meta", "again"} \subseteq Reading
  BY DEF Reading
<1>3. Looks'
  BY <1>1, <1>2 DEF Requests, Looks
<1>4. InfoHonest'
  BY <1>1 DEF Requests, InfoHonest
<1>5. QED
  BY <1>1, <1>3, <1>4 DEF Requests

(* A new request has looked at nothing. *)
LEMMA RequestBegins ==
  ASSUME Requests, NEW c \in Clients, NEW at \in ClientSteps \ Reading, NEW p \in Paths, Request(c, at, p),
         UNCHANGED <<dbOf, content>>
  PROVE  Requests'
<1> DEFINE r == [NoRequest EXCEPT !.at = at, !.path = p]
<1>1. r \in ClientRecord /\ r.at = at /\ r.path = p /\ r.answer = "none" /\ ~r.meta
  BY DEF NoRequest, ClientRecord, Places, Numbers, Counts, Tables, Answers
<1>2. client' = [client EXCEPT ![c] = r]
  BY DEF Request
<1> HIDE DEF r
<1>3. QED
  BY <1>1, <1>2, Begins

(* Nor has one that is answered without a look. *)
LEMMA RequestEnds ==
  ASSUME Requests, NEW c \in Clients, Answered(c), UNCHANGED <<dbOf, content>>
  PROVE  Requests'
<1>1. /\ NoRequest \in ClientRecord /\ NoRequest.at = "idle" /\ NoRequest.answer # "statistics"
      /\ ~NoRequest.meta /\ "idle" \notin Reading
  BY DEF NoRequest, ClientRecord, ClientSteps, Reading, Places, Numbers, Counts, Tables, Answers
<1>2. QED
  BY <1>1, Begins DEF Answered

(* A request resolves the project. *)
LEMMA AskStep ==
  ASSUME JobsAssumption, IInv, NEW c \in Clients, Ask(c)
  PROVE  IInv'
<1>1. PICK at \in Asks : Request(c, at, registered)
  BY DEF Ask
<1>2. at \in ClientSteps \ Reading
  BY DEF JobsAssumption, ClientSteps, Reading
<1>3. registered \in Paths
  BY DEF IInv, Server, TableOK
<1>4. QED
  BY <1>1, <1>2, <1>3, RequestBegins, ServerKept DEF Ask, IInv

(* drop is refused, or goes on. *)
LEMMA CheckDropStep ==
  ASSUME IInv, NEW c \in Clients, CheckDrop(c)
  PROVE  IInv'
<1>1. client[c].path \in Paths
  BY DEF CheckDrop, IInv, Requests, Looks
<1>2. "resolve drop" \in ClientSteps \ Reading
  BY DEF ClientSteps, Reading
<1>3. Answered(c) \/ Request(c, "resolve drop", client[c].path)
  BY DEF CheckDrop
<1>4. QED
  BY <1>1, <1>2, <1>3, RequestBegins, RequestEnds, ServerKept DEF CheckDrop, IInv

(* drop resolves the project again. *)
LEMMA ResolveDropStep ==
  ASSUME IInv, NEW c \in Clients, ResolveDrop(c)
  PROVE  IInv'
<1>1. registered \in Paths
  BY DEF IInv, Server, TableOK
<1>2. "unlink" \in ClientSteps \ Reading
  BY DEF ClientSteps, Reading
<1>3. QED
  BY <1>1, <1>2, RequestBegins, ServerKept DEF ResolveDrop, IInv

(* A request that reads an index goes on. *)
LEMMA GoesOn ==
  ASSUME Requests, NEW c \in Clients, NEW r \in ClientRecord, client' = [client EXCEPT ![c] = r],
         r.at # "idle" => r.path \in Paths /\ r.answer = "none",
         r.at \in {"info", "count"} => ~r.meta,
         r.at \in Reading => r.file # 0 /\ (r.overtaken \/ dbOf[r.path] = r.file),
         r.at \in {"meta", "again"} =>
           \/ r.overtaken \/ r.rows = "all"
           \/ r.rows = "none" /\ r.at = "again" /\ ~r.meta
           \/ content[r.file].marker \/ content[r.file].shared,
         r.answer = "statistics" /\ ~r.overtaken => r.rows = "all",
         UNCHANGED <<dbOf, content>>
  PROVE  Requests'
<1>1. ClientOK' /\ client'[c] = r /\ \A d \in Clients \ {c} : client'[d] = client[d]
  BY DEF Requests, ClientOK
<1>2. Looks'
  BY <1>1 DEF Requests, Looks
<1>3. InfoHonest'
  BY <1>1 DEF Requests, InfoHonest
<1>4. QED
  BY <1>1, <1>2, <1>3 DEF Requests

(* The first look: no build, a file, no marker. *)
LEMMA InfoStep ==
  ASSUME IInv, NEW c \in Clients, Info(c)
  PROVE  IInv'
<1> DEFINE q == client[c]
<1> DEFINE r == [client[c] EXCEPT !.at = "count", !.file = dbOf[client[c].path]]
<1>1. q \in ClientRecord /\ q.path \in Paths /\ q.at = "info" /\ q.answer = "none" /\ ~q.meta
  BY DEF Info, IInv, Requests, Looks, ClientOK
<1>2. dbOf[q.path] \in Numbers
  BY <1>1 DEF IInv, Server, TableOK
<1>3. CASE Answered(c)
  BY <1>3, RequestEnds, ServerKept DEF Info, IInv
<1>4. CASE dbOf[q.path] # 0 /\ client' = [client EXCEPT ![c] = r]
  <2>1. "count" \in ClientSteps
    BY DEF ClientSteps, Reading
  <2>2. /\ r \in ClientRecord /\ r.at = "count" /\ r.path = q.path /\ r.file = dbOf[q.path]
        /\ r.answer = q.answer /\ r.meta = q.meta
    BY <1>1, <1>2, <2>1 DEF ClientRecord
  <2> HIDE DEF r, q
  <2>3. Requests'
    <3>1. Requests /\ UNCHANGED <<dbOf, content>>
      BY DEF Info, IInv
    <3>2. QED
      BY <1>1, <1>4, <2>2, <3>1, GoesOn
  <2>4. QED
    BY <2>3, ServerKept DEF Info, IInv
<1>5. QED
  BY <1>3, <1>4 DEF Info

(* The rows are counted: of a half-built index only under the marker. *)
LEMMA CountStep ==
  ASSUME IInv, NEW c \in Clients, Count(c)
  PROVE  IInv'
<1> DEFINE q == client[c]
<1> DEFINE tables == content[q.file].tables
<1> DEFINE to == IF tables = "none" THEN "again" ELSE "meta"
<1> DEFINE r == [client[c] EXCEPT !.rows = tables, !.at = to]
<1>1. /\ q \in ClientRecord /\ q.path \in Paths /\ q.at = "count" /\ q.file # 0
      /\ q.answer = "none" /\ ~q.meta
      /\ q.overtaken \/ dbOf[q.path] = q.file
  BY DEF Count, IInv, Requests, Looks, ClientOK, Reading
<1>2. q.file \in Files
  BY <1>1 DEF ClientRecord, Numbers
<1>3. tables \in Tables /\ (tables \in {"empty", "some"} => content[q.file].marker \/ content[q.file].shared)
  BY <1>2 DEF IInv, Server, ContentOK, Marks, IndexRecord
<1>4. client' = [client EXCEPT ![c] = r]
  BY DEF Count
<1>5. /\ r \in ClientRecord /\ r.at = to /\ r.path = q.path /\ r.file = q.file /\ r.rows = tables
      /\ r.answer = q.answer /\ r.overtaken = q.overtaken /\ r.meta = q.meta
  BY <1>1, <1>3 DEF ClientRecord, ClientSteps, Reading, Counts
<1>6. (tables = "none" /\ to = "again") \/ (tables \in {"empty", "some", "all"} /\ to = "meta")
  BY <1>3 DEF Tables
<1>7. Requests /\ UNCHANGED <<dbOf, content>>
  BY DEF Count, IInv
<1> HIDE DEF q, r, to, tables
<1>8. Requests'
  BY <1>1, <1>3, <1>4, <1>5, <1>6, <1>7, GoesOn
<1>9. QED
  BY <1>8, ServerKept DEF Count, IInv

(* index_meta is looked at. *)
LEMMA MetaStep ==
  ASSUME IInv, NEW c \in Clients, Meta(c)
  PROVE  IInv'
<1> DEFINE q == client[c]
<1> DEFINE found == content[q.file].meta
<1> DEFINE r == [client[c] EXCEPT !.meta = found, !.at = "again"]
<1>1. /\ q \in ClientRecord /\ q.path \in Paths /\ q.at = "meta" /\ q.file # 0 /\ q.answer = "none"
      /\ q.overtaken \/ dbOf[q.path] = q.file
      /\ q.overtaken \/ q.rows = "all" \/ content[q.file].marker \/ content[q.file].shared
  <2>1. q.at = "meta" /\ q \in ClientRecord /\ q.at \in Reading
    BY DEF Meta, IInv, Requests, ClientOK, Reading
  <2>2. QED
    BY <2>1 DEF IInv, Requests, Looks
<1>2. q.file \in Files
  BY <1>1 DEF ClientRecord, Numbers
<1>3. found \in BOOLEAN
  BY <1>2 DEF IInv, Server, ContentOK, IndexRecord
<1>4. client' = [client EXCEPT ![c] = r]
  BY DEF Meta
<1>5. /\ r \in ClientRecord /\ r.at = "again" /\ r.path = q.path /\ r.file = q.file /\ r.rows = q.rows
      /\ r.answer = q.answer /\ r.overtaken = q.overtaken
  BY <1>1, <1>3 DEF ClientRecord, ClientSteps, Reading
<1>6. Requests /\ UNCHANGED <<dbOf, content>>
  BY DEF Meta, IInv
<1> HIDE DEF q, r, found
<1>7. Requests'
  BY <1>1, <1>4, <1>5, <1>6, GoesOn
<1>8. QED
  BY <1>7, ServerKept DEF Meta, IInv

(* The second look: nobody was overtaken, nobody has shared the index and the
   marker is gone, so it was whole when its rows were counted. *)
LEMMA AgainStep ==
  ASSUME IInv, NEW c \in Clients, Again(c)
  PROVE  IInv'
<1> DEFINE q == client[c]
<1> DEFINE overtaken == q.overtaken \/ content[q.file].shared
<1> DEFINE refused == [NoRequest EXCEPT !.answer = "incomplete"]
<1> DEFINE told == [NoRequest EXCEPT !.answer = "statistics", !.rows = q.rows, !.overtaken = overtaken]
<1>1. /\ q \in ClientRecord /\ q.file # 0
      /\ q.overtaken \/ dbOf[q.path] = q.file
      /\ \/ q.overtaken \/ q.rows = "all"
         \/ q.rows = "none" /\ ~q.meta
         \/ content[q.file].marker \/ content[q.file].shared
  <2>1. q.at = "again" /\ q \in ClientRecord /\ q.at \in Reading
    BY DEF Again, IInv, Requests, ClientOK, Reading
  <2>2. QED
    BY <2>1 DEF IInv, Requests, Looks
<1>2. ~Refuses(c) /\ ~overtaken => q.rows = "all"
  BY <1>1 DEF Refuses, MarkerOf
<1>3. overtaken \in BOOLEAN
  <2>1. q.file \in Files
    BY <1>1 DEF ClientRecord, Numbers
  <2>2. QED
    BY <2>1, <1>1 DEF IInv, Server, ContentOK, IndexRecord, ClientRecord
<1>4. client' = [client EXCEPT ![c] = IF Refuses(c) THEN refused ELSE told] /\ "idle" \notin Reading
  BY DEF Again, Reading
<1> HIDE DEF overtaken
<1>5. refused \in ClientRecord /\ refused.at = "idle" /\ refused.answer = "incomplete" /\ ~refused.meta
  BY DEF NoRequest, ClientRecord, ClientSteps, Places, Numbers, Counts, Tables, Answers
<1>6. /\ told \in ClientRecord /\ told.at = "idle" /\ told.answer = "statistics" /\ told.rows = q.rows
      /\ told.overtaken = overtaken
  BY <1>1, <1>3 DEF NoRequest, ClientRecord, ClientSteps, Places, Numbers, Counts, Tables, Answers
<1>7. Requests /\ UNCHANGED <<dbOf, content>>
  BY DEF Again, IInv
<1> HIDE DEF q, refused, told
<1>8. CASE Refuses(c)
  <2>1. client' = [client EXCEPT ![c] = refused]
    BY <1>4, <1>8
  <2>2. Requests'
    BY <2>1, <1>4, <1>5, <1>7, Begins
  <2>3. QED
    BY <2>2, ServerKept DEF Again, IInv
<1>9. CASE ~Refuses(c)
  <2>1. client' = [client EXCEPT ![c] = told]
    BY <1>4, <1>9
  <2>2. Requests'
    BY <2>1, <1>2, <1>4, <1>6, <1>7, <1>9, GoesOn
  <2>3. QED
    BY <2>2, ServerKept DEF Again, IInv
<1>10. QED
  BY <1>8, <1>9

-----------------------------------------------------------------------------
(* A job is registered: the thread of its key is gone, as no job builds. *)
LEMMA RegisterStep ==
  ASSUME JobsAssumption, IInv, NEW c \in Clients, Register(c)
  PROVE  IInv'
<1> DEFINE p == client[c].path
<1>1. p \in Paths /\ p \in Builders
  BY DEF Register, IInv, Requests, Looks, Builders
<1>2. Requests'
  BY RequestEnds DEF Register, IInv
<1>3. PICK old \in SUBSET {q \in Paths : job[q] \in {"done", "error"}} :
        LET purged == [q \in Paths |-> IF q \in old THEN "none" ELSE job[q]] IN
          IF MayRegister(p)
          THEN /\ job' = [purged EXCEPT ![p] = "building"]
               /\ builder' = [builder EXCEPT ![p] = [Off EXCEPT !.at = "resolve"]]
          ELSE job' = purged /\ UNCHANGED builder
  BY DEF Register
<1>4. UNCHANGED <<registered, lockOf, dbOf, content>> /\ job \in [Paths -> Statuses]
  BY DEF Register, IInv, Server, TableOK
<1> HIDE DEF p
<1>5. \A q \in Paths : job[q] = "building" => job'[q] = "building"
  BY <1>1, <1>3
<1>6. job' \in [Paths -> Statuses]
  BY <1>1, <1>3, <1>4 DEF Statuses
<1>7. TableOK'
  BY <1>4, <1>6 DEF IInv, Server, TableOK
<1>8. CASE MayRegister(p)
  <2> DEFINE r == [Off EXCEPT !.at = "resolve"]
  <2>1. r \in BuilderRecord /\ r.at = "resolve" /\ "resolve" \notin Holding \cup Locked \cup Building \cup {"lock"}
    BY DEF Off, BuilderRecord, BuilderSteps, Places, Numbers, Holding, Locked, Releasing, Building
  <2>2. builder' = [builder EXCEPT ![p] = r] /\ job'[p] = "building"
    BY <1>1, <1>3, <1>8
  <2> HIDE DEF r
  <2>3. OneThread'
    BY <1>1, <1>5, <2>2 DEF IInv, Server, OneThread, BuilderOK, Builders
  <2>4. UNCHANGED <<lockOf, dbOf, content>>
    BY <1>4
  <2>5. Server'
    BY <1>1, <1>4, <1>7, <2>1, <2>2, <2>3, <2>4, Replaced DEF IInv
  <2>6. QED
    BY <1>2, <2>5 DEF IInv
<1>9. CASE ~MayRegister(p)
  <2>1. UNCHANGED builder
    BY <1>3, <1>9
  <2>2. OneThread'
    BY <1>5, <2>1 DEF IInv, Server, OneThread
  <2>3. BuilderOK' /\ ContentOK' /\ Locks' /\ Recorded' /\ OnePath' /\ Alone' /\ Marks'
    BY <1>4, <2>1 DEF IInv, Server, BuilderOK, ContentOK, Locks, Recorded, OnePath, Alone, Marks, Writes
  <2>4. QED
    BY <1>2, <1>7, <2>2, <2>3 DEF IInv, Server
<1>10. QED
  BY <1>8, <1>9

(* drop: the file loses its name; whoever writes to it goes on, and whoever
   reads it is overtaken. *)
LEMMA UnlinkStep ==
  ASSUME IInv, NEW c \in Clients, Unlink(c)
  PROVE  IInv'
<1> DEFINE p == client[c].path
<1> DEFINE r == NoRequest
<1>1. p \in Paths
  BY DEF Unlink, IInv, Requests, Looks
<1>2. /\ dbOf' = [dbOf EXCEPT ![p] = 0]
      /\ client' = [d \in Clients |-> IF d = c THEN r ELSE Overtaken(client[d], dbOf[p])]
      /\ UNCHANGED <<registered, job, builder, lockOf, content>>
  BY DEF Unlink
<1>3. r \in ClientRecord /\ r.at = "idle" /\ r.answer # "statistics" /\ "idle" \notin Reading
  BY DEF NoRequest, ClientRecord, ClientSteps, Reading, Places, Numbers, Counts, Tables, Answers
<1>4. TableOK' /\ dbOf'[p] = 0 /\ \A q \in Paths \ {p} : dbOf'[q] = dbOf[q]
  BY <1>1, <1>2 DEF IInv, Server, TableOK, Numbers
<1> HIDE DEF p, r
<1>5. OnePath'
  <2>1. ASSUME NEW q \in Paths, NEW s \in Paths, q # s, dbOf'[q] # 0 PROVE dbOf'[q] # dbOf'[s]
    BY <2>1, <1>4 DEF IInv, Server, OnePath
  <2>2. ASSUME NEW b \in Builders, NEW q \in Paths, Writes(b)', q # builder'[b].path
        PROVE  dbOf'[q] # builder'[b].file
    <3>1. Writes(b) /\ builder'[b] = builder[b]
      BY <2>2, <1>2 DEF Writes
    <3>2. dbOf[q] # builder[b].file /\ builder[b].file # 0
      BY <3>1, <2>2 DEF IInv, Server, OnePath, Locks
    <3>3. QED
      BY <3>1, <3>2, <1>4
  <2>3. ASSUME NEW a \in Builders, NEW b \in Builders, Writes(a)', Writes(b)', builder'[a].path # builder'[b].path
        PROVE  builder'[a].file # builder'[b].file
    BY <2>3, <1>2 DEF IInv, Server, OnePath, Writes
  <2>4. QED
    BY <2>1, <2>2, <2>3 DEF OnePath
<1>6. Server'
  BY <1>2, <1>4, <1>5 DEF IInv, Server, BuilderOK, ContentOK, OneThread, Locks, Recorded, Alone, Marks, Writes
<1>7. ASSUME NEW d \in Clients
      PROVE  /\ client'[d] \in ClientRecord
             /\ \/ client'[d] = r
                \/ client'[d] = client[d] /\ (client[d].file # dbOf[p] \/ dbOf[p] = 0)
                \/ client'[d] = [client[d] EXCEPT !.overtaken = TRUE]
  <2>1. client[d] \in ClientRecord
    BY DEF IInv, Requests, ClientOK
  <2>2. CASE d = c
    BY <2>2, <1>2, <1>3
  <2>3. CASE d # c /\ client[d].file = dbOf[p] /\ dbOf[p] # 0
    <3>1. client'[d] = [client[d] EXCEPT !.overtaken = TRUE]
      BY <2>3, <1>2 DEF Overtaken
    <3>2. QED
      BY <3>1, <2>1 DEF ClientRecord
  <2>4. CASE d # c /\ (client[d].file # dbOf[p] \/ dbOf[p] = 0)
    <3>1. client'[d] = client[d]
      BY <2>4, <1>2 DEF Overtaken
    <3>2. QED
      BY <3>1, <2>1, <2>4
  <2>5. QED
    BY <2>2, <2>3, <2>4
<1>8. ClientOK'
  BY <1>2, <1>7 DEF ClientOK
<1>9. ASSUME NEW d \in Clients
      PROVE  \/ client'[d] = r
             \/ client'[d] = client[d] /\ (client[d].file # dbOf[p] \/ dbOf[p] = 0)
             \/ /\ client'[d].overtaken
                /\ client'[d].at = client[d].at /\ client'[d].path = client[d].path
                /\ client'[d].file = client[d].file /\ client'[d].answer = client[d].answer
                /\ client'[d].meta = client[d].meta
  <2>1. client[d] \in ClientRecord
    BY DEF IInv, Requests, ClientOK
  <2>2. CASE client'[d] = [client[d] EXCEPT !.overtaken = TRUE]
    BY <2>1, <2>2 DEF ClientRecord
  <2>3. QED
    BY <1>7, <2>2
<1>10. InfoHonest'
  BY <1>3, <1>9 DEF IInv, Requests, InfoHonest
<1>11. {"meta", "again"} \subseteq Reading /\ content' = content
  BY <1>2 DEF Reading
<1>12. Looks'
  <2>1. ASSUME NEW d \in Clients, client'[d] = client[d], client[d].file # dbOf[p] \/ dbOf[p] = 0,
               client[d].at \in Reading
        PROVE  client[d].overtaken \/ dbOf'[client[d].path] = client[d].file
    <3>1. /\ client[d].path \in Paths /\ client[d].file # 0
          /\ client[d].overtaken \/ dbOf[client[d].path] = client[d].file
      BY <2>1 DEF IInv, Requests, Looks, Reading
    <3>2. QED
      BY <3>1, <2>1, <1>4
  <2>2. QED
    BY <2>1, <1>3, <1>9, <1>11 DEF IInv, Requests, Looks
<1>13. QED
  BY <1>6, <1>8, <1>10, <1>12 DEF IInv, Requests

(* The server ends: its requests are gone. *)
LEMMA ServerDiesStep ==
  ASSUME JobsAssumption, IInv, ServerDies
  PROVE  IInv'
<1>1. Server'
  BY ServerDiesBuilders DEF IInv
<1>2. NoRequest \in ClientRecord /\ NoRequest.at = "idle" /\ NoRequest.answer # "statistics" /\ "idle" \notin Reading
  BY DEF NoRequest, ClientRecord, ClientSteps, Reading, Places, Numbers, Counts, Tables, Answers
<1>3. ClientOK' /\ \A c \in Clients : client'[c] = NoRequest
  BY <1>2 DEF ServerDies, ClientOK
<1>4. {"meta", "again"} \subseteq Reading
  BY DEF Reading
<1>5. Looks' /\ InfoHonest'
  BY <1>2, <1>3, <1>4 DEF Looks, InfoHonest
<1>6. QED
  BY <1>1, <1>3, <1>5 DEF IInv, Requests

-----------------------------------------------------------------------------
(* Nobody builds and nobody asks at the start. *)
LEMMA InitInv == JobsAssumption /\ Init => IInv
<1> SUFFICES ASSUME JobsAssumption, Init PROVE IInv
  OBVIOUS
<1>1. TableOK
  BY DEF Init, TableOK, Statuses, Numbers
<1>2. BuilderOK /\ \A b \in Builders : builder[b] = Off
  BY NothingOpen DEF Init, BuilderOK
<1>3. ContentOK /\ \A f \in Files : content[f] = Fresh
  BY DEF Init, ContentOK, IndexRecord, Fresh, Tables
<1>4. NoRequest \in ClientRecord /\ NoRequest.at = "idle" /\ NoRequest.answer # "statistics" /\ "idle" \notin Reading
  BY DEF NoRequest, ClientRecord, ClientSteps, Reading, Places, Numbers, Counts, Tables, Answers
<1>5. ClientOK /\ \A c \in Clients : client[c] = NoRequest
  BY <1>4 DEF Init, ClientOK
<1>6. OneThread /\ Locks /\ Recorded /\ Alone
  BY <1>2, NothingOpen DEF OneThread, Locks, Recorded, Alone, Writes, Builders
<1>7. OnePath
  BY <1>2, NothingOpen DEF Init, OnePath, Writes
<1>8. Marks
  <2>1. ~Fresh.meta /\ Fresh.tables = "none"
    BY DEF Fresh
  <2>2. QED
    BY <1>2, <1>3, <2>1, NothingOpen DEF Marks, Writes
<1>9. Looks /\ InfoHonest
  <2>1. {"meta", "again"} \subseteq Reading
    BY DEF Reading
  <2>2. QED
    BY <1>4, <1>5, <2>1 DEF Looks, InfoHonest
<1>10. QED
  BY <1>1, <1>2, <1>3, <1>5, <1>6, <1>7, <1>8, <1>9 DEF IInv, Server, Requests

(* Every step keeps the invariant. *)
LEMMA StepInv == JobsAssumption /\ IInv /\ [Next]_jobsVars => IInv'
<1> SUFFICES ASSUME JobsAssumption, IInv, [Next]_jobsVars PROVE IInv'
  OBVIOUS
<1>1. ASSUME Server', UNCHANGED <<client, dbOf, content>> PROVE IInv'
  BY <1>1, RequestsKept DEF IInv
<1>2. CASE Retarget
  BY <1>1, <1>2, RetargetStep DEF IInv, Retarget
<1>3. CASE ServerDies
  BY <1>3, ServerDiesStep
<1>4. ASSUME NEW l \in CommandLines, CliStarts(l) PROVE IInv'
  BY <1>1, <1>4, CliStartsStep DEF IInv, CliStarts
<1>5. ASSUME NEW l \in CommandLines, CliDies(l) PROVE IInv'
  BY <1>1, <1>5, CliDiesStep DEF IInv, CliDies
<1>6. ASSUME NEW b \in Builders, Resolve(b) PROVE IInv'
  BY <1>1, <1>6, ResolveStep DEF IInv, Resolve
<1>7. ASSUME NEW b \in Builders, Lock(b) \/ Connect(b) PROVE IInv'
  <2>1. CASE Lock(b)
    BY <1>1, <2>1, LockStep DEF IInv, Lock
  <2>2. QED
    BY <1>7, <2>1, ConnectStep
<1>8. ASSUME NEW b \in Builders, NoLock(b) PROVE IInv'
  BY <1>1, <1>8, NoLockStep DEF IInv, NoLock
<1>9. ASSUME NEW b \in Builders,
             \/ Mark(b) \/ DropTables(b) \/ CreateTables(b) \/ ClearMeta(b)
             \/ Fill(b) \/ FillRest(b) \/ WriteMeta(b)
      PROVE  IInv'
  BY <1>9, CommitsStep
<1>10. ASSUME NEW b \in Builders, Finish(b) PROVE IInv'
  BY <1>10, FinishStep
<1>11. ASSUME NEW b \in Builders, Fails(b) PROVE IInv'
  BY <1>1, <1>11, FailsStep DEF IInv, Fails
<1>12. ASSUME NEW b \in Builders, Unlock(b) \/ UnlinkLock(b) PROVE IInv'
  <2>1. CASE Unlock(b)
    BY <1>1, <2>1, UnlockStep DEF IInv, Unlock
  <2>2. CASE UnlinkLock(b)
    BY <1>1, <2>2, UnlinkLockStep DEF IInv, UnlinkLock
  <2>3. QED
    BY <1>12, <2>1, <2>2
<1>13. ASSUME NEW b \in Builders, Report(b) PROVE IInv'
  BY <1>1, <1>13, ReportStep DEF IInv, Report
<1>14. ASSUME NEW c \in Clients, Ask(c) \/ Register(c) \/ CheckDrop(c) \/ ResolveDrop(c) \/ Unlink(c) PROVE IInv'
  BY <1>14, AskStep, RegisterStep, CheckDropStep, ResolveDropStep, UnlinkStep
<1>15. ASSUME NEW c \in Clients, Info(c) \/ Count(c) \/ Meta(c) \/ Again(c) PROVE IInv'
  BY <1>15, InfoStep, CountStep, MetaStep, AgainStep
<1>16. CASE UNCHANGED jobsVars
  BY <1>1, <1>16, ServerKept DEF IInv, jobsVars
<1>17. QED
  BY <1>2, <1>3, <1>4, <1>5, <1>6, <1>7, <1>8, <1>9, <1>10, <1>11, <1>12, <1>13, <1>14, <1>15, <1>16
     DEF Next, BuilderStep, ClientStep

(* The inductive invariant holds in every reachable state. *)
THEOREM Invariance ==
  ASSUME JobsAssumption
  PROVE  Spec => []IInv
<1>1. QED
  BY InitInv, StepInv, PTL DEF Spec

(* Two builders of one file have one path: one of them took its lock after
   the lock file of the other was unlinked, and they are not two threads of
   the server. *)
LEMMA WritersApart ==
  ASSUME JobsAssumption, Server, NEW a \in Builders, NEW b \in Builders, a # b,
         {a, b} \subseteq WritersOf(builder[a].file)
  PROVE  ~{a, b} \subseteq Paths /\ (builder[a].nameless \/ builder[b].nameless)
<1>1. Writes(a) /\ Writes(b) /\ builder[b].file = builder[a].file
  BY DEF WritersOf, Writes
<1>2. builder[a].path = builder[b].path
  BY <1>1 DEF Server, OnePath
<1>3. /\ builder[a].at \in Holding /\ builder[b].at \in Holding
      /\ builder[a].at \in Locked /\ builder[b].at \in Locked
  BY <1>1 DEF Writes, Holding, Locked
<1>4. ~{a, b} \subseteq Paths
  BY <1>2, <1>3 DEF Server, Recorded
<1>5. builder[a].nameless \/ builder[b].nameless
  BY <1>2, <1>3 DEF Server, Locks
<1>6. QED
  BY <1>4, <1>5

(* What the invariant says: one writer, honest statistics, and types.        *)
LEMMA Consequences == JobsAssumption /\ IInv => OneWriter /\ InfoHonest /\ JobsTypeOK
<1> SUFFICES ASSUME JobsAssumption, IInv PROVE OneWriter /\ InfoHonest /\ JobsTypeOK
  OBVIOUS
<1>1. OneWriter
  BY WritersApart DEF IInv, OneWriter
<1>2. InfoHonest
  BY DEF IInv, Requests
<1>3. JobsTypeOK
  <2>1. \A b \in Builders : builder[b] \in BuilderRecord
    BY DEF IInv, Server, BuilderOK
  <2>2. \A c \in Clients : client[c] \in ClientRecord
    BY DEF IInv, Requests, ClientOK
  <2>3. QED
    BY <2>1, <2>2
    DEF IInv, Server, TableOK, ContentOK, JobsTypeOK, BuilderRecord, ClientRecord, IndexRecord,
        BuilderSteps, Places, Numbers, Statuses, Tables, Answers
<1>4. QED
  BY <1>1, <1>2, <1>3

(* Two threads of the server never write to one index file, whatever their   *)
(* jobs are keyed by, and although drop unlinks files under them; nor do a   *)
(* thread and the command line, or two command lines, unless the lock file   *)
(* of one of them was unlinked by the builder before it, which had given up  *)
(* the lock but not yet removed the file (_BuildLock.release).               *)
THEOREM SingleWriter ==
  ASSUME JobsAssumption
  PROVE  Spec => []OneWriter
  BY Invariance, Consequences, PTL

(* Statistics are of a whole index, although no lock keeps the builders of   *)
(* any process away from info; unless the build ended or the index           *)
(* was dropped between its two looks at the marker, or two builders were in  *)
(* the index at once and none has begun alone since.                         *)
THEOREM StatisticsOfWholeIndex ==
  ASSUME JobsAssumption
  PROVE  Spec => []InfoHonest
  BY Invariance, Consequences, PTL

(* The tables of the server, the indexes and the requests keep their types.  *)
THEOREM TypeCorrect ==
  ASSUME JobsAssumption
  PROVE  Spec => []JobsTypeOK
  BY Invariance, Consequences, PTL

=============================================================================
