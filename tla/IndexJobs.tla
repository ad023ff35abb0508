------------------------------ MODULE IndexJobs ------------------------------
(***************************************************************************)
(* rlm_index of server.py: build runs in a background thread with an entry *)
(* in the job table, while other requests drop the index or ask for it.    *)
(* The requests resolve a project of the registry that may be given        *)
(* another directory at any moment, the index is built in place in         *)
(* separate commits (bsl_index.py), and the command line builds without    *)
(* a job.  An index here is a file; a builder or reader keeps the one it   *)
(* opened even when drop unlinked it.  The lock of an index is a file too, *)
(* and a release unlinks whatever file has its name by then, so builders   *)
(* of two processes may both hold it (see BuildLock); a record excludes    *)
(* the threads of one process from each other.                             *)
(***************************************************************************)
EXTENDS Integers, FiniteSets

CONSTANTS Paths,     \* directories the project may be registered with
          CommandLines,  \* processes that build without a job
          Clients,   \* request threads of the server
          Asks,      \* kinds of request: "register" (build), "check drop", "info"
          MaxFiles   \* bound on index files in use at once

VARIABLES registered,   \* the directory of the project
          job,          \* _build_jobs: the status per path
          builder,      \* the background thread of a job, or the command line
          lockOf,       \* who has locked the lock file a path names now
          dbOf,         \* the index file of a path, 0: none
          content,      \* what each file holds
          client        \* what each request is doing
jobsVars == <<registered, job, builder, lockOf, dbOf, content, client>>

Free == "free"
Builders == Paths \union CommandLines
Files == 1..MaxFiles
Fresh == [marker |-> FALSE, tables |-> "none", meta |-> FALSE,
          shared |-> FALSE]   \* history: builders were in it at once, and none has begun alone since
Off == [at |-> "off", path |-> Free, file |-> 0,
        nameless |-> FALSE]   \* the lock file it holds was unlinked
NoRequest == [at |-> "idle", path |-> Free, file |-> 0, rows |-> "", meta |-> FALSE,
              answer |-> "none", overtaken |-> FALSE]

Init ==
    /\ registered \in Paths
    /\ job = [p \in Paths |-> "none"]
    /\ builder = [b \in Builders |-> Off]
    /\ lockOf = [p \in Paths |-> Free]
    /\ dbOf = [p \in Paths |-> 0]
    /\ content = [f \in Files |-> Fresh]
    /\ client = [c \in Clients |-> NoRequest]

(* A file that nothing names and nobody has open is gone. *)
Used == {dbOf[p] : p \in Paths} \union {builder[b].file : b \in Builders} \union {client[c].file : c \in Clients}

(* rlm_projects changes the directory. *)
Retarget ==
    /\ registered' \in Paths \ {registered}
    /\ UNCHANGED <<job, builder, lockOf, dbOf, content, client>>

Request(c, at, p) == client' = [client EXCEPT ![c] = [NoRequest EXCEPT !.at = at, !.path = p]]
Answered(c) == client' = [client EXCEPT ![c] = NoRequest]

-----------------------------------------------------------------------------
(* build: the project is resolved, then a job registered for its path.     *)
Ask(c) ==
    /\ client[c].at = "idle"
    /\ \E at \in Asks : Request(c, at, registered)
    /\ UNCHANGED <<registered, job, builder, lockOf, dbOf, content>>

(* Under _build_jobs_lock: finished jobs may be purged, a running one      *)
(* refuses the request, else the thread of the job starts.                 *)
RegistersAnyway(p) == TRUE
MayRegister(p) == job[p] # "building"

Register(c) ==
    /\ client[c].at = "register"
    /\ Answered(c)
    /\ \E old \in SUBSET {p \in Paths : job[p] \in {"done", "error"}} :
         LET purged == [p \in Paths |-> IF p \in old THEN "none" ELSE job[p]]
             p == client[c].path IN
           IF MayRegister(p)
           THEN /\ job' = [purged EXCEPT ![p] = "building"]
                /\ builder' = [builder EXCEPT ![p] = [Off EXCEPT !.at = "resolve"]]
           ELSE job' = purged /\ UNCHANGED builder
    /\ UNCHANGED <<registered, lockOf, dbOf, content>>

BuilderAt(b, at) == builder' = [builder EXCEPT ![b].at = at]

(* _bg calls _rlm_index, which resolves the project once more. *)
Resolve(b) ==
    /\ builder[b].at = "resolve"
    /\ builder' = [builder EXCEPT ![b].at = "lock", ![b].path = registered]
    /\ UNCHANGED <<registered, job, lockOf, dbOf, content, client>>

CliStarts(l) ==
    /\ builder[l].at = "off"
    /\ \E p \in Paths : builder' = [builder EXCEPT ![l] = [Off EXCEPT !.at = "lock", !.path = p]]
    /\ UNCHANGED <<registered, job, lockOf, dbOf, content, client>>

Building == {"mark", "drop", "create", "clear", "fill", "fill the rest", "write meta", "finish"}
Releasing == {"unlink built", "unlink not built"}
Locked == Building \union Releasing \union {"connect", "built", "not built"}

(* _active_locks has the key of a thread of the server, and                *)
(* _active_locks_lock is held, until its release is over.                  *)
RecordFree(b) == b \in Paths => ~\E a \in Paths : builder[a].at \in Locked /\ builder[a].path = builder[b].path

(* Nobody has locked the file that has the name now.                       *)
LockIgnored(p) == TRUE
LockFree(p) == lockOf[p] = Free

Lock(b) ==
    /\ builder[b].at = "lock" /\ RecordFree(b) /\ LockFree(builder[b].path)
    /\ lockOf' = [lockOf EXCEPT ![builder[b].path] = b]
    /\ BuilderAt(b, "connect")
    /\ UNCHANGED <<registered, job, dbOf, content, client>>

(* Another thread or process has the lock, or its file cannot be opened.   *)
NoLock(b) ==
    /\ builder[b].at = "lock"
    /\ BuilderAt(b, "failed")
    /\ UNCHANGED <<registered, job, lockOf, dbOf, content, client>>

WritersOf(f) == {b \in Builders : builder[b].at \in Building /\ builder[b].file = f}
Joined(f) == [content[f] EXCEPT !.shared = @ \/ WritersOf(f) # {}]

(* sqlite3.connect opens the file of the index or creates one; the parse   *)
(* follows.                                                                *)
Connect(b) ==
    /\ builder[b].at = "connect"
    /\ LET p == builder[b].path IN
         \E f \in IF dbOf[p] # 0 THEN {dbOf[p]} ELSE Files \ Used :
           /\ builder' = [builder EXCEPT ![b].at = "mark", ![b].file = f]
           /\ dbOf' = [dbOf EXCEPT ![p] = f]
           /\ content' = [content EXCEPT ![f] = IF dbOf[p] = f THEN Joined(f) ELSE Fresh]
    /\ UNCHANGED <<registered, job, lockOf, client>>

(* From here on each commit is a step of its own.  After a commit into a   *)
(* file that two builders have been in, rows of the other may be there or  *)
(* be gone.                                                                *)
Commit(b, from, new, to) ==
    /\ builder[b].at = from
    /\ \E tables \in {new.tables} \union (IF new.shared THEN {"some"} ELSE {}) :
         content' = [content EXCEPT ![builder[b].file] = [new EXCEPT !.tables = tables]]
    /\ BuilderAt(b, to)
    /\ UNCHANGED <<registered, job, lockOf, dbOf, client>>

Holds(b) == content[builder[b].file]
Marked(b) == [Holds(b) EXCEPT !.marker = TRUE, !.shared = WritersOf(builder[b].file) # {b}]

(* _begin_inplace_rebuild: marker, tables dropped, created, meta cleared.  *)
Mark(b) == Commit(b, "mark", Marked(b), "drop")
DropTables(b) == Commit(b, "drop", [Holds(b) EXCEPT !.tables = "none"], "create")
CreateTables(b) == Commit(b, "create", [Holds(b) EXCEPT !.tables = "empty"], "clear")
ClearMeta(b) == Commit(b, "clear", [Holds(b) EXCEPT !.meta = FALSE], "fill")
(* Rows come in batches, index_meta last; then the success gate.           *)
Fill(b) == Commit(b, "fill", [Holds(b) EXCEPT !.tables = "some"], "fill the rest")
FillRest(b) == Commit(b, "fill the rest", [Holds(b) EXCEPT !.tables = "all"], "write meta")
WriteMeta(b) == Commit(b, "write meta", [Holds(b) EXCEPT !.meta = TRUE], "finish")

(* A request that reads a file between its own two looks at the marker is  *)
(* overtaken by a build that ends, or by a drop; and by builders that have *)
(* shared the file.                                                        *)
Overtaken(request, f) == IF request.file = f /\ f # 0 THEN [request EXCEPT !.overtaken = TRUE] ELSE request
Finish(b) ==
    /\ builder[b].at = "finish"
    /\ content' = [content EXCEPT ![builder[b].file].marker = FALSE]
    /\ BuilderAt(b, "built")
    /\ client' = [c \in Clients |-> Overtaken(client[c], builder[b].file)]
    /\ UNCHANGED <<registered, job, lockOf, dbOf>>

Fails(b) ==
    /\ builder[b].at \in Building \union {"connect"}
    /\ BuilderAt(b, "not built")
    /\ UNCHANGED <<registered, job, lockOf, dbOf, content, client>>

(* release: the lock is given up first ...                                 *)
Unlock(b) ==
    /\ builder[b].at \in {"built", "not built"}
    /\ lockOf' = [p \in Paths |-> IF lockOf[p] = b THEN Free ELSE lockOf[p]]
    /\ BuilderAt(b, IF builder[b].at = "built" THEN "unlink built" ELSE "unlink not built")
    /\ UNCHANGED <<registered, job, dbOf, content, client>>

(* ... then the lock file of that name is unlinked, although another       *)
(* process may have locked it by now, or cannot be.                        *)
UnlinkLock(b) ==
    /\ builder[b].at \in Releasing
    /\ LET p == builder[b].path
           to == IF builder[b].at = "unlink built" THEN "succeeded" ELSE "failed" IN
         \/ /\ lockOf' = [lockOf EXCEPT ![p] = Free]
            /\ builder' = [a \in Builders |-> IF a = b THEN [builder[a] EXCEPT !.at = to, !.nameless = FALSE]
                                              ELSE IF a = lockOf[p] THEN [builder[a] EXCEPT !.nameless = TRUE]
                                              ELSE builder[a]]
         \/ UNCHANGED lockOf /\ builder' = [builder EXCEPT ![b].at = to, ![b].nameless = FALSE]
    /\ UNCHANGED <<registered, job, dbOf, content, client>>

(* The thread reports to its entry in the table, under its own key.        *)
ReportsSuccessOnly(b) == builder[b].at = "succeeded"
Reports(b) == builder[b].at \in {"succeeded", "failed"}

Report(b) ==
    /\ Reports(b)
    /\ job' = IF b \in CommandLines THEN job
              ELSE [job EXCEPT ![b] = IF builder[b].at = "succeeded" THEN "done" ELSE "error"]
    /\ builder' = [builder EXCEPT ![b] = Off]
    /\ UNCHANGED <<registered, lockOf, dbOf, content, client>>

-----------------------------------------------------------------------------
(* drop: a job that builds the resolved path refuses it; then _rlm_index   *)
(* resolves again and unlinks the file, with neither lock.                 *)
CheckDrop(c) ==
    /\ client[c].at = "check drop"
    /\ IF job[client[c].path] = "building" THEN Answered(c) ELSE Request(c, "resolve drop", client[c].path)
    /\ UNCHANGED <<registered, job, builder, lockOf, dbOf, content>>

ResolveDrop(c) ==
    /\ client[c].at = "resolve drop"
    /\ Request(c, "unlink", registered)
    /\ UNCHANGED <<registered, job, builder, lockOf, dbOf, content>>

Unlink(c) ==
    /\ client[c].at = "unlink"
    /\ dbOf' = [dbOf EXCEPT ![client[c].path] = 0]
    /\ client' = [d \in Clients |-> IF d = c THEN NoRequest ELSE Overtaken(client[d], dbOf[client[c].path])]
    /\ UNCHANGED <<registered, job, builder, lockOf, content>>

-----------------------------------------------------------------------------
(* info: the job, the file, the marker, then statistics in several queries *)
(* of one reader (rows first, index_meta later), then the marker again.    *)
MarkerOf(p) == dbOf[p] # 0 /\ content[dbOf[p]].marker

Info(c) ==
    /\ client[c].at = "info"
    /\ LET p == client[c].path IN
         IF job[p] = "building" \/ dbOf[p] = 0 \/ MarkerOf(p) THEN Answered(c)
         ELSE client' = [client EXCEPT ![c].at = "count", ![c].file = dbOf[p]]
    /\ UNCHANGED <<registered, job, builder, lockOf, dbOf, content>>

Count(c) ==
    /\ client[c].at = "count"
    /\ LET held == content[client[c].file] IN
         client' = [client EXCEPT ![c].rows = held.tables,
                                  ![c].at = IF held.tables = "none" THEN "again" ELSE "meta"]
    /\ UNCHANGED <<registered, job, builder, lockOf, dbOf, content>>

Meta(c) ==
    /\ client[c].at = "meta"
    /\ client' = [client EXCEPT ![c].meta = content[client[c].file].meta, ![c].at = "again"]
    /\ UNCHANGED <<registered, job, builder, lockOf, dbOf, content>>

Refuses(c) == MarkerOf(client[c].path) \/ ~client[c].meta

Again(c) ==
    /\ client[c].at = "again"
    /\ client' = [client EXCEPT ![c] =
         IF Refuses(c) THEN [NoRequest EXCEPT !.answer = "incomplete"]
         ELSE [NoRequest EXCEPT !.answer = "statistics", !.rows = client[c].rows,
                                !.overtaken = client[c].overtaken \/ content[client[c].file].shared]]
    /\ UNCHANGED <<registered, job, builder, lockOf, dbOf, content>>

(* The server ends; the locks of its threads end with it.  The command     *)
(* line may be killed alone.                                               *)
ServerDies ==
    /\ job' = [p \in Paths |-> "none"]
    /\ builder' = [b \in Builders |-> IF b \in CommandLines THEN builder[b] ELSE Off]
    /\ lockOf' = [p \in Paths |-> IF lockOf[p] \in CommandLines THEN lockOf[p] ELSE Free]
    /\ client' = [c \in Clients |-> NoRequest]
    /\ UNCHANGED <<registered, dbOf, content>>

CliDies(l) ==
    /\ builder[l].at # "off"
    /\ builder' = [builder EXCEPT ![l] = Off]
    /\ lockOf' = [p \in Paths |-> IF lockOf[p] = l THEN Free ELSE lockOf[p]]
    /\ UNCHANGED <<registered, job, dbOf, content, client>>

BuilderStep(b) ==
    \/ Resolve(b) \/ Lock(b) \/ NoLock(b) \/ Connect(b)
    \/ Mark(b) \/ DropTables(b) \/ CreateTables(b) \/ ClearMeta(b) \/ Fill(b) \/ FillRest(b) \/ WriteMeta(b)
    \/ Finish(b) \/ Fails(b) \/ Unlock(b) \/ UnlinkLock(b) \/ Report(b)
ClientStep(c) ==
    \/ Ask(c) \/ Register(c) \/ CheckDrop(c) \/ ResolveDrop(c) \/ Unlink(c)
    \/ Info(c) \/ Count(c) \/ Meta(c) \/ Again(c)
Next ==
    \/ Retarget \/ ServerDies
    \/ \E l \in CommandLines : CliStarts(l) \/ CliDies(l)
    \/ \E b \in Builders : BuilderStep(b)
    \/ \E c \in Clients : ClientStep(c)

Spec == Init /\ [][Next]_jobsVars

-----------------------------------------------------------------------------
JobsTypeOK ==
    /\ registered \in Paths
    /\ job \in [Paths -> {"none", "building", "done", "error"}]
    /\ lockOf \in [Paths -> Builders \union {Free}]
    /\ dbOf \in [Paths -> Files \union {0}]
    /\ content \in [Files -> [marker : BOOLEAN, tables : {"none", "empty", "some", "all"}, meta : BOOLEAN,
                              shared : BOOLEAN]]
    /\ \A b \in Builders :
         /\ builder[b].at \in Locked \union {"off", "resolve", "lock", "succeeded", "failed"}
         /\ builder[b].nameless \in BOOLEAN
         /\ builder[b].path \in Paths \union {Free} /\ builder[b].file \in Files \union {0}
    /\ \A c \in Clients : client[c].answer \in {"none", "incomplete", "statistics"}

(* However requests, drops, retargeting and the command line overlap, and  *)
(* whatever the keys of their jobs, two threads of the server never write  *)
(* to one index file; nor do two processes, unless the lock file of one    *)
(* was unlinked by a builder that had given up the lock before.            *)
OneWriter ==
    \A a, b \in Builders :
      a # b /\ {a, b} \subseteq WritersOf(builder[a].file)
        => /\ ~{a, b} \subseteq Paths
           /\ builder[a].nameless \/ builder[b].nameless

(* Statistics are only reported of a whole index, even when a build of the *)
(* command line or of another job's key clears it meanwhile, or one was    *)
(* interrupted; except when that build ended, or the index was dropped,    *)
(* between the two looks at the marker: then the rows counted may be those *)
(* of the beginning of the build; and except when two builders were in the *)
(* index at once and no build has begun alone since.                       *)
InfoHonest ==
    \A c \in Clients : client[c].answer = "statistics" /\ ~client[c].overtaken => client[c].rows = "all"

(* What the guard of drop promises: "Only genuine in-progress builds are   *)
(* blocked".  The index that a job's thread is building is not deleted.    *)
DropSparesBuild ==
    [][\A p \in Paths : dbOf[p] # 0 /\ dbOf'[p] = 0
         => ~\E b \in Paths : job[b] = "building" /\ builder[b].at \in Building /\ builder[b].path = p]_jobsVars
=============================================================================
