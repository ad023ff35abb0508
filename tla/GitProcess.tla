----------------------------- MODULE GitProcess -----------------------------
(***************************************************************************)
(* run_git on Windows (_git_process.py): git is a launcher that starts the *)
(* real program, so a call that must end in time owns a whole tree of      *)
(* processes.  The tree is put in a job at its creation, writes to files   *)
(* and not to pipes, and every handle is given back on every way out.  Any *)
(* call of the system may fail.                                            *)
(***************************************************************************)
EXTENDS Integers

CONSTANT MaxFailures   \* bound on refusals of the system in a behaviour

VARIABLES
  step, outcome,    \* of the caller
  files, child,     \* the capture files; the handles for the child
  job,              \* "none", "open", "closed", or "lost": never closed, and empty
  root, inJob,      \* "none", "alive" or "over"; the root was created in the job
  kid,              \* a process that the root started is alive
  read,             \* history: "whole" when nobody wrote to the files any more
  failures
procVars == <<step, outcome, files, child, job, root, inJob, kid, read, failures>>

Init ==
  /\ step = "open" /\ outcome = "" /\ files = FALSE /\ child = FALSE /\ job = "none"
  /\ root = "none" /\ inJob = FALSE /\ kid = FALSE /\ read = "" /\ failures = 0

Fail == failures < MaxFailures /\ failures' = failures + 1
Fine == UNCHANGED failures
Ends(how) == outcome' = how /\ step' = "unwind"

(* The files, then three handles for the child; no way back to pipes. *)
Open ==
  /\ step = "open"
  /\ \/ Fine /\ files' = TRUE /\ child' = TRUE /\ step' = "job" /\ UNCHANGED outcome
     \/ Fail /\ Ends("error") /\ files' \in BOOLEAN /\ UNCHANGED child
  /\ UNCHANGED <<job, root, inJob, kid, read>>
MakeJob ==
  /\ step = "job" /\ step' = "create"
  /\ \/ Fine /\ job' = "open"
     \/ Fail /\ UNCHANGED job
  /\ UNCHANGED <<outcome, files, child, root, inJob, kid, read>>

(* In the job; when that is refused, once more without one. *)
Create ==
  /\ step = "create"
  /\ \/ Fine /\ root' = "alive" /\ inJob' = (job = "open") /\ step' = "spawned" /\ UNCHANGED <<job, outcome>>
     \/ job = "open" /\ Fail /\ job' \in {"closed", "lost"} /\ UNCHANGED <<step, root, inJob, outcome>>
     \/ job # "open" /\ Fail /\ Ends("error") /\ UNCHANGED <<root, inJob, job>>
  /\ UNCHANGED <<files, child, kid, read>>

GivesHandles ==
  \/ child' = FALSE /\ Fine
  \/ child /\ UNCHANGED child /\ Fail
(* The handles of the child are the child's now. *)
Spawned ==
  /\ step = "spawned" /\ step' = "wait" /\ GivesHandles
  /\ UNCHANGED <<outcome, files, job, root, inJob, kid, read>>

Exited ==
  /\ step = "wait" /\ root = "over" /\ step' = "settle"
  /\ UNCHANGED <<outcome, files, child, job, root, inJob, kid, read, failures>>
(* _terminate_tree: the job, or its root where there is none or it refuses. *)
KillsTree ==
  \/ inJob /\ root' = "over" /\ kid' = FALSE /\ Fine
  \/ ~ inJob /\ root' = "over" /\ UNCHANGED kid /\ Fine
  \/ root' \in {"over", root} /\ UNCHANGED kid /\ Fail
(* Time is up, or the wait itself fails. *)
GiveUp ==
  /\ step = "wait" /\ (Ends("timeout") \/ Ends("error")) /\ KillsTree
  /\ UNCHANGED <<files, child, job, inJob, read>>

(* Closing the job kills what is still in it. *)
CloseJob ==
  \/ inJob /\ job = "open" /\ job' = "closed" /\ root' = "over" /\ kid' = FALSE /\ Fine
  \/ inJob /\ job = "open" /\ UNCHANGED <<job, root, kid>> /\ Fail
  \/ ~ (inJob /\ job = "open") /\ UNCHANGED <<job, root, kid>> /\ Fine
(* Mutated form of Settle: the files are read while the job is open. *)
SettleLater ==
  /\ step = "settle" /\ step' = "read"
  /\ UNCHANGED <<outcome, files, child, job, root, inJob, kid, read, failures>>
(* Before the files are read, so that nobody writes to them any more. *)
Settle ==
  /\ step = "settle" /\ step' = "read" /\ CloseJob
  /\ UNCHANGED <<outcome, files, child, inJob, read>>
Read ==
  /\ step = "read" /\ read' = (IF kid THEN "part" ELSE "whole") /\ Ends("done")
  /\ UNCHANGED <<files, child, job, root, inJob, kid, failures>>
(* What was acquired goes in the reverse order: the job, the handles, the files. *)
Unwind ==
  /\ step = "unwind" /\ step' = "handles" /\ CloseJob
  /\ UNCHANGED <<outcome, files, child, inJob, read>>
Unwound ==
  /\ step = "handles" /\ step' = "over" /\ GivesHandles /\ files' = FALSE
  /\ UNCHANGED <<outcome, job, root, inJob, kid, read>>

RootStarts ==
  /\ root = "alive" /\ ~ kid /\ kid' = TRUE
  /\ UNCHANGED <<step, outcome, files, child, job, root, inJob, read, failures>>
RootEnds ==
  /\ root = "alive" /\ root' = "over"
  /\ UNCHANGED <<step, outcome, files, child, job, inJob, kid, read, failures>>
KidEnds ==
  /\ kid /\ kid' = FALSE
  /\ UNCHANGED <<step, outcome, files, child, job, root, inJob, read, failures>>

Next ==
  \/ Open \/ MakeJob \/ Create \/ Spawned \/ Exited \/ GiveUp \/ Settle \/ Read \/ Unwind \/ Unwound
  \/ RootStarts \/ RootEnds \/ KidEnds

-----------------------------------------------------------------------------
(* When the system refuses nothing, no process of the tree outlives the call, *)
(* however it ends, and what is read is all that was written; one refusal     *)
(* does not leave a root behind (635-676).  No file is ever held.            *)
GitLeavesNothing ==
  /\ read = "part" => failures > 0
  /\ step = "over" =>
       /\ ~ files /\ (child => failures > 1)
       /\ kid => failures > 0
       /\ root = "alive" => failures > 1
       /\ inJob /\ (kid \/ root = "alive") => job = "open"
       /\ outcome = "done" => root = "over"
=============================================================================
