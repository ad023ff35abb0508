----------------------------- MODULE IndexMoves -----------------------------
(***************************************************************************)
(* Where the index of a project lies (bsl_index.py get_index_db_path): in   *)
(* a directory of its own below a root that the environment chooses, under  *)
(* one of two names.  A server and every command move the directories of    *)
(* the root of earlier releases to the present one when they start          *)
(* (migrate_legacy_index_root), several of them at once and each of them    *)
(* mortal; a build and every look first give the file its present name      *)
(* (_migrate_old_index_db).  Directories of projects do not touch one       *)
(* another, so there is one here.                                           *)
(*                                                                          *)
(* A file of the index is 0 (absent), -1 (half written) or the number of    *)
(* the build it holds; 1 is the one made by an earlier release.             *)
(***************************************************************************)
EXTENDS Integers, FiniteSets

CONSTANTS
  Movers,    (* processes that start *)
  Rule,      (* mover -> which rule gave it the root: "RLM_INDEX_DIR", "RLM_CONFIG_FILE" or "default" *)
  Users      (* processes that look for the index where it should be now, and then build it *)

Names == {"bsl_index.db", "method_index.db"}
Present == "bsl_index.db"
Old == "method_index.db"
Places == {"legacy", "new", "inside"}   \* the third: a directory of its name inside of the new one

VARIABLES
  device,    (* the two roots lie on "one" device or on "two" *)
  dirs,      (* the directories that exist *)
  files,     (* place -> name -> file *)
  at,        (* mover -> where it stands *)
  to,        (* mover -> where it copies to *)
  on,        (* user -> where it stands *)
  name,      (* user -> the name it was told *)
  saw,       (* user -> the files when it was told *)
  failed,    (* a process died, a rename was refused *)
  copiers,   (* movers that copied *)
  mixed      (* a build wrote the file a copy was writing *)
vars == <<device, dirs, files, at, to, on, name, saw, failed, copiers, mixed>>

NoFiles == [n \in Names |-> 0]
HasIndex(d) == d \in dirs /\ \E n \in Names : files[d][n] # 0
Whole(d) == d \in dirs /\ \E n \in Names : files[d][n] > 0
Go(m, pc) == at' = [at EXCEPT ![m] = pc]

-----------------------------------------------------------------------------
(* A process that starts.                                                   *)

\* A root the user named is left alone, and the default one is the legacy root itself.
List(m) ==
  /\ at[m] = "start"
  /\ Go(m, IF Rule[m] = "RLM_CONFIG_FILE" /\ "legacy" \in dirs THEN "look" ELSE "done")
  /\ UNCHANGED <<device, dirs, files, to, on, name, saw, failed, copiers, mixed>>

Look(m) ==
  /\ at[m] = "look" /\ Go(m, IF HasIndex("legacy") THEN "target" ELSE "done")
  /\ UNCHANGED <<device, dirs, files, to, on, name, saw, failed, copiers, mixed>>

Target(m) ==
  /\ at[m] = "target" /\ Go(m, IF "new" \in dirs THEN "done" ELSE "rename")
  /\ UNCHANGED <<device, dirs, files, to, on, name, saw, failed, copiers, mixed>>

\* On one device the directory changes its name or stays: it is gone, the other exists, or it is held open.
Rename(m) ==
  /\ at[m] = "rename" /\ device = "one" /\ Go(m, "done")
  /\ \/ /\ "legacy" \in dirs /\ "new" \notin dirs
        /\ dirs' = (dirs \ {"legacy"}) \cup {"new"} /\ files' = [files EXCEPT !["new"] = files["legacy"], !["legacy"] = NoFiles]
        /\ UNCHANGED failed
     \/ /\ "legacy" \notin dirs \/ "new" \in dirs
        /\ UNCHANGED <<dirs, files, failed>>
     \/ /\ "legacy" \in dirs /\ "new" \notin dirs /\ failed' = TRUE
        /\ UNCHANGED <<dirs, files>>
  /\ UNCHANGED <<device, to, on, name, saw, copiers, mixed>>

\* shutil.move to another device copies; what it is told to make and finds, it moves into.
CopyBegin(m) ==
  /\ at[m] = "rename" /\ device = "two"
  /\ LET d == IF "new" \in dirs THEN "inside" ELSE "new"
     IN IF "legacy" \notin dirs \/ d \in dirs
        THEN Go(m, "done") /\ UNCHANGED <<dirs, files, to, copiers, mixed>>
        ELSE /\ Go(m, "copy") /\ to' = [to EXCEPT ![m] = d] /\ copiers' = copiers \cup {m} /\ dirs' = dirs \cup {d}
             /\ files' = [files EXCEPT ![d] = [n \in Names |-> IF files["legacy"][n] # 0 THEN -1 ELSE 0]]
             /\ mixed' = (mixed \/ (d = "new" /\ \E u \in Users : on[u] = "build"))
  /\ UNCHANGED <<device, on, name, saw, failed>>

\* The file that is being written may have got its present name meanwhile.
Copied == CHOOSE v \in {1} \cup {files["legacy"][n] : n \in Names} : \A n \in Names : v >= files["legacy"][n]
CopyEnd(m) ==
  /\ at[m] = "copy"
  /\ IF "legacy" \in dirs
     THEN Go(m, "remove") /\ files' = [files EXCEPT ![to[m]] = [n \in Names |-> IF @[n] = -1 THEN Copied ELSE @[n]]]
     ELSE Go(m, "done") /\ UNCHANGED files
  /\ UNCHANGED <<device, dirs, to, on, name, saw, failed, copiers, mixed>>

Remove(m) ==
  /\ at[m] = "remove" /\ Go(m, "done")
  /\ dirs' = dirs \ {"legacy"} /\ files' = [files EXCEPT !["legacy"] = NoFiles]
  /\ UNCHANGED <<device, to, on, name, saw, failed, copiers, mixed>>

Die(m) ==
  /\ at[m] \notin {"start", "done"} /\ Go(m, "done") /\ failed' = TRUE
  /\ UNCHANGED <<device, dirs, files, to, on, name, saw, copiers, mixed>>

-----------------------------------------------------------------------------
(* A process that looks for the file and builds it.                         *)

Tell(u, n) ==
  /\ name' = [name EXCEPT ![u] = n] /\ saw' = [saw EXCEPT ![u] = files["new"]] /\ on' = [on EXCEPT ![u] = "named"]

LookForPresent(u) ==
  /\ on[u] = "start"
  /\ IF files["new"][Present] # 0 THEN Tell(u, Present) ELSE on' = [on EXCEPT ![u] = "old"] /\ UNCHANGED <<name, saw>>
  /\ UNCHANGED <<device, dirs, files, at, to, failed, copiers, mixed>>

LookForOld(u) ==
  /\ on[u] = "old"
  /\ IF files["new"][Old] = 0 THEN Tell(u, Present) ELSE on' = [on EXCEPT ![u] = "rename"] /\ UNCHANGED <<name, saw>>
  /\ UNCHANGED <<device, dirs, files, at, to, failed, copiers, mixed>>

\* It may be renamed by another process first, or be held open by a reader; a rename replaces what has the name already.
GiveName(u) ==
  /\ on[u] = "rename"
  /\ \/ /\ files["new"][Old] # 0 /\ \A v \in Users : ~(on[v] = "build" /\ name[v] = Old)
        /\ files' = [files EXCEPT !["new"] = [n \in Names |-> IF n = Present THEN files["new"][Old] ELSE 0]]
        /\ name' = [name EXCEPT ![u] = Present] /\ saw' = [saw EXCEPT ![u] = files'["new"]]
        /\ on' = [on EXCEPT ![u] = "named"] /\ UNCHANGED failed
     \/ /\ on' = [on EXCEPT ![u] = "again"] /\ failed' = (failed \/ files["new"][Old] # 0) /\ UNCHANGED <<files, name, saw>>
  /\ UNCHANGED <<device, dirs, at, to, copiers, mixed>>

LookAgain(u) ==
  /\ on[u] = "again" /\ Tell(u, IF files["new"][Present] # 0 THEN Present ELSE Old)
  /\ UNCHANGED <<device, dirs, files, at, to, failed, copiers, mixed>>

\* The lock makes the directory; one build at a time.
BuildBegin(u) ==
  /\ on[u] = "named" /\ \A v \in Users : on[v] # "build"
  /\ on' = [on EXCEPT ![u] = "build"] /\ dirs' = dirs \cup {"new"}
  /\ mixed' = (mixed \/ \E m \in Movers : at[m] = "copy" /\ to[m] = "new")
  /\ UNCHANGED <<device, files, at, to, name, saw, failed, copiers>>

Newest == CHOOSE v \in {files[d][n] : d \in Places, n \in Names} : \A d \in Places, n \in Names : v >= files[d][n]
BuildEnd(u) ==
  /\ on[u] = "build" /\ on' = [on EXCEPT ![u] = "built"]
  /\ files' = [files EXCEPT !["new"][name[u]] = Newest + 1]
  /\ UNCHANGED <<device, dirs, at, to, name, saw, failed, copiers, mixed>>

Init ==
  /\ device \in {"one", "two"} /\ dirs \in {{"legacy"}, {"legacy", "new"}}
  /\ \E n \in Names : files = [d \in Places |-> IF d = "legacy" THEN [NoFiles EXCEPT ![n] = 1] ELSE NoFiles]
  /\ at = [m \in Movers |-> "start"] /\ to = [m \in Movers |-> "new"]
  /\ on = [u \in Users |-> "start"] /\ name = [u \in Users |-> ""] /\ saw = [u \in Users |-> NoFiles]
  /\ failed = FALSE /\ copiers = {} /\ mixed = FALSE

Next ==
  \/ \E m \in Movers : List(m) \/ Look(m) \/ Target(m) \/ Rename(m) \/ CopyBegin(m) \/ CopyEnd(m) \/ Remove(m) \/ Die(m)
  \/ \E u \in Users : LookForPresent(u) \/ LookForOld(u) \/ GiveName(u) \/ LookAgain(u) \/ BuildBegin(u) \/ BuildEnd(u)

-----------------------------------------------------------------------------
\* Whoever dies and whoever else starts, a move never leaves the project without a whole index, as long as no build
\* writes into the copy (bsl_index.py migrate_legacy_index_root).
NeverLost == ~mixed => \E d \in Places : Whole(d)

\* Without a copy the index an earlier release made is in one place at most, and when nobody failed, who was to move it
\* ends only once it is moved, or once there is a directory in its place.
MovedOnce ==
  /\ copiers = {} => Cardinality({d \in Places : \E n \in Names : files[d][n] = 1}) <= 1
  /\ LET movers == {m \in Movers : Rule[m] = "RLM_CONFIG_FILE"}
     IN ~failed /\ dirs = {"legacy"} => \A m \in movers : at[m] # "done"

\* A copy ends up inside of the directory it should have become only when two copied, or when a build made it meanwhile.
NeverInside == "inside" \in dirs => Cardinality(copiers) > 1 \/ \E u \in Users : on[u] \in {"build", "built"}

\* What was built last in the new place is what lies there, whatever is moved; unless the builder was told that there
\* is nothing, an index under the old name was moved in after that, and another process gave it the present name.
BuildStands ==
  ~mixed => \A u \in Users : on[u] = "built" =>
    \/ \E n \in Names : files["new"][n] > 1
    \/ saw[u] = NoFiles /\ \E v \in Users \ {u} : saw[v][Present] \in {-1, 1}

\* A process is told the name of the file that was there, and the old one only while the new one was missing.
NamesHonest ==
  \A u \in Users : on[u] # "start" /\ name[u] # "" =>
    /\ name[u] = Present => saw[u][Present] # 0 \/ saw[u][Old] = 0
    /\ name[u] = Old => saw[u][Present] = 0 /\ failed

MovesHonest == NeverLost /\ MovedOnce /\ NeverInside /\ BuildStands /\ NamesHonest
=============================================================================
