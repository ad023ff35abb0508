------------------------------ MODULE CallGraph ------------------------------
(***************************************************************************)
(* The call rows of the index (bsl_index.py): how the edges between        *)
(* procedures get the key of their target, and how an update keeps the     *)
(* keys of modules it does not read right when common modules, manager     *)
(* modules or descriptors change.  docs/INDEXING.md: "update = build".     *)
(*                                                                         *)
(* Which files an update takes for changed is IndexUpdate's concern: here  *)
(* it knows every file whose rows are not of its content, and the git fast *)
(* path perhaps some more.  A procedure is [name, export, line], a call is *)
(* [line, head, name, via, kind]: head is the name before the dot ("none"  *)
(* when there is none), via tells that a collection (Catalogs.) precedes   *)
(* it.                                                                     *)
(***************************************************************************)
EXTENDS Integers, FiniteSets

CONSTANTS
  Paths,       (* of modules                                               *)
  Common,      (* of common modules                                        *)
  Managers,    (* of manager modules                                       *)
  ObjectOf,    (* the object a path names; several paths may name one      *)
  Descriptors, (* paths of modules whose receivers a descriptor decides    *)
  Absent,      (* the content of a file that does not exist                *)
  ContentsOf,  (* the contents each path may have, in each source tree     *)
  MaxEdits     (* bound on files changed between two updates, in each tree *)

VARIABLES
  tree,      (* the source tree of this behaviour                          *)
  disk,      (* content of the .bsl files                                  *)
  shadowed,  (* paths whose descriptor shadows the launcher's name         *)
  mods,      (* the rows of modules and methods, as contents               *)
  calls,     (* the rows of calls: [file, call, key]                       *)
  moves,     (* the rows of register_movements: [file, move]               *)
  resolved,  (* calls_resolved in index_meta                               *)
  count,     (* bsl_count in index_meta                                    *)
  known,     (* paths whose descriptor shadowed at the stored git commit   *)
  touched,   (* descriptors whose size or mtime is not that of file_paths  *)
  phase,     (* step of the running update                                 *)
  mode,      (* "fast" or "scan"                                           *)
  delta,     (* the modules the update reads again                         *)
  owned,     (* the modules whose descriptors it takes for changed         *)
  grown,     (* added less removed modules, as the fast path counts them   *)
  missed,    (* a fast path was interrupted before it counted              *)
  gap        (* rows were committed whose git state never was: "open", or  *)
             (* "lost" when a fast path has finished since, else "none"    *)

NoKey == <<>>
sources == <<tree, disk, shadowed>>
tables == <<mods, calls, moves, resolved>>
running == <<phase, mode, delta, owned, grown>>
seen == <<known, touched>>
ghosts == <<missed, gap>>
graphVars == <<sources, tables, count, seen, running, ghosts>>

Launch == {"background", "dynamic"}
Present(m) == {p \in Paths : m[p] # Absent}

(* A file is parsed into its procedures and calls; a launch through a name
   the module's context shadows is none. *)
CallsIn(p, content, shadow) ==
  {c \in content.calls : c.kind \in Launch => p \notin shadow}

(* Exported procedures of the common modules named obj: the target of obj.name
   when there is exactly one. *)
Exported(m, obj, name) ==
  UNION {{<<p, d>> : d \in {e \in m[p].methods : e.export /\ e.name = name}} :
           p \in {q \in Common \cap Present(m) : ObjectOf[q] = obj}}

ManagersOf(m, obj) == {p \in Managers \cap Present(m) : ObjectOf[p] = obj}

Own(m, p, name) == {d \in m[p].methods : d.name = name}

TheOne(S) == CHOOSE x \in S : TRUE

(* The path of the one manager module, else a path no module has. *)
ManagerKey(m, c) ==
  LET targets == ManagersOf(m, c.head)
  IN IF Cardinality(targets) = 1 THEN <<TheOne(targets), c.name>> ELSE <<"/", c.head, c.name>>

CommonKey(m, c) ==
  LET targets == Exported(m, c.head, c.name)
  IN IF Cardinality(targets) = 1 THEN <<TheOne(targets)[1], c.name>> ELSE NoKey

(* The key of a call of module p: by the safe tiers only. *)
Key(m, p, c) ==
  IF c.kind \in {"member", "dynamic"} THEN NoKey
  ELSE IF c.via THEN ManagerKey(m, c)
  ELSE IF c.head # "none" THEN CommonKey(m, c)
  ELSE IF Cardinality(Own(m, p, c.name)) = 1 THEN <<p, c.name>> ELSE NoKey

(* Rows of the modules of S: calls are resolved after all modules and methods
   of the batches are in. *)
RowsOf(m, S, shadow) ==
  UNION {{[file |-> p, call |-> c, key |-> Key(m, p, c)] : c \in CallsIn(p, m[p], shadow)} :
           p \in S \cap Present(m)}

MovesOf(m, S) == UNION {{[file |-> p, move |-> v] : v \in m[p].moves} : p \in S \cap Present(m)}

(* What a fresh build would write. *)
Fresh == RowsOf(disk, Paths, shadowed)

Resolved(rows) == Cardinality({r \in rows : r.key # NoKey})

Init ==
  /\ tree \in DOMAIN ContentsOf
  /\ disk \in [Paths -> UNION {ContentsOf[tree][p] : p \in Paths}]
  /\ \A p \in Paths : disk[p] \in ContentsOf[tree][p]
  /\ shadowed = {}
  /\ mods = disk /\ calls = Fresh /\ moves = MovesOf(disk, Paths)
  /\ resolved = Resolved(calls) /\ count = Cardinality(Present(disk))
  /\ known = {} /\ touched = {}
  /\ phase = "idle" /\ mode = "scan" /\ delta = {} /\ owned = {} /\ grown = 0
  /\ missed = FALSE /\ gap = "none"

-----------------------------------------------------------------------------
(* The sources *)

Possible == {p \in Paths : ContentsOf[tree][p] # {Absent}}
Stale == {p \in Paths : mods[p] # disk[p]}
Edited == Stale \cup touched

EditModule(p) ==
  /\ phase = "idle"
  /\ Cardinality(Edited \cup {p}) <= MaxEdits[tree]
  /\ \E c \in ContentsOf[tree][p] : c # disk[p] /\ disk' = [disk EXCEPT ![p] = c]
  /\ UNCHANGED <<tree, shadowed, tables, count, seen, running, ghosts>>

EditDescriptor(p) ==
  /\ phase = "idle"
  /\ Cardinality(Edited \cup {p}) <= MaxEdits[tree]
  /\ shadowed' = (shadowed \ {p}) \cup ({p} \ shadowed)
  /\ touched' = touched \cup {p}
  /\ UNCHANGED <<tree, disk, tables, count, known, running, ghosts>>

-----------------------------------------------------------------------------
(* update *)

(* A full build: nothing of the old rows is left. *)
Build ==
  /\ phase = "idle"
  /\ mods' = disk /\ calls' = Fresh /\ moves' = MovesOf(disk, Paths)
  /\ resolved' = Resolved(calls') /\ count' = Cardinality(Present(disk))
  /\ known' = shadowed /\ touched' = {}
  /\ missed' = FALSE /\ gap' = "none"
  /\ UNCHANGED <<sources, running>>

(* The full scan compares every file with its row, descriptors with their row
   in file_paths. *)
StartScan ==
  /\ phase = "idle"
  /\ mode' = "scan" /\ phase' = "rows"
  /\ delta' = Stale /\ owned' = touched /\ grown' = 0
  /\ UNCHANGED <<sources, tables, count, seen, ghosts>>

(* git lists what differs from the stored commit; it may list a module that is
   back at the content of its row. *)
StartFast(extra) ==
  /\ phase = "idle"
  /\ mode' = "fast" /\ phase' = "rows"
  /\ delta' = Stale \cup extra /\ owned' = (shadowed \ known) \cup (known \ shadowed)
  /\ grown' = Cardinality(Present(disk)) - Cardinality(Present(mods))
  /\ UNCHANGED <<sources, tables, count, seen, ghosts>>

(* Mutated form of ChangedCommon: the names of removed modules are lost. *)
ChangedCommonParsed == {ObjectOf[p] : p \in delta \cap Common \cap Present(disk)}

(* Names of common modules, of what was parsed and of what is deleted. *)
ChangedCommon ==
  {ObjectOf[p] : p \in delta \cap Common \cap Present(disk)}
  \cup {ObjectOf[p] : p \in delta \cap Common \cap Present(mods)}

ChangedManagers ==
  {ObjectOf[p] : p \in delta \cap Managers \cap Present(disk)}
  \cup {ObjectOf[p] : p \in delta \cap Managers \cap Present(mods)}

(* A row of a module that is not read again gets a new key when its target
   may have changed. *)
Reresolved(m, r) ==
  LET due == IF r.call.via THEN r.call.head \in ChangedManagers
             ELSE r.call.head \in ChangedCommon /\ r.call.kind \in {"call", "background"}
  IN IF due THEN [r EXCEPT !.key = Key(m, r.file, r.call)] ELSE r

(* One transaction: rows of changed and removed modules go, those of added and
   changed ones come, callers are resolved again, the aggregates follow. *)
Written ==
  /\ mods' = disk
  /\ calls' = {Reresolved(disk, r) : r \in {q \in calls : q.file \notin delta}}
              \cup RowsOf(disk, delta, shadowed)
  /\ moves' = {v \in moves : v.file \notin delta} \cup MovesOf(disk, delta)
  /\ resolved' = Resolved(calls')

ScanRows ==
  /\ phase = "rows" /\ mode = "scan"
  /\ IF delta = {} THEN UNCHANGED <<tables, count, missed>>
     ELSE Written /\ count' = Cardinality(Present(disk)) /\ missed' = FALSE
  /\ phase' = "launches"
  /\ UNCHANGED <<sources, seen, mode, delta, owned, grown, gap>>

FastRows ==
  /\ phase = "rows" /\ mode = "fast"
  /\ IF delta = {} THEN UNCHANGED tables ELSE Written
  /\ phase' = "launches"
  /\ UNCHANGED <<sources, count, seen, mode, delta, owned, grown, ghosts>>

(* Modules whose launches are read again: the text names a launcher, and the
   module has not been read by this update. *)
LaunchDependent ==
  {p \in owned \cap Present(mods) : p \notin delta /\ \E c \in mods[p].calls : c.kind \in Launch}

(* A second transaction: the launch rows of modules whose descriptor changed;
   procedures and direct calls stay. *)
RefreshLaunches ==
  /\ phase = "launches"
  /\ calls' = {r \in calls : ~(r.file \in LaunchDependent /\ r.call.kind \in Launch)}
              \cup {r \in RowsOf(mods, LaunchDependent, shadowed) : r.call.kind \in Launch}
  /\ resolved' = Resolved(calls')
  /\ phase' = "finish"
  /\ UNCHANGED <<sources, mods, moves, count, seen, mode, delta, owned, grown, ghosts>>

Rested == phase' = "idle" /\ mode' = "scan" /\ delta' = {} /\ owned' = {} /\ grown' = 0

(* The last transaction: file_paths, git state and counters. *)
FinishScan ==
  /\ phase = "finish" /\ mode = "scan"
  /\ known' = shadowed /\ touched' = {}
  /\ gap' = (IF gap = "lost" THEN "lost" ELSE "none")
  /\ Rested
  /\ UNCHANGED <<sources, tables, count, missed>>

(* The fast path adds to the stored number of modules, and lists all files
   again only when git named a descriptor. *)
FinishFast ==
  /\ phase = "finish" /\ mode = "fast"
  /\ known' = shadowed
  /\ touched' \in {{}} \cup (IF owned = {} THEN {touched} ELSE {})
  /\ count' = count + grown
  /\ gap' = (IF gap = "none" THEN "none" ELSE "lost")
  /\ Rested
  /\ UNCHANGED <<sources, tables, missed>>

Uncounted == mode = "fast" /\ phase # "rows" /\ grown # 0

(* The process dies between two transactions; one that leaves the number of
   modules wrong is enough, more would only make it drift (the bound). *)
Interrupted ==
  /\ phase # "idle"
  /\ ~(missed /\ Uncounted)
  /\ missed' = (missed \/ Uncounted)
  /\ gap' = (IF phase # "rows" /\ gap = "none" THEN "open" ELSE gap)
  /\ Rested
  /\ UNCHANGED <<sources, tables, count, seen>>

Next ==
  \/ \E p \in Paths : EditModule(p)
  \/ \E p \in Descriptors : EditDescriptor(p)
  \/ Build \/ StartScan
  \/ \E extra \in {{}} \cup {{p} : p \in Possible} : StartFast(extra)
  \/ ScanRows \/ FastRows \/ RefreshLaunches \/ FinishScan \/ FinishFast
  \/ Interrupted

Spec == Init /\ [][Next]_graphVars

-----------------------------------------------------------------------------
(* Properties *)

(* "update = build" for the call graph: a finished update leaves the rows, keys
   and counters a fresh build would write, also in modules it did not read.
   After an interrupted update this is so for the full scan, and for the fast
   path only from the next build on; the number of modules stays wrong after
   an interrupted fast path until a full scan finds a changed module. *)
UpdateIsBuild ==
  phase = "finish" /\ gap \in (IF mode = "scan" THEN {"none", "open"} ELSE {"none"}) =>
    /\ calls = Fresh /\ moves = MovesOf(disk, Paths)
    /\ resolved = Resolved(calls)
    /\ missed \/ count + grown = Cardinality(Present(disk))

=============================================================================
