------------------------------ MODULE IndexOpen ------------------------------
(***************************************************************************)
(* What is said of an index that a rebuild may be taking apart: rlm_start   *)
(* opens it (server.py), get_index_info speaks of it in the session         *)
(* (bsl_helpers.py), rlm_index info and the command "info" describe it      *)
(* (server.py, cli.py).  Each of them reads the marker, the numbers of      *)
(* rows, the keys of index_meta and a sample of the files in statements of  *)
(* their own, and the rebuild commits in between.                           *)
(*                                                                          *)
(* A generation is a number, 1 the one that lies there at first; keys of    *)
(* generation 0 are absent.                                                 *)
(***************************************************************************)
EXTENDS Integers, FiniteSets, TLC

CONSTANTS
  Kinds,        (* who asks: "start", "info" or "cli" *)
  Shapes,       (* what generation 1 is, and how its sources changed: [age, drift, small, structure, touched, calls];
                   age is "young", "mid" or "aged", drift of the sampled files "none", "few" or "many" *)
  MaxRebuilds

VARIABLES
  shape,
  step,         (* of the rebuild, "idle" when none runs *)
  tables,       (* [rows |-> "none", "empty", "part" or "whole", gen, calls |-> the call graph is built] *)
  meta,         (* [gen, marked |-> build_in_progress is "1"] *)
  begun,        (* rebuilds *)
  kind, pc,     (* the question and where it stands *)
  status,       (* what the check found *)
  probe,        (* the generation whose keys the reader saw when it was opened *)
  stats,        (* [rows, gen, calls, meta] as counted *)
  sample,       (* of the start *)
  failed,       (* the counts were of an index taken apart *)
  marks, ends,  (* where the question stood when rebuilds began and finished *)
  answer,
  told          (* the label the session was given at its start *)
db == <<step, tables, meta, begun>>
vars == <<shape, step, tables, meta, begun, kind, pc, status, probe, stats, sample, failed, marks, ends, answer, told>>

Zero == [rows |-> "none", gen |-> 0, calls |-> FALSE, meta |-> 0]
NoAnswer == [label |-> "", loaded |-> FALSE, authoritative |-> FALSE, warned |-> FALSE]
Shape(g) == IF g = 1 THEN shape ELSE [shape EXCEPT !.age = "young", !.drift = "none", !.structure = FALSE, !.touched = FALSE]

-----------------------------------------------------------------------------
(* The rebuild: every step is a commit, or a statement that commits.        *)

Rebuild(a, b, t, m) ==
  /\ step = a /\ step' = b /\ tables' = t /\ meta' = m
  /\ marks' = (IF b = "marked" THEN marks \cup {pc} ELSE marks) /\ ends' = (IF b = "idle" THEN ends \cup {pc} ELSE ends)
  /\ UNCHANGED <<shape, kind, pc, status, probe, stats, sample, failed, answer, told>>
Commit(a, b, t, m) == Rebuild(a, b, t, m) /\ UNCHANGED begun

Mark == begun < MaxRebuilds /\ begun' = begun + 1 /\ Rebuild("idle", "marked", tables, [meta EXCEPT !.marked = TRUE])
Drop == Commit("marked", "dropped", [tables EXCEPT !.rows = "none"], meta)
Make == Commit("dropped", "made", [tables EXCEPT !.rows = "empty"], meta)
Strip == Commit("made", "stripped", tables, [meta EXCEPT !.gen = 0])
Fill == \E c \in BOOLEAN : Commit("stripped", "part", [rows |-> "part", gen |-> begun + 1, calls |-> c], meta)
Filled == Commit("part", "rows", [tables EXCEPT !.rows = "whole"], meta)
WriteMeta == Commit("rows", "written", tables, [meta EXCEPT !.gen = tables.gen])
Clear == Commit("written", "idle", tables, [meta EXCEPT !.marked = FALSE])
Crash ==
  /\ step # "idle" /\ step' = "idle"
  /\ UNCHANGED <<shape, tables, meta, begun, kind, pc, status, probe, stats, sample, failed, marks, ends, answer, told>>

-----------------------------------------------------------------------------
(* The question.                                                            *)

\* The outcome of the sample: a generation whose files changed little may or may not be caught.
Sampled ==
  IF tables.rows = "none" THEN {"unavailable"}
  ELSE IF tables.rows # "whole" \/ shape.small THEN {"skipped"}
  ELSE CASE Shape(tables.gen).drift = "none" -> {"ok"} [] Shape(tables.gen).drift = "few" -> {"ok", "mismatch"}
         [] OTHER -> {"mismatch"}
HasCalls == tables.calls /\ tables.rows \in {"part", "whole"}

\* check_index_usable as far as the keys go; "sample" leaves it to the files.
ByKeys(strict) ==
  IF meta.marked \/ (meta.gen = 0 /\ ~strict) THEN "missing"
  ELSE IF strict /\ (meta.gen = 0 \/ Shape(meta.gen).structure) THEN "stale"
  ELSE IF Shape(meta.gen).age = "aged" THEN "stale_age"
  ELSE IF Shape(meta.gen).age = "young" /\ ~strict THEN "fresh" ELSE "sample"

Check ==
  /\ pc = "check"
  /\ LET s == ByKeys(kind = "cli") IN
     /\ status' = s
     /\ pc' = (IF s = "sample" THEN "sample" ELSE IF kind = "cli" \/ s = "missing" THEN "label" ELSE "open")
  /\ UNCHANGED <<shape, db, kind, probe, stats, sample, failed, marks, ends, answer, told>>

CheckSample ==
  /\ pc = "sample" /\ pc' = (IF kind = "cli" THEN "label" ELSE "open")
  /\ \E s \in Sampled : status' = (IF s = "mismatch" THEN "stale_content" ELSE "fresh")
  /\ UNCHANGED <<shape, db, kind, probe, stats, sample, failed, marks, ends, answer, told>>

\* Those that describe it look at the marker before they open it.
First ==
  /\ pc = "first" /\ pc' = (IF meta.marked THEN "label" ELSE IF kind = "helper" THEN "counts" ELSE "open")
  /\ failed' = meta.marked
  /\ UNCHANGED <<shape, db, kind, status, probe, stats, sample, marks, ends, answer, told>>

Open ==
  /\ pc = "open" /\ pc' = "counts" /\ probe' = meta.gen
  /\ UNCHANGED <<shape, db, kind, status, stats, sample, failed, marks, ends, answer, told>>

\* A table that is not there makes all of it zeros.
Count ==
  /\ pc = "counts"
  /\ IF tables.rows = "none" THEN stats' = Zero /\ pc' = "look"
     ELSE stats' = [Zero EXCEPT !.rows = tables.rows, !.gen = tables.gen, !.calls = HasCalls] /\ pc' = "keys"
  /\ UNCHANGED <<shape, db, kind, status, probe, sample, failed, marks, ends, answer, told>>

ReadKeys ==
  /\ pc = "keys" /\ stats' = [stats EXCEPT !.meta = meta.gen] /\ pc' = "look"
  /\ UNCHANGED <<shape, db, kind, status, probe, sample, failed, marks, ends, answer, told>>

Look ==
  /\ pc = "look" /\ failed' = (meta.marked \/ stats.meta = 0)
  /\ pc' = (IF ~failed' /\ kind = "cli" THEN "check"
            ELSE IF ~failed' /\ kind = "start" /\ status = "stale_age" THEN "graph" ELSE "label")
  /\ UNCHANGED <<shape, db, kind, status, probe, stats, sample, marks, ends, answer, told>>

\* An index too old for its age is sampled: the outcome says whether its call graph is to be believed.
Graph ==
  /\ pc = "graph" /\ pc' = "label" /\ sample' \in Sampled
  /\ status' = (IF HasCalls /\ sample' \in {"ok", "skipped"} THEN "stale_age+" ELSE status)
  /\ UNCHANGED <<shape, db, kind, probe, stats, failed, marks, ends, answer, told>>

Labels == ("fresh" :> "ok" @@ "stale_age" :> "stale_age" @@ "stale_age+" :> "stale_age" @@ "stale_content" :> "stale_content")
Answer ==
  /\ pc = "label" /\ pc' = "done"
  /\ LET loaded == ~failed /\ (kind = "start" => status # "missing")
         incomplete == failed \/ (kind = "start" /\ meta.marked)
     IN answer' =
        [label |-> IF ~loaded THEN IF incomplete THEN "incomplete" ELSE "missing"
                   ELSE CASE kind = "start" -> Labels[status] [] kind = "helper" -> told [] kind = "cli" -> status [] OTHER -> "",
         loaded |-> loaded,
         authoritative |-> loaded /\ kind = "start" /\ (status = "stale_age+" \/ (status = "fresh" /\ HasCalls)),
         warned |-> loaded /\ kind = "start" /\ Shape(stats.meta).touched]
  /\ told' = (IF kind = "start" THEN answer'.label ELSE told)
  /\ UNCHANGED <<shape, db, kind, status, probe, stats, sample, failed, marks, ends>>

\* get_index_info in the session that was opened.
Ask ==
  /\ pc = "done" /\ kind = "start" /\ answer.loaded
  /\ kind' = "helper" /\ pc' = "first" /\ stats' = Zero /\ marks' = {} /\ ends' = {} /\ answer' = NoAnswer
  /\ UNCHANGED <<shape, db, status, probe, sample, failed, told>>

Init ==
  /\ shape \in Shapes /\ kind \in Kinds
  /\ step = "idle" /\ begun = 0 /\ meta = [gen |-> 1, marked |-> FALSE]
  /\ tables = [rows |-> "whole", gen |-> 1, calls |-> shape.calls]
  /\ pc = (IF kind = "start" THEN "check" ELSE "first")
  /\ status = "" /\ probe = 0 /\ stats = Zero /\ sample = "not_checked" /\ failed = FALSE /\ marks = {} /\ ends = {}
  /\ answer = NoAnswer /\ told = ""

Next ==
  \/ Mark \/ Drop \/ Make \/ Strip \/ Fill \/ Filled \/ WriteMeta \/ Clear \/ Crash
  \/ Check \/ CheckSample \/ First \/ Open \/ Count \/ ReadKeys \/ Look \/ Graph \/ Answer \/ Ask

-----------------------------------------------------------------------------
Answered == pc = "done"
Quiet(pcs) == (marks \cup ends) \cap pcs = {} /\ step = "idle"

\* What is called loaded has the numbers of one finished generation and of the one its keys name, unless a rebuild
\* finished between the counts and the second look; its keys are never those of no generation (server.py _rlm_start,
\* bsl_helpers.py get_index_info, server.py _rlm_index, cli.py _cmd_info).
LoadedWhole ==
  Answered /\ answer.loaded =>
    /\ stats.meta # 0
    /\ ends \cap {"keys", "look"} = {} => stats.rows = "whole" /\ stats.gen = stats.meta
    /\ kind # "helper" /\ ends \cap {"counts", "keys", "look"} = {} => probe = stats.meta

\* "missing" is said only when a rebuild that was found going on has finished meanwhile, "incomplete" only of an index
\* that was being rebuilt, or whose rebuild was interrupted, at a time of the question.
NotLoadedTrue ==
  Answered /\ ~answer.loaded =>
    /\ answer.label = "missing" => ends # {}
    /\ begun > 0

\* Nothing was rebuilt: the label names the age and the sample as they are, the categories that changed are warned of,
\* and the call graph is authoritative exactly where there is one and the sample does not speak against it.
LabelTrue ==
  Answered /\ answer.loaded /\ kind = "start" /\ begun = 0 =>
    /\ answer.label = "stale_age" <=> shape.age = "aged"
    /\ answer.label = "stale_content" => shape.age = "mid" /\ ~shape.small /\ shape.drift # "none"
    /\ shape.age = "mid" /\ ~shape.small /\ shape.drift = "many" => answer.label = "stale_content"
    /\ answer.warned = shape.touched
    /\ answer.authoritative => shape.calls /\ answer.label \in {"ok", "stale_age"}
    /\ answer.authoritative /\ shape.age = "aged" => shape.small \/ shape.drift # "many"
    /\ shape.calls /\ shape.drift = "none" /\ shape.age = "aged" => answer.authoritative

\* An authoritative graph belongs to the generation that was counted, if no rebuild took part after the counts.
GraphCounted ==
  Answered /\ kind = "start" /\ answer.authoritative /\ Quiet({"keys", "look", "graph", "label"}) /\ ~meta.marked =>
    stats.calls /\ stats.rows = "whole"

\* The command that compares all the files calls fresh only what has their number, an age and a sample that agree; and a
\* session never changes what it says of its index, whatever is built meanwhile.
SaysTheSame ==
  /\ Answered /\ kind = "cli" /\ answer.label = "fresh" /\ begun = 0 =>
       ~shape.structure /\ shape.age # "aged" /\ (shape.drift = "many" => shape.small)
  /\ Answered /\ kind = "helper" /\ answer.loaded => answer.label = told /\ told \notin {"", "missing", "incomplete"}

OpenHonest == LoadedWhole /\ NotLoadedTrue /\ LabelTrue /\ GraphCounted /\ SaysTheSame
=============================================================================
