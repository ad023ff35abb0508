----------------------------- MODULE Subsystems -----------------------------
(***************************************************************************)
(* analyze_subsystem (bsl_helpers.py): what a subsystem of a name contains  *)
(* and which subsystems contain an object of that name.  With an index it   *)
(* reads three tables that another process may be rebuilding and then the   *)
(* few files the tables cannot speak for; without one it lists and reads    *)
(* the files of the current root.  Either way the rows share one limit on   *)
(* objects and one on the size of the answer.                               *)
(*                                                                          *)
(* A file is a record: id (its path, in the order of names), which fixes    *)
(* layout, folder (the name its place gives it), base (the name of the      *)
(* file) and place: below the Subsystems of the directory the session was   *)
(* opened with, or of the only root inside of it; and what it holds: name,  *)
(* synonym, content (objects, in order), ok (it can be parsed).  A file     *)
(* with name "" describes something else.                                   *)
(***************************************************************************)
EXTENDS Integers, Sequences, FiniteSets
LOCAL INSTANCE SequencesExt
LOCAL INSTANCE FiniteSetsExt

CONSTANTS
  Worlds,        (* sets of files, of which the disk holds one at a time *)
  Sessions,      (* [reader, metadata, synonyms, wrapped]: "none", "foreign", "plain" or "native"; with *)
                 (* which tables the index was built; opened with a directory around the root *)
  Questions,     (* [name, limit]; name "" is an empty query, "long" one above the limit on queries *)
  Fragments,     (* pairs of names of which the first is a proper part of the second *)
  ScanMax,       (* files a live pass reads, _SUBSYSTEM_LIVE_SCAN_MAX *)
  Shell, HintSize, SizeBudget,  (* the size of a row without objects, of the hint on a cut answer, of the answer *)
  MaxChanges     (* bound on changes of the disk and of the index *)

VARIABLES
  session,   (* how the session was started *)
  disk,      (* the files that exist *)
  changes,   (* changes made so far *)
  index,     (* [generation, building, content, paths, named] *)
  pc,        (* where the helper stands *)
  q,         (* the question *)
  was,       (* the index when the helper began to read it *)
  grouped,   (* the rows of subsystem_content that were read *)
  listed,    (* the paths that were read, then the files a pass was given *)
  rows,      (* the rows of the answer *)
  scan,      (* the counters of a live pass *)
  answer     (* the answer *)
vars == <<session, disk, changes, index, pc, q, was, grouped, listed, rows, scan, answer>>

NoScan == [live |-> FALSE, total |-> 0, read |-> 0, parsed |-> 0, failed |-> 0, truncated |-> FALSE]
NoAnswer == [kind |-> "", source |-> "", found |-> 0, rows |-> <<>>, cut |-> FALSE, scan |-> NoScan]

Part(n, text) == n = text \/ <<n, text>> \in Fragments
Object(ref) == ref[2]

-----------------------------------------------------------------------------
(* The index: rows of subsystems that contain something, the paths of all    *)
(* files, the name and synonym of one file a folder.  The first and the last *)
(* look only below the directory itself.                                     *)

Layouts == <<"edt", "sibling", "ext">>
Known(f) == f.layout \in Range(Layouts)
Rank(f) == CHOOSE i \in DOMAIN Layouts : Layouts[i] = f.layout
Picked(f, files) ==
  Known(f) /\ ~\E g \in files : Known(g) /\ g.folder = f.folder /\ g.place = f.place /\
                 (Rank(g) < Rank(f) \/ (g.layout = f.layout /\ g.id < f.id))

Collected(g, files) ==
  [generation |-> g, building |-> FALSE,
   content |-> {f \in files : session.metadata /\ f.place = "base" /\ f.ok /\ f.content # <<>>},
   paths |-> files,
   named |-> {f \in files : session.synonyms /\ f.place = "base" /\ Picked(f, files) /\ f.ok /\ f.name # ""}]

Possible == {w \in Worlds : session.wrapped \/ \A f \in w : f.place = "base"}

Change ==
  /\ pc \notin {"answer", "done"} /\ changes < MaxChanges /\ changes' = changes + 1
  /\ disk' \in Possible \ {disk}
  /\ UNCHANGED <<session, index, pc, q, was, grouped, listed, rows, scan, answer>>

\* Another process: an incremental update in one commit; a rebuild in place that empties the tables, fills them and ends.
Update ==
  /\ changes < MaxChanges /\ changes' = changes + 1
  /\ pc \notin {"answer", "done"} /\ session.reader # "none" /\ ~index.building
  /\ index' = Collected(index.generation + 1, disk)
  /\ UNCHANGED <<session, disk, pc, q, was, grouped, listed, rows, scan, answer>>

BeginRebuild ==
  /\ changes < MaxChanges /\ changes' = changes + 1
  /\ pc \notin {"answer", "done"} /\ session.reader # "none" /\ ~index.building
  /\ index' = [generation |-> index.generation + 1, building |-> TRUE, content |-> {}, paths |-> {}, named |-> {}]
  /\ UNCHANGED <<session, disk, pc, q, was, grouped, listed, rows, scan, answer>>

FillRebuild ==
  /\ index.building /\ index.paths = {}
  /\ index' = [Collected(index.generation + 1, disk) EXCEPT !.building = TRUE]
  /\ UNCHANGED <<session, disk, changes, pc, q, was, grouped, listed, rows, scan, answer>>

EndRebuild ==
  /\ index.building /\ index.paths # {}
  /\ index' = [index EXCEPT !.building = FALSE, !.generation = @ + 1]
  /\ UNCHANGED <<session, disk, changes, pc, q, was, grouped, listed, rows, scan, answer>>

-----------------------------------------------------------------------------
(* The question.                                                             *)

Ask(a) ==
  /\ pc = "idle" /\ q' = a
  /\ IF a.name \in {"", "long"}
     THEN pc' = "done" /\ answer' = [NoAnswer EXCEPT !.kind = a.name,
            !.source = IF session.reader \in {"plain", "native"} /\ session.metadata THEN "index" ELSE "live"]
     ELSE pc' = (IF session.reader = "native" THEN "lookup" ELSE "list") /\ UNCHANGED answer
  /\ UNCHANGED <<session, disk, changes, index, was, grouped, listed, rows, scan>>

\* get_subsystem_lookup: the generation, then three tables, each in a statement of its own, and the generation again.
ReadGeneration ==
  /\ pc = "lookup" /\ was' = index
  /\ pc' = IF index.building \/ ~session.metadata THEN "list" ELSE "content"
  /\ UNCHANGED <<session, disk, changes, index, q, grouped, listed, rows, scan, answer>>

ReadContent ==
  /\ pc = "content" /\ pc' = "paths" /\ grouped' = index.content
  /\ UNCHANGED <<session, disk, changes, index, q, was, listed, rows, scan, answer>>

ReadPaths ==
  /\ pc = "paths" /\ pc' = "names" /\ listed' = index.paths
  /\ UNCHANGED <<session, disk, changes, index, q, was, grouped, rows, scan, answer>>

\* A synonym counts only where the name of the file has the query in it.
Legacy(f) == Part(q.name, f.base)
MatchOf(f) == IF f.name = q.name THEN "name" ELSE IF f.synonym = q.name /\ Legacy(f) THEN "synonym" ELSE ""

Row(f, match, visible) == [file |-> f, match |-> match, visible |-> visible]

\* Both questions in one pass over the rows; the files that the rows cannot speak for are named by their paths and synonyms.
LookupRows(files) ==
  {Row(f, MatchOf(f), f.content) : f \in {g \in files : MatchOf(g) # ""}}
    \cup {Row(f, "content", SelectSeq(f.content, LAMBDA r : Part(q.name, Object(r)))) :
            f \in {g \in files : MatchOf(g) = "" /\ \E i \in DOMAIN g.content : Part(q.name, Object(g.content[i]))}}

Candidates(files, paths, named) ==
  LET Spoken(f) == \E d \in files : MatchOf(d) # "" /\ d.id = f.id /\ d.name = f.folder
  IN {f \in paths : Known(f) /\ f.folder = q.name /\ ~Spoken(f)}
       \cup {f \in named : ((f.synonym = q.name /\ Legacy(f)) \/ f.folder = q.name) /\ ~Spoken(f)}

Inside(files) == {f \in files : session.wrapped => f.place = "root"}

ReadNames ==
  /\ pc = "names"
  /\ IF index.generation # was.generation \/ index.building
     THEN pc' = "list" /\ UNCHANGED <<rows, listed>>
     ELSE LET candidates == Inside(Candidates(grouped, listed, index.named))
          IN /\ rows' = LookupRows(Inside(grouped))
             /\ listed' = candidates
             /\ pc' = IF session.synonyms /\ candidates = {} THEN "answer" ELSE "supplement"
  /\ UNCHANGED <<session, disk, changes, index, q, was, grouped, scan, answer>>

\* A file is parsed for its name or its place; for its text only where the whole question is answered from the files.
NameCandidate(f) == (Known(f) /\ f.folder = q.name) \/ Legacy(f)
Mentions(f) == Part(q.name, f.name) \/ Part(q.name, f.synonym) \/ \E i \in DOMAIN f.content : Part(q.name, Object(f.content[i]))
Matched(f) == SelectSeq(f.content, LAMBDA r : Object(r) = q.name)
Now(files) == {f \in disk : \E g \in files : g.id = f.id}

\* Without synonyms the tables name no file that is known by its synonym alone: the paths are asked for once more.
Supplement ==
  /\ pc = "supplement" /\ pc' = "answer"
  /\ listed' = IF session.synonyms THEN listed ELSE Inside(index.paths)
  /\ LET found == {f \in Now({g \in listed' : NameCandidate(g)}) : f.ok /\ MatchOf(f) # ""}
         new == {f \in found : ~\E r \in rows : r.file.id = f.id /\ r.file.name = f.name}
     IN rows' = rows \cup {Row(f, MatchOf(f), f.content) : f \in new}
  /\ UNCHANGED <<session, disk, changes, index, q, was, grouped, scan, answer>>

\* The files below Subsystems of the current root as they are now, whatever an index says, cut at ScanMax.
List ==
  /\ pc = "list" /\ pc' = "scan"
  /\ LET all == SetToSortSeq(Inside(disk), LAMBDA f, g : f.id < g.id)
         n == IF Len(all) > ScanMax THEN ScanMax ELSE Len(all)
     IN /\ listed' = Range(SubSeq(all, 1, n))
        /\ scan' = [NoScan EXCEPT !.live = TRUE, !.total = Len(all), !.truncated = Len(all) > ScanMax]
  /\ UNCHANGED <<session, disk, changes, index, q, was, grouped, rows, answer>>

\* A file is read for its text unless its name or place is enough; one that went away meanwhile or cannot be parsed fails.
Scan ==
  /\ pc = "scan" /\ pc' = "answer"
  /\ LET byName == {f \in listed : NameCandidate(f)}
         gone == {f \in listed : Now({f}) = {}}
         tried == Now(byName) \cup {f \in Now(listed \ byName) : Mentions(f)}
         parsed == {f \in tried : f.ok}
         direct == {f \in parsed : MatchOf(f) # ""}
     IN /\ rows' = {Row(f, MatchOf(f), f.content) : f \in direct}
                     \cup {Row(f, "content", Matched(f)) : f \in {g \in parsed \ direct : Matched(g) # <<>>}}
        /\ scan' = [scan EXCEPT !.read = Cardinality(listed \ byName), !.parsed = Cardinality(parsed),
                                !.failed = Cardinality(gone) + Cardinality(tried \ parsed)]
  /\ UNCHANGED <<session, disk, changes, index, q, was, grouped, listed, answer>>

-----------------------------------------------------------------------------
(* The answer: rows in their order, then one limit on objects, then one on   *)
(* the size; the second pass is made only when the first does not fit.       *)

Order(m) == CASE m = "name" -> 0 [] m = "synonym" -> 1 [] OTHER -> 2
Before(r, s) == Order(r.match) < Order(s.match) \/ (Order(r.match) = Order(s.match) /\ r.file.id < s.file.id)
Smaller(a, b) == IF a < b THEN a ELSE b

PublicRow(r, n) == [file |-> r.file.id, name |-> r.file.name, match |-> r.match, shown |-> SubSeq(r.visible, 1, n),
                    total |-> Len(r.file.content), cut |-> n < Len(r.file.content)]
Size(public, cut) == FoldLeft(LAMBDA n, r : n + Shell + Len(r.shown), IF cut THEN HintSize ELSE 0, public)

WithinLimit(ordered) ==
  FoldLeft(LAMBDA done, r : LET n == Smaller(done.left, Len(r.visible))
                            IN [left |-> done.left - n, rows |-> Append(done.rows, PublicRow(r, n))],
           [left |-> q.limit, rows |-> <<>>], ordered).rows

\* Each row takes as many objects as fit beside the hint; the first that cannot take what it wants is the last.
WithinSize(ordered) ==
  FoldLeft(LAMBDA done, r :
             LET wants == Smaller(done.left, Len(r.visible))
                 fits == {n \in 0..wants : Size(Append(done.rows, PublicRow(r, n)), TRUE) <= SizeBudget}
             IN IF done.over \/ fits = {} THEN [done EXCEPT !.over = TRUE]
                ELSE [left |-> done.left - Max(fits), rows |-> Append(done.rows, PublicRow(r, Max(fits))), over |-> Max(fits) < wants],
           [left |-> q.limit, rows |-> <<>>, over |-> FALSE], ordered).rows

Answer ==
  /\ pc = "answer" /\ pc' = "done"
  /\ LET ordered == SetToSortSeq(rows, Before)
         plain == WithinLimit(ordered)
         heavy == Size(plain, FALSE) > SizeBudget
     IN answer' = [kind |-> IF rows = {} THEN "not found" ELSE "found", found |-> Len(ordered),
                   source |-> IF scan.live THEN "live" ELSE "index",
                   rows |-> IF heavy THEN WithinSize(ordered) ELSE plain, cut |-> heavy, scan |-> scan]
  /\ UNCHANGED <<session, disk, changes, index, q, was, grouped, listed, rows, scan>>

Init ==
  /\ session \in Sessions /\ disk \in Possible /\ changes = 0
  /\ index = IF session.reader = "none" THEN [generation |-> 0, building |-> FALSE, content |-> {}, paths |-> {}, named |-> {}]
             ELSE Collected(1, disk)
  /\ pc = "idle" /\ q = [name |-> "", limit |-> 0] /\ was = index /\ grouped = {} /\ listed = {} /\ rows = {}
  /\ scan = NoScan /\ answer = NoAnswer

Next ==
  \/ Change \/ Update \/ BeginRebuild \/ FillRebuild \/ EndRebuild
  \/ \E a \in Questions : Ask(a)
  \/ ReadGeneration \/ ReadContent \/ ReadPaths \/ ReadNames \/ Supplement \/ List \/ Scan \/ Answer

-----------------------------------------------------------------------------
Answered == pc = "done" /\ answer.kind \in {"found", "not found"}

\* An answer from the index speaks of one generation of it, finished when it was read: of all the rows it had, and of
\* the files those rows cannot speak for, as they are now (bsl_index.py get_subsystem_lookup); without synonyms, of the
\* files the index named when it was asked again.
IndexedHonest ==
  Answered /\ answer.source = "index" =>
    /\ ~was.building /\ session.reader = "native" /\ session.metadata
    /\ LookupRows(Inside(was.content)) \subseteq rows
    /\ \A r \in rows \ LookupRows(Inside(was.content)) : r.file \in disk /\ r.match # "content"
    /\ \A f \in Inside(disk \cap (IF session.synonyms THEN was.paths ELSE listed)) :
         /\ f.ok /\ Known(f) /\ MatchOf(f) # ""
         /\ f.folder = q.name \/ (f \in was.named /\ f.folder = f.name) \/ (~session.synonyms /\ NameCandidate(f))
         => \E r \in rows : r.file.id = f.id /\ r.file.name = f.name

\* An answer without the index answers both questions from the files alone, and its counters tell how many it could not
\* look at (bsl_helpers.py _analyze_subsystem_live).
LiveHonest ==
  Answered /\ answer.source = "live" =>
    LET wanted == {f \in Inside(disk) : f.ok /\ (MatchOf(f) # "" \/ Matched(f) # <<>>)}
        here == {r.file : r \in rows}
    IN /\ here \subseteq wanted
       /\ wanted \cap listed \subseteq here
       /\ scan.failed >= Cardinality({f \in listed : Now({f}) = {} \/ (~f.ok /\ f \in disk /\ f.folder = q.name /\ Known(f))})
       /\ changes = 0 /\ ~answer.scan.truncated => here = wanted
       /\ answer.scan.truncated => answer.scan.total > Cardinality(listed)

\* Whatever the route, a row tells what it was found by, a subsystem comes once, and a name comes before what contains it.
RowsHonest ==
  Answered =>
    /\ \A r \in rows : Inside({r.file}) # {} /\ (r.match = "content" => r.file.name # q.name /\ r.visible # <<>>)
    /\ \A r, s \in rows : r.file.id = s.file.id /\ r.file.name = s.file.name => r = s
    /\ \A i, j \in DOMAIN answer.rows : answer.rows[i].match = "content" /\ i < j => answer.rows[j].match = "content"

\* The answer never exceeds its limits, cuts from its end only, and says what it left out (bsl_helpers.py analyze_subsystem).
LimitsHonest ==
  Answered =>
    LET shown == FoldLeft(LAMBDA n, r : n + Len(r.shown), 0, answer.rows)
        VisibleOf(p) == (CHOOSE r \in rows : r.file.id = p.file /\ r.file.name = p.name).visible
        visible == FoldLeft(LAMBDA n, r : n + Len(r.visible), 0, SetToSeq(rows))
    IN /\ shown <= q.limit /\ Size(answer.rows, answer.cut) <= SizeBudget
       /\ answer.found = Cardinality(rows) /\ (answer.kind = "found" <=> rows # {})
       /\ ~answer.cut => Len(answer.rows) = answer.found /\ shown = Smaller(q.limit, visible)
       /\ answer.cut => Len(answer.rows) < answer.found \/ shown < Smaller(q.limit, visible)
       /\ \A i \in DOMAIN answer.rows :
            /\ Len(answer.rows[i].shown) < Len(VisibleOf(answer.rows[i])) =>
                 answer.rows[i].cut /\ \A j \in (i + 1)..Len(answer.rows) : answer.rows[j].shown = <<>>

SubsystemsHonest == IndexedHonest /\ LiveHonest /\ RowsHonest /\ LimitsHonest
=============================================================================
