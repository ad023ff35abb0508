------------------------------ MODULE References ------------------------------
(***************************************************************************)
(* find_references_to_object and find_code_usages (bsl_helpers.py): who    *)
(* refers to an object, from the index while another process may write it, *)
(* or from a walk over the descriptors on disk, and what the answer says   *)
(* of its own completeness.  The object asked for is fixed; a reference is *)
(* where it is used and of which kind.                                     *)
(***************************************************************************)
EXTENDS Integers, Sequences, FiniteSets, SequencesExt

CONSTANTS
  Layouts,    \* sets of files [cat, obj, place] that a session may have on disk
  Tables,     \* what the tables of an index may hold: [rows, extra, usages, whole]
  KindOf,     \* of a row, numbered in the order of SQL (priority, path, used_in): its kind
  Sessions,   \* [role, inner, reader, fault, old]
  Questions,  \* [kinds: the empty set for all, limit, code: "" | "all" | "new"]
  Lists,      \* what may not be listed: "" | a category | "Commands" | "nested"
  MaxBuilds,  \* bound on the builds beside a question
  MaxFaults   \* bound on the changes of the files' health

VARIABLES
  session, layout, unlisted,
  health,     \* of a file: "fine" | "broken" | "unreadable"
  faults,
  index,      \* what the tables hold now, its generation and whether it is being built
  builds,
  pc, ask,
  pre, extra, counts, rows, \* what the helper has read so far
  todo, walk, \* the walk: what is left to visit, what it has collected
  answer, code
refVars == <<session, layout, unlisted, health, faults, index, builds, pc, ask, pre, extra, counts, rows, todo, walk, answer, code>>
disk == <<session, layout, unlisted, health, faults>>
reading == <<pre, extra, counts, rows>>

Ordered(S) == SetToSortSeq(S, <)
First(s, n) == SubSeq(s, 1, IF n < Len(s) THEN n ELSE Len(s))

(* _LIVE_REFERENCE_KINDS_BY_ROUTE: one kind stands for those of any        *)
(* descriptor; rights and subscriptions are no kinds of the walk.          *)
LiveKinds == {"type", "content", "command", "plan", "defined"}
RouteKinds(route, cat) ==
  IF route = "emit" THEN {"type"} \cup {k \in {"content"} : cat = "Subsystems"} ELSE {route}
Wants(k) == ask.kinds = {} \/ k \in ask.kinds
Requested == {k \in LiveKinds : Wants(k)}

-----------------------------------------------------------------------------
(* What there is to visit, in the order of the walk. *)

Categories == <<"Catalogs", "ExchangePlans", "Subsystems", "CommonCommands">>
HostCats == {"Catalogs", "ExchangePlans"}   \* _CMD_HOST_CATS
Visit(r, f, o) == [route |-> r, file |-> f, owner |-> o]
Files(c) == {f \in layout : f.cat = c}
Dirs(c) == {f.obj : f \in {g \in Files(c) : g.place # "flat"}}
At(c, o, places) == {f \in Files(c) : f.obj = o /\ f.place \in places}
Descriptor(c, o) ==
  IF At(c, o, {"mdo"}) # {} THEN At(c, o, {"mdo"})
  ELSE IF At(c, o, {"flat"}) # {} THEN At(c, o, {"flat"}) ELSE At(c, o, {"content"})
CommandsOf(c, o) == IF c = "CommonCommands" \/ unlisted = "Commands" THEN {} ELSE At(c, o, {"command"})
Directories(c) ==
  LET os == SetToSeq(Dirs(c))
      Of(o) == SetToSeq({Visit("emit", f, c \in HostCats) : f \in Descriptor(c, o)})
                 \o SetToSeq({Visit("command", f, FALSE) : f \in CommandsOf(c, o)})
  IN FlattenSeq([i \in 1..Len(os) |-> Of(os[i])])
Covered(c) == {o \in Dirs(c) : Descriptor(c, o) # {}}
Deep(f) == f.place \in {"command", "content", "form", "nested"}
Flat(c) ==
  LET fs == SetToSeq({f \in Files(c) : /\ f.place # "module"
                                       /\ ~ (f.place = "flat" /\ f.obj \in Covered(c))
                                       /\ ~ (unlisted = "nested" /\ Deep(f))})
      Of(f) == (IF c = "CommonCommands" THEN <<Visit("command", f, FALSE)>> ELSE <<>>) \o <<Visit("emit", f, FALSE)>>
  IN FlattenSeq([i \in 1..Len(fs) |-> Of(fs[i])])
OfCategory(c) == IF unlisted = c THEN <<>> ELSE Directories(c) \o Flat(c)
Special(route, c, places) ==
  IF unlisted = c \/ ~ Wants(route) THEN <<>>
  ELSE SetToSeq({Visit(route, f, FALSE) : f \in {g \in Files(c) : g.place \in places}})
Walk ==
  FlattenSeq([i \in 1..Len(Categories) |-> OfCategory(Categories[i])])
    \o Special("plan", "ExchangePlans", {"content", "mdo"}) \o Special("defined", "DefinedTypes", {"flat", "mdo"})
Complete == \A f \in layout : unlisted # f.cat
(* The listing of Commands is not guarded: the whole walk fails. *)
Raises == unlisted = "Commands" /\ \E f \in layout : f.place = "command"

(* What the files say of the object asked for. *)
Foreign(f) == f.place \in {"content", "form"}
Ref(f, k) == [in |-> <<f.cat, f.obj>>, kind |-> k]
Metadata(f) ==
  IF f.place \in {"mdo", "flat", "nested"} /\ f.cat \notin {"CommonCommands", "DefinedTypes"}
  THEN {Ref(f, k) : k \in RouteKinds("emit", f.cat)} ELSE {}
OwnCommands(f) == IF f.cat \in HostCats /\ f.place \in {"mdo", "flat"} THEN {Ref(f, "command")} ELSE {}
Special1(f, k) ==
  IF \/ k = "command" /\ (f.place = "command" \/ (f.cat = "CommonCommands" /\ f.place \in {"mdo", "flat"}))
     \/ k = "plan" /\ f.cat = "ExchangePlans" /\ f.place \in {"content", "mdo"}
     \/ k = "defined" /\ f.cat = "DefinedTypes"
  THEN {Ref(f, k)} ELSE {}
RefsIn(f) == Metadata(f) \cup OwnCommands(f) \cup UNION {Special1(f, k) : k \in LiveKinds}

-----------------------------------------------------------------------------
NoWalk == [seen |-> {}, accounted |-> {}, candidates |-> 0, scanned |-> 0, failed |-> 0, success |-> 0, found |-> <<>>, quiet |-> {}]
NoAnswer == [source |-> "none", refs |-> <<>>, total |-> 0, truncated |-> FALSE, coverage |-> "", included |-> FALSE,
  complete |-> FALSE, error |-> FALSE]
NoCode == [source |-> "none", shown |-> 0, total |-> 0, truncated |-> FALSE, partial |-> FALSE, missing |-> FALSE]
NoTable == [none |-> TRUE]

Init ==
  /\ session \in Sessions /\ layout \in Layouts /\ unlisted \in Lists
  /\ (session.reader = "reader" /\ session.fault # "rows") => layout = {} /\ unlisted = ""
  /\ session.inner => layout = {} \* the session's root is below the base
  /\ health = [f \in layout |-> "fine"] /\ faults = 0
  /\ index \in {[held |-> t, gen |-> 0, building |-> b, written |-> FALSE] : t \in Tables, b \in {FALSE, session.reader = "reader"}}
  /\ (session.reader # "reader" \/ session.fault = "rows") => index.held = [rows |-> {}, extra |-> {}, usages |-> 0, whole |-> TRUE]
  /\ builds = (IF index.building THEN 1 ELSE 0) /\ pc = "idle" /\ ask = [kinds |-> {}, limit |-> 0, code |-> ""]
  /\ pre = NoTable /\ extra = {} /\ counts = -1 /\ rows = <<>>
  /\ todo = <<>> /\ walk = NoWalk /\ answer = NoAnswer /\ code = NoCode

-----------------------------------------------------------------------------
(* The index, and the process that builds it. *)

Capabilities == IF session.fault = "caps" THEN NoTable ELSE index
Transient(before) ==
  \/ NoTable \in {before, Capabilities} \/ session.reader = "foreign"
  \/ before.building \/ index.building \/ before.gen # index.gen
Selected(S) == {n \in S : Wants(KindOf[n])}

(* What is written before a question, or after it, is not told apart. *)
Asking == pc \in {"expand", "count", "rows", "answer", "code_rows", "code_answer"}
Begin ==
  /\ Asking /\ session.reader = "reader" /\ builds < MaxBuilds /\ ~ index.building
  /\ builds' = builds + 1 /\ index' = [index EXCEPT !.building = TRUE]
  /\ UNCHANGED <<disk, pc, ask, reading, todo, walk, answer, code>>
Write(t) ==
  /\ Asking /\ index.building /\ t # index.held /\ ~ index.written /\ index' = [index EXCEPT !.held = t, !.written = TRUE]
  /\ UNCHANGED <<disk, builds, pc, ask, reading, todo, walk, answer, code>>
Commit ==
  /\ Asking /\ index.building /\ index' = [index EXCEPT !.building = FALSE, !.gen = @ + 1]
  /\ UNCHANGED <<disk, builds, pc, ask, reading, todo, walk, answer, code>>

Ask(q) ==
  /\ pc = "idle" /\ ask' = q
  /\ IF session.reader = "none"
     THEN pc' = "fallback" /\ UNCHANGED pre
     ELSE pc' = "expand" /\ pre' = Capabilities
  /\ UNCHANGED <<disk, index, builds, extra, counts, rows, todo, walk, answer, code>>

(* Subscriptions to a set of types and roles by their flag: no rows of the table. *)
Expand ==
  /\ pc = "expand" /\ pc' = "count"
  /\ extra' = (IF session.fault = "expand" THEN {} ELSE Selected(index.held.extra))
  /\ UNCHANGED <<disk, index, builds, ask, pre, counts, rows, todo, walk, answer, code>>
Count ==
  /\ pc = "count" /\ pc' = "rows"
  /\ counts' = (IF session.fault \in {"count", "rows"} THEN -1 ELSE Cardinality(Selected(index.held.rows)))
  /\ UNCHANGED <<disk, index, builds, ask, pre, extra, rows, todo, walk, answer, code>>
Rows ==
  /\ pc = "rows" /\ pc' = (IF session.fault = "rows" THEN "fallback" ELSE "answer")
  /\ rows' = First(Ordered(Selected(index.held.rows)), ask.limit)
  /\ UNCHANGED <<disk, index, builds, ask, pre, extra, counts, todo, walk, answer, code>>

(* Mutated form of Merged: what was expanded is appended to the page. *)
MergedLast(page, more) == page \o Ordered(more)
Merged(page, more) == Ordered(Range(page) \cup more)
Coverage ==
  IF Transient(pre) THEN "unavailable" ELSE IF session.inner THEN "wider_than_current" ELSE "build_unproven"
AnswerFromIndex ==
  /\ pc = "answer" /\ session.reader = "reader" /\ pc' = "code"
  /\ LET total == (IF counts >= 0 THEN counts ELSE Len(rows)) + Cardinality(extra) IN
       answer' = [NoAnswer EXCEPT !.source = "index", !.refs = First(Merged(rows, extra), ask.limit), !.total = total,
         !.truncated = total > ask.limit, !.coverage = Coverage, !.included = session.role = "extension" /\ total > 0]
  /\ UNCHANGED <<disk, index, builds, ask, reading, todo, walk, code>>
(* An index of another base: its rows are not given away. *)
AnswerForeign ==
  /\ pc = "answer" /\ session.reader = "foreign" /\ pc' = "fallback"
  /\ UNCHANGED <<disk, index, builds, ask, reading, todo, walk, answer, code>>

-----------------------------------------------------------------------------
(* The walk. *)

StartWalk ==
  /\ pc = "fallback" /\ pc' = "walk" /\ todo' = (IF Raises THEN <<>> ELSE Walk) /\ walk' = NoWalk
  /\ UNCHANGED <<disk, index, builds, ask, reading, answer, code>>

Account(w, f) == f \notin w.accounted
Counted(w, f, ok) ==
  [w EXCEPT !.accounted = @ \cup {f}, !.candidates = @ + 1, !.scanned = @ + 1, !.failed = @ + IF ok THEN 0 ELSE 1,
            !.success = @ + IF ok /\ session.role = "extension" THEN 1 ELSE 0]
Note(w, f, relevant, ok) ==
  IF relevant /\ Account(w, f) THEN Counted(w, f, ok)
  ELSE IF ok THEN w ELSE [w EXCEPT !.quiet = @ \cup {f}]
(* Each use is given once, whatever number of files say it. *)
Emit(w, refs) ==
  LET fresh == {r \in refs : Wants(r.kind)} \ Range(w.found) IN [w EXCEPT !.found = @ \o SetToSeq(fresh)]

(* A file that is not well-formed, or cannot be read, remains a candidate; *)
(* one of another route is none.                                          *)
EmitFromXml(w, v) ==
  LET f == v.file
      relevant == RouteKinds("emit", f.cat) \cap Requested # {} \/ (v.owner /\ "command" \in Requested)
      seen == [w EXCEPT !.seen = @ \cup {f}]
  IN IF f \in w.seen THEN w
     ELSE IF health[f] # "fine" THEN Note(seen, f, relevant, FALSE)
     ELSE IF Foreign(f) THEN seen
     ELSE Emit(Emit(Note(seen, f, relevant, TRUE), Metadata(f)), IF v.owner THEN OwnCommands(f) ELSE {})
EmitCommandParamRefs(w, v) ==
  LET f == v.file
      seen == [w EXCEPT !.seen = @ \cup {f}]
  IN IF ~ Wants("command") \/ f \in w.seen THEN w
     ELSE IF health[f] # "fine" THEN Note(seen, f, TRUE, FALSE)
     ELSE Emit(Note(seen, f, TRUE, TRUE), Special1(f, "command"))
EmitSpecial(w, v) ==
  LET f == v.file IN
  IF health[f] # "fine" THEN Note(w, f, TRUE, FALSE)
  ELSE [Note(w, f, TRUE, TRUE) EXCEPT !.found = @ \o SetToSeq(Special1(f, v.route))]

VisitNext ==
  /\ pc = "walk" /\ todo # <<>> /\ todo' = Tail(todo) /\ UNCHANGED pc
  /\ walk' = (CASE Head(todo).route = "emit" -> EmitFromXml(walk, Head(todo))
                [] Head(todo).route = "command" -> EmitCommandParamRefs(walk, Head(todo))
                [] OTHER -> EmitSpecial(walk, Head(todo)))
  /\ UNCHANGED <<disk, index, builds, ask, reading, answer, code>>
Walked ==
  /\ pc = "walk" /\ todo = <<>> /\ pc' = "code"
  /\ answer' = [NoAnswer EXCEPT !.source = "live", !.refs = First(walk.found, ask.limit), !.total = Len(walk.found),
       !.truncated = Len(walk.found) > ask.limit, !.coverage = "not_used", !.complete = Complete /\ ~ Raises,
       !.error = Raises,
       !.included = \/ walk.success > 0
                    \/ /\ session.role = "extension" /\ ~ session.inner /\ Requested # {}
                       /\ Complete /\ ~ Raises /\ walk.candidates = 0]
  /\ UNCHANGED <<disk, index, builds, ask, reading, todo, walk, code>>

(* The files change their health while the walk is under way. *)
Change(f, h) ==
  /\ pc \in {"fallback", "walk"} /\ faults < MaxFaults /\ faults' = faults + 1 /\ health[f] # h
  /\ pc = "walk" => \E i \in 1..Len(todo) : todo[i].file = f \* not visited for the last time
  /\ health' = [health EXCEPT ![f] = h]
  /\ UNCHANGED <<session, layout, unlisted, index, builds, pc, ask, reading, todo, walk, answer, code>>

-----------------------------------------------------------------------------
(* include_code: find_code_usages, from a table of the core domain. *)

NoCodeAsked ==
  /\ pc = "code" /\ ask.code = "" /\ pc' = "done"
  /\ UNCHANGED <<disk, index, builds, ask, reading, todo, walk, answer, code>>
CodeCount ==
  /\ pc = "code" /\ ask.code # "" /\ pc' = "code_rows"
  /\ pre' = (IF session.reader = "none" THEN NoTable ELSE Capabilities)
  /\ counts' = (IF session.fault \in {"count", "rows"} \/ session.reader = "none" THEN -1 ELSE index.held.usages)
  /\ UNCHANGED <<disk, index, builds, ask, extra, rows, todo, walk, answer, code>>
CodeRows ==
  /\ pc = "code_rows" /\ pc' = "code_answer"
  /\ rows' = First([i \in 1..index.held.usages |-> i], ask.limit)
  /\ UNCHANGED <<disk, index, builds, ask, pre, extra, counts, todo, walk, answer, code>>
CodeFromIndex == session.reader # "none" /\ session.fault # "rows" /\ ~ Transient(pre)
CodeAnswer ==
  /\ pc = "code_answer" /\ pc' = "done"
  /\ code' =
       IF CodeFromIndex
       THEN LET total == IF counts >= 0 THEN counts ELSE Len(rows)
                missing == session.old /\ ask.code = "new"
            IN [source |-> "index", shown |-> Len(rows), total |-> total, truncated |-> counts >= 0 /\ total > ask.limit,
                partial |-> ~ index.held.whole \/ missing, missing |-> missing]
       ELSE [NoCode EXCEPT !.source = "live", !.partial = TRUE]
  /\ UNCHANGED <<disk, index, builds, ask, reading, todo, walk, answer>>

Next ==
  \/ Begin \/ Commit \/ (\E t \in Tables : Write(t))
  \/ (\E q \in Questions : Ask(q)) \/ Expand \/ Count \/ Rows \/ AnswerFromIndex \/ AnswerForeign
  \/ StartWalk \/ VisitNext \/ Walked \/ (\E f \in layout : \E h \in {"fine", "broken", "unreadable"} : Change(f, h))
  \/ NoCodeAsked \/ CodeCount \/ CodeRows \/ CodeAnswer

-----------------------------------------------------------------------------
(* A page of the index: with a coverage that is not "unavailable" it is the    *)
(* top of all the rows there are, declared and expanded, and the total counts  *)
(* them, whatever was being built.  A failed count or expansion is not told.   *)
PageOfOneIndex ==
  answer.source = "index" /\ answer.coverage # "unavailable" /\ session.fault \notin {"count", "expand"}
    /\ pc = "code" /\ ~ index.building /\ pre.gen = index.gen =>
    LET all == Selected(index.held.rows) \cup Selected(index.held.extra) IN
      /\ answer.refs = First(Ordered(all), ask.limit)
      /\ answer.total = Cardinality(all) /\ (answer.truncated <=> Len(answer.refs) < answer.total)

(* The census of the walk: each file once, and a reference that is not given    *)
(* is one of a file that was counted as failed.  Not told: a second read that   *)
(* fails, directories below the first level that are not listed, the commands   *)
(* of an object without a directory and those of a common command that has one. *)
CensusHonest ==
  answer.source = "live" /\ ~ answer.error =>
    /\ walk.scanned = walk.candidates /\ walk.candidates <= Cardinality(layout)
    /\ Len(walk.found) - Cardinality(Range(walk.found)) <= Cardinality({f \in layout : f.place = "content" /\ At(f.cat, f.obj, {"mdo"}) # {}})
    /\ answer.complete /\ walk.failed = 0 =>
         \A f \in layout : \A r \in RefsIn(f) : Wants(r.kind) =>
           \/ r \in Range(walk.found) \/ f \in walk.quiet
           \/ unlisted = "nested" /\ Deep(f)
           \/ r.kind = "command" /\ f.cat = "CommonCommands" /\ f.obj \in Dirs(f.cat)
           \/ r.kind = "command" /\ f.obj \notin Dirs(f.cat)

(* The extension is called included when a file of it was read, or there is     *)
(* none that the question is about.                                            *)
IncludedHonest ==
  answer.included /\ answer.source = "live" =>
    /\ session.role = "extension"
    /\ walk.success = 0 => \A f \in layout : \A r \in RefsIn(f) : Wants(r.kind) =>
         \/ unlisted = "nested" /\ Deep(f)
         \/ r.kind = "command" /\ f.obj \in Dirs(f.cat) /\ f.cat = "CommonCommands"
         \/ r.kind = "command" /\ f.obj \notin Dirs(f.cat)

(* Code usages that are not called partial are all there are, in one generation. *)
UsagesHonest ==
  pc = "done" /\ code.source = "index" /\ session.fault # "count" /\ ~ index.building /\ pre.gen = index.gen =>
    /\ session.reader = "reader"
    /\ ~ code.partial => code.total = index.held.usages /\ (code.truncated <=> code.shown < code.total)

ReferencesHonest == PageOfOneIndex /\ CensusHonest /\ IncludedHonest /\ UsagesHonest
=============================================================================
