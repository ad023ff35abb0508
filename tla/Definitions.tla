----------------------------- MODULE Definitions -----------------------------
(***************************************************************************)
(* find_definition (bsl_helpers.py): every place where a procedure is      *)
(* declared, from the index and a pass over the modules of neighbouring    *)
(* extensions, or from the files alone; and what the answer claims of      *)
(* itself.  Modules are numbered in the order of their paths; a row is a   *)
(* module and the number of the declaration in it.  The sources do not     *)
(* change, but files may be out of reach for a while.                      *)
(***************************************************************************)
EXTENDS Integers, Sequences, FiniteSets, SequencesExt

CONSTANTS
  Mods,       \* numbers of modules
  RootOf,     \* the root of a module, "main" or an extension's
  ObjectOf,   \* the object a module belongs to
  Roots,      \* the roots of neighbouring extensions
  Counts,     \* of a module: how often it may declare the name
  Lookalikes, \* modules with a line that looks like a declaration and is none
  Skipped,    \* modules an incomplete index has no rows of
  Questions,  \* [hint: "" | "object" | "path", of: an object or a module, limit]
  Budget,     \* _DECL_SCAN_MODULE_BUDGET
  MaxAsked    \* bound on the questions of a behaviour

VARIABLES
  declared,   \* of a module: how often it declares the name
  index,      \* "none", or what _core_bsl_proof says of its generation
  standalone, \* the base is itself an extension
  walkErrors, \* roots the walk met an error in
  unreadable, \* modules that cannot be read now
  names,      \* _ext_decl_names_cache: "" | "names" | "failed"
  asked,      \* how many questions were put
  answer
world == <<declared, index, standalone, walkErrors>>
defVars == <<world, unreadable, names, asked, answer>>

InMain(m) == RootOf[m] = "main"
Ordered(S) == SetToSortSeq(S, <)
First(s, n) == SubSeq(s, 1, IF n < Len(s) THEN n ELSE Len(s))
RowsIn(m) == [i \in 1..declared[m] |-> <<m, i>>]
RowsOf(S) == LET s == Ordered(S) IN FlattenSeq([i \in 1..Len(s) |-> RowsIn(s[i])])
(* What a line-wise look finds: declarations and what looks like one. *)
Mentions(m) == declared[m] > 0 \/ m \in Lookalikes
HitsIn(m) == [i \in 1..(declared[m] + IF m \in Lookalikes THEN 1 ELSE 0) |-> m]

(* The exact predicate of the hint, the same for every branch. *)
Fits(q, m) == q.hint = "" \/ (q.hint = "object" /\ ObjectOf[m] = q.of) \/ (q.hint = "path" /\ m = q.of)
Listed == {m \in Mods : RootOf[m] \notin walkErrors}
Window(S) == {m \in S : Cardinality({n \in S : n < m}) < Budget}

NoAnswer == [rows |-> <<>>, total |-> 0, truncated |-> FALSE, reasons |-> {}, accounted |-> {}, read |-> {},
  question |-> [hint |-> "", of |-> 0, limit |-> 0], given |-> FALSE]

Init ==
  /\ declared \in [Mods -> UNION {Counts[m] : m \in Mods}] /\ \A m \in Mods : declared[m] \in Counts[m]
  /\ index \in {"none", "ok", "incomplete", "transient"}
  /\ standalone \in (IF Roots = {} THEN BOOLEAN ELSE {FALSE})
  /\ walkErrors \in {{}} \cup {{r} : r \in Roots \cup {"main"}}
  /\ unreadable = {} /\ names = [m \in Mods |-> ""] /\ asked = 0 /\ answer = NoAnswer

-----------------------------------------------------------------------------
(* The pass over the extensions: names first, which the session keeps, and  *)
(* a parse of the modules that may have the name.                          *)

NamesFailed(lost) == {m \in Mods : names[m] = "failed" \/ (names[m] = "" /\ m \in lost)}
ExtPass(q, lost) ==
  LET candidates == {m \in Listed : ~ InMain(m) /\ Fits(q, m)}
      window == Window(candidates)
      failed == window \cap (NamesFailed(lost) \cup {m \in lost : Mentions(m)})
      good == window \ failed
  IN [rows |-> RowsOf(good), window |-> window, failed |-> failed, truncated |-> window # candidates,
      accounted |-> {r \in Roots : (\E m \in good : RootOf[m] = r)
                                     \/ (r \notin walkErrors /\ \A m \in candidates : RootOf[m] # r)}]
NamesAfter(window, lost) ==
  [m \in Mods |-> IF m \in window /\ names[m] = "" THEN (IF m \in lost THEN "failed" ELSE "names") ELSE names[m]]

(* What the page keeps of the main rows when extensions have some too. *)
MainPart(main, ext, limit) ==
  LET fifth == limit \div 5
      least == IF fifth < 1 THEN 1 ELSE fifth
      quota == IF Len(ext) < least THEN Len(ext) ELSE least
  IN IF ext = <<>> THEN First(main, limit) ELSE First(main, IF limit > quota THEN limit - quota ELSE 0)
Merged(main, ext, limit) == First(MainPart(main, ext, limit) \o ext, limit)

(* The index, with the rows of the extensions from their files. *)
FromIndex(q, lost) ==
  LET main == RowsOf({m \in Mods : InMain(m) /\ Fits(q, m) /\ (index = "ok" \/ m \notin Skipped)})
      ext == ExtPass(q, lost)
      total == Len(main) + Len(ext.rows)
      rows == Merged(First(main, q.limit), ext.rows, q.limit)
  IN [rows |-> rows, total |-> total, truncated |-> total > Len(rows) \/ ext.truncated, question |-> q, given |-> TRUE,
      reasons |-> {r \in {"catalogue", "budget", "read", "domain"} :
                     \/ r = "catalogue" /\ walkErrors \cap Roots # {}
                     \/ r = "budget" /\ ext.truncated
                     \/ r = "read" /\ ext.failed # {}
                     \/ r = "domain" /\ index = "incomplete"},
      accounted |-> IF standalone THEN {r \in {"main"} : main # <<>> \/ index = "ok"} ELSE ext.accounted,
      read |-> (ext.window \ ext.failed) \cup IF main # <<>> THEN {m \in Mods : InMain(m)} ELSE {}]

-----------------------------------------------------------------------------
(* Without a proven index. *)

Unproven == index = "none"   \* the catalogue comes from a glob
Live(q, full, cap, budget, reasons, accounted, read) ==
  [rows |-> First(full, q.limit), total |-> Len(full), truncated |-> Len(full) > q.limit \/ cap \/ budget,
   reasons |-> reasons, accounted |-> accounted, read |-> read,
   question |-> q, given |-> TRUE]

(* The file that the hint names, whether the catalogue has it or not. *)
FromPath(q, lost) ==
  LET good == {q.of} \ lost IN
  Live(q, RowsOf(good), FALSE, FALSE, IF good = {} THEN {"read"} ELSE {},
       {r \in Roots \cup {"main"} : (r # "main" \/ standalone) /\ \E m \in good : RootOf[m] = r}, good)

FromObject(q, lost) ==
  LET candidates == {m \in Listed : Fits(q, m)}
      window == Window(candidates)
      good == window \ lost
  IN Live(q, RowsOf(good), FALSE, window # candidates,
          {r \in {"catalogue", "unproven", "budget", "read"} :
             \/ r = "catalogue" /\ walkErrors # {} /\ ~ (Unproven /\ walkErrors = {"main"})
             \/ r = "unproven" /\ Unproven
             \/ r = "budget" /\ window # candidates
             \/ r = "read" /\ window \cap lost # {}},
          {r \in IF standalone THEN {"main"} ELSE Roots :
             \/ \E m \in good : RootOf[m] = r
             \/ /\ \A m \in candidates : RootOf[m] # r
                /\ walkErrors = {} \/ (Unproven /\ walkErrors = {"main"})},
          good)

(* A grep for the declaration, stopped at the cap, and a parse of its files. *)
FromGrep(q, lost) ==
  LET window == Window(Listed)
      s == Ordered(window \ lost)
      hits == FlattenSeq([i \in 1..Len(s) |-> HitsIn(s[i])])
      cap == Len(hits) > q.limit + 1
      files == {m \in Mods : \E i \in 1..Len(First(hits, q.limit + 1)) : hits[i] = m}
      budget == window # Listed /\ ~ cap
  IN Live(q, RowsOf(files), cap, budget,
          {r \in {"catalogue", "unproven", "cap", "budget", "read"} :
             \/ r = "catalogue" /\ walkErrors # {} /\ ~ (Unproven /\ walkErrors = {"main"})
             \/ r = "unproven" /\ Unproven
             \/ r = "cap" /\ cap
             \/ r = "budget" /\ budget
             \/ r = "read" /\ window \cap lost # {}},
          {}, window \ lost)

-----------------------------------------------------------------------------
(* A module that cannot be read now may still be among the kept bodies. *)
Ask(q) ==
  /\ asked < MaxAsked /\ asked' = asked + 1
  /\ \E lost \in SUBSET unreadable :
       \/ /\ index \in {"ok", "incomplete"} /\ answer' = FromIndex(q, lost)
          /\ names' = NamesAfter(ExtPass(q, lost).window, lost)
       \/ /\ index \in {"none", "transient"}
          /\ answer' = (IF q.hint = "path" THEN FromPath(q, lost) ELSE IF q.hint = "object" THEN FromObject(q, lost)
                        ELSE FromGrep(q, lost))
          /\ UNCHANGED names
  /\ UNCHANGED <<world, unreadable>>
Lose(m) ==
  /\ asked < MaxAsked /\ unreadable = {} /\ unreadable' = {m} /\ answer' = NoAnswer
  /\ UNCHANGED <<world, names, asked>>
Return ==
  /\ asked < MaxAsked /\ unreadable # {} /\ unreadable' = {} /\ answer' = NoAnswer
  /\ UNCHANGED <<world, names, asked>>
Next == (\E q \in Questions : Ask(q)) \/ (\E m \in Mods : Lose(m)) \/ Return

-----------------------------------------------------------------------------
Exact == answer.reasons = {}
Unique == Exact /\ answer.total = 1
True == RowsOf({m \in Mods : Fits(answer.question, m)})

(* An answer without a reason to doubt it counts every declaration there is,  *)
(* so one that is called unique is the only one (8237-8260).                 *)
ExactIsExact == answer.given /\ Exact => answer.total = Len(True)

(* The page: no row twice, none that does not exist, none left out unless the *)
(* answer is called truncated or a reason is given; rows that are there are   *)
(* not called truncated without a cause.                                     *)
PageHonest ==
  answer.given =>
    /\ Len(answer.rows) <= answer.question.limit
    /\ Cardinality(Range(answer.rows)) = Len(answer.rows) /\ Range(answer.rows) \subseteq Range(True)
    /\ ~ answer.truncated => Len(answer.rows) = answer.total
    /\ answer.truncated => answer.total > Len(answer.rows) \/ answer.reasons \cap {"cap", "budget"} # {}
    /\ answer.total <= Len(True)

(* A page full of main rows shows the extension too, and the reverse (19320). *)
BothSidesShown ==
  answer.given /\ index \in {"ok", "incomplete"} =>
    LET shown(S) == {i \in 1..Len(answer.rows) : answer.rows[i][1] \in S}
        main == {m \in Mods : InMain(m)}
        found == {m \in answer.read \ main : Fits(answer.question, m) /\ declared[m] > 0}
    IN answer.question.limit >= 2 =>
         /\ found # {} => shown(Mods \ main) # {}
         /\ (\E m \in main \ Skipped : Fits(answer.question, m) /\ declared[m] > 0) => shown(main) # {}

(* A root is accounted for when a module of it was read, or it has none that   *)
(* the question is about.                                                     *)
RootsHonest ==
  answer.given => \A r \in answer.accounted :
    \/ \E m \in answer.read : RootOf[m] = r
    \/ \A m \in Mods : RootOf[m] = r => ~ Fits(answer.question, m) \/ (standalone /\ declared[m] = 0)
    \/ Unproven /\ walkErrors = {"main"} \* a glob swallows what it may not list

DefinitionsHonest == ExactIsExact /\ PageHonest /\ BothSidesShown /\ RootsHonest
=============================================================================
