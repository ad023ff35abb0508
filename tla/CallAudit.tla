------------------------------ MODULE CallAudit ------------------------------
(***************************************************************************)
(* find_unresolved_calls (bsl_helpers.py): calls whose target does not     *)
(* exist.  The main configuration is read from the index, between two      *)
(* looks at its generation; the extensions from their files, once for a    *)
(* session; a result is kept for a generation.  All calls of a behaviour   *)
(* go to one method of one subject, a common module or a manager, and a    *)
(* layer is described by what it has of that subject.                      *)
(***************************************************************************)
EXTENDS Integers, FiniteSets

CONSTANTS
  Exts,       \* layers of extensions
  Calls,      \* [layer, kind, file, head, platform, keyed]
  Worlds,     \* [subject, main, has]: what the layers have at first
  Updates,    \* what main may have after an update
  Faults,     \* standing faults; a behaviour has one of them, or updates and lost reads
  MayFail,    \* files that may be lost when the calls of a result are looked at again
  Questions,  \* [layer: "all" | "main" | "extensions" | one of Exts, file, unknown]
  MaxUpdates, \* bound on updates of the index
  MaxFaults,  \* bound on lost reads
  MaxAsked    \* bound on questions

VARIABLES
  subject,    \* "module" or "manager"
  fault,      \* what is wrong all the time, or ""
  has,        \* of an extension: what it has of the subject
  main,       \* what the index has of it now
  ver, building, \* the generation, and whether it is being rebuilt
  contentAt,  \* history: what main had in a generation
  phase1, phase2, \* the caches of the extensions
  cache,      \* _audit_cache
  pc, ask,
  pre,        \* the look at the generation before the reading, or the one the answer rests on
  catalog, keys, comp, lost, asked
world == <<subject, fault, has>>
indexOf == <<main, ver, building, contentAt>>
session == <<phase1, phase2, cache>>
auditVars == <<world, indexOf, session, pc, ask, pre, catalog, keys, comp, lost, asked>>

Layers == Exts \cup {"main"}
Texts == {"open", "private", "bare", "twice", "unread"}   \* there is a module with text
Modules == Texts \cup {"closed"}
NoCatalog == [known |-> FALSE, entry |-> "none", complete |-> FALSE, objects |-> FALSE]
NoComp == [stamp |-> -1, issues |-> {}, global |-> {}, owners |-> {}, counted |-> {}, key |-> <<>>]
NoCache == [layers |-> [l \in Exts |-> NoCatalog], failed |-> FALSE]

(* Private in one layer and in a closed module of the other, a name is       *)
(* declared twice for a caller: that does not compile.                       *)
Compiles(h, m) == \A l \in Exts : {h[l], m} # {"private", "closed"}
MayLose == lost < MaxFaults /\ fault = ""

Init ==
  /\ fault \in Faults \cup {""}
  /\ \E w \in Worlds : Compiles(w.has, w.main) /\ subject = w.subject /\ has = w.has /\ main = w.main
  /\ ver = 0 /\ building = FALSE /\ contentAt = [v \in 0..(2 * MaxUpdates) |-> IF v = 0 THEN main ELSE "none"]
  /\ phase1 = NoCache /\ phase2 = {} /\ cache = {}
  /\ pc = "idle" /\ ask = (CHOOSE q \in Questions : TRUE) /\ pre = <<>> /\ catalog = NoCatalog /\ keys = {} /\ comp = NoComp
  /\ lost = 0 /\ asked = 0

WantMain(q) == q.layer \in {"all", "main"}
WantExt(q) == q.layer # "main"
Key(q) == <<WantMain(q), WantExt(q), q.file, q.unknown>>
Selected(q, l) == q.layer \in {"all", l} \/ (q.layer = "extensions" /\ l # "main")
InPath(q, c) == q.file \in {"", c.file}

HasReader == fault # "no_reader"
Stamp == IF HasReader THEN ver ELSE 0

-----------------------------------------------------------------------------
(* The layers of the extensions. *)

(* A module that cannot be read keeps its place, with unknown methods; in a  *)
(* root that cannot be walked there is nothing to be found.                  *)
SeenIn(l, failed) ==
  [known |-> TRUE, objects |-> fault # "metadata", complete |-> fault # "walk" /\ ~ failed,
   entry |-> IF fault = "walk" THEN "none" ELSE IF failed THEN "unread" ELSE has[l]]
Catalogs(failed) ==
  [layers |-> [l \in Exts |-> SeenIn(l, l \in failed)], failed |-> failed # {} \/ fault \in {"metadata", "walk"}]
Readable == {l \in Exts : has[l] \in Texts /\ fault # "walk"}

Start(q) ==
  /\ pc = "idle" /\ asked < MaxAsked /\ asked' = asked + 1 /\ ask' = q
  /\ ~ \E k \in cache : k.key = Key(q) /\ k.stamp = Stamp
  /\ \/ phase1 # NoCache /\ UNCHANGED <<phase1, lost>>
     \/ phase1 = NoCache /\ phase1' = Catalogs({}) /\ UNCHANGED lost
     \/ phase1 = NoCache /\ MayLose /\ lost' = lost + 1 /\ \E l \in Readable : phase1' = Catalogs({l})
  /\ pre' = <<ver, building, TRUE>> /\ pc' = "catalog"
  /\ comp' = NoComp /\ UNCHANGED <<world, indexOf, phase2, cache, catalog, keys>>

FromCache(q) ==
  /\ pc = "idle" /\ asked < MaxAsked /\ asked' = asked + 1 /\ ask' = q
  /\ \E k \in cache : k.key = Key(q) /\ k.stamp = Stamp /\ comp' = k
  /\ pre' = <<ver>> /\ UNCHANGED <<world, indexOf, session, pc, catalog, keys, lost>>

-----------------------------------------------------------------------------
(* The index. *)

(* Its modules lack one that a failed walk of the build missed; an empty list *)
(* of files proves no object.                                                *)
InIndex(m) ==
  IF fault = "incomplete" /\ m \in Texts THEN (IF subject = "module" THEN "none" ELSE "object") ELSE m
ReadCatalog ==
  /\ pc = "catalog" /\ pc' = "rows"
  /\ \/ HasReader
        /\ catalog' = [known |-> TRUE, entry |-> InIndex(main), complete |-> TRUE, objects |-> fault # "no_paths"]
        /\ UNCHANGED lost
     \/ ~ HasReader /\ catalog' = NoCatalog /\ UNCHANGED lost
     \/ HasReader /\ MayLose /\ lost' = lost + 1 /\ catalog' = NoCatalog
  /\ UNCHANGED <<world, indexOf, session, ask, pre, keys, comp, asked>>

AuditOk == HasReader /\ fault # "v16"
(* The calls of main that the build resolved to a key. *)
Keyed(m) == {c \in Calls : c.layer = "main" /\ subject = "module" /\ c.kind \in {"direct", "launch"}
                            /\ (m = "open" \/ (m = "twice" /\ c.keyed))}
ReadRows ==
  /\ pc = "rows" /\ pc' = "proof" /\ keys' = Keyed(InIndex(main))
  /\ \/ UNCHANGED <<lost, pre>>
     \/ WantMain(ask) /\ MayLose /\ lost' = lost + 1 /\ pre' = [pre EXCEPT ![3] = FALSE]
  /\ UNCHANGED <<world, indexOf, session, ask, catalog, comp, asked>>

(* Mutated form of Proof: the second look is not compared with the first. *)
ProofOnce(v, b) == IF b THEN "transient" ELSE IF fault = "incomplete" THEN "incomplete" ELSE "ok"
(* _core_bsl_proof of the two looks. *)
Proof(v, b) ==
  IF v # ver \/ b \/ building THEN "transient" ELSE IF fault = "incomplete" THEN "incomplete" ELSE "ok"

-----------------------------------------------------------------------------
(* _audit_classify, and once more with the closed modules of managers. *)

Elsewhere(c) == IF c.layer = "main" THEN "target_only_in_extension" ELSE "target_in_other_extension"
Classify(c, seen, closed) ==
  LET visible == {"main", c.layer}
      known == {l \in visible : seen[l].known}
      others == {l \in Layers \ visible : seen[l].known}
      unproven == \E l \in visible : ~ seen[l].known \/ ~ seen[l].complete
      listed == Texts \cup (IF subject = "module" \/ closed THEN {"closed"} ELSE {})
      found == {l \in known : seen[l].entry \in listed}
      Object(l) == seen[l].entry \in listed \/ (seen[l].objects /\ seen[l].entry # "none")
      Some(S, entries) == \E l \in S : seen[l].entry \in entries
  IN CASE subject = "module" /\ found = {} ->
            IF unproven THEN "targets" ELSE IF Some(others, Modules) THEN Elsewhere(c)
            ELSE IF c.kind = "launch" THEN "module_missing" ELSE ""
       [] subject = "manager" /\ ~ (\E l \in known : Object(l)) ->
            IF \E l \in visible : ~ seen[l].objects THEN "objects"
            ELSE IF \E l \in others : Object(l) THEN Elsewhere(c) ELSE "object_missing"
       [] subject = "manager" /\ c.platform /\ (\E l \in known : Object(l)) -> ""
       [] OTHER ->
            IF Some(found, {"twice"}) THEN "ambiguous_module"
            ELSE IF Some(found, {"open"}) THEN ""
            ELSE IF Some(found, {"unread", "closed"}) \/ unproven THEN "targets"
            ELSE IF Some(found, {"private"}) THEN "not_exported"
            ELSE IF Some(others, {"open", "twice"}) THEN Elsewhere(c) ELSE "method_missing"
Verdict(c, seen) ==
  LET first == Classify(c, seen, FALSE) IN
  IF subject = "manager" /\ first \in {"method_missing", "target_only_in_extension", "target_in_other_extension"}
  THEN Classify(c, seen, TRUE) ELSE first

(* _settle: what a verdict comes to when the head of the call may be a name   *)
(* of its surroundings.                                                      *)
Settled(c, reason, head) ==
  CASE reason = "" \/ (head = "shadowed" /\ c.kind = "direct") -> ""
    [] head = "unproven" /\ c.kind = "direct" /\ reason # "" -> "shadow"
    [] OTHER -> reason

Doubts == {"objects", "targets", "shadow"}
Named(c, seen) == subject = "manager" \/ \E l \in Layers : seen[l].known /\ seen[l].entry \in Modules
Dynamic(head) == IF head = "free" THEN "dynamic_name" ELSE "shadow"

(* Of the calls of main: the candidates of the scan, the managers, the        *)
(* launches that no exact edge settles.                                      *)
OfMain(c, seen, head, q) ==
  LET ambiguous == subject = "module" /\ seen["main"].entry = "twice" IN
  CASE c.kind = "direct" /\ ~ Named(c, seen) -> IF q.unknown THEN "receiver_unknown" ELSE ""
    [] c.kind = "direct" /\ Named(c, seen) ->
         IF c \in keys /\ ~ ambiguous THEN "" ELSE Settled(c, Verdict(c, seen), head)
    [] c.kind = "launch" -> IF c \in keys /\ ~ ambiguous THEN "" ELSE Settled(c, Verdict(c, seen), head)
    [] c.kind = "dynamic" -> Dynamic(head)
    [] OTHER -> ""
(* Of the calls of an extension, where launches are not settled before. *)
OfExt(c, seen, head, q) ==
  CASE c.kind \in {"launch", "dynamic"} /\ head = "shadowed" -> ""
    [] c.kind = "launch" /\ head = "unproven" -> "shadow"
    [] c.kind = "dynamic" /\ head # "shadowed" -> Dynamic(head)
    [] c.kind = "direct" /\ ~ Named(c, seen) -> IF q.unknown THEN "receiver_unknown" ELSE ""
    [] (c.kind = "direct" /\ Named(c, seen)) \/ (c.kind = "launch" /\ head = "free") ->
         Settled(c, Verdict(c, seen), head)
    [] OTHER -> ""
(* The calls that are in one of the counters. *)
Counts(c, head) ==
  IF c.layer = "main" THEN c.kind # "dynamic" \/ head = "free" ELSE ~ (c.kind \in {"launch", "dynamic"} /\ head # "free")

(* The rows of the second phase: a root that cannot be walked has none. *)
ExtRows == IF fault = "walk" THEN {} ELSE {c \in Calls : c.layer # "main"}
OverBudget(c) == fault = "budget" /\ c.file = "late"

Finish ==
  /\ pc = "proof" /\ pc' = "idle"
  /\ \E unread \in {{}} \cup (IF MayLose THEN {{f} : f \in MayFail} ELSE {}) :
     LET proof == IF HasReader THEN Proof(pre[1], pre[2]) ELSE "transient"
         mainKnown == catalog.known /\ proof # "transient"
         seen == [l \in Layers |->
                    IF l # "main" THEN phase1.layers[l]
                    ELSE IF mainKnown THEN [catalog EXCEPT !.complete = proof = "ok" /\ fault # "v16"] ELSE NoCatalog]
         transient == WantMain(ask) /\ AuditOk /\ ~ (mainKnown /\ pre[3])
         rows == WantMain(ask) /\ AuditOk /\ ~ transient /\ fault # "no_calls"
         head(c) == IF c.file \in unread /\ c.kind \in {"direct", "dynamic"} THEN "unproven" ELSE c.head
         main_ == {c \in Calls : rows /\ c.layer = "main" /\ InPath(ask, c)}
         ext == {c \in ExtRows : WantExt(ask) /\ ~ OverBudget(c) /\ InPath(ask, c)}
         result(c) == IF c \in main_ THEN OfMain(c, seen, head(c), ask) ELSE OfExt(c, seen, head(c), ask)
         results == {<<c, result(c)>> : c \in main_ \cup ext}
         global == {r \in {"extension", "reader", "catalog", "domain", "transient", "calls", "budget"} :
                      \/ r = "extension" /\ phase1.failed
                      \/ r = "reader" /\ ((WantMain(ask) /\ ~ AuditOk) \/ (mainKnown /\ fault = "v16"))
                      \/ r = "catalog" /\ ~ mainKnown
                      \/ r = "domain" /\ mainKnown /\ proof = "incomplete"
                      \/ r = "transient" /\ transient
                      \/ r = "calls" /\ WantMain(ask) /\ AuditOk /\ ~ transient /\ fault = "no_calls"
                      \/ r = "budget" /\ WantExt(ask) /\ fault = "budget"}
         new == [stamp |-> Stamp, key |-> Key(ask), global |-> global,
                 issues |-> {r \in results : r[2] \notin Doubts \cup {""}},
                 owners |-> {<<r[1].layer, r[2]>> : r \in {s \in results : s[2] \in Doubts}},
                 counted |-> {c \in main_ \cup ext : Counts(c, head(c))}]
     IN /\ comp' = new /\ lost' = lost + (IF unread = {} THEN 0 ELSE 1)
        /\ phase2' = IF WantExt(ask) THEN ExtRows ELSE phase2
        /\ cache' = IF ~ transient /\ (~ HasReader \/ proof # "transient")
                    THEN {k \in cache : k.key # Key(ask)} \cup {new} ELSE cache
  /\ pre' = <<ver>> /\ catalog' = NoCatalog /\ keys' = {}
  /\ UNCHANGED <<world, indexOf, phase1, ask, asked>>

-----------------------------------------------------------------------------
Begin ==
  /\ ver < 2 * MaxUpdates /\ ~ building /\ fault = "" /\ building' = TRUE /\ ver' = ver + 1
  /\ contentAt' = [contentAt EXCEPT ![ver + 1] = main]
  /\ UNCHANGED <<world, main, session, pc, ask, pre, catalog, keys, comp, lost, asked>>
Commit ==
  /\ building /\ building' = FALSE /\ ver' = ver + 1
  /\ \E m \in Updates :
       Compiles(has, m) /\ main' = m /\ contentAt' = [contentAt EXCEPT ![ver + 1] = m]
  /\ UNCHANGED <<world, session, pc, ask, pre, catalog, keys, comp, lost, asked>>

Next == (\E q \in Questions : Start(q) \/ FromCache(q)) \/ ReadCatalog \/ ReadRows \/ Finish \/ Begin \/ Commit

-----------------------------------------------------------------------------
Given == pc = "idle" /\ comp # NoComp
TrueEntry(l) == IF l = "main" THEN contentAt[pre[1]] ELSE has[l]
Issues == {i \in comp.issues : Selected(ask, i[1].layer)}
Clean == comp.global = {} /\ \A o \in comp.owners : ~ Selected(ask, o[1])

(* No layer that the caller sees has what it calls, or more than one module   *)
(* could be meant.                                                           *)
Broken(c) ==
  LET seen == {TrueEntry("main"), TrueEntry(c.layer)} IN
  /\ c.kind \in {"direct", "launch"}
  /\ "twice" \in seen \/ (seen \cap {"open", "closed"} = {})
  /\ ~ (subject = "manager" /\ c.platform /\ seen # {"none"})

(* What is reported is broken, whatever could not be read (1411-1413).        *)
IssuesReal ==
  Given => \A i \in Issues : Broken(i[1]) \/ i[2] = "receiver_unknown" \/ (i[1].kind = "dynamic" /\ i[2] = "dynamic_name")

(* An answer that is not partial reports every broken call whose head names   *)
(* what it seems to name, and counts each call of its scope (7900-7937).      *)
CleanIsComplete ==
  Given /\ Clean => \A c \in Calls :
    Selected(ask, c.layer) /\ InPath(ask, c) =>
      /\ Broken(c) /\ (c.head = "free" \/ (c.layer = "main" /\ c.kind = "launch"))
           => \/ \E i \in Issues : i[1] = c
              \/ c.kind = "direct" /\ subject = "module" /\ ~ ask.unknown /\ \A l \in Layers : TrueEntry(l) = "none"
      /\ c \in comp.counted \/ (c.layer # "main" /\ c.kind \in {"launch", "dynamic"} /\ c.head = "shadowed")

(* An answer from the cache is of the question that is asked. *)
OfThisQuestion == Given => \A i \in Issues : InPath(ask, i[1]) /\ (i[2] = "receiver_unknown" => ask.unknown)

(* What is marked transient is not kept for the next question, nor anything *)
(* computed while a build was going on (7262-7288).  An answer on extensions *)
(* only that lacks the catalogue because one read failed is kept: nothing    *)
(* marks it.                                                                 *)
NothingPassingKept == \A k \in cache : "transient" \notin k.global /\ (HasReader => k.stamp % 2 = 0)

AuditHonest == IssuesReal /\ CleanIsComplete /\ OfThisQuestion /\ NothingPassingKept
=============================================================================
