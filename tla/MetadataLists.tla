---------------------------- MODULE MetadataLists ----------------------------
(***************************************************************************)
(* What the helpers list of an object from the descriptors of others       *)
(* (bsl_helpers.py): event subscriptions, roles, functional options,       *)
(* scheduled jobs, services, the content of an exchange plan.  Each has an *)
(* index route and a live one; before either, a question may be refused    *)
(* because its object does not exist.  The sources of a session do not     *)
(* change; the index may be emptied by a build between two of its reads.   *)
(***************************************************************************)
EXTENDS Integers, Sequences, FiniteSets, SequencesExt, FiniteSetsExt

CONSTANTS
  Worlds,     \* [objects, defined, deny, custom, subs, roles, options, modules, named]: what is on disk
  Sessions,   \* [role, main, index, fault, lost, skipped]
  Questions,  \* [helper, form, cat, name, filter, limit, opt]
  Fragments,  \* pairs <<part, name>>: the first is a part of the second
  Pairs,      \* of a pair (object, right), in the order of their sort keys: [cat, name, member]
  ObjectsOf,  \* of a module, numbered in the order of the catalogue: the object it belongs to
  Budget      \* max_files of safe_grep when no object is named

VARIABLES session, world, wiped, q, pc, rights, flagged, excluded, answer
listVars == <<session, world, wiped, q, pc, rights, flagged, excluded, answer>>

Within(part, name) == part \in {"", name} \/ <<part, name>> \in Fragments
Page(s, n) == SubSeq(s, 1, IF n < Len(s) THEN n ELSE Len(s))
Selected(s, Test(_)) == SelectSeq(s, Test)

-----------------------------------------------------------------------------
(* Whether there is such an object: by the descriptors under the roots of   *)
(* existence, then by what the session has listed.                         *)

Described(o) == o.described /\ (session.role = "main" \/ session.main \/ ~ o.near)
Listed(o) == o.listed # "no" /\ (session.role = "main" \/ ~ o.near)
Exists(o) == Described(o) \/ Listed(o)
Unknowable == session.role = "extension" /\ ~ session.main
ObjectRef == q.form = "typed"
TypedExists == \E o \in world.objects : Exists(o) /\ o.cat = q.cat /\ o.name = q.name
ExistsAnywhere == \E o \in world.objects : Exists(o) /\ o.name = q.name

MissingObject == ObjectRef /\ ~ Unknowable /\ ~ TypedExists
NonrefMissing == q.form \in {"bare", "member"} /\ ~ Unknowable /\ ~ ExistsAnywhere
CategoryWord == q.form = "word" /\ ~ Unknowable /\ ~ ExistsAnywhere
Overviews == {"subscriptions", "options"}
Guarded == {"subscriptions", "roles", "options", "plan"}
Refused ==
  /\ q.helper \in Guarded /\ q.opt # "profile"
  /\ \/ q.form = "nameless"
     \/ q.form = "all" /\ q.helper \notin Overviews
     \/ CategoryWord
     \/ MissingObject

-----------------------------------------------------------------------------
(* Which route answers. *)

HasIndex == session.index # "none"
(* A reader gives None for a table that is missing, empty or cannot be read. *)
Given(table) == HasIndex /\ session.fault # "table" /\ ~ wiped /\ table # <<>>
Rows(s) == Selected(s, LAMBDA r : r.id \notin session.skipped)  \* what the build could read
Readable(s) == Selected(s, LAMBDA r : r.id \notin session.lost) \* what a live reading keeps

-----------------------------------------------------------------------------
(* Event subscriptions. *)

(* The sets of types of a row came with version 16 of the index. *)
Sets(r, route) == IF route = "index" /\ session.index = "old" THEN {} ELSE r.sets
Members(d) == IF d \in DOMAIN world.defined THEN world.defined[d] ELSE {}
Known(d) == d \in DOMAIN world.defined
TargetRefs ==
  IF ObjectRef THEN {<<q.cat, q.name>>}
  ELSE {<<o.cat, o.name>> : o \in {p \in world.objects : Listed(p) /\ p.listed = "cascade" /\ p.name = q.name}}
MatchedSets(sets) ==
  {t \in sets : CASE t.kind = "category" -> \E x \in TargetRefs : x[1] = t.name
                  [] t.kind = "defined" -> Members(t.name) \cap TargetRefs # {}
                  [] OTHER -> FALSE}
Unresolved(sets) ==
  {t \in sets : TargetRefs = {} \/ t.kind = "foreign" \/ (t.kind = "defined" /\ ~ Known(t.name))}
ExactTypes(r) == {t \in r.types : t[2] = q.name /\ (ObjectRef => t[1] = q.cat)}
PartialTypes(r) == IF ObjectRef THEN {} ELSE {t \in r.types : t[2] # q.name /\ Within(q.name, t[2])}

Verdict(r, scope, via) == [id |-> r.id, scope |-> scope, via |-> via]
ClassifySubscriptionRow(r, route) ==
  LET sets == Sets(r, route) IN
  IF r.types = {} /\ sets = {} THEN Verdict(r, "universal", "none")
  ELSE IF ExactTypes(r) # {} THEN Verdict(r, "exact", "type")
  ELSE IF MatchedSets(sets) # {} THEN Verdict(r, "set", "set")
  ELSE IF Unresolved(sets) # {} THEN Verdict(r, "set", "set_unresolved")
  ELSE IF PartialTypes(r) # {} THEN Verdict(r, "partial", "type")
  ELSE Verdict(r, "none", "none")

OfScope(vs, s) == Selected(vs, LAMBDA v : v.scope = s)
(* A part of a name counts only when nothing bears the name itself.        *)
Classified(rows, route) ==
  IF q.form = "all" THEN [i \in 1..Len(rows) |-> Verdict(rows[i], "", "")]
  ELSE LET vs == [i \in 1..Len(rows) |-> ClassifySubscriptionRow(rows[i], route)]
           named == IF OfScope(vs, "exact") # <<>> THEN OfScope(vs, "exact") ELSE OfScope(vs, "partial")
       IN named \o OfScope(vs, "set") \o OfScope(vs, "universal")
Row(rows, v) == CHOOSE r \in ToSet(rows) : r.id = v.id
(* The role of the configuration is read from the index alone. *)
Prefixed == world.custom >= (IF session.role = "extension" /\ HasIndex THEN 1 ELSE 3)
Filtered(rows, vs) ==
  Selected(vs, LAMBDA v : /\ q.filter # "" => Row(rows, v).event = q.filter
                          /\ q.opt = "custom" /\ Prefixed => Row(rows, v).custom)
(* get_event_subscriptions_exact: the section of the profile.              *)
ExactOnly(vs) == OfScope(vs, "exact") \o OfScope(vs, "set") \o OfScope(vs, "universal")
Subscriptions(route) ==
  LET rows == IF route = "index" THEN Rows(world.subs) ELSE Readable(world.subs)
      vs == Classified(rows, route)
  IN IF q.opt = "profile" THEN ExactOnly(vs) ELSE Filtered(rows, vs)

PlatformEvents == {"BeforeWrite", "Posting"}
EventKnown == q.filter \in {""} \cup PlatformEvents \cup
  {r.event : r \in ToSet(IF Given(Rows(world.subs)) THEN Rows(world.subs) ELSE Readable(world.subs))}
(* A document that is never posted: its posting does not happen.           *)
DocumentAsked ==
  IF ObjectRef THEN q.cat = "Document"
  ELSE {o.cat : o \in {p \in world.objects : Listed(p) /\ p.name = q.name}} = {"Document"}
Unreachable(v) ==
  /\ q.form \notin {"all"} /\ DocumentAsked /\ world.deny /\ session.fault # "descriptor"
  /\ Row(world.subs, v).event = "Posting"

-----------------------------------------------------------------------------
(* Roles. *)

Bears(p) == IF q.form = "member" THEN p.member /\ p.name = q.name ELSE Within(q.name, p.name)
(* The live route compares names with their case.                          *)
Broad(ps, route) == {n \in ps : Bears(Pairs[n]) /\ (route = "live" => q.opt # "case")}
(* The profile takes the object and its members.                           *)
ExactPairs(ps) ==
  {n \in ps : Pairs[n].cat = q.cat /\ (Pairs[n].name = q.name \/ (Pairs[n].member /\ Within(q.name, Pairs[n].name)))}
Granted(r, route) == IF q.opt = "profile" THEN ExactPairs(r.grants) ELSE Broad(r.grants, route)

(* _RoleGroupBuilder keeps the least pairs of a stream in any order.       *)
Add(acc, n) ==
  IF n \in acc.kept THEN acc
  ELSE IF Cardinality(acc.kept) < q.limit THEN [acc EXCEPT !.kept = @ \cup {n}]
  ELSE IF q.limit = 0 \/ n >= Max(acc.kept) THEN [acc EXCEPT !.cut = TRUE]
  ELSE [kept |-> (acc.kept \ {Max(acc.kept)}) \cup {n}, cut |-> TRUE]
Sample(stream) == FoldLeft(Add, [kept |-> {}, cut |-> FALSE], stream)
(* The stream of a role repeats the first of its pairs, as two files may.  *)
Streams(S) == {s \o SubSeq(s, 1, IF s = <<>> THEN 0 ELSE 1) : s \in SetToSeqs(S)}

Explicit(r, stream) ==
  LET acc == Sample(stream) IN
  [id |-> r.id, rights |-> ToSet(stream), kept |-> acc.kept, cut |-> acc.cut, via |-> "explicit", excluded |-> {}]
ObjectLevel(n) == ~ Pairs[n].member /\ q.form # "member" /\ Pairs[n].name = q.name
FlagRow(r, denied) ==
  [id |-> r.id, rights |-> {}, kept |-> {}, cut |-> FALSE, via |-> "flag", excluded |-> {n \in denied : ObjectLevel(n)}]
Merged(explicit, byFlag) ==
  LET Of(e) == {f \in byFlag : f.id = e.id}
      Both(e) == IF Of(e) = {} THEN e ELSE [e EXCEPT !.via = "flag", !.excluded = UNION {f.excluded : f \in Of(e)}]
  IN {Both(e) : e \in explicit} \cup {f \in byFlag : \A e \in explicit : e.id # f.id}

-----------------------------------------------------------------------------
(* Functional options. *)

ContentMatches(c) == c[2] = q.name /\ (ObjectRef => c[1] = q.cat)
OptionsOf(rows) ==
  IF q.form = "all" THEN rows ELSE Selected(rows, LAMBDA r : \E c \in r.content : ContentMatches(c))

(* The calls of GetFunctionalOption in modules, from safe_grep.            *)
Catalogue ==
  Selected([i \in 1..Len(ObjectsOf) |-> i], LAMBDA i : session.fault # "catalogue" \/ i # 1)
Domain(i) == q.form = "all" \/ Within(q.name, ObjectsOf[i])
Candidates == Selected(Catalogue, Domain)
Scanned == Page(Candidates, IF q.form = "all" THEN Budget ELSE Len(Catalogue))
Unreadable(i) == i \in session.lost
GrepFails == session.fault = "grep"
CodeOptions == IF GrepFails THEN {} ELSE {i \in ToSet(Scanned) : ~ Unreadable(i) /\ i \in world.modules}
(* Without a channel for it, a failed read of a file is not counted.       *)
FailedFiles == Cardinality({i \in ToSet(Scanned) : Unreadable(i) /\ session.fault # "legacy"})
Reasons ==
  IF q.opt = "xml" THEN {}
  ELSE IF GrepFails THEN {"code_read_failures"}
  ELSE {r \in {"code_scan_budget", "catalog_incomplete", "code_read_failures", "read_status_unavailable"} :
          CASE r = "code_scan_budget" -> Len(Scanned) < Len(Candidates)
            [] r = "catalog_incomplete" -> session.fault = "catalogue"
            [] r = "code_read_failures" -> FailedFiles > 0
            [] OTHER -> session.fault = "legacy" /\ Scanned # <<>>}
TotalExact == ~ GrepFails /\ session.fault \notin {"catalogue"} /\ "read_status_unavailable" \notin Reasons
Hint ==
  CASE q.opt = "xml" -> "not_requested"
    [] Reasons = {} -> "complete"
    [] "code_scan_budget" \in Reasons -> IF q.form = "all" THEN "name_the_object" ELSE "narrow"
    [] OTHER -> "incomplete"

-----------------------------------------------------------------------------
(* Jobs and services, by a part of their names; the content of a plan.     *)

ByName(rows) == Selected(rows, LAMBDA r : Within(q.name, r.name))
(* Asked by name, a reader of these tables takes an empty table for an answer. *)
NamedGiven == HasIndex /\ session.fault # "table" /\ (q.name # "" \/ (~ wiped /\ Rows(world.named) # <<>>))
(* A service that cannot be read fails the call, a job is left out.        *)
ServiceFails == q.helper = "services" /\ \E r \in ToSet(world.named) : r.id \in session.lost

PlanFiles ==
  LET own == Selected(world.named, LAMBDA r : r.name = q.name)
  IN IF own # <<>> THEN own ELSE Selected(world.named, LAMBDA r : Within(q.name, r.name))
PlanContent ==
  LET Add1(acc, r) == acc \o SetToSeq(r.refs \ ToSet(acc)) IN FoldLeft(Add1, <<>>, PlanFiles)

-----------------------------------------------------------------------------
NoAnswer == [error |-> FALSE, route |-> "none", rows |-> <<>>, total |-> 0, roles |-> {}, available |-> FALSE,
  marked |-> {}, code |-> {}, partial |-> FALSE, hint |-> "", modules |-> 0, exact |-> FALSE]

Init ==
  /\ session \in Sessions /\ world \in Worlds /\ wiped = FALSE
  /\ q \in Questions /\ pc = "ask" /\ rights = {} /\ flagged = {} /\ excluded = {} /\ answer = NoAnswer

Fixed == UNCHANGED <<session, world, q>>
Kept == UNCHANGED <<rights, flagged, excluded>>
Finish(a) == pc' = "done" /\ answer' = a /\ Kept

(* A build of the index begins: its tables are empty until it ends.        *)
Wipe == pc # "done" /\ HasIndex /\ ~ wiped /\ wiped' = TRUE /\ Fixed /\ UNCHANGED <<pc, rights, flagged, excluded, answer>>

Refuse == pc = "ask" /\ Refused /\ Finish([NoAnswer EXCEPT !.error = TRUE]) /\ Fixed /\ UNCHANGED wiped

RefuseEvent ==
  /\ pc = "ask" /\ ~ Refused /\ q.helper = "subscriptions" /\ ~ EventKnown
  /\ Finish([NoAnswer EXCEPT !.error = TRUE]) /\ Fixed /\ UNCHANGED wiped
FindEventSubscriptions ==
  /\ pc = "ask" /\ ~ Refused /\ q.helper = "subscriptions" /\ EventKnown
  /\ LET route == IF Given(Rows(world.subs)) THEN "index" ELSE "live"
         all == Subscriptions(route)
         vs == IF NonrefMissing THEN Selected(all, LAMBDA v : v.scope # "set") ELSE all
     IN Finish(IF q.opt = "profile" /\ route = "live" THEN NoAnswer \* the section is unavailable
               ELSE [NoAnswer EXCEPT !.route = route, !.rows = Page(vs, q.limit), !.total = Len(vs),
                       !.marked = {v.id : v \in {u \in ToSet(vs) : Unreachable(u)}}])
  /\ Fixed /\ UNCHANGED wiped

(* find_roles reads three tables, one after the other.                     *)
ReadRights ==
  /\ pc = "ask" /\ ~ Refused /\ q.helper = "roles"
  /\ IF Given(Rows(world.roles)) /\ \E r \in ToSet(Rows(world.roles)) : r.grants # {}
     THEN /\ pc' = "flags" /\ UNCHANGED <<flagged, excluded, answer>>
          /\ LET given == Selected(Rows(world.roles), LAMBDA r : Granted(r, "index") # {}) IN
             \E f \in [1..Len(given) -> UNION {Streams(Granted(r, "index")) : r \in ToSet(given)}] :
               /\ \A i \in 1..Len(given) : f[i] \in Streams(Granted(given[i], "index"))
               /\ rights' = {Explicit(given[i], f[i]) : i \in 1..Len(given)}
     ELSE \* the section of the profile takes no rows for an answer
          /\ pc' = (IF q.opt = "profile" THEN (IF HasIndex THEN "flags" ELSE "done") ELSE "live")
          /\ UNCHANGED <<rights, flagged, excluded, answer>>
  /\ Fixed /\ UNCHANGED wiped
ReadFlags ==
  /\ pc = "flags" /\ pc' = "exclusions"
  /\ flagged' = (IF wiped THEN {} ELSE {r.id : r \in {s \in ToSet(Rows(world.roles)) : s.flag}})
  /\ Fixed /\ UNCHANGED <<wiped, rights, excluded, answer>>
ReadExclusions ==
  /\ pc = "exclusions" /\ pc' = "merge"
  /\ excluded' = (IF wiped THEN {} ELSE {<<r.id, n>> : r \in ToSet(Rows(world.roles)), n \in 1..Len(Pairs)}
                   \cap UNION {{<<r.id, n>> : n \in r.denies} : r \in {s \in ToSet(Rows(world.roles)) : s.flag}})
  /\ Fixed /\ UNCHANGED <<wiped, rights, flagged, answer>>
FlagsAvailable == session.index = "whole" /\ session.fault # "flags"
RolesOfIndex ==
  /\ pc = "merge"
  /\ LET covered == IF NonrefMissing \/ ~ FlagsAvailable THEN {}
                    ELSE {FlagRow([id |-> i], {x[2] : x \in {y \in excluded : y[1] = i}}) : i \in flagged}
     IN Finish([NoAnswer EXCEPT !.route = "index", !.roles = Merged(rights, covered), !.available = FlagsAvailable])
  /\ Fixed /\ UNCHANGED wiped
RolesLive ==
  /\ pc = "live"
  /\ LET files == ToSet(Readable(world.roles))
         explicit == {Explicit(r, SetToSeq(Granted(r, "live"))) : r \in {s \in files : Granted(s, "live") # {}}}
         covered == IF NonrefMissing THEN {} ELSE {FlagRow(r, r.denies) : r \in {s \in files : s.flag}}
     IN Finish([NoAnswer EXCEPT !.route = "live", !.roles = Merged(explicit, covered), !.available = TRUE])
  /\ Fixed /\ UNCHANGED wiped

FindFunctionalOptions ==
  /\ pc = "ask" /\ ~ Refused /\ q.helper = "options"
  /\ LET route == IF Given(Rows(world.options)) THEN "index" ELSE "live"
         rows == OptionsOf(IF route = "index" THEN Rows(world.options) ELSE Readable(world.options))
         code == IF q.opt = "xml" THEN {} ELSE CodeOptions
     IN Finish([NoAnswer EXCEPT !.route = route, !.rows = Page([i \in 1..Len(rows) |-> rows[i].id], q.limit),
          !.total = Len(rows) + Cardinality(code), !.code = ToSet(Page(SetToSeq(code), q.limit)),
          !.partial = Reasons # {}, !.hint = Hint, !.modules = IF GrepFails THEN -1 ELSE Len(Candidates),
          !.exact = TotalExact])
  /\ Fixed /\ UNCHANGED wiped

FindNamed ==
  /\ pc = "ask" /\ q.helper \in {"jobs", "services"}
  /\ Finish(IF NamedGiven
            THEN [NoAnswer EXCEPT !.route = "index", !.rows = IF wiped THEN <<>> ELSE ByName(Rows(world.named))]
            ELSE IF ServiceFails THEN [NoAnswer EXCEPT !.error = TRUE]
            ELSE [NoAnswer EXCEPT !.route = "live", !.rows = ByName(Readable(world.named))])
  /\ Fixed /\ UNCHANGED wiped

FindExchangePlanContent ==
  /\ pc = "ask" /\ ~ Refused /\ q.helper = "plan"
  /\ Finish(IF \E r \in ToSet(PlanFiles) : r.id \in session.lost THEN [NoAnswer EXCEPT !.error = TRUE]
            ELSE [NoAnswer EXCEPT !.route = "live", !.rows = PlanContent, !.total = Len(PlanContent)])
  /\ Fixed /\ UNCHANGED wiped

Next ==
  \/ Wipe \/ Refuse \/ RefuseEvent \/ FindEventSubscriptions \/ ReadRights \/ ReadFlags \/ ReadExclusions
  \/ RolesOfIndex \/ RolesLive \/ FindFunctionalOptions \/ FindNamed \/ FindExchangePlanContent

-----------------------------------------------------------------------------
Answered == pc = "done" /\ ~ answer.error /\ answer.route # "none"
AllRead == IF answer.route = "index" THEN session.skipped = {} ELSE session.lost = {}

(* A question is refused only when no root the session can look into has the  *)
(* object, and never where that cannot be known.                             *)
RefusalsHonest ==
  answer.error /\ q.helper = "roles" /\ q.form \in {"typed", "word"} =>
    /\ session.role = "extension" => session.main
    /\ \A o \in world.objects : o.name = q.name /\ (q.form = "typed" => o.cat = q.cat) =>
         ~ o.described /\ (o.listed = "no" \/ (o.near /\ session.role = "extension"))

(* Every subscription that fires for the object is listed, whatever the route; *)
(* a row that is there for a part of the name means that none bears the name   *)
(* itself, before the filter by event; a name of nothing is given no sets.     *)
(* Of homonyms, one that only an extension declares without modules is missed. *)
Asked == IF TargetRefs # {} THEN TargetRefs ELSE {<<o.cat, o.name>> : o \in {p \in world.objects : Exists(p) /\ p.name = q.name}}
Fires(r) ==
  \/ r.types = {} /\ r.sets = {}
  \/ \E t \in r.types : t[2] = q.name /\ (ObjectRef => t[1] = q.cat)
  \/ \E t \in r.sets, x \in Asked : t = [kind |-> "category", name |-> x[1]] \/ (t.kind = "defined" /\ x \in Members(t.name))
Wanted(r) == (q.filter # "" => r.event = q.filter) /\ (q.opt = "custom" /\ Prefixed => r.custom)
SubscriptionsHonest ==
  Answered /\ q.helper = "subscriptions" /\ AllRead /\ ~ (answer.route = "index" /\ session.index = "old") =>
    LET ids(s) == {s[i].id : i \in 1..Len(s)}
        row(v) == Row(world.subs, v)
    IN /\ q.form # "all" /\ Len(answer.rows) = answer.total =>
            {r.id : r \in {s \in ToSet(world.subs) : Wanted(s) /\ Fires(s)}} \subseteq ids(answer.rows)
       /\ Len(answer.rows) = (IF q.limit < answer.total THEN q.limit ELSE answer.total)
       /\ \A v \in ToSet(answer.rows) :
            /\ Wanted(row(v))
            /\ v.scope = "partial" => \A r \in ToSet(world.subs) : \A t \in r.types : t[2] # q.name
            /\ v.scope = "set" => ~ NonrefMissing /\ row(v).types \cap {t \in row(v).types : t[2] = q.name /\ ~ ObjectRef} = {}
            /\ v.scope = "universal" => row(v).types = {} /\ row(v).sets = {}
       /\ answer.marked # {} => world.deny /\ \A i \in answer.marked : Row(world.subs, [id |-> i]).event = "Posting"
       /\ session.index = "whole" /\ session.lost \cup session.skipped = {} /\ ~ NonrefMissing =>
            answer.rows = Page(Subscriptions(IF answer.route = "index" THEN "live" ELSE "index"), q.limit)

(* Roles: one row for each that grants a right by name or by its flag, which   *)
(* governs; the sample is the least of the pairs in whatever order they came,  *)
(* and it is told when some are missing.  Not told: that a build emptied the   *)
(* tables of flags after the rights were read, and, in the profile, that the   *)
(* table of rights could not be read.                                         *)
RolesHonest ==
  Answered /\ q.helper = "roles" /\ AllRead /\ ~ (q.opt = "profile" /\ session.fault = "table") =>
    LET names(r) == Granted(r, answer.route)
        byFlag(r) == r.flag /\ ~ NonrefMissing /\ answer.available
        rowsOf(r) == {x \in answer.roles : x.id = r.id}
        least(S, n) == {x \in S : Cardinality({y \in S : y <= x}) <= n}
    IN \A r \in ToSet(world.roles) :
         /\ Cardinality(rowsOf(r)) <= 1
         /\ ~ wiped => (rowsOf(r) # {} <=> names(r) # {} \/ byFlag(r))
         /\ \A x \in rowsOf(r) :
              /\ x.rights = names(r) /\ x.kept = least(names(r), q.limit) /\ (x.cut <=> Cardinality(names(r)) > q.limit)
              /\ x.via = "flag" => byFlag(r)
              /\ ~ wiped => /\ byFlag(r) => x.via = "flag"
                            /\ x.excluded = (IF byFlag(r) THEN {n \in r.denies : ObjectLevel(n)} ELSE {})

(* Functional options: an answer that is not called partial has seen every     *)
(* module of its domain, an exact total counts them, and the advice to name an *)
(* object is never given to who has named it.                                 *)
OptionsHonest ==
  Answered /\ q.helper = "options" =>
    LET domain == {i \in 1..Len(ObjectsOf) : Domain(i)} IN
      /\ ~ answer.partial /\ q.opt # "xml" =>
           answer.code \subseteq domain /\ (Cardinality(domain \cap world.modules) <= q.limit => answer.code = domain \cap world.modules)
      /\ answer.exact /\ q.opt # "xml" => answer.modules = Cardinality(domain)
      /\ answer.hint \in {"name_the_object", "narrow"} => q.form = "all"
      /\ answer.hint = "complete" => ~ answer.partial
      /\ session.lost \cup session.skipped = {} => answer.rows = Page([i \in 1..Len(OptionsOf(world.options)) |-> OptionsOf(world.options)[i].id], q.limit)

(* Jobs, services, plans: all of them or an error; of jobs the unreadable are  *)
(* left out, and asked by name an index being built has none.  A plan that     *)
(* bears the name is not mixed with those that only contain it.               *)
NamedHonest ==
  Answered /\ q.helper \in {"jobs", "services", "plan"} =>
    /\ q.helper # "plan" /\ AllRead /\ ~ (wiped /\ q.name # "") => answer.rows = ByName(world.named)
    /\ q.helper = "services" /\ answer.route = "live" => session.lost \cap {r.id : r \in ToSet(world.named)} = {}
    /\ q.helper = "plan" =>
         /\ Cardinality(ToSet(answer.rows)) = Len(answer.rows)
         /\ \A r \in ToSet(world.named) : r.name = q.name => /\ r.refs \subseteq ToSet(answer.rows)
                                                              /\ ToSet(answer.rows) \subseteq UNION {s.refs : s \in {t \in ToSet(world.named) : t.name = q.name}}

ListsHonest == RefusalsHonest /\ SubscriptionsHonest /\ RolesHonest /\ OptionsHonest /\ NamedHonest
=============================================================================
