---------------------------- MODULE DescriptorRows ----------------------------
(***************************************************************************)
(* The rows of descriptors (bsl_index.py): what build collects from the    *)
(* XML files of objects, forms and rights, and how an update brings them   *)
(* up to date - the git fast path object by object where it can, category  *)
(* by category where it cannot, the full scan domain by domain.  One table *)
(* of references is written by all of them.  docs/INDEXING.md: an update   *)
(* leaves what a build would.                                              *)
(*                                                                         *)
(* Files are numbered in the order a build reads them.  A row tells its    *)
(* file, the content it was read from and the name it is stored under; the *)
(* category and the object are those of the file.  The fast path commits   *)
(* at once; the full scan commits before every domain, and may die between *)
(* two commits.  No file changes under an update: what changes then is     *)
(* IndexUpdate's concern.  The objects of the fast path are refreshed in   *)
(* any order.                                                              *)
(***************************************************************************)
EXTENDS Integers, FiniteSets

CONSTANTS
  Files,       (* numbers of files                                          *)
  About,       (* [kind, cat, obj, trigger] of a file; kind is "desc" of an *)
               (* object, "role" of a role, "extra" for predefined items    *)
               (* and commands, "template", "form" or "rights"; trigger is  *)
               (* "xml", "command", "form" or "rights", by its suffix       *)
  ContentsOf,  (* the contents a file may have, in each source tree         *)
  NameIn,      (* the name a descriptor of group B gives to its object, by  *)
               (* file and content; no two files ever give the same name    *)
  GroupA, GroupB, (* categories with a refresh of single objects            *)
  MaxEdits     (* bound on files changed between two updates, in each tree  *)

Absent == 0
Malformed == -1

VARIABLES
  tree,   (* the source tree of this behaviour                             *)
  text,   (* content of the files                                          *)
  since,  (* files changed since the last update: its git delta            *)
  tables, (* own, refs, syns, forms, rights and templates                  *)
  stage,  (* "objects" while the fast path refreshes objects, the domain a *)
          (* scan comes to next, or "idle"                                 *)
  point,  (* the categories it refreshes object by object                  *)
  due,    (* the descriptors of the objects that are left                  *)
  skip,   (* the domains the scan is still to skip                         *)
  dropped (* history: the domains whose references a scan has dropped and  *)
          (* that nothing has brought back whole                           *)

rowVars == <<tree, text, since, tables, stage, point, due, skip, dropped>>
fastVars == <<point, due>>
scanVars == <<skip, dropped>>

Of(kinds) == {f \in Files : About[f].kind \in kinds}
In(cats) == {f \in Files : About[f].cat \in cats}
Same(f, g) == About[f].cat = About[g].cat /\ About[f].obj = About[g].obj

NameOf(f) == IF About[f].cat \in GroupB THEN NameIn[f][text[f]] ELSE About[f].obj
Rows(S) == {[file |-> f, name |-> NameOf(f), text |-> text[f]] : f \in {g \in S : text[g] \notin {Absent, Malformed}}}

Without(rows, S) == {r \in rows : r.file \notin S}

(* Form.form comes before Ext/Form.xml, also when it cannot be parsed. *)
Canonical == {f \in Of({"form"}) :
                text[f] # Absent /\ ~\E g \in Of({"form"}) : Same(f, g) /\ g < f /\ text[g] # Absent}

(* A role refers to an object once, by the first of its files. *)
RoleRefs(rows) == {r \in rows : ~\E s \in rows : Same(r.file, s.file) /\ s.file < r.file}

(* Rows of metadata come from descriptors, predefined items and commands. *)
Metadata == Of({"desc", "extra"})

Built ==
  [own |-> Rows(Metadata),
   refs |-> Rows(Metadata \cup Canonical) \cup RoleRefs(Rows(Of({"rights"}))),
   syns |-> Rows(Of({"desc", "role"})),
   forms |-> Rows(Canonical), rights |-> Rows(Of({"rights"})), templates |-> Rows(Of({"template"}))]

Init ==
  /\ tree \in DOMAIN ContentsOf
  /\ text = [f \in Files |-> IF f \in DOMAIN ContentsOf[tree] THEN 1 ELSE Absent]
  /\ since = {} /\ tables = Built
  /\ stage = "idle" /\ point = {} /\ due = {}
  /\ skip = {} /\ dropped = {}

(* With its descriptor all files of an object go. *)
Edit(f, c) ==
  LET gone == IF c = Absent /\ About[f].kind \in {"desc", "role"} THEN {g \in Files : Same(f, g)} ELSE {f}
      changed == {g \in gone : text[g] # Absent} \cup {f}
  IN /\ stage = "idle"
     /\ c \in ContentsOf[tree][f] /\ c # text[f]
     /\ \A d \in Of({"desc", "role"}) : Same(f, d) /\ d # f => text[d] # Absent
     /\ Cardinality(since) < MaxEdits[tree]
     /\ text' = [g \in Files |-> IF g = f THEN c ELSE IF g \in gone THEN Absent ELSE text[g]]
     /\ since' = since \cup changed
     /\ UNCHANGED <<tree, tables, stage, fastVars, scanVars>>

-----------------------------------------------------------------------------
(* The fast path *)

Object(d) == {f \in Files : Same(f, d)}

(* _refresh_object: the references of forms are left to the step of forms. *)
RefreshA(t, d) ==
  LET new == IF text[d] = Absent THEN {} ELSE Object(d)
  IN [t EXCEPT
       !.own = Without(t.own, Object(d)) \cup Rows(Metadata \cap new),
       !.refs = Without(t.refs, Object(d) \ Of({"form"})) \cup Rows(Metadata \cap new),
       !.syns = Without(t.syns, Object(d)) \cup Rows({d} \cap new),
       !.templates = Without(t.templates, Object(d)) \cup Rows(Of({"template"}) \cap new)]

(* _refresh_global_object, _refresh_xdto_package: the name in the descriptor may
   have changed, and be another than that of the file. *)
Replaced(d, r) ==
  /\ About[r.file].cat = About[d].cat
  /\ r.file = d \/ r.name = (IF text[d] = Absent THEN About[d].obj ELSE NameOf(d))

RefreshB(t, d) ==
  [t EXCEPT !.own = {r \in t.own : ~Replaced(d, r)} \cup Rows({d}),
            !.refs = {r \in t.refs : ~Replaced(d, r)} \cup Rows({d}),
            !.syns = Without(t.syns, {d}) \cup Rows({d})]

Refresh(t, d) == IF About[d].cat \in GroupB THEN RefreshB(t, d) ELSE RefreshA(t, d)

Triggers(kinds) == {f \in since : About[f].trigger \in kinds}
Categories(S) == {About[f].cat : f \in S}
Changed == Categories(Triggers({"xml", "command"}))
Renamed == Categories(Triggers({"xml"}))

(* The descriptors of the objects of a category that the delta names. *)
Touched(c) == {d \in Of({"desc"}) \cap In({c}) : \E f \in Triggers({"xml", "command"}) : Same(f, d)}

(* A descriptor that cannot be parsed sends its category to the collectors. *)
MayPoint(c) == c \in GroupA \cup GroupB /\ \A d \in Touched(c) : text[d] # Malformed

(* The collectors of whole categories: templates are always read all. *)
Bulk(t, cats) ==
  IF cats = {} THEN t
  ELSE [t EXCEPT
         !.own = Without(t.own, In(cats)) \cup Rows(Metadata \cap In(cats)),
         !.refs = Without(t.refs, In(cats) \ Of({"form"})) \cup Rows(Metadata \cap In(cats)),
         !.templates = Rows(Of({"template"}))]

(* The forms whose directories are in the delta, or all. *)
FormStep(t, dirs) ==
  [t EXCEPT !.forms = Without(t.forms, dirs) \cup Rows(Canonical \cap dirs),
            !.refs = Without(t.refs, dirs) \cup Rows(Canonical \cap dirs)]

SynonymStep(t, cats) ==
  [t EXCEPT !.syns = Without(t.syns, In(cats)) \cup Rows(Of({"desc", "role"}) \cap In(cats))]

(* The files of rights in the delta, or all; the references always all. *)
RightsStep(t, reread) ==
  LET rights == Without(t.rights, reread) \cup Rows(Of({"rights"}) \cap reread)
  IN [t EXCEPT !.rights = rights, !.refs = Without(t.refs, In({"Roles"})) \cup RoleRefs(rights)]

(* The collectors drop the references of a category they are run for. *)
RightsDue == Triggers({"rights"}) # {} \/ (Triggers({"xml"}) # {} /\ "Roles" \in Changed)

OneFilePerRole == \A f, g \in Of({"rights"}) : Same(f, g) /\ text[f] # Absent /\ text[g] # Absent => f = g

(* Pointwise or not is decided by numbers of objects. *)
FastStart ==
  /\ stage = "idle" /\ since # {}
  /\ point' \in SUBSET {c \in Changed : MayPoint(c)}
  /\ due' = UNION {Touched(c) : c \in point'}
  /\ stage' = "objects"
  /\ UNCHANGED <<tree, text, since, tables, scanVars>>

FastObject(d) ==
  /\ stage = "objects" /\ d \in due
  /\ tables' = Refresh(tables, d)
  /\ due' = due \ {d}
  /\ UNCHANGED <<tree, text, since, stage, point, scanVars>>

(* whole: forms or rights are not laid out as the selective ways expect. *)
FormsRead(t, whole) ==
  LET forms == since \cap Of({"form"})
      dirs == {f \in Of({"form"}) : \E g \in forms : Same(f, g)}
  IN IF forms = {} THEN t ELSE FormStep(t, IF whole THEN Of({"form"}) ELSE dirs)

RightsRead(t, whole) ==
  IF RightsDue THEN RightsStep(t, IF whole \/ ~OneFilePerRole THEN Of({"rights"}) ELSE since) ELSE t

FastRest(whole) ==
  /\ stage = "objects" /\ due = {}
  /\ tables' = RightsRead(SynonymStep(FormsRead(Bulk(tables, Changed \ point), whole), Renamed \ point), whole)
  /\ since' = {} /\ stage' = "idle" /\ point' = {} /\ due' = {}
  /\ dropped' = dropped \ ((IF RightsDue THEN {"rights"} ELSE {})
                           \cup (IF whole /\ since \cap Of({"form"}) # {} THEN {"forms"} ELSE {}))
  /\ UNCHANGED <<tree, text, skip>>

-----------------------------------------------------------------------------
(* The full scan *)

DomainFiles(domain) ==
  CASE domain = "metadata" -> Of({"desc", "extra", "template"})
    [] domain = "synonyms" -> Of({"desc", "role"})
    [] domain = "forms" -> Of({"form"})
    [] domain = "rights" -> Of({"rights"})
Domains == {"metadata", "synonyms", "forms", "rights"}

(* A domain is skipped when a snapshot of the inputs that names these rows has its
   digest.  A scan takes the snapshot away and writes another when it is complete;
   whether there is one is left open but where references are missing. *)
Unchanged == {domain \in Domains : DomainFiles(domain) \cap since = {}}
MaySkip(domains) ==
  /\ domains \subseteq Unchanged /\ (domains # {} => dropped = {})
  /\ "rights" \in domains /\ "metadata" \notin domains => OneFilePerRole

(* _insert_metadata_tables empties the references.  Those of forms are kept and
   those of roles made anew when their domain is skipped; the others are gone
   until their domain is read. *)
MetadataRead(t, domains) ==
  [t EXCEPT
    !.own = Rows(Metadata), !.templates = Rows(Of({"template"})),
    !.refs = Rows(Metadata) \cup (IF "forms" \in domains THEN {r \in t.refs : r.file \in Of({"form"})} ELSE {})
             \cup (IF "rights" \in domains THEN RoleRefs(t.rights) ELSE {})]

(* The domains whose references are among the rows that went. *)
Lost(refs) == {domain \in {"forms", "rights"} : \E r \in refs : r.file \in DomainFiles(domain)}

(* The commit before the synonyms. *)
ScanMetadata ==
  /\ stage = "idle"
  /\ \E domains \in SUBSET Domains :
       /\ MaySkip(domains) /\ skip' = domains \ {"metadata"}
       /\ IF "metadata" \in domains THEN UNCHANGED <<tables, dropped>>
          ELSE /\ tables' = MetadataRead(tables, domains)
               /\ dropped' = dropped \cup Lost(tables.refs \ tables'.refs)
  /\ stage' = "synonyms"
  /\ UNCHANGED <<tree, text, since, fastVars>>

Scans(domain, t, to) ==
  /\ stage = domain
  /\ tables' = IF domain \in skip THEN tables ELSE t
  /\ dropped' = dropped \ {domain} /\ skip' = skip \ {domain} /\ stage' = to
  /\ UNCHANGED <<tree, text, fastVars>>

(* The commit before the rights, and the one after them. *)
ScanSynonyms == Scans("synonyms", SynonymStep(tables, Categories(Files)), "rights") /\ UNCHANGED since
ScanRights == Scans("rights", RightsStep(tables, Of({"rights"})), "forms") /\ UNCHANGED since

(* The last commit records the commit of git; then the snapshot is written. *)
ScanForms ==
  /\ Scans("forms", FormStep(tables, Of({"form"})), "idle")
  /\ since' = {}

(* What is committed stays, and git's delta is what it was. *)
ScanDies ==
  /\ stage \in Domains
  /\ stage' = "idle" /\ skip' = {}
  /\ UNCHANGED <<tree, text, since, tables, fastVars, dropped>>

Next ==
  \/ \E f \in DOMAIN ContentsOf[tree] : \E c \in ContentsOf[tree][f] : Edit(f, c)
  \/ FastStart
  \/ \E d \in Files : FastObject(d)
  \/ \E whole \in BOOLEAN : FastRest(whole)
  \/ ScanMetadata \/ ScanSynonyms \/ ScanRights \/ ScanForms \/ ScanDies

Spec == Init /\ [][Next]_rowVars

-----------------------------------------------------------------------------
(* An update leaves what a build of the same files would: no row of an object
   that changed, moved or is gone stays, and none of another object, form or
   role is lost from a table they share - but for references of forms or roles
   after a scan died that had dropped them, until something reads them whole. *)
MetadataIsBuild ==
  since = {} /\ stage = "idle" =>
    /\ [tables EXCEPT !.refs = Built.refs] = Built /\ tables.refs \subseteq Built.refs
    /\ \A r \in Built.refs \ tables.refs : \E domain \in dropped : r.file \in DomainFiles(domain)

=============================================================================
