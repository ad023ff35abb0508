------------------------------- MODULE GitSearch -------------------------------
(***************************************************************************)
(* git_search (bsl_helpers.py) over _git_grep (bsl_index.py): the files of *)
(* certain types under one path are searched by one git grep; the answer   *)
(* has a cap for every file and one for all.  What the path is - a file, a *)
(* directory or neither for sure - is looked up first, and may have        *)
(* changed when git looks.                                                 *)
(*                                                                         *)
(* The path is a node with or without a searched suffix; as a file it has  *)
(* matches, as a directory it holds children, each [type, hits].  A row is *)
(* a pair of a file and a line; the node itself is called "path".          *)
(***************************************************************************)
EXTENDS Integers, Sequences, FiniteSets, SequencesExt

CONSTANTS
  Children,     (* the files a directory may hold                          *)
  TypeOf,       (* their suffixes                                          *)
  Hits,         (* possible numbers of matches                             *)
  Types,        (* file_types                                              *)
  PathTypes,    (* possible suffixes of the path, "" for none              *)
  MaxResults,   (* max_results                                             *)
  PerFileCap    (* _GIT_GREP_DEFAULT_MAX_PER_FILE                          *)

Node == "path"

VARIABLES
  suffix,     (* of the path                                               *)
  kind,       (* what the path is: "file", "directory" or "none"           *)
  clear,      (* lstat can tell: no link and no refusal on the way         *)
  hits,       (* the matches in the node as a file, and in the children    *)
  request,    (* "ok", or the argument that is no good                     *)
  git,        (* "up", "absent", "down" or "rejects", of a pattern         *)
  pc,         (* "check", "grep" or "done"                                 *)
  seen,       (* what the path was taken for                               *)
  rows, truncatedBy, error,
  moved       (* the path changed after it was looked up                   *)

gitSearchVars == <<suffix, kind, clear, hits, request, git, pc, seen, rows, truncatedBy, error, moved>>

TypeOfFile(f) == IF f = Node THEN suffix ELSE TypeOf[f]

(* Files git can see under the path, by what the path is. *)
Under(k) == CASE k = "file" -> {Node} [] k = "directory" -> Children [] OTHER -> {}

Init ==
  /\ suffix \in PathTypes
  /\ kind \in {"file", "directory", "none"} /\ clear \in BOOLEAN
  /\ hits \in [Children \cup {Node} -> Hits]
  /\ request \in {"ok", "mode", "pattern", "path", "file_types", "exclude_path"}
  /\ git \in {"up", "absent", "down", "rejects"}
  /\ pc = "check" /\ seen = "" /\ rows = <<>> /\ truncatedBy = {} /\ error = "" /\ moved = FALSE

(* Arguments are judged before git is asked. *)
BadArgument ==
  /\ pc = "check" /\ request # "ok"
  /\ pc' = "done" /\ error' = request
  /\ UNCHANGED <<suffix, kind, clear, hits, request, git, seen, rows, truncatedBy, moved>>

NoGit ==
  /\ pc = "check" /\ request = "ok" /\ git = "absent"
  /\ pc' = "done" /\ error' = "git"
  /\ UNCHANGED <<suffix, kind, clear, hits, request, git, seen, rows, truncatedBy, moved>>

(* _classify_grep_path, component by component: only what lstat proves. *)
Classified == IF clear /\ kind # "none" THEN kind ELSE "indeterminate"

(* A file of another type than asked for is an error, no empty answer. *)
Mismatch == Classified = "file" /\ suffix \notin Types

Classify ==
  /\ pc = "check" /\ request = "ok" /\ git # "absent"
  /\ seen' = Classified
  /\ pc' = (IF Mismatch THEN "done" ELSE "grep")
  /\ error' = (IF Mismatch THEN "file_type_mismatch" ELSE "")
  /\ UNCHANGED <<suffix, kind, clear, hits, request, git, rows, truncatedBy, moved>>

(* Somebody puts a directory where the file was, or the reverse. *)
Replace(k) ==
  /\ pc = "grep" /\ kind # k /\ ~moved
  /\ kind' = k /\ moved' = TRUE
  /\ UNCHANGED <<suffix, clear, hits, request, git, pc, seen, rows, truncatedBy, error>>

(* The path itself is named to git unless it is known to be a directory. *)
Literal == seen # "directory" /\ suffix \in Types

(* git gives the children by pattern, and all of them when their directory is
   named; rows of other types are filtered out then. *)
Delivered(f) ==
  /\ Literal \/ (f # Node /\ TypeOf[f] \in Types)
  /\ Literal => TypeOfFile(f) \in Types

Found(k) == {f \in Under(k) : Delivered(f) /\ hits[f] > 0}

Min2(a, b) == IF a < b THEN a ELSE b
Kept(f) == [i \in 1..Min2(hits[f], PerFileCap) |-> <<f, i>>]

(* git is asked for one match more than the cap of a file, so that a cut is
   seen; then the cap of all is laid on the rows that are left. *)
Grep ==
  LET found == SetToSeq(Found(kind))
      all == FlattenSeq([i \in 1..Len(found) |-> Kept(found[i])])
  IN /\ pc = "grep" /\ git = "up"
     /\ rows' = SubSeq(all, 1, Min2(Len(all), MaxResults))
     /\ truncatedBy' = (IF \E f \in Found(kind) : hits[f] > PerFileCap THEN {"per_file"} ELSE {})
                       \cup (IF Len(all) > MaxResults THEN {"max_results"} ELSE {})
     /\ pc' = "done"
     /\ UNCHANGED <<suffix, kind, clear, hits, request, git, seen, error, moved>>

(* Not there, timed out, or its own verdict on the pattern. *)
GrepFails ==
  /\ pc = "grep" /\ git \in {"down", "rejects"}
  /\ pc' = "done" /\ error' = (IF git = "rejects" THEN "pattern" ELSE "git")
  /\ UNCHANGED <<suffix, kind, clear, hits, request, git, seen, rows, truncatedBy, moved>>

Next == BadArgument \/ NoGit \/ Classify \/ Grep \/ GrepFails \/ \E k \in {"file", "directory", "none"} : Replace(k)

Spec == Init /\ [][Next]_gitSearchVars

-----------------------------------------------------------------------------
(* Properties *)

(* What is to be found while the path is of kind k. *)
Wanted(k) == UNION {{<<f, i>> : i \in 1..hits[f]} : f \in {g \in Under(k) : TypeOfFile(g) \in Types}}

Answered == pc = "done" /\ error = ""

(* No row is of a file of another type, whatever became of the path. *)
InScope == Answered => \A i \in 1..Len(rows) : TypeOfFile(rows[i][1]) \in Types

(* An answer is called truncated exactly when a match is missing from it, and
   max_results, to be raised by the user, is named only when it cut. *)
TruncationNamed ==
  Answered /\ ~moved =>
    /\ truncatedBy = {} <=> Wanted(kind) \subseteq Range(rows)
    /\ "per_file" \in truncatedBy <=> \E f \in Under(kind) : TypeOfFile(f) \in Types /\ hits[f] > PerFileCap
    /\ "max_results" \in truncatedBy => Len(rows) = MaxResults

(* A file of another type is never called so when it could have been found. *)
MismatchIsReal == error = "file_type_mismatch" => kind = "file" /\ suffix \notin Types

=============================================================================
