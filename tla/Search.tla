-------------------------------- MODULE Search --------------------------------
(***************************************************************************)
(* safe_grep and count_matches (bsl_helpers.py): a text is looked for in   *)
(* the files of the configuration and of its extensions, by one git grep   *)
(* over the files of the base when it can be had, and by threads that read *)
(* the others; what could not be listed, read or reached is told by        *)
(* counters.  Files may become unreadable while the search runs.           *)
(*                                                                         *)
(* Files are numbered in the order of the catalogue, a match is a pair of  *)
(* a file and a line.                                                      *)
(***************************************************************************)
EXTENDS Integers, Sequences, FiniteSets, SequencesExt

CONSTANTS
  Files,      (* numbers of files                                          *)
  RootOf,     (* the root a file lies under                                *)
  HitsOf,     (* the number of lines of a file that match                  *)
  Roots,      (* the roots of extensions                                   *)
  Questions,  (* [helper, cap, limit]: _result_cap or NoCap; max_files, or *)
              (* _COUNT_MATCHES_SCAN_MAX for count_matches                 *)
  NoCap,      (* no _result_cap, above every number of matches             *)
  BatchSize,  (* files read before the cap is looked at, 64                *)
  MaxFaults   (* bound on files that become unreadable                     *)

VARIABLES
  tree,       (* the files that exist                                      *)
  listed,     (* the candidates the enumeration named                      *)
  walkErrors, (* roots, "main" for the base, whose walk met an error       *)
  unreadable, (* files that cannot be read now                             *)
  git,        (* "none", "up" or "failing"                                 *)
  ask,        (* the question                                              *)
  pc,         (* "git", "read" or "done"                                   *)
  todo,       (* py_paths: files still to be read, in order                *)
  results,    (* the matches so far                                        *)
  scanned,    (* scanned_files                                             *)
  failed,     (* failed_files                                              *)
  readRoots,  (* root_success                                              *)
  failedRoots,(* root_failed                                               *)
  truncated,
  blind       (* files git passed over without a word                      *)

world == <<tree, listed, walkErrors, git, ask>>
searchVars == <<world, unreadable, pc, todo, results, scanned, failed, readRoots, failedRoots, truncated, blind>>

Base(f) == RootOf[f] \notin Roots
Smallest(S, n) == {f \in S : Cardinality({g \in S : g < f}) < n}
InOrder(S) == SetToSortSeq(S, <)
Min2(a, b) == IF a < b THEN a ELSE b

(* The lines of a file, cut one behind the cap. *)
HitsIn(f) == [i \in 1..Min2(HitsOf[f], ask.cap + 1) |-> <<f, i>>]
HitsInAll(s) == FlattenSeq([i \in 1..Len(s) |-> HitsIn(s[i])])
Cut(s) == SubSeq(s, 1, Min2(Len(s), ask.cap))

(* The paths the helper goes through: the first max_files. *)
Candidates == Smallest(listed, ask.limit)

Init ==
  /\ tree \in SUBSET Files
  /\ walkErrors \in {{}} \cup {{r} : r \in Roots \cup {"main"}}
  /\ listed = {f \in tree : (IF Base(f) THEN "main" ELSE RootOf[f]) \notin walkErrors}
  /\ unreadable \in {{}} \cup {{f} : f \in tree}
  /\ git \in {"none", "up", "failing"}
  /\ ask \in Questions
  /\ pc = "git" /\ todo = InOrder(Candidates)
  /\ results = <<>> /\ scanned = 0 /\ failed = 0
  /\ readRoots = {} /\ failedRoots = {}
  /\ truncated = (IF ask.helper = "count" THEN Cardinality(listed) > ask.limit ELSE ask.cap = 0)
  /\ blind = {}

-----------------------------------------------------------------------------
(* The fast path: one git grep over the files of the base. *)

BaseFiles == SelectSeq(todo, Base)

NoGit ==
  /\ pc = "git" /\ (git = "none" \/ BaseFiles = <<>>)
  /\ pc' = "read"
  /\ UNCHANGED <<world, unreadable, todo, results, scanned, failed, readRoots, failedRoots, truncated, blind>>

(* Mutated form of AfterGit: the threads read the files git has searched again. *)
AfterGitAgain(answered) == todo

(* What is left to read: everything when git failed. *)
AfterGit(answered) == IF answered THEN SelectSeq(todo, LAMBDA f : ~Base(f)) ELSE todo

GitFails ==
  /\ pc = "git" /\ git = "failing" /\ BaseFiles # <<>>
  /\ pc' = "read" /\ todo' = AfterGit(FALSE)
  /\ UNCHANGED <<world, unreadable, results, scanned, failed, readRoots, failedRoots, truncated, blind>>

(* git reports a file it cannot open on stderr and answers all the same.  A cap
   that is reached ends the search when other files are left. *)
GitAnswers ==
  LET rows == HitsInAll(SelectSeq(BaseFiles, LAMBDA f : f \notin unreadable))
      others == AfterGit(TRUE)
      over == Len(rows) > ask.cap
      full == Len(rows) = ask.cap /\ others # <<>>
  IN /\ pc = "git" /\ git = "up" /\ BaseFiles # <<>>
     /\ results' = Cut(rows)
     /\ scanned' = scanned + Len(BaseFiles)
     /\ blind' = Range(BaseFiles) \cap unreadable
     /\ truncated' = (truncated \/ over \/ full)
     /\ todo' = (IF over \/ full THEN <<>> ELSE others)
     /\ pc' = "read"
     /\ UNCHANGED <<world, unreadable, failed, readRoots, failedRoots>>

-----------------------------------------------------------------------------
(* The threads *)

Done == todo = <<>> \/ (truncated /\ ask.helper = "grep")

(* A batch, and what came of it, in the order of the files. *)
Read ==
  LET size == IF ask.cap = NoCap THEN Len(todo) ELSE Min2(BatchSize, Len(todo))
      batch == SubSeq(todo, 1, size)
      read == SelectSeq(batch, LAMBDA f : f \notin unreadable)
      all == results \o HitsInAll(read)
      rest == SubSeq(todo, size + 1, Len(todo))
      stop == ask.helper = "grep" /\ Len(all) >= ask.cap
  IN /\ pc = "read" /\ ~Done
     /\ scanned' = scanned + size
     /\ failed' = failed + size - Len(read)
     /\ readRoots' = readRoots \cup {RootOf[f] : f \in {g \in Range(read) : ~Base(g)}}
     /\ failedRoots' = failedRoots \cup {RootOf[f] : f \in {g \in Range(batch) \cap unreadable : ~Base(g)}}
     /\ results' = (IF stop THEN Cut(all) ELSE all)
     /\ truncated' = (truncated \/ (stop /\ (Len(all) > ask.cap \/ rest # <<>>)))
     /\ todo' = (IF stop THEN <<>> ELSE rest)
     /\ UNCHANGED <<world, unreadable, pc, blind>>

Answer ==
  /\ pc = "read" /\ Done
  /\ pc' = "done"
  /\ UNCHANGED <<world, unreadable, todo, results, scanned, failed, readRoots, failedRoots, truncated, blind>>

(* A file is deleted or locked by somebody else. *)
Lose(f) ==
  /\ pc # "done" /\ f \in tree \ unreadable /\ Cardinality(unreadable) < MaxFaults
  /\ unreadable' = unreadable \cup {f}
  /\ UNCHANGED <<world, pc, todo, results, scanned, failed, readRoots, failedRoots, truncated, blind>>

Next == NoGit \/ GitFails \/ GitAnswers \/ Read \/ Answer \/ \E f \in Files : Lose(f)

Spec == Init /\ [][Next]_searchVars

-----------------------------------------------------------------------------
(* The status of the roots of extensions *)

NothingIn(r) == \A f \in listed : RootOf[f] # r

(* A root is accounted for when a file of it was read, or a complete catalogue
   shows that it has none. *)
Accounted(r) == r \in readRoots \/ (NothingIn(r) /\ walkErrors = {})
FailedRoot(r) == r \in failedRoots \/ r \in walkErrors

-----------------------------------------------------------------------------
(* Properties *)

Clean == ~truncated /\ failed = 0 /\ walkErrors = {} /\ scanned = Cardinality(listed)

AllHits == UNION {{<<f, i>> : i \in 1..HitsOf[f]} : f \in tree}

(* A clean answer is the whole answer: when no counter of it tells of a file
   that was not listed, not reached or not read, every match of every file is
   in it, save of files only git could not open. *)
CleanIsComplete ==
  pc = "done" /\ Clean => {h \in AllHits : h[1] \notin blind} \subseteq Range(results)

(* No file is counted twice on the way from git to the threads, no match is
   given twice, and a cap is kept. *)
CountedOnce ==
  pc = "done" =>
    /\ scanned <= Cardinality(Candidates)
    /\ Cardinality(Range(results)) = Len(results)
    /\ ask.helper = "grep" => Len(results) <= ask.cap

(* With a cap above 0 an answer is called truncated only when a file was left out
   or a match cut. *)
TruncatedIsReal ==
  pc = "done" /\ truncated /\ ask.cap > 0 =>
    \/ scanned < Cardinality(listed)
    \/ \E h \in AllHits : h \notin Range(results)

(* A root of an extension that is accounted for was read from, or is empty; one
   that is neither accounted for nor failed was not reached. *)
RootsHonest ==
  pc = "done" /\ ask.helper = "grep" => \A r \in Roots :
    /\ Accounted(r) => r \in readRoots \/ \A f \in tree : RootOf[f] # r
    /\ ~Accounted(r) /\ ~FailedRoot(r) =>
         \/ truncated \/ \A f \in Candidates : RootOf[f] # r
         \/ walkErrors # {}

=============================================================================
