---------------------------- MODULE IndexUpdate ----------------------------
(***************************************************************************)
(* IndexBuilder.build and .update (bsl_index.py): how the rows of an       *)
(* index, its git state in index_meta, the build marker and the snapshot   *)
(* of inputs beside the database follow the sources.  Each action ends     *)
(* where the code commits to the database or looks at the sources or at    *)
(* git; an operation may be interrupted between any two actions.  One      *)
(* operation runs at a time: an assumption on _BuildLock, which keeps it   *)
(* but for the moment between unlocking and unlinking (see BuildLock).     *)
(*                                                                         *)
(* A file is abstracted to the version of its content, 0 when it is        *)
(* absent, and a commit to its tree: git diff compares trees.  Two         *)
(* versions of a file differ in mtime (by more than a second) or in size;  *)
(* ignored files are not among Files.  An operation forgets what it has    *)
(* seen when it has no more use for it.                                    *)
(***************************************************************************)
EXTENDS Naturals

CONSTANTS
  Bsl,          (* modules: .bsl files                                     *)
  Descr,        (* descriptors: .xml, .mdo, .form, .rights; one domain each *)
  MaxVersion,   (* bound on the versions of a file                         *)
  Lost,         (* what rows hold that a rebuild dropped or a scan erased  *)
  None,         (* no commit, no snapshot                                  *)
  Interrupts,   (* whether operations are interrupted                      *)
  EditsDuring,  (* whether sources change while an operation runs          *)
  Outages       (* whether git may be out of reach when an operation ends  *)

ASSUME IndexUpdateAssumption ==
  /\ Bsl \cap Descr = {}
  /\ MaxVersion \in Nat
  /\ Lost \notin 0..MaxVersion
  /\ None \notin [Bsl \cup Descr -> 0..MaxVersion] \cup [Descr -> 0..MaxVersion]
  /\ Interrupts \in BOOLEAN /\ EditsDuring \in BOOLEAN /\ Outages \in BOOLEAN

Files == Bsl \cup Descr
Versions == 0..MaxVersion
Trees == [Files -> Versions]

VARIABLES
  work,        (* the working tree                                         *)
  head,        (* the tree of HEAD                                         *)
  rows,        (* the version of a file the committed rows come from       *)
  version,     (* builder_version: none (no index), old, other, current    *)
  marker,      (* build_in_progress                                        *)
  gitHead,     (* git_head_commit, or None                                 *)
  dirty,       (* git_dirty_paths                                          *)
  unreliable,  (* git_dirty_unreliable = 1                                 *)
  snap,        (* domains of the snapshot file, or None                    *)
  bound,       (* the snapshot names the built_at, version and code of now *)
  pc,          (* next step of the running operation                       *)
  delta,       (* the files whose rows it has yet to rewrite               *)
  read,        (* what it has read                                         *)
  seenHead,    (* the HEAD it saw, or None                                 *)
  seenDirty,   (* the uncommitted files it saw                             *)
  seenSnap,    (* the snapshot it took over, or None                       *)
  wrote,       (* it has committed rows and not yet the git state of them  *)
  quiet,       (* no source has changed since it began                     *)
  gap          (* rows were committed whose git state never was            *)

sources == <<work, head>>
gitState == <<gitHead, dirty, unreliable>>
meta == <<version, marker, gitState>>
snapshot == <<snap, bound>>
seen == <<delta, read, seenHead, seenDirty, seenSnap>>
ghosts == <<wrote, quiet, gap>>
vars == <<sources, rows, meta, snapshot, pc, seen, ghosts>>

Pc == {"idle", "parse", "mark", "wipe", "fill", "fillDescr",
       "buildHead", "buildRecord", "buildFinish",
       "git", "diff", "fastRead", "fastRows", "fastFinish",
       "list", "scanRead", "scanRows", "scanDescr", "scanHead", "scanRecord", "publish"}

NothingRead == [f \in Files |-> 0]

(* What an operation leaves behind in memory. *)
Forgotten ==
  /\ delta = {} /\ read = NothingRead /\ seenHead = None
  /\ seenDirty = {} /\ seenSnap = None /\ ~wrote /\ quiet

TypeOK ==
  /\ work \in Trees /\ head \in Trees
  /\ rows \in [Files -> Versions \cup {Lost}]
  /\ version \in {"none", "old", "other", "current"}
  /\ marker \in BOOLEAN /\ unreliable \in BOOLEAN /\ bound \in BOOLEAN
  /\ gitHead \in Trees \cup {None} /\ dirty \subseteq Files
  /\ snap \in [Descr -> Versions] \cup {None}
  /\ pc \in Pc
  /\ delta \subseteq Files /\ read \in Trees
  /\ seenHead \in Trees \cup {None} /\ seenDirty \subseteq Files
  /\ seenSnap \in [Descr -> Versions] \cup {None}
  /\ wrote \in BOOLEAN /\ quiet \in BOOLEAN /\ gap \in BOOLEAN
  /\ pc = "idle" => Forgotten

Init ==
  /\ work \in Trees /\ head = work
  /\ rows = [f \in Files |-> Lost]
  /\ version = "none" /\ marker = FALSE
  /\ gitHead = None /\ dirty = {} /\ unreliable = FALSE
  /\ snap = None /\ bound = FALSE
  /\ pc = "idle" /\ wrote = FALSE /\ quiet = TRUE /\ gap = FALSE
  /\ delta = {} /\ read = NothingRead /\ seenHead = None
  /\ seenDirty = {} /\ seenSnap = None

-----------------------------------------------------------------------------
(* The sources and the package *)

SourcesMayChange == pc = "idle" \/ EditsDuring

(* A developer, an export or a git command changes a file ... *)
Edit(f, v) ==
  /\ SourcesMayChange
  /\ v # work[f]
  /\ work' = [work EXCEPT ![f] = v]
  /\ quiet' = (pc = "idle")
  /\ UNCHANGED <<head, rows, meta, snapshot, pc, seen, wrote, gap>>

(* ... and commits it. *)
Commit(f) ==
  /\ SourcesMayChange
  /\ head[f] # work[f]
  /\ head' = [head EXCEPT ![f] = work[f]]
  /\ quiet' = (pc = "idle")
  /\ UNCHANGED <<work, rows, meta, snapshot, pc, seen, wrote, gap>>

(* The index at hand was made by another version of the package: below the
   threshold of a full rebuild, or above. *)
Reinstall(v) ==
  /\ pc = "idle" /\ version = "current"
  /\ version' = v
  /\ bound' = FALSE
  /\ UNCHANGED <<sources, rows, marker, gitState, snap, pc, seen, ghosts>>

-----------------------------------------------------------------------------
(* Steps both operations share *)

Goto(p) == pc' = p

Uncommitted == {f \in Files : work[f] # head[f]}

Cleared ==
  /\ delta' = {} /\ read' = NothingRead /\ seenHead' = None
  /\ seenDirty' = {} /\ seenSnap' = None /\ wrote' = FALSE /\ quiet' = TRUE

(* Rows of the files of S now come from what was read. *)
Rewritten(S) == [f \in Files |-> IF f \in S THEN read[f] ELSE rows[f]]

(* _save_dirty_snapshot with a detection that ran through ... *)
DirtySaved(S) == dirty' = S /\ unreliable' = FALSE

(* Mutated form of DirtyDoubtful: the flag is not raised. *)
DirtyDoubtfulUnflagged(S) == dirty' = S /\ UNCHANGED unreliable

(* ... and with one that timed out: S is what becomes of the stored paths. *)
DirtyDoubtful(S) == dirty' = S /\ unreliable' = TRUE

(* Mutated form of SnapshotTaken: the file stays. *)
SnapshotLeft == seenSnap' = (IF bound THEN snap ELSE None) /\ UNCHANGED snapshot

(* load_snapshot and remove_snapshot come before the first write; a snapshot
   that is not bound to this index is of no use. *)
SnapshotTaken == seenSnap' = (IF bound THEN snap ELSE None) /\ snap' = None /\ bound' = FALSE

(* The snapshot of inputs is published after success; a failed write is only
   logged. *)
Publish ==
  /\ pc = "publish"
  /\ \/ snap' = [d \in Descr |-> read[d]] /\ bound' = TRUE
     \/ UNCHANGED snapshot
  /\ Cleared
  /\ Goto("idle")
  /\ UNCHANGED <<sources, rows, meta, gap>>

(* The process dies or a step raises: the open transaction is rolled back. *)
Interrupted ==
  /\ Interrupts
  /\ pc # "idle"
  /\ gap' = (gap \/ wrote)
  /\ Cleared
  /\ Goto("idle")
  /\ UNCHANGED <<sources, rows, meta, snapshot>>

-----------------------------------------------------------------------------
(* build *)

StartBuild ==
  /\ pc = "idle"
  /\ SnapshotTaken
  /\ Goto("parse")
  /\ UNCHANGED <<sources, rows, meta, delta, read, seenHead, seenDirty, ghosts>>

(* Everything is parsed and collected before the index is touched. *)
ParseAll ==
  /\ pc = "parse"
  /\ read' = work
  /\ seenSnap' = None
  /\ Goto("mark")
  /\ UNCHANGED <<sources, rows, meta, snapshot, delta, seenHead, seenDirty, ghosts>>

(* Mutated form of Marked: the marker is left to the next commit. *)
MarkedLater == UNCHANGED marker

Marked == marker' = TRUE

(* The marker is durable before the first destructive statement. *)
Mark ==
  /\ pc = "mark"
  /\ Marked
  /\ version' = (IF version = "none" THEN "old" ELSE version)
  /\ Goto("wipe")
  /\ UNCHANGED <<sources, rows, gitState, snapshot, seen, ghosts>>

(* Every table but index_meta is dropped, its keys but the marker and the
   options are deleted. *)
Wipe ==
  /\ pc = "wipe"
  /\ rows' = [f \in Files |-> Lost]
  /\ version' = "old"
  /\ gitHead' = None /\ dirty' = {} /\ unreliable' = FALSE
  /\ gap' = FALSE
  /\ Goto("fill")
  /\ UNCHANGED <<sources, marker, snapshot, seen, wrote, quiet>>

Fill ==
  /\ pc = "fill"
  /\ rows' = Rewritten(Bsl)
  /\ Goto("fillDescr")
  /\ UNCHANGED <<sources, meta, snapshot, seen, ghosts>>

FillDescr ==
  /\ pc = "fillDescr"
  /\ rows' = Rewritten(Files)
  /\ Goto("buildHead")
  /\ UNCHANGED <<sources, meta, snapshot, seen, ghosts>>

(* HEAD, when git can be reached. *)
HeadSeen == seenHead' \in {head} \cup (IF Outages THEN {None} ELSE {})

BuildHead ==
  /\ pc = "buildHead"
  /\ HeadSeen
  /\ Goto("buildRecord")
  /\ UNCHANGED <<sources, rows, meta, snapshot, delta, read, seenDirty, seenSnap, ghosts>>

(* meta, HEAD and the uncommitted files.  Without HEAD there is no git state,
   without the repository's root no dirty list; a doubtful detection stores
   what it found. *)
BuildRecord ==
  /\ pc = "buildRecord"
  /\ version' = "current"
  /\ gitHead' = seenHead
  /\ \/ /\ seenHead # None /\ gap' = FALSE
        /\ DirtySaved(Uncommitted) \/ \E S \in SUBSET Uncommitted : DirtyDoubtful(S)
     \/ seenHead # None /\ Outages /\ gap' = TRUE /\ UNCHANGED <<dirty, unreliable>>
     \/ seenHead = None /\ gap' = FALSE /\ UNCHANGED <<dirty, unreliable>>
  /\ seenHead' = None
  /\ Goto("buildFinish")
  /\ UNCHANGED <<sources, rows, marker, snapshot, delta, read, seenDirty, seenSnap, wrote, quiet>>

(* The marker goes last: the success gate. *)
BuildFinish ==
  /\ pc = "buildFinish"
  /\ marker' = FALSE
  /\ Goto("publish")
  /\ UNCHANGED <<sources, rows, version, gitState, snapshot, seen, ghosts>>

-----------------------------------------------------------------------------
(* update: the git fast path *)

(* A half-built index and one below the threshold are built anew; a version
   mismatch, a doubtful dirty list and a missing commit need the full scan. *)
StartUpdate ==
  /\ pc = "idle" /\ version # "none"
  /\ SnapshotTaken
  /\ Goto(IF marker \/ version = "old" THEN "parse"
          ELSE IF version = "other" \/ unreliable \/ gitHead = None THEN "list"
          ELSE "git")
  /\ UNCHANGED <<sources, rows, meta, delta, read, seenHead, seenDirty, ghosts>>

GitHead ==
  /\ pc = "git"
  /\ seenHead' = head
  /\ Goto("diff")
  /\ UNCHANGED <<sources, rows, meta, snapshot, delta, read, seenDirty, seenSnap, ghosts>>

(* Mutated form of ChangedSince: what was dirty last time is forgotten. *)
ChangedInGit == {f \in Files : gitHead[f] # head[f]} \cup Uncommitted

(* Committed since, uncommitted now, or uncommitted at the last operation. *)
ChangedSince == {f \in Files : gitHead[f] # head[f]} \cup Uncommitted \cup dirty

GitDiff ==
  /\ pc = "diff"
  /\ delta' = ChangedSince
  /\ seenDirty' = Uncommitted
  /\ seenSnap' = None
  /\ Goto("fastRead")
  /\ UNCHANGED <<sources, rows, meta, snapshot, read, seenHead, ghosts>>

(* No git, no such commit, a failed or a doubtful detection. *)
GitFails ==
  /\ pc \in {"git", "diff"}
  /\ seenHead' = None
  /\ Goto("list")
  /\ UNCHANGED <<sources, rows, meta, snapshot, delta, read, seenDirty, seenSnap, ghosts>>

FastRead ==
  /\ pc = "fastRead"
  /\ read' = [f \in Files |-> IF f \in delta \cap Bsl THEN work[f] ELSE read[f]]
  /\ Goto("fastRows")
  /\ UNCHANGED <<sources, rows, meta, snapshot, delta, seenHead, seenDirty, seenSnap, ghosts>>

(* The rows of modules are committed on their own ... *)
FastRows ==
  /\ pc = "fastRows"
  /\ rows' = Rewritten(delta \cap Bsl)
  /\ wrote' = (delta \cap Bsl # {})
  /\ delta' = delta \cap Descr /\ read' = NothingRead
  /\ Goto("fastFinish")
  /\ UNCHANGED <<sources, meta, snapshot, seenHead, seenDirty, seenSnap, quiet, gap>>

(* ... and those of descriptors together with the git state.  The uncommitted
   files are those seen at the start, or detected again when the index lies in
   the working tree. *)
FastFinish ==
  /\ pc = "fastFinish"
  /\ rows' = [f \in Files |-> IF f \in delta \cap Descr THEN work[f] ELSE rows[f]]
  /\ gitHead' = seenHead
  /\ \/ DirtySaved(seenDirty)
     \/ DirtySaved(Uncommitted)
     \/ DirtyDoubtful(dirty)
  /\ bound' = FALSE
  /\ Cleared
  /\ Goto("idle")
  /\ UNCHANGED <<sources, version, marker, snap, gap>>

-----------------------------------------------------------------------------
(* update: the full scan *)

(* Modules whose mtime or size is not that of their row. *)
ScanList ==
  /\ pc = "list"
  /\ delta' = {f \in Bsl : rows[f] # work[f]}
  /\ Goto("scanRead")
  /\ UNCHANGED <<sources, rows, meta, snapshot, read, seenHead, seenDirty, seenSnap, ghosts>>

(* A descriptor domain is skipped when its content is that of the snapshot. *)
Unchanged(d) == seenSnap # None /\ seenSnap[d] = work[d]

ScanRead ==
  /\ pc = "scanRead"
  /\ read' = work
  /\ delta' = delta \cup {d \in Descr : ~Unchanged(d)}
  /\ seenSnap' = None
  /\ Goto("scanRows")
  /\ UNCHANGED <<sources, rows, meta, snapshot, seenHead, seenDirty, ghosts>>

(* The rows of modules are committed on their own ... *)
ScanRows ==
  /\ pc = "scanRows"
  /\ rows' = Rewritten(delta \cap Bsl)
  /\ wrote' = (delta \cap Bsl # {})
  /\ delta' = delta \cap Descr
  /\ Goto("scanDescr")
  /\ UNCHANGED <<sources, meta, snapshot, read, seenHead, seenDirty, seenSnap, quiet, gap>>

(* ... those of descriptors at each executescript, which commits: of some, S,
   all are written by then, of others, T, the references are erased, which are
   deleted for all of them first and inserted domain by domain ... *)
ScanDescr(S, T) ==
  /\ pc = "scanDescr"
  /\ rows' = [f \in Files |-> IF f \in T THEN Lost ELSE Rewritten(S)[f]]
  /\ wrote' = (wrote \/ S \cup T # {})
  /\ Goto("scanHead")
  /\ UNCHANGED <<sources, meta, snapshot, seen, quiet, gap>>

ScanHead ==
  /\ pc = "scanHead"
  /\ HeadSeen
  /\ Goto("scanRecord")
  /\ UNCHANGED <<sources, rows, meta, snapshot, delta, read, seenDirty, seenSnap, ghosts>>

(* ... and the rest with meta and the git state.  Without git the git state
   stays what it was, without the repository's root the dirty list does. *)
ScanRecord ==
  /\ pc = "scanRecord"
  /\ rows' = Rewritten(delta \cap Descr)
  /\ version' = "current"
  /\ \/ /\ seenHead # None /\ gitHead' = seenHead /\ gap' = FALSE
        /\ DirtySaved(Uncommitted) \/ DirtyDoubtful(dirty)
     \/ /\ seenHead # None /\ Outages /\ gitHead' = seenHead /\ gap' = TRUE
        /\ UNCHANGED <<dirty, unreliable>>
     \/ seenHead = None /\ gap' = (gitHead # None) /\ UNCHANGED gitState
  /\ bound' = FALSE
  /\ wrote' = FALSE
  /\ delta' = {} /\ seenHead' = None
  /\ Goto("publish")
  /\ UNCHANGED <<sources, marker, snap, read, seenDirty, seenSnap, quiet>>

-----------------------------------------------------------------------------
BuildStep ==
  \/ StartBuild \/ ParseAll \/ Mark \/ Wipe \/ Fill \/ FillDescr \/ BuildHead \/ BuildRecord \/ BuildFinish

FastStep == GitHead \/ GitDiff \/ GitFails \/ FastRead \/ FastRows \/ FastFinish

ScanStep ==
  \/ ScanList \/ ScanRead \/ ScanRows \/ ScanHead \/ ScanRecord
  \/ \E S \in SUBSET (delta \cap Descr) : \E T \in SUBSET ((delta \cap Descr) \ S) : ScanDescr(S, T)

SourceStep == \E f \in Files : Commit(f) \/ \E v \in Versions : Edit(f, v)

Next ==
  \/ SourceStep \/ \E v \in {"old", "other"} : Reinstall(v)
  \/ BuildStep \/ StartUpdate \/ FastStep \/ ScanStep
  \/ Publish \/ Interrupted

Spec == Init /\ [][Next]_vars

-----------------------------------------------------------------------------
(* Properties *)

(* An operation ends with success. *)
Finishes == FastFinish \/ ScanRecord \/ BuildFinish

(* "update = build": an operation during which no source changed leaves the
   rows a fresh build would write, whatever was interrupted, reverted or
   committed before it; the fast path does so unless rows were once committed
   whose git state never was. *)
CaughtUp == [][Finishes /\ quiet /\ (FastFinish => ~gap) => rows' = work]_vars

(* What makes the fast path right: rows that are not those of the stored
   commit are named by the stored dirty list, or the next update is no fast
   one. *)
Recoverable ==
  pc = "idle" /\ version = "current" /\ ~marker /\ ~gap /\ ~unreliable /\ gitHead # None =>
    \A f \in Files : rows[f] = gitHead[f] \/ f \in dirty

(* A rebuild that was interrupted is never taken for an index: without the
   marker every module has its rows, and every descriptor but for a full scan
   between its commits, or one that died there and left a gap. *)
NeverHalfBuilt ==
  version # "none" /\ ~marker =>
    \A f \in Files : rows[f] = Lost => f \in Descr /\ (gap \/ (wrote /\ pc \in {"scanHead", "scanRecord"}))

(* A snapshot that names this index tells the descriptors its rows come from,
   so that a full scan may skip them: also after an interrupted operation. *)
SnapshotHonest == bound /\ snap # None => \A d \in Descr : rows[d] = snap[d]

(* docs/INDEXING.md: one more update after all file operations have ended
   guarantees a consistent index; here of modules. *)
OneMoreUpdateIsEnough ==
  [][Finishes /\ quiet => \A m \in Bsl : rows'[m] = work[m]]_vars

=============================================================================
