------------------------------ MODULE Catalogues ------------------------------
(***************************************************************************)
(* The lists of modules a session makes once and keeps (bsl_helpers.py):   *)
(* the rows that come from the index or, when its generation cannot be     *)
(* proved, from a glob; the extension's modules and descriptors; the live  *)
(* catalogue, which a background thread may be making at the same time.    *)
(* Another process may rebuild the index in place meanwhile, and in an     *)
(* inline sandbox a timeout may cut the calls of the user's code anywhere. *)
(* The sources do not change.  A list is the number of rows of each file.  *)
(* The locks that only the user's thread ever takes are not shown.         *)
(***************************************************************************)
EXTENDS Integers, FiniteSets

CONSTANTS
  Main, Ext,     \* modules of the configuration and of the extension
  MayBeHidden    \* modules in a directory this process may be unable to list

VARIABLES
  reader,        \* the session has an index
  old,           \* the modules the index holds before the rebuild
  hidden, extRoot, \* modules that cannot be listed; the extension is a directory
  step,          \* how many commits of the rebuild are done
  pre, post, got, \* what the loader read of the index
  globbed, walked, \* the cached scans, and where the glob came from
  mainRows, mainBuilt, rows, source, rowsBuilt,
  ext, extSet, extBuilt, extErrors, attached, descriptors, metaBuilt, metaFailed,
  live, liveBuilt, status,
  lock, at, goal, cut
indexVars == <<reader, old, hidden, extRoot, step>>
readVars == <<pre, post, got>>
scanned == <<globbed, walked>>
rowVars == <<mainRows, mainBuilt, rows, source, rowsBuilt>>
extVars == <<ext, extSet, extBuilt, extErrors, attached>>
metaVars == <<descriptors, metaBuilt, metaFailed>>
liveVars == <<live, liveBuilt, status>>
threadVars == <<lock, at, goal, cut>>
catVars == <<indexVars, readVars, scanned, rowVars, extVars, metaVars, liveVars, threadVars>>

Files == Main \cup Ext
NoRows == [f \in Files |-> 0]
Plus(list, S) == [f \in Files |-> list[f] + IF f \in S THEN 1 ELSE 0]
PlusAll(list, more) == [f \in Files |-> list[f] + more[f]]
Has(list) == {f \in Files : list[f] > 0}
(* A behaviour has a rebuild or a timeout, not both. *)
NotYet == [goal |-> "none", at |-> "none"]
Never == [goal |-> "none", at |-> "never"]
Unread == [from |-> "none", paths |-> {}, errors |-> 0]

-----------------------------------------------------------------------------
(* The commits of an in-place rebuild: marker, tables dropped, tables       *)
(* created, meta deleted, some modules, all modules, file_paths, meta,      *)
(* marker removed.                                                         *)
Commits == 9
Tables == step # 2
Modules == IF step < 2 THEN old ELSE IF step < 5 THEN {} ELSE IF step = 5 THEN Main \ MayBeHidden ELSE Main
Paths == IF step \in 2..6 THEN {} ELSE Main
Meta == [building |-> step \in 1..Commits - 1,
         built |-> IF step < 4 THEN "old" ELSE IF step < 8 THEN "none" ELSE "new"]
Commit ==   \* after the rows are built nobody here reads the index
  /\ reader /\ cut = Never /\ ~ rowsBuilt /\ step < Commits /\ step' = step + 1
  /\ UNCHANGED <<reader, old, hidden, extRoot, readVars, scanned, rowVars, extVars, metaVars, liveVars, threadVars>>

Nothing == [meta |-> [building |-> FALSE, built |-> "none"], count |-> 0, version |-> 0]
Init ==
  /\ reader \in BOOLEAN /\ old \in {Main, Main \ MayBeHidden} /\ hidden \in {{}, MayBeHidden} /\ extRoot \in BOOLEAN
  /\ step = 0 /\ pre = Nothing /\ post = Nothing /\ got = {}
  /\ globbed = Unread /\ walked = Unread
  /\ mainRows = NoRows /\ mainBuilt = FALSE /\ rows = NoRows /\ source = "none" /\ rowsBuilt = FALSE
  /\ ext = NoRows /\ extSet = {} /\ extBuilt = FALSE /\ extErrors = 0 /\ attached = FALSE
  /\ descriptors = "none" /\ metaBuilt = FALSE /\ metaFailed = FALSE
  /\ live = NoRows /\ liveBuilt = FALSE /\ status = [complete |-> TRUE, route |-> "none"]
  /\ lock = [l \in {"live", "ext"} |-> "none"]
  /\ at = [user |-> "idle", prewarm |-> IF reader THEN "live" ELSE "end"]
  /\ goal = [user |-> "none", prewarm |-> "live"] /\ cut \in {NotYet, Never}

Goes(t, here, there) == at[t] = here /\ at' = [at EXCEPT ![t] = there]
Free(l) == lock[l] = "none"
Takes(l, t) == lock' = [lock EXCEPT ![l] = t]
Leaves(l) == lock' = [lock EXCEPT ![l] = "none"]

-----------------------------------------------------------------------------
(* _ensure_index: the main rows first. *)
Ask(what) ==
  /\ at.user = "idle" /\ goal' = [goal EXCEPT !.user = what]
  /\ at' = [at EXCEPT !.user = IF what = "live" THEN "live" ELSE IF reader THEN "pre" ELSE "glob"]
  /\ what = "index" => ~ rowsBuilt
  /\ UNCHANGED <<indexVars, readVars, scanned, rowVars, extVars, metaVars, liveVars, lock, cut>>

(* get_build_capabilities reads the meta and then the count and the version. *)
ReadMeta ==
  /\ \/ Goes("user", "pre", "precount") /\ pre' = [pre EXCEPT !.meta = Meta] /\ UNCHANGED post
     \/ Goes("user", "post", "postcount") /\ post' = [post EXCEPT !.meta = Meta] /\ UNCHANGED pre
  /\ UNCHANGED <<indexVars, got, scanned, rowVars, extVars, metaVars, liveVars, lock, goal, cut>>
Counted == [count |-> IF Tables THEN Cardinality(Modules) ELSE -1, version |-> step]
ReadCount ==
  /\ \/ /\ Goes("user", "precount", "read")
        /\ pre' = [pre EXCEPT !.count = Counted.count, !.version = Counted.version] /\ UNCHANGED post
     \/ /\ Goes("user", "postcount", "judge")
        /\ post' = [post EXCEPT !.count = Counted.count, !.version = Counted.version] /\ UNCHANGED pre
  /\ UNCHANGED <<indexVars, got, scanned, rowVars, extVars, metaVars, liveVars, lock, goal, cut>>
(* get_all_modules; without the table the loader falls back. *)
ReadRows ==
  /\ \/ Tables /\ Goes("user", "read", "post") /\ got' = Modules
     \/ ~ Tables /\ Goes("user", "read", "glob") /\ UNCHANGED got
  /\ UNCHANGED <<indexVars, pre, post, scanned, rowVars, extVars, metaVars, liveVars, lock, goal, cut>>

(* _core_bsl_proof: both snapshots agree, of a finished and complete build. *)
Whole(cap) == ~ cap.meta.building /\ cap.meta.built # "none" /\ cap.count = Cardinality(Main)
ProvenBefore == Whole(pre)
Proven == Whole(pre) /\ pre = post
Judge ==
  /\ at.user = "judge" /\ at' = [at EXCEPT !.user = IF Proven THEN "append" ELSE "glob"]
  /\ pre' = Nothing /\ post' = Nothing /\ got' = IF Proven THEN got ELSE {}
  /\ UNCHANGED <<indexVars, scanned, rowVars, extVars, metaVars, liveVars, lock, goal, cut>>
AppendRows ==
  /\ Goes("user", "append", "ext") /\ rows' = Plus(rows, got) /\ source' = "index" /\ got' = {}
  /\ UNCHANGED <<indexVars, pre, post, scanned, mainRows, mainBuilt, rowsBuilt, extVars, metaVars, liveVars, lock, goal, cut>>

(* The glob goes through glob_files, which the index answers if it can. *)
GlobList ==
  IF reader /\ Tables THEN [from |-> "index", paths |-> Paths, errors |-> 0]
  ELSE [from |-> "disk", paths |-> Main \ hidden, errors |-> 0]
Glob ==
  /\ Goes("user", "glob", "rows")
  /\ globbed' = IF globbed = Unread THEN GlobList ELSE globbed
  /\ UNCHANGED <<indexVars, readVars, walked, rowVars, extVars, metaVars, liveVars, lock, goal, cut>>
(* _build_main_rows_from_glob: from the disk cache, if its hash is that of  *)
(* these paths, or one after the other; the result is the same.            *)
MainRows ==
  /\ Goes("user", "rows", "userows")
  /\ mainRows' = (IF mainBuilt THEN mainRows ELSE Plus(mainRows, globbed.paths)) /\ mainBuilt' = TRUE
  /\ UNCHANGED <<indexVars, readVars, scanned, rows, source, rowsBuilt, extVars, metaVars, liveVars, lock, goal, cut>>
UseRows ==
  /\ Goes("user", "userows", "ext")
  /\ IF goal.user = "index" THEN rows' = PlusAll(rows, mainRows) /\ source' = "live" ELSE UNCHANGED <<rows, source>>
  /\ UNCHANGED <<indexVars, readVars, scanned, mainRows, mainBuilt, rowsBuilt, extVars, metaVars, liveVars, lock, goal, cut>>

-----------------------------------------------------------------------------
(* _ensure_extension_bsl_catalog, for either goal. *)
After(t) == IF goal[t] = "index" THEN "attach" ELSE "publish"
EnterExt(t) ==
  /\ at[t] = "ext"
  /\ \/ extBuilt /\ at' = [at EXCEPT ![t] = After(t)] /\ UNCHANGED lock
     \/ ~ extBuilt /\ Free("ext") /\ Takes("ext", t) /\ at' = [at EXCEPT ![t] = "extfiles"]
  /\ UNCHANGED <<indexVars, readVars, scanned, rowVars, extVars, metaVars, liveVars, goal, cut>>
ExtFile(t) ==
  /\ at[t] = "extfiles" /\ ~ extBuilt /\ extRoot
  /\ \E f \in Ext \ extSet : ext' = Plus(ext, {f}) /\ extSet' = extSet \cup {f}
  /\ UNCHANGED <<indexVars, readVars, scanned, rowVars, extBuilt, extErrors, attached, metaVars, liveVars, threadVars>>
LeaveExt(t) ==
  /\ at[t] = "extfiles" /\ (extBuilt \/ ~ extRoot \/ Ext \subseteq extSet)
  /\ extBuilt' = TRUE
  /\ IF extBuilt \/ extRoot THEN UNCHANGED <<extErrors, metaFailed>> ELSE extErrors' = extErrors + 1 /\ metaFailed' = TRUE
  /\ Leaves("ext") /\ at' = [at EXCEPT ![t] = After(t)]
  /\ UNCHANGED <<indexVars, readVars, scanned, rowVars, ext, extSet, attached, descriptors, metaBuilt, liveVars, goal, cut>>

(* _load_extensions_into_index_state: attached once; the flag of the        *)
(* descriptors is set before they are read.                                *)
Attach ==
  /\ Goes("user", "attach", IF metaBuilt THEN "built" ELSE "meta")
  /\ IF attached THEN UNCHANGED rows ELSE rows' = PlusAll(rows, ext)
  /\ attached' = TRUE /\ metaBuilt' = TRUE
  /\ UNCHANGED <<indexVars, readVars, scanned, mainRows, mainBuilt, source, rowsBuilt, ext, extSet, extBuilt, extErrors,
                 descriptors, metaFailed, liveVars, lock, goal, cut>>
Describe ==
  /\ Goes("user", "meta", "built")
  /\ IF extRoot THEN descriptors' = "all" /\ UNCHANGED metaFailed ELSE metaFailed' = TRUE /\ UNCHANGED descriptors
  /\ UNCHANGED <<indexVars, readVars, scanned, rowVars, extVars, metaBuilt, liveVars, lock, goal, cut>>
RowsBuilt ==
  /\ Goes("user", "built", "idle") /\ rowsBuilt' = TRUE
  /\ UNCHANGED <<indexVars, readVars, scanned, mainRows, mainBuilt, rows, source, extVars, metaVars, liveVars, lock, goal, cut>>

-----------------------------------------------------------------------------
(* _ensure_live_bsl_catalog. *)
EnterLive(t) ==
  /\ at[t] = "live"
  /\ \/ liveBuilt /\ at' = [at EXCEPT ![t] = IF t = "user" THEN "idle" ELSE "end"] /\ UNCHANGED lock
     \/ ~ liveBuilt /\ Free("live") /\ Takes("live", t) /\ at' = [at EXCEPT ![t] = IF reader THEN "walk" ELSE "glob"]
  /\ UNCHANGED <<indexVars, readVars, scanned, rowVars, extVars, metaVars, liveVars, goal, cut>>
Walk(t) ==
  /\ Goes(t, "walk", "ext")
  /\ walked' = [from |-> "disk", paths |-> Main \ hidden, errors |-> IF hidden = {} THEN 0 ELSE 1]
  /\ UNCHANGED <<indexVars, readVars, globbed, rowVars, extVars, metaVars, liveVars, lock, goal, cut>>
Publish(t) ==
  /\ Goes(t, "publish", IF t = "user" THEN "idle" ELSE "end")
  /\ IF liveBuilt THEN UNCHANGED liveVars
     ELSE LET main == IF reader THEN walked ELSE [globbed EXCEPT !.paths = Has(mainRows)] IN
          /\ status' = [complete |-> main.errors + extErrors = 0, route |-> IF reader THEN "walk" ELSE "glob"]
          /\ live' = Plus(live, main.paths \cup Has(ext)) /\ liveBuilt' = TRUE
  /\ Leaves("live")
  /\ UNCHANGED <<indexVars, readVars, scanned, rowVars, extVars, metaVars, goal, cut>>

-----------------------------------------------------------------------------
(* The timeout: locks are given back, a list that was being filled keeps    *)
(* what it has, and the flag that it is whole is not set.                   *)
Cut ==
  /\ cut = NotYet /\ at.user # "idle" /\ cut' = [goal |-> goal.user, at |-> at.user] /\ at' = [at EXCEPT !.user = "idle"]
  /\ lock' = [l \in DOMAIN lock |-> IF lock[l] = "user" THEN "none" ELSE lock[l]]
  /\ \E S \in SUBSET Files :
       /\ rows' = IF at.user = "append" THEN Plus(rows, S \cap got) ELSE rows
       /\ mainRows' = IF at.user = "rows" /\ ~ mainBuilt THEN Plus(mainRows, S \cap globbed.paths) ELSE mainRows
       /\ ext' = IF at.user = "extfiles" /\ ~ extBuilt /\ extRoot /\ Cardinality(S) <= 1
                   THEN Plus(ext, S \cap (Ext \ extSet)) ELSE ext
       /\ live' = IF at.user = "publish" THEN Plus(live, S \cap (walked.paths \cup Has(mainRows) \cup Has(ext))) ELSE live
  /\ UNCHANGED <<indexVars, readVars, scanned, mainBuilt, source, rowsBuilt, extSet, extBuilt, extErrors, attached,
                 metaVars, liveBuilt, status, goal>>

UserStep ==
  \/ ReadMeta \/ ReadCount \/ ReadRows \/ Judge \/ AppendRows \/ Glob \/ MainRows \/ UseRows
  \/ Attach \/ Describe \/ RowsBuilt
Step(t) == EnterExt(t) \/ ExtFile(t) \/ LeaveExt(t) \/ EnterLive(t) \/ Walk(t) \/ Publish(t)
Next ==
  \/ Commit \/ Ask("index") \/ Ask("live") \/ UserStep \/ Cut
  \/ \E t \in {"user", "prewarm"} : Step(t)

-----------------------------------------------------------------------------
(* What a timeout in the loading of the rows leaves there is added to when  *)
(* they are loaded again; an extension file and a live catalogue likewise.  *)
RowsCut == (cut.goal = "index" /\ cut.at \in {"append", "userows", "ext", "extfiles", "attach", "meta", "built"}) \/ cut.at = "rows"
ExtCut == cut.at = "extfiles"

(* "index" is the source only of the rows of one whole build, each once,    *)
(* however the reads and the commits of a rebuild met (2462-2477).         *)
IndexRowsWhole == source = "index" /\ ~ RowsCut => \A f \in Main : rows[f] = 1

(* A live catalogue that is there holds every file at most once, and it is  *)
(* complete unless it says so, whoever made it and whatever was cut before. *)
LiveIsHonest ==
  liveBuilt =>
    /\ ~ ExtCut /\ cut.at # "publish" => \A f \in Files : live[f] <= 1
    /\ status.complete /\ status.route = "walk" => Has(live) = Files

(* count_only claims an exact total of the rows: then no file is missing    *)
(* and none counts twice - except for what a timeout left in a list, and    *)
(* for rows of a glob that the index answered in the middle of a rebuild.   *)
TotalExact ==
  /\ extErrors = 0
  /\ source = "index" \/ (liveBuilt /\ status.route = "walk" /\ status.complete)
TotalIsExact ==
  rowsBuilt /\ TotalExact /\ ~ RowsCut /\ ~ ExtCut /\ (source = "live" => globbed.from = "disk" \/ globbed.paths = Main)
    => \A f \in Files : rows[f] = 1

(* No descriptor of the extension is missing without a mark - unless a      *)
(* timeout hit their reading, whose flag was set already.                   *)
DescriptorsMarked == rowsBuilt /\ ~ metaFailed /\ cut.at # "meta" => descriptors = "all"

CataloguesHonest == IndexRowsWhole /\ LiveIsHonest /\ TotalIsExact /\ DescriptorsMarked

(* Both threads get what they asked for: no two locks wait for each other.  *)
Waiting == at.user # "idle" \/ at.prewarm # "end"
=============================================================================
