-------------------------- MODULE IndexUpdateProofs --------------------------
(***************************************************************************)
(* Proofs about IndexUpdate, for any sets of modules and descriptors and   *)
(* any versions: what a snapshot and a missing marker promise holds even   *)
(* when sources change under a running operation; the git state accounts   *)
(* for all rows, and an operation leaves the rows a fresh build would      *)
(* write, when they change between operations only.                        *)
(***************************************************************************)
EXTENDS IndexUpdate, TLAPS

BuildPc == {"wipe", "fill", "fillDescr", "buildHead", "buildRecord", "buildFinish"}
FastPc == {"git", "diff", "fastRead", "fastRows", "fastFinish"}
ScanPc == {"list", "scanRead", "scanRows", "scanDescr", "scanHead", "scanRecord"}
ScanDone == {"scanRows", "scanDescr", "scanHead", "scanRecord"}

(* What an update starts from, and what a build has made sure of. *)
Begun ==
  /\ pc \in FastPc \cup ScanPc => version # "none" /\ ~marker
  /\ pc \in FastPc => ~unreliable /\ gitHead # None
  /\ pc \in BuildPc => marker
  /\ wrote => pc \in {"fastFinish", "scanDescr", "scanHead", "scanRecord"}
  /\ pc \in {"buildHead", "buildRecord", "buildFinish"} => \A f \in Files : rows[f] = read[f]

(* The snapshot is out of the way while an operation runs; the scan skips the
   descriptors whose rows are what it read. *)
SnapshotTrue ==
  /\ bound => pc = "idle"
  /\ pc \in {"git", "diff", "list", "scanRead"} /\ seenSnap # None => \A d \in Descr : rows[d] = seenSnap[d]
  /\ pc \in ScanDone => \A d \in Descr : d \in delta \/ rows[d] = read[d]
  /\ pc = "publish" => \A d \in Descr : rows[d] = read[d]

Kept == TypeOK /\ Begun /\ NeverHalfBuilt /\ SnapshotTrue /\ SnapshotHonest

-----------------------------------------------------------------------------
(* From here on sources change between operations only. *)

(* What an operation has seen is still so. *)
SeenTrue ==
  /\ quiet
  /\ pc \in BuildPc \cup ScanDone \cup {"mark"} => read = work
  /\ pc \in {"buildRecord", "scanRecord"} => seenHead \in {head, None}
  /\ pc \in FastPc \ {"git"} => seenHead = head
  /\ pc \in {"fastRead", "fastRows", "fastFinish"} => seenDirty = Uncommitted
  /\ pc = "fastRows" => \A f \in delta \cap Bsl : read[f] = work[f]

(* The rows an update will not write, and those it has written, which delta no
   longer names, are right. *)
RowsTrue ==
  /\ pc \in {"fastRead", "fastRows", "fastFinish"} /\ ~gap => \A f \in Files \ delta : rows[f] = work[f]
  /\ pc \in {"fastFinish", "scanDescr", "scanHead", "scanRecord"} => delta \subseteq Descr
  /\ pc = "scanRead" => \A f \in Bsl \ delta : rows[f] = work[f]
  /\ pc \in ScanDone => \A f \in Files \ delta : rows[f] = work[f]

(* Rows that are not those of the stored commit are named by the stored dirty
   list, whenever the next update may rely on it. *)
Accounted ==
  ~wrote /\ ~gap /\ ~unreliable /\ gitHead # None /\ (~marker \/ pc = "buildFinish") =>
    \A f \in Files : rows[f] = gitHead[f] \/ f \in dirty

Current == SeenTrue /\ RowsTrue /\ Accounted

(* Every step keeps the types, and an idle builder has nothing in memory. *)
LEMMA TypeOKStep ==
  ASSUME Kept, [Next]_vars
  PROVE  TypeOK'
<1> USE IndexUpdateAssumption DEF sources, gitState, meta, snapshot, seen, ghosts, Kept, TypeOK,
   Pc, Forgotten
<1>1. ASSUME NEW f \in Files, Commit(f) PROVE TypeOK'
  BY <1>1 DEF Commit, Trees, SourcesMayChange
<1>2. ASSUME NEW f \in Files, NEW v \in Versions, Edit(f, v) PROVE TypeOK'
  BY <1>2 DEF Edit, Trees, SourcesMayChange
<1>3. ASSUME NEW v \in {"old", "other"}, Reinstall(v) PROVE TypeOK'
  BY <1>3 DEF Reinstall
<1>4. CASE StartBuild
  BY <1>4 DEF StartBuild, SnapshotTaken, Goto
<1>5. CASE ParseAll
  BY <1>5 DEF ParseAll, Goto
<1>6. CASE Mark
  BY <1>6 DEF Mark, Marked, Goto
<1>7. CASE Wipe
  BY <1>7 DEF Wipe, Goto, Trees
<1>8. CASE Fill
  BY <1>8 DEF Fill, Rewritten, Goto, Trees, Files
<1>9. CASE FillDescr
  BY <1>9 DEF FillDescr, Rewritten, Goto, Trees, Files
<1>10. CASE BuildHead
  BY <1>10 DEF BuildHead, HeadSeen, Goto
<1>11. CASE BuildRecord
  <2>1. gap' \in BOOLEAN /\ unreliable' \in BOOLEAN
    BY <1>11 DEF BuildRecord, DirtySaved, DirtyDoubtful
  <2>2. dirty' \subseteq Files
    BY <1>11 DEF BuildRecord, DirtySaved, DirtyDoubtful, Uncommitted
  <2>3. QED
    BY <1>11, <2>1, <2>2 DEF BuildRecord, Goto
<1>12. CASE BuildFinish
  BY <1>12 DEF BuildFinish, Goto
<1>13. CASE StartUpdate
  BY <1>13 DEF StartUpdate, SnapshotTaken, Goto
<1>14. CASE GitHead
  BY <1>14 DEF GitHead, Goto
<1>15. CASE GitDiff
  BY <1>15 DEF GitDiff, ChangedSince, Goto, Uncommitted, Files
<1>16. CASE GitFails
  BY <1>16 DEF GitFails, Goto
<1>17. CASE FastRead
  BY <1>17 DEF FastRead, Goto, Trees, Files
<1>18. CASE FastRows
  BY <1>18 DEF FastRows, NothingRead, Rewritten, Goto, Trees, Files, Versions
<1>19. CASE FastFinish
  <2>1. NothingRead \in Trees
    BY DEF NothingRead, Trees, Versions
  <2>2. /\ bound' \in BOOLEAN /\ unreliable' \in BOOLEAN /\ wrote' \in BOOLEAN /\ quiet' \in BOOLEAN
        /\ dirty' \subseteq Files /\ gitHead' \in Trees \cup {None}
        /\ rows' \in [Files -> Versions \cup {Lost}]
    BY <1>19 DEF FastFinish, Cleared, DirtySaved, DirtyDoubtful, Uncommitted, Trees, Files
  <2>3. QED
    BY <1>19, <2>1, <2>2 DEF FastFinish, Cleared, Goto
<1>20. CASE ScanList
  BY <1>20 DEF ScanList, Goto, Files
<1>21. CASE ScanRead
  BY <1>21 DEF ScanRead, Unchanged, Goto, Files
<1>22. CASE ScanRows
  BY <1>22 DEF ScanRows, Rewritten, Goto, Trees, Files
<1>23. ASSUME NEW S \in SUBSET (delta \cap Descr), NEW T \in SUBSET ((delta \cap Descr) \ S), ScanDescr(S, T)
      PROVE  TypeOK'
  BY <1>23 DEF ScanDescr, Rewritten, Goto, Trees, Files
<1>24. CASE ScanHead
  BY <1>24 DEF ScanHead, HeadSeen, Goto
<1>25. CASE ScanRecord
  <2>1. gap' \in BOOLEAN /\ unreliable' \in BOOLEAN /\ bound' \in BOOLEAN /\ wrote' \in BOOLEAN
    BY <1>25 DEF ScanRecord, DirtySaved, DirtyDoubtful
  <2>2. dirty' \subseteq Files /\ gitHead' \in Trees \cup {None}
    BY <1>25 DEF ScanRecord, DirtySaved, DirtyDoubtful, Uncommitted
  <2>3. rows' \in [Files -> Versions \cup {Lost}]
    BY <1>25 DEF ScanRecord, Rewritten, Trees
  <2>4. QED
    BY <1>25, <2>1, <2>2, <2>3 DEF ScanRecord, Goto
<1>26. CASE Publish
  <2>1. NothingRead \in Trees
    BY DEF NothingRead, Trees, Versions
  <2>2. /\ snap' \in [Descr -> Versions] \cup {None} /\ bound' \in BOOLEAN
        /\ wrote' \in BOOLEAN /\ quiet' \in BOOLEAN
    BY <1>26 DEF Publish, Cleared, Trees, Files
  <2>3. QED
    BY <1>26, <2>1, <2>2 DEF Publish, Cleared, Goto
<1>27. CASE Interrupted
  <2>1. NothingRead \in Trees
    BY DEF NothingRead, Trees, Versions
  <2>2. wrote' \in BOOLEAN /\ quiet' \in BOOLEAN /\ gap' \in BOOLEAN
    BY <1>27 DEF Interrupted, Cleared
  <2>3. QED
    BY <1>27, <2>1, <2>2 DEF Interrupted, Cleared, Goto
<1>28. CASE UNCHANGED vars
  BY <1>28 DEF vars
<1> HIDE DEF sources, gitState, meta, snapshot, seen, ghosts, Kept, TypeOK, Pc, Forgotten
<1>29. QED
  BY <1>1, <1>2, <1>3, <1>4, <1>5, <1>6, <1>7, <1>8, <1>9, <1>10, <1>11, <1>12, <1>13, <1>14,
     <1>15, <1>16, <1>17, <1>18, <1>19, <1>20, <1>21, <1>22, <1>23, <1>24, <1>25, <1>26, <1>27,
     <1>28
     DEF Next, SourceStep, BuildStep, FastStep, ScanStep

(* An update runs on an index without the marker, the fast path on one whose
   git state is to be relied on, a build only under the marker. *)
LEMMA BegunStep ==
  ASSUME Kept, [Next]_vars
  PROVE  Begun'
<1> USE IndexUpdateAssumption DEF sources, gitState, meta, snapshot, seen, ghosts, Kept, TypeOK,
   Begun, Pc, Forgotten, BuildPc, FastPc, ScanPc
<1>1. ASSUME NEW f \in Files, Commit(f) PROVE Begun'
  BY <1>1 DEF Commit
<1>2. ASSUME NEW f \in Files, NEW v \in Versions, Edit(f, v) PROVE Begun'
  BY <1>2 DEF Edit
<1>3. ASSUME NEW v \in {"old", "other"}, Reinstall(v) PROVE Begun'
  BY <1>3 DEF Reinstall
<1>4. CASE StartBuild
  BY <1>4 DEF StartBuild, SnapshotTaken, Goto
<1>5. CASE ParseAll
  BY <1>5 DEF ParseAll, Goto
<1>6. CASE Mark
  BY <1>6 DEF Mark, Marked, Goto
<1>7. CASE Wipe
  BY <1>7 DEF Wipe, Goto
<1>8. CASE Fill
  BY <1>8 DEF Fill, Rewritten, Goto
<1>9. CASE FillDescr
  BY <1>9 DEF FillDescr, Rewritten, Goto
<1>10. CASE BuildHead
  BY <1>10 DEF BuildHead, HeadSeen, Goto
<1>11. CASE BuildRecord
  BY <1>11 DEF BuildRecord, DirtySaved, DirtyDoubtful, Goto
<1>12. CASE BuildFinish
  BY <1>12 DEF BuildFinish, Goto
<1>13. CASE StartUpdate
  BY <1>13 DEF StartUpdate, SnapshotTaken, Goto
<1>14. CASE GitHead
  BY <1>14 DEF GitHead, Goto
<1>15. CASE GitDiff
  BY <1>15 DEF GitDiff, ChangedSince, Goto
<1>16. CASE GitFails
  BY <1>16 DEF GitFails, Goto
<1>17. CASE FastRead
  BY <1>17 DEF FastRead, Goto
<1>18. CASE FastRows
  BY <1>18 DEF FastRows, Rewritten, Goto
<1>19. CASE FastFinish
  BY <1>19 DEF FastFinish, DirtySaved, DirtyDoubtful, Cleared, Goto
<1>20. CASE ScanList
  BY <1>20 DEF ScanList, Goto
<1>21. CASE ScanRead
  BY <1>21 DEF ScanRead, Unchanged, Goto
<1>22. CASE ScanRows
  BY <1>22 DEF ScanRows, Rewritten, Goto
<1>23. ASSUME NEW S \in SUBSET (delta \cap Descr), NEW T \in SUBSET ((delta \cap Descr) \ S), ScanDescr(S, T)
      PROVE  Begun'
  BY <1>23 DEF ScanDescr, Rewritten, Goto
<1>24. CASE ScanHead
  BY <1>24 DEF ScanHead, HeadSeen, Goto
<1>25. CASE ScanRecord
  BY <1>25 DEF ScanRecord, Rewritten, DirtySaved, DirtyDoubtful, Goto
<1>26. CASE Publish
  BY <1>26 DEF Publish, Cleared, Goto
<1>27. CASE Interrupted
  BY <1>27 DEF Interrupted, Cleared, Goto
<1>28. CASE UNCHANGED vars
  BY <1>28 DEF vars
<1> HIDE DEF sources, gitState, meta, snapshot, seen, ghosts, Kept, TypeOK, Begun, Pc,
   Forgotten, BuildPc, FastPc, ScanPc
<1>29. QED
  BY <1>1, <1>2, <1>3, <1>4, <1>5, <1>6, <1>7, <1>8, <1>9, <1>10, <1>11, <1>12, <1>13, <1>14,
     <1>15, <1>16, <1>17, <1>18, <1>19, <1>20, <1>21, <1>22, <1>23, <1>24, <1>25, <1>26, <1>27,
     <1>28
     DEF Next, SourceStep, BuildStep, FastStep, ScanStep

(* Rows are missing under the marker, Mark comes before Wipe and BuildFinish
   after every row is filled, or after a full scan began to write descriptors:
   its last commit has them all again, an interruption leaves a gap. *)
LEMMA NeverHalfBuiltStep ==
  ASSUME Kept, [Next]_vars
  PROVE  NeverHalfBuilt'
<1> USE IndexUpdateAssumption DEF sources, gitState, meta, snapshot, seen, ghosts, Kept, TypeOK,
   Begun, NeverHalfBuilt, Pc, Forgotten, BuildPc, FastPc, ScanPc
<1>1. ASSUME NEW f \in Files, Commit(f) PROVE NeverHalfBuilt'
  BY <1>1 DEF Commit
<1>2. ASSUME NEW f \in Files, NEW v \in Versions, Edit(f, v) PROVE NeverHalfBuilt'
  BY <1>2 DEF Edit
<1>3. ASSUME NEW v \in {"old", "other"}, Reinstall(v) PROVE NeverHalfBuilt'
  BY <1>3 DEF Reinstall
<1>4. CASE StartBuild
  BY <1>4 DEF StartBuild, SnapshotTaken, Goto
<1>5. CASE ParseAll
  BY <1>5 DEF ParseAll, Goto
<1>6. CASE Mark
  BY <1>6 DEF Mark, Marked, Goto
<1>7. CASE Wipe
  BY <1>7 DEF Wipe, Goto
<1>8. CASE Fill
  BY <1>8 DEF Fill, Rewritten, Goto
<1>9. CASE FillDescr
  BY <1>9 DEF FillDescr, Rewritten, Goto
<1>10. CASE BuildHead
  BY <1>10 DEF BuildHead, HeadSeen, Goto
<1>11. CASE BuildRecord
  BY <1>11 DEF BuildRecord, DirtySaved, DirtyDoubtful, Goto
<1>12. CASE BuildFinish
  BY <1>12 DEF BuildFinish, Goto, Trees, Versions
<1>13. CASE StartUpdate
  BY <1>13 DEF StartUpdate, SnapshotTaken, Goto
<1>14. CASE GitHead
  BY <1>14 DEF GitHead, Goto
<1>15. CASE GitDiff
  BY <1>15 DEF GitDiff, ChangedSince, Goto
<1>16. CASE GitFails
  BY <1>16 DEF GitFails, Goto
<1>17. CASE FastRead
  BY <1>17 DEF FastRead, Goto
<1>18. CASE FastRows
  BY <1>18 DEF FastRows, Rewritten, Goto, Trees, Versions
<1>19. CASE FastFinish
  BY <1>19 DEF FastFinish, DirtySaved, DirtyDoubtful, Cleared, Goto, Trees, Versions
<1>20. CASE ScanList
  BY <1>20 DEF ScanList, Goto
<1>21. CASE ScanRead
  BY <1>21 DEF ScanRead, Unchanged, Goto
<1>22. CASE ScanRows
  BY <1>22 DEF ScanRows, Rewritten, Goto, Trees, Versions
<1>23. ASSUME NEW S \in SUBSET (delta \cap Descr), NEW T \in SUBSET ((delta \cap Descr) \ S), ScanDescr(S, T)
      PROVE  NeverHalfBuilt'
  BY <1>23 DEF ScanDescr, Rewritten, Goto, Trees, Versions
<1>24. CASE ScanHead
  BY <1>24 DEF ScanHead, HeadSeen, Goto
<1>25. CASE ScanRecord
  <2>1. ASSUME NEW f \in Files PROVE rows'[f] # Lost
    <3>1. CASE f \in delta \cap Descr
      BY <1>25, <3>1 DEF ScanRecord, Rewritten, Trees, Versions
    <3>2. CASE f \in Descr \ delta
      BY <1>25, <3>2 DEF ScanRecord, Rewritten, SnapshotTrue, ScanDone, Trees, Versions
    <3>3. CASE f \notin Descr
      BY <1>25, <3>3 DEF ScanRecord, Rewritten
    <3>4. QED
      BY <3>1, <3>2, <3>3
  <2>2. QED
    BY <2>1
<1>26. CASE Publish
  BY <1>26 DEF Publish, Cleared, Goto
<1>27. CASE Interrupted
  BY <1>27 DEF Interrupted, Cleared, Goto
<1>28. CASE UNCHANGED vars
  BY <1>28 DEF vars
<1> HIDE DEF sources, gitState, meta, snapshot, seen, ghosts, Kept, TypeOK, Begun,
   NeverHalfBuilt, Pc, Forgotten, BuildPc, FastPc, ScanPc
<1>29. QED
  BY <1>1, <1>2, <1>3, <1>4, <1>5, <1>6, <1>7, <1>8, <1>9, <1>10, <1>11, <1>12, <1>13, <1>14,
     <1>15, <1>16, <1>17, <1>18, <1>19, <1>20, <1>21, <1>22, <1>23, <1>24, <1>25, <1>26, <1>27,
     <1>28
     DEF Next, SourceStep, BuildStep, FastStep, ScanStep

(* No snapshot is in place while rows are rewritten, and a descriptor that
   the scan skips has the rows of what was read. *)
LEMMA SnapshotTrueStep ==
  ASSUME Kept, [Next]_vars
  PROVE  SnapshotTrue'
<1> USE IndexUpdateAssumption DEF sources, gitState, meta, snapshot, seen, ghosts, Kept, TypeOK,
   Begun, SnapshotTrue, SnapshotHonest, Pc, Forgotten, BuildPc, FastPc, ScanPc, ScanDone
<1>1. ASSUME NEW f \in Files, Commit(f) PROVE SnapshotTrue'
  BY <1>1 DEF Commit
<1>2. ASSUME NEW f \in Files, NEW v \in Versions, Edit(f, v) PROVE SnapshotTrue'
  BY <1>2 DEF Edit
<1>3. ASSUME NEW v \in {"old", "other"}, Reinstall(v) PROVE SnapshotTrue'
  BY <1>3 DEF Reinstall
<1>4. CASE StartBuild
  BY <1>4 DEF StartBuild, SnapshotTaken, Goto
<1>5. CASE ParseAll
  BY <1>5 DEF ParseAll, Goto
<1>6. CASE Mark
  BY <1>6 DEF Mark, Marked, Goto
<1>7. CASE Wipe
  BY <1>7 DEF Wipe, Goto
<1>8. CASE Fill
  BY <1>8 DEF Fill, Rewritten, Goto
<1>9. CASE FillDescr
  BY <1>9 DEF FillDescr, Rewritten, Goto
<1>10. CASE BuildHead
  BY <1>10 DEF BuildHead, HeadSeen, Goto
<1>11. CASE BuildRecord
  BY <1>11 DEF BuildRecord, DirtySaved, DirtyDoubtful, Goto
<1>12. CASE BuildFinish
  BY <1>12 DEF BuildFinish, Goto, Files
<1>13. CASE StartUpdate
  BY <1>13 DEF StartUpdate, SnapshotTaken, Goto
<1>14. CASE GitHead
  BY <1>14 DEF GitHead, Goto
<1>15. CASE GitDiff
  BY <1>15 DEF GitDiff, ChangedSince, Goto
<1>16. CASE GitFails
  BY <1>16 DEF GitFails, Goto
<1>17. CASE FastRead
  BY <1>17 DEF FastRead, Goto
<1>18. CASE FastRows
  BY <1>18 DEF FastRows, Rewritten, Goto
<1>19. CASE FastFinish
  BY <1>19 DEF FastFinish, DirtySaved, DirtyDoubtful, Cleared, Goto
<1>20. CASE ScanList
  BY <1>20 DEF ScanList, Goto
<1>21. CASE ScanRead
  BY <1>21 DEF ScanRead, Unchanged, Goto
<1>22. CASE ScanRows
  BY <1>22 DEF ScanRows, Rewritten, Goto, Files
<1>23. ASSUME NEW S \in SUBSET (delta \cap Descr), NEW T \in SUBSET ((delta \cap Descr) \ S), ScanDescr(S, T)
      PROVE  SnapshotTrue'
  BY <1>23 DEF ScanDescr, Rewritten, Goto, Files
<1>24. CASE ScanHead
  BY <1>24 DEF ScanHead, HeadSeen, Goto
<1>25. CASE ScanRecord
  BY <1>25 DEF ScanRecord, Rewritten, DirtySaved, DirtyDoubtful, Goto, Files
<1>26. CASE Publish
  BY <1>26 DEF Publish, Cleared, Goto
<1>27. CASE Interrupted
  BY <1>27 DEF Interrupted, Cleared, Goto
<1>28. CASE UNCHANGED vars
  BY <1>28 DEF vars
<1> HIDE DEF sources, gitState, meta, snapshot, seen, ghosts, Kept, TypeOK, Begun, SnapshotTrue,
   SnapshotHonest, Pc, Forgotten, BuildPc, FastPc, ScanPc, ScanDone
<1>29. QED
  BY <1>1, <1>2, <1>3, <1>4, <1>5, <1>6, <1>7, <1>8, <1>9, <1>10, <1>11, <1>12, <1>13, <1>14,
     <1>15, <1>16, <1>17, <1>18, <1>19, <1>20, <1>21, <1>22, <1>23, <1>24, <1>25, <1>26, <1>27,
     <1>28
     DEF Next, SourceStep, BuildStep, FastStep, ScanStep

(* A snapshot is bound by Publish alone, when every descriptor has the rows
   of what was read. *)
LEMMA SnapshotHonestStep ==
  ASSUME Kept, [Next]_vars
  PROVE  SnapshotHonest'
<1> USE IndexUpdateAssumption DEF sources, gitState, meta, snapshot, seen, ghosts, Kept, TypeOK,
   SnapshotTrue, SnapshotHonest, Pc, Forgotten, ScanDone
<1>1. ASSUME NEW f \in Files, Commit(f) PROVE SnapshotHonest'
  BY <1>1 DEF Commit
<1>2. ASSUME NEW f \in Files, NEW v \in Versions, Edit(f, v) PROVE SnapshotHonest'
  BY <1>2 DEF Edit
<1>3. ASSUME NEW v \in {"old", "other"}, Reinstall(v) PROVE SnapshotHonest'
  BY <1>3 DEF Reinstall
<1>4. CASE StartBuild
  BY <1>4 DEF StartBuild, SnapshotTaken, Goto
<1>5. CASE ParseAll
  BY <1>5 DEF ParseAll, Goto
<1>6. CASE Mark
  BY <1>6 DEF Mark, Marked, Goto
<1>7. CASE Wipe
  BY <1>7 DEF Wipe, Goto
<1>8. CASE Fill
  BY <1>8 DEF Fill, Rewritten, Goto
<1>9. CASE FillDescr
  BY <1>9 DEF FillDescr, Rewritten, Goto
<1>10. CASE BuildHead
  BY <1>10 DEF BuildHead, HeadSeen, Goto
<1>11. CASE BuildRecord
  BY <1>11 DEF BuildRecord, DirtySaved, DirtyDoubtful, Goto
<1>12. CASE BuildFinish
  BY <1>12 DEF BuildFinish, Goto
<1>13. CASE StartUpdate
  BY <1>13 DEF StartUpdate, SnapshotTaken, Goto
<1>14. CASE GitHead
  BY <1>14 DEF GitHead, Goto
<1>15. CASE GitDiff
  BY <1>15 DEF GitDiff, ChangedSince, Goto
<1>16. CASE GitFails
  BY <1>16 DEF GitFails, Goto
<1>17. CASE FastRead
  BY <1>17 DEF FastRead, Goto
<1>18. CASE FastRows
  BY <1>18 DEF FastRows, Rewritten, Goto
<1>19. CASE FastFinish
  BY <1>19 DEF FastFinish, DirtySaved, DirtyDoubtful, Cleared, Goto
<1>20. CASE ScanList
  BY <1>20 DEF ScanList, Goto
<1>21. CASE ScanRead
  BY <1>21 DEF ScanRead, Unchanged, Goto
<1>22. CASE ScanRows
  BY <1>22 DEF ScanRows, Rewritten, Goto
<1>23. ASSUME NEW S \in SUBSET (delta \cap Descr), NEW T \in SUBSET ((delta \cap Descr) \ S), ScanDescr(S, T)
      PROVE  SnapshotHonest'
  BY <1>23 DEF ScanDescr, Rewritten, Goto
<1>24. CASE ScanHead
  BY <1>24 DEF ScanHead, HeadSeen, Goto
<1>25. CASE ScanRecord
  BY <1>25 DEF ScanRecord, Rewritten, DirtySaved, DirtyDoubtful, Goto
<1>26. CASE Publish
  BY <1>26 DEF Publish, Cleared, Goto
<1>27. CASE Interrupted
  BY <1>27 DEF Interrupted, Cleared, Goto
<1>28. CASE UNCHANGED vars
  BY <1>28 DEF vars
<1> HIDE DEF sources, gitState, meta, snapshot, seen, ghosts, Kept, TypeOK, SnapshotTrue,
   SnapshotHonest, Pc, Forgotten, ScanDone
<1>29. QED
  BY <1>1, <1>2, <1>3, <1>4, <1>5, <1>6, <1>7, <1>8, <1>9, <1>10, <1>11, <1>12, <1>13, <1>14,
     <1>15, <1>16, <1>17, <1>18, <1>19, <1>20, <1>21, <1>22, <1>23, <1>24, <1>25, <1>26, <1>27,
     <1>28
     DEF Next, SourceStep, BuildStep, FastStep, ScanStep

(* Without edits during an operation, what it has read of the sources and of
   git stays true to its end. *)
LEMMA SeenTrueStep ==
  ASSUME Kept, Current, ~EditsDuring, [Next]_vars
  PROVE  SeenTrue'
<1> USE IndexUpdateAssumption DEF sources, gitState, meta, snapshot, seen, ghosts, Kept,
   Current, TypeOK, SeenTrue, Pc, Forgotten, BuildPc, ScanDone, FastPc, Uncommitted,
   SourcesMayChange
<1>1. ASSUME NEW f \in Files, Commit(f) PROVE SeenTrue'
  BY <1>1 DEF Commit
<1>2. ASSUME NEW f \in Files, NEW v \in Versions, Edit(f, v) PROVE SeenTrue'
  BY <1>2 DEF Edit
<1>3. ASSUME NEW v \in {"old", "other"}, Reinstall(v) PROVE SeenTrue'
  BY <1>3 DEF Reinstall
<1>4. CASE StartBuild
  BY <1>4 DEF StartBuild, SnapshotTaken, Goto
<1>5. CASE ParseAll
  BY <1>5 DEF ParseAll, Goto
<1>6. CASE Mark
  BY <1>6 DEF Mark, Marked, Goto
<1>7. CASE Wipe
  BY <1>7 DEF Wipe, Goto
<1>8. CASE Fill
  BY <1>8 DEF Fill, Rewritten, Goto
<1>9. CASE FillDescr
  BY <1>9 DEF FillDescr, Rewritten, Goto
<1>10. CASE BuildHead
  BY <1>10 DEF BuildHead, HeadSeen, Goto
<1>11. CASE BuildRecord
  BY <1>11 DEF BuildRecord, DirtySaved, DirtyDoubtful, Goto
<1>12. CASE BuildFinish
  BY <1>12 DEF BuildFinish, Goto
<1>13. CASE StartUpdate
  BY <1>13 DEF StartUpdate, SnapshotTaken, Goto
<1>14. CASE GitHead
  BY <1>14 DEF GitHead, Goto
<1>15. CASE GitDiff
  BY <1>15 DEF GitDiff, ChangedSince, Goto
<1>16. CASE GitFails
  BY <1>16 DEF GitFails, Goto
<1>17. CASE FastRead
  BY <1>17 DEF FastRead, Goto
<1>18. CASE FastRows
  BY <1>18 DEF FastRows, Rewritten, Goto
<1>19. CASE FastFinish
  BY <1>19 DEF FastFinish, DirtySaved, DirtyDoubtful, Cleared, Goto
<1>20. CASE ScanList
  BY <1>20 DEF ScanList, Goto
<1>21. CASE ScanRead
  BY <1>21 DEF ScanRead, Unchanged, Goto
<1>22. CASE ScanRows
  BY <1>22 DEF ScanRows, Rewritten, Goto
<1>23. ASSUME NEW S \in SUBSET (delta \cap Descr), NEW T \in SUBSET ((delta \cap Descr) \ S), ScanDescr(S, T)
      PROVE  SeenTrue'
  BY <1>23 DEF ScanDescr, Rewritten, Goto
<1>24. CASE ScanHead
  BY <1>24 DEF ScanHead, HeadSeen, Goto
<1>25. CASE ScanRecord
  BY <1>25 DEF ScanRecord, Rewritten, DirtySaved, DirtyDoubtful, Goto
<1>26. CASE Publish
  BY <1>26 DEF Publish, Cleared, Goto
<1>27. CASE Interrupted
  BY <1>27 DEF Interrupted, Cleared, Goto
<1>28. CASE UNCHANGED vars
  BY <1>28 DEF vars
<1> HIDE DEF sources, gitState, meta, snapshot, seen, ghosts, Kept, Current, TypeOK, SeenTrue,
   Pc, Forgotten, BuildPc, ScanDone, FastPc, Uncommitted, SourcesMayChange
<1>29. QED
  BY <1>1, <1>2, <1>3, <1>4, <1>5, <1>6, <1>7, <1>8, <1>9, <1>10, <1>11, <1>12, <1>13, <1>14,
     <1>15, <1>16, <1>17, <1>18, <1>19, <1>20, <1>21, <1>22, <1>23, <1>24, <1>25, <1>26, <1>27,
     <1>28
     DEF Next, SourceStep, BuildStep, FastStep, ScanStep

(* The files outside of delta have the rows of the working tree: modules leave
   it when they are rewritten. *)
LEMMA RowsTrueStep ==
  ASSUME Kept, Current, ~EditsDuring, [Next]_vars
  PROVE  RowsTrue'
<1> USE IndexUpdateAssumption DEF sources, gitState, meta, snapshot, seen, ghosts, Kept,
   Current, TypeOK, Begun, SnapshotTrue, SeenTrue, RowsTrue, Accounted, Pc, Forgotten, BuildPc,
   FastPc, ScanPc, ScanDone, Uncommitted, SourcesMayChange
<1>1. ASSUME NEW f \in Files, Commit(f) PROVE RowsTrue'
  BY <1>1 DEF Commit
<1>2. ASSUME NEW f \in Files, NEW v \in Versions, Edit(f, v) PROVE RowsTrue'
  BY <1>2 DEF Edit
<1>3. ASSUME NEW v \in {"old", "other"}, Reinstall(v) PROVE RowsTrue'
  BY <1>3 DEF Reinstall
<1>4. CASE StartBuild
  BY <1>4 DEF StartBuild, SnapshotTaken, Goto
<1>5. CASE ParseAll
  BY <1>5 DEF ParseAll, Goto
<1>6. CASE Mark
  BY <1>6 DEF Mark, Marked, Goto
<1>7. CASE Wipe
  BY <1>7 DEF Wipe, Goto
<1>8. CASE Fill
  BY <1>8 DEF Fill, Rewritten, Goto
<1>9. CASE FillDescr
  BY <1>9 DEF FillDescr, Rewritten, Goto
<1>10. CASE BuildHead
  BY <1>10 DEF BuildHead, HeadSeen, Goto
<1>11. CASE BuildRecord
  BY <1>11 DEF BuildRecord, DirtySaved, DirtyDoubtful, Goto
<1>12. CASE BuildFinish
  BY <1>12 DEF BuildFinish, Goto
<1>13. CASE StartUpdate
  BY <1>13 DEF StartUpdate, SnapshotTaken, Goto
<1>14. CASE GitHead
  BY <1>14 DEF GitHead, Goto
<1>15. CASE GitDiff
  BY <1>15 DEF GitDiff, ChangedSince, Goto
<1>16. CASE GitFails
  BY <1>16 DEF GitFails, Goto
<1>17. CASE FastRead
  BY <1>17 DEF FastRead, Goto
<1>18. CASE FastRows
  BY <1>18 DEF FastRows, Rewritten, Goto, Files
<1>19. CASE FastFinish
  BY <1>19 DEF FastFinish, DirtySaved, DirtyDoubtful, Cleared, Goto
<1>20. CASE ScanList
  BY <1>20 DEF ScanList, Goto
<1>21. CASE ScanRead
  BY <1>21 DEF ScanRead, Unchanged, Goto, Files
<1>22. CASE ScanRows
  BY <1>22 DEF ScanRows, Rewritten, Goto, Files
<1>23. ASSUME NEW S \in SUBSET (delta \cap Descr), NEW T \in SUBSET ((delta \cap Descr) \ S), ScanDescr(S, T)
      PROVE  RowsTrue'
  BY <1>23 DEF ScanDescr, Rewritten, Goto
<1>24. CASE ScanHead
  BY <1>24 DEF ScanHead, HeadSeen, Goto
<1>25. CASE ScanRecord
  BY <1>25 DEF ScanRecord, Rewritten, DirtySaved, DirtyDoubtful, Goto
<1>26. CASE Publish
  BY <1>26 DEF Publish, Cleared, Goto
<1>27. CASE Interrupted
  BY <1>27 DEF Interrupted, Cleared, Goto
<1>28. CASE UNCHANGED vars
  BY <1>28 DEF vars
<1> HIDE DEF sources, gitState, meta, snapshot, seen, ghosts, Kept, Current, TypeOK, Begun,
   SnapshotTrue, SeenTrue, RowsTrue, Accounted, Pc, Forgotten, BuildPc, FastPc, ScanPc,
   ScanDone, Uncommitted, SourcesMayChange
<1>29. QED
  BY <1>1, <1>2, <1>3, <1>4, <1>5, <1>6, <1>7, <1>8, <1>9, <1>10, <1>11, <1>12, <1>13, <1>14,
     <1>15, <1>16, <1>17, <1>18, <1>19, <1>20, <1>21, <1>22, <1>23, <1>24, <1>25, <1>26, <1>27,
     <1>28
     DEF Next, SourceStep, BuildStep, FastStep, ScanStep

(* Between operations every row is that of the stored commit or of a file of
   the dirty list, unless the next update will not take the fast path. *)
LEMMA AccountedStep ==
  ASSUME Kept, Current, ~EditsDuring, [Next]_vars
  PROVE  Accounted'
<1> USE IndexUpdateAssumption DEF sources, gitState, meta, snapshot, seen, ghosts, Kept,
   Current, TypeOK, Begun, SeenTrue, RowsTrue, Accounted, Pc, Forgotten, BuildPc, FastPc,
   ScanPc, ScanDone, Uncommitted, SourcesMayChange
<1>1. ASSUME NEW f \in Files, Commit(f) PROVE Accounted'
  BY <1>1 DEF Commit
<1>2. ASSUME NEW f \in Files, NEW v \in Versions, Edit(f, v) PROVE Accounted'
  BY <1>2 DEF Edit
<1>3. ASSUME NEW v \in {"old", "other"}, Reinstall(v) PROVE Accounted'
  BY <1>3 DEF Reinstall
<1>4. CASE StartBuild
  BY <1>4 DEF StartBuild, SnapshotTaken, Goto
<1>5. CASE ParseAll
  BY <1>5 DEF ParseAll, Goto
<1>6. CASE Mark
  BY <1>6 DEF Mark, Marked, Goto
<1>7. CASE Wipe
  BY <1>7 DEF Wipe, Goto
<1>8. CASE Fill
  BY <1>8 DEF Fill, Rewritten, Goto
<1>9. CASE FillDescr
  BY <1>9 DEF FillDescr, Rewritten, Goto
<1>10. CASE BuildHead
  BY <1>10 DEF BuildHead, HeadSeen, Goto
<1>11. CASE BuildRecord
  BY <1>11 DEF BuildRecord, DirtySaved, DirtyDoubtful, Goto
<1>12. CASE BuildFinish
  BY <1>12 DEF BuildFinish, Goto
<1>13. CASE StartUpdate
  BY <1>13 DEF StartUpdate, SnapshotTaken, Goto
<1>14. CASE GitHead
  BY <1>14 DEF GitHead, Goto
<1>15. CASE GitDiff
  BY <1>15 DEF GitDiff, ChangedSince, Goto
<1>16. CASE GitFails
  BY <1>16 DEF GitFails, Goto
<1>17. CASE FastRead
  BY <1>17 DEF FastRead, Goto
<1>18. CASE FastRows
  BY <1>18 DEF FastRows, Rewritten, Goto
<1>19. CASE FastFinish
  <2>1. SUFFICES ASSUME ~gap', ~unreliable', NEW f \in Files
                 PROVE  rows'[f] = gitHead'[f] \/ f \in dirty'
    OBVIOUS
  <2>2. rows'[f] = work[f]
    BY <1>19, <2>1 DEF FastFinish, Files
  <2>3. gitHead' = head
    BY <1>19 DEF FastFinish, FastPc
  <2>4. dirty' = Uncommitted
    BY <1>19, <2>1 DEF FastFinish, DirtySaved, DirtyDoubtful
  <2>5. QED
    BY <2>2, <2>3, <2>4 DEF Uncommitted
<1>20. CASE ScanList
  BY <1>20 DEF ScanList, Goto
<1>21. CASE ScanRead
  BY <1>21 DEF ScanRead, Unchanged, Goto
<1>22. CASE ScanRows
  BY <1>22 DEF ScanRows, Rewritten, Goto
<1>23. ASSUME NEW S \in SUBSET (delta \cap Descr), NEW T \in SUBSET ((delta \cap Descr) \ S), ScanDescr(S, T)
      PROVE  Accounted'
  BY <1>23 DEF ScanDescr, Rewritten, Goto
<1>24. CASE ScanHead
  BY <1>24 DEF ScanHead, HeadSeen, Goto
<1>25. CASE ScanRecord
  <2>1. SUFFICES ASSUME ~gap', ~unreliable', gitHead' # None, NEW f \in Files
                 PROVE  rows'[f] = gitHead'[f] \/ f \in dirty'
    OBVIOUS
  <2>2. rows'[f] = work[f]
    <3>1. CASE f \in delta \cap Descr
      BY <1>25, <3>1 DEF ScanRecord, Rewritten, ScanDone
    <3>2. CASE f \notin delta \cap Descr
      BY <1>25, <3>2 DEF ScanRecord, Rewritten, ScanDone, Files
    <3>3. QED
      BY <3>1, <3>2
  <2>3. gitHead' = head /\ dirty' = Uncommitted
    BY <1>25, <2>1 DEF ScanRecord, DirtySaved, DirtyDoubtful
  <2>4. QED
    BY <2>2, <2>3 DEF Uncommitted
<1>26. CASE Publish
  BY <1>26 DEF Publish, Cleared, Goto
<1>27. CASE Interrupted
  BY <1>27 DEF Interrupted, Cleared, Goto
<1>28. CASE UNCHANGED vars
  BY <1>28 DEF vars
<1> HIDE DEF sources, gitState, meta, snapshot, seen, ghosts, Kept, Current, TypeOK, Begun,
   SeenTrue, RowsTrue, Accounted, Pc, Forgotten, BuildPc, FastPc, ScanPc, ScanDone, Uncommitted,
   SourcesMayChange
<1>29. QED
  BY <1>1, <1>2, <1>3, <1>4, <1>5, <1>6, <1>7, <1>8, <1>9, <1>10, <1>11, <1>12, <1>13, <1>14,
     <1>15, <1>16, <1>17, <1>18, <1>19, <1>20, <1>21, <1>22, <1>23, <1>24, <1>25, <1>26, <1>27,
     <1>28
     DEF Next, SourceStep, BuildStep, FastStep, ScanStep

-----------------------------------------------------------------------------
(* The first state has no index, no snapshot and no operation. *)
LEMMA InitKept == Init => Kept /\ Current
<1> SUFFICES ASSUME Init PROVE Kept /\ Current
  OBVIOUS
<1> USE IndexUpdateAssumption
<1>1. TypeOK
  <2>1. NothingRead \in Trees /\ work \in Trees /\ head \in Trees
    BY DEF Init, NothingRead, Trees, Versions
  <2>2. marker \in BOOLEAN /\ unreliable \in BOOLEAN /\ bound \in BOOLEAN
        /\ wrote \in BOOLEAN /\ quiet \in BOOLEAN /\ gap \in BOOLEAN
    BY DEF Init
  <2>3. QED
    BY <2>1, <2>2 DEF Init, TypeOK, Pc, Forgotten
<1>2. Begun /\ NeverHalfBuilt /\ SnapshotTrue /\ SnapshotHonest
  BY DEF Init, Begun, NeverHalfBuilt, SnapshotTrue, SnapshotHonest, BuildPc, FastPc, ScanPc, ScanDone
<1>3. SeenTrue /\ RowsTrue /\ Accounted
  BY DEF Init, SeenTrue, RowsTrue, Accounted, BuildPc, FastPc, ScanDone
<1>4. QED
  BY <1>1, <1>2, <1>3 DEF Kept, Current

(* Kept is inductive, with edits at any time. *)
LEMMA StepKept == Kept /\ [Next]_vars => Kept'
<1>1. QED
  BY TypeOKStep, BegunStep, NeverHalfBuiltStep, SnapshotTrueStep, SnapshotHonestStep DEF Kept

(* Current is inductive on top of Kept, with edits between operations. *)
LEMMA StepCurrent == ~EditsDuring /\ Kept /\ Current /\ [Next]_vars => Current'
<1>1. QED
  BY SeenTrueStep, RowsTrueStep, AccountedStep DEF Current

-----------------------------------------------------------------------------
(* The inductive invariant of builds and updates: it holds whatever is edited, *)
(* interrupted or out of reach.                                                *)
THEOREM Invariance == Spec => []Kept
<1>1. Init => Kept
  BY InitKept
<1>2. QED
  BY <1>1, StepKept, PTL DEF Spec

(* An interrupted rebuild is never taken for an index: when the marker that    *)
(* build writes before its first DROP is gone, every module has its rows, and  *)
(* a descriptor lacks them only while a full scan is between its commits or    *)
(* after one died there: the scan erases the references of all descriptors and *)
(* commits that before it has written them anew.                               *)
THEOREM WholeWithoutMarker == Spec => []NeverHalfBuilt
<1>1. Kept => NeverHalfBuilt
  BY DEF Kept
<1>2. QED
  BY Invariance, <1>1, PTL

(* A snapshot that names this index tells the truth about the descriptors it   *)
(* lets a full scan skip, also after an interrupted operation: build and       *)
(* update remove it before their first write.                                  *)
THEOREM SnapshotNeverLies == Spec => []SnapshotHonest
<1>1. Kept => SnapshotHonest
  BY DEF Kept
<1>2. QED
  BY Invariance, <1>1, PTL

(* The second half of the invariant, when sources change between operations.   *)
THEOREM Currency ==
  ASSUME ~EditsDuring
  PROVE  Spec => [](Kept /\ Current)
<1>1. Init => Kept /\ Current
  BY InitKept
<1>2. Kept /\ Current /\ [Next]_vars => (Kept /\ Current)'
  BY StepKept, StepCurrent
<1>3. QED
  BY <1>1, <1>2, PTL DEF Spec

(* What makes the git fast path right: every row that is not that of the       *)
(* stored commit is of a file the stored dirty list names, or the next update  *)
(* is no fast one.                                                             *)
THEOREM FastPathSound ==
  ASSUME ~EditsDuring
  PROVE  Spec => []Recoverable
<1>1. Kept /\ Current => Recoverable
  BY DEF Kept, Current, TypeOK, Forgotten, Accounted, Recoverable
<1>2. QED
  BY Currency, <1>1, PTL

(* update = build: an operation that ends with success leaves for every file   *)
(* the rows a fresh build would write.                                         *)
THEOREM UpdateIsBuild ==
  ASSUME ~EditsDuring
  PROVE  Spec => CaughtUp
<1>1. ASSUME Kept, Current, Finishes, FastFinish => ~gap
      PROVE  rows' = work
  <2> USE IndexUpdateAssumption
  <2> USE <1>1 DEF Kept, Current, TypeOK, Trees
  <2>1. CASE FastFinish
    <3>1. ASSUME NEW f \in Files PROVE (IF f \in delta \cap Descr THEN work[f] ELSE rows[f]) = work[f]
      BY <2>1 DEF FastFinish, RowsTrue, Files
    <3>2. QED
      BY <2>1, <3>1 DEF FastFinish
  <2>2. CASE ScanRecord
    <3>1. read = work
      BY <2>2 DEF ScanRecord, SeenTrue, ScanDone
    <3>2. ASSUME NEW f \in Files PROVE (IF f \in delta \cap Descr THEN read[f] ELSE rows[f]) = work[f]
      BY <2>2, <3>1 DEF ScanRecord, RowsTrue, ScanDone, Files
    <3>3. QED
      BY <2>2, <3>2 DEF ScanRecord, Rewritten
  <2>3. CASE BuildFinish
    <3>1. read = work
      BY <2>3 DEF BuildFinish, SeenTrue, BuildPc
    <3>2. rows' = rows /\ \A f \in Files : rows[f] = read[f]
      BY <2>3 DEF BuildFinish, Begun
    <3>3. QED
      BY <3>1, <3>2
  <2>4. QED
    BY <1>1, <2>1, <2>2, <2>3 DEF Finishes
<1>2. Kept /\ Current => [Finishes /\ quiet /\ (FastFinish => ~gap) => rows' = work]_vars
  BY <1>1
<1>3. QED
  BY Currency, <1>2, PTL DEF CaughtUp

=============================================================================
