-------------------------------- MODULE Index --------------------------------
(***************************************************************************)
(* The index and what rests on its rows: the build lock (the variables of  *)
(* BuildLock), the call rows, the rows of descriptors, the walks over      *)
(* them, the lists of modules of a session, the calls of what does not     *)
(* exist, and the calls of git an update needs.  A behaviour is one of one *)
(* part, chosen at the start, and leaves the variables of the others as    *)
(* they were.                                                              *)
(***************************************************************************)
EXTENDS BuildLock, Integers, Sequences, FiniteSets

CONSTANTS
  Parts,         \* the parts that are looked at
  Sources,       \* of CallGraph; a part is a source tree
  Described,     \* of DescriptorRows; a part is a source tree
  Walked,        \* of GraphWalk, per part
  Main, Ext, MayBeHidden, \* of Catalogues
  Audited,       \* of CallAudit
  MaxFailures    \* of GitProcess

(* The modules of a configuration are not those of an extension. *)
ASSUME ListsAssumption == IsFiniteSet(Main) /\ Main \cap Ext = {} /\ MayBeHidden \subseteq Main

(* Paths are those of modules, and calls are of the kinds the parser makes. *)
ASSUME GraphAssumption ==
  /\ IsFiniteSet(Sources.paths)
  /\ Sources.common \cup Sources.managers \cup Sources.descriptors \subseteq Sources.paths
  /\ \A tree \in DOMAIN Sources.contentsOf, p \in Sources.paths : \A content \in Sources.contentsOf[tree][p] :
       \A c \in content.calls : c.kind \in {"call", "background", "member", "dynamic"}

VARIABLES part, disk, shadowed, mods, callRows, moves, resolved, count, known, touched,
          phase, mode, delta, owned, grown, missed, gap,
          text, since, tables, stage, point, due, skip, dropped,
          indexed, rows, layerRows, layer, trusted, ask, queue, queried, visited, nodes,
          flags, answer, chain, faults, fate,
          reader, old, hidden, extRoot, step, pre, post, got, globbed, walked, mainRows, mainBuilt, loaded, source, rowsBuilt,
          ext, extSet, extBuilt, extErrors, attached, descriptors, metaBuilt, metaFailed, live, liveBuilt, status,
          listLock, at, goal, cut,
          subject, fault, has, main, ver, building, contentAt, phase1, phase2, cache, auditing, question,
          look, catalog, keys, comp, lost, asked,
          running, outcome, files, child, job, root, inJob, kid, read, failures

lockVars == vars
graphVars == <<disk, shadowed, mods, callRows, moves, resolved, count, known, touched,
               phase, mode, delta, owned, grown, missed, gap>>
rowVars == <<text, since, tables, stage, point, due, skip, dropped>>
walkVars == <<indexed, rows, layerRows, layer, trusted, ask, queue, queried, visited, nodes,
              flags, answer, chain, faults, fate>>
listVars == <<reader, old, hidden, extRoot, step, pre, post, got, globbed, walked, mainRows, mainBuilt, loaded, source, rowsBuilt,
              ext, extSet, extBuilt, extErrors, attached, descriptors, metaBuilt, metaFailed, live, liveBuilt, status,
              listLock, at, goal, cut>>
auditVars == <<subject, fault, has, main, ver, building, contentAt, phase1, phase2, cache, auditing, question,
               look, catalog, keys, comp, lost, asked>>
gitVars == <<running, outcome, files, child, job, root, inJob, kid, read, failures>>
indexVars == <<part, lockVars, graphVars, rowVars, walkVars, listVars, auditVars, gitVars>>

-----------------------------------------------------------------------------
(* What the packs hold, under names that TLC evaluates once. *)
graphPaths == Sources.paths
graphCommon == Sources.common
graphManagers == Sources.managers
graphObjectOf == Sources.objectOf
graphDescriptors == Sources.descriptors
graphAbsent == Sources.absent
graphContentsOf == Sources.contentsOf
graphEdits == Sources.edits
rowsFiles == Described.files
rowsAbout == Described.about
rowsContentsOf == Described.contentsOf
rowsNameIn == Described.nameIn
rowsGroupA == Described.groupA
rowsGroupB == Described.groupB
rowsEdits == Described.edits

(* Files are named as the code expects them, the descriptors of group B are alone
   with their objects, and no two of them ever give one name, nor one that another
   file of their category has. *)
ASSUME DescriptorsAssumption ==
  LET same(f, g) == rowsAbout[f].cat = rowsAbout[g].cat /\ rowsAbout[f].obj = rowsAbout[g].obj
      desc == {f \in rowsFiles : rowsAbout[f].kind = "desc"}
  IN
  /\ \A f \in rowsFiles :
       /\ rowsAbout[f].kind \in {"desc", "extra", "template", "role", "form", "rights"}
       /\ rowsAbout[f].kind \in {"desc", "template", "role"} => rowsAbout[f].trigger = "xml"
       /\ rowsAbout[f].kind = "extra" => rowsAbout[f].trigger \in {"xml", "command"}
       /\ rowsAbout[f].kind = "rights" => rowsAbout[f].trigger \in {"xml", "rights"}
       /\ rowsAbout[f].kind \in {"role", "rights"} <=> rowsAbout[f].cat = "Roles"
       /\ rowsAbout[f].cat \in rowsGroupB => rowsAbout[f].kind = "desc"
       /\ rowsAbout[f].cat \in rowsGroupA \cup rowsGroupB =>
            /\ \E d \in desc : same(f, d)
            /\ \A d, e \in desc : same(f, d) /\ same(f, e) => d = e
  /\ "Roles" \notin rowsGroupA \cup rowsGroupB
  /\ \A t \in DOMAIN rowsContentsOf :
       /\ \A d \in desc : d \in DOMAIN rowsContentsOf[t] \/ \A f \in DOMAIN rowsContentsOf[t] : ~same(f, d)
       /\ \A f \in DOMAIN rowsContentsOf[t] :
            /\ f \in rowsFiles /\ 1 \in rowsContentsOf[t][f]
            /\ rowsAbout[f].cat \in rowsGroupB => rowsContentsOf[t][f] \subseteq {0, -1} \cup DOMAIN rowsNameIn[f]
  /\ \A f, g \in rowsFiles : rowsAbout[f].cat = rowsAbout[g].cat /\ rowsAbout[f].cat \in rowsGroupB /\ f # g =>
       \A c \in DOMAIN rowsNameIn[f] :
         rowsNameIn[f][c] # rowsAbout[g].obj /\ \A e \in DOMAIN rowsNameIn[g] : rowsNameIn[f][c] # rowsNameIn[g][e]

walkMain == Walked["walk"].main
walkExt == Walked["walk"].ext
walkCertain == Walked["walk"].certain
walkMainCalls == Walked["walk"].mainCalls
walkExtCalls == Walked["walk"].extCalls
walkQuestions == Walked["walk"].questions
walkPage == Walked["walk"].page
walkVisited == Walked["walk"].visited
walkFaults == Walked["walk"].faults
filesMain == Walked["files"].main
filesExt == Walked["files"].ext
filesCertain == Walked["files"].certain
filesMainCalls == Walked["files"].mainCalls
filesExtCalls == Walked["files"].extCalls
filesQuestions == Walked["files"].questions
filesPage == Walked["files"].page
filesVisited == Walked["files"].visited
filesFaults == Walked["files"].faults
auditedExts == Audited.exts
auditedUpdates == Audited.updates
auditedMayFail == Audited.mayFail
auditedFaults == Audited.faults
auditedMaxUpdates == Audited.maxUpdates
auditedMaxFaults == Audited.maxFaults
auditedMaxAsked == Audited.maxAsked
auditedCalls == Audited.calls
auditedWorlds == Audited.worlds
auditedQuestions == Audited.questions

Graph == INSTANCE CallGraph WITH Paths <- graphPaths, Common <- graphCommon, Managers <- graphManagers,
  ObjectOf <- graphObjectOf, Descriptors <- graphDescriptors, Absent <- graphAbsent,
  ContentsOf <- graphContentsOf, MaxEdits <- graphEdits, tree <- part, calls <- callRows
Rows == INSTANCE DescriptorRows WITH Files <- rowsFiles, About <- rowsAbout, ContentsOf <- rowsContentsOf,
  NameIn <- rowsNameIn, GroupA <- rowsGroupA, GroupB <- rowsGroupB, MaxEdits <- rowsEdits, tree <- part
Walk == INSTANCE GraphWalk WITH Main <- walkMain, Ext <- walkExt, Certain <- walkCertain,
  MainCalls <- walkMainCalls, ExtCalls <- walkExtCalls, Questions <- walkQuestions,
  PageLimit <- walkPage, VisitedCap <- walkVisited, MaxFaults <- walkFaults
Unindexed == INSTANCE GraphWalk WITH Main <- filesMain, Ext <- filesExt, Certain <- filesCertain,
  MainCalls <- filesMainCalls, ExtCalls <- filesExtCalls, Questions <- filesQuestions,
  PageLimit <- filesPage, VisitedCap <- filesVisited, MaxFaults <- filesFaults
Lists == INSTANCE Catalogues WITH rows <- loaded, lock <- listLock
Audit == INSTANCE CallAudit WITH Exts <- auditedExts, Updates <- auditedUpdates, MayFail <- auditedMayFail,
  Faults <- auditedFaults, MaxUpdates <- auditedMaxUpdates,
  MaxFaults <- auditedMaxFaults, MaxAsked <- auditedMaxAsked,
  Calls <- auditedCalls, Worlds <- auditedWorlds, Questions <- auditedQuestions,
  pc <- auditing, ask <- question, pre <- look
Git == INSTANCE GitProcess WITH step <- running

-----------------------------------------------------------------------------
(* The variables of a part that does not run. *)
NoGraph ==
  /\ disk = 0 /\ shadowed = 0 /\ mods = 0 /\ callRows = 0 /\ moves = 0 /\ resolved = 0 /\ count = 0
  /\ known = 0 /\ touched = 0 /\ phase = 0 /\ mode = 0 /\ delta = 0 /\ owned = 0 /\ grown = 0
  /\ missed = 0 /\ gap = 0
NoRows ==
  /\ text = 0 /\ since = 0 /\ tables = 0 /\ stage = 0 /\ point = 0 /\ due = 0 /\ skip = 0 /\ dropped = 0
NoWalk ==
  /\ indexed = 0 /\ rows = 0 /\ layerRows = 0 /\ layer = 0 /\ trusted = 0 /\ ask = 0 /\ queue = 0
  /\ queried = 0 /\ visited = 0 /\ nodes = 0 /\ flags = 0 /\ answer = 0 /\ chain = 0 /\ faults = 0 /\ fate = 0
NoLists ==
  /\ reader = 0 /\ old = 0 /\ hidden = 0 /\ extRoot = 0 /\ step = 0 /\ pre = 0 /\ post = 0
  /\ got = 0 /\ globbed = 0 /\ walked = 0 /\ mainRows = 0 /\ mainBuilt = 0 /\ loaded = 0
  /\ source = 0 /\ rowsBuilt = 0 /\ ext = 0 /\ extSet = 0 /\ extBuilt = 0 /\ extErrors = 0
  /\ attached = 0 /\ descriptors = 0 /\ metaBuilt = 0 /\ metaFailed = 0 /\ live = 0
  /\ liveBuilt = 0 /\ status = 0 /\ listLock = 0 /\ at = 0 /\ goal = 0 /\ cut = 0

NoAudit ==
  /\ subject = 0 /\ fault = 0 /\ has = 0 /\ main = 0 /\ ver = 0 /\ building = 0 /\ contentAt = 0
  /\ phase1 = 0 /\ phase2 = 0 /\ cache = 0 /\ auditing = 0 /\ question = 0 /\ look = 0
  /\ catalog = 0 /\ keys = 0 /\ comp = 0 /\ lost = 0 /\ asked = 0

IndexInit ==
  /\ part \in Parts
  /\ Init
  /\ IF part \in DOMAIN graphContentsOf THEN Graph!Init ELSE NoGraph
  /\ IF part \in DOMAIN rowsContentsOf THEN Rows!Init ELSE NoRows
  /\ CASE part = "walk" -> Walk!Init [] part = "files" -> Unindexed!Init [] OTHER -> NoWalk
  /\ IF part = "lists" THEN Lists!Init ELSE NoLists
  /\ IF part = "audit" THEN Audit!Init ELSE NoAudit
  /\ Git!Init

LockNext ==
  /\ part = "lock" /\ Next
  /\ UNCHANGED <<part, graphVars, rowVars, walkVars, listVars, auditVars, gitVars>>
GraphNext ==
  /\ part \in DOMAIN graphContentsOf /\ Graph!Next
  /\ UNCHANGED <<part, lockVars, rowVars, walkVars, listVars, auditVars, gitVars>>
RowsNext ==
  /\ part \in DOMAIN rowsContentsOf /\ Rows!Next
  /\ UNCHANGED <<part, lockVars, graphVars, walkVars, listVars, auditVars, gitVars>>
WalkNext ==
  /\ \/ part = "walk" /\ Walk!Next
     \/ part = "files" /\ Unindexed!Next
  /\ UNCHANGED <<part, lockVars, graphVars, rowVars, listVars, auditVars, gitVars>>
ListNext ==
  /\ part = "lists" /\ Lists!Next
  /\ UNCHANGED <<part, lockVars, graphVars, rowVars, walkVars, auditVars, gitVars>>
AuditNext ==
  /\ part = "audit" /\ Audit!Next
  /\ UNCHANGED <<part, lockVars, graphVars, rowVars, walkVars, listVars, gitVars>>
GitNext ==
  /\ part = "git" /\ Git!Next
  /\ UNCHANGED <<part, lockVars, graphVars, rowVars, walkVars, listVars, auditVars>>
IndexNext == LockNext \/ GraphNext \/ RowsNext \/ WalkNext \/ ListNext \/ AuditNext \/ GitNext
IndexSpec == IndexInit /\ [][IndexNext]_indexVars

-----------------------------------------------------------------------------
(* An update leaves the rows of a build (CallGraph, DescriptorRows). *)
UpdateIsBuild ==
  /\ part \in DOMAIN graphContentsOf => Graph!UpdateIsBuild
  /\ part \in DOMAIN rowsContentsOf => Rows!MetadataIsBuild

(* An answer that carries no flag is complete, and a path called exact
   exists (GraphWalk). *)
WalksHonest ==
  part = "walk" => Walk!MissIsProof /\ Walk!TreeIsComplete /\ Walk!ExactPathIsReal

(* Every miss without a flag is conclusive, as documented (GraphWalk). *)
MissIsConclusive == part = "files" => Unindexed!MissIsConclusive

(* The lists of modules are whole, or say that they are not (Catalogues). *)
CataloguesHonest == part = "lists" => Lists!CataloguesHonest

(* A call is reported when its target does not exist, and a complete answer
   reports all of them (CallAudit). *)
AuditHonest == part = "audit" => Audit!AuditHonest

(* A call of git ends without processes and files left (GitProcess). *)
GitLeavesNothing == Git!GitLeavesNothing
=============================================================================
