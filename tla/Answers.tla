------------------------------- MODULE Answers -------------------------------
(***************************************************************************)
(* How the index is written (part "update", the variables of IndexUpdate), *)
(* what a session is asked of it and of the sources, how the sources are   *)
(* searched and how the answers come back.  One part runs in a behaviour, so the others keep their      *)
(* state in the same variables; those that a part has no use for stay as   *)
(* they are.                                                               *)
(***************************************************************************)
EXTENDS IndexUpdate, Integers, Sequences, FiniteSets

CONSTANTS
  Parts,          \* the parts that are looked at
  Lookups,        \* of Definitions
  Programs,       \* of ReachingLiterals, per part
  Searched, InGit, \* of Search and of GitSearch
  Printed,        \* of WorkerOutput
  Referred,       \* of References
  Tabled,         \* of MetadataLists
  Contained,      \* of Subsystems
  Told,           \* of SessionAnswers
  Movers, Users, Rule, \* of IndexMoves
  Kinds, Shapes, MaxRebuilds \* of IndexOpen

VARIABLES part, v1, v2, v3, v4, v5, v6, v7, v8, v9, v10, v11, v12, v13, v14, v15, v16, v17, v18
answerVars == <<v1, v2, v3, v4, v5, v6, v7, v8, v9, v10, v11, v12, v13, v14, v15, v16, v17, v18>>

From(n) ==
  /\ n <= 4 => v4 = 0 /\ v5 = 0 /\ v6 = 0 /\ v7 = 0 /\ v8 = 0
  /\ n <= 9 => v9 = 0
  /\ n <= 10 => v10 = 0
  /\ n <= 11 => v11 = 0
  /\ n <= 12 => v12 = 0
  /\ n <= 13 => v13 = 0
  /\ n <= 14 => v14 = 0 /\ v15 = 0
  /\ n <= 16 => v16 = 0
  /\ n <= 17 => v17 = 0
  /\ n <= 18 => v18 = 0

-----------------------------------------------------------------------------
(* What the packs hold, under names that TLC evaluates once. *)
branchesLocal == Programs["branches"].local
branchesSize == Programs["branches"].size
branchesTokens == Programs["branches"].tokens
loopsLocal == Programs["loops"].local
loopsSize == Programs["loops"].size
loopsTokens == Programs["loops"].tokens
handlersLocal == Programs["handlers"].local
handlersSize == Programs["handlers"].size
handlersTokens == Programs["handlers"].tokens
lookupsMods == Lookups.mods
lookupsRootOf == Lookups.rootOf
lookupsObjectOf == Lookups.objectOf
lookupsRoots == Lookups.roots
lookupsCounts == Lookups.counts
lookupsLookalikes == Lookups.lookalikes
lookupsSkipped == Lookups.skipped
lookupsBudget == Lookups.budget
lookupsMaxAsked == Lookups.maxAsked
lookupsQuestions == Lookups.questions
printedMaxChars == Printed.maxChars
printedCapacity == Printed.capacity
printedTexts == Printed.texts
printedLogMax == Printed.logMax
printedCap == Printed.cap
printedRests == Printed.rests
printedErrors == Printed.errors
printedMark == Printed.mark
printedMaxExecs == Printed.maxExecs
printedMaxPrints == Printed.maxPrints
printedMaxWarnings == Printed.maxWarnings
referredMaxBuilds == Referred.maxBuilds
referredMaxFaults == Referred.maxFaults
referredLayouts == Referred.layouts
referredTables == Referred.tables
referredKindOf == Referred.kindOf
referredSessions == Referred.sessions
referredQuestions == Referred.questions
referredLists == Referred.lists
tabledWorlds == Tabled.worlds
tabledBudget == Tabled.budget
tabledObjectsOf == Tabled.objectsOf
tabledFragments == Tabled.fragments
tabledPairs == Tabled.pairs
tabledSessions == Tabled.sessions
tabledQuestions == Tabled.questions
containedScanMax == Contained.scanMax
containedShell == Contained.shell
containedHintSize == Contained.hintSize
containedSizeBudget == Contained.sizeBudget
containedMaxChanges == Contained.maxChanges
containedFragments == Contained.fragments
containedWorlds == Contained.worlds
containedSessions == Contained.sessions
containedQuestions == Contained.questions
toldMaxExecutes == Told.maxExecutes
toldReadsToTell == Told.readsToTell
toldSparseCalls == Told.sparseCalls
toldSparseToTell == Told.sparseToTell
toldStartCalls == Told.startCalls
toldShownMost == Told.shownMost
toldCatalogNames == Told.catalogNames
toldConditional == Told.conditional
toldCore == Told.core
toldUnhinted == Told.unhinted
toldDomainHelpers == Told.domainHelpers
toldRecipes == Told.recipes
toldStarts == Told.starts
toldRequests == Told.requests
searchedFiles == Searched.files
searchedRootOf == Searched.rootOf
searchedHitsOf == Searched.hitsOf
searchedRoots == Searched.roots
searchedNoCap == Searched.noCap
searchedBatch == Searched.batch
searchedFaults == Searched.faults
searchedQuestions == Searched.questions
inGitChildren == InGit.children
inGitTypeOf == InGit.typeOf
inGitHits == InGit.hits
inGitTypes == InGit.types
inGitPathTypes == InGit.pathTypes
inGitResults == InGit.results
inGitPerFile == InGit.perFile

(* Where a procedure is declared. *)
Declared == INSTANCE Definitions WITH
  Mods <- lookupsMods, RootOf <- lookupsRootOf, ObjectOf <- lookupsObjectOf,
  Roots <- lookupsRoots, Counts <- lookupsCounts, Lookalikes <- lookupsLookalikes,
  Skipped <- lookupsSkipped, Budget <- lookupsBudget, MaxAsked <- lookupsMaxAsked,
  Questions <- lookupsQuestions, declared <- v1, index <- v2, standalone <- v3,
  walkErrors <- v4, unreadable <- v5, names <- v6, asked <- v7, answer <- v8
(* What a worker of the sandbox hands over. *)
Output == INSTANCE WorkerOutput WITH
  MaxChars <- printedMaxChars, Capacity <- printedCapacity, Texts <- printedTexts,
  LogMax <- printedLogMax, Cap <- printedCap, Rests <- printedRests,
  Errors <- printedErrors, Mark <- printedMark, MaxExecs <- printedMaxExecs,
  MaxPrints <- printedMaxPrints, MaxWarnings <- printedMaxWarnings, buffer <- v1,
  published <- v2, truncated <- v3, offset <- v4, used <- v5, chunk <- v6,
  printed <- v7, queue <- v8, suppressed <- v9, warned <- v10, worker <- v11,
  exec <- v12, frame <- v13, told <- v14, result <- v15
(* Who refers to an object. *)
Refs == INSTANCE References WITH
  MaxBuilds <- referredMaxBuilds, MaxFaults <- referredMaxFaults,
  Layouts <- referredLayouts, Tables <- referredTables, KindOf <- referredKindOf,
  Sessions <- referredSessions, Questions <- referredQuestions,
  Lists <- referredLists, session <- v1, layout <- v2, unlisted <- v3, health <- v4,
  faults <- v5, index <- v6, builds <- v7, pc <- v8, ask <- v9, pre <- v10,
  extra <- v11, counts <- v12, rows <- v13, todo <- v14, walk <- v15, answer <- v16,
  code <- v17
(* What is listed of an object. *)
Lists == INSTANCE MetadataLists WITH
  Worlds <- tabledWorlds, Budget <- tabledBudget, ObjectsOf <- tabledObjectsOf,
  Fragments <- tabledFragments, Pairs <- tabledPairs, Sessions <- tabledSessions,
  Questions <- tabledQuestions, session <- v1, world <- v2, wiped <- v3, q <- v4,
  pc <- v5, rights <- v6, flagged <- v7, excluded <- v8, answer <- v9
(* Subsystems that contain an object. *)
Subs == INSTANCE Subsystems WITH
  ScanMax <- containedScanMax, Shell <- containedShell,
  HintSize <- containedHintSize, SizeBudget <- containedSizeBudget,
  MaxChanges <- containedMaxChanges, Fragments <- containedFragments,
  Worlds <- containedWorlds, Sessions <- containedSessions,
  Questions <- containedQuestions, session <- v1, disk <- v2, changes <- v3,
  index <- v4, pc <- v5, q <- v6, was <- v7, grouped <- v8, listed <- v9,
  rows <- v10, scan <- v11, answer <- v12
(* What the answers of a session carry. *)
Answers == INSTANCE SessionAnswers WITH
  MaxExecutes <- toldMaxExecutes, ReadsToTell <- toldReadsToTell,
  SparseCalls <- toldSparseCalls, SparseToTell <- toldSparseToTell,
  StartCalls <- toldStartCalls, ShownMost <- toldShownMost,
  CatalogNames <- toldCatalogNames, Conditional <- toldConditional,
  Core <- toldCore, Unhinted <- toldUnhinted, DomainHelpers <- toldDomainHelpers,
  Recipes <- toldRecipes, Starts <- toldStarts, Requests <- toldRequests,
  start <- v1, stage <- v2, worker <- v3, session <- v4, executes <- v5,
  request <- v6, result <- v7, answer <- v8, shown <- v9, hinted <- v10, log <- v11,
  known <- v12, prior <- v13
(* The literals that reach a launch. *)
Branches == INSTANCE ReachingLiterals WITH Local <- branchesLocal, MaxTokens <- branchesSize,
  Tokens <- branchesTokens, body <- v1, state <- v2, frames <- v3
Loops == INSTANCE ReachingLiterals WITH Local <- loopsLocal, MaxTokens <- loopsSize,
  Tokens <- loopsTokens, body <- v1, state <- v2, frames <- v3
Handlers == INSTANCE ReachingLiterals WITH Local <- handlersLocal, MaxTokens <- handlersSize,
  Tokens <- handlersTokens, body <- v1, state <- v2, frames <- v3
(* The searches through the files, and through git. *)
Reading == INSTANCE Search WITH Files <- searchedFiles, RootOf <- searchedRootOf,
  HitsOf <- searchedHitsOf, Roots <- searchedRoots, NoCap <- searchedNoCap,
  BatchSize <- searchedBatch, MaxFaults <- searchedFaults, Questions <- searchedQuestions,
  tree <- v1, listed <- v2, walkErrors <- v3, unreadable <- v4, git <- v5, ask <- v6, pc <- v7,
  todo <- v8, results <- v9, scanned <- v10, failed <- v11, readRoots <- v12,
  failedRoots <- v13, truncated <- v14, blind <- v15
Path == INSTANCE GitSearch WITH Children <- inGitChildren, TypeOf <- inGitTypeOf,
  Hits <- inGitHits, Types <- inGitTypes, PathTypes <- inGitPathTypes,
  MaxResults <- inGitResults, PerFileCap <- inGitPerFile,
  suffix <- v1, kind <- v2, clear <- v3, hits <- v4, request <- v5, git <- v6, pc <- v7,
  seen <- v8, rows <- v9, truncatedBy <- v10, error <- v11, moved <- v12
(* Where the index lies, and what is said of it while it is rebuilt. *)
Moves == INSTANCE IndexMoves WITH device <- v1, dirs <- v2, files <- v3, at <- v4, to <- v5, on <- v6, name <- v7, saw <- v8, failed <- v9, copiers <- v10,
  mixed <- v11
Opens == INSTANCE IndexOpen WITH shape <- v1, step <- v2, tables <- v3, meta <- v4, begun <- v5, kind <- v6, pc <- v7, status <- v8, probe <- v9, stats <- v10,
  sample <- v11, failed <- v12, marks <- v13, ends <- v14, answer <- v15, told <- v16

-----------------------------------------------------------------------------
AnswerInit ==
  /\ part \in Parts /\ Init
  /\ part # "update" => work = [f \in Bsl \cup Descr |-> 0]
  /\ CASE part = "declared" -> Declared!Init /\ From(9)
       [] part = "output" -> Output!Init /\ From(16)
       [] part = "refs" -> Refs!Init /\ From(18)
       [] part = "lists" -> Lists!Init /\ From(10)
       [] part = "subsystems" -> Subs!Init /\ From(13)
       [] part = "branches" -> Branches!Init /\ From(4)
       [] part = "loops" -> Loops!Init /\ From(4)
       [] part = "handlers" -> Handlers!Init /\ From(4)
       [] part = "search" -> Reading!Init /\ From(16)
       [] part = "path" -> Path!Init /\ From(13)
       [] part = "moves" -> Moves!Init /\ From(12)
       [] part = "opens" -> Opens!Init /\ From(17)
       [] part = "answers" -> Answers!Init /\ From(14)
       [] OTHER -> v1 = 0 /\ v2 = 0 /\ v3 = 0 /\ From(4)
AnswerStep ==
  \/ part = "declared" /\ Declared!Next /\ UNCHANGED <<v9, v10, v11, v12, v13, v14, v15, v16, v17, v18>>
  \/ part = "output" /\ Output!Next /\ UNCHANGED <<v16, v17, v18>>
  \/ part = "refs" /\ Refs!Next /\ UNCHANGED v18
  \/ part = "lists" /\ Lists!Next /\ UNCHANGED <<v10, v11, v12, v13, v14, v15, v16, v17, v18>>
  \/ part = "subsystems" /\ Subs!Next /\ UNCHANGED <<v13, v14, v15, v16, v17, v18>>
  \/ /\ \/ part = "branches" /\ Branches!Next
        \/ part = "loops" /\ Loops!Next
        \/ part = "handlers" /\ Handlers!Next
     /\ UNCHANGED <<v4, v5, v6, v7, v8, v9, v10, v11, v12, v13, v14, v15, v16, v17, v18>>
  \/ part = "search" /\ Reading!Next /\ UNCHANGED <<v16, v17, v18>>
  \/ part = "path" /\ Path!Next /\ UNCHANGED <<v13, v14, v15, v16, v17, v18>>
  \/ part = "moves" /\ Moves!Next /\ UNCHANGED <<v12, v13, v14, v15, v16, v17, v18>>
  \/ part = "opens" /\ Opens!Next /\ UNCHANGED <<v17, v18>>
  \/ part = "answers" /\ Answers!Next /\ UNCHANGED <<v14, v15, v16, v17, v18>>

AnswerNext ==
  \/ part = "update" /\ Next /\ UNCHANGED <<part, answerVars>>
  \/ AnswerStep /\ UNCHANGED <<part, vars>>
AnswerSpec == AnswerInit /\ [][AnswerNext]_<<part, vars, answerVars>>

-----------------------------------------------------------------------------
(* What a helper looks up is as complete as its answer says (Definitions,
   References, MetadataLists, Subsystems), and the index is looked up where
   it was moved to (IndexMoves). *)
LookupsHonest ==
  /\ part = "declared" => Declared!DefinitionsHonest
  /\ part = "refs" => Refs!ReferencesHonest
  /\ part = "lists" => Lists!ListsHonest
  /\ part = "subsystems" => Subs!SubsystemsHonest
  /\ part = "moves" => Moves!MovesHonest

(* What a worker printed, warned of and returned reaches the parent, and what the
   agent is told beside it, of its helpers and of the index, is new and true
   (WorkerOutput, SessionAnswers, IndexOpen). *)
OutputHonest ==
  /\ part = "output" => Output!OutputHonest
  /\ part = "answers" => Answers!AnswersHonest
  /\ part = "opens" => Opens!OpenHonest

(* A launch by name gets the edges of all it can start, and without loops and
   handlers no other (ReachingLiterals). *)
LaunchTargets ==
  /\ part = "branches" => Branches!NoOtherValueArrives /\ Branches!BranchesAreExact
  /\ part = "loops" => Loops!NoOtherValueArrives /\ Loops!BranchesAreExact
  /\ part = "handlers" => Handlers!NoOtherValueArrives /\ Handlers!BranchesAreExact

(* What a search did not look at, or cut, is told by it (Search, GitSearch). *)
SearchesAccounted ==
  /\ part = "search" => /\ Reading!CleanIsComplete /\ Reading!CountedOnce
                        /\ Reading!TruncatedIsReal /\ Reading!RootsHonest
  /\ part = "path" => Path!InScope /\ Path!TruncationNamed /\ Path!MismatchIsReal
=============================================================================
