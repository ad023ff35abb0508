# rlm-tools-bsl: a TLA+ verification project

`rlm-tools-bsl` is an MCP server that lets a language model explore the source
code of 1C:Enterprise configurations. A client opens a *session* over a source
tree, sends Python code that runs in a sandbox (by default a worker process of
its own), and closes the session. Beside it the package keeps a SQLite *index* of
the source tree, which sessions read and which the server or a command line
builds and updates.

This directory models the parts of the program where something can go wrong that
a unit test hardly reaches: the life of sessions, backends and worker processes
across threads, expiry and shutdown; the lock of the index; the agreement of the
index with sources that change and operations that fail halfway, from the files it
re-reads down to the keys of call rows; the services around it (scan budget, worker
pool, quota, registry, jobs, Windows service); and what answers may claim about
themselves when something was not read. Paths below are relative to `src/` of the
repository, source files without a directory are in `src/rlm_tools_bsl/`.

How to check: `tlc -config SessionLifecycle.cfg MCSessionLifecycle.tla` (and so
on, the table of runs names the modules), `tlapm SessionLifecycleProofs.tla` and
so on for every module `*Proofs.tla`.

## 1. The system

| Component | Source | State | Operations | Modelled in |
|---|---|---|---|---|
| Session manager | `session.py` | sessions by id with their last use, one lock | `create`, `get`, `end`, `cleanup_expired`, `_run_if_current`, `on_evict` | `SessionLifecycle` |
| Tool handlers, backend registries | `server.py` 134-380, 903-1464, 1862-2169, 3388-3467 | `_sandbox_backends`, `_starting_backends`, registration flag and epoch | `_rlm_start`, `_rlm_execute`, `_rlm_end`, `_release_session_resources`, `_shutdown_all_sandbox_backends`, what an answer carries | `SessionLifecycle`, `SessionAnswers` |
| Reaper | `sandbox_backend.py` 410-612 | pending backends | `enqueue`, retry until closed, `force_abort_pending` | `SessionLifecycle` |
| Inline backend | `sandbox_backend.py` 104-403 | state, execution, reader, timer, prewarm thread | `execute`, `request_close`, `finish_close`, `force_abort` | `SessionLifecycle`, `InlineBackend` |
| Process backend | `sandbox_process.py` 538-1872 | state, generation, process, connection, cleanup marks, ledger slot, close lock | start, restart, `execute`, `request_close`, `finish_close`, `force_abort` | `ProcessBackend` |
| Worker | `sandbox_worker.py`, `_sandbox_protocol.py`, `sandbox.py` | process group, descendants, shared quota, shared stdout, log queue, counters of calls | init, command loop, exit, LLM calls | `ProcessBackend` (as seen by the parent), `LlmQuota`, `WorkerOutput`, `SessionAnswers` |
| Spawn broker | `sandbox_process.py` 95-208 | queue, one thread | start with timeout, late worker | `SpawnBroker` |
| Scan ledger | `_scan_budget.py` | shared token slots | `acquire`, `release`, reclaim | `ScanLedger` |
| Tree walk | `helpers.py` | stack, pending counter, found files | `scan_bsl_tree` and its threads | `TreeScan` |
| Index lock | `bsl_index.py` 151-252 | lock file, per-process record | `acquire`, `release` | `BuildLock` over `ReentrantLock` |
| Index build | `bsl_index.py` 10636-11228 | rows, `index_meta`, marker | `build` | `IndexUpdate`, `CallGraph`, `DescriptorRows` |
| Index update | `bsl_index.py` 2029-2351, 10363-10634, 11231-13050, `_index_snapshot.py` | git state in `index_meta`, snapshot of inputs, derived rows | `update`: recovery, git fast path, full scan, refreshes, key re-resolution | `IndexUpdate`, `CallGraph`, `DescriptorRows`, `ReachingLiterals` |
| Calls of git | `_git_process.py` | capture files, handles, process tree | `run_git` on Windows | `GitProcess` |
| Index location | `bsl_index.py` | directories and names of the index file | `migrate_legacy_index_root`, `_migrate_old_index_db`, `get_index_db_path` | `IndexMoves` |
| Index opening | `server.py`, `cli.py`, `bsl_index.py` readers | marker, counts and keys as read one after the other | the checks of `rlm_start`, `get_index_info`, `info` | `IndexOpen` |
| Index worker pool | `_index_workers.py` | global number of workers | `reserve`, fallback, ordered results | `TaskPool` |
| Index jobs | `server.py` 2794-3234 | job table, its lock | background build and update, `drop`, `info` | `IndexJobs` |
| Project registry | `projects.py` | cached list, file, backup | `add`, `remove`, `rename`, `update`, `_save`, `resolve` | `ProjectRegistry` |
| Windows service | `_service_win.py`, `_service_watchdog.py` | child, policy counters | watch loop, `RestartPolicy`, `SvcStop` | `Watchdog` |
| Helpers over calls | `bsl_helpers.py` 5319-7000, `bsl_index.py` readers | a walk's queue and flags | `find_callers_context`, `find_call_hierarchy`, `find_path` | `GraphWalk` |
| Helpers over texts | `bsl_helpers.py` 3819-4855, `bsl_index.py` 2382-2941 | counters of an answer | `safe_grep`, `count_matches`, `git_search` | `Search`, `GitSearch` |
| Lists of a session | `bsl_helpers.py` | rows, live catalogue, extension modules, made once | loading, glob, prewarm, `count_only` | `Catalogues` |
| Declarations | `bsl_helpers.py` | names declared in extensions | `find_definition` | `Definitions` |
| Audit of calls | `bsl_helpers.py` | results of a generation, bodies of extensions | `find_unresolved_calls` | `CallAudit` |
| References | `bsl_helpers.py` | none beyond an answer | `find_references_to_object`, `find_code_usages` | `References` |
| Lists of metadata | `bsl_helpers.py`, `bsl_index.py` readers | files parsed once | subscriptions, roles, functional options, jobs, services, plans | `MetadataLists` |
| Subsystems | `bsl_helpers.py` | files parsed once | `analyze_subsystem` | `Subsystems` |
| Installation | `service*.py`, `_service_*.py`, `_config.py`, `_paths.py` | files | sequential I/O with rollback | no |
| Other helpers and readers | `bsl_helpers.py`, `bsl_knowledge.py`, ... | caches of one session | queries of one table or one file, formatting | no |
| Parsers, detectors | `bsl_xml_parsers.py`, ... | none | file to record | no |
| Disk cache, log retention | `cache.py`, `log_retention.py` | files a loss of which is a miss | best effort | no |
| LLM bridge, CLI, stdio, regex | `llm_bridge.py`, `cli.py`, ... | none of their own | external calls, start-up | no |

How they interact. An MCP call is a handler thread. `_rlm_start` asks the manager
for a session, creates a backend (which starts a worker through the spawn broker),
registers it while it is *starting*, and publishes it under the session.
`_rlm_execute` looks up session and backend, takes the backend's execution lock and
looks again. The manager calls back `on_evict` for each session it expires; that
call and `_rlm_end` release the backend: it is revoked at once, closed in bounded
time, and handed to the reaper when a residual stays. Shutdown takes the registries
over and closes everything itself. Code in a worker calls helpers, which read the
index when it can be trusted and the files when not; a walk over files borrows
threads from the scan ledger. `build` and `update` run in background threads of the
server (index jobs of a registered project) or in a command-line process; the lock
file is all that the two share. They parse files in the worker pool.

What makes each part correct, and what is hard about it:

- *Sessions.* A backend always has somebody who will close it, through every
  change of hands (starting registry, registry, evicting thread, reaper, shutdown).
  Hard: the steps of start, expiry, end, execute and shutdown interleave under
  four different locks.
- *Process backend.* Closed means that nothing is left; generations never overlap; a
  close wins over a restart that is under way. Hard: kills that are refused, process
  groups that do not exist yet, three threads that close at once.
- *Index lock.* One builder at a time. Hard: reentrancy within a thread only,
  several processes, a lock file that is unlinked.
- *Index.* After `update` the rows are what `build` would write. Hard: rows and the
  git state they belong to are committed apart, git may be slow or away, files
  become dirty and clean again; the key of a call depends on files the update does not
  read; several steps of one update write the same table.
- *Services.* Tokens, workers and quota are given back whatever dies; a file that is
  replaced survives a crash; a stop is final. Hard: no common lock between processes,
  processes killed between two instructions.
- *Answers.* An answer that is incomplete says so, is of one generation of the index,
  and is the same whether it comes from the index or from the files. Hard: pages, caps,
  lookups that fail in the middle, files that vanish, procedures of one name, a
  rebuild between two reads of one answer. What an answer carries beside its result
  (output, warnings, signatures, variables, hints) is sent once and not lost when the
  worker is killed.

## 2. Modules

| Module | Models | Checked in run | Proved in |
|---|---|---|---|
| `SessionLifecycle` | manager, handlers, registries, reaper, both backends as handles | `SessionLifecycle`, `SessionLiveness` (`MCSessionLifecycle`) | `SessionLifecycleProofs` |
| `ProcessBackend` | one `ProcessSandboxBackend` with its worker generations | `ProcessBackend` | `ProcessBackendProofs` |
| `ReentrantLock` | what the index lock promises one process | refined by `BuildLock` | `IndexProofs` |
| `BuildLock` | `_BuildLock` in threads of several processes | `Index`, `BuildLockExclusive` | `IndexProofs` |
| `IndexUpdate` | `build` and `update` against sources and git | `IndexUpdate`, `IndexOutage`, `IndexEdits` | `IndexUpdateProofs` |
| `CallGraph` | call rows, their keys and counters through updates | `Index` | `IndexProofs` |
| `DescriptorRows` | rows of metadata, forms and rights through updates | `Index` | `IndexProofs` |
| `ReachingLiterals` | the literals that reach a launch by name | `IndexUpdate` | - |
| `GraphWalk` | walks over call rows | `Index`, `PathWithoutIndex` | - |
| `Search`, `GitSearch` | searches through texts | `IndexUpdate` | - |
| `SpawnBroker` | the broker that starts workers | `Services` | `SpawnBrokerProofs`, `ServicesProofs` |
| `IndexJobs` | jobs and requests of `rlm_index` | `Services`, `DropSparesBuild` | `IndexJobsProofs`, `ServicesProofs` |
| `InlineBackend`, `Watchdog`, `ProjectRegistry`, `TaskPool`, `LlmQuota`, `TreeScan` | an inline backend, the Windows service, the project registry, the worker pool, the LLM quota, the tree walk | `Services` | `ServicesProofs` |
| `ScanLedger` | the scan budget | `Services` | `ScanLedgerProofs`, `ServicesProofs` |
| `Services` | the composition of the ten modules before it | `Services` (values in `MCServices`) | `ServicesProofs` |
| `Catalogues` | the lists of modules of a session | `Index` | `IndexProofs` |
| `Definitions`, `References`, `MetadataLists`, `Subsystems` | lookups over index and files | `IndexUpdate` | - |
| `CallAudit` | calls of what does not exist | `Index` | - |
| `WorkerOutput`, `SessionAnswers` | the way of an answer from the worker to the agent | `IndexUpdate` | - |
| `GitProcess` | a call of git | `Index` | `IndexProofs` |
| `IndexMoves`, `IndexOpen` | where an index lies, what is said of it when it is opened | `IndexUpdate` | - |
| `Index` | the composition of the lock, the rows, the walks, the lists, the audit and git | `Index` (values in `MCIndex`) | `IndexProofs` |
| `Answers` | the composition of `IndexUpdate` and what is answered | `IndexUpdate` (values in `MCAnswers`) | - |

`Services`, `Index` and `Answers` compose parts that share no state: a variable
`part`, chosen at the start, says which part a behaviour is of, and the others stand
still; in `Answers`, where there are many, the parts other than `IndexUpdate` use
the same variables `v1`, `v2`, ... under their own names. A property of such a run is
the conjunction of those of its parts.

### SessionLifecycle

State: `sessions`, `used`, `known` (ids registered, ever given, told to a client) for
`SessionManager`; `registry`, `starting`, `accepting`, `epoch` for the two
dictionaries, the registration flag and the epoch of `server.py`; `handle` and `lock`
for each backend; `pending`, `attempt`, `dequeued` for the reaper; `claimed`, `unfinished`, `toRevoke`,
`phase` for the lists and progress of a shutdown; `pc`, `sid`, `regEpoch`,
`toRelease`, `rel` for what a handler thread holds in local variables. An action ends
where the code gives up a lock or calls something that may block, so that every
interleaving of critical sections is a behaviour. `_rlm_start` is `StartBegin` ...
`Publish` and the failure paths `StartFail*`, `StartAbort`, `Abort*`; `_rlm_execute`
is `ExecBegin` ... `ExecReturn` with the second look (`ExecCheck`) under the lock;
eviction and `_rlm_end` share `Release`; `BeginLifecycle` is the next server
life-cycle of the same process (stdio and tests restart it). The reaper's thread takes
one pending backend after the other out of its queue (`ReapTake`); an attempt ends with
the backend closed (`Reap`) or puts it back for a later one (`ReapResidual`).

The mode (worker processes or inline) is chosen once, in `Init`. What expired is a
free choice, so every timing of the TTL is covered. A backend is seen from the server
only: how it closes is `ProcessBackend`'s matter.

### ProcessBackend

State: `state`, `restarting`, `finalized`, `generation`, `proc`, `chan` (the
connection), `confirmed`, `unconfirmed` (the two cleanup marks), `slot`, `closeLock`
as in the object; `root`, `grouped`, `forked` for the operating system's view of a
worker: whether it is alive, leads its own group, has left descendants; `rpc`, `vpc`,
`cpc` for the thread that starts or executes, a `request_close`, and the closers
(reaper, shutdown). Some details:

- A kill and the mark that records its outcome are one step: nothing can observe the
  moment in between except the worker.
- A refused `killpg` falls back on `terminate`/`kill` of the worker itself, which
  always succeeds for a child; a group that does not exist raises
  `ProcessLookupError`. `MaxRefused` bounds the refused kills.
- What travels over the connection is reduced to the outcome the parent acts on:
  a result, a lost worker, a close while waiting.
- `request_close` happens once: later calls find `closing` and return.
- A `request_close` during a start may take a group that does not exist yet for dead
  and mark the cleanup confirmed while the worker lives; the failed start terminates
  the worker afterwards, so no property forbids that mark by itself.
- The model is of POSIX; the Job Object of Windows is another mechanism.
- `Done` is a stutter at the end, so that deadlock is checked everywhere else.

### ReentrantLock, BuildLock

`ReentrantLock` is what one process may rely on: a thread gets in when no other one
of the process is in, may get in again, and loses it by leaving or dying. `BuildLock`
has the inodes, the directory entry, the flock, the per-process record
(`_active_locks`) and its threading lock, and one action per system call. The
refinement is stated per process (`PerProcess(p) == INSTANCE ReentrantLock WITH ...`,
property `LockOfAProcess`): between processes the promise does not hold (section 5).
`ReentrantLock` counts the acquisitions a thread has not released; in `BuildLock`
these are its `_BuildLock` objects whose `_acquired` is true.

### IndexUpdate

A file is the version of its content (0: absent), a commit is its tree. `rows` tells
of every file which version its rows come from; `gitHead`, `dirty`, `unreliable`,
`version`, `marker` are the keys of `index_meta`; `snap` and `bound` the snapshot of
inputs and whether it names this very index. Every commit of the code is an action
of its own, as is every look at the sources or at git:

- `build`: `StartBuild`, `ParseAll`, `Mark`, `Wipe`, `Fill`, `FillDescr`, `BuildHead`,
  `BuildRecord`, `BuildFinish`, `Publish`. (`_write_meta` commits before the git state
  is stored; both are under the marker, where only a rebuild follows, and are one
  action.)
- fast path: `StartUpdate`, `GitHead`, `GitDiff`, `FastRead`, `FastRows`,
  `FastFinish`; any failure of git on the way (`GitFails`) leads to the
- full scan: `ScanList`, `ScanRead`, `ScanRows`, `ScanDescr`, `ScanHead`,
  `ScanRecord`, `Publish`. `ScanDescr(S, T)` stands for the commits `executescript` makes
  implicitly between the descriptor tables: any part `S` of the descriptors that are read
  may be stored early, and of any other part `T` the references are erased, since the scan
  deletes the references of all of them before it writes those of the first
  (`bsl_index.py:11894`).
- `Interrupted`: an exception or the death of the process anywhere; what was not
  committed is rolled back, the lock is given up.

Operations exclude each other. That is an assumption about processes: `_BuildLock`
ensures it among the threads of one (`LockOfAProcess`), and between processes except in
the moment of a release that section 5 shows. Assumed of the
environment: a changed file differs in mtime (by more than a second) or in size, no
source is ignored by git. Rows that are derived from other rows are the concern of
the next three modules; the build options and the one-time migrations are left out. A
descriptor is its own domain.

### CallGraph

`disk` is the content of each module, `mods`, `calls` (in `Index`, `callRows`), `moves`,
`resolved`, `count` what the index has of it; an update is a step per phase of the code (`phase`, `mode`):
it takes over the changed modules, re-resolves the rows of modules nobody touched that
name what changed (`ChangedCommon`, `ChangedManagers`), and reads launches again where
a descriptor changed (`RefreshLaunches`). `Fresh`, the rows of all modules read under
the present descriptors, is the reference: `UpdateIsBuild` compares the two at the end
of every update. The modules and the contents they may have are those of a *source
tree*, of which a behaviour has one (`tree`). Two
limits of that equality are part of the model and not forbidden by it:

- `gap`: an update that was interrupted after its rows were committed has read launches
  under descriptors of which the stored git state knows nothing. When such a descriptor
  is changed back, git does not name it and the fast path leaves these launches; the full
  scan still finds them, unless a fast path has stored `file_paths` in between, and then
  only a build does.
- `missed`: `bsl_count` stays wrong after an interrupted fast path until a full scan
  finds a changed module.
- which files an update takes for changed is `IndexUpdate`'s matter.

### DescriptorRows

A row is a file, the content it was read from and the name it is stored under.
`Built` collects all rows as `build` does. The fast path decides which categories it
refreshes object by object (`FastStart`), does so in any order (`FastObject`: group A by
its directory, group B by its name or file), and reads the other categories, forms,
synonyms and rights (`FastRest(whole)`). The full scan reads the domains whose digest
differs, one after the other, and commits before each next one: `ScanMetadata`,
`ScanSynonyms`, `ScanRights`, `ScanForms`, with `ScanDies` in between; `skip` are the
domains left out. One table (`refs`) is written by forms, rights and objects in different
steps, and each step clears a part of it; `ScanMetadata` clears all of it, so a scan that
dies after its first commit leaves an index that lacks the references of the forms and
roles it was to read later, and no snapshot. A scan reads them again; a fast path, which
follows when the scan was a fallback from git, only those its delta names, or all rights
and forms where it cannot be selective. `dropped` (history) names the domains that are
incomplete in this way: `MetadataIsBuild` allows their references to be missing and
nothing else. Assumed: the inner name of a group B descriptor is unique to one file (the code
deletes by `name = ? OR file = ?`), an object's other files go with its descriptor, and
rows of movements depend on the catalogue of registers at the time they are inserted
(docs/INDEXING.md:717), which is why they are not compared here.

### ReachingLiterals

The body of a procedure is a sequence of tokens; `state` and `frames` are the
analysis of the code, and `Around`, `Part`, `Close`, `Effect`, `Successors`,
`Executions` and `Arriving` are a reference semantics: they execute the body and
collect the values that arrive at the launch. The property compares the two over all
bodies up to a length.

### GraphWalk

A walk asks for pages of callers (`queried`, `answer`), each of which may meet a
rebuild or an error, and expands them breadth first. The property relates the flags
of the answer to the true graph. Four roads on which an answer is incomplete without
a flag are in the model and excepted by name, for the code documents no promise there:
a lookup that raises is skipped; a transient lock of the database sends a node to the
files while the rows of the extension layer are not merged; launches by name are
invisible to the files; a zero that is not authoritative skips the extension layer.

### Search, GitSearch

`Search` reads files in batches, counts what it could not list, read or reach, and
stops at a cap. `blind` is what it cannot know: `git grep` reports an unreadable file
on stderr only and exits with 0 or 1, so the file counts as scanned; and a mask whose
enumeration raises in `count_matches` is skipped. Only `.bsl` files of neighbouring
extensions are counted. `GitSearch` looks up what its path is and lets git see
another state of it.

### The services

- `ScanLedger`: `acquire` and `release` instruction by instruction, once with stores
  that others see late (`Buffered`). `shifted` is a mark of the specification that no
  step reads: while a walk adds up the slots, a slot it has not read yet was given to
  a new session. It may then have added up tokens of a session that has ended meanwhile,
  and add up those of its successor too, or meet the tokens of one worker in two slots;
  so the shortage the docstring bounds is bounded only for walks without the mark.
- `SpawnBroker`: caller and broker race for a request; `Brokers` numbers the retired
  ones.
- `TaskPool`: reservation, window, fallback and a dying worker; the limit is read
  anew at each reservation. That the process is gone when `join(timeout=10)` of a
  terminated worker returns (`_index_workers.py:530`) is assumed.
- `Watchdog`: time in rounds of the probe loop.
- `LlmQuota`: instruction by instruction, with kills in between.
- `ProjectRegistry`: each rename of a save is a step. `add`, `remove`, `rename` and
  `update` change the cached list before a save that may fail, and a later save then
  stores the refused change; `resolve` walks the list outside the lock. No document
  promises otherwise, so no property forbids it; what is checked is that the list on
  the disk survives and that only a removal can hide a name.
- `IndexJobs`: a request, a job's thread and a command line on index files that a
  builder or reader keeps open after they were unlinked. A release unlocks the lock file
  and unlinks whatever file has its name afterwards, as `BuildLock` has it in detail: a
  builder of another process that locked the old file meanwhile is `nameless` from then
  on, the next one locks a new file, and both write one index (`shared`; what the tables
  hold after their commits is left open). `info` reads in separate
  queries; a builder that starts and ends between two of them is seen as whole
  twice, with numbers of two indexes (not forbidden: it refuses half-built ones).
- `TreeScan`: three walkers of a tree with a cycle. A timeout of an inline sandbox that
  hits the caller outside of `_process` gives the budget back while the threads go on
  (`WalkersCovered` is about walks without it); one that hits between the take of a
  directory and its processing, or in the `finally`, leaves the counter above zero, and
  the threads spin for ever. Both are in the model; the second is excepted in
  `WalkersEnd` by the place where it hit (`cut`).
- `InlineBackend`: the `TimeoutError` that the timer raises in the thread may arrive
  after the code has ended, in the thread's next execution (`stray`).

### Catalogues

The rows, the extension's modules, the descriptors and the live catalogue of one
session, each with its flag "built", filled by the user's thread while the prewarm
thread fills the last of them; a rebuild commits in between, or a timeout cuts the user's
call anywhere. Excepted by name, for the code does behave so:

- During a rebuild the rows come from a glob, which the index answers from its
  `file_paths` (`bsl_helpers.py:2337`, 2480): a part of the files, cached for the
  session, labelled live; `count_only` may call such a total exact (3459).
- A timeout in the middle of a loading leaves rows that the next loading adds to
  (`RowsCut`, `ExtCut`); the flag of the descriptors is set before they are read.

### Definitions, CallAudit, References, MetadataLists, Subsystems

Each is one helper (or a family) as the reads it makes of the index, one action each,
with a rebuild between them where it matters, the route over the files, and the
record of the answer. The properties compare the answer with the sources, or with the
generation the helper claims to speak of, and one route with the other.

- `Definitions`: the index and a pass over the extensions, a path, an object, a grep.
  Modules may be out of reach for a while; `names` is the cache of the session.
- `CallAudit`: the catalogue of the configuration, its rows, the two caches of the
  extensions, the cache of results. A catalogue that could not be read makes an answer
  transient, and so not cached, only where the rows of the configuration are asked for;
  one on extensions only is kept with its flag (`bsl_helpers.py:7272`). Left out: a subject that is private in one layer
  and in a protected module of another (`Compiles`); that does not compile.
- `References`: an index page (expansion, count, rows) and the walk over
  descriptors. Counts and rows are compared where both are of one generation of the
  index; `Definitions` and `Subsystems` are those with a rebuild between the reads. Not told by the answer and excepted: a count or an expansion that
  fails; a second read of a file that fails; directories below the first level that are
  not listed; commands of an object without a directory, and the parameter type of
  a common command that has one (`bsl_helpers.py:23155`).
- `MetadataLists`: a build empties tables between two reads (`wiped`). Excepted: the
  flags of roles stay "available" after their tables were emptied; jobs and services
  by name take an empty table for an answer; the profile takes a failed
  read of the rights for none (`get_roles_exact(...) or []`); an object that an
  extension declares under a name the configuration has elsewhere is missed by sets; an
  index from before version 16 knows no sets.
- `Subsystems`: the content table, the paths and the names, read one after the other,
  against a pass over the files. The index matches any part of a reference and the live
  route its whole name, although the comment at `bsl_helpers.py:9391` calls the rule the
  same: `IndexedHonest` and `LiveHonest` state each what its own route does. A candidate
  that cannot be read is dropped.

### WorkerOutput, SessionAnswers

`WorkerOutput` is the shared stdout buffer (copy, publish, flag), the queue of warnings
and the fitting of a result into a frame of largest size; sizes are units, a character has
one or more bytes. `SessionAnswers` is the session beside its worker: which signatures
were delivered, which variables listed, which hints given, what was called. Hints are
given once for a worker, not for a session (`sandbox.py:610`); variables that were
cut from a list are counted, and not listed later; a `TypeError` of `read_file` or
`read_procedure` names their wrapper, so no signature follows it (`Unhinted`).

### GitProcess

One call on Windows with every acquisition, refusal and way out, and the tree of
processes below git. The POSIX branch, a session with a group of its own, is left out.

### IndexMoves, IndexOpen

`IndexMoves` has two roots on one device or two, processes that move the directory
(list, look, rename; or copy and remove), any of which may die, and processes that
look for the index, rename the old file and build. Excepted by name: a build that writes
the very file a copier is writing (`mixed`); a second copier, or a build that makes the
directory first, makes the other one move *into* it (`NeverInside`); a rename of the old
file that passed its checks before a build ended replaces what was built
(`BuildStands`). A copy whose process dies leaves half an index in the new place, and
nobody looks at the whole one in the old place again (`bsl_index.py:3117`): `NeverLost`
says that there still is one.

`IndexOpen` has the steps of a rebuild as readers can see them and the reads of
`rlm_start`, of `get_index_info` and of the two `info` commands. A rebuild that
finishes between the counts and the second look passes both guards, although the
comment at `server.py:1104` calls the sentinel independent of timing; `LoadedWhole` is
stated without that case. A session keeps the label of its start.

## 3. Runs

| Run | Bounds | Distinct states | Expected |
|---|---|---|---|
| `SessionLifecycle` | 2 threads, 2 ids, 1 session at a time, 2 executes, 2 life-cycles, both modes | 1,409,395 | pass |
| `SessionLiveness` | 2 threads, 1 id, 3 life-cycles, fair | 178,678 | pass |
| `ProcessBackend` | 3 generations, 2 closers, 2 refused kills, fair | 492,286 | pass |
| `IndexUpdate` | 2 modules, 1 descriptor, 2 contents each, interruptions, outages; thirteen more parts, see below | 3,748,341 | pass |
| `Index` | see below | 959,873 | pass |
| `Services` | see below | 462,215 | pass |
| `FailedStartLeavesNothing` | 1 worker, 1 refused kill | until found | violation |
| `BuildLockExclusive` | 2 processes | until found | violation |
| `IndexOutage` | 1 module, 1 descriptor, outages only | until found | violation |
| `IndexEdits` | 1 module, 1 descriptor, edits during operations only | until found | violation |
| `DropSparesBuild` | 1 path, 2 clients, 2 index files | until found | violation |
| `PathWithoutIndex` | 4 procedures, no index | until found | violation |

What they show:

- **SessionLifecycle.** `LifecycleOwned`: every backend that is not closed has an
  owner. `NoZombieBackend`: a published backend whose session is gone is on some
  thread's list of releases. `EpochFence`: nothing is registered behind a shutdown's
  snapshot, not even by a start that began in an earlier life-cycle.
  `ExclusiveExecution`: execute calls of a session exclude each other.
  `PublishedIsServable`: what is published has its session and was not revoked.
  `ReleasedNeverRuns`: after a release has returned no execute that passed its
  checks before starts running code. Two threads and two ids are enough for a
  start, an end, an expiry caused by the other thread's start and an execute to
  meet on one id while the other id competes for the only place; the second
  life-cycle is what makes epochs matter.
- **SessionLiveness.** `EventuallyReclaimed`: the backend of a session that ended,
  expired or failed to start is closed in the end, however many attempts of the reaper
  leave something of it.
- **ProcessBackend.** `ClosedMeansTreeGone`, `OneGeneration`,
  `SlotOutlivesWriter`, `CloseIsFinal`, `NoSilentReset`: what the comments of
  `sandbox_process.py` say of trees, generations, marks, the ledger slot, closing and
  the reset notice; `RevokedIsClosed`: a revoked backend is closed in the end. Three
  generations let an unresolved mark of the first meet the start of the second and the
  loss of the third; two closers are the reaper and a shutdown, there is no third.
- **IndexUpdate.** `CaughtUp` ("update ≡ build"): a successful operation leaves the
  rows a build would write, whatever was edited, committed, reverted or interrupted
  before. `Recoverable` is why: a row that is not of the stored commit is on the
  stored dirty list, or the next update is no fast one. `NeverHalfBuilt`: without the
  marker every module has its rows, and a descriptor lacks them only while a full scan is
  between its commits or after one died there. `SnapshotHonest`: a snapshot bound to the index tells what
  its descriptor rows come from. `CaughtUp` leaves one window open, named by the
  variable `gap`: rows that were committed by an operation which never stored their
  git state (interrupted in between, or git away at the end). A full scan or a build
  closes it; the fast path does not see it (section 5). Two contents per file are
  enough, since the code only compares; two modules give deltas that are part of
  the index.
  The other parts: `LookupsHonest` says that what a helper looks up is as complete as
  its answer says, on every route: declarations (four modules in two roots),
  references (seven trees of either format, three tables, one build, one fault), lists
  of metadata (three worlds of objects with all helpers), subsystems (six sets of
  files, two changes of disk or index), and that the index is looked up where it was
  moved to (three movers of which one must not move, two builders).
  `LaunchTargets`: over all bodies of five or six tokens no value but the literals of
  the analysis arrives, and without loops and handlers each of them does.
  `SearchesAccounted`: what a search says it scanned, skipped and cut is true. `OutputHonest`: output and warnings of a worker
  arrive, once and in order, and as much as the flags say; signatures, variables,
  hints and duplicates are the difference to what was told before (three executes, twelve
  kinds of requests, workers that are replaced); what is said of an index while it is
  rebuilt is of one whole generation (six indexes, one rebuild).
- **Index.** *Lock* (3 threads in 2 processes, depth 2, 4 lock files):
  `LockOfAProcess` (refinement) and `HeldExactlyByHolder`: who is inside is on record
  and holds the flock of the file on record; no flock and no record outlives a failed,
  released or killed acquisition. `UpdateIsBuild`: *call rows* of two configurations
  (two common modules of one name and a user of both, two edits between updates; a
  common module, two manager modules of one object and their user) and *rows of
  descriptors* (a catalogue with all its kinds of files and a subscription, two
  edits; an enumeration and a role in both layouts of rights, two edits) are after
  any update what a build would write. `WalksHonest`: a miss of `find_path` and a
  tree of `find_call_hierarchy` without a flag are complete, and a path called exact
  exists, over seven procedures with namesakes, pages of two, one fault.
  `CataloguesHonest`: the lists of
  a session are whole or say that they are not (two modules and two of an extension,
  one rebuild or one timeout). `AuditHonest`: a
  call is reported only when its target does not exist, and a complete answer reports
  all (ten calls in three layers). `GitLeavesNothing`: a
  call of git whose system calls fail up to two times leaves no file, and a process only
  when the means to kill it failed.
- **Services.** `LedgerExact`: no token of the scan budget is lost or kept, and at most
  what the docstring says is granted at once, with and without late stores.
  `ScanIsSerial`: a parallel walk that returns has what the serial one finds, each once,
  with as many errors. `CloseNeverMeetsCode`: nobody closes the reader of an inline
  backend under running code, and a closed one has nothing left unless it was forced.
  `WorkerHasOneOwner`: caller and broker agree on whose a worker is.
  `NothingStaysBehind`: a worker that starts too late dies, threads of a walk end, a
  revoked inline backend is closed whatever its code does. `PoolExact`: the pool gives
  back what it reserved and yields in order without a hole. `CallsWithinQuota`: kills
  between any two instructions do not let a session call the LLM more often than allowed.
  `RegistryKept`: the list of projects survives failed saves and crashes, and only a
  removal hides a name. `JobsHonest`: threads of the server never write one index file
  together, nor do two processes unless a lock file was unlinked under its holder, and
  `info` reports no numbers of a half-built one unless two builders were in it (builds
  and a command line beside `info`; builds, drops and `info`; a project that moves). `StopIsFinal`, `OnlyHealthShortensDelay`: the
  Windows service. The state invariants include the types of their parts.

Deadlock is checked in `SessionLifecycle`, `SessionLiveness`, `ProcessBackend` and in
the runs that expect a violation but one; in `IndexUpdate`, `Index`, `Services` and
`PathWithoutIndex` most parts end after one operation or question.

### Fairness

`SessionLiveness`: weak fairness of every handler thread that has been called
(threads of the process that no lock blocks for ever) and of a shutdown that began. The
reaper is one thread: an attempt that began ends (weak); a backend that is in the queue
again and again is taken (strong: each attempt returns in bounded time and the queue is
ordered by due time, `sandbox_backend.py:529`); and of its attempts, without an end, some
succeeds (strong: the operating system's part). That a backend gets back into the queue
is not assumed. No
client is obliged to call anything.

`ProcessBackend`: weak fairness of the thread inside start or execute, of
`request_close` once called and of the closers; of the operating system only that a
signalled process dies and that a started worker reaches `setsid`. Refused kills are
finite (`MaxRefused`).

`Services`, for `NothingStaysBehind`: weak fairness of the thread of each spawn broker
and of callers that submitted a request; of the caller and the threads of a tree walk;
of closers of an inline backend that hold its close lock, and of the prewarm thread, whose
walk is finite. The reaper's last attempt, the one without time, is strongly fair: the
reaper retries without an end, and between its attempts others may hold the close lock.
The code of the user is not assumed to stop.

## 4. Proofs

`SessionLifecycleProofs` proves with TLAPS, for any threads, any ids and any bounds:
`TypeCorrect`, `OwnershipIsContinuous`, `NoZombies`, `Fenced`, `MutualExclusion`
(the state invariants of the run), `PublicationIsSound` and `ReleaseIsFinal` (its action
properties). Assumed is only `LifecycleAssumption` of the module.

None of these is inductive. The inductive invariant `IInv` adds:

- `Ids`: a running start owns an id nobody else knows or works on. Without it a
  second thread could release or track "the same" backend in the induction step.
- `ListsUsed`: what waits to be closed, or is being closed, was handed out before, so a
  new id is in no list.
- `ShutdownLists`, `PhaseOrder`, `EpochOrder`: the lists of a shutdown are empty outside
  its phases, registration is open exactly between shutdowns, and a captured epoch
  is never ahead and is behind during a shutdown. `EpochFence` rests on them.
- `PublishReady`: as long as no shutdown has crossed a start, nobody has revoked its
  backend, and the reaper does not work on it; from it `PublishedIsServable`.
- `KnownHandles`: a backend a client knows of is registered, about to be revoked by a
  shutdown, held by a release, or revoked already; from it `ReleasedNeverRuns`.

There is one lemma per part of `IInv` (`TypeStep`, `IdsStep`, ..., `RunStep`), each with
one step per action the part can be disturbed by; `InitIInv` and `Inductive` put them
together, and the theorems follow by temporal logic.

`IndexProofs` is about the composition `Index`: a step of it is one of a part, and a
part that does not run stays as it is. Of the lock it proves, for any threads, any assignment of threads to processes and any
bounds (`BuildLockAssumption`), `TypeCorrect`, `RecordIsHonest` (the invariant
`HeldExactlyByHolder`) and `ImplementsReentrantLock` (the refinement `LockOfAProcess`,
initial states and steps). The inductive invariant adds what the code relies on without
saying it: a record names a thread of its own process that is inside (`Recorded`,
`InsideRecorded`), a thread is in a critical section only as the holder of the threading
lock, and then its process has no record (`MutexHeld`), and a thread about to unlock has
the flock of its descriptor (`Descriptors`). From these, `OneAtATime`: while a thread
is inside or on its way in or out, no other one of its process is. That is why a second
acquisition cannot slip in between the look at the record and the flock. Exclusion
between processes is not among the theorems: it does not hold (section 5).

`GitCallsLeaveNothing` (`GitLeavesNothing`), also there, is about calls of git with any
number of refusals by the system. What the code leaves in the worst case is paid for by
refusals: the invariant says where the caller is and what it holds there (`GitTypes`),
that a root which is in no job has cost one refusal and that a closed job is empty
(`TreeOwned`), and what each further one leaves - a child's handle after a first, held
for good after a second, a root that survives its own termination and the closing of
the job (`LeftByRefusals`).

`ListsAreHonest` (`CataloguesHonest`) is about the lists of modules of a session, for any
finite configuration whose modules are not those of the extension (`ListsAssumption`).
What of the rows is loaded is a function of where the user's thread is, unless a timeout
cut the loading short (`Control`, `RowsKept`). Between two looks that see one generation
of the index, what was read is what the generation has (`Reading`); so when the count is
that of all modules, it is all of them, which is a fact about finite sets
(`SubsetOfSameSize`). The modules of the extension are in their list as often as in the
set beside it, whichever thread adds them (`ExtKept`), and the live catalogue is empty
until it is published from scans that saw everything or are marked (`LiveKept`, `Scans`).

`RowsAreBuilt` (`UpdateIsBuild`) is about any source trees, contents and bounds of edits.
For the call rows (`GraphKept`) it is assumed only that modules are finitely many and
calls of the parser's kinds (`GraphAssumption`). The rows are always those of the modules
as they were read (`Derived`, `RowsRight`): rows of modules an update does not read stay
right because every key whose target it may have moved is found by the name of a changed
common or manager module, before or after the change. Only launches may be of another
reading of the descriptors, and the modules where that shows are those whose descriptors
the next update takes for changed: the fast path while the stored git state is of the
last update (`gap = "none"`), the full scan also after an interruption (`"open"`), and
neither once a fast path has stored a git state over it (`"lost"`). For the rows of
descriptors (`DescriptorsRight`): in each table the rows of a file are those of a build
unless the file is in the delta and its object is still to be refreshed (`Suspect`,
`Sure`); the references are at every step those of metadata, of forms and of roles
together (`TablesRight`), so that a step which drops what another domain wrote has to
bring it back, and of forms and roles those are missing at most whose domain a scan has
dropped and nothing has read whole since (`dropped`). `DescriptorsAssumption` says that files are named as the code expects, that a
descriptor of group B is alone with its object, and that no two of them give one name,
without which a delete by `name = ? OR file = ?` loses a row of another file.

`ProcessBackendProofs` proves, for any number of generations, closers and refused kills
(`BackendAssumption`), the state invariants and action properties of the run:
`ClosedLeavesNothing`, `NoOverlap`, `SlotSafe`, `ClosedForGood`, `ResetIsTold`. What the
invariant adds to them is what the code never says in one place: everything the backend
and its closers remember of a process is of the worker spawned last (`Latest`); before a
worker is spawned, nothing is left of the ones before (`Past`); what the two marks and a
lost connection establish about the last worker (`Killed`); and what a closer knows
when it decides, however the start it overtook goes on (`Deciding`, `Forgotten`).

`IndexUpdateProofs` proves, for any modules, descriptors and contents
(`IndexUpdateAssumption`), `WholeWithoutMarker` and `SnapshotNeverLies` for every
behaviour of the environment, and under `~EditsDuring` - sources change between
operations, not while one reads them - `FastPathSound` (`Recoverable`) and
`UpdateIsBuild` (`CaughtUp`). The assumption is needed: with edits during operations
neither holds, as `IndexEdits` shows. The invariant has two halves. `Kept` says which
state an update may start from, that a build works under its marker, and that the
snapshot is out of the way while rows change. `NeverHalfBuilt`, which is part of it,
says where rows may be missing without the marker: of descriptors, behind the commits of
a full scan. `Current` says of every `pc` what has been seen and is still so
(`SeenTrue`), which rows the operation has still to write (`RowsTrue`), and that all
other rows are of the stored commit or on the stored dirty list (`Accounted`, of which
`Recoverable` is the case `pc = "idle"`).

`SpawnBrokerProofs` (any finite set of callers) and `IndexJobsProofs` (any paths, command
lines, request threads and files) prove the inductive invariants of their modules.
For the broker: a request is in one place, in the queue or in the hands of the broker its
caller asked (`Queues`, `Hands`), an answer tells which worker is left (`Fate`), and fewer
brokers are retired than there are callers (`Brokerage`), so that the bound on brokers
in the model never binds. For the jobs: a building job has its thread (`OneThread`), who
writes has the lock file of its path or had it before it was unlinked (`Locks`), threads
of the server have different paths by the record of their process (`Recorded`), a
file is of one path, also when the path no longer names it (`OnePath`), builders in one
file are known to share it (`Alone`), without the marker an index that nobody shared is
whole or was never begun (`Marks`), and a request that counted rows of a half-built index
finds the marker, or that the index was shared, or is overtaken (`Looks`).

`ScanLedgerProofs` proves `BudgetHonest` - the types, `LedgerExact` and `GrantBounds` - for
any finite set of walks, any slots, requests and total, with stores seen late or in order
(`LedgerAssumption`). A sum over a finite set is a recursive definition, and the library's
induction theorems are out of reach; that such a sum exists, does not depend on the
order, and can be split and bounded is proved from the well-foundedness of the natural
numbers instead (`LeastSet` ... `SumBound`): if some set were an exception, there is a
smallest one. The invariant has three parts. `Inv` says of each slot what its walks have
in it and who may be between a read and a store of it (`Leases`, `Late`, `Exact`,
`Shares`). `Covered`, where stores are in order: of any set of walks that have published
and not decided, either all their tokens fit the total, or some of them have yet to read
a slot that shows it, or know already - the reason why not all of them keep a token at
the limit. `Justified`: of any set of walks that have not got all they want, some one saw no
more than the others may have taken, so that walks do not all give way to each other.

`ServicesProofs` states the properties of the run `Services`, for any constants that
satisfy the named assumptions of `Services`: `WorkersOwned`, `JobsAreHonest` and
`BudgetKept` from the three modules above, by INSTANCE, and with invariants of its own `ConnectionsSafe` (what a
closer saw before it took the reader is still true when it closes it: a revoked
backend executes nothing new), `StopsAreFinal` and `DelaysHonest` (a delay is that of the
present backoff step, which only rises without health), and `RegistrySurvives` (the file
or, between backup and replacement, the backup is what clients were told last; a name
that is looked up and not removed is ahead of the search, also when the list shrinks).
`CallsCounted` (`CallsWithinQuota`) rests on `ReadersHold`, a thread that has read the
counter holds its lock and the counter is still what it read, and on `Counted`: while a
worker lives, what reached the provider and what is reserved fits into its counter, and
the parent knows no more than that; once it is dead, the parent has taken its counter
over and no thread is left with a reservation. `WorkersBudgeted` (`PoolExact`) rests on
`Budgeted`, the budget is the sum of what the operations have, and one that has not
begun or has ended has nothing; and on `InOrder`: the items of an operation are first
those yielded, then those of the window, then those not submitted.
The sums of both are those of `ScanLedgerProofs`.

`WalksAreSerial` (`ScanIsSerial`), also there, is about walks with any finite tree,
links and threads. The invariant (`ScanInv`) says that the caller stays until its threads
have left, unless a timeout took it away (`Attended`), and of a walk that nothing has
failed or interrupted (`Unharmed`): a directory that was seen is on the stack or in the
hands of one walker, or was listed, and only one of these (`ListedOnce`); what was listed
is in the result or counted as an error, and what it leads to was seen (`Published`); the
counter is the length of the stack and the number of walkers with something to finish
(`CountedDown`). So when the counter is down to nothing, what was seen is closed under
the links. That the reference of the walk, a recursive function over the number of steps,
is the least such set (`ReachedAre`) is again proved by the least exception: in as many
steps as there are directories, some step reaches nothing new (`StepsEnd`).

What is assumed there is what the code has: names of nobody are no names, callers,
threads, operations, projects and directories are finitely many, the threads of a walk
differ from each other and from its caller, numbers of calls, workers and items
are numbers and there is some limit of workers, the delays of `RestartPolicy` do not
decrease, a directory is no process.

Only model-checked: the liveness properties, since liveness under fairness and ENABLED
are out of the prover's reach;
the walks and the audit of `Index` (`WalksHonest`, `AuditHonest`), and the helpers in
`IndexUpdate`: these compare the outcome of a long computation with a definition of what it
should be (a closure, a set of declarations) by recursion over data.

## 5. Where the code and its promises part

1. `FailedStartLeavesNothing`: a start fails and `killpg` is refused. The worker is
   killed, its descendants are not, no mark remembers them, and the next
   `finish_close` reports the backend closed (`sandbox_process.py:1031`).
2. `BuildLockExclusive`: `release` unlocks first and unlinks later. A process that
   locks the old file in between loses its name, and the next one locks a new file:
   two builders (`bsl_index.py:249`).
3. `IndexOutage`: git is out of reach when an operation ends; the rows of uncommitted
   files are stored, the dirty list and its flag are not. After a revert the fast path
   never re-reads the file (`bsl_index.py:12069`, and the same in `build`).
4. `IndexEdits`: a file is reverted or committed between the moment it was read and the
   moment the git state is recorded. The next update finds nothing to do, although
   docs/INDEXING.md:1449 promises that one update is enough.
5. `DropSparesBuild`: `drop` looks at the job table under its lock and unlinks the index
   without it; a build registered in between loses the index it fills
   (`server.py:2993`).
6. `PathWithoutIndex`: without an index `find_path` drops the second of two procedures
   of one name and calls the miss conclusive (`bsl_helpers.py:6348`).

One more loss is in the models and excepted by name, with no run of its own: a full scan
that dies after its first commit of descriptor rows has erased the references of forms
and roles (`bsl_index.py:11894`, 11911). When it was a fallback from git, the next update
takes the fast path and does not restore them (`gap` in `IndexUpdate`, `dropped` in
`DescriptorRows`).

## 6. Not modelled

- The restricted builtins and import hook (`sandbox.py`) and regular expressions
  (`regex_safety.py`), argument checks, stdio, the command line: sequential code whose
  behaviour is its data.
- Parsers of XML and detectors of formats and extensions: functions of one file. What
  `References` and `MetadataLists` need of them is in the model as sets of rows.
- Helpers that list one table or one file: what could go wrong in them is what
  `Definitions` and `MetadataLists` show for the others, less the second route.
- How the path of a project is normalised and a missing source is recovered.
- `drop` beside a session that has the index open.
- The texts of the knowledge base and the strategy, formatting of answers.
- Installers and unit files.
- The disk cache and log retention: a lost or torn file is a miss.
- The LLM bridge: calls of an external service.
- In modelled components: the Job Object of worker processes (that of git is
  modelled), `msvcrt` locks of Windows, frame contents of the worker protocol, full-text rows, extension overrides and the
  one-time migrations of the index.

## 7. Plan

1. A *backend* as the server sees it (`handle` of `SessionLifecycle`: open, closing,
   closed) as an abstract specification that `ProcessBackend` implements.
