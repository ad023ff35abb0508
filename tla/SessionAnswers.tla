--------------------------- MODULE SessionAnswers ---------------------------
(***************************************************************************)
(* What an answer of rlm_execute carries besides the output of the code:   *)
(* the signatures of helpers the agent has not been shown yet, the         *)
(* variables that are new to it, the hints on how it works and the calls   *)
(* it repeated (server.py, sandbox.py).  Each is the difference between    *)
(* what the worker or the session remembers and what was said before, and  *)
(* the worker forgets when it is killed while the session does not.        *)
(***************************************************************************)
EXTENDS Integers, Sequences, FiniteSets
LOCAL INSTANCE TLC
LOCAL INSTANCE SequencesExt
LOCAL INSTANCE FiniteSetsExt

CONSTANTS
  CatalogNames,  (* the helpers of the catalogue *)
  Conditional,   (* of these, the helpers a worker registers only if it finds what they need *)
  Core,          (* the helpers every session is shown *)
  DomainHelpers, (* the helpers of each domain, by its key *)
  Recipes,       (* the recipes a query may name: the domain of each and the helpers of its steps *)
  Unhinted,      (* helpers whose own name a TypeError does not carry *)
  Starts,        (* what sessions are started with *)
  Requests,      (* what they are asked to execute *)
  ReadsToTell, SparseCalls, SparseToTell, StartCalls, ShownMost,  (* thresholds of the hints and of the list of duplicates *)
  MaxExecutes    (* max_execute_calls of the session *)

VARIABLES
  start,     (* how the session was started *)
  stage,     (* "new", "refused", "idle", "answering" *)
  worker,    (* what the sandbox remembers *)
  session,   (* what the session remembers of its answers *)
  executes,  (* execute_calls *)
  request,   (* what is being executed *)
  result,    (* what the backend returned for it *)
  answer,    (* the last answer *)
  shown,     (* signatures the agent has in front of it, of helpers that exist *)
  hinted,    (* hints given since the worker was started *)
  log,       (* the calls of each execution since the worker was started *)
  known,     (* the variables the last full answer listed, and of which worker *)
  prior      (* what was shown, hinted, known and counted as called unseen before the last answer *)
vars == <<start, stage, worker, session, executes, request, result, answer, shown, hinted, log, known, prior>>

Key(c) == <<c.name, c.arg, c.limit>>
Listing == {"search_objects", "find_module"}   (* _SATURATING_LIST_HELPERS *)
Aggregates == {"get_object_profile", "read_files"}
Style == {"read_files", "reuse_var", "batch", "redundant_get_index_info"}

-----------------------------------------------------------------------------
(* The worker: one Sandbox, from its construction until it is killed.        *)

FreshWorker(g, registry, marked) ==
  [gen |-> g, registry |-> registry, up |-> TRUE, vars |-> {}, sent |-> {}, marked |-> marked, seq |-> 0, first |-> <<>>,
   names |-> {}, single |-> [n \in {"read_file", "read_procedure"} |-> 0], repeated |-> {}, args |-> {}, sparse |-> 0,
   emitted |-> {}]

Registries == IF start.mode = "generic" THEN {{}} ELSE {CatalogNames \ gone : gone \in SUBSET Conditional}

\* One call of a helper by the agent's code; what the helpers call of each other is not seen here.
Called(run, c) ==
  LET w == run.worker
      n == w.seq + 1
      again == Key(c) \in DOMAIN w.first
      about == <<c.name, c.arg>>
  IN [worker |-> [w EXCEPT !.seq = n,
                    !.first = IF again THEN @ ELSE @ @@ (Key(c) :> n),
                    !.names = @ \cup {c.name},
                    !.single = IF c.single THEN [@ EXCEPT ![c.name] = @ + 1] ELSE @,
                    !.repeated = IF c.arg # "" /\ about \in w.args THEN @ \cup {c.name} ELSE @,
                    !.args = IF c.arg # "" THEN @ \cup {about} ELSE @],
      calls |-> Append(run.calls, [name |-> c.name, seq |-> n, of |-> IF again THEN w.first[Key(c)] ELSE 0]),
      full |-> IF c.name \in Listing /\ c.limit > 0 /\ c.rows >= c.limit THEN run.full \cup {c.name} ELSE run.full]

\* The hints of an execution that made these calls: four on style, each once in the sandbox.
StyleDue(w, calls) ==
  {h \in Style \ w.emitted :
     \/ h = "read_files" /\ \E n \in DOMAIN w.single : w.single[n] >= ReadsToTell
     \/ h = "reuse_var" /\ w.repeated \cap {"find_module", "extract_procedures"} # {}
     \/ h = "batch" /\ w.sparse >= SparseToTell /\ w.names \cap Aggregates = {}
     \/ h = "redundant_get_index_info" /\ \E i \in DOMAIN calls : calls[i].name = "get_index_info" /\ calls[i].seq <= StartCalls}

\* The calls that are made: the first of a helper that this worker lacks raises NameError.
Reached(w, r) ==
  LET Absent(i) == r.calls[i].name \in CatalogNames \ w.registry
      missing == {i \in DOMAIN r.calls : Absent(i)}
  IN IF missing = {} THEN r.calls ELSE SubSeq(r.calls, 1, Min(missing) - 1)

Ran(w, r) ==
  LET run == FoldLeft(Called, [worker |-> w, calls |-> <<>>, full |-> {}], Reached(w, r))
      counted == [run.worker EXCEPT !.vars = @ \cup r.sets,
                    !.sparse = IF Len(run.calls) \in 1..SparseCalls THEN @ + 1 ELSE @]
      due == StyleDue(counted, run.calls)
  IN [worker |-> [counted EXCEPT !.emitted = @ \cup due], calls |-> run.calls,
      style |-> due, cut |-> run.full]

-----------------------------------------------------------------------------
(* The session: what it was given at its start and in the answers.           *)

DomainNames(keys) == UNION {DomainHelpers[k] : k \in keys \cap DOMAIN DomainHelpers}

Wanted(s) == IF s.all \/ "all" \in s.domains THEN s.view ELSE (Core \cup DomainNames(s.domains)) \cap s.view

Recognized(choice) == choice.all \/ choice.keys # {}

\* rlm_start: without a choice of domains a slim session is refused before anything is made for it.
Begin(s) ==
  /\ stage = "new" /\ start' = s
  /\ IF s.mode = "slim" /\ s.required /\ ~Recognized(s.choice) /\ ~s.empty
     THEN stage' = "refused" /\ UNCHANGED <<worker, session, shown>>
     ELSE \E gone \in SUBSET Conditional :
       LET view == IF s.mode = "generic" THEN {} ELSE CatalogNames \ gone
           all == s.mode \in {"full", "all"} \/ s.choice.all
           steps == IF s.recipe # "" /\ Recipes[s.recipe].domain \notin s.choice.keys THEN Recipes[s.recipe].steps ELSE {}
           first == IF all THEN view ELSE (Core \cup DomainNames(s.choice.keys) \cup steps) \cap view
       IN /\ stage' = "idle"
          /\ worker' = FreshWorker(1, view, FALSE)
          /\ session' = [view |-> view, gen |-> 1, all |-> all, domains |-> IF s.mode = "slim" /\ ~all THEN s.choice.keys ELSE {},
                         delivered |-> first, outside |-> {}, unknown |-> 0, added |-> 0, reported |-> {}]
          /\ shown' = first
  /\ UNCHANGED <<executes, request, result, answer, hinted, log, known, prior>>

Returned(w, calls, variables, style, cut, error, status) ==
  [gen |-> w.gen, calls |-> calls, vars |-> variables, style |-> style, cut |-> cut, error |-> error,
   status |-> IF status = "" /\ w.marked THEN "restarted" ELSE status]

\* The execution: after a worker was killed the next one is started first, and its first answer says so.
Execute(r) ==
  /\ stage = "idle" /\ executes < MaxExecutes
  /\ executes' = executes + 1 /\ request' = r /\ stage' = "answering"
  /\ \E w \in IF worker.up THEN {worker} ELSE {FreshWorker(worker.gen + 1, registry, TRUE) : registry \in Registries} :
       LET since == IF worker.up THEN log ELSE <<>>
           quiet == [w EXCEPT !.marked = FALSE]
           run == Ran(quiet, r)
           mentioned == IF r.outcome = "keyword" /\ ~r.grep /\ Reached(w, r) = r.calls /\ Last(r.calls).name \in w.registry \ Unhinted THEN {Last(r.calls).name} ELSE {}
       IN \/ /\ r.outcome \in {"ok", "error", "keyword"}
             /\ \E told \in {mentioned, {}} :
                  result' = Returned(w, run.calls, run.worker.vars, run.style, run.cut, told, "")
             /\ worker' = [run.worker EXCEPT !.sent = run.worker.vars]
             /\ log' = Append(since, Reached(w, r))
             /\ hinted' = (IF worker.up THEN hinted ELSE {}) \cup run.style
          \/ /\ r.outcome = "blocked"   (* _validate_readonly *)
             /\ result' = Returned(w, <<>>, w.vars, {}, {}, {}, "")
             /\ worker' = [quiet EXCEPT !.sent = w.vars]
             /\ log' = since /\ hinted' = IF worker.up THEN hinted ELSE {}
          \/ /\ r.outcome = "large"     (* not sent to the worker *)
             /\ result' = Returned(w, <<>>, w.sent, {}, {}, {}, "")
             /\ worker' = quiet
             /\ log' = since /\ hinted' = IF worker.up THEN hinted ELSE {}
          \/ /\ r.outcome = "dies"      (* a hard timeout, a crash, a broken protocol *)
             /\ result' = Returned(w, <<>>, {}, {}, {}, {}, "terminated")
             /\ worker' = [quiet EXCEPT !.up = FALSE, !.sent = {}]
             /\ log' = <<>> /\ hinted' = {}
  /\ prior' = [shown |-> shown, hinted |-> IF worker.up THEN hinted ELSE {}, known |-> known, outside |-> session.outside, gen |-> result.gen]
  /\ UNCHANGED <<start, session, answer, shown, known>>

Nothing == [kind |-> "", signatures |-> {}, removed |-> {}, ignored |-> FALSE, duplicates |-> <<>>, more |-> 0, hints |-> {}, lists |-> {}]

\* The next worker does not start, or the calls of the session are used up: an answer of its own, and nothing else changes.
RestartFails ==
  /\ stage = "idle" /\ ~worker.up /\ executes < MaxExecutes
  /\ executes' = executes + 1 /\ answer' = [Nothing EXCEPT !.kind = "dead"]
  /\ UNCHANGED <<start, stage, worker, session, request, result, shown, hinted, log, known, prior>>

UsedUp ==
  /\ stage = "idle" /\ executes = MaxExecutes /\ answer.kind # "limit"
  /\ answer' = [Nothing EXCEPT !.kind = "limit"]
  /\ UNCHANGED <<start, stage, worker, session, executes, request, result, shown, hinted, log, known, prior>>

\* _deliver_signatures: a new worker first, then the domains asked for in passing, then what was called unseen.
Delivery(s, r, q) ==
  LET fresh == r.gen # s.gen
      view == IF fresh THEN worker.registry ELSE s.view
      base == [s EXCEPT !.view = view, !.gen = r.gen, !.delivered = @ \cap view]
      arrived == IF fresh THEN (view \ s.view) \cap Wanted(base) ELSE {}
      active == q.asked /\ ~s.all /\ "all" \notin s.domains
      keys == IF q.choice.all THEN {"all"} ELSE q.choice.keys
      added == IF active THEN keys \ s.domains ELSE {}
      target == IF ~active THEN {} ELSE IF q.choice.all THEN view ELSE DomainNames(q.choice.keys) \cap view
      group == arrived \cup (target \ base.delivered)
      unseen == IF r.status = "terminated" THEN {} ELSE ({c.name : c \in Range(r.calls)} \cap view) \ base.delivered
      given == group \cup unseen
  IN IF s.view = {} /\ worker.registry = {} THEN [session |-> s, signatures |-> {}, removed |-> {}, ignored |-> FALSE]
     ELSE [session |-> [base EXCEPT !.delivered = @ \cup given, !.domains = @ \cup added,
                          !.added = IF added # {} THEN @ + 1 ELSE @, !.outside = @ \cup unseen,
                          !.unknown = IF r.status = "terminated" THEN @ + 1 ELSE @],
           signatures |-> given \ r.error,
           removed |-> IF fresh THEN s.view \ view ELSE {},
           ignored |-> active /\ q.choice.ignored]

\* The variables not listed by the last full answer, the first `most` of them in order.
NewVariables(s, r, most) ==
  LET ordered == SetToSortSeq(r.vars \ s.reported, LAMBDA a, b : a < b)
      n == IF Len(ordered) < most THEN Len(ordered) ELSE most
  IN [new |-> SubSeq(ordered, 1, n), more |-> Len(ordered) - n]

\* _finish_rlm_execute
Finish ==
  /\ stage = "answering" /\ stage' = "idle"
  /\ LET gave == Delivery(session, result, request.wants)
         pairs == SelectSeq(result.calls, LAMBDA c : c.of # 0)
         forgotten == IF result.status # "" THEN [gave.session EXCEPT !.reported = {}] ELSE gave.session
         listed == NewVariables(forgotten, result, request.most)
         plain == [kind |-> "result", signatures |-> gave.signatures, removed |-> gave.removed, ignored |-> gave.ignored,
                   duplicates |-> SubSeq(pairs, 1, IF Len(pairs) < ShownMost THEN Len(pairs) ELSE ShownMost),
                   more |-> IF Len(pairs) > ShownMost THEN Len(pairs) - ShownMost ELSE 0,
                   hints |-> result.style, lists |-> result.cut]
     IN /\ session' = IF request.full THEN [forgotten EXCEPT !.reported = result.vars] ELSE forgotten
        /\ answer' = IF request.full THEN plain @@ [variables |-> result.vars, new |-> listed.new, cut |-> listed.more] ELSE plain
        /\ shown' = (shown \cap gave.session.view) \cup gave.signatures \cup (result.error \cap gave.session.view)
        /\ known' = IF request.full THEN [gen |-> result.gen, vars |-> result.vars] ELSE known
  /\ UNCHANGED <<start, worker, executes, request, result, hinted, log, prior>>

NoResult == [gen |-> 1, calls |-> <<>>, vars |-> {}, style |-> {}, cut |-> {}, error |-> {}, status |-> ""]

Init ==
  /\ stage = "new" /\ start = [mode |-> ""] /\ worker = [up |-> FALSE] /\ session = [gen |-> 0]
  /\ executes = 0 /\ request = [full |-> FALSE] /\ result = NoResult /\ answer = Nothing
  /\ shown = {} /\ hinted = {} /\ log = <<>> /\ known = [gen |-> 0, vars |-> {}]
  /\ prior = [shown |-> {}, hinted |-> {}, known |-> [gen |-> 0, vars |-> {}], outside |-> {}, gen |-> 1]

Next == \/ \E s \in Starts : Begin(s)
        \/ \E r \in Requests : Execute(r)
        \/ Finish \/ RestartFails \/ UsedUp

-----------------------------------------------------------------------------
Answered == stage = "idle" /\ answer.kind = "result"
Made == FlattenSeq(log)

\* What the session counts as delivered the agent has in front of it and the worker has, the helpers of the steps it
\* was given at the start as well; every helper of its
\* domains is among it, and every helper it called, unless the worker died over it; no signature comes twice
\* while its helper stays, and one that is gone is named (server.py _deliver_signatures).
SignaturesHonest ==
  /\ stage = "idle" => session.delivered \subseteq shown \cap session.view
  /\ stage = "idle" /\ executes = 0 /\ start.recipe # "" => Recipes[start.recipe].steps \cap session.view \subseteq shown
  /\ Answered =>
       LET called == {c.name : c \in Range(result.calls)} \cap session.view
           seen == prior.shown \ answer.removed
       IN /\ session.view = worker.registry
          /\ Wanted(session) \cup called \subseteq session.delivered
          /\ answer.signatures \cap (seen \cup result.error) = {}
          /\ answer.removed \cap session.view = {} /\ prior.shown \subseteq shown \cup answer.removed
          /\ session.outside = prior.outside \cup (called \ seen)

\* The first answer of another worker says that what the session had is gone, and no other does (sandbox_process.py execute).
LossTold == Answered /\ result.status # "terminated" => (result.status = "restarted" <=> result.gen # prior.gen)

\* A full answer lists as new what no full answer of the same worker listed before it, and how many it left out
\* (server.py _finish_rlm_execute).
VariablesHonest ==
  Answered /\ request.full =>
    LET before == IF prior.known.gen = result.gen THEN prior.known.vars ELSE {}
    IN /\ Range(answer.new) \subseteq answer.variables \ before
       /\ Len(answer.new) + answer.cut = Cardinality(answer.variables \ before)
       /\ answer.cut > 0 => Len(answer.new) = request.most

\* Each hint on style is given once by a worker and in the first answer that has a reason for it, whatever was said of
\* it before the worker was replaced; a list that stopped at its limit is told in its own answer, every time
\* (sandbox.py _compute_efficiency_hints, _note_saturation).
Singles(n) == {i \in DOMAIN Made : Made[i].single /\ Made[i].name = n}
Repeats(n) == {i \in DOMAIN Made : Made[i].name = n /\ Made[i].arg # "" /\
                \E j \in 1..(i - 1) : Made[j].name = n /\ Made[j].arg = Made[i].arg}
Sparse(k) == {e \in 1..k : Len(log[e]) \in 1..SparseCalls}
Deserved ==
  {h \in Style :
     \/ h = "read_files" /\ \E n \in {"read_file", "read_procedure"} : Cardinality(Singles(n)) >= ReadsToTell
     \/ h = "reuse_var" /\ Repeats("find_module") \cup Repeats("extract_procedures") # {}
     \/ h = "batch" /\ \E k \in DOMAIN log : /\ Cardinality(Sparse(k)) >= SparseToTell
                                            /\ \A e \in 1..k : \A c \in Range(log[e]) : c.name \notin Aggregates
     \/ h = "redundant_get_index_info" /\ \E i \in DOMAIN Made : i <= StartCalls /\ Made[i].name = "get_index_info"}
HintsHonest ==
  Answered =>
    /\ hinted = Deserved
    /\ answer.hints = hinted \ prior.hinted
    /\ answer.lists =
         IF result.calls = <<>> THEN {}
         ELSE {c.name : c \in {d \in Range(Last(log)) : d.name \in Listing /\ d.limit > 0 /\ d.rows >= d.limit}}

\* A repeated call names the first call of the same helper with the same arguments that this worker answered, and none
\* is left out of the list uncounted (sandbox.py _wrap_helpers, server.py _finish_rlm_execute).
DuplicatesHonest ==
  Answered =>
    LET earlier == Len(Made) - Len(result.calls)
        Same(i) == {j \in 1..(i - 1) : Key(Made[j]) = Key(Made[i])}
        repeated == {i \in (earlier + 1)..Len(Made) : Same(i) # {}}
    IN /\ Len(answer.duplicates) + answer.more = Cardinality(repeated)
       /\ \A d \in Range(answer.duplicates) :
            /\ d.seq \in repeated /\ d.of \in Same(d.seq) /\ Made[d.seq].name = d.name
            /\ \A j \in Same(d.seq) : d.of <= j

AnswersHonest == SignaturesHonest /\ LossTold /\ VariablesHonest /\ HintsHonest /\ DuplicatesHonest
=============================================================================
