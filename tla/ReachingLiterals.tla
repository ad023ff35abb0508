--------------------------- MODULE ReachingLiterals ---------------------------
(***************************************************************************)
(* Which procedure a launch by name starts (bsl_index.py): when the name   *)
(* is a variable, the literals assigned to it that reach the launch decide *)
(* the background rows of the call graph.  The analysis reads the body of  *)
(* the procedure up to the launch, one control token or statement after    *)
(* the other; here the body grows token by token, and the launch may stand *)
(* behind any of them.                                                     *)
(*                                                                         *)
(* A token is [op, arg].  "set" assigns the literal arg; arg of the others *)
(* is what their expression does to the variable: "plain" nothing, "call"  *)
(* a call that does not get it, "pass" a call that gets it or code that is *)
(* executed, "var" the loop variable is it.  A set of literals stands for  *)
(* a state of the analysis: Unknown when it holds "?", unreachable when it *)
(* is empty.                                                               *)
(***************************************************************************)
EXTENDS Integers, Sequences, FiniteSets, SequencesExt

CONSTANTS
  Tokens,     (* the tokens bodies are made of                             *)
  MaxTokens,  (* bound on their number                                     *)
  Local       (* whether the variable is proven local to the procedure     *)

VARIABLES
  body,    (* the tokens so far                                            *)
  state,   (* the literals that may reach the end of the body              *)
  frames   (* open blocks: [kind, entry, branches, hasElse, touched,       *)
           (* inExcept, tryEnd]                                            *)

literalVars == <<body, state, frames>>

Unknown == {"?"}
Unreachable == {}

(* _call_may_rewrite. *)
Rewrites(arg) == arg = "pass" \/ (arg = "call" /\ ~Local)

(* _join_reaching: unreachable branches do not take part, an unknown one
   absorbs the others. *)
JoinReaching(states) == IF Unknown \in states THEN Unknown ELSE UNION states

After(s, arg) ==
  IF s = Unreachable \/ ~(Rewrites(arg) \/ arg = "var") THEN s ELSE Unknown

Block(kind, entry) ==
  [kind |-> kind, entry |-> entry, branches |-> {}, hasElse |-> FALSE,
   touched |-> FALSE, inExcept |-> FALSE, tryEnd |-> Unreachable]

Touched(fs) ==
  [i \in 1..Len(fs) |-> IF fs[i].kind \in {"loop", "try"} THEN [fs[i] EXCEPT !.touched = TRUE] ELSE fs[i]]

(* Mutated form of TouchedBy: what the expression of a jump does is forgotten. *)
TouchedByStatements(fs, tok) ==
  IF state # Unreachable /\ tok.op \in {"set", "do", "if", "loop"}
     /\ (tok.op = "set" \/ Rewrites(tok.arg) \/ tok.arg = "var")
  THEN Touched(fs) ELSE fs

(* Open loops and tries learn of everything that may change the variable, also
   by the expression of a jump. *)
TouchedBy(fs, tok) ==
  IF state # Unreachable /\ (tok.op = "set" \/ Rewrites(tok.arg) \/ tok.arg = "var")
  THEN Touched(fs) ELSE fs

Top == Last(frames)
Inside(kind) == frames # <<>> /\ Top.kind = kind
InLoop == \E i \in 1..Len(frames) : frames[i].kind = "loop"

-----------------------------------------------------------------------------
(* _literal_reaching_assignments: one action per kind of token.  Bodies are of
   code that compiles. *)

Init == body = <<>> /\ state = Unknown /\ frames = <<>>

Reads(tok) == Len(body) < MaxTokens /\ body' = Append(body, tok)

Statement(tok) ==
  /\ tok.op \in {"set", "do"} /\ Reads(tok)
  /\ frames' = TouchedBy(frames, tok)
  /\ state' = (IF state # Unreachable /\ tok.op = "set" THEN {tok.arg} ELSE After(state, tok.arg))

If(tok) ==
  /\ tok.op = "if" /\ Reads(tok)
  /\ state' = After(state, tok.arg)
  /\ frames' = Append(TouchedBy(frames, tok), Block("if", state'))

(* The condition is evaluated where the ones before it were false. *)
ElsIf(tok) ==
  /\ tok.op = "elsif" /\ Inside("if") /\ ~Top.hasElse /\ Reads(tok)
  /\ state' = After(Top.entry, tok.arg)
  /\ LET fs == IF Top.entry # Unreachable /\ Rewrites(tok.arg) THEN Touched(frames) ELSE frames
     IN frames' = [fs EXCEPT ![Len(fs)].branches = @ \cup {state}, ![Len(fs)].entry = state']

Else(tok) ==
  /\ tok.op = "else" /\ Inside("if") /\ ~Top.hasElse /\ Reads(tok)
  /\ frames' = [frames EXCEPT ![Len(frames)].branches = @ \cup {state}, ![Len(frames)].hasElse = TRUE]
  /\ state' = Top.entry

EndIf(tok) ==
  /\ tok.op = "endif" /\ Inside("if") /\ Reads(tok)
  /\ state' = JoinReaching(Top.branches \cup {state} \cup (IF Top.hasElse THEN {} ELSE {Top.entry}))
  /\ frames' = Front(frames)

(* Inside a loop the value of the iteration before is not known. *)
Loop(tok) ==
  /\ tok.op = "loop" /\ Reads(tok)
  /\ frames' = Append(TouchedBy(frames, tok), Block("loop", After(state, tok.arg)))
  /\ state' = (IF state = Unreachable THEN Unreachable ELSE Unknown)

EndDo(tok) ==
  /\ tok.op = "enddo" /\ Inside("loop") /\ Reads(tok)
  /\ state' = (IF Top.touched THEN Unknown ELSE Top.entry)
  /\ frames' = Front(frames)

Try(tok) ==
  /\ tok.op = "try" /\ Reads(tok)
  /\ frames' = Append(frames, Block("try", state))
  /\ UNCHANGED state

(* What reaches the handler: the entry, if the block left the variable alone. *)
Except(tok) ==
  /\ tok.op = "except" /\ Inside("try") /\ ~Top.inExcept /\ Reads(tok)
  /\ frames' = [frames EXCEPT ![Len(frames)].tryEnd = state, ![Len(frames)].inExcept = TRUE]
  /\ state' = (IF Top.touched THEN Unknown ELSE Top.entry)

EndTry(tok) ==
  /\ tok.op = "endtry" /\ Inside("try") /\ Top.inExcept /\ Reads(tok)
  /\ state' = JoinReaching({Top.tryEnd, state})
  /\ frames' = Front(frames)

(* Return and Raise evaluate their expression first. *)
Jump(tok) ==
  /\ tok.op \in {"return", "raise", "break", "continue"} /\ Reads(tok)
  /\ tok.op \in {"break", "continue"} => InLoop
  /\ frames' = TouchedBy(frames, tok)
  /\ state' = Unreachable

Next ==
  \E tok \in Tokens :
    \/ Statement(tok) \/ If(tok) \/ ElsIf(tok) \/ Else(tok) \/ EndIf(tok)
    \/ Loop(tok) \/ EndDo(tok) \/ Try(tok) \/ Except(tok) \/ EndTry(tok) \/ Jump(tok)

Spec == Init /\ [][Next]_literalVars

(* The literals a launch behind the body is given, Unknown for None: the launch
   may stand in a statement, a header or the expression of a jump, behind the
   calls of arg. *)
Verdict(s, arg) == IF s = Unreachable THEN Unknown ELSE After(s, arg)

-----------------------------------------------------------------------------
(* What the procedure can do: a step relation on [at, value, tested], at tokens
   being behind; tested tells that a condition failed or an error was raised,
   and the next part of the block is looked at. *)

Openers == {"if", "loop", "try"}
Closers == {"endif", "enddo", "endtry"}

(* The openers of the blocks around position i, outermost first. *)
Around ==
  LET open[i \in 0..Len(body)] ==
        IF i = 0 THEN <<>>
        ELSE IF body[i].op \in Openers THEN Append(open[i - 1], i)
        ELSE IF body[i].op \in Closers THEN Front(open[i - 1])
        ELSE open[i - 1]
  IN open

(* The next token that continues or ends the block opened at o; Len + 1 for none. *)
Part(around, o, after) ==
  LET parts == {i \in (after + 1)..Len(body) :
        /\ body[i].op \in Closers \cup {"elsif", "else", "except"}
        /\ around[i - 1] # <<>> /\ Last(around[i - 1]) = o}
  IN IF parts = {} THEN Len(body) + 1 ELSE CHOOSE i \in parts : \A j \in parts : i <= j

Close(around, o) ==
  LET ends == {i \in (o + 1)..Len(body) : body[i].op \in Closers /\ Last(around[i - 1]) = o}
  IN IF ends = {} THEN Len(body) + 1 ELSE CHOOSE i \in ends : TRUE

Effect(tok, v) == IF tok.op = "set" THEN tok.arg ELSE IF Rewrites(tok.arg) \/ tok.arg = "var" THEN "?" ELSE v

At(i, v, tested) == [at |-> i, value |-> v, tested |-> tested]

(* An error goes to the innermost try whose body the token is in. *)
Raised(around, k, vs) ==
  LET guards == {j \in 1..Len(around[k - 1]) :
        body[around[k - 1][j]].op = "try" /\ k < Part(around, around[k - 1][j], around[k - 1][j])}
      inner == around[k - 1][CHOOSE j \in guards : \A i \in guards : i <= j]
  IN IF guards = {} THEN {} ELSE {At(Part(around, inner, inner) - 1, v, TRUE) : v \in vs}

InnerLoop(around, k) ==
  LET s == around[k - 1]
  IN s[CHOOSE j \in 1..Len(s) : body[s[j]].op = "loop" /\ \A i \in (j + 1)..Len(s) : body[s[i]].op # "loop"]

Successors(around, c) ==
  LET k == c.at + 1
      tok == body[k]
      w == Effect(tok, c.value)
      go == {At(k, w, FALSE)}
      fails == Raised(around, k, {c.value, w})
      outer == IF around[c.at] = <<>> THEN 0 ELSE Last(around[c.at])
      skip == {At(Close(around, outer), c.value, FALSE)}
  IN CASE tok.op \in {"set", "do"} -> go \cup fails
       [] tok.op = "if" -> go \cup {At(Part(around, k, k) - 1, w, TRUE)} \cup fails
       [] tok.op = "elsif" -> IF c.tested THEN go \cup {At(Part(around, outer, k) - 1, w, TRUE)} \cup fails ELSE skip
       [] tok.op \in {"else", "except"} -> IF c.tested THEN {At(k, c.value, FALSE)} ELSE skip
       [] tok.op = "loop" -> go \cup {At(Close(around, k), w, FALSE)} \cup fails
       [] tok.op = "enddo" -> {At(outer - 1, c.value, FALSE)}
       [] tok.op = "return" -> Raised(around, k, {w})
       [] tok.op = "raise" -> Raised(around, k, {w})
       [] tok.op = "break" -> {At(Close(around, InnerLoop(around, k)), c.value, FALSE)}
       [] tok.op = "continue" -> {At(InnerLoop(around, k) - 1, c.value, FALSE)}
       [] OTHER -> {At(k, c.value, FALSE)}

(* Executions begin with any value, and a loop that is still open comes back
   with any. *)
Starts(around) == {At(0, "?", FALSE)} \cup {At(around[Len(body)][j] - 1, "?", FALSE) :
                      j \in {i \in 1..Len(around[Len(body)]) : body[around[Len(body)][i]].op = "loop"}}

Executions ==
  LET around == Around
      grow(S) == S \cup UNION {{d \in Successors(around, c) : d.at <= Len(body)} :
                                 c \in {e \in S : e.at < Len(body)}}
      reach[n \in Nat] == LET before == IF n = 0 THEN Starts(around) ELSE reach[n - 1]
                          IN grow(before)
  IN reach[3 * Len(body)]

Arriving == {c.value : c \in {e \in Executions : e.at = Len(body) /\ ~e.tested}}

-----------------------------------------------------------------------------
(* Properties *)

(* A launch is given an edge to every procedure it can start: when the analysis
   names literals, no execution arrives at the launch with another value. *)
NoOtherValueArrives ==
  LET arriving == Arriving
  IN \A arg \in {"plain", "call", "pass"} :
       Verdict(state, arg) # Unknown =>
         {Effect([op |-> "do", arg |-> arg], v) : v \in arriving} \subseteq Verdict(state, arg)

(* Without loops and handlers it gives up no edge either: it names exactly the
   literals that arrive, unless another value may arrive or none does. *)
BranchesAreExact ==
  (\A i \in 1..Len(body) : body[i].op \notin {"loop", "try"}) =>
    LET arriving == Arriving
    IN Verdict(state, "plain") = (IF arriving = {} \/ "?" \in arriving THEN Unknown ELSE arriving)

=============================================================================
