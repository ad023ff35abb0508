------------------------------- MODULE TreeScan -------------------------------
(***************************************************************************)
(* scan_bsl_tree (helpers.py): the directories of a source tree are listed *)
(* by the caller and by as many threads as the scan budget grants; they    *)
(* share a stack, and a counter of directories that are not done tells     *)
(* them when to stop.  A directory may be unreadable, listing it may raise *)
(* something unexpected, and the caller may be hit by the timeout of an    *)
(* inline sandbox anywhere.  The tree itself does not change.              *)
(***************************************************************************)
EXTENDS Integers, Sequences, FiniteSets, SequencesExt

CONSTANTS
  Dirs, Root,   (* directories; each holds one module                       *)
  Links,        (* the directories an entry of a directory leads to, also   *)
                (* by a second name; links out of the root are skipped      *)
  Extra,        (* threads, the order in which they are started             *)
  Unreadable, Raising \* directories that may fail so

VARIABLES
  faulty,    (* the directory that fails, and how                           *)
  granted,   (* tokens of the budget the walk holds                         *)
  started, startable, \* threads tried, and whether they could start so far
  stack, seen, found, errors, pending, failure,
  at,        (* where the caller and each thread is                         *)
  dir,       (* the directory it works on                                   *)
  cut,       (* where the timeout hit the caller                            *)
  outcome    (* what the caller gets                                        *)
scanVars == <<faulty, granted, started, startable, stack, seen, found, errors, pending, failure, at, dir, cut, outcome>>

Walkers == {"caller"} \cup ToSet(Extra)
Fails(d, how) == faulty = [dir |-> d, how |-> how]

-----------------------------------------------------------------------------
(* The serial walk, which the parallel one has to agree with. *)
Reached ==
  LET step[n \in 0..Cardinality(Dirs)] ==
        IF n = 0 THEN {Root}
        ELSE step[n - 1] \cup UNION {Links[d] \cap Dirs : d \in {e \in step[n - 1] : ~ Fails(e, "unreadable")}}
  IN step[Cardinality(Dirs)]
Readable == {d \in Reached : ~ Fails(d, "unreadable")}

-----------------------------------------------------------------------------
Init ==
  /\ faulty \in [dir : Unreadable, how : {"unreadable"}] \cup [dir : Raising, how : {"raises"}]
                \cup {[dir |-> Root, how |-> "not at all"]}
  /\ granted \in 1..Len(Extra)
  /\ started = 0 /\ startable = TRUE
  /\ stack = <<Root>> /\ seen = {Root} /\ found = <<>> /\ errors = 0 /\ pending = 1 /\ failure = FALSE
  /\ at = [w \in Walkers |-> IF w = "caller" THEN "starts" ELSE "out"]
  /\ dir = [w \in Walkers |-> Root]
  /\ cut = "" /\ outcome = ""

shared == <<stack, seen, found, errors, pending, failure>>
frame == <<faulty, cut, outcome>>

(* The caller starts its threads, as far as the system lets it. *)
StartThread ==
  /\ at["caller"] = "starts" /\ started < granted /\ startable
  /\ started' = started + 1
  /\ \/ at' = [at EXCEPT ![Extra[started + 1]] = "takes"] /\ UNCHANGED startable
     \/ startable' = FALSE /\ UNCHANGED at
  /\ UNCHANGED <<shared, frame, granted, dir>>
AllStarted ==
  /\ at["caller"] = "starts" /\ (started = granted \/ ~ startable)
  /\ at' = [at EXCEPT !["caller"] = "takes"]
  /\ UNCHANGED <<shared, frame, granted, started, startable, dir>>

(* _take; who finds nothing waits and looks again. *)
Over == failure \/ pending <= 0
Take(w) ==
  /\ at[w] = "takes"
  /\ \/ /\ Over
        /\ at' = [at EXCEPT ![w] = IF w = "caller" THEN "joins" ELSE "out"]
        /\ UNCHANGED <<stack, dir>>
     \/ /\ ~ Over /\ stack # <<>>
        /\ stack' = Front(stack) /\ dir' = [dir EXCEPT ![w] = Last(stack)]
        /\ at' = [at EXCEPT ![w] = "lists"]
  /\ UNCHANGED <<seen, found, errors, pending, failure, frame, granted, started, startable>>

(* _process: what it found is published at once, under the lock. *)
PushedAgain(targets) == SetToSeq(targets)
Pushed(targets) == SetToSeq(targets \ seen)
List(w) ==
  /\ at[w] = "lists"
  /\ LET d == dir[w]
         new == Pushed(Links[d] \cap Dirs)
     IN \/ /\ Fails(d, "unreadable")
           /\ errors' = errors + 1 /\ UNCHANGED <<stack, seen, found, pending, failure>>
        \/ /\ Fails(d, "raises")
           /\ failure' = TRUE /\ UNCHANGED <<stack, seen, found, errors, pending>>
        \/ /\ ~ Fails(d, "unreadable") /\ ~ Fails(d, "raises")
           /\ found' = Append(found, d)
           /\ stack' = stack \o new /\ seen' = seen \cup ToSet(new) /\ pending' = pending + Len(new)
           /\ UNCHANGED <<errors, failure>>
  /\ at' = [at EXCEPT ![w] = "ends"]
  /\ UNCHANGED <<frame, granted, started, startable, dir>>
(* The finally of _drain; who failed does not go on. *)
Done(w) ==
  /\ at[w] = "ends"
  /\ pending' = pending - 1
  /\ at' = [at EXCEPT ![w] = IF Fails(dir[w], "raises") \/ (w = "caller" /\ cut # "") THEN
                                (IF w = "caller" THEN "joins" ELSE "out")
                             ELSE "takes"]
  /\ UNCHANGED <<stack, seen, found, errors, failure, frame, granted, started, startable, dir>>

(* The caller has waited for its threads; the budget gets back what it gave. *)
Join ==
  /\ at["caller"] = "joins" /\ \A i \in DOMAIN Extra : at[Extra[i]] = "out"
  /\ outcome' = IF failure THEN "raised" ELSE "result"
  /\ at' = [at EXCEPT !["caller"] = "out"] /\ granted' = 0
  /\ UNCHANGED <<shared, faulty, cut, started, startable, dir>>

(* The timeout: inside _process it is a failure of the walk like any other; *)
(* elsewhere it leaves the walk, and the threads, behind - before _process  *)
(* begins or in the finally with a directory that nobody will ever count    *)
(* as done.                                                                 *)
TimeoutInside ==
  /\ cut = "" /\ at["caller"] = "lists"
  /\ cut' = "inside" /\ failure' = TRUE /\ at' = [at EXCEPT !["caller"] = "ends"]
  /\ UNCHANGED <<stack, seen, found, errors, pending, faulty, granted, started, startable, dir, outcome>>
TimeoutOutside ==
  /\ cut = "" /\ at["caller"] # "out"
  /\ cut' = at["caller"] /\ outcome' = "raised" /\ granted' = 0 /\ at' = [at EXCEPT !["caller"] = "out"]
  /\ UNCHANGED <<shared, faulty, started, startable, dir>>

Walk(w) == Take(w) \/ List(w) \/ Done(w)
Caller == StartThread \/ AllStarted \/ Join
Next == Caller \/ (\E w \in Walkers : Walk(w)) \/ TimeoutInside \/ TimeoutOutside

-----------------------------------------------------------------------------
(* A walk that returns has every module of the serial walk once, and as    *)
(* many errors; one that met an unexpected error raises it, whichever      *)
(* thread met it.  No part of a result is ever published.                  *)
ScanIsSerial ==
  outcome = "result" =>
    /\ ToSet(found) = Readable /\ IsInjective(found)
    /\ errors = Cardinality(Reached \ Readable)
    /\ ~ \E d \in Reached : Fails(d, "raises")

(* No more threads walk than the budget knows of, unless a timeout took the *)
(* caller away from them; and an empty stack does not end the walk: whoever *)
(* left did so when all was done or when the walk had failed.               *)
WalkersCovered ==
  /\ cut = "" => Cardinality({i \in DOMAIN Extra : at[Extra[i]] # "out"}) <= granted
  /\ ~ failure /\ cut = "" =>
       pending = Len(stack) + Cardinality({w \in Walkers : at[w] \in {"lists", "ends"}})

(* The threads end, also those a timeout left behind - unless it made the   *)
(* caller forget a directory.                                               *)
Walking == cut \notin {"lists", "ends"} /\ \E w \in Walkers : at[w] # "out"
WalkersEnd == Walking ~> ~ Walking
=============================================================================
