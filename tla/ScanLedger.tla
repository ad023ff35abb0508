----------------------------- MODULE ScanLedger -----------------------------
(***************************************************************************)
(* The scan budget of _scan_budget.py: an array of integers shared by all  *)
(* processes, one slot per sandbox worker and slot 0 for the inline        *)
(* sessions of the server.  A walk takes extra threads one token at a      *)
(* time: it publishes the token in its slot, sums the array, and keeps the *)
(* token or takes it back.  No lock is shared between processes, on        *)
(* purpose: a killed holder would block them all.  A walk here is a thread *)
(* calling acquire and release; the walks of one slot share a lease lock.  *)
(***************************************************************************)
EXTENDS Integers, FiniteSets, FiniteSetsExt

CONSTANTS Buffered,     \* whether a store may be seen late by other processes
          Walks,        \* the threads that walk the tree
          InlineWalks,  \* those of the server: one lease, slot 0
          PoolSlots,    \* the slots handed to sandbox workers
          Want,         \* extra threads a walk asks for
          Total         \* RLM_SCAN_WORKERS_TOTAL

VARIABLES ledger,    \* the array, as every process sees it
          delayed,   \* a store of a walk that others do not see yet, or None
          pool,      \* the free slots
          slotOf,    \* the slot of each walk's session, or None
          walk       \* what each walk is doing
ledgerVars == <<ledger, delayed, pool, slotOf, walk>>

None == -1
Slots == PoolSlots \union {0}
Idle == [at |-> "idle", held |-> 0, granted |-> 0, next |-> 0, sum |-> 0, shifted |-> FALSE]

(* Memory: a store may wait in the buffer of its processor, where only its *)
(* own process sees it; the release of the lease lock flushes it.          *)
Seen(w, s) == IF s = slotOf[w] /\ delayed[w] # None THEN delayed[w] ELSE ledger[s]
Store(w, n) ==
    \/ /\ ledger' = [ledger EXCEPT ![slotOf[w]] = n]
       /\ delayed' = [delayed EXCEPT ![w] = None]
    \/ /\ Buffered
       /\ delayed' = [delayed EXCEPT ![w] = n]
       /\ UNCHANGED ledger
StoreFlushed(w, n) ==
    /\ ledger' = [ledger EXCEPT ![slotOf[w]] = n]
    /\ delayed' = [delayed EXCEPT ![w] = None]

Init ==
    /\ ledger = [s \in Slots |-> 0]
    /\ delayed = [w \in Walks |-> None]
    /\ pool = PoolSlots
    /\ slotOf = [w \in Walks |-> IF w \in InlineWalks THEN 0 ELSE None]
    /\ walk = [w \in Walks |-> [Idle EXCEPT !.at = IF w \in InlineWalks THEN "idle" ELSE "closed"]]

(* A sandbox backend takes a slot; with none left its walks stay serial.   *)
(* A walk that is adding up the slots may have seen this one's tokens in   *)
(* the slot it had before, and see them again; only GrantBounds asks what  *)
(* is shifted, no step does.                                               *)
Allocate(w) ==
    /\ walk[w].at = "closed"
    /\ \/ /\ pool = {}
          /\ walk' = [walk EXCEPT ![w] = Idle]
          /\ UNCHANGED <<ledger, pool, slotOf>>
       \/ \E s \in pool :
            /\ pool' = pool \ {s}
            /\ slotOf' = [slotOf EXCEPT ![w] = s]
            /\ ledger' = [ledger EXCEPT ![s] = 0]
            /\ walk' = [v \in Walks |-> IF v = w THEN Idle
                                       ELSE [walk[v] EXCEPT !.shifted = @ \/ (walk[v].at = "read" /\ walk[v].next <= s)]]
    /\ UNCHANGED delayed

Acquiring == {"publish", "read", "decide"}
LeaseIgnored(w) == TRUE
LeaseFree(w) == \A v \in Walks \ {w} : slotOf[v] = slotOf[w] => walk[v].at \notin Acquiring

(* acquire: without a slot nothing is granted; else the lease lock is      *)
(* taken and what the slot holds is remembered.                            *)
Acquire(w) ==
    /\ walk[w].at = "idle"
    /\ IF slotOf[w] = None
       THEN walk' = [walk EXCEPT ![w].at = "walking"]
       ELSE /\ LeaseFree(w)
            /\ walk' = [walk EXCEPT ![w] = [Idle EXCEPT !.at = "publish", !.held = ledger[slotOf[w]]]]
    /\ UNCHANGED <<ledger, delayed, pool, slotOf>>

Publish(w) ==
    /\ walk[w].at = "publish"
    /\ Store(w, walk[w].held + walk[w].granted + 1)
    /\ walk' = [walk EXCEPT ![w].at = "read", ![w].next = 0, ![w].sum = 0, ![w].shifted = FALSE]
    /\ UNCHANGED <<pool, slotOf>>

(* sum(self._array) reads one slot after the other. *)
ReadSlot(w) ==
    /\ walk[w].at = "read"
    /\ walk' = [walk EXCEPT ![w].sum = @ + Seen(w, walk[w].next),
                            ![w].next = @ + 1,
                            ![w].at = IF walk[w].next = Max(Slots) THEN "decide" ELSE "read"]
    /\ UNCHANGED <<ledger, delayed, pool, slotOf>>

OverTotalByOne(w) == walk[w].sum > Total + 1
OverTotal(w) == walk[w].sum > Total

(* Over the total: the last token is taken back and the walk begins with   *)
(* what it has.  Leaving the loop releases the lease lock.                 *)
TakeBack(w) ==
    /\ walk[w].at = "decide" /\ OverTotal(w)
    /\ StoreFlushed(w, walk[w].held + walk[w].granted)
    /\ walk' = [walk EXCEPT ![w].at = "walking"]
    /\ UNCHANGED <<pool, slotOf>>

Keep(w) ==
    /\ walk[w].at = "decide" /\ ~OverTotal(w)
    /\ LET more == walk[w].granted + 1 < Want[w] IN
         /\ walk' = [walk EXCEPT ![w].granted = @ + 1, ![w].shifted = FALSE, ![w].at = IF more THEN "publish" ELSE "walking"]
         /\ IF more THEN UNCHANGED <<ledger, delayed>>
                    ELSE StoreFlushed(w, Seen(w, slotOf[w]))
    /\ UNCHANGED <<pool, slotOf>>

(* The store buffer drains at any moment. *)
Drain(w) ==
    /\ delayed[w] # None
    /\ StoreFlushed(w, delayed[w])
    /\ UNCHANGED <<pool, slotOf, walk>>

GivenBackAll(w) == 0
GivenBack(w) == Max({0, ledger[slotOf[w]] - walk[w].granted})

Release(w) ==
    /\ walk[w].at = "walking"
    /\ IF slotOf[w] = None \/ walk[w].granted = 0
       THEN UNCHANGED <<ledger, delayed>>
       ELSE LeaseFree(w) /\ StoreFlushed(w, GivenBack(w))
    /\ walk' = [walk EXCEPT ![w] = Idle]
    /\ UNCHANGED <<pool, slotOf>>

(* The kill of a worker hits any instruction; what it stored is seen.      *)
Kill(w) ==
    /\ w \notin InlineWalks /\ walk[w].at \notin {"closed", "dead"}
    /\ walk' = [walk EXCEPT ![w].at = "dead", ![w].shifted = FALSE]
    /\ IF delayed[w] = None THEN UNCHANGED <<ledger, delayed>> ELSE StoreFlushed(w, delayed[w])
    /\ UNCHANGED <<pool, slotOf>>

(* The parent confirmed the death: reclaim before the next generation, or  *)
(* release_slot when the backend is finalised.                             *)
Zeroed(w) == IF slotOf[w] = None THEN ledger ELSE [ledger EXCEPT ![slotOf[w]] = 0]

Reclaim(w) ==
    /\ walk[w].at = "dead"
    /\ ledger' = Zeroed(w)
    /\ walk' = [walk EXCEPT ![w] = Idle]
    /\ UNCHANGED <<delayed, pool, slotOf>>

ReleaseSlot(w) ==
    /\ walk[w].at = "dead"
    /\ ledger' = Zeroed(w)
    /\ pool' = pool \union ({slotOf[w]} \ {None})
    /\ slotOf' = [slotOf EXCEPT ![w] = None]
    /\ walk' = [walk EXCEPT ![w] = [Idle EXCEPT !.at = "closed"]]
    /\ UNCHANGED delayed

WalkStep(w) ==
    \/ Allocate(w) \/ Acquire(w) \/ Publish(w) \/ ReadSlot(w) \/ TakeBack(w) \/ Keep(w)
    \/ Drain(w) \/ Release(w) \/ Kill(w) \/ Reclaim(w) \/ ReleaseSlot(w)
Next == \E w \in Walks : WalkStep(w)
Spec == Init /\ [][Next]_ledgerVars

-----------------------------------------------------------------------------
LedgerTypeOK ==
    /\ ledger \in [Slots -> Nat]
    /\ delayed \in [Walks -> Nat \union {None}]
    /\ pool \subseteq PoolSlots
    /\ slotOf \in [Walks -> Slots \union {None}]
    /\ walk \in [Walks -> [at : Acquiring \union {"closed", "idle", "walking", "dead"},
                           held : Nat, granted : Nat, next : Nat, sum : Nat, shifted : BOOLEAN]]

(* What a live walk has in its slot: its tokens, and the one it published  *)
(* and has not decided on.                                                 *)
InSlot(w) ==
    walk[w].granted + IF walk[w].at \in {"read", "decide"} THEN 1 ELSE 0
WalksOf(s) == {w \in Walks : slotOf[w] = s}
Running(w) == walk[w].at \in Acquiring \union {"walking"}

(* Whatever threads of one lease do, and whenever a worker dies, no token  *)
(* is lost or kept for ever: a slot whose writer lives shows exactly what  *)
(* its walks have, and a free slot or an idle session shows nothing.       *)
LedgerExact ==
    /\ \A s \in Slots :
         (\A w \in WalksOf(s) : walk[w].at # "dead" /\ delayed[w] = None)
            => ledger[s] = MapThenSumSet(LAMBDA w : IF Running(w) THEN InSlot(w) ELSE 0, WalksOf(s))
    /\ \A v, w \in Walks \ InlineWalks : v # w /\ slotOf[v] # None => slotOf[v] # slotOf[w]

(* The docstring of the module, for k walks at once: the walks have        *)
(* together at most k * min(want, Total) tokens over the budget and, when  *)
(* all of them run, at most min(Total, k - 1) too few, unless slots passed *)
(* to other sessions while one added up.  Where stores are seen in order,  *)
(* as the walks here take tokens one by one and look after publishing, the *)
(* budget is never exceeded at all.                                        *)
Granted == MapThenSumSet(LAMBDA w : IF Running(w) THEN walk[w].granted ELSE 0, Walks)
MaxWant == Max({Want[w] : w \in Walks})
GrantBounds ==
    /\ Granted <= Total + Cardinality({w \in Walks : Running(w)}) * Min({MaxWant, Total})
    /\ ~Buffered => Granted <= Total
    /\ (\A w \in Walks : walk[w].at = "walking" /\ slotOf[w] # None /\ ~ walk[w].shifted)
          => Granted >= Min({Total, MapThenSumSet(LAMBDA w : Want[w], Walks)})
                        - Min({Total, Cardinality(Walks) - 1})
=============================================================================
