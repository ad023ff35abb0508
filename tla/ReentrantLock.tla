---------------------------- MODULE ReentrantLock ----------------------------
(***************************************************************************)
(* What _BuildLock of bsl_index.py promises its callers: one thread at a   *)
(* time builds or updates an index, the same thread may enter again, and a *)
(* process that dies gives the lock up.                                    *)
(***************************************************************************)
EXTENDS Naturals

CONSTANTS
  Threads,     (* threads that build or update                             *)
  MaxDepth     (* bound on nested acquisitions                             *)

VARIABLE depth   (* acquisitions a thread has not released                 *)

Init == depth = [t \in Threads |-> 0]

Acquire(t) ==
  /\ \A u \in Threads : depth[u] = 0
  /\ depth' = [depth EXCEPT ![t] = 1]

Reenter(t) ==
  /\ depth[t] \in 1..MaxDepth - 1
  /\ depth' = [depth EXCEPT ![t] = @ + 1]

Release(t) ==
  /\ depth[t] > 0
  /\ depth' = [depth EXCEPT ![t] = @ - 1]

(* The process of the threads dies. *)
Die == depth' = [t \in Threads |-> 0]

Next == Die \/ \E t \in Threads : Acquire(t) \/ Reenter(t) \/ Release(t)

Spec == Init /\ [][Next]_depth

=============================================================================
