----------------------------- MODULE MCServices -----------------------------
(* Small instances of the parts of Services. *)
EXTENDS Services, TLC

(* Two inline walks and one of a sandbox worker, with late stores; one     *)
(* inline walk and two workers, with stores seen in order.                 *)
MCLedgers ==
  [late |-> [walks |-> {"i1", "i2", "p1"}, inline |-> {"i1", "i2"}, slots |-> {1},
             want |-> ("i1" :> 1 @@ "i2" :> 2 @@ "p1" :> 2), total |-> 3],
   ordered |-> [walks |-> {"i1", "p1", "p2"}, inline |-> {"i1"}, slots |-> {1, 2},
                want |-> ("i1" :> 1 @@ "p1" :> 2 @@ "p2" :> 1), total |-> 3]]
(* Builds, info and a command line on one path, in one file; builds, drops *)
(* and info on one path, where a builder may keep the file that drop       *)
(* unlinked while another is made; builds and info while the project moves *)
(* between two paths.                                                      *)
MCJobsOf ==
  [jobs |-> [paths |-> {"p"}, lines |-> {"cli"}, clients |-> {"c"},
             asks |-> {"register", "info"}, files |-> 1],
   asked |-> [paths |-> {"p"}, lines |-> {}, clients |-> {"c"},
              asks |-> {"register", "check drop", "info"}, files |-> 2],
   moved |-> [paths |-> {"p", "q"}, lines |-> {}, clients |-> {"c"},
              asks |-> {"register", "info"}, files |-> 1]]
MCRequested == [build |-> 3, update |-> 2]
MCBackoff == <<60, 120>>
MCBatch == [single |-> 1, batch |-> 3]
(* Three walkers in four directories that lead to each other.              *)
MCExtra == <<"x", "y">>
MCLinks == "r" :> {"a", "b"} @@ "a" :> {"c"} @@ "b" :> {"c", "out"} @@ "c" :> {"a"}
=============================================================================
