------------------------------- MODULE MCIndex -------------------------------
(* Small instances of the parts of Index. *)
EXTENDS Index, TLC

(* A server with two threads and a command line, or a thread of each.      *)
CONSTANTS server1, server2, cli1, server, cli

MCProcOf == [t \in {server1, server2, cli1} |-> IF t = cli1 THEN cli ELSE server]
MCProcOf2 == [t \in {server1, cli1} |-> IF t = cli1 THEN cli ELSE server]

-----------------------------------------------------------------------------
(* The call rows: two common modules of one name and a user of theirs; a   *)
(* common module, two manager modules of one object and their user.        *)

gone == [methods |-> {}, calls |-> {}, moves |-> {"gone"}]
Proc(n, e, l) == [name |-> n, export |-> e, line |-> l]
Row(l, h, n, v, k) == [line |-> l, head |-> h, name |-> n, via |-> v, kind |-> k]
File(ms, cs, vs) == [methods |-> ms, calls |-> cs, moves |-> vs]
userCalls ==
  {Row(1, "A", "m", FALSE, "call"), Row(2, "X", "m", TRUE, "call"), Row(3, "none", "q", FALSE, "call"),
   Row(4, "A", "m", FALSE, "background"), Row(5, "A", "m", FALSE, "member"), Row(6, "none", "none", FALSE, "dynamic")}
versions ==
  "c1" :> {gone, File({Proc("m", TRUE, 1)}, {}, {}), File({Proc("m", FALSE, 1)}, {}, {})}
  @@ "c2" :> {gone, File({Proc("m", TRUE, 1), Proc("m", TRUE, 2)}, {Row(1, "none", "m", FALSE, "call")}, {}),
              File({Proc("m", TRUE, 1)}, {}, {})}
  @@ "x1" :> {gone, File({Proc("m", TRUE, 1)}, {}, {"r"})}
  @@ "x2" :> {gone, File({}, {Row(1, "A", "m", FALSE, "background")}, {"r"})}
  @@ "user" :> {File({Proc("q", FALSE, 1)}, userCalls, {"r"}), File({}, {}, {})}
Only(paths) == [p \in DOMAIN versions |-> IF p \in paths THEN versions[p] ELSE {gone}]

MCSources ==
  [paths |-> DOMAIN versions, common |-> {"c1", "c2"}, managers |-> {"x1", "x2"},
   objectOf |-> ("c1" :> "A" @@ "c2" :> "A" @@ "x1" :> "X" @@ "x2" :> "X" @@ "user" :> "U"),
   descriptors |-> {"user"}, absent |-> gone,
   contentsOf |-> [namesakes |-> Only({"c1", "c2", "user"}), twins |-> Only({"c1", "x1", "x2", "user"})],
   edits |-> [namesakes |-> 2, twins |-> 1]]

-----------------------------------------------------------------------------
(* The descriptors: a catalogue with all its files and a subscription; an  *)
(* enumeration and a role, of which the rights may be in either layout.    *)

Of(k, c, o, t) == [kind |-> k, cat |-> c, obj |-> o, trigger |-> t]
MCDescribed ==
  [files |-> 1..11,
   about |-> <<Of("desc", "Catalogs", "A", "xml"), Of("extra", "Catalogs", "A", "command"),
               Of("template", "Catalogs", "A", "xml"), Of("form", "Catalogs", "A", "form"),
               Of("form", "Catalogs", "A", "xml"), Of("desc", "Subscriptions", "s", "xml"),
               Of("desc", "Enums", "A", "xml"), Of("form", "Enums", "A", "xml"), Of("role", "Roles", "R", "xml"),
               Of("rights", "Roles", "R", "xml"), Of("rights", "Roles", "R", "rights")>>,
   contentsOf |-> [objects |-> <<{-1, 0, 1}, {0, 1}, {0, 1}, {-1, 0, 1}, {0, 1}, {0, 1, 2}>>,
                   rights |-> (7 :> {-1, 0, 1} @@ 8 :> {0, 1} @@ 9 :> {0, 1, 2} @@ 10 :> {0, 1, 2} @@ 11 :> {0, 1})],
   nameIn |-> (6 :> <<"s", "s2">>), groupA |-> {"Catalogs"}, groupB |-> {"Subscriptions"},
   edits |-> [objects |-> 2, rights |-> 2]]

-----------------------------------------------------------------------------
(* The walks: two procedures m, one of them private, both may call t;      *)
(* procedures e and g of an extension.                                     *)

On(f, n, e, c) == [file |-> f, name |-> n, export |-> e, common |-> c]
pf == On("a", "f", TRUE, FALSE)
m1 == On("a", "m", TRUE, FALSE)
m2 == On("b", "m", FALSE, FALSE)
pu == On("b", "u", TRUE, FALSE)
pt == On("c", "t", TRUE, TRUE)
pe == On("x", "e", TRUE, FALSE)
pg == On("x", "g", FALSE, FALSE)
nobody == On("", "", FALSE, FALSE)
Calls(p, k, l, kd) == [from |-> p, line |-> l, key |-> k, name |-> k.name, kind |-> kd]
Names(p, n, l) == [from |-> p, line |-> l, key |-> nobody, name |-> n, kind |-> "call"]
Question(k, fr, fh, tt, th, d) == [kind |-> k, from |-> fr, fromHint |-> fh, to |-> tt, toHint |-> th, depth |-> d]

(* Without an index, no lookup fails and a page holds all callers. *)
MCWalked ==
  [walk |-> [main |-> {pf, m1, m2, pu, pt}, ext |-> {pe, pg},
     certain |-> {Calls(pf, m1, 1, "call"), Calls(m2, pt, 3, "call")},
     mainCalls |-> {Names(pf, "m", 2), Calls(m1, pt, 5, "call"), Calls(pu, m2, 4, "call"),
                    Calls(pf, pt, 8, "background")},
     extCalls |-> {Calls(pe, pt, 11, "call"), Calls(pe, m1, 12, "call"), Names(pg, "m", 14)},
     questions |-> {Question("path", "f", "", "t", "", 2), Question("path", "e", "x", "t", "c", 2),
                    Question("path", "m", "b", "m", "a", 3), Question("path", "g", "", "m", "a", 2),
                    Question("tree", "", "", "t", "", 3), Question("tree", "", "", "m", "", 2),
                    Question("tree", "", "", "e", "x", 2)},
     page |-> 2, visited |-> 4, faults |-> 1],
   files |-> [main |-> {pf, m1, m2, pt}, ext |-> {},
     certain |-> {Calls(pf, m1, 1, "call")},
     mainCalls |-> {Calls(m2, pt, 3, "call"), Calls(m1, pt, 5, "call")}, extCalls |-> {},
     questions |-> {Question("path", "f", "", "t", "", 2), Question("path", "f", "a", "m", "", 2)},
     page |-> 3, visited |-> 4, faults |-> 0]]

-----------------------------------------------------------------------------
(* Calls of what does not exist: a configuration with two extensions.       *)
Call(l, k, f, h, p, y) == [layer |-> l, kind |-> k, file |-> f, head |-> h, platform |-> p, keyed |-> y]
World(s, m, e, x) == [subject |-> s, main |-> m, has |-> ("e" :> e @@ "x" :> x)]
Asked(l, f, u) == [layer |-> l, file |-> f, unknown |-> u]
MCAudited ==
  [exts |-> {"e", "x"}, updates |-> {"open", "none"}, mayFail |-> {"f", "x"},
   faults |-> {"walk", "metadata", "no_reader", "v16", "no_calls", "no_paths", "incomplete", "budget"},
   maxUpdates |-> 1, maxFaults |-> 1, maxAsked |-> 2,
   calls |-> {Call("main", "direct", "f", "free", FALSE, TRUE), Call("main", "direct", "g", "shadowed", FALSE, FALSE),
            Call("main", "direct", "g", "free", TRUE, FALSE), Call("main", "launch", "g", "free", FALSE, FALSE),
            Call("main", "dynamic", "f", "free", FALSE, FALSE), Call("main", "member", "f", "free", FALSE, FALSE),
            Call("e", "direct", "x", "free", FALSE, FALSE), Call("e", "direct", "x", "unproven", FALSE, FALSE),
            Call("x", "launch", "late", "free", FALSE, FALSE), Call("x", "launch", "late", "shadowed", FALSE, FALSE)},
   worlds |-> {World("module", m, e, "none") : m \in {"none", "open", "private", "twice", "closed"}, e \in {"none"}}
            \cup {World("module", "open", "bare", "none"), World("module", "none", "none", "open"), World("module", "bare", "open", "open")}
            \cup {World("manager", m, e, "none") : m \in {"none", "object", "open", "closed"}, e \in {"none"}}
            \cup {World("manager", "none", "object", "none"), World("manager", "private", "none", "open"), World("manager", "object", "bare", "open"),
                  World("manager", "object", "bare", "closed"), World("manager", "twice", "object", "none")},
   questions |-> {Asked("all", "", FALSE), Asked("x", "", FALSE),
                Asked("all", "g", FALSE), Asked("all", "", TRUE)}]
=============================================================================
