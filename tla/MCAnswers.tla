------------------------------ MODULE MCAnswers ------------------------------
(* Small instances of the parts of Answers. *)
EXTENDS Answers, TLC

(* Two modules and a descriptor. *)
CONSTANTS module1, module2, descriptor

Perms == Permutations({module1, module2})

-----------------------------------------------------------------------------
(* Where a procedure is declared: two modules of the configuration, two of  *)
(* an extension.                                                           *)
Hint(h, o, l) == [hint |-> h, of |-> o, limit |-> l]
MCLookups ==
  [mods |-> 1..4,
   rootOf |-> <<"main", "main", "R", "R">>,
   objectOf |-> <<"A", "B", "A", "C">>,
   roots |-> {"R"}, counts |-> <<{0, 1, 2}, {0, 1}, {0, 2}, {1}>>,
   lookalikes |-> {2}, skipped |-> {2}, budget |-> 3, maxAsked |-> 2,
   questions |-> {Hint("", 0, n) : n \in 0..3} \cup {Hint("object", "A", n) : n \in 1..2} \cup {Hint("path", m, 2) : m \in {1, 3}}]

-----------------------------------------------------------------------------
(* The literals of launches, on three sets of tokens. *)

Token(o, a) == [op |-> o, arg |-> a]
Plain(ops) == {Token(o, "plain") : o \in ops}
MCPrograms ==
  [branches |-> [local |-> TRUE, size |-> 6,
     tokens |-> {Token("set", "a"), Token("set", "b"), Token("elsif", "pass")} \cup Plain({"if", "else", "endif", "return"})],
   loops |-> [local |-> FALSE, size |-> 5,
     tokens |-> {Token("set", "a"), Token("do", "call"), Token("loop", "var"), Token("return", "call")}
                \cup Plain({"if", "endif", "loop", "enddo", "try", "except", "endtry", "break", "continue", "raise"})],
   handlers |-> [local |-> TRUE, size |-> 6,
     tokens |-> {Token("set", "a"), Token("do", "call"), Token("if", "pass"), Token("raise", "pass")}
                \cup Plain({"else", "endif", "try", "except", "endtry"})]]

-----------------------------------------------------------------------------
(* The searches: five files, two of them of one extension and one of another; *)
(* one path that git_search is asked for, with two files in it.               *)

MCSearched ==
  [files |-> 1..5, rootOf |-> <<"a", "main", "a", "main", "b">>, hitsOf |-> <<1, 2, 1, 0, 2>>,
   roots |-> {"a", "b"}, noCap |-> 10, batch |-> 2, faults |-> 1,
   questions |-> [helper : {"grep"}, cap : {0, 2, 3, 10}, limit : {4, 10}]
                 \cup [helper : {"count"}, cap : {10}, limit : {3, 10}]]
MCInGit ==
  [children |-> {"m", "o"}, typeOf |-> ("m" :> "bsl" @@ "o" :> "xml"), hits |-> 0..3, types |-> {"bsl"},
   pathTypes |-> {"", "bsl", "xml"}, results |-> 1, perFile |-> 2]
-----------------------------------------------------------------------------
(* What a worker of the sandbox hands over: characters of one or two bytes. *)
MCPrinted ==
  [maxChars |-> 3, capacity |-> 6, texts |-> {<<1>>, <<2, 1>>, <<1, 2, 2>>}, logMax |-> 2, cap |-> 6,
   rests |-> {3, 5, 6, 7}, errors |-> {0, 1, 4}, mark |-> 2, maxExecs |-> 2, maxPrints |-> 4, maxWarnings |-> 3]

(* Who refers to an object: small trees of either format, and an index.      *)
At(c, o, p) == [cat |-> c, obj |-> o, place |-> p]
Held(r, e, u, w) == [rows |-> r, extra |-> e, usages |-> u, whole |-> w]
Session(r, i, d, f, o) == [role |-> r, inner |-> i, reader |-> d, fault |-> f, old |-> o]
Refers(k, l, c) == [kinds |-> k, limit |-> l, code |-> c]
MCReferred ==
  [maxBuilds |-> 1, maxFaults |-> 1, layouts |-> {{},
    {At("Catalogs", "A", "flat"), At("Catalogs", "A", "module"), At("Catalogs", "A", "form"), At("Catalogs", "B", "flat")},
    {At("Catalogs", "A", "mdo"), At("Catalogs", "A", "command"), At("ExchangePlans", "P", "mdo")},
    {At("ExchangePlans", "P", "flat"), At("ExchangePlans", "P", "content"), At("DefinedTypes", "D", "flat")},
    {At("ExchangePlans", "P", "mdo"), At("ExchangePlans", "P", "content")},
    {At("Subsystems", "S", "flat"), At("Subsystems", "T", "nested"), At("CommonCommands", "K", "flat")},
    {At("CommonCommands", "K", "flat"), At("CommonCommands", "K", "module")}},
   tables |-> {Held({}, {}, 0, TRUE), Held({1, 2, 5}, {3}, 2, TRUE), Held({1, 5}, {3, 4}, 1, FALSE)},
   kindOf |-> <<"type", "type", "subscription", "rights", "command">>,
   sessions |-> {Session(r, FALSE, "none", "", FALSE) : r \in {"main", "extension"}} \cup {Session("extension", TRUE, "none", "", FALSE)}
    \cup {Session("main", FALSE, "reader", f, FALSE) : f \in {"count", "rows", "expand", "caps"}}
    \cup {Session("main", FALSE, "foreign", "", FALSE), Session("extension", FALSE, "reader", "", TRUE), Session("extension", TRUE, "reader", "", FALSE)},
   questions |-> {Refers({}, n, "") : n \in {0, 2}} \cup {Refers({k}, 9, "") : k \in {"content", "command", "plan"}}
    \cup {Refers({"type", "subscription"}, 2, "new")},
   lists |-> {"", "Catalogs", "ExchangePlans", "Commands", "nested"}]

-----------------------------------------------------------------------------
(* What is listed of a document "Doc", of a catalog of that name that only  *)
(* an extension declares, and of names that contain it.                     *)
Obj(c, n, near, d, l) == [cat |-> c, name |-> n, near |-> near, described |-> d, listed |-> l]
Type(k, n) == [kind |-> k, name |-> n]
Sub(i, t, s, e, c) == [id |-> i, types |-> t, sets |-> s, event |-> e, custom |-> c]
Role(i, g, f, d) == [id |-> i, grants |-> g, flag |-> f, denies |-> d]
Option(i, c) == [id |-> i, content |-> c]
Named(i, n, r) == [id |-> i, name |-> n, refs |-> r]
Doc == <<"Document", "Doc">>
DocFiles == <<"Catalog", "DocFiles">>
Reads(r, m, i, f, l, s) == [role |-> r, main |-> m, index |-> i, fault |-> f, lost |-> l, skipped |-> s]
Wants(h, f, c, n, e, l, o) == [helper |-> h, form |-> f, cat |-> c, name |-> n, filter |-> e, limit |-> l, opt |-> o]
Disk(o, d, p, s, r, f, m, n) ==
  [objects |-> o, defined |-> ("Owner" :> {Doc}), deny |-> d, custom |-> p, subs |-> s, roles |-> r, options |-> f,
   modules |-> m, named |-> n]
Full == Disk({Obj("Document", "Doc", FALSE, TRUE, "cascade"), Obj("Catalog", "DocFiles", FALSE, TRUE, "cascade")}, TRUE, 2,
  <<Sub(11, {DocFiles}, {Type("category", "Document")}, "BeforeWrite", FALSE), Sub(12, {Doc}, {}, "Posting", TRUE),
    Sub(13, {}, {Type("category", "Document"), Type("defined", "Lost")}, "Posting", FALSE),
    Sub(14, {}, {Type("defined", "Owner")}, "OwnEvent", TRUE), Sub(15, {}, {Type("foreign", "x")}, "BeforeWrite", FALSE),
    Sub(16, {}, {}, "BeforeWrite", FALSE)>>,
  <<Role(21, {1, 2, 3}, TRUE, {1, 3}), Role(22, {2, 3, 4}, FALSE, {}), Role(23, {}, TRUE, {2}), Role(24, {}, FALSE, {})>>,
  <<Option(31, {Doc}), Option(32, {DocFiles}), Option(33, {<<"Catalog", "Doc">>})>>, {1, 3},
  <<Named(41, "Doc", {"a", "b"}), Named(42, "DocFiles", {"b", "c"}), Named(43, "Doc", {"b"})>>)
Extended == Disk({Obj("Catalog", "Doc", TRUE, TRUE, "extension"), Obj("Document", "DocFiles", FALSE, TRUE, "cascade"),
                  Obj("Document", "Old", TRUE, FALSE, "cascade")}, FALSE, 3,
  <<Sub(11, {<<"Document", "DocFiles">>}, {Type("category", "Catalog")}, "Posting", FALSE), Sub(12, {}, {Type("category", "Document")}, "Posting", TRUE)>>,
  <<Role(21, {4}, FALSE, {}), Role(22, {}, TRUE, {})>>, <<>>, {2}, <<Named(42, "DocFiles", {"b", "c"})>>)
Bare == Disk({}, FALSE, 0, <<>>, <<>>, <<>>, {}, <<>>)
MCTabled ==
  [worlds |-> {Full, Extended, Bare}, budget |-> 1, objectsOf |-> <<"Doc", "DocFiles", "Doc", "Other">>,
   fragments |-> {<<"Doc", "DocFiles">>, <<"Doc", "Doc.Cmd">>},
   pairs |-> <<[cat |-> "Document", name |-> "Doc", member |-> FALSE], [cat |-> "Document", name |-> "Doc", member |-> FALSE],
             [cat |-> "Document", name |-> "Doc.Cmd", member |-> TRUE], [cat |-> "Catalog", name |-> "DocFiles", member |-> FALSE]>>,
   sessions |-> {Reads(r, m, i, "", {}, {}) : r \in {"main"}, m \in {FALSE}, i \in {"none", "old", "whole"}}
    \cup {Reads("extension", m, i, "", {}, {}) : m \in BOOLEAN, i \in {"none", "whole"}}
    \cup {Reads("main", FALSE, "whole", f, {}, {}) : f \in {"table", "flags", "descriptor"}}
    \cup {Reads("main", FALSE, "none", f, {}, {}) : f \in {"catalogue", "grep"}}
    \cup {Reads("main", FALSE, "none", f, {1, 12, 22, 32, 42}, {}) : f \in {"", "legacy"}}
    \cup {Reads("main", FALSE, "whole", "", {}, {12, 21, 31, 43})},
   questions |-> {Wants(h, "typed", c, "Doc", "", 2, o) : h \in {"subscriptions", "roles"}, c \in {"Document", "Catalog"}, o \in {"", "profile"}}
    \cup {Wants(h, f, "", "Doc", "", n, "") : h \in {"subscriptions", "roles", "options"}, f \in {"bare", "member"}, n \in {1, 9}}
    \cup {Wants("roles", "member", "", "Doc.Cmd", "", 9, ""), Wants("roles", "bare", "", "Doc", "", 9, "case"),
          Wants("roles", "bare", "", "Nothing", "", 9, ""), Wants("subscriptions", "bare", "", "Nothing", "", 9, ""),
          Wants("subscriptions", "typed", "Document", "Old", "", 9, ""), Wants("roles", "word", "Document", "Document", "", 9, "")}
    \cup {Wants("subscriptions", "bare", "", "Doc", e, 9, o) : e \in {"Posting", "OwnEvent", "Unheard"}, o \in {"", "custom"}}
    \cup {Wants(h, f, "", "", "", 9, "") : h \in {"subscriptions", "roles", "options", "plan"}, f \in {"all", "nameless"}}
    \cup {Wants("options", "bare", "", "Doc", "", 1, o) : o \in {"", "xml"}} \cup {Wants("options", "typed", "Document", "Doc", "", 9, "")}
    \cup {Wants(h, "bare", "", n, "", 9, "") : h \in {"jobs", "services", "plan"}, n \in {"", "Doc", "DocFiles"}}]

(* Subsystems "Sales" and those that contain an object of that name.         *)
Sub3(i, y, f, b, n, s, c) == [id |-> i, layout |-> y, folder |-> f, base |-> b, name |-> n, synonym |-> s, content |-> c,
                              place |-> "base", ok |-> TRUE]
Ref(n) == <<"Document", n>>
Opened(r, m, s) == [reader |-> r, metadata |-> m, synonyms |-> s, wrapped |-> FALSE]
Sales == Sub3(3, "sibling", "Sales", "Sales", "Sales", "", <<Ref("A"), Ref("Sales"), Ref("B")>>)
Empty == Sub3(4, "ext", "Sales", "Subsystem", "Sales", "", <<>>)
Late == Sub3(5, "edt", "SalesLate", "SalesLate", "SalesLate", "Sales", <<>>)
Uses == Sub3(1, "edt", "Stock", "Stock", "Stock", "", <<Ref("A"), Ref("Sales"), Ref("SalesLate"), Ref("Sales")>>)
Nears == Sub3(2, "sibling", "Trade", "Trade", "Trade", "Sales", <<Ref("SalesLate")>>)
Odd == Sub3(6, "odd", "", "Other", "Sales", "", <<Ref("B")>>)
Deep(f) == [f EXCEPT !.id = @ + 10, !.place = "root"]
Menu == Sub3(7, "ext", "Sales", "CommandInterface", "", "", <<>>)
MCContained ==
  [scanMax |-> 3, shell |-> 2, hintSize |-> 2, sizeBudget |-> 9, maxChanges |-> 2,
   fragments |-> {<<"Sales", "SalesLate">>},
   worlds |-> {{Uses, Sales, Empty}, {Uses, Nears, Late, Odd}, {[Sales EXCEPT !.content = <<>>], Odd, Menu},
             {[Sales EXCEPT !.ok = FALSE], Uses, [Odd EXCEPT !.content = <<Ref("Sales")>>]},
             {Sales, Late, Deep(Sales), Deep(Uses)}, {Uses, Deep([Sales EXCEPT !.content = <<>>]), Deep(Empty), Deep(Nears)}},
   sessions |-> {Opened("none", TRUE, TRUE), Opened("foreign", TRUE, TRUE), Opened("plain", TRUE, TRUE), Opened("native", TRUE, TRUE),
               Opened("native", TRUE, FALSE), Opened("native", FALSE, TRUE)}
              \cup {[Opened(r, TRUE, TRUE) EXCEPT !.wrapped = TRUE] : r \in {"none", "native"}},
   questions |-> {[name |-> n, limit |-> 2] : n \in {"", "long", "A", "Sales", "Nothing"}}
               \cup {[name |-> n, limit |-> 9] : n \in {"Sales", "SalesLate"}}]

(* What the answers of a session carry: a worker that may lack git_search.  *)
Use(n, a) == [name |-> n, arg |-> a, limit |-> 0, rows |-> 0, single |-> n \in {"read_file", "read_procedure"}]
List(n, a, l, r) == [Use(n, a) EXCEPT !.limit = l, !.rows = r]
Chooses(all, k, i) == [all |-> all, keys |-> k, ignored |-> i]
NoChoice == Chooses(FALSE, {}, FALSE)
Start(m, c, e, r) == [mode |-> m, choice |-> c, empty |-> e, required |-> TRUE, recipe |-> r]
Asking(asked, c) == [asked |-> asked, choice |-> c]
Runs(o, c, sets, full, w) == [outcome |-> o, calls |-> c, sets |-> sets, full |-> full, most |-> 1, grep |-> FALSE, wants |-> w]
NoWants == Asking(FALSE, NoChoice)
MCTold ==
  [maxExecutes |-> 3, readsToTell |-> 2, sparseCalls |-> 2, sparseToTell |-> 2, startCalls |-> 2, shownMost |-> 1,
   catalogNames |-> {"find_module", "read_procedure", "get_object_profile", "get_index_info", "git_search"},
   conditional |-> {"git_search"}, core |-> {"find_module", "read_procedure"}, unhinted |-> {"read_procedure"},
   domainHelpers |-> ("code" :> {"git_search"} @@ "document" :> {"get_object_profile", "git_search"}),
   recipes |-> ("posting" :> [domain |-> "document", steps |-> {"get_object_profile"}]),
   starts |-> {Start("full", NoChoice, FALSE, ""), Start("generic", NoChoice, FALSE, ""), Start("slim", NoChoice, FALSE, ""),
             Start("slim", NoChoice, TRUE, "posting"), Start("slim", Chooses(FALSE, {"code"}, TRUE), FALSE, ""),
             Start("slim", Chooses(FALSE, {"document"}, FALSE), FALSE, "posting"), Start("slim", Chooses(TRUE, {}, FALSE), FALSE, "")},
   requests |-> {Runs("ok", <<Use("read_file", "f"), Use("read_file", "g")>>, {1}, FALSE, Asking(TRUE, Chooses(FALSE, {"document"}, TRUE))),
               Runs("ok", <<List("find_module", "Doc", 2, 2), Use("git_search", "x"), Use("git_search", "x"), Use("git_search", "x")>>, {2}, TRUE, NoWants),
               Runs("error", <<List("find_module", "Doc", 2, 1), Use("get_index_info", "")>>, {1, 2}, TRUE, NoWants),
               Runs("ok", <<Use("get_object_profile", "Doc")>>, {3}, TRUE, Asking(TRUE, Chooses(TRUE, {}, FALSE))),
               Runs("keyword", <<Use("git_search", "x")>>, {}, FALSE, Asking(TRUE, Chooses(FALSE, {"code"}, FALSE))),
               [Runs("keyword", <<Use("get_index_info", "")>>, {3}, TRUE, NoWants) EXCEPT !.grep = TRUE],
               Runs("keyword", <<Use("read_procedure", "f")>>, {}, FALSE, NoWants),
               Runs("ok", <<>>, {1, 3}, TRUE, NoWants), Runs("blocked", <<>>, {}, TRUE, NoWants),
               Runs("large", <<>>, {}, TRUE, NoWants), Runs("dies", <<>>, {}, FALSE, NoWants),
               Runs("dies", <<>>, {}, TRUE, Asking(TRUE, Chooses(FALSE, {"code"}, FALSE)))}]

(* Where the index lies: two processes that move it, one that must not.      *)
MCRule == <<"RLM_CONFIG_FILE", "RLM_CONFIG_FILE", "RLM_INDEX_DIR">>

(* What is said of an index while it is rebuilt.                             *)
Shape(a, d, s, t, u, c) == [age |-> a, drift |-> d, small |-> s, structure |-> t, touched |-> u, calls |-> c]
MCShapes ==
  {Shape("young", "many", FALSE, TRUE, TRUE, TRUE), Shape("mid", "few", FALSE, FALSE, FALSE, TRUE),
   Shape("mid", "many", FALSE, FALSE, FALSE, TRUE), Shape("mid", "many", TRUE, TRUE, FALSE, FALSE),
   Shape("aged", "none", FALSE, TRUE, FALSE, TRUE), Shape("aged", "many", FALSE, FALSE, TRUE, TRUE)}
=============================================================================
