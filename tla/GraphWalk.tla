------------------------------ MODULE GraphWalk ------------------------------
(***************************************************************************)
(* The walks over the call graph (bsl_helpers.py): find_callers_context    *)
(* answers one page of the callers of a procedure from the index, from the *)
(* live layer of the neighbouring extensions or from the files;            *)
(* find_path and find_call_hierarchy walk it backwards from their target.  *)
(* Page size and node budget are constants, small here.                    *)
(*                                                                         *)
(* A procedure is [file, name, export, common], a row a call of it:        *)
(* [from, line, key, name, kind], with the key the index resolved or       *)
(* NoKey.  Lines are unique, their order is that of the rows.  Hints of    *)
(* the user are empty or the path of a module that declares the name.      *)
(***************************************************************************)
EXTENDS Integers, FiniteSets, Sequences, SequencesExt

CONSTANTS
  Main, Ext,      (* procedures of the configuration and of an extension   *)
  Certain,        (* rows every graph has                                  *)
  MainCalls,      (* the rows the index may have                           *)
  ExtCalls,       (* the rows the layer of the extension may have          *)
  Questions,      (* what is asked, see Init                               *)
  PageLimit,      (* _FIND_PATH_NODE_LIMIT, and 200 in the hierarchy       *)
  VisitedCap,     (* _HIERARCHY_VISITED_CAP                                *)
  MaxFaults       (* bound on lookups that meet a rebuild or an error      *)

NoKey == [file |-> "", name |-> "", export |-> FALSE, common |-> FALSE]
Procs == Main \cup Ext

VARIABLES
  indexed,    (* there is an index; without it the files are searched      *)
  rows,       (* the calls of the configuration, the rows of the index     *)
  layerRows,  (* the rows of the extension layer                           *)
  layer,      (* "off", "complete" or "partial"                            *)
  trusted,    (* idx_zero_callers_authoritative                            *)
  ask,        (* the question                                              *)
  queue, queried, visited,
  nodes,      (* find_path: [proc, exact, parent]; hierarchy: expanded     *)
              (* targets [name, hint, rows]                                *)
  flags,      (* of "budget", "truncated", "partial"                       *)
  answer,     (* "", "hit", "miss", "error" or "tree"                      *)
  chain,      (* the path that was found                                   *)
  faults,     (* lookups that failed so far                                *)
  fate        (* what no flag tells: "skipped" a node whose lookup raised, *)
              (* "files" one that was answered from the files, "namesake"  *)
              (* one that was dropped for one of the same name             *)

world == <<indexed, rows, layerRows, layer, trusted, ask>>
walkVars == <<world, queue, queried, visited, nodes, flags, answer, chain, faults, fate>>

LayerOn == layer # "off"
Declaring(S, name) == {p \in S : p.name = name}
At(name, hint) == CHOOSE p \in Procs : p.name = name /\ p.file = hint
InExt(hint) == \E p \in Ext : p.file = hint
ByLine(S) == SetToSortSeq(S, LAMBDA a, b : a.line < b.line)

(* Without a hint only a name that is globally unique and an exported method of
   a common module has a key. *)
TargetKey(name, hint) ==
  IF hint # "" THEN At(name, hint)
  ELSE IF \E p \in Main : Declaring(Main, name) = {p} /\ p.export /\ p.common
       THEN CHOOSE p \in Main : p.name = name
       ELSE NoKey

(* Rows without a key match an exported target by name. *)
Matched(S, key, name) ==
  IF key = NoKey THEN {r \in S : r.name = name}
  ELSE {r \in S : r.key = key \/ (r.key = NoKey /\ r.name = name /\ key.export)}

Slice(s, offset, limit) == SubSeq(s, offset + 1, IF offset + limit < Len(s) THEN offset + limit ELSE Len(s))

(* Rows of the layer follow all rows of the index. *)
MergedPage(main, ext, offset, limit) ==
  LET page == Slice(ByLine(main), offset, limit)
      room == limit - Len(page)
      start == IF offset > Cardinality(main) THEN offset - Cardinality(main) ELSE 0
  IN page \o Slice(ByLine(ext), start, room)

Reply(page, total, more, key, route, status) ==
  [page |-> page, total |-> total, more |-> more, key |-> key, route |-> route, layer |-> status]

RowsReply(main, ext, key, offset, limit, status) ==
  Reply(MergedPage(main, ext, offset, limit), Cardinality(main) + Cardinality(ext),
        offset + limit < Cardinality(main) + Cardinality(ext), key, "rows", status)

-----------------------------------------------------------------------------
(* find_callers_context *)

(* The rows of a target of the extension: from its own modules only, none when
   the keys of the layer cannot be made. *)
ExtReply(name, hint, offset, limit, event) ==
  LET key == At(name, hint)
  IN IF event = "calm" THEN RowsReply({}, Matched(layerRows, key, name), key, offset, limit, layer)
     ELSE RowsReply({}, {}, key, offset, limit, "partial")

(* A page of files that mention the name; calls by name, launches are not seen.
   A target that is not exported is looked for in its own file. *)
FilesReply(name, hint, offset, limit, status) ==
  LET near == hint # "" /\ ~At(name, hint).export
      mention == {p.file : p \in Declaring(Main, name)} \cup {r.from.file : r \in {q \in rows : q.name = name}}
      files == SetToSeq(IF near THEN mention \cap {hint} ELSE mention)
      paged == Range(Slice(files, offset, limit))
      found == {r \in rows : r.name = name /\ r.kind = "call" /\ r.from.file \in paged}
  IN Reply(ByLine(found), Cardinality(found), offset + limit < Len(files), NoKey, "files", status)

(* A name that is unique in the configuration is none when the extension
   declares it too. *)
IndexKey(name, hint) ==
  LET key == TargetKey(name, hint)
      some == Matched(rows, key, name) # {} \/ trusted
  IN IF LayerOn /\ hint = "" /\ some /\ Declaring(Ext, name) # {} THEN NoKey ELSE key

IndexReply(name, hint, offset, limit) ==
  LET key == IndexKey(name, hint)
      main == Matched(rows, key, name)
      merged == LayerOn /\ (main # {} \/ trusted)
  IN RowsReply(main, IF merged THEN Matched(layerRows, key, name) ELSE {}, key, offset, limit,
               IF merged THEN layer ELSE "off")

(* No row of the index is final only when the index is trusted; an empty call
   table only when the layer is there to be merged, too. *)
FindCallers(name, hint, offset, limit, event) ==
  IF LayerOn /\ InExt(hint) THEN ExtReply(name, hint, offset, limit, event)
  ELSE LET reply == IndexReply(name, hint, offset, limit)
           final == reply.total > 0 \/ trusted
       IN CASE ~indexed \/ event = "locked" -> FilesReply(name, hint, offset, limit, "off")
            [] event = "rebuilt" /\ reply.layer # "off" -> FilesReply(name, hint, offset, limit, "partial")
            [] rows = {} /\ ~(LayerOn /\ trusted) -> FilesReply(name, hint, offset, limit, "off")
            [] ~final -> FilesReply(name, hint, offset, limit, "off")
            [] OTHER -> reply

-----------------------------------------------------------------------------
(* Asking: [kind, from, fromHint, to, toHint, depth] *)

Definitions(name) == Declaring(Main, name) \cup (IF LayerOn THEN Declaring(Ext, name) ELSE {})

(* The ambiguity guard is on when the index is trusted and has rows. *)
Ambiguous ==
  /\ ask.kind = "path" /\ trusted /\ rows # {}
  /\ ~(ask.from = ask.to /\ ask.fromHint = "" /\ ask.toHint = "")
  /\ \/ ask.toHint = "" /\ Cardinality(Definitions(ask.to)) > 1
     \/ ask.fromHint = "" /\ Cardinality(Definitions(ask.from)) > 1

(* No index, no identity; a name of both worlds has none without a hint. *)
EndIdentity(name, hint) ==
  IF ~indexed \/ (LayerOn /\ hint = "" /\ Declaring(Ext, name) # {}) THEN NoKey ELSE TargetKey(name, hint)

ToKey == EndIdentity(ask.to, ask.toHint)
FromKey == IF ask.fromHint = "" THEN NoKey ELSE EndIdentity(ask.from, ask.fromHint)

MatchesFrom(p) == IF FromKey # NoKey THEN p = FromKey ELSE p.name = ask.from

Root == [ToKey EXCEPT !.name = ask.to]

Init ==
  /\ rows \in {Certain \cup S : S \in SUBSET MainCalls} \cup {{}}
  /\ indexed \in BOOLEAN
  /\ layer \in (IF indexed THEN {"off", "complete", "partial"} ELSE {"off"})
  /\ layerRows \in (IF layer = "off" THEN {{}} ELSE SUBSET ExtCalls)
  /\ trusted \in (IF indexed THEN BOOLEAN ELSE {FALSE})
  /\ ask \in Questions
  /\ (InExt(ask.fromHint) \/ InExt(ask.toHint)) => LayerOn
  /\ queried = {} /\ visited = {} /\ flags = {} /\ faults = 0 /\ fate = {}
  /\ IF Ambiguous THEN answer = "error" /\ chain = <<>>
     ELSE IF ask.kind = "path" /\ MatchesFrom(Root) THEN answer = "hit" /\ chain = <<1>>
     ELSE answer = "" /\ chain = <<>>
  /\ queue = <<[name |-> ask.to, hint |-> ask.toHint, level |-> 0, node |-> 1]>>
  /\ nodes = IF ask.kind = "path" THEN <<[proc |-> Root, row |-> 0, exact |-> FALSE, parent |-> 0]>> ELSE <<>>

-----------------------------------------------------------------------------
(* The walk *)

Item == Head(queue)
Walking == answer = "" /\ queue # <<>> /\ "budget" \notin flags

(* The path from a node of the walk up to the target. *)
ChainOf(ns, i) ==
  LET up[k \in 1..Len(ns)] == IF ns[k].parent = 0 THEN <<k>> ELSE <<k>> \o up[ns[k].parent] IN up[i]

Expanded == Cardinality(visited)
TooDeep == ask.kind = "path" /\ Item.level >= ask.depth
Asked == [name |-> Item.name, hint |-> Item.hint] \in queried

(* The budget is looked at before the next lookup. *)
Exhaust ==
  /\ Walking /\ Expanded >= VisitedCap
  /\ flags' = flags \cup {"budget"}
  /\ UNCHANGED <<world, queue, queried, visited, nodes, answer, chain, faults, fate>>

Skip ==
  /\ Walking /\ Expanded < VisitedCap /\ (TooDeep \/ Asked)
  /\ queue' = Tail(queue)
  /\ UNCHANGED <<world, queried, visited, nodes, flags, answer, chain, faults, fate>>

(* An error of the lookup is passed over. *)
LookupRaises ==
  /\ Walking /\ Expanded < VisitedCap /\ ~TooDeep /\ ~Asked
  /\ faults < MaxFaults
  /\ faults' = faults + 1
  /\ fate' = fate \cup {"skipped"}
  /\ queried' = queried \cup {[name |-> Item.name, hint |-> Item.hint]}
  /\ queue' = Tail(queue)
  /\ UNCHANGED <<world, visited, nodes, flags, answer, chain>>

(* Found: the callers up to the first that is the start. *)
Taken(page) ==
  IF \E i \in 1..Len(page) : MatchesFrom(page[i].from)
  THEN SubSeq(page, 1, CHOOSE i \in 1..Len(page) :
         MatchesFrom(page[i].from) /\ \A j \in 1..(i - 1) : ~MatchesFrom(page[j].from))
  ELSE page

NodeOf(r, key) == [proc |-> r.from, row |-> r.line, exact |-> key # NoKey /\ r.key = key, parent |-> Item.node]

(* All callers behind the first page are looked through for the start. *)
RestHit(reply) ==
  LET rest == FindCallers(Item.name, Item.hint, PageLimit, reply.total - PageLimit, "calm").page
  IN IF reply.more /\ reply.route = "rows" THEN SelectSeq(rest, LAMBDA r : MatchesFrom(r.from)) ELSE <<>>

(* One node of find_path. *)
PathNode(reply) ==
  LET page == Taken(reply.page)
      more == [i \in 1..Len(page) |-> NodeOf(page[i], reply.key)]
      hit == page # <<>> /\ MatchesFrom(Last(page).from)
      rest == RestHit(reply)
      late == IF ~hit /\ rest # <<>> THEN <<NodeOf(Head(rest), reply.key)>> ELSE <<>>
  IN /\ nodes' = nodes \o more \o late
     /\ answer' = (IF hit \/ late # <<>> THEN "hit" ELSE "")
     /\ chain' = (IF answer' = "hit" THEN ChainOf(nodes', Len(nodes')) ELSE <<>>)
     /\ queue' = Tail(queue) \o
          [i \in 1..(IF hit THEN Len(page) - 1 ELSE Len(page)) |->
             [name |-> page[i].from.name, hint |-> page[i].from.file,
              level |-> Item.level + 1, node |-> Len(nodes) + i]]

(* One node of find_call_hierarchy: every caller is a line of the tree. *)
TreeNode(reply) ==
  /\ nodes' = Append(nodes, [name |-> Item.name, hint |-> Item.hint, rows |-> Range(reply.page)])
  /\ queue' = Tail(queue) \o
       (IF Item.level + 1 < ask.depth
        THEN [i \in 1..Len(reply.page) |->
                [name |-> reply.page[i].from.name, hint |-> reply.page[i].from.file,
                 level |-> Item.level + 1, node |-> 0]]
        ELSE <<>>)
  /\ UNCHANGED <<answer, chain>>

(* Mutated form of Target: procedures of one name count as one. *)
TargetByName(reply) == [name |-> Item.name, key |-> NoKey]

(* A target is expanded once, by its key, or by name without one. *)
Target(reply) == [name |-> Item.name, key |-> reply.key]

(* The lookup meets nothing, the locked tables or the new generation of an
   in-place rebuild. *)
Lookup(event) ==
  LET reply == FindCallers(Item.name, Item.hint, 0, PageLimit, event)
      target == Target(reply)
  IN /\ Walking /\ Expanded < VisitedCap /\ ~TooDeep /\ ~Asked
     /\ faults' = faults + (IF event = "calm" THEN 0 ELSE 1) /\ faults' <= MaxFaults
     /\ queried' = queried \cup {[name |-> Item.name, hint |-> Item.hint]}
     /\ fate' = fate \cup (IF reply.route = "files" /\ reply.layer = "off" THEN {"files"} ELSE {})
                     \cup (IF reply.key = NoKey /\ target \in visited THEN {"namesake"} ELSE {})
     /\ IF target \in visited
        THEN /\ queue' = Tail(queue)
             /\ UNCHANGED <<visited, nodes, flags, answer, chain>>
        ELSE /\ visited' = visited \cup {target}
             /\ flags' = flags \cup (IF reply.more THEN {"truncated"} ELSE {})
                               \cup (IF reply.layer = "partial" THEN {"partial"} ELSE {})
             /\ IF ask.kind = "path" THEN PathNode(reply) ELSE TreeNode(reply)
     /\ UNCHANGED world

Finish ==
  /\ answer = "" /\ (queue = <<>> \/ "budget" \in flags)
  /\ answer' = (IF ask.kind = "path" THEN "miss" ELSE "tree")
  /\ UNCHANGED <<world, queue, queried, visited, nodes, flags, chain, faults, fate>>

Next ==
  \/ Exhaust \/ Skip \/ LookupRaises \/ Finish
  \/ \E event \in {"calm", "locked", "rebuilt"} : Lookup(event)

Spec == Init /\ [][Next]_walkVars

-----------------------------------------------------------------------------
(* Properties *)

(* What the graph is sure of: the resolved rows; of them only the direct calls
   of the configuration when a lookup was answered from its files. *)
Sure ==
  {r \in rows \cup layerRows : r.key # NoKey /\ ("files" \in fate => r \in rows /\ r.kind = "call")}

Ends(name, hint) == IF hint # "" THEN {At(name, hint)} ELSE Definitions(name)

(* The procedures from which k calls lead to the target, at most. *)
Reaching ==
  LET reach[k \in 0..ask.depth] ==
        IF k = 0 THEN Ends(ask.to, ask.toHint)
        ELSE reach[k - 1] \cup {r.from : r \in {q \in Sure : q.key \in reach[k - 1]}}
  IN reach

Unreachable == Ends(ask.from, ask.fromHint) \cap Reaching[ask.depth] = {}

(* What the docstring of find_path promises of every miss without an error and
   without budget_exceeded. *)
MissIsConclusive == answer = "miss" /\ flags = {} => Unreachable

(* It holds of a walk that met no error and passed over no namesake: then no
   chain of resolved calls of the allowed length leads from end to end. *)
MissIsProof == answer = "miss" /\ flags = {} /\ fate \subseteq {"files"} => Unreachable

(* A path called exact is a chain of resolved calls between the two ends, no
   longer than allowed. *)
ExactPathIsReal ==
  answer = "hit" /\ ToKey # NoKey /\ (\A i \in 1..(Len(chain) - 1) : nodes[chain[i]].exact) =>
    /\ Len(chain) <= ask.depth + 1
    /\ nodes[chain[1]].proc \in Ends(ask.from, ask.fromHint)
    /\ nodes[Last(chain)].proc \in Ends(ask.to, ask.toHint)
    /\ \A i \in 1..(Len(chain) - 1) : \E r \in rows \cup layerRows :
         /\ r.from = nodes[chain[i]].proc /\ r.key = nodes[chain[i + 1]].proc
         /\ r.line = nodes[chain[i]].row

(* A tree of find_call_hierarchy that no flag qualifies has every resolved call
   that leads to the target within its depth. *)
TreeIsComplete ==
  answer = "tree" /\ flags = {} /\ fate \subseteq {"files"} =>
    \A r \in Sure : r.key \in Reaching[ask.depth - 1] =>
      \E i \in 1..Len(nodes) : nodes[i].name = r.name /\ r \in nodes[i].rows

=============================================================================
