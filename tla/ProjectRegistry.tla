--------------------------- MODULE ProjectRegistry ---------------------------
(***************************************************************************)
(* ProjectRegistry of projects.py: a list cached in the server and kept in *)
(* projects.json.  The operations hold one lock and change the cached list *)
(* before they save it; resolve takes the list under the lock and searches *)
(* it after releasing it.  A save or the server may fail at any step.      *)
(***************************************************************************)
EXTENDS Integers, Sequences, FiniteSets, SequencesExt

CONSTANTS Names,   \* normalised names of projects
          Dirs     \* directories a project may be registered with

VARIABLES disk,    \* projects.json: <<its list>>, or Missing
          bak,     \* projects.bak
          cached,  \* _projects: <<the list>>, or Missing before it is loaded
          change,  \* the operation that holds the lock, and its list
          told,    \* the list last saved for a client, or read back
          lookup   \* a resolve on its way through the cached list
registryVars == <<disk, bak, cached, change, told, lookup>>

Missing == <<>>
NoLookup == [at |-> "none", query |-> "", next |-> 1, stays |-> TRUE, removal |-> FALSE]

Init ==
    /\ disk = Missing /\ bak = Missing
    /\ cached = Missing
    /\ change = [at |-> "idle", list |-> <<>>]
    /\ told = <<>>
    /\ lookup = NoLookup

(* No file is an empty registry. *)
Listed(file) == IF file = Missing THEN <<>> ELSE file[1]
NamesIn(list) == {list[i].name : i \in DOMAIN list}

Load ==
    /\ cached = Missing
    /\ cached' = <<Listed(disk)>>
    /\ told' = IF disk = Missing THEN told ELSE disk[1]
    /\ UNCHANGED <<disk, bak, change, lookup>>

(* add, remove, rename and update, with their refusals as guards.  All of  *)
(* them change the cached list in place.                                   *)
Added(list) == {Append(list, new) : new \in [name : Names \ NamesIn(list), dir : Dirs]}
Removed(list) == {RemoveAt(list, i) : i \in DOMAIN list}
Renamed(list) ==
    {[list EXCEPT ![i].name = n] : i \in DOMAIN list, n \in Names \ NamesIn(list)}
Updated(list) == {[list EXCEPT ![i].dir = d] : i \in DOMAIN list, d \in Dirs}

Mutate ==
    /\ cached # Missing /\ change.at = "idle"
    /\ LET old == cached[1] IN
       \E new \in Added(old) \union Removed(old) \union Renamed(old) \union Updated(old) :
         /\ cached' = <<new>>
         /\ change' = [at |-> "write", list |-> new]
         /\ lookup' = [lookup EXCEPT !.stays = @ /\ lookup.query \in NamesIn(new),
                                     !.removal = @ \/ Len(new) < Len(old)]
    /\ UNCHANGED <<disk, bak, told>>

(* _save.  A failure leaves the changed list cached and tells the client.  *)
WriteTmp ==
    /\ change.at = "write"
    /\ \E at \in {"backup", "idle"} : change' = [change EXCEPT !.at = at]
    /\ UNCHANGED <<disk, bak, cached, told, lookup>>

BackupForgotten == bak
BackupTaken == disk

Backup ==
    /\ change.at = "backup"
    /\ change' = [change EXCEPT !.at = "replace"]
    /\ \/ disk # Missing /\ bak' = BackupTaken /\ disk' = Missing
       \/ UNCHANGED <<disk, bak>>   \* no file yet, or the rename failed
    /\ UNCHANGED <<cached, told, lookup>>

Replace ==
    /\ change.at = "replace"
    /\ disk' = <<change.list>>
    /\ told' = change.list
    /\ change' = [change EXCEPT !.at = "idle"]
    /\ UNCHANGED <<bak, cached, lookup>>

(* The rename failed: the backup goes back, if that works. *)
ReplaceFails ==
    /\ change.at = "replace"
    /\ \/ bak # Missing /\ disk = Missing /\ disk' = bak /\ bak' = Missing
       \/ UNCHANGED <<disk, bak>>
    /\ change' = [change EXCEPT !.at = "idle"]
    /\ UNCHANGED <<cached, told, lookup>>

(* The server ends, at any step. *)
Crash ==
    /\ cached' = Missing
    /\ change' = [change EXCEPT !.at = "idle"]
    /\ lookup' = NoLookup
    /\ UNCHANGED <<disk, bak, told>>

(* resolve, its first loop: the name itself is looked for, entry by entry. *)
LookupBegin ==
    /\ lookup.at = "none" /\ cached # Missing /\ change.at = "idle"
    /\ \E query \in Names :
         lookup' = [NoLookup EXCEPT !.at = "exact", !.query = query, !.stays = query \in NamesIn(cached[1])]
    /\ UNCHANGED <<disk, bak, cached, change, told>>

LookupStep ==
    /\ lookup.at = "exact"
    /\ lookup' =
         IF lookup.next > Len(cached[1]) THEN [lookup EXCEPT !.at = "not exact"]
         ELSE IF cached[1][lookup.next].name = lookup.query THEN [lookup EXCEPT !.at = "exact match"]
         ELSE [lookup EXCEPT !.next = @ + 1]
    /\ UNCHANGED <<disk, bak, cached, change, told>>

LookupEnd ==
    /\ lookup.at \in {"not exact", "exact match"}
    /\ lookup' = NoLookup
    /\ UNCHANGED <<disk, bak, cached, change, told>>

Next ==
    \/ Load \/ Mutate \/ WriteTmp \/ Backup \/ Replace \/ ReplaceFails \/ Crash
    \/ LookupBegin \/ LookupStep \/ LookupEnd
Spec == Init /\ [][Next]_registryVars

-----------------------------------------------------------------------------
(* Every list of the registry holds a name once. *)
Lists == {l \in SeqOf([name : Names, dir : Dirs], Cardinality(Names)) : IsInjective([i \in DOMAIN l |-> l[i].name])}
RegistryTypeOK ==
    /\ {disk, bak, cached} \subseteq {Missing} \union {<<l>> : l \in Lists}
    /\ change.at \in {"idle", "write", "backup", "replace"} /\ change.list \in Lists
    /\ told \in Lists
    /\ lookup.at \in {"none", "exact", "exact match", "not exact"} /\ lookup.next \in 1..Cardinality(Names) + 1

(* Whatever fails and wherever the server ends, the list last saved for a  *)
(* client is on the disk, or the list being saved is: in projects.json, or *)
(* in projects.bak while the file is missing.  A server that starts then   *)
(* sees no project, and only its next save makes the loss final.           *)
CrashKeepsList ==
    \/ Listed(disk) \in {told, change.list}
    \/ disk = Missing /\ bak = <<told>>

(* A project that is registered under the queried name all the time is     *)
(* found by that name, whatever is added, renamed or updated meanwhile.    *)
(* Only the removal of another project can hide it: the search goes on in  *)
(* a list that became shorter.                                             *)
OnlyRemovalHides == lookup.at = "not exact" /\ lookup.stays => lookup.removal
=============================================================================
