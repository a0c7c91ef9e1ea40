------------------------------ MODULE TntSchema ------------------------------
(***************************************************************************)
(* The client's copy of the server's schema (tnt/tnt_schema.c): one hash   *)
(* table in which every space is entered twice, under its name and under   *)
(* its number, and in each space one table of its indexes, built the same  *)
(* way.  A load (tnt_reload_schema) adds the rows of the space reply and   *)
(* then those of the index reply to what is there; a flush frees it all.   *)
(*                                                                         *)
(* space_hash   the entries: key |-> address of a tnt_schema_sval          *)
(* heap         the svals that are allocated: address |-> contents.  An    *)
(*              address can be allocated again after it was freed          *)
(* rows         the rows of the current reply still to be added            *)
(* visit        the entries mh_foreach has not come to yet                 *)
(* spaces,      the last space and index reply (history)                   *)
(*   indexes                                                               *)
(* whole        every row of the current load was added (history)          *)
(* flushed      nothing was added since the last flush (history)           *)
(* loads        loads begun; bounded by MaxLoads                           *)
(*                                                                         *)
(* The tables are functions: hashing, probing and the incremental resize   *)
(* of third_party/mhash.h are not modelled, and neither is a 4-byte name   *)
(* with the bytes of a space number.  An ival is a value in its table.     *)
(***************************************************************************)
EXTENDS Naturals, FiniteSets

CONSTANTS Names,        \* space names
          Numbers,      \* space numbers
          IndexNames,   \* index names
          IndexNumbers, \* index numbers
          Addrs,        \* addresses of svals
          MaxLoads      \* bound: loads of one behaviour

Keys == Names \cup Numbers
IndexKeys == IndexNames \cup IndexNumbers

ASSUME KeysAssumption == Names \cap Numbers = {}
ASSUME IndexKeysAssumption == IndexNames \cap IndexNumbers = {}
ASSUME LoadsAssumption == MaxLoads \in Nat

VARIABLES pc, space_hash, heap, rows, visit, spaces, indexes, whole, flushed,
          loads
vars == <<pc, space_hash, heap, rows, visit, spaces, indexes, whole, flushed,
          loads>>

SpaceRows == [number : Numbers, name : Names]
IndexRows == [space : Numbers, number : IndexNumbers, name : IndexNames]

Ivals == [number : IndexNumbers, name : IndexNames]
IndexTables == UNION {[K -> Ivals] : K \in SUBSET IndexKeys}
Svals == [number : Numbers, name : Names, index : IndexTables]
EmptyTable == [k \in {} |-> {}]

(* The entry that is there is kept.                                        *)
PutKeepsOld(table, k, v) ==
    [x \in DOMAIN table \cup {k} |-> IF x \in DOMAIN table THEN table[x] ELSE v]

(* mh_assoc_put replaces the node of an equal key and forgets the old one. *)
Put(table, k, v) ==
    [x \in DOMAIN table \cup {k} |-> IF x = k THEN v ELSE table[x]]

(* mh_assoc_del of the nodes that mh_assoc_find finds for the given keys.  *)
Del(table, ks) == [x \in DOMAIN table \ ks |-> table[x]]

-----------------------------------------------------------------------------
(* What the server may answer: no two spaces share a name or a number, and *)
(* no two indexes of one space do.                                         *)
SpaceReplies ==
    {S \in SUBSET SpaceRows :
        \A r, t \in S : r.number = t.number \/ r.name = t.name => r = t}
IndexReplies ==
    {I \in SUBSET IndexRows :
        \A r, t \in I : r.space = t.space
                        /\ (r.number = t.number \/ r.name = t.name) => r = t}

Init ==
    /\ pc = "idle"
    /\ space_hash = EmptyTable
    /\ heap = EmptyTable
    /\ rows = {} /\ visit = {} /\ spaces = {} /\ indexes = {}
    /\ whole = TRUE /\ flushed = FALSE
    /\ loads = 0

-----------------------------------------------------------------------------
(* tnt_schema_add_spaces: reads the reply, row by row.                     *)
AddSpaces(S) ==
    /\ pc = "idle"
    /\ loads < MaxLoads
    /\ pc' = "spaces"
    /\ loads' = loads + 1
    /\ spaces' = S
    /\ indexes' = {}
    /\ rows' = S
    /\ whole' = TRUE
    /\ flushed' = FALSE
    /\ UNCHANGED <<space_hash, heap, visit>>

(* tnt_schema_add_space: a new sval with an empty index table, entered     *)
(* under its name and then under its number.                               *)
EnterSpace(table, row, a) == Put(Put(table, row.name, a), row.number, a)

AddSpace(row, a) ==
    /\ pc = "spaces"
    /\ row \in rows
    /\ a \in Addrs \ DOMAIN heap
    /\ heap' = Put(heap, a, [number |-> row.number, name |-> row.name,
                             index |-> EmptyTable])
    /\ space_hash' = EnterSpace(space_hash, row, a)
    /\ rows' = rows \ {row}
    /\ UNCHANGED <<pc, visit, spaces, indexes, whole, flushed, loads>>

(* An allocation fails: the row's memory is released, and the rest of the  *)
(* reply is not read.  tnt_reload_schema ignores the result.               *)
AddSpaceFails ==
    /\ pc = "spaces"
    /\ rows # {}
    /\ rows' = {}
    /\ whole' = FALSE
    /\ UNCHANGED <<pc, space_hash, heap, visit, spaces, indexes, flushed,
                   loads>>

(* tnt_schema_add_indexes follows, with a reply of its own: the server's   *)
(* schema may have changed between the two.                                *)
AddIndexes(I) ==
    /\ pc = "spaces"
    /\ rows = {}
    /\ pc' = "indexes"
    /\ indexes' = I
    /\ rows' = I
    /\ UNCHANGED <<space_hash, heap, visit, spaces, whole, flushed, loads>>

(* tnt_schema_add_index: the index is entered in its space's table, under  *)
(* its name and then under its number.                                     *)
EnterIndex(table, row) ==
    LET ival == [number |-> row.number, name |-> row.name]
    IN  Put(Put(table, row.name, ival), row.number, ival)

AddIndex(row) ==
    /\ pc = "indexes"
    /\ row \in rows
    /\ row.space \in DOMAIN space_hash
    /\ LET a == space_hash[row.space]
       IN  heap' = [heap EXCEPT ![a].index = EnterIndex(@, row)]
    /\ rows' = rows \ {row}
    /\ UNCHANGED <<pc, space_hash, visit, spaces, indexes, whole, flushed,
                   loads>>

(* The space is unknown, or an allocation fails: nothing is entered, and   *)
(* the rest of the reply is not read.                                      *)
AddIndexFails ==
    /\ pc = "indexes"
    /\ rows # {}
    /\ rows' = {}
    /\ whole' = FALSE
    /\ UNCHANGED <<pc, space_hash, heap, visit, spaces, indexes, flushed,
                   loads>>

LoadDone ==
    /\ pc = "indexes"
    /\ rows = {}
    /\ pc' = "idle"
    /\ UNCHANGED <<space_hash, heap, rows, visit, spaces, indexes, whole,
                   flushed, loads>>

-----------------------------------------------------------------------------
(* tnt_schema_flush and tnt_schema_free: tnt_schema_space_free.            *)
Flush ==
    /\ pc = "idle"
    /\ pc' = "flush"
    /\ visit' = DOMAIN space_hash
    /\ UNCHANGED <<space_hash, heap, rows, spaces, indexes, whole, flushed,
                   loads>>

(* Only the entry under the number is deleted with an sval.                *)
FreedKeysNumberOnly(sval) == {sval.number}

(* The keys of the two entries that are deleted with an sval.              *)
FreedKeys(sval) == {sval.number, sval.name}

(* One round of mh_foreach, over the entries in any order: what is found   *)
(* under the number and under the name of the entry's sval is deleted,     *)
(* whichever sval those entries lead to, and the sval is freed.            *)
FlushVisit(k) ==
    /\ pc = "flush"
    /\ k \in visit \cap DOMAIN space_hash
    /\ LET a == space_hash[k]
       IN  /\ space_hash' = Del(space_hash, FreedKeys(heap[a]))
           /\ heap' = Del(heap, {a})
    /\ visit' = visit \ {k}
    /\ UNCHANGED <<pc, rows, spaces, indexes, whole, flushed, loads>>

(* The loop of a flush can end before it came to every entry.              *)
FlushStopsEarly ==
    /\ pc = "flush"
    /\ pc' = "idle"
    /\ flushed' = TRUE
    /\ visit' = {}
    /\ UNCHANGED <<space_hash, heap, rows, spaces, indexes, whole, loads>>

FlushDone ==
    /\ pc = "flush"
    /\ visit \cap DOMAIN space_hash = {}
    /\ pc' = "idle"
    /\ flushed' = TRUE
    /\ visit' = {}
    /\ UNCHANGED <<space_hash, heap, rows, spaces, indexes, whole, loads>>

Next ==
    \/ \E S \in SpaceReplies : AddSpaces(S)
    \/ \E row \in rows, a \in Addrs : AddSpace(row, a)
    \/ AddSpaceFails
    \/ \E I \in IndexReplies : AddIndexes(I)
    \/ \E row \in rows : AddIndex(row)
    \/ AddIndexFails
    \/ LoadDone
    \/ Flush
    \/ \E k \in visit : FlushVisit(k)
    \/ FlushDone

Spec == Init /\ [][Next]_vars

-----------------------------------------------------------------------------
(* tnt_schema_stosid and tnt_schema_stoiid: {} where the code returns -1.  *)
Stosid(name) ==
    {heap[space_hash[k]].number : k \in {name} \cap DOMAIN space_hash}
Stoiid(sid, name) ==
    UNION {LET index == heap[space_hash[k]].index
           IN  {index[j].number : j \in {name} \cap DOMAIN index}
           : k \in {sid} \cap DOMAIN space_hash}

-----------------------------------------------------------------------------
(* Type correctness of the tables and of the progress of a call.           *)
TypeOK ==
    /\ pc \in {"idle", "spaces", "indexes", "flush"}
    /\ space_hash \in [DOMAIN space_hash -> Addrs]
    /\ DOMAIN space_hash \subseteq Keys
    /\ heap \in [DOMAIN heap -> Svals]
    /\ DOMAIN heap \subseteq Addrs
    /\ pc = "spaces" => rows \subseteq spaces
    /\ pc = "indexes" => rows \subseteq indexes
    /\ visit \subseteq Keys
    /\ spaces \in SpaceReplies
    /\ indexes \in IndexReplies
    /\ whole \in BOOLEAN
    /\ flushed \in BOOLEAN
    /\ loads \in 0..MaxLoads

(* Every entry of the space table leads to an sval that is allocated, and  *)
(* is filed under the name or the number of that very sval: the keys of    *)
(* the table point into the svals, so an entry that outlived its sval, or  *)
(* was filed under the key of another one, would be read after the free.   *)
(* tnt_schema_space_free deletes entries through other entries, some of    *)
(* which lead to svals of different loads.                                 *)
NoDanglingEntry ==
    \A k \in DOMAIN space_hash :
        /\ space_hash[k] \in DOMAIN heap
        /\ k \in {heap[space_hash[k]].number, heap[space_hash[k]].name}

(* A flush leaves nothing behind: mh_foreach goes once over a table that   *)
(* shrinks under it, and still every entry is deleted, also the ones of    *)
(* spaces that were renamed or renumbered between two loads.               *)
FlushEmpties ==
    [][pc = "flush" /\ pc' = "idle" => DOMAIN space_hash' = {}]_vars

(* After a load in which no row failed, the lookups give the server's      *)
(* answers for every space and every index of the last replies, whatever   *)
(* was loaded before.                                                      *)
CurrentResolves ==
    pc = "idle" /\ whole /\ ~flushed =>
        /\ \A r \in spaces : Stosid(r.name) = {r.number}
        /\ \A r \in indexes : Stoiid(r.space, r.name) = {r.number}

(* The inductive invariant behind them: which rows of the current load are *)
(* already in the tables, and that a flush has visited every entry that is *)
(* gone and no other is left behind.                                       *)
SpaceLoaded(r) ==
    /\ r.name \in DOMAIN space_hash
    /\ heap[space_hash[r.name]].number = r.number
IndexLoaded(r) ==
    /\ r.space \in DOMAIN space_hash
    /\ r.name \in DOMAIN heap[space_hash[r.space]].index
    /\ heap[space_hash[r.space]].index[r.name].number = r.number

Progress ==
    /\ pc = "spaces" /\ whole => \A r \in spaces \ rows : SpaceLoaded(r)
    /\ pc = "indexes" /\ whole =>
           /\ \A r \in spaces : SpaceLoaded(r)
           /\ \A r \in indexes \ rows : IndexLoaded(r)
    /\ pc = "idle" /\ whole /\ ~flushed =>
           /\ \A r \in spaces : SpaceLoaded(r)
           /\ \A r \in indexes : IndexLoaded(r)

NothingPassed == pc = "flush" => DOMAIN space_hash \subseteq visit

(* The tables, the load in progress and the flush in progress agree: this  *)
(* is what every step of tnt_schema.c preserves.                           *)
IndInv == TypeOK /\ NoDanglingEntry /\ Progress /\ NothingPassed
=============================================================================
