--------------------------- MODULE TntSchemaProofs ---------------------------
(***************************************************************************)
(* Proofs about TntSchema, for any names, numbers, addresses and number of *)
(* loads: no entry of the table outlives its sval, a flush empties the     *)
(* table, and after a load the lookups give the server's answers.          *)
(***************************************************************************)
EXTENDS TntSchema, TLAPS

(* Put keeps the type of a table.                                          *)
LEMMA PutType ==
    ASSUME NEW K, NEW V, NEW table, table \in [DOMAIN table -> V],
           DOMAIN table \subseteq K, NEW k \in K, NEW v \in V
    PROVE  /\ Put(table, k, v) \in [DOMAIN Put(table, k, v) -> V]
           /\ DOMAIN Put(table, k, v) \subseteq K
  BY DEF Put

(* Del keeps the type of a table.                                          *)
LEMMA DelType ==
    ASSUME NEW K, NEW V, NEW table, table \in [DOMAIN table -> V],
           DOMAIN table \subseteq K, NEW ks
    PROVE  /\ Del(table, ks) \in [DOMAIN Del(table, ks) -> V]
           /\ DOMAIN Del(table, ks) \subseteq K
  BY DEF Del

(* The index tables are the functions from index keys to ivals.            *)
LEMMA IndexTable ==
    ASSUME NEW t
    PROVE  t \in IndexTables <=> /\ t \in [DOMAIN t -> Ivals]
                                 /\ DOMAIN t \subseteq IndexKeys
  BY DEF IndexTables

(* The empty table has the type of every table.                            *)
LEMMA EmptyType ==
    ASSUME NEW V
    PROVE  /\ EmptyTable \in [DOMAIN EmptyTable -> V]
           /\ DOMAIN EmptyTable = {}
  BY DEF EmptyTable

(* tnt_schema_add_index enters the ival under both keys, changes no other  *)
(* entry and keeps the type of the table.                                  *)
LEMMA EnterIndexFacts ==
    ASSUME NEW table \in IndexTables, NEW row \in IndexRows
    PROVE  /\ EnterIndex(table, row) \in IndexTables
           /\ DOMAIN EnterIndex(table, row)
                  = DOMAIN table \cup {row.name, row.number}
           /\ EnterIndex(table, row)[row.name].number = row.number
           /\ \A x \in DOMAIN table : x # row.name /\ x # row.number =>
                  EnterIndex(table, row)[x] = table[x]
  <1> DEFINE ival == [number |-> row.number, name |-> row.name]
             s == Put(table, row.name, ival)
             t == Put(s, row.number, ival)
  <1>0. /\ ival \in Ivals
        /\ ival.number = row.number
        /\ row.name \in IndexKeys
        /\ row.number \in IndexKeys
    BY DEF IndexRows, Ivals, IndexKeys
  <1>1. EnterIndex(table, row) = t
    BY DEF EnterIndex
  <1> HIDE DEF ival
  <1>2. /\ DOMAIN s = DOMAIN table \cup {row.name}
        /\ s[row.name] = ival
        /\ \A x \in DOMAIN table : x # row.name => s[x] = table[x]
    BY DEF Put
  <1>3. s \in IndexTables
    BY <1>0, PutType, IndexTable
  <1> HIDE DEF s
  <1>4. /\ DOMAIN t = DOMAIN s \cup {row.number}
        /\ t[row.number] = ival
        /\ \A x \in DOMAIN s : x # row.number => t[x] = s[x]
    BY DEF Put
  <1>5. t \in IndexTables
    BY <1>0, <1>3, PutType, IndexTable
  <1> HIDE DEF t
  <1>6. t[row.name] = ival
    BY <1>2, <1>4
  <1> QED BY <1>0, <1>1, <1>2, <1>4, <1>5, <1>6

-----------------------------------------------------------------------------
(* An entry found under a number belongs to the sval with that number, and *)
(* one found under a name to the sval with that name: numbers and names    *)
(* are different keys.                                                     *)
LEMMA EntryOfKey ==
    ASSUME IndInv, NEW k \in DOMAIN space_hash
    PROVE  /\ space_hash[k] \in DOMAIN heap
           /\ space_hash[k] \in Addrs
           /\ heap[space_hash[k]] \in Svals
           /\ k \in Numbers => heap[space_hash[k]].number = k
           /\ k \in Names => heap[space_hash[k]].name = k
  <1>1. /\ space_hash[k] \in DOMAIN heap
        /\ k \in {heap[space_hash[k]].number, heap[space_hash[k]].name}
    BY DEF IndInv, NoDanglingEntry
  <1>2. heap[space_hash[k]] \in Svals
    BY <1>1 DEF IndInv, TypeOK
  <1>3. /\ heap[space_hash[k]].number \in Numbers
        /\ heap[space_hash[k]].name \in Names
    BY <1>2 DEF Svals
  <1> QED BY <1>1, <1>2, <1>3, KeysAssumption DEF IndInv, TypeOK

(* The initial state satisfies the invariant.                              *)
LEMMA InitIndInv == Init => IndInv
  <1> SUFFICES ASSUME Init PROVE IndInv
    OBVIOUS
  <1>1. DOMAIN space_hash = {} /\ DOMAIN heap = {}
    BY EmptyType DEF Init
  <1>2. space_hash \in [DOMAIN space_hash -> Addrs] /\ heap \in [DOMAIN heap -> Svals]
    BY EmptyType DEF Init
  <1>3. {} \in SpaceReplies /\ {} \in IndexReplies /\ 0 \in 0..MaxLoads
    BY LoadsAssumption DEF SpaceReplies, IndexReplies
  <1>6. TypeOK
    BY <1>1, <1>2, <1>3 DEF Init, TypeOK
  <1>4. NoDanglingEntry
    BY <1>1 DEF NoDanglingEntry
  <1>5. Progress /\ NothingPassed
    BY DEF Init, Progress, NothingPassed
  <1> QED BY <1>4, <1>5, <1>6 DEF IndInv

(* tnt_schema_add_space preserves the invariant.                           *)
LEMMA AddSpaceIndInv ==
    ASSUME IndInv, NEW row \in rows, NEW a \in Addrs, AddSpace(row, a)
    PROVE  IndInv'
  <1> DEFINE sval == [number |-> row.number, name |-> row.name, index |-> EmptyTable]
  <1>1. /\ pc = "spaces" /\ pc' = "spaces"
        /\ a \notin DOMAIN heap
        /\ heap' = Put(heap, a, sval)
        /\ space_hash' = EnterSpace(space_hash, row, a)
        /\ rows' = rows \ {row}
        /\ UNCHANGED <<visit, spaces, indexes, whole, flushed, loads>>
    BY DEF AddSpace
  <1>2. row \in spaces /\ row \in SpaceRows
    BY <1>1 DEF IndInv, TypeOK, SpaceReplies
  <1>3. row.name \in Names /\ row.number \in Numbers
    BY <1>2 DEF SpaceRows
  <1>4. sval \in Svals /\ sval.number = row.number /\ sval.name = row.name
    BY <1>3, EmptyType, IndexTable DEF Svals
  <1> HIDE DEF sval
  <1>5. /\ DOMAIN heap' = DOMAIN heap \cup {a}
        /\ heap'[a] = sval
        /\ \A x \in DOMAIN heap : heap'[x] = heap[x]
    BY <1>1 DEF Put
  <1>6. heap' \in [DOMAIN heap' -> Svals] /\ DOMAIN heap' \subseteq Addrs
    BY <1>1, <1>4, PutType DEF IndInv, TypeOK
  <1>7. /\ DOMAIN space_hash' = DOMAIN space_hash \cup {row.name, row.number}
        /\ space_hash'[row.name] = a
        /\ space_hash'[row.number] = a
        /\ \A x \in DOMAIN space_hash :
               x # row.name /\ x # row.number => space_hash'[x] = space_hash[x]
    BY <1>1 DEF EnterSpace, Put
  <1>8. /\ space_hash' \in [DOMAIN space_hash' -> Addrs]
        /\ DOMAIN space_hash' \subseteq Keys
    <2>1. DOMAIN space_hash' \subseteq Keys
      BY <1>3, <1>7 DEF IndInv, TypeOK, Keys
    <2>2. \A x \in DOMAIN space_hash' : space_hash'[x] \in Addrs
      BY <1>7 DEF IndInv, TypeOK
    <2>3. space_hash' = [x \in DOMAIN space_hash' |-> space_hash'[x]]
      BY <1>1 DEF EnterSpace, Put
    <2> QED BY <2>1, <2>2, <2>3
  <1>9. TypeOK'
    BY <1>1, <1>6, <1>8 DEF IndInv, TypeOK
  <1>10. NoDanglingEntry'
    <2> SUFFICES ASSUME NEW k \in DOMAIN space_hash'
                 PROVE  /\ space_hash'[k] \in DOMAIN heap'
                        /\ k \in {heap'[space_hash'[k]].number,
                                  heap'[space_hash'[k]].name}
      BY DEF NoDanglingEntry
    <2>1. CASE k = row.name \/ k = row.number
      BY <2>1, <1>4, <1>5, <1>7
    <2>2. CASE k # row.name /\ k # row.number
      BY <2>2, <1>5, <1>7, EntryOfKey DEF IndInv, NoDanglingEntry
    <2> QED BY <2>1, <2>2
  <1>11. Progress'
    <2> SUFFICES ASSUME whole, NEW r \in spaces \ rows'
                 PROVE  SpaceLoaded(r)'
      BY <1>1 DEF Progress
    <2>1. CASE r = row
      BY <2>1, <1>4, <1>5, <1>7 DEF SpaceLoaded
    <2>2. CASE r # row
      <3>1. r \in spaces \ rows /\ r \in SpaceRows
        BY <2>2, <1>1 DEF IndInv, TypeOK, SpaceReplies
      <3>2. SpaceLoaded(r)
        BY <3>1, <1>1 DEF IndInv, Progress
      <3>3. r.name # row.name /\ r.name # row.number
        BY <2>2, <3>1, <1>2, <1>3, KeysAssumption
           DEF IndInv, TypeOK, SpaceReplies, SpaceRows
      <3>4. space_hash'[r.name] = space_hash[r.name] /\ r.name \in DOMAIN space_hash'
        BY <3>2, <3>3, <1>7 DEF SpaceLoaded
      <3> QED BY <3>2, <3>4, <1>5, EntryOfKey DEF SpaceLoaded
    <2> QED BY <2>1, <2>2
  <1>12. NothingPassed'
    BY <1>1 DEF NothingPassed
  <1> QED BY <1>9, <1>10, <1>11, <1>12 DEF IndInv

(* tnt_schema_add_index preserves the invariant.                           *)
LEMMA AddIndexIndInv ==
    ASSUME IndInv, NEW row \in rows, AddIndex(row)
    PROVE  IndInv'
  <1> DEFINE a == space_hash[row.space]
             table == EnterIndex(heap[a].index, row)
  <1>1. /\ pc = "indexes" /\ pc' = "indexes"
        /\ row.space \in DOMAIN space_hash
        /\ heap' = [heap EXCEPT ![a].index = table]
        /\ rows' = rows \ {row}
        /\ UNCHANGED <<space_hash, visit, spaces, indexes, whole, flushed, loads>>
    BY DEF AddIndex
  <1>2. row \in indexes /\ row \in IndexRows
    BY <1>1 DEF IndInv, TypeOK, IndexReplies
  <1>3. /\ row.space \in Numbers /\ row.name \in IndexNames
        /\ row.number \in IndexNumbers
    BY <1>2 DEF IndexRows
  <1>4. a \in DOMAIN heap /\ heap[a] \in Svals /\ heap[a].index \in IndexTables
    BY <1>1, EntryOfKey DEF Svals
  <1>5. /\ table \in IndexTables
        /\ DOMAIN table = DOMAIN heap[a].index \cup {row.name, row.number}
        /\ table[row.name].number = row.number
        /\ \A x \in DOMAIN heap[a].index : x # row.name /\ x # row.number =>
               table[x] = heap[a].index[x]
    <2> HIDE DEF a
    <2> QED BY <1>2, <1>4, EnterIndexFacts
  <1> HIDE DEF a, table
  <1>6. /\ DOMAIN heap' = DOMAIN heap
        /\ heap'[a] = [heap[a] EXCEPT !.index = table]
        /\ \A x \in DOMAIN heap : x # a => heap'[x] = heap[x]
        /\ heap' \in [DOMAIN heap' -> Svals]
    <2>1. [heap[a] EXCEPT !.index = table] \in Svals
      BY <1>4, <1>5 DEF Svals
    <2> QED BY <2>1, <1>1, <1>4 DEF IndInv, TypeOK
  <1>7. /\ heap'[a].index = table
        /\ heap'[a].number = heap[a].number
        /\ heap'[a].name = heap[a].name
    BY <1>4, <1>6 DEF Svals
  <1>8. \A x \in DOMAIN heap : /\ heap'[x].number = heap[x].number
                               /\ heap'[x].name = heap[x].name
    BY <1>6, <1>7
  <1>9. TypeOK'
    BY <1>1, <1>6 DEF IndInv, TypeOK
  <1>10. NoDanglingEntry'
    BY <1>1, <1>6, <1>8 DEF IndInv, NoDanglingEntry
  <1>11. Progress'
    <2> SUFFICES ASSUME whole
                 PROVE  /\ \A r \in spaces : SpaceLoaded(r)'
                        /\ \A r \in indexes \ rows' : IndexLoaded(r)'
      BY <1>1 DEF Progress
    <2>1. ASSUME NEW r \in spaces PROVE SpaceLoaded(r)'
      <3>1. SpaceLoaded(r)
        BY <1>1 DEF IndInv, Progress
      <3> QED BY <3>1, <1>1, <1>8, EntryOfKey DEF SpaceLoaded
    <2>2. ASSUME NEW r \in indexes \ rows' PROVE IndexLoaded(r)'
      <3>1. CASE r = row
        BY <3>1, <1>1, <1>5, <1>7 DEF IndexLoaded, a
      <3>2. CASE r # row
        <4>1. r \in indexes \ rows /\ r \in IndexRows
          BY <3>2, <1>1 DEF IndInv, TypeOK, IndexReplies
        <4>2. IndexLoaded(r)
          BY <4>1, <1>1 DEF IndInv, Progress
        <4> DEFINE b == space_hash[r.space]
        <4>3. b \in DOMAIN heap /\ r.space \in Numbers /\ heap[b].number = r.space
          BY <4>1, <4>2, EntryOfKey DEF IndexLoaded, IndexRows
        <4>4. CASE r.space = row.space
          <5>1. r.name # row.name /\ r.name # row.number
            BY <3>2, <4>1, <4>4, <1>2, <1>3, IndexKeysAssumption
               DEF IndInv, TypeOK, IndexReplies, IndexRows
          <5>2. b = a
            BY <4>4 DEF a
          <5> QED BY <4>2, <5>1, <5>2, <1>1, <1>5, <1>7 DEF IndexLoaded
        <4>5. CASE r.space # row.space
          <5>1. heap[a].number = row.space
            BY <1>1, <1>3, EntryOfKey DEF a
          <5>2. b # a
            BY <4>3, <4>5, <5>1
          <5> QED BY <4>2, <4>3, <5>2, <1>1, <1>6 DEF IndexLoaded
        <4> QED BY <4>4, <4>5
      <3> QED BY <3>1, <3>2
    <2> QED BY <2>1, <2>2
  <1>12. NothingPassed'
    BY <1>1 DEF NothingPassed
  <1> QED BY <1>9, <1>10, <1>11, <1>12 DEF IndInv

(* One round of the loop of tnt_schema_space_free preserves the invariant: *)
(* the entries that lead to the freed sval are the two that were deleted.  *)
LEMMA FlushVisitIndInv ==
    ASSUME IndInv, NEW k \in visit, FlushVisit(k)
    PROVE  IndInv'
  <1> DEFINE a == space_hash[k]
             gone == FreedKeys(heap[a])
  <1>1. /\ pc = "flush" /\ pc' = "flush"
        /\ k \in DOMAIN space_hash
        /\ space_hash' = Del(space_hash, gone)
        /\ heap' = Del(heap, {a})
        /\ visit' = visit \ {k}
        /\ UNCHANGED <<rows, spaces, indexes, whole, flushed, loads>>
    BY DEF FlushVisit
  <1>2. k \in gone
    BY <1>1 DEF IndInv, NoDanglingEntry, FreedKeys
  <1>3. \A x \in DOMAIN space_hash : space_hash[x] = a => x \in gone
    BY DEF IndInv, NoDanglingEntry, FreedKeys
  <1> HIDE DEF a, gone
  <1>4. /\ DOMAIN space_hash' = DOMAIN space_hash \ gone
        /\ \A x \in DOMAIN space_hash' : space_hash'[x] = space_hash[x]
        /\ DOMAIN heap' = DOMAIN heap \ {a}
        /\ \A x \in DOMAIN heap' : heap'[x] = heap[x]
    BY <1>1 DEF Del
  <1>5. /\ space_hash' \in [DOMAIN space_hash' -> Addrs]
        /\ DOMAIN space_hash' \subseteq Keys
        /\ heap' \in [DOMAIN heap' -> Svals]
        /\ DOMAIN heap' \subseteq Addrs
    BY <1>1, DelType DEF IndInv, TypeOK
  <1>6. TypeOK'
    BY <1>1, <1>5 DEF IndInv, TypeOK
  <1>7. NoDanglingEntry'
    BY <1>3, <1>4 DEF IndInv, NoDanglingEntry
  <1>8. Progress'
    BY <1>1 DEF Progress
  <1>9. NothingPassed'
    BY <1>1, <1>2, <1>4 DEF IndInv, NothingPassed
  <1> QED BY <1>6, <1>7, <1>8, <1>9 DEF IndInv

(* Every step preserves the invariant.                                     *)
LEMMA NextIndInv == IndInv /\ [Next]_vars => IndInv'
  <1> SUFFICES ASSUME IndInv, [Next]_vars PROVE IndInv'
    OBVIOUS
  <1>1. ASSUME NEW S \in SpaceReplies, AddSpaces(S) PROVE IndInv'
    <2>1. pc' = "spaces" /\ rows' = S /\ spaces' = S /\ indexes' = {}
          /\ loads' \in 0..MaxLoads /\ whole' = TRUE /\ flushed' = FALSE
          /\ UNCHANGED <<space_hash, heap, visit>>
      BY <1>1, LoadsAssumption DEF AddSpaces, IndInv, TypeOK
    <2>2. {} \in IndexReplies
      BY DEF IndexReplies
    <2>3. TypeOK'
      BY <2>1, <2>2 DEF IndInv, TypeOK
    <2> QED BY <2>1, <2>3 DEF IndInv, NoDanglingEntry, Progress, NothingPassed
  <1>2. ASSUME NEW row \in rows, NEW a \in Addrs, AddSpace(row, a) PROVE IndInv'
    BY <1>2, AddSpaceIndInv
  <1>3. CASE AddSpaceFails
    BY <1>3 DEF AddSpaceFails, IndInv, TypeOK, NoDanglingEntry, Progress,
                NothingPassed
  <1>4. ASSUME NEW I \in IndexReplies, AddIndexes(I) PROVE IndInv'
    <2>1. pc = "spaces" /\ rows = {} /\ pc' = "indexes" /\ indexes' = I /\ rows' = I
          /\ UNCHANGED <<space_hash, heap, visit, spaces, whole, flushed, loads>>
      BY <1>4 DEF AddIndexes
    <2>2. TypeOK'
      BY <2>1 DEF IndInv, TypeOK
    <2>3. Progress'
      BY <2>1 DEF IndInv, Progress, SpaceLoaded
    <2> QED BY <2>1, <2>2, <2>3 DEF IndInv, NoDanglingEntry, NothingPassed
  <1>5. ASSUME NEW row \in rows, AddIndex(row) PROVE IndInv'
    BY <1>5, AddIndexIndInv
  <1>6. CASE AddIndexFails
    BY <1>6 DEF AddIndexFails, IndInv, TypeOK, NoDanglingEntry, Progress,
                NothingPassed
  <1>7. CASE LoadDone
    BY <1>7 DEF LoadDone, IndInv, TypeOK, NoDanglingEntry, Progress,
                NothingPassed, SpaceLoaded, IndexLoaded
  <1>8. CASE Flush
    BY <1>8 DEF Flush, IndInv, TypeOK, NoDanglingEntry, Progress,
                NothingPassed
  <1>9. ASSUME NEW k \in visit, FlushVisit(k) PROVE IndInv'
    BY <1>9, FlushVisitIndInv
  <1>10. CASE FlushDone
    BY <1>10 DEF FlushDone, IndInv, TypeOK, NoDanglingEntry, Progress,
                 NothingPassed
  <1>11. CASE UNCHANGED vars
    BY <1>11 DEF vars, IndInv, TypeOK, NoDanglingEntry, Progress,
                 NothingPassed, SpaceLoaded, IndexLoaded
  <1> QED BY <1>1, <1>2, <1>3, <1>4, <1>5, <1>6, <1>7, <1>8, <1>9, <1>10, <1>11
          DEF Next

(* The inductive invariant holds in every reachable state of the schema.   *)
THEOREM IndInvTheorem == Spec => []IndInv
  BY InitIndInv, NextIndInv, PTL DEF Spec

(* No entry of the space table outlives its sval or is filed under the key *)
(* of another one, whatever is loaded and flushed (tnt_schema_add_space,   *)
(* tnt_schema_space_free).                                                 *)
THEOREM NoDanglingEntryTheorem == Spec => []NoDanglingEntry
  <1>1. IndInv => NoDanglingEntry
    BY DEF IndInv
  <1> QED BY <1>1, IndInvTheorem, PTL

(* After a load without failures every space and every index of the        *)
(* replies resolves to its number (tnt_schema_stosid, tnt_schema_stoiid).  *)
THEOREM CurrentResolvesTheorem == Spec => []CurrentResolves
  <1>1. ASSUME IndInv PROVE CurrentResolves
    <2> SUFFICES ASSUME pc = "idle", whole, ~flushed
                 PROVE  /\ \A r \in spaces : Stosid(r.name) = {r.number}
                        /\ \A r \in indexes : Stoiid(r.space, r.name) = {r.number}
      BY DEF CurrentResolves
    <2>1. ASSUME NEW r \in spaces PROVE Stosid(r.name) = {r.number}
      <3>1. SpaceLoaded(r)
        BY <1>1 DEF IndInv, Progress
      <3> QED BY <3>1 DEF SpaceLoaded, Stosid
    <2>2. ASSUME NEW r \in indexes PROVE Stoiid(r.space, r.name) = {r.number}
      <3>1. IndexLoaded(r)
        BY <1>1 DEF IndInv, Progress
      <3> QED BY <3>1 DEF IndexLoaded, Stoiid
    <2> QED BY <2>1, <2>2
  <1> QED BY <1>1, IndInvTheorem, PTL

(* A flush ends with an empty table (tnt_schema_space_free), although it   *)
(* deletes entries ahead of the loop and never comes back to one.          *)
THEOREM FlushEmptiesTheorem == Spec => FlushEmpties
  <1>1. IndInv /\ [Next]_vars =>
            [pc = "flush" /\ pc' = "idle" => DOMAIN space_hash' = {}]_vars
    <2> SUFFICES ASSUME IndInv, Next, pc = "flush", pc' = "idle"
                 PROVE  DOMAIN space_hash' = {}
      OBVIOUS
    <2>1. FlushDone
      BY DEF Next, AddSpaces, AddSpace, AddSpaceFails, AddIndexes, AddIndex,
             AddIndexFails, LoadDone, Flush, FlushVisit
    <2> QED BY <2>1 DEF FlushDone, IndInv, NothingPassed
  <1> QED BY <1>1, IndInvTheorem, PTL DEF Spec, FlushEmpties
=============================================================================
