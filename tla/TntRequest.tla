---------------------------- MODULE TntRequest ------------------------------
(***************************************************************************)
(* Encoding requests: the request object of tnt/tnt_request.c with its     *)
(* setters and tnt_request_writeout, and the functions that encode one     *)
(* request from their arguments (tnt_ping.c, tnt_insert.c, tnt_select.c,   *)
(* tnt_delete.c, tnt_update.c, tnt_call.c, tnt_execute.c, tnt_auth.c), all *)
(* on one stream and its request counter.                                  *)
(*                                                                         *)
(* A packet is a sequence of msgpack tokens with their widths in bytes,    *)
(* the length prefix first.  Objects the caller passes are token sequences *)
(* too, complete or not.  64-bit request ids are 0 .. 2 * SyncMax + 1 with *)
(* SyncMax for INT64_MAX, and 32-bit ones are 0 .. Reqid32 - 1.            *)
(***************************************************************************)
EXTENDS Iproto, FiniteSets

CONSTANTS
    SyncMax,     \* INT64_MAX
    Reqid32,     \* 2^32, the values of the uint32_t of tnt_stream_reqid
    Ids,         \* numbers the caller gives (spaces, indexes, offsets, ...)
    LimitMax,    \* UINT32_MAX, the limit of a new request
    Lengths,     \* lengths of procedure names, expressions and user names
    Salts,       \* salts of greetings
    Passwords    \* passwords

ASSUME RequestAssumption ==
    /\ SyncMax \in Nat /\ Reqid32 \in 1..(2 * SyncMax + 2)
    /\ Ids \subseteq Nat /\ LimitMax \in Nat /\ Lengths \subseteq Nat

VARIABLES
    reqid,    \* s->reqid
    req,      \* the caller's struct tnt_request
    packet,   \* the packet the last call gave to writev(), <<>> if none
    meant,    \* history: the request the caller asked that call for
    rc,       \* what that call returned
    proof     \* history: salt, password and scramble of that call, if it is tnt_auth

requestVars == <<reqid, req, packet, meant, rc, proof>>

Op == [SELECT |-> 1, INSERT |-> 2, REPLACE |-> 3, UPDATE |-> 4, DELETE |-> 5,
       CALL_16 |-> 6, AUTH |-> 7, EVAL |-> 8, UPSERT |-> 9, CALL |-> 10,
       EXECUTE |-> 11, PING |-> 64]

Key == [SPACE |-> 16, INDEX |-> 17, LIMIT |-> 18, OFFSET |-> 19, ITERATOR |-> 20,
        INDEX_BASE |-> 21, KEY |-> 32, TUPLE |-> 33, FUNCTION |-> 34, USERNAME |-> 35,
        EXPRESSION |-> 39, OPS |-> 40, SQL_TEXT |-> 64, SQL_BIND |-> 65]

-----------------------------------------------------------------------------
\* Objects of the caller: an array, one whose container was never closed, a
\* number, and an object nothing was added to.
Array == <<ArrayOf(1), Uint(7)>>
Unclosed == <<ArrayOf(0), Uint(7)>>
Objects == {Array, Unclosed, <<Uint(7)>>, <<>>}

\* tnt_object_verify(o, MP_ARRAY) = 0
Verify(o) == o # <<>> /\ o[1].t = "array" /\ OneValue(o)

-----------------------------------------------------------------------------
(* The packet. *)

\* encode_header
Header(op, sync) == <<MapOf(2), Uint(0), Uint(Op[op]), Uint(1), Uint(sync)>>

\* The length prefix counts every segment after it.
Packed(s) == <<Tok("len", Bytes(s), 5)>> \o s

\* The body map: n is the number the code gives to mp_encode_map, fields the
\* keys it encodes with their values, in order.
BodyMap(n, fields) ==
    <<MapOf(n)>> \o FlattenSeq([i \in 1..Len(fields) |->
                                   <<Uint(Key[fields[i][1]])>> \o fields[i][2]])

\* s->reqid++ of a uint64_t
After(id) == (id + 1) % (2 * SyncMax + 2)

Nothing == [op |-> "none", sync |-> 0, body |-> <<>>, values |-> {}]

\* The call returns r without having written anything.
Refuse(r) == packet' = <<>> /\ meant' = Nothing /\ rc' = r /\ proof' = <<>>

\* tnt_stream_init
RequestInit ==
    /\ reqid = 0
    /\ req = [live |-> FALSE]
    /\ packet = <<>> /\ meant = Nothing /\ rc = 0
    /\ proof = <<>>

\* tnt_stream_reqid, which tnt_reload_schema uses to set its fixed ids and to
\* put the old one back: 32 bits of it come back.
StreamReqid ==
    /\ reqid' = reqid % Reqid32
    /\ Refuse(0)
    /\ UNCHANGED req

-----------------------------------------------------------------------------
(* Functions that encode one request.  args is what the caller asks for, n  *)
(* and order are the code's map size and the order of its fields.           *)

Fields(order, args) == [i \in 1..Len(order) |-> <<order[i], args[order[i]]>>]

Encode(op, n, order, args, objects) ==
    IF \A o \in objects : Verify(o)
    THEN /\ reqid' = After(reqid)
         /\ \/ /\ packet' = Packed(Header(op, reqid) \o BodyMap(n, Fields(order, args)))
               /\ meant' = [op |-> op, sync |-> reqid, body |-> args,
                             values |-> Range(args)]
               /\ rc' = 0 /\ proof' = <<>>
            \/ Refuse(-1)
         /\ UNCHANGED req
    ELSE Refuse(-1) /\ UNCHANGED <<reqid, req>>

Num(v) == <<Uint(v)>>

tnt_ping == Encode("PING", 0, <<>>, <<>>, {})

tnt_store_base(op) == \E space \in Ids, tuple \in Objects :
    Encode(op, 2, <<"SPACE", "TUPLE">>, [SPACE |-> Num(space), TUPLE |-> tuple], {tuple})

tnt_select == \E space, index, offset, iterator \in Ids, limit \in {LimitMax}, key \in Objects :
    Encode("SELECT", 6, <<"SPACE", "INDEX", "LIMIT", "OFFSET", "ITERATOR", "KEY">>,
           [SPACE |-> Num(space), INDEX |-> Num(index), LIMIT |-> Num(limit),
            OFFSET |-> Num(offset), ITERATOR |-> Num(iterator), KEY |-> key], {key})

\* Mutant: the map is one pair short.
tnt_delete_short == \E space, index \in Ids, key \in Objects :
    Encode("DELETE", 2, <<"SPACE", "INDEX", "KEY">>,
           [SPACE |-> Num(space), INDEX |-> Num(index), KEY |-> key], {key})

tnt_delete == \E space, index \in Ids, key \in Objects :
    Encode("DELETE", 3, <<"SPACE", "INDEX", "KEY">>,
           [SPACE |-> Num(space), INDEX |-> Num(index), KEY |-> key], {key})

tnt_update == \E space, index \in Ids, key, ops \in Objects :
    Encode("UPDATE", 4, <<"SPACE", "INDEX", "KEY", "TUPLE">>,
           [SPACE |-> Num(space), INDEX |-> Num(index), KEY |-> key, TUPLE |-> ops], {key, ops})

tnt_upsert == \E space \in Ids, tuple, ops \in Objects :
    Encode("UPSERT", 3, <<"SPACE", "TUPLE", "OPS">>,
           [SPACE |-> Num(space), TUPLE |-> tuple, OPS |-> ops], {tuple, ops})

\* is_call chooses the field; a missing or empty name is refused first.
tnt_rpc_base(op) == \E len \in Lengths, args \in Objects :
    LET fld == IF op = "EVAL" THEN "EXPRESSION" ELSE "FUNCTION"
    IN  IF len = 0 THEN Refuse(-1) /\ UNCHANGED <<reqid, req>>
        ELSE Encode(op, 2, <<fld, "TUPLE">>,
                    [k \in {fld, "TUPLE"} |-> IF k = fld THEN Str(len) ELSE args], {args})

tnt_execute == \E len \in Lengths, params \in Objects :
    IF len = 0 THEN Refuse(-1) /\ UNCHANGED <<reqid, req>>
    ELSE Encode("EXECUTE", 2, <<"SQL_TEXT", "SQL_BIND">>,
                [SQL_TEXT |-> Str(len), SQL_BIND |-> params], {params})

(* Authentication.  A digest is the term <<"sha1", x>>; the exclusive or of  *)
(* digests is the set of those that remain.                                  *)

Sha1(x) == <<"sha1", x>>
Xor(a, b) == (a \ b) \cup (b \ a)

\* A password is not itself a salt with the digest of a digest behind it.
ASSUME PasswordAssumption ==
    \A salt \in Salts, p, q \in Passwords : p # <<salt, Sha1(Sha1(q))>>

\* Mutant: the inner digest is left out.
Scramble1(salt, pass) == Xor({Sha1(pass)}, {Sha1(<<salt, Sha1(pass)>>)})

\* tnt_scramble_prepare
Scramble(salt, pass) == Xor({Sha1(pass)}, {Sha1(<<salt, Sha1(Sha1(pass))>>)})

ChapSha1 == 9
Guest == 5

\* tnt_auth_raw and tnt_auth; guest with no password is tnt_deauth.
tnt_auth == \E ulen \in Lengths, guest \in BOOLEAN, salt \in Salts, pass \in Passwords :
    LET name == IF guest THEN Str(Guest) ELSE Str(ulen)
        how == IF guest THEN <<ArrayOf(0)>>
               ELSE <<ArrayOf(2)>> \o Str(ChapSha1) \o Str(ScrambleSize)
    IN  /\ reqid' = After(reqid)
        /\ \/ /\ packet' = Packed(Header("AUTH", reqid) \o
                             BodyMap(2, <<<<"USERNAME", name>>, <<"TUPLE", how>>>>))
              /\ meant' = [op |-> "AUTH", sync |-> reqid,
                           body |-> [USERNAME |-> name, TUPLE |-> how], values |-> {}]
              /\ rc' = 0
              /\ proof' = IF guest THEN <<>> ELSE <<salt, pass, Scramble(salt, pass)>>
           \/ Refuse(-1)
        /\ UNCHANGED req

-----------------------------------------------------------------------------
(* Request objects.  A slot (key or tuple) is unset, or holds tokens; own   *)
(* says that it points into the object that a set_..._format call keeps in  *)
(* the request.                                                             *)

Unset == [set |-> FALSE, own |-> FALSE, val |-> <<>>]
Slot(v) == [set |-> TRUE, own |-> FALSE, val |-> v]
OwnSlot(v) == [Slot(v) EXCEPT !.own = TRUE]

\* Bytes of an object that was written over: what is sent is not known.
Garbage == OwnSlot(<<ArrayOf(2)>>)

Requests == {"SELECT", "INSERT", "REPLACE", "UPDATE", "DELETE", "CALL", "CALL_16",
             "AUTH", "EVAL", "UPSERT", "PING"}

\* Every call on the request object leaves the stream alone.
Set(r, code) == req' = r /\ Refuse(code) /\ UNCHANGED reqid

\* tnt_request_init with tnt_request_select and its ten brothers
Create(op) == Set([live |-> TRUE, op |-> op, space |-> 0, index |-> 0, offset |-> 0,
                   limit |-> LimitMax, iterator |-> 0, index_base |-> 0,
                   key |-> Unset, tuple |-> Unset], 0)

\* tnt_request_free: the kept objects are freed and the request is not used again.
Free == req.live /\ Set([live |-> FALSE], 0)

\* tnt_request_set_space, _index, _offset, _limit, _iterator, _index_base
SetSpace(v) == req.live /\ Set([req EXCEPT !.space = v], 0)
SetIndex(v) == req.live /\ Set([req EXCEPT !.index = v], 0)
SetOffset(v) == req.live /\ Set([req EXCEPT !.offset = v], 0)
SetLimit(v) == req.live /\ Set([req EXCEPT !.limit = v], 0)
SetIterator(v) == req.live /\ Set([req EXCEPT !.iterator = v], 0)
SetIndexBase(v) == req.live /\ Set([req EXCEPT !.index_base = v], 0)

SetKey(o) == req.live /\ Set([req EXCEPT !.key = Slot(o)], 0)
SetTuple(o) == req.live /\ Set([req EXCEPT !.tuple = Slot(o)], 0)

\* tnt_request_set_key_format and tnt_request_set_tuple_format: the kept object
\* is reset and written again, so that a format that fails leaves a slot that
\* points to it with other bytes.
Spoil(slot) == IF slot.own THEN Garbage ELSE slot

SetKeyFormat(o) == req.live /\ Set([req EXCEPT !.key = OwnSlot(o)], 0)
SetKeyFormatFails == req.live /\ Set([req EXCEPT !.key = Spoil(@)], -1)
SetTupleFormat(o) == req.live /\ Set([req EXCEPT !.tuple = OwnSlot(o)], 0)
SetTupleFormatFails == req.live /\ Set([req EXCEPT !.tuple = Spoil(@)], -1)

\* tnt_request_set_func, _funcz, _expr, _exprz: the name is the string itself.
SetName(len, ops) ==
    /\ req.live
    /\ IF req.op \in ops THEN Set([req EXCEPT !.key = Slot(<<Raw(len)>>)], 0)
                         ELSE Set(req, -1)
SetFunc(len) == SetName(len, {"CALL", "CALL_16"})
SetExpr(len) == SetName(len, {"EVAL"})

SetOps(o) ==
    /\ req.live
    /\ Set(CASE req.op = "UPDATE" -> [req EXCEPT !.tuple = Slot(o)]
             [] req.op = "UPSERT" -> [req EXCEPT !.key = Slot(o)]
             [] OTHER -> req,
           IF req.op \in {"UPDATE", "UPSERT"} THEN 0 ELSE -1)

\* The field under which req->key is sent; there is none for other types.
KeyField == [SELECT |-> "KEY", UPDATE |-> "KEY", DELETE |-> "KEY", UPSERT |-> "OPS",
             EVAL |-> "EXPRESSION", CALL |-> "FUNCTION", CALL_16 |-> "FUNCTION"]

\* A name is sent behind mp_encode_strl of its length.
KeyTokens(r) == IF KeyField[r.op] \in {"EXPRESSION", "FUNCTION"}
                THEN Str(Bytes(r.key.val)) ELSE r.key.val

If(c, k, v) == IF c THEN <<<<k, v>>>> ELSE <<>>

\* The fields tnt_request_writeout encodes, in its order.
Written(r) ==
    If(Op[r.op] < Op.CALL_16 \/ r.op = "UPSERT", "SPACE", Num(r.space))
    \o If(r.index # 0 /\ r.op \in {"SELECT", "UPDATE", "DELETE"}, "INDEX", Num(r.index))
    \o If(r.op = "SELECT", "LIMIT", Num(r.limit))
    \o If(r.offset # 0 /\ r.op = "SELECT", "OFFSET", Num(r.offset))
    \o If(r.iterator # 0 /\ r.op = "SELECT", "ITERATOR", Num(r.iterator))
    \o (IF r.key.set THEN <<<<KeyField[r.op], KeyTokens(r)>>>> ELSE <<>>)
    \o If(r.tuple.set, "TUPLE", r.tuple.val)
    \o If(r.index_base # 0 /\ r.op \in {"UPDATE", "UPSERT"}, "INDEX_BASE", Num(r.index_base))

\* What the caller set, under the fields a request of this type has.
Uses(op) ==
    CASE op = "SELECT" -> {"SPACE", "INDEX", "LIMIT", "OFFSET", "ITERATOR", "KEY"}
      [] op \in {"INSERT", "REPLACE"} -> {"SPACE", "TUPLE"}
      [] op = "UPDATE" -> {"SPACE", "INDEX", "KEY", "TUPLE", "INDEX_BASE"}
      [] op = "DELETE" -> {"SPACE", "INDEX", "KEY"}
      [] op = "UPSERT" -> {"SPACE", "OPS", "TUPLE", "INDEX_BASE"}
      [] op = "EVAL" -> {"EXPRESSION", "TUPLE"}
      [] op \in {"CALL", "CALL_16"} -> {"FUNCTION", "TUPLE"}
      [] OTHER -> {}

Asked(r) ==
    LET value == [SPACE |-> Num(r.space), INDEX |-> Num(r.index), LIMIT |-> Num(r.limit),
                  OFFSET |-> Num(r.offset), ITERATOR |-> Num(r.iterator),
                  INDEX_BASE |-> Num(r.index_base), TUPLE |-> r.tuple.val,
                  KEY |-> r.key.val, OPS |-> r.key.val,
                  FUNCTION |-> Str(Bytes(r.key.val)), EXPRESSION |-> Str(Bytes(r.key.val))]
        absent == (IF r.key.set THEN {} ELSE {"KEY", "OPS", "FUNCTION", "EXPRESSION"})
                  \cup (IF r.tuple.set THEN {} ELSE {"TUPLE"})
    IN  [k \in Uses(r.op) \ absent |-> value[k]]

\* An int64_t with the bits of the uint64_t x
Signed(x) == IF x > SyncMax THEN x - (2 * SyncMax + 2) ELSE x

\* Mutant: only INT64_MAX itself is skipped.
FirstIdUnmasked(compile) == IF compile /\ reqid = SyncMax THEN 0 ELSE reqid

\* The id a request gets: with *sync = INT64_MAX the counter starts again at 0
\* when its low 63 bits are all set.
FirstId(compile) ==
    IF compile /\ reqid % (SyncMax + 1) = SyncMax THEN 0 ELSE reqid

\* tnt_request_writeout and, with compile, tnt_request_compile.  The id is
\* taken before a key that the type does not have is refused.
Writeout(compile) ==
    /\ req.live
    /\ LET id == FirstId(compile)
           fields == Written(req)
       IN  /\ reqid' = After(id)
           /\ \/ /\ req.key.set => req.op \in DOMAIN KeyField
                 /\ packet' = Packed(Header(req.op, id) \o BodyMap(Len(fields), fields))
                 /\ meant' = [op |-> req.op, sync |-> id, body |-> Asked(req),
                              values |-> {f[2] : f \in Range(fields)}]
                 /\ rc' = (IF compile THEN Signed(id) ELSE 0) /\ proof' = <<>>
              \/ Refuse(-1)
    /\ UNCHANGED req

-----------------------------------------------------------------------------
Direct ==
    \/ tnt_ping \/ tnt_select \/ tnt_delete \/ tnt_update \/ tnt_upsert
    \/ \E op \in {"INSERT", "REPLACE"} : tnt_store_base(op)
    \/ \E op \in {"CALL", "CALL_16", "EVAL"} : tnt_rpc_base(op)
    \/ tnt_execute \/ tnt_auth

\* Bound: the caller has no request object in hand while it uses the direct
\* functions.  The two share nothing but the counter.
RequestNext ==
    \/ StreamReqid
    \/ ~req.live /\ Direct
    \/ \E op \in Requests : Create(op)
    \/ Free
    \/ \E v \in Ids : SetSpace(v) \/ SetIndex(v) \/ SetOffset(v) \/ SetLimit(v)
                      \/ SetIterator(v) \/ SetIndexBase(v)
    \/ \E o \in {Array, Unclosed} : SetKey(o) \/ SetTuple(o) \/ SetOps(o)
    \/ SetKeyFormat(Array) \/ SetKeyFormatFails
    \/ SetTupleFormat(Array) \/ SetTupleFormatFails
    \/ \E len \in Lengths : SetFunc(len) \/ SetExpr(len)
    \/ \E compile \in BOOLEAN : Writeout(compile)

RequestSpec == RequestInit /\ [][RequestNext]_requestVars

-----------------------------------------------------------------------------
(* Properties. *)

\* The key-value pairs of a body, read by a decoder that knows only the tokens.
Pairs(s) ==
    LET p[i \in 1..(Len(s) + 1)] ==
            IF i > Len(s) \/ Ends(s, i + 1) = {} THEN {}
            ELSE {<<s[i].v, SubSeq(s, i + 1, EndOf(s, i + 1))>>} \cup p[EndOf(s, i + 1) + 1]
    IN  p[1]

\* Numbers a server takes for 0 when they are not sent.
Optional == {"INDEX", "OFFSET", "ITERATOR", "INDEX_BASE"}

\* The packet the call produced, from objects that are each one value.
Sound == /\ packet # <<>>
         /\ \A v \in meant.values : OneValue(v)

\* A decoder that reads a packet the way the server does finds, within the
\* announced length, a header with the type and the id of the request and one
\* map with as many pairs as it announces, every field the caller asked for
\* among them once (fields left out are the zero ones): true for the packets of
\* tnt_request_writeout and of each tnt_ping ... tnt_auth function.
Decodes ==
    Sound =>
        LET s == Tail(packet)
            pairs == Pairs(SubSeq(s, 7, Len(s)))
        IN  /\ packet[1].v = Bytes(s)
            /\ s[1].v = 2 /\ s[3].v = Op[meant.op] /\ s[5].v = meant.sync
            /\ s[6].t = "map" /\ EndOf(s, 6) = Len(s)
            /\ s[6].v = Cardinality(pairs)
            /\ Cardinality({p[1] : p \in pairs}) = Cardinality(pairs)
            /\ \A k \in DOMAIN meant.body :
                   \/ <<Key[k], meant.body[k]>> \in pairs
                   \/ /\ k \in Optional /\ meant.body[k] = Num(0)
                      /\ \A p \in pairs : p[1] # Key[k]

\* tnt_request_compile returns -1 only when no packet was written: the request
\* id it returns otherwise is never the one whose 64 bits read as -1, however
\* far the counter has run.
MinusOneMeansError == packet # <<>> => rc # -1

\* A server that keeps sha1(sha1(password)) recovers sha1(password) from the
\* scramble of tnt_scramble_prepare and its own salt, and only for that password.
ScrambleProves ==
    proof # <<>> =>
        \A salt \in Salts, pass \in Passwords :
            LET stored == Sha1(Sha1(pass))
                found == Xor(proof[3], {Sha1(<<salt, stored>>)})
            IN  (\E h \in found : found = {h} /\ Sha1(h) = stored)
                <=> (salt = proof[1] /\ pass = proof[2])
=============================================================================
