--------------------------------- MODULE Tp ---------------------------------
(***************************************************************************)
(* include/tp.h, the header-only client: struct tp, in which requests are  *)
(* built in place in a buffer that is the caller's or grows, and           *)
(* struct tpresponse, which finds the tuples and fields of a reply.        *)
(*                                                                         *)
(* A byte of the buffer is a cell: the first cell of a token holds the     *)
(* token, the others Cont, and a byte nobody wrote is Junk.  The two       *)
(* structs share no state, so a reply is only read here by a client that   *)
(* has no buffer for requests.                                             *)
(***************************************************************************)
EXTENDS Iproto, FiniteSets

CONSTANTS
    Sizes,        \* sizes of the buffer given to tp_init
    MaxRequests,  \* bound: requests that are begun
    MaxPieces,    \* bound: values that are appended
    MaxBehind     \* bound: calls behind the end of an iterator

ASSUME TpAssumption == Sizes \subseteq Nat /\ {MaxRequests, MaxPieces, MaxBehind} \subseteq Nat

VARIABLES
    tp,     \* struct tp
    ret,    \* the last call on tp returned a pointer, not NULL
    reqs,   \* history: what the client asked to be built
    pieces, \* history: how many values it appended
    over,   \* history: a byte was written, or p moved, outside of the buffer
    short,  \* history: a call counted too little, or tp_realloc may have
    input,  \* the bytes of replies that tp_reply is called with, or <<>>
    r,      \* struct tpresponse and what tp_reply returned
    mit     \* a struct tp_map_itr over the current field

tpVars == <<tp, ret, reqs, pieces, over, short, input, r, mit>>

SPACE == 16
INDEX == 17
LIMIT == 18
OFFSET == 19
ITERATOR == 20
KEY == 32
TUPLE == 33
FUNCTION == 34
USERNAME == 35
EXPRESSION == 39

Cont == Tok("cont", 0, 1)
Junk == Tok("junk", 0, 1)
U32(v) == Tok("uint", v, 5)   \* 0xce and four bytes, whatever the value
PrefixSize == 5

-----------------------------------------------------------------------------
(* What each call writes, and how many bytes it counts for that. *)

Request(code, body, sz) == [code |-> code, body |-> body, sz |-> sz]
Exactly(code, body) == Request(code, body, Bytes(body))

tp_ping == Exactly(64, <<MapOf(0)>>)
tp_select(space, limit) ==
    Exactly(1, <<MapOf(6), Uint(SPACE), Uint(space), Uint(INDEX), Uint(0), Uint(OFFSET), Uint(0),
                 Uint(LIMIT), Uint(limit), Uint(ITERATOR), Uint(0), Uint(KEY)>>)
tpi_encode_store(code, space) ==
    Exactly(code, <<MapOf(2), Uint(SPACE), Uint(space), Uint(TUPLE)>>)
tp_insert(space) == tpi_encode_store(2, space)
tp_replace(space) == tpi_encode_store(3, space)
\* The map is counted, and not written.
tp_delete(space) ==
    LET body == <<Uint(SPACE), Uint(space), Uint(KEY)>>
    IN  Request(5, body, MapOf(2).w + Bytes(body))
tp_call(len) == Exactly(6, <<MapOf(2), Uint(FUNCTION)>> \o Str(len) \o <<Uint(TUPLE)>>)
tp_eval(len) == Exactly(8, <<MapOf(2), Uint(EXPRESSION)>> \o Str(len) \o <<Uint(TUPLE)>>)
tp_update(space) == Exactly(4, <<MapOf(3), Uint(SPACE), Uint(space), Uint(KEY)>>)
\* Neither the map nor the user nor "chap-sha1" are counted.
tp_auth(ulen) ==
    Request(7, <<MapOf(2), Uint(USERNAME)>> \o Str(ulen)
                   \o <<Uint(TUPLE), ArrayOf(2)>> \o Str(9) \o Str(ScrambleSize),
            Bytes(<<ArrayOf(2)>> \o Str(0) \o Str(ScrambleSize)))
tp_deauth ==
    Request(7, <<MapOf(2), Uint(USERNAME)>> \o Str(5) \o <<Uint(TUPLE), ArrayOf(0)>>,
            ArrayOf(0).w)

Piece(toks, sz) == [toks |-> toks, sz |-> sz]
CountedPiece(toks) == Piece(toks, Bytes(toks))

tp_updatebegin(n) == CountedPiece(<<Uint(TUPLE), ArrayOf(n)>>)
tp_op(field) == CountedPiece(<<ArrayOf(3)>> \o Str(1) \o <<Uint(field)>>)
\* The size of field_no is counted for the offset and for cut_limit too.
tp_op_splice(field, offset, cut, len) ==
    LET head == <<ArrayOf(5)>> \o Str(1)
    IN  Piece(head \o <<Uint(field), Uint(offset), Uint(cut)>> \o Str(len),
              Bytes(head \o <<Uint(field), Uint(field), Uint(field)>> \o Str(len)))
\* The values: tp_encode_nil, _uint, _int; _str, _sz, _bin and tp_sz; _array and
\* _map, tp_tuple and tp_key; _bool, _float and _double.
EncodeNumber(v) == CountedPiece(<<Uint(v)>>)
EncodeString(len) == CountedPiece(Str(len))
EncodeContainer(tok) == CountedPiece(<<tok>>)
EncodeFloat(width) == CountedPiece(<<Tok("float", 0, width)>>)

TpRequests == {tp_ping, tp_select(1, 300), tp_insert(300), tp_replace(1), tp_delete(1),
             tp_call(3), tp_eval(2), tp_update(1), tp_auth(2), tp_deauth}
Pieces == {tp_updatebegin(1), tp_op(2), tp_op_splice(1, 1, 1, 1), tp_op_splice(1, 300, 1, 1),
           EncodeNumber(300), EncodeString(40), EncodeContainer(ArrayOf(2)), EncodeFloat(9)}

-----------------------------------------------------------------------------
(* The buffer.  A pointer into it is a block and an offset from its start.  *)

Null == [blk |-> -1, off |-> 0]
NoSpace == [blk |-> -1]

\* The bytes of tokens, as cells.
CellsOf(toks) == FlattenSeq([i \in 1..Len(toks) |->
                   <<toks[i]>> \o [j \in 1..(toks[i].w - 1) |-> Cont]])

\* What is written behind the end is not kept.
Put(mem, off, toks) ==
    LET c == CellsOf(toks)
    IN  [i \in 1..Len(mem) |-> IF i \in (off + 1)..(off + Len(c)) THEN c[i - off] ELSE mem[i]]

\* tp_init with a buffer or NULL, with tp_realloc or without
TpInit ==
    /\ \E n \in Sizes \cup {0}, reserve \in BOOLEAN :
           /\ n # 0 \/ reserve
           /\ tp = [blk |-> 0, mem |-> [i \in 1..n |-> Junk], p |-> 0,
                    size |-> Null, sync |-> Null, reserve |-> reserve]
    /\ ret = TRUE /\ reqs = <<>> /\ pieces = 0 /\ over = FALSE /\ short = FALSE
    /\ input = <<>> /\ r = [rc |-> 0] /\ mit = [data |-> <<>>]

Size == Len(tp.mem)

\* Mutant: what is in use already is forgotten.
ReallocRequired(required) == IF 2 * Size < required THEN required ELSE 2 * Size

\* tp_realloc: how much it asks realloc() for
tp_realloc(required) == IF 2 * Size < required THEN Size + required ELSE 2 * Size

\* Mutant: the pointer to the sync is not moved with the buffer.
RebasedSize(q) == IF q # Null /\ q = tp.size THEN [q EXCEPT !.blk = tp.blk + 1] ELSE q

\* The pointers that are set point into the new block, as far from its start.
Rebased(q) == IF q # Null THEN [q EXCEPT !.blk = tp.blk + 1] ELSE q

\* tp_ensure: struct tp with room for sz bytes; oom is a failing realloc().
tp_ensure(sz, oom) ==
    CASE Size - tp.p >= sz -> tp
      [] Size - tp.p < sz /\ (~tp.reserve \/ oom) -> NoSpace
      [] OTHER -> [tp EXCEPT !.blk = @ + 1, !.size = Rebased(@), !.sync = Rebased(@),
                             !.mem = @ \o [i \in 1..(tp_realloc(sz) - Size) |-> Junk]]

\* A token stored through a pointer; into a block that is gone it is lost.
Store(t, q, tok) == IF q.blk = t.blk THEN [t EXCEPT !.mem = Put(@, q.off, <<tok>>)] ELSE t

\* tp_add: the length of the request in hand is written anew.
tp_add(t, sz) ==
    LET u == [t EXCEPT !.p = @ + sz] IN Store(u, u.size, U32(u.p - u.size.off - PrefixSize))

\* tpi_sizeof_header, tpi_encode_header
HeaderToks(code) == <<MapOf(2), Uint(CODE), Uint(code), Uint(SYNC), U32(0)>>
tpi_sizeof_header(code) == PrefixSize + Bytes(HeaderToks(code))
tpi_encode_header(t, code) ==
    [t EXCEPT !.size = [blk |-> t.blk, off |-> t.p],
              !.sync = [blk |-> t.blk, off |-> t.p + tpi_sizeof_header(code) - U32(0).w]]

\* What mp_vformat makes of [%d].
Formatted == <<ArrayOf(1), Uint(300)>>

\* What a call counts and what it writes are numbers of bytes.
ASSUME CountAssumption ==
    /\ \A q \in TpRequests : {q.sz, tpi_sizeof_header(q.code), Bytes(HeaderToks(q.code) \o q.body)} \subseteq Nat
    /\ \A x \in Pieces : {x.sz, Bytes(x.toks)} \subseteq Nat
    /\ Bytes(Formatted) \in Nat

Building == input = <<>> /\ ~over

\* What a call that wrote n bytes from p of t and counted sz leaves behind.
Wrote(t, n, sz) ==
    /\ ret' = TRUE
    /\ over' = (t.p + n > Len(t.mem) \/ t.p + sz > Len(t.mem))
    /\ short' = (short \/ n > sz \/ (tp.p > 0 /\ sz > Size /\ sz <= 2 * Size))

NoRoom == ret' = FALSE /\ UNCHANGED <<tp, over, short>>

\* tp_ping ... tp_deauth
Begin(q, oom) ==
    /\ Building /\ Len(reqs) < MaxRequests
    /\ LET sz == q.sz + tpi_sizeof_header(q.code)
           t == tp_ensure(sz, oom)
           toks == HeaderToks(q.code) \o q.body
       IN  \/ /\ t = NoSpace /\ NoRoom
              /\ UNCHANGED reqs
           \/ /\ t # NoSpace
              /\ tp' = tp_add([tpi_encode_header(t, q.code) EXCEPT
                                  !.mem = Put(@, t.p + PrefixSize, toks)], sz)
              /\ Wrote(t, PrefixSize + Bytes(toks), sz)
              /\ reqs' = Append(reqs, [code |-> q.code, sync |-> 0, body |-> q.body,
                                       exact |-> q.sz = Bytes(q.body)])
    /\ UNCHANGED <<pieces, input, r, mit>>

\* The request in hand grows by tokens; exact: as many bytes as were counted.
Appended(toks, exact) ==
    [reqs EXCEPT ![Len(reqs)].body = @ \o toks, ![Len(reqs)].exact = @ /\ exact]

\* tp_updatebegin, tp_op, tp_op_splice, tp_encode_*: assert(p->size) in tp_add
Extend(x, oom) ==
    /\ Building /\ pieces < MaxPieces /\ tp.size # Null
    /\ LET t == tp_ensure(x.sz, oom)
       IN  \/ /\ t = NoSpace /\ NoRoom
              /\ UNCHANGED <<reqs, pieces>>
           \/ /\ t # NoSpace
              /\ tp' = tp_add([t EXCEPT !.mem = Put(@, t.p, x.toks)], x.sz)
              /\ Wrote(t, Bytes(x.toks), x.sz)
              /\ reqs' = Appended(x.toks, x.sz = Bytes(x.toks))
              /\ pieces' = pieces + 1
    /\ UNCHANGED <<input, r, mit>>

\* tp_format of [%d]: if there was no room, mp_vformat runs a second time on
\* arguments it has consumed and with the old free space as its limit.
tp_format(oom) ==
    /\ Building /\ pieces < MaxPieces /\ tp.size # Null
    /\ LET t == tp_ensure(Bytes(Formatted), oom)
       IN  \/ /\ t = NoSpace /\ NoRoom
              /\ UNCHANGED <<reqs, pieces>>
           \/ /\ t # NoSpace
              /\ tp' = tp_add([t EXCEPT !.mem = IF t = tp THEN Put(@, t.p, Formatted) ELSE @],
                           Bytes(Formatted))
              /\ Wrote(t, Bytes(Formatted), Bytes(Formatted))
              /\ reqs' = Appended(Formatted, t = tp)
              /\ pieces' = pieces + 1
    /\ UNCHANGED <<input, r, mit>>

\* tp_reqid: assert(p->sync != NULL)
tp_reqid(id) ==
    /\ Building /\ tp.sync # Null
    /\ tp' = Store(tp, tp.sync, U32(id))
    /\ reqs' = [reqs EXCEPT ![Len(reqs)].sync = id]
    /\ UNCHANGED <<ret, pieces, over, short, input, r, mit>>

-----------------------------------------------------------------------------
(* Replies. *)

Framed(s) == <<U32(Len(s)), Cont, Cont, Cont, Cont>> \o s

ReplyBytes(pairs, body) ==
    Framed(<<MapOf(Len(pairs))>> \o FlattenSeq([i \in 1..Len(pairs) |->
               <<Uint(pairs[i][1]), Uint(pairs[i][2])>>]) \o body)

TupleFields == <<ArrayOf(2), Uint(7), MapOf(2), Uint(1), Uint(2), Uint(3), ArrayOf(1), Uint(4)>>

\* Replies a server may send: tuples, values that are no tuples, an error, none.
Replies == {
    ReplyBytes(<<<<CODE, 0>>, <<SYNC, 3>>, <<5, 8>>>>, <<MapOf(1), Uint(DATA), ArrayOf(2)>> \o TupleFields
          \o <<ArrayOf(0)>>),
    ReplyBytes(<<<<CODE, 0>>, <<SYNC, 3>>>>, <<MapOf(2), Uint(99), ArrayOf(0), Uint(DATA), ArrayOf(2),
          Uint(5), ArrayOf(1), Uint(6)>>),
    ReplyBytes(<<<<SYNC, 3>>, <<CODE, 32773>>>>, <<MapOf(1), Uint(ERROR)>> \o Str(1)),
    ReplyBytes(<<<<CODE, 0>>, <<SYNC, 3>>>>, <<MapOf(1), Uint(DATA), ArrayOf(0)>>),
    ReplyBytes(<<<<CODE, 0>>, <<SYNC, 3>>>>, <<>>)}

\* Replies of the right length in which something has another type.
Refused == {
    Framed(<<ArrayOf(0)>>),
    Framed(<<MapOf(2), Uint(SYNC), Uint(3), Uint(CODE), ArrayOf(0)>>),
    Framed(<<MapOf(2), Uint(SYNC), Uint(3), ArrayOf(0), Uint(0)>>),
    ReplyBytes(<<<<SYNC, 3>>>>, <<ArrayOf(0)>>),
    ReplyBytes(<<<<SYNC, 3>>>>, <<MapOf(2), Uint(DATA), ArrayOf(0), Uint(ERROR), Uint(1)>>),
    ReplyBytes(<<<<SYNC, 3>>>>, <<MapOf(1), Uint(DATA), MapOf(0)>>)}

\* A container iterator; all zero is the one memset() leaves.
Zero == [data |-> <<>>, count |-> 0, cur |-> 0, elem |-> 0, end |-> 0]

\* tp_array_itr_init, tp_map_itr_init
ItrInit(kind, s) ==
    IF s = <<>> \/ s[1].t # kind \/ Ends(s, 1) = {} THEN Zero
    ELSE [data |-> s, count |-> s[1].v, cur |-> -1, elem |-> 0, end |-> 0]

\* tp_array_itr_next; width is two for tp_map_itr_next, which keeps key_end too.
ItrNext(itr, width) ==
    LET at == IF itr.cur + 1 = 0 THEN 2 ELSE itr.end
        behind == IF width = 1 THEN EndOf(itr.data, at) + 1
                  ELSE EndOf(itr.data, EndOf(itr.data, at) + 1) + 1
    IN  IF itr.cur + 1 >= itr.count THEN [itr EXCEPT !.cur = @ + 1]
        ELSE [itr EXCEPT !.cur = @ + 1, !.elem = at, !.end = behind]

\* tp_array_itr_reset, tp_map_itr_reset
ItrReset(itr) == [itr EXCEPT !.cur = -1, !.elem = 0, !.end = 0]

Elem(itr) == SubSeq(itr.data, itr.elem, itr.end - 1)

\* A response with nothing in it, and the result.
NoResponse(rc) == [rc |-> rc, sync |-> 0, code |-> 0, error |-> <<>>, data |-> <<>>,
                   tuple |-> Zero, field |-> Zero]

\* The pairs of the map at i, each value up to where mp_next stops, and the end.
PairsAt(s, i) ==
    LET f[k \in 0..s[i].v] ==
            IF k = 0 THEN [at |-> i + 1, found |-> <<>>]
            ELSE LET at == f[k - 1].at
                     end == EndOf(s, at + 1)
                 IN  [at |-> end + 1,
                      found |-> Append(f[k - 1].found, <<s[at], SubSeq(s, at + 1, end)>>)]
    IN  f[s[i].v]

\* The value of key k in pairs, or dflt.
ValueOf(pairs, k, dflt) ==
    LET at == {i \in 1..Len(pairs) : pairs[i][1].v = k}
    IN  IF at = {} THEN dflt ELSE pairs[CHOOSE i \in at : \A j \in at : j <= i][2]

\* The bytes of the reply that s begins with.
Total(s) == s[1].v + PrefixSize

\* mp_check on the length itself: its five bytes have to be there.
PrefixComplete(s) == Len(s) >= PrefixSize

\* Mutant: one byte has to follow.
WholeAndMore(s) == Len(s) > Total(s)

Whole(s) == Len(s) >= Total(s)

\* mp_check, up to the end of the buffer, and mp_typeof
MapAt(s, i) == Ends(s, i) # {} /\ s[i].t = "map"

\* The pairs that a loop goes through before it meets one it refuses.
Accepted(pairs, Ok(_)) ==
    LET i == SelectInSeq(pairs, LAMBDA pair : ~Ok(pair))
    IN  IF i = 0 THEN pairs ELSE SubSeq(pairs, 1, i - 1)

HeaderPair(pair) == pair[1].t = "uint" /\ pair[2][1].t = "uint"
BodyPair(pair) == /\ pair[1].v = ERROR => pair[2][1].t = "strl"
                  /\ pair[1].v = DATA => pair[2][1].t = "array"

\* tp_reply: the body of the whole reply s, at i, goes into res.
ReplyBody(s, i, res) ==
    LET b == PairsAt(s, i)
        accepted == Accepted(b.found, BodyPair)
        rows == ValueOf(accepted, DATA, <<>>)
        filled == [res EXCEPT !.error = ValueOf(accepted, ERROR, <<>>), !.data = rows]
    IN  CASE i = Total(s) + 1 -> [res EXCEPT !.rc = Total(s)]
          [] i # Total(s) + 1 /\ ~MapAt(s, i) -> res
          [] i # Total(s) + 1 /\ MapAt(s, i) ->
                 IF accepted # b.found THEN filled
                 ELSE [filled EXCEPT !.rc = b.at - 1, !.tuple = ItrInit("array", rows)]

\* tp_reply: the header of the whole reply s, and then the body.
ReplyHeader(s) ==
    LET h == PairsAt(s, PrefixSize + 1)
        accepted == Accepted(h.found, HeaderPair)
        res == [NoResponse(-1) EXCEPT !.sync = ValueOf(accepted, SYNC, <<Uint(0)>>)[1].v,
                                      !.code = ValueOf(accepted, CODE, <<Uint(0)>>)[1].v]
    IN  CASE ~MapAt(s, PrefixSize + 1) -> NoResponse(-1)
          [] MapAt(s, PrefixSize + 1) /\ accepted # h.found -> res
          [] OTHER -> ReplyBody(s, h.at, res)

tp_reply(s) ==
    CASE s = <<>> -> NoResponse(0)
      [] s # <<>> /\ (~PrefixComplete(s) \/ s[1].t # "uint") -> NoResponse(-1)
      [] PrefixComplete(s) /\ s[1].t = "uint" ->
             IF Whole(s) THEN ReplyHeader(s) ELSE NoResponse(0)

\* The bytes of two replies are there up to a point, and tp_reply reads the first.
ReadReply ==
    /\ input = <<>> /\ Size = 0
    /\ \E s \in Replies \cup Refused, t \in Replies :
           \E n \in 1..Len(s \o t) : input' = SubSeq(s \o t, 1, n)
    /\ r' = tp_reply(input')
    /\ UNCHANGED <<tp, ret, reqs, pieces, over, short, mit>>

Reading == input # <<>> /\ r.rc > 0
OnlyReading == UNCHANGED <<tp, ret, reqs, pieces, over, short, input>>
NoMap == mit' = [data |-> <<>>]

\* Mutant: the fields of the last tuple stay behind the end.
tp_next_keeps ==
    /\ Reading /\ r.tuple.cur < r.tuple.count + MaxBehind
    /\ LET t == ItrNext(r.tuple, 1)
       IN  r' = [r EXCEPT !.tuple = t, !.field = IF t.cur >= t.count THEN @ ELSE ItrInit("array", Elem(t))]
    /\ NoMap /\ OnlyReading

tp_next ==
    /\ Reading /\ r.tuple.cur < r.tuple.count + MaxBehind
    /\ LET t == ItrNext(r.tuple, 1)
       IN  r' = [r EXCEPT !.tuple = t, !.field = IF t.cur >= t.count THEN Zero ELSE ItrInit("array", Elem(t))]
    /\ NoMap /\ OnlyReading

tp_hasnext == r.tuple.cur + 1 < r.tuple.count

tp_rewind ==
    /\ Reading
    /\ r' = [r EXCEPT !.tuple = ItrReset(@), !.field = Zero]
    /\ NoMap /\ OnlyReading

tp_nextfield ==
    /\ Reading /\ r.field.cur < r.field.count + MaxBehind
    /\ r' = [r EXCEPT !.field = ItrNext(@, 1)]
    /\ NoMap /\ OnlyReading

tp_hasnextfield == r.field.cur + 1 < r.field.count

tp_rewindfield ==
    /\ Reading
    /\ r' = [r EXCEPT !.field = ItrReset(@)]
    /\ NoMap /\ OnlyReading

tp_gettuple == Elem(r.tuple)
tp_getfield == Elem(r.field)

\* tp_map_itr_init on the current field
MapInit ==
    /\ Reading /\ r.field.elem # 0
    /\ ItrInit("map", tp_getfield) # Zero
    /\ mit' = ItrInit("map", tp_getfield)
    /\ OnlyReading /\ UNCHANGED r

MapNext ==
    /\ Reading /\ mit.data # <<>> /\ mit.cur < mit.count + MaxBehind
    /\ mit' = ItrNext(mit, 2)
    /\ OnlyReading /\ UNCHANGED r

MapReset ==
    /\ Reading /\ mit.data # <<>>
    /\ mit' = ItrReset(mit)
    /\ OnlyReading /\ UNCHANGED r

-----------------------------------------------------------------------------
TpNext ==
    \/ \E q \in TpRequests, oom \in BOOLEAN : Begin(q, oom)
    \/ \E x \in Pieces, oom \in BOOLEAN : Extend(x, oom)
    \/ \E oom \in BOOLEAN : tp_format(oom)
    \/ tp_reqid(9)
    \/ ReadReply
    \/ tp_next \/ tp_rewind \/ tp_nextfield \/ tp_rewindfield
    \/ MapInit \/ MapNext \/ MapReset

TpSpec == TpInit /\ [][TpNext]_tpVars

-----------------------------------------------------------------------------
(* Properties. *)

\* The offsets at which the lengths say that requests begin, and their end.
Frames ==
    LET f[i \in 0..Len(reqs)] == IF i = 0 THEN 0 ELSE f[i - 1] + PrefixSize + tp.mem[f[i - 1] + 1].v
    IN  f

\* The tokens of the bytes from off + 1 to end.
Content(off, end) ==
    SelectSeq(SubSeq(tp.mem, off + 1, end), LAMBDA c : c # Cont)

\* Through values that are appended, requests that follow, reallocations that
\* move the buffer, calls that fail and ids that are set late, the length of
\* every request in the buffer leads to the next one and the last ends at tp_used;
\* each holds its own code, the id that tp_reqid gave to it and the values that
\* were appended to it (unless a call miscounted: tp_delete, tp_op_splice,
\* tp_auth, tp_deauth, or tp_format that had to grow).
RequestsIntact ==
    ~over =>
        LET at == Frames
        IN  /\ \A i \in 1..Len(reqs) : tp.mem[at[i - 1] + 1].t = "uint"
            /\ at[Len(reqs)] = tp.p
            /\ \A i \in 1..Len(reqs) : reqs[i].exact =>
                   Content(at[i - 1] + PrefixSize, at[i])
                       = [HeaderToks(reqs[i].code) EXCEPT ![5] = U32(reqs[i].sync)] \o reqs[i].body

\* No byte is written outside of the buffer, static or grown by tp_realloc,
\* unless a call wrote more than it counted, or wanted more bytes than the
\* buffer has and not more than twice as many while part of it was in use:
\* then tp_realloc only doubles and tp_ensure does not look again.
InBounds == over => short

\* Whatever comes behind the first reply in the buffer, and wherever it stops
\* behind the first reply's length, tp_reply returns 0 until the reply is there
\* whole; then its size, with its sync, or -1 if a type in it is wrong.  (Where
\* the buffer ends inside the length it returns -1, and the comment of tp_reply
\* says 0 for every part of a response.)
WholeReply ==
    Len(input) >= PrefixSize =>
        LET total == input[1].v + PrefixSize
            refused == \E s \in Refused : IsPrefix(s, input)
        IN  CASE Len(input) < total -> r.rc = 0
              [] Len(input) >= total /\ refused -> r.rc = -1
              [] Len(input) >= total /\ ~refused -> r.rc = total /\ r.sync = 3

\* The elements of a container, found from its start; none in another value.
Elements(kind, s) ==
    LET width == IF kind = "map" THEN 2 ELSE 1
        f[i \in 0..s[1].v] ==
            IF i = 0 THEN 1
            ELSE LET e == EndOf(s, f[i - 1] + 1) IN IF width = 1 THEN e ELSE EndOf(s, e + 1)
    IN  IF s = <<>> \/ s[1].t # kind THEN <<>>
        ELSE [i \in 1..s[1].v |-> SubSeq(s, f[i - 1] + 1, f[i])]

\* The element an iterator has counted to, if any.
Nth(itr, all) == IF itr.cur + 1 \in 1..Len(all) THEN all[itr.cur + 1] ELSE <<>>

\* Tuples and fields stay in step through every order of tp_next, tp_nextfield
\* and the rewinds: the current tuple is the one counted to, the fields are
\* those of that tuple, and there are none before the first tuple, behind the
\* last one and in a value that is no tuple; so too the pairs of a map.
CursorsAgree ==
    Reading =>
        LET rows == Elements("array", r.data)
            fields == Elements("array", Nth(r.tuple, rows))
        IN  /\ Nth(r.tuple, rows) # <<>> => tp_gettuple = Nth(r.tuple, rows)
            /\ tp_hasnext <=> r.tuple.cur + 1 < Len(rows)
            /\ Nth(r.field, fields) # <<>> => tp_getfield = Nth(r.field, fields)
            /\ tp_hasnextfield <=> r.field.cur + 1 < Len(fields)
            /\ mit.data # <<>> =>
                   LET pairs == Elements("map", tp_getfield)
                   IN  Nth(mit, pairs) # <<>> => Elem(mit) = Nth(mit, pairs)
=============================================================================
