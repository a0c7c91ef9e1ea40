----------------------------- MODULE TntReader ------------------------------
(***************************************************************************)
(* Reading replies out of a memory stream: the buffer of tnt/tnt_buf.c,    *)
(* the two reply parsers of tnt/tnt_reply.c (tnt_reply, which copies, and  *)
(* tnt_reply0, which does not) and the iterators of tnt/tnt_iter.c over    *)
(* replies and over the tuples of a reply.                                 *)
(*                                                                         *)
(* The bytes a server sent are handed to the stream in pieces that stop    *)
(* anywhere, so that a reply may be there in part.  Each msgpack token is  *)
(* one cell here, except the length prefix, which is five.                 *)
(***************************************************************************)
EXTENDS Iproto, FiniteSets

CONSTANTS
    MaxReplies,  \* bound: replies the server sends
    MaxPast      \* bound: calls of tnt_next behind the end of an iterator

ASSUME ReaderAssumption == MaxReplies \in Nat /\ MaxPast \in Nat

VARIABLES
    sent,    \* what the server sent, a sequence of replies
    data,    \* sb->data[0 .. sb->size - 1]
    rdoff,   \* sb->rdoff
    as,      \* sb->as: the buffer belongs to the caller
    raw,     \* history: tnt_buf_read was used
    it,      \* the reply iterator: its status, its reply, what tnt_next returned
    got,     \* history: replies that tnt_next returned
    heap,    \* copies of replies that are allocated
    tup,     \* the array or map iterator
    seen     \* history: what it returned since it was created or rewound

readerVars == <<sent, data, rdoff, as, raw, it, got, heap, tup, seen>>

HdrSize == 5
SCHEMA_ID == 5
METADATA == 50
SQL_INFO == 66
ErrorBit == 32768

-----------------------------------------------------------------------------
(* The server: replies it may send, and sequences it never should.          *)

Hdr(pairs) == <<MapOf(Len(pairs))>> \o FlattenSeq([i \in 1..Len(pairs) |->
                  <<Uint(pairs[i][1]), Uint(pairs[i][2])>>])
Body(pairs) == <<MapOf(Len(pairs))>> \o FlattenSeq([i \in 1..Len(pairs) |->
                  <<Uint(pairs[i][1])>> \o pairs[i][2]])

Tuples == <<ArrayOf(2), ArrayOf(2), Uint(7), Uint(8), Uint(9)>>
Info == <<MapOf(2), Uint(0), ArrayOf(1), Uint(1), Uint(2), Uint(3)>>

\* The reply an answer stands for, as struct tnt_reply has it.
Parsed(sync, code, schema, error, rows, metadata, sqlinfo) ==
    [buf |-> TRUE, sync |-> sync, code |-> code, schema_id |-> schema, error |-> error,
     data |-> rows, metadata |-> metadata, sqlinfo |-> sqlinfo]  \* NULL is <<>>

\* A cleared reply with a copy of its bytes, and one without: memset(r, 0, sizeof *r),
\* by tnt_reply_init and on errors
Copied == Parsed(0, 0, 0, <<>>, <<>>, <<>>, <<>>)
NoReply == [Copied EXCEPT !.buf = FALSE]

\* hdr and body go over the wire; means is what the parser has to find.
Good == {
    [hdr |-> Hdr(<<<<CODE, 0>>, <<SYNC, 3>>, <<SCHEMA_ID, 8>>>>), body |-> Body(<<<<DATA, Tuples>>>>),
     means |-> Parsed(3, 0, 8, <<>>, Tuples, <<>>, <<>>)],
    [hdr |-> Hdr(<<<<SYNC, 4>>, <<CODE, ErrorBit + 5>>>>), body |-> Body(<<<<ERROR, Str(1)>>>>),
     means |-> Parsed(4, 5, 0, Str(1), <<>>, <<>>, <<>>)],
    [hdr |-> Hdr(<<<<CODE, 0>>, <<SYNC, 5>>>>), body |-> <<>>,
     means |-> Parsed(5, 0, 0, <<>>, <<>>, <<>>, <<>>)],
    [hdr |-> Hdr(<<<<CODE, 0>>, <<SYNC, 6>>>>),
     body |-> Body(<<<<METADATA, <<ArrayOf(0)>>>>, <<99, <<Uint(1)>>>>, <<SQL_INFO, Info>>>>),
     means |-> Parsed(6, 0, 0, <<>>, <<>>, <<ArrayOf(0)>>, Info)]}

Bad == {
    [hdr |-> Hdr(<<<<CODE, 0>>, <<7, 1>>>>), body |-> <<>>, means |-> NoReply],
    [hdr |-> <<ArrayOf(0)>>, body |-> Body(<<>>), means |-> NoReply],
    [hdr |-> Hdr(<<<<SYNC, 1>>>>), body |-> Body(<<<<DATA, <<Uint(7)>>>>>>), means |-> NoReply],
    [hdr |-> Hdr(<<<<SYNC, 2>>>>), body |-> <<MapOf(1), Uint(DATA), ArrayOf(2), Uint(7)>>,
     means |-> NoReply]}

More == Tok("more", 0, 1)
Prefix(n) == <<Uint(n), More, More, More, More>>
OnWire(rep) == Prefix(Len(rep.hdr \o rep.body)) \o rep.hdr \o rep.body
Wire(reps) == FlattenSeq([i \in 1..Len(reps) |-> OnWire(reps[i])])

-----------------------------------------------------------------------------
(* The parser. *)

\* tnt_reply_len: 0 and the length of the reply, 1 and what is missing of it
\* as far as it is known, or -1.
ReplyLen(s) ==
    CASE Len(s) < HdrSize -> [rc |-> 1, len |-> HdrSize - Len(s)]
      [] Len(s) >= HdrSize /\ s[1].t # "uint" -> [rc |-> -1, len |-> 0]
      [] OTHER -> LET total == s[1].v + HdrSize
                  IN  IF Len(s) < total THEN [rc |-> 1, len |-> total - Len(s)]
                                        ELSE [rc |-> 0, len |-> total]

\* mp_check = 0 and the first value is a map.
StartsWithMap(s) == s # <<>> /\ Ends(s, 1) # {} /\ s[1].t = "map"

\* The value of the last pair <<k, v>> in pairs, or dflt.
LastOf(pairs, k, dflt) ==
    LET at == {i \in 1..Len(pairs) : pairs[i][1] = k}
    IN  IF at = {} THEN dflt ELSE pairs[CHOOSE i \in at : \A j \in at : j <= i][2]

\* tnt_reply_hdr0
Hdr0(s) ==
    LET n == s[1].v
        pairs == [i \in 1..n |-> <<s[2 * i].v, s[2 * i + 1].v>>]
    IN  IF /\ StartsWithMap(s)
           /\ \A i \in 1..n : s[2 * i].t = "uint" /\ s[2 * i + 1].t = "uint"
                              /\ s[2 * i].v \in {SYNC, CODE, SCHEMA_ID}
        THEN [rc |-> 0, off |-> 2 * n + 1, sync |-> LastOf(pairs, SYNC, 0),
              code |-> LastOf(pairs, CODE, 0) % ErrorBit, schema_id |-> LastOf(pairs, SCHEMA_ID, 0)]
        ELSE [rc |-> -1]

\* The pairs of the map s, each value up to where mp_next stops.
PairsOf(s) ==
    LET p[i \in 0..s[1].v] ==
            IF i = 0 THEN [at |-> 2, found |-> <<>>]
            ELSE LET at == p[i - 1].at
                     end == EndOf(s, at + 1)
                 IN  [at |-> end + 1,
                      found |-> Append(p[i - 1].found, <<s[at].v, SubSeq(s, at + 1, end)>>)]
    IN  p[s[1].v].found

\* The types tnt_reply_body0 insists on.
TypeOf == [k \in {ERROR, DATA, METADATA, SQL_INFO} |->
              CASE k = ERROR -> "strl" [] k = SQL_INFO -> "map" [] OTHER -> "array"]

BodyOf(pairs) ==
    IF \A i \in 1..Len(pairs) :
           pairs[i][1] \in DOMAIN TypeOf => pairs[i][2][1].t = TypeOf[pairs[i][1]]
    THEN [rc |-> 0, error |-> LastOf(pairs, ERROR, <<>>), data |-> LastOf(pairs, DATA, <<>>),
          metadata |-> LastOf(pairs, METADATA, <<>>), sqlinfo |-> LastOf(pairs, SQL_INFO, <<>>)]
    ELSE [rc |-> -1]

\* tnt_reply_body0
Body0(s) == IF StartsWithMap(s) THEN BodyOf(PairsOf(s)) ELSE [rc |-> -1]

\* r with the fields that each of them sets; buf is not among them.
SetHdr(r, h) == [Parsed(h.sync, h.code, h.schema_id,
                        r.error, r.data, r.metadata, r.sqlinfo) EXCEPT !.buf = r.buf]
SetBody(r, b) == [Parsed(r.sync, r.code, r.schema_id,
                         b.error, b.data, b.metadata, b.sqlinfo) EXCEPT !.buf = r.buf]

\* The header h goes into r and then, unless s ends there, the body b does.
Fill(r, s, h, b) ==
    CASE h.rc # 0 -> [rc |-> -1, r |-> r]
      [] h.rc = 0 /\ h.off = Len(s) -> [rc |-> 0, r |-> SetHdr(r, h)]
      [] h.rc = 0 /\ h.off # Len(s) /\ b.rc # 0 -> [rc |-> -1, r |-> SetHdr(r, h)]
      [] OTHER -> [rc |-> 0, r |-> SetBody(SetHdr(r, h), b)]

HdrBody(r, s) ==
    LET h == Hdr0(s)
    IN  Fill(r, s, h, Body0(SubSeq(s, h.off + 1, Len(s))))

\* tnt_reply_from with tnt_reply_cb, on a buffer with the whole reply: r is
\* cleared, has a copy if there is memory for it (no oom), is filled, and is
\* cleared again when that fails.
ReplyFrom(s, oom) ==
    LET size == s[1].v
        p == HdrBody(Copied, SubSeq(s, HdrSize + 1, HdrSize + size))
    IN  CASE s[1].t # "uint" \/ oom -> [rc |-> -1, off |-> HdrSize, r |-> NoReply]
          [] s[1].t = "uint" /\ ~oom /\ p.rc # 0 ->
                 [rc |-> -1, off |-> HdrSize + size, r |-> NoReply]
          [] OTHER -> [rc |-> 0, off |-> HdrSize + size, r |-> p.r]

\* tnt_reply, into a reply that tnt_reply_init has cleared
Reply(s, oom) ==
    LET l == ReplyLen(s)
    IN  IF l.rc # 0 THEN [rc |-> l.rc, off |-> l.len, r |-> NoReply] ELSE ReplyFrom(s, oom)

\* Mutant: it looks for a body in all that is in the buffer.
Reply0Unbounded(s, r0) ==
    LET l == ReplyLen(s)
        p == HdrBody(r0, SubSeq(s, HdrSize + 1, Len(s)))
    IN  CASE l.rc # 0 -> [rc |-> l.rc, off |-> l.len, r |-> r0]
          [] l.rc = 0 /\ p.rc # 0 -> [rc |-> -1, off |-> 0, r |-> p.r]
          [] OTHER -> [rc |-> 0, off |-> l.len, r |-> p.r]

\* tnt_reply0: nothing is copied, and nothing is cleared.  The caller's r0 keeps
\* its buf, the body of an earlier reply if this one has none and, when the body
\* is refused, has the new header; off is not set then (0 here).
Reply0(s, r0) ==
    LET l == ReplyLen(s)
        p == HdrBody(r0, SubSeq(s, HdrSize + 1, l.len))
    IN  CASE l.rc # 0 -> [rc |-> l.rc, off |-> l.len, r |-> r0]
          [] l.rc = 0 /\ p.rc # 0 -> [rc |-> -1, off |-> 0, r |-> p.r]
          [] OTHER -> [rc |-> 0, off |-> l.len, r |-> p.r]

-----------------------------------------------------------------------------
(* The stream. *)

NoIter == [kind |-> "none"]

\* tnt_buf, or tnt_buf_as over everything the server sent; tnt_iter_reply
ReaderInit ==
    /\ sent \in BoundedSeq(Good \cup Bad, MaxReplies)
    /\ as \in BOOLEAN
    /\ data = IF as THEN Wire(sent) ELSE <<>>
    /\ rdoff = 0 /\ raw = FALSE
    /\ it = [live |-> TRUE, ok |-> TRUE, r |-> NoReply, next |-> 1]
    /\ got = <<>> /\ heap = 0
    /\ tup = NoIter /\ seen = <<>>

\* tnt_buf_write of the next n bytes; tnt_buf_writev of several segments gives
\* them in the same order.
BufWrite(segs) ==
    LET n == FoldSeq(LAMBDA x, y : x + y, 0, segs)
    IN  /\ ~as /\ Len(data) + n <= Len(Wire(sent))
        /\ data' = data \o SubSeq(Wire(sent), Len(data) + 1, Len(data) + n)
        /\ UNCHANGED <<sent, rdoff, as, raw, it, got, heap, tup, seen>>

\* tnt_buf_read: the bytes go from the caller's buffer into the stream's.
BufRead(n) ==
    /\ rdoff < Len(data)
    /\ LET size == IF n > Len(data) - rdoff THEN Len(data) - rdoff ELSE n
       IN  /\ data' = [i \in 1..Len(data) |-> IF i \in (rdoff + 1)..(rdoff + size) THEN More ELSE data[i]]
           /\ rdoff' = rdoff + size
    /\ raw' = TRUE
    /\ UNCHANGED <<sent, as, it, got, heap, tup, seen>>

Rest == SubSeq(data, rdoff + 1, Len(data))

\* tnt_buf_reply
BufReply(oom) ==
    CASE data = <<>> -> [rc |-> -1, off |-> 0, r |-> NoReply]
      [] data # <<>> /\ Rest = <<>> -> [rc |-> 1, off |-> 0, r |-> NoReply]
      [] OTHER -> Reply(Rest, oom)

\* Mutant: the read offset moves even if the reply is incomplete.
AdvancedAlways(res) == rdoff + res.off

\* The offset moves past a reply that was read.
Advanced(res) == IF res.rc = 0 THEN rdoff + res.off ELSE rdoff

\* Mutant: it is forgotten.
NotFreed == heap

\* The iterator's reply, if it has a copy, is freed.
Freed == IF it.r.buf THEN heap - 1 ELSE heap

\* read_reply came to res: the iterator has the new reply, if there is one.
TakeReply(res) ==
    /\ it' = [it EXCEPT !.ok = @ /\ res.rc # -1, !.r = res.r,
                        !.next = IF res.rc = 0 THEN 1 ELSE 0]
    /\ rdoff' = Advanced(res)
    /\ heap' = Freed + (IF res.r.buf THEN 1 ELSE 0)
    /\ got' = IF res.rc = 0 THEN Append(got, res.r) ELSE got

\* tnt_next of a reply iterator, tnt_iter_reply_next: the status says nothing
\* of the end.  An iterator over the old reply's tuples is not used any more.
ReplyNext(oom) ==
    /\ it.live
    /\ TakeReply(BufReply(oom))
    /\ tup' = NoIter /\ seen' = <<>>
    /\ UNCHANGED <<sent, data, as, raw>>

\* tnt_rewind of a reply iterator, which has no rewind function
ReplyRewind ==
    /\ it.live
    /\ it' = [it EXCEPT !.ok = TRUE]
    /\ UNCHANGED <<sent, data, rdoff, as, raw, got, heap, tup, seen>>

\* tnt_iter_free of it
ReplyFree ==
    /\ it.live
    /\ heap' = Freed
    /\ it' = [it EXCEPT !.live = FALSE, !.r = NoReply]
    /\ tup' = NoIter /\ seen' = <<>>
    /\ UNCHANGED <<sent, data, rdoff, as, raw, got>>

-----------------------------------------------------------------------------
(* Iterators over a value of the current reply. *)

Iter(kind, s) == [kind |-> kind, s |-> s, count |-> s[1].v, idx |-> -1, end |-> 0, ok |-> TRUE]

\* tnt_iter_array and tnt_iter_map: NULL unless s is such a value
IterOver(kind, s) ==
    /\ tup = NoIter
    /\ s # <<>> /\ Ends(s, 1) # {} /\ s[1].t = kind
    /\ tup' = Iter(kind, s) /\ seen' = <<>>
    /\ UNCHANGED <<sent, data, rdoff, as, raw, it, got, heap>>
IterArray == IterOver("array", it.r.data)
IterMap == IterOver("map", it.r.sqlinfo)

\* Mutant: the first element is found again after the end.
StartAgain == IF tup.idx <= 0 THEN 2 ELSE tup.end

\* Where the next element starts: behind the container's header, or behind the
\* element before it.
Start == IF tup.idx + 1 = 0 THEN 2 ELSE tup.end

\* tnt_iter_array_next steps over one value, tnt_iter_map_next over two.
Behind(at) == IF tup.kind = "array" THEN EndOf(tup.s, at) + 1
              ELSE EndOf(tup.s, EndOf(tup.s, at) + 1) + 1

IterNext ==
    /\ tup # NoIter /\ tup.idx < tup.count + MaxPast
    /\ IF tup.idx + 1 >= tup.count
       THEN /\ tup' = [tup EXCEPT !.idx = @ + 1, !.ok = FALSE]
            /\ UNCHANGED seen
       ELSE /\ tup' = [tup EXCEPT !.idx = @ + 1, !.end = Behind(Start)]
            /\ seen' = Append(seen, SubSeq(tup.s, Start, Behind(Start) - 1))
    /\ UNCHANGED <<sent, data, rdoff, as, raw, it, got, heap>>

\* tnt_iter_array_rewind and tnt_iter_map_rewind
IterRewind ==
    /\ tup # NoIter
    /\ tup' = [tup EXCEPT !.idx = -1, !.end = 0, !.ok = TRUE]
    /\ seen' = <<>>
    /\ UNCHANGED <<sent, data, rdoff, as, raw, it, got, heap>>

-----------------------------------------------------------------------------
ReaderNext ==
    \/ \E n \in 1..Len(Wire(sent)) : BufWrite(<<n>>)
    \/ \E n, m \in {1, HdrSize} : BufWrite(<<n, m>>)
    \/ BufRead(HdrSize)
    \/ \E oom \in BOOLEAN : ReplyNext(oom)
    \/ ReplyRewind \/ ReplyFree
    \/ IterArray \/ IterMap \/ IterNext \/ IterRewind

ReaderSpec == ReaderInit /\ [][ReaderNext]_readerVars

-----------------------------------------------------------------------------
(* Properties. *)

\* The replies of the server up to the first one that cannot be parsed.
Expected ==
    LET bad == {i \in 1..Len(sent) : sent[i] \in Bad}
        n == IF bad = {} THEN Len(sent) ELSE (CHOOSE i \in bad : \A j \in bad : i <= j) - 1
    IN  [i \in 1..n |-> sent[i].means]

\* However the bytes are cut into writes, and however often a read comes too
\* early or fails, tnt_next over a tnt_buf yields the server's replies whole,
\* in order and each once, with the fields tnt_reply_hdr0 and tnt_reply_body0
\* are to find, and never one of those that have to be refused.
ParsedInOrder == ~raw => IsPrefix(got, Expected)

\* What is missing of the reply that has begun, as far as it is known.
Lacking == LET total == Len(OnWire(sent[Len(got) + 1]))
           IN  (IF Len(Rest) < HdrSize THEN HdrSize ELSE total) - Len(Rest)

\* a of tnt_reply and b of tnt_reply0 into a cleared reply are the same result,
\* and what is missing is exact.
SameResult(a, b) ==
    /\ a.rc = b.rc /\ (a.rc # -1 => a.off = b.off)
    /\ a.rc = 0 => a.r = [b.r EXCEPT !.buf = TRUE]
    /\ Len(got) < Len(sent) /\ a.rc = 1 => a.off = Lacking

\* The fields of r that every reply sets.
HeaderFields(r) == <<r.sync, r.code, r.schema_id>>

\* Wherever the bytes in the buffer stop, tnt_reply and tnt_reply0 agree: on
\* the result, on the offset unless they fail, and on every field of a reply that
\* was read into a cleared struct; into a used one, tnt_reply0 still reads the
\* header of this reply and touches nothing while bytes are missing.  "Need
\* 'offset' bytes more" (tnt_reply.h) is exact, so that a caller who reads that
\* many takes nothing of the next reply and needs two reads at most.
ParsersAgree ==
    LET a == Reply(Rest, FALSE)
        used == Reply0(Rest, it.r)
    IN  ~raw => /\ SameResult(a, Reply0(Rest, NoReply))
                /\ used.rc = a.rc
                /\ a.rc = 0 => HeaderFields(used.r) = HeaderFields(a.r)
                /\ a.rc = 1 => used.r = it.r

\* A reply iterator has at most the copy of its current reply allocated, through
\* replies that fail to parse, incomplete ones and lack of memory; nothing is
\* left after tnt_iter_free.
OneCopy == heap = IF it.r.buf THEN 1 ELSE 0

\* An array or map iterator returns each element (each pair) of the value once
\* and in order and reports the end exactly when it has returned them all, also
\* after rewinding in the middle and after calls behind the end.
VisitsAll ==
    tup # NoIter =>
        /\ IsPrefix(FlattenSeq(seen), Tail(tup.s))
        /\ \A i \in 1..Len(seen) :
               IF tup.kind = "array" THEN OneValue(seen[i])
               ELSE OneValue(<<ArrayOf(2)>> \o seen[i])
        /\ tup.ok <=> tup.idx < tup.count
        /\ ~tup.ok => Len(FlattenSeq(seen)) = Len(tup.s) - 1
=============================================================================
