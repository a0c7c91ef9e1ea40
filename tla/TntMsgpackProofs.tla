-------------------------- MODULE TntMsgpackProofs ---------------------------
(***************************************************************************)
(* Proofs about the components that write and read msgpack: the requests   *)
(* of TntRequest, the replies of TntReader, the buffer of Tp and the       *)
(* objects of TntObject, each a specification of its own.                  *)
(***************************************************************************)
EXTENDS TntObject, TntRequest, TntReader, Tp, SeqFacts

-----------------------------------------------------------------------------
(* TntRequest: the ids and the scramble. *)

\* The request counter is a uint64_t, and a call that has produced a packet
\* has not returned -1.
IdInv ==
    /\ reqid \in 0..(2 * SyncMax + 1)
    /\ MinusOneMeansError

\* Adding one to the counter, or cutting it to 32 bits, gives a uint64_t.
LEMMA CounterStays ==
    ASSUME NEW id \in 0..(2 * SyncMax + 1)
    PROVE  /\ After(id) \in 0..(2 * SyncMax + 1)
           /\ id % Reqid32 \in 0..(2 * SyncMax + 1)
  <1>1. SyncMax \in Nat /\ Reqid32 \in Nat \ {0} /\ Reqid32 <= 2 * SyncMax + 2
    BY RequestAssumption
  <1>2. \A m \in Nat \ {0} : \A x \in Nat : x % m \in 0..(m - 1)
    OBVIOUS
  <1>3. (id + 1) % (2 * SyncMax + 2) \in 0..(2 * SyncMax + 2 - 1)
    BY <1>1, <1>2
  <1>4. id % Reqid32 \in 0..(Reqid32 - 1)
    BY <1>1, <1>2
  <1> QED
    BY <1>1, <1>3, <1>4 DEF After

\* tnt_request_compile takes no id whose 64 bits read as -1.
LEMMA CompiledIdPositive ==
    ASSUME reqid \in 0..(2 * SyncMax + 1), NEW compile \in BOOLEAN
    PROVE  /\ FirstId(compile) \in 0..(2 * SyncMax + 1)
           /\ compile => Signed(FirstId(compile)) # -1
  <1>1. SyncMax \in Nat
    BY RequestAssumption
  <1>2. (2 * SyncMax + 1) % (SyncMax + 1) = SyncMax
    <2>1. 2 * SyncMax + 1 = 1 * (SyncMax + 1) + SyncMax
      BY <1>1
    <2> QED
      BY <1>1, <2>1
  <1>3. \A id \in 0..(2 * SyncMax) : Signed(id) # -1
    BY <1>1 DEF Signed
  <1>4. FirstId(compile) \in 0..(2 * SyncMax + 1)
    BY <1>1 DEF FirstId
  <1>5. compile => FirstId(compile) # 2 * SyncMax + 1
    BY <1>1, <1>2 DEF FirstId
  <1>6. \A id \in 0..(2 * SyncMax + 1) : id # 2 * SyncMax + 1 => id \in 0..(2 * SyncMax)
    BY <1>1
  <1> QED
    BY <1>3, <1>4, <1>5, <1>6

\* A call that writes nothing has no packet to return an id for.
LEMMA RefusedIsFine ==
    ASSUME NEW code, Refuse(code), reqid' \in 0..(2 * SyncMax + 1)
    PROVE  IdInv'
  BY DEF Refuse, IdInv, MinusOneMeansError

\* The functions that encode one request return 0 with the packet.
LEMMA EncodeIsFine ==
    ASSUME IdInv,
           NEW op, NEW n, NEW order, NEW args, NEW objects,
           Encode(op, n, order, args, objects)
    PROVE  IdInv'
  <1>1. /\ reqid \in 0..(2 * SyncMax + 1)
        /\ After(reqid) \in 0..(2 * SyncMax + 1)
    BY CounterStays DEF IdInv
  <1>2. CASE Refuse(-1)
    <2>1. reqid' = After(reqid) \/ reqid' = reqid
      BY DEF Encode
    <2> QED
      BY <1>1, <1>2, <2>1, RefusedIsFine
  <1>3. CASE reqid' = After(reqid) /\ rc' = 0
    BY <1>1, <1>3 DEF IdInv, MinusOneMeansError
  <1> QED
    BY <1>2, <1>3 DEF Encode

\* Every step of Next keeps the counter a uint64_t and -1 an error.
LEMMA IdInvStep ==
    ASSUME IdInv, [RequestNext]_requestVars
    PROVE  IdInv'
  <1>1. reqid \in 0..(2 * SyncMax + 1)
    BY DEF IdInv
  <1>2. CASE StreamReqid
    BY <1>1, <1>2, CounterStays, RefusedIsFine DEF StreamReqid
  <1>3. CASE Direct
    <2>1. CASE tnt_ping
      BY <2>1, EncodeIsFine DEF tnt_ping
    <2>2. CASE \E op \in {"INSERT", "REPLACE"} : tnt_store_base(op)
      BY <2>2, EncodeIsFine DEF tnt_store_base
    <2>3. CASE tnt_select
      BY <2>3, EncodeIsFine DEF tnt_select
    <2>4. CASE tnt_delete
      BY <2>4, EncodeIsFine DEF tnt_delete
    <2>5. CASE tnt_update
      BY <2>5, EncodeIsFine DEF tnt_update
    <2>6. CASE tnt_upsert
      BY <2>6, EncodeIsFine DEF tnt_upsert
    <2>7. CASE \E op \in {"CALL", "CALL_16", "EVAL"} : tnt_rpc_base(op)
      BY <1>1, <2>7, EncodeIsFine, RefusedIsFine DEF tnt_rpc_base
    <2>8. CASE tnt_execute
      BY <1>1, <2>8, EncodeIsFine, RefusedIsFine DEF tnt_execute
    <2>9. CASE tnt_auth
      <3>1. reqid' = After(reqid) /\ (rc' = 0 \/ Refuse(-1))
        BY <2>9 DEF tnt_auth
      <3>2. CASE rc' = 0
        BY <1>1, <3>1, <3>2, CounterStays DEF IdInv, MinusOneMeansError
      <3> QED
        BY <1>1, <3>1, <3>2, CounterStays, RefusedIsFine
    <2> QED
      BY <1>3, <2>1, <2>2, <2>3, <2>4, <2>5, <2>6, <2>7, <2>8, <2>9 DEF Direct
  <1>4. ASSUME NEW x, NEW code, Set(x, code)
        PROVE  IdInv'
    BY <1>1, <1>4, RefusedIsFine DEF Set
  <1>5. CASE \E op \in Requests : Create(op)
    BY <1>4, <1>5 DEF Create
  <1>6. CASE Free
    BY <1>4, <1>6 DEF Free
  <1>7. CASE \E v \in Ids : \/ SetSpace(v) \/ SetIndex(v) \/ SetOffset(v)
                            \/ SetLimit(v) \/ SetIterator(v) \/ SetIndexBase(v)
    BY <1>4, <1>7 DEF SetSpace, SetIndex, SetOffset, SetLimit, SetIterator,
                      SetIndexBase
  <1>8. CASE \E o \in {Array, Unclosed} : SetKey(o) \/ SetTuple(o) \/ SetOps(o)
    BY <1>4, <1>8 DEF SetKey, SetTuple, SetOps
  <1>9. CASE \/ SetKeyFormat(Array) \/ SetKeyFormatFails
             \/ SetTupleFormat(Array) \/ SetTupleFormatFails
    BY <1>4, <1>9 DEF SetKeyFormat, SetKeyFormatFails, SetTupleFormat,
                      SetTupleFormatFails
  <1>10. CASE \E len \in Lengths : SetFunc(len) \/ SetExpr(len)
    BY <1>4, <1>10 DEF SetFunc, SetExpr, SetName
  <1>11. CASE \E compile \in BOOLEAN : Writeout(compile)
    <2>1. PICK compile \in BOOLEAN : Writeout(compile)
      BY <1>11
    <2>2. /\ FirstId(compile) \in 0..(2 * SyncMax + 1)
          /\ compile => Signed(FirstId(compile)) # -1
      BY <1>1, CompiledIdPositive
    <2>3. reqid' = After(FirstId(compile))
      BY <2>1 DEF Writeout
    <2>4. reqid' \in 0..(2 * SyncMax + 1)
      BY <2>2, <2>3, CounterStays
    <2>5. \/ rc' = IF compile THEN Signed(FirstId(compile)) ELSE 0
          \/ Refuse(-1)
      BY <2>1 DEF Writeout
    <2>6. rc' # -1 \/ Refuse(-1)
      BY <2>2, <2>5
    <2> QED
      BY <2>4, <2>6, RefusedIsFine DEF IdInv, MinusOneMeansError
  <1>12. CASE UNCHANGED requestVars
    BY <1>12 DEF IdInv, MinusOneMeansError, requestVars
  <1> QED
    BY <1>2, <1>3, <1>5, <1>6, <1>7, <1>8, <1>9, <1>10, <1>11, <1>12 DEF RequestNext

\* However far the counter of tnt_stream has run, past 2^63 and round through 0,
\* and whatever tnt_stream_reqid cuts it to, tnt_request_compile returns -1 only
\* when it has written no packet.
THEOREM MinusOneTheorem ==
    RequestSpec => []MinusOneMeansError
  <1>1. RequestInit => IdInv
    BY RequestAssumption DEF RequestInit, IdInv, MinusOneMeansError
  <1>2. IdInv /\ [RequestNext]_requestVars => IdInv'
    BY IdInvStep
  <1>3. IdInv => MinusOneMeansError
    BY DEF IdInv
  <1> QED
    BY <1>1, <1>2, <1>3, PTL DEF RequestSpec

\* Digests are equal only of equal things.
LEMMA Sha1Injective ==
    ASSUME NEW x, NEW y
    PROVE  Sha1(x) = Sha1(y) <=> x = y
  BY DEF Sha1

\* What the server is left with is one digest, that of the password, exactly
\* if the client used the server's salt and that password.
LEMMA ScrambleFinds ==
    ASSUME NEW s0 \in Salts, NEW p0 \in Passwords, NEW salt \in Salts, NEW pass \in Passwords
    PROVE  LET stored == Sha1(Sha1(pass))
               found == Xor(Scramble(s0, p0), {Sha1(<<salt, stored>>)})
           IN  (\E h \in found : found = {h} /\ Sha1(h) = stored)
               <=> (salt = s0 /\ pass = p0)
  <1> DEFINE a == Sha1(p0)
             b == Sha1(<<s0, Sha1(Sha1(p0))>>)
             c == Sha1(<<salt, Sha1(Sha1(pass))>>)
             stored == Sha1(Sha1(pass))
             found == Xor(Scramble(s0, p0), {c})
  <1>1. a # b
    BY PasswordAssumption, Sha1Injective
  <1>2. a # c
    BY PasswordAssumption, Sha1Injective
  <1>3. b = c <=> salt = s0 /\ pass = p0
    <2>1. b = c <=> <<s0, Sha1(Sha1(p0))>> = <<salt, Sha1(Sha1(pass))>>
      BY Sha1Injective
    <2>2. Sha1(Sha1(p0)) = Sha1(Sha1(pass)) <=> p0 = pass
      BY Sha1Injective
    <2> QED
      BY <2>1, <2>2
  <1>4. Sha1(a) = stored <=> pass = p0
    BY Sha1Injective
  <1>5. Scramble(s0, p0) = {a, b}
    BY <1>1 DEF Scramble, Xor
  <1> HIDE DEF a, b, c, stored
  <1>6. CASE b = c
    <2>1. found = {a}
      BY <1>1, <1>5, <1>6 DEF Xor
    <2> QED
      BY <1>3, <1>4, <1>6, <2>1 DEF c, stored
  <1>7. CASE b # c
    <2>1. found = {a, b, c}
      BY <1>2, <1>5, <1>7 DEF Xor
    <2>2. ~ \E h \in found : found = {h}
      BY <1>1, <2>1
    <2> QED
      BY <1>3, <1>7, <2>2 DEF c, stored
  <1> QED
    BY <1>6, <1>7

\* What is remembered of a tnt_auth is a scramble of the salt and the password
\* it was called with.
ProofInv ==
    \/ proof = <<>>
    \/ \E salt \in Salts, pass \in Passwords :
           proof = <<salt, pass, Scramble(salt, pass)>>

\* Only tnt_auth makes a scramble.
LEMMA ProofInvStep ==
    ASSUME ProofInv, [RequestNext]_requestVars
    PROVE  ProofInv'
  <1>1. ASSUME NEW code, Refuse(code)
        PROVE  ProofInv'
    BY <1>1 DEF Refuse, ProofInv
  <1>2. ASSUME NEW op, NEW n, NEW order, NEW args, NEW objects,
               Encode(op, n, order, args, objects)
        PROVE  ProofInv'
    <2>1. proof' = <<>> \/ Refuse(-1)
      BY <1>2 DEF Encode
    <2> QED
      BY <1>1, <2>1 DEF ProofInv
  <1>3. CASE StreamReqid
    BY <1>1, <1>3 DEF StreamReqid
  <1>4. CASE Direct
    <2>1. CASE \/ tnt_ping \/ tnt_select \/ tnt_delete \/ tnt_update \/ tnt_upsert
               \/ \E op \in {"INSERT", "REPLACE"} : tnt_store_base(op)
      BY <1>2, <2>1 DEF tnt_ping, tnt_select, tnt_delete, tnt_update, tnt_upsert,
                        tnt_store_base
    <2>2. CASE \/ \E op \in {"CALL", "CALL_16", "EVAL"} : tnt_rpc_base(op)
               \/ tnt_execute
      BY <1>1, <1>2, <2>2 DEF tnt_rpc_base, tnt_execute
    <2>3. CASE tnt_auth
      <3>1. PICK guest \in BOOLEAN, salt \in Salts, pass \in Passwords :
                \/ proof' = IF guest THEN <<>> ELSE <<salt, pass, Scramble(salt, pass)>>
                \/ Refuse(-1)
        BY <2>3 DEF tnt_auth
      <3> QED
        BY <1>1, <3>1 DEF ProofInv
    <2> QED
      BY <1>4, <2>1, <2>2, <2>3 DEF Direct
  <1>5. ASSUME NEW x, NEW code, Set(x, code)
        PROVE  ProofInv'
    BY <1>1, <1>5 DEF Set
  <1>6. CASE (\E op \in Requests : Create(op)) \/ Free
    BY <1>5, <1>6 DEF Create, Free
  <1>7. CASE \E v \in Ids : \/ SetSpace(v) \/ SetIndex(v) \/ SetOffset(v)
                            \/ SetLimit(v) \/ SetIterator(v) \/ SetIndexBase(v)
    BY <1>5, <1>7 DEF SetSpace, SetIndex, SetOffset, SetLimit, SetIterator,
                      SetIndexBase
  <1>8. CASE \E o \in {Array, Unclosed} : SetKey(o) \/ SetTuple(o) \/ SetOps(o)
    BY <1>5, <1>8 DEF SetKey, SetTuple, SetOps
  <1>9. CASE \/ SetKeyFormat(Array) \/ SetKeyFormatFails
             \/ SetTupleFormat(Array) \/ SetTupleFormatFails
    BY <1>5, <1>9 DEF SetKeyFormat, SetKeyFormatFails, SetTupleFormat,
                      SetTupleFormatFails
  <1>10. CASE \E len \in Lengths : SetFunc(len) \/ SetExpr(len)
    BY <1>5, <1>10 DEF SetFunc, SetExpr, SetName
  <1>11. CASE \E compile \in BOOLEAN : Writeout(compile)
    <2>1. proof' = <<>> \/ Refuse(-1)
      BY <1>11 DEF Writeout
    <2> QED
      BY <1>1, <2>1 DEF ProofInv
  <1>12. CASE UNCHANGED requestVars
    BY <1>12 DEF ProofInv, requestVars
  <1> QED
    BY <1>3, <1>4, <1>6, <1>7, <1>8, <1>9, <1>10, <1>11, <1>12 DEF RequestNext

\* A server that keeps sha1(sha1(password)) recovers sha1(password) from what
\* tnt_auth sends exactly if the client was given the server's salt and knew that
\* password, for every set of salts and of passwords.
THEOREM ScrambleTheorem ==
    RequestSpec => []ScrambleProves
  <1>1. RequestInit => ProofInv
    BY DEF RequestInit, ProofInv
  <1>2. ProofInv /\ [RequestNext]_requestVars => ProofInv'
    BY ProofInvStep
  <1>3. ProofInv => ScrambleProves
    <2>1. SUFFICES ASSUME NEW s0 \in Salts, NEW p0 \in Passwords,
                          proof = <<s0, p0, Scramble(s0, p0)>>
                   PROVE  ScrambleProves
      BY DEF ProofInv, ScrambleProves
    <2>2. proof[1] = s0 /\ proof[2] = p0 /\ proof[3] = Scramble(s0, p0)
      BY <2>1
    <2> QED
      BY <2>2, ScrambleFinds DEF ScrambleProves
  <1> QED
    BY <1>1, <1>2, <1>3, PTL DEF RequestSpec

-----------------------------------------------------------------------------
(* TntReader: the copies of replies, and the two parsers. *)

\* What tnt_reply_hdr0 and tnt_reply_body0 come to does not depend on the reply
\* they fill.
LEMMA FillEither ==
    ASSUME NEW s, NEW r0, NEW r1
    PROVE  HdrBody(r0, s).rc = HdrBody(r1, s).rc
  <1> DEFINE h == Hdr0(s)
             b == Body0(SubSeq(s, h.off + 1, Len(s)))
  <1>1. \A x : HdrBody(x, s) = Fill(x, s, h, b)
    BY DEF HdrBody
  <1> HIDE DEF h, b
  <1>2. Fill(r0, s, h, b).rc = Fill(r1, s, h, b).rc
    BY DEF Fill
  <1> QED
    BY <1>1, <1>2

\* They leave the copy of a cleared reply alone, and fill it in the same way
\* whether there is a copy or not.
LEMMA FillCleared ==
    ASSUME NEW s
    PROVE  /\ HdrBody(Copied, s).r = [HdrBody(NoReply, s).r EXCEPT !.buf = TRUE]
           /\ HdrBody(Copied, s).r.buf = TRUE
  <1> DEFINE h == Hdr0(s)
             b == Body0(SubSeq(s, h.off + 1, Len(s)))
  <1>1. \A x : HdrBody(x, s) = Fill(x, s, h, b)
    BY DEF HdrBody
  <1> HIDE DEF h, b
  <1> DEFINE R(c, y, k, i, e, d, m, q) ==
                 [buf |-> c, sync |-> y, code |-> k, schema_id |-> i, error |-> e,
                  data |-> d, metadata |-> m, sqlinfo |-> q]
             Cleared(c) == R(c, 0, 0, 0, <<>>, <<>>, <<>>, <<>>)
  <1>2. \A c, c1, y, k, i, e, d, m, q :
            /\ [R(c, y, k, i, e, d, m, q) EXCEPT !.buf = c1] = R(c1, y, k, i, e, d, m, q)
            /\ R(c, y, k, i, e, d, m, q).buf = c
    OBVIOUS
  <1>3. \A c, y, k, i, e, d, m, q :
            /\ SetHdr(R(c, y, k, i, e, d, m, q), h) = R(c, h.sync, h.code, h.schema_id, e, d, m, q)
            /\ SetBody(R(c, y, k, i, e, d, m, q), b)
                   = R(c, y, k, i, b.error, b.data, b.metadata, b.sqlinfo)
    BY DEF SetHdr, SetBody, Parsed
  <1>4. Copied = Cleared(TRUE)
    BY DEF Copied, Parsed
  <1> DEFINE Same(x, r1, c) == r1 = [x EXCEPT !.buf = c] /\ r1.buf = c
  <1> HIDE DEF R
  <1>5. NoReply = Cleared(FALSE)
    <2>1. \A c, c1 : [Cleared(c) EXCEPT !.buf = c1] = Cleared(c1)
      BY <1>2
    <2> HIDE DEF Cleared
    <2>2. [Cleared(TRUE) EXCEPT !.buf = FALSE] = Cleared(FALSE)
      BY <2>1, Zenon
    <2> QED
      BY <1>4, <2>2, Zenon DEF NoReply
  <1>6. ASSUME NEW c, NEW c1
        PROVE  /\ Same(Cleared(c), Cleared(c1), c1)
               /\ Same(SetHdr(Cleared(c), h), SetHdr(Cleared(c1), h), c1)
               /\ Same(SetBody(SetHdr(Cleared(c), h), b), SetBody(SetHdr(Cleared(c1), h), b), c1)
    BY <1>2, <1>3
  <1> HIDE DEF Cleared, Same
  <1>7. /\ Same(NoReply, Copied, TRUE)
        /\ Same(SetHdr(NoReply, h), SetHdr(Copied, h), TRUE)
        /\ Same(SetBody(SetHdr(NoReply, h), b), SetBody(SetHdr(Copied, h), b), TRUE)
    BY <1>4, <1>5, <1>6, Zenon
  <1>8. \/ \A x : Fill(x, s, h, b).r = x
        \/ \A x : Fill(x, s, h, b).r = SetHdr(x, h)
        \/ \A x : Fill(x, s, h, b).r = SetBody(SetHdr(x, h), b)
    BY DEF Fill
  <1>9. Same(HdrBody(NoReply, s).r, HdrBody(Copied, s).r, TRUE)
    <2>1. /\ HdrBody(NoReply, s) = Fill(NoReply, s, h, b)
          /\ HdrBody(Copied, s) = Fill(Copied, s, h, b)
      BY <1>1, Zenon
    <2>2. Same(Fill(NoReply, s, h, b).r, Fill(Copied, s, h, b).r, TRUE)
      <3>1. CASE \A x : Fill(x, s, h, b).r = x
        BY <1>7, <3>1, Zenon
      <3>2. CASE \A x : Fill(x, s, h, b).r = SetHdr(x, h)
        <4>1. /\ Fill(NoReply, s, h, b).r = SetHdr(NoReply, h)
              /\ Fill(Copied, s, h, b).r = SetHdr(Copied, h)
          BY <3>2, Zenon
        <4> QED
          BY <1>7, <4>1
      <3>3. CASE \A x : Fill(x, s, h, b).r = SetBody(SetHdr(x, h), b)
        <4>1. /\ Fill(NoReply, s, h, b).r = SetBody(SetHdr(NoReply, h), b)
              /\ Fill(Copied, s, h, b).r = SetBody(SetHdr(Copied, h), b)
          BY <3>3, Zenon
        <4> QED
          BY <1>7, <4>1
      <3> QED
        BY <1>8, <3>1, <3>2, <3>3, Zenon
    <2> QED
      BY <2>1, <2>2, Zenon
  <1> QED
    BY <1>9, Zenon DEF Same

\* No reply has no copy.
LEMMA NoReplyHasNone == NoReply.buf = FALSE
  BY DEF NoReply, Copied, Parsed

\* Whatever tnt_buf_reply comes to, the reply says whether it has a copy.
LEMMA BufReplyCopy ==
    ASSUME NEW oom \in BOOLEAN
    PROVE  BufReply(oom).r.buf \in BOOLEAN
  <1> DEFINE s == Rest
             p == HdrBody(Copied, SubSeq(s, HdrSize + 1, HdrSize + s[1].v))
  <1>1. p.r.buf = TRUE
    BY FillCleared
  <1>2. \/ ReplyFrom(s, oom).r = NoReply
        \/ ReplyFrom(s, oom).r = p.r
    BY DEF ReplyFrom
  <1> HIDE DEF p
  <1>3. ReplyFrom(s, oom).r.buf \in BOOLEAN
    BY <1>1, <1>2, NoReplyHasNone
  <1>4. Reply(s, oom).r.buf \in BOOLEAN
    BY <1>3, NoReplyHasNone DEF Reply
  <1> QED
    BY <1>4, NoReplyHasNone DEF BufReply

\* The iterator is a record, and its reply has the one copy there is.
CopyInv ==
    /\ it = [live |-> it.live, ok |-> it.ok, r |-> it.r, next |-> it.next]
    /\ it.r.buf \in BOOLEAN
    /\ OneCopy

\* Every step frees the copy it lets go of.
LEMMA CopyInvStep ==
    ASSUME CopyInv, [ReaderNext]_readerVars
    PROVE  CopyInv'
  <1>1. Freed = 0
    BY DEF CopyInv, OneCopy, Freed
  <1>2. CASE \E oom \in BOOLEAN : ReplyNext(oom)
    <2>1. PICK oom \in BOOLEAN : ReplyNext(oom)
      BY <1>2
    <2> DEFINE res == BufReply(oom)
    <2>2. res.r.buf \in BOOLEAN
      BY BufReplyCopy
    <2>3. /\ it' = [it EXCEPT !.ok = @ /\ res.rc # -1, !.r = res.r,
                              !.next = IF res.rc = 0 THEN 1 ELSE 0]
          /\ heap' = Freed + (IF res.r.buf THEN 1 ELSE 0)
      BY <2>1 DEF ReplyNext, TakeReply
    <2> HIDE DEF res
    <2>4. /\ it' = [live |-> it'.live, ok |-> it'.ok, r |-> it'.r, next |-> it'.next]
          /\ it'.r = res.r
      BY <2>3 DEF CopyInv
    <2>5. heap' = IF res.r.buf THEN 1 ELSE 0
      BY <1>1, <2>3
    <2> QED
      BY <2>2, <2>4, <2>5 DEF CopyInv, OneCopy
  <1>3. CASE ReplyRewind
    BY <1>3 DEF ReplyRewind, CopyInv, OneCopy
  <1>4. CASE ReplyFree
    <2>1. /\ it' = [it EXCEPT !.live = FALSE, !.r = NoReply]
          /\ heap' = 0
      BY <1>1, <1>4 DEF ReplyFree
    <2>2. /\ it' = [live |-> it'.live, ok |-> it'.ok, r |-> it'.r, next |-> it'.next]
          /\ it'.r = NoReply
      BY <2>1 DEF CopyInv
    <2> QED
      BY <2>1, <2>2, NoReplyHasNone DEF CopyInv, OneCopy
  <1>5. CASE UNCHANGED <<it, heap>>
    BY <1>5 DEF CopyInv, OneCopy
  <1>6. CASE \/ \E n \in 1..Len(Wire(sent)) : BufWrite(<<n>>)
             \/ \E n, m \in {1, HdrSize} : BufWrite(<<n, m>>)
             \/ BufRead(HdrSize)
    BY <1>5, <1>6 DEF BufWrite, BufRead
  <1>7. CASE IterArray \/ IterMap \/ IterNext \/ IterRewind
    BY <1>5, <1>7 DEF IterArray, IterMap, IterOver, IterNext, IterRewind
  <1>8. CASE UNCHANGED readerVars
    BY <1>5, <1>8 DEF readerVars
  <1> QED
    BY <1>2, <1>3, <1>4, <1>6, <1>7, <1>8 DEF ReaderNext

\* Through replies that fail to parse, incomplete ones and lack of memory, a
\* reply iterator has allocated the copy of its current reply and no other, and
\* nothing after tnt_iter_free, whatever the bytes in the buffer are.
THEOREM OneCopyTheorem == ReaderSpec => []OneCopy
  <1>1. ReaderInit => CopyInv
    <2>1. SUFFICES ASSUME it = [live |-> TRUE, ok |-> TRUE, r |-> NoReply, next |-> 1], heap = 0
                   PROVE  CopyInv
      BY DEF ReaderInit
    <2>2. it.r = NoReply
      BY <2>1
    <2> QED
      BY <2>1, <2>2, NoReplyHasNone DEF CopyInv, OneCopy
  <1>2. CopyInv /\ [ReaderNext]_readerVars => CopyInv'
    BY CopyInvStep
  <1>3. CopyInv => OneCopy
    BY DEF CopyInv
  <1> QED
    BY <1>1, <1>2, <1>3, PTL DEF ReaderSpec

Tokens == [t : STRING, v : Nat, w : Nat]

\* tnt_reply on a copy and tnt_reply0 in place, on any cells, come to the same
\* result, whatever the reply that tnt_reply0 is given, and unless they fail to
\* the same offset; while bytes are missing tnt_reply0 leaves its reply alone; and
\* of a whole reply both read the same fields if tnt_reply0's reply was cleared.
THEOREM ParsersTheorem ==
    ASSUME NEW s \in Seq(Tokens), NEW r0
    PROVE  /\ Reply(s, FALSE).rc = Reply0(s, r0).rc
           /\ Reply(s, FALSE).rc # -1 => Reply(s, FALSE).off = Reply0(s, r0).off
           /\ Reply(s, FALSE).rc = 1 => Reply0(s, r0).r = r0
           /\ Reply(s, FALSE).rc = 0 =>
                  Reply(s, FALSE).r = [Reply0(s, NoReply).r EXCEPT !.buf = TRUE]
  <1> DEFINE l == ReplyLen(s)
             p(x) == HdrBody(x, SubSeq(s, HdrSize + 1, l.len))
  <1>1. CASE l.rc # 0
    BY <1>1 DEF Reply, Reply0
  <1>2. CASE l.rc = 0
    <2>1. Len(s) \in Nat /\ HdrSize = 5
      BY LenProperties DEF HdrSize
    <2>2. CASE Len(s) < HdrSize
      BY <1>2, <2>2 DEF ReplyLen
    <2>3. CASE Len(s) >= HdrSize
      <3>1. s[1] \in Tokens
        BY <2>1, <2>3, ElementOfSeq
      <3>2. s[1].v \in Nat
        BY <3>1 DEF Tokens
      <3>3. s[1].t = "uint"
        BY <1>2, <2>1, <2>3 DEF ReplyLen
      <3>4. l.len = s[1].v + HdrSize
        BY <1>2, <2>1, <2>3, <3>3 DEF ReplyLen
      <3>5. HdrSize + s[1].v = l.len
        BY <2>1, <3>2, <3>4
      <3>6. Reply(s, FALSE) = ReplyFrom(s, FALSE)
        BY <1>2 DEF Reply
      <3> HIDE DEF l
      <3>7. Reply(s, FALSE) = IF p(Copied).rc # 0 THEN [rc |-> -1, off |-> l.len, r |-> NoReply]
                              ELSE [rc |-> 0, off |-> l.len, r |-> p(Copied).r]
        BY <3>3, <3>5, <3>6 DEF ReplyFrom
      <3>8. \A x : Reply0(s, x) = IF p(x).rc # 0 THEN [rc |-> -1, off |-> 0, r |-> p(x).r]
                                  ELSE [rc |-> 0, off |-> l.len, r |-> p(x).r]
        BY <1>2 DEF Reply0, l
      <3>9. /\ p(r0).rc = p(Copied).rc /\ p(NoReply).rc = p(Copied).rc
            /\ p(Copied).r = [p(NoReply).r EXCEPT !.buf = TRUE]
        BY FillEither, FillCleared
      <3> HIDE DEF p
      <3> DEFINE a == Reply(s, FALSE)
                 a0 == Reply0(s, r0)
                 fresh == Reply0(s, NoReply)
      <3>10. CASE p(Copied).rc # 0
        <4>1. /\ a = [rc |-> -1, off |-> l.len, r |-> NoReply]
              /\ a0 = [rc |-> -1, off |-> 0, r |-> p(r0).r]
          BY <3>7, <3>8, <3>9, <3>10
        <4> HIDE DEF a, a0
        <4>2. a.rc = -1 /\ a0.rc = -1
          BY <4>1
        <4>3. a.rc # 0 /\ a.rc # 1
          BY <4>2
        <4>4. /\ a.rc = a0.rc /\ (a.rc # -1 => a.off = a0.off)
              /\ (a.rc = 1 => a0.r = r0)
              /\ (a.rc = 0 => a.r = [fresh.r EXCEPT !.buf = TRUE])
          BY <4>2, <4>3, Zenon
        <4> QED
          BY <4>4, Zenon DEF a, a0, fresh
      <3>11. CASE p(Copied).rc = 0
        <4>1. /\ a = [rc |-> 0, off |-> l.len, r |-> p(Copied).r]
              /\ a0 = [rc |-> 0, off |-> l.len, r |-> p(r0).r]
              /\ fresh = [rc |-> 0, off |-> l.len, r |-> p(NoReply).r]
          BY <3>7, <3>8, <3>9, <3>11
        <4> HIDE DEF a, a0, fresh
        <4>2. /\ a.rc = 0 /\ a0.rc = 0 /\ a.off = l.len /\ a0.off = l.len
              /\ a.r = p(Copied).r /\ fresh.r = p(NoReply).r
          BY <4>1
        <4>3. a.r = [fresh.r EXCEPT !.buf = TRUE]
          BY <3>9, <4>2, Zenon
        <4>4. a.rc # 1
          BY <4>2
        <4>5. /\ a.rc = a0.rc /\ (a.rc # -1 => a.off = a0.off)
              /\ (a.rc = 1 => a0.r = r0)
              /\ (a.rc = 0 => a.r = [fresh.r EXCEPT !.buf = TRUE])
          BY <4>2, <4>3, <4>4, Zenon
        <4> QED
          BY <4>5, Zenon DEF a, a0, fresh
      <3> QED
        BY <3>10, <3>11
    <2>4. Len(s) < HdrSize \/ Len(s) >= HdrSize
      BY <2>1
    <2> QED
      BY <2>2, <2>3, <2>4
  <1> QED
    BY <1>1, <1>2

-----------------------------------------------------------------------------
(* Tp: no write outside of the buffer. *)

\* A block of memory, and a struct tp with one.
IsBlock(mem) == Len(mem) \in Nat /\ mem = [i \in 1..Len(mem) |-> mem[i]]

IsTp(t) ==
    /\ t = [blk |-> t.blk, mem |-> t.mem, p |-> t.p, size |-> t.size, sync |-> t.sync,
            reserve |-> t.reserve]
    /\ IsBlock(t.mem)
    /\ t.p \in Nat

\* Until a call writes outside of it, p is in the buffer.
BufInv ==
    /\ IsTp(tp)
    /\ over \in BOOLEAN
    /\ ~over => tp.p <= Len(tp.mem)
    /\ InBounds

\* A function on 1..n is a block of n cells.
LEMMA FcnIsBlock ==
    ASSUME NEW n \in Nat, NEW f, f = [i \in 1..n |-> f[i]]
    PROVE  IsBlock(f) /\ Len(f) = n
  <1> DEFINE S == {f[i] : i \in 1..n}
  <1>1. f \in [1..n -> S]
    OBVIOUS
  <1>2. Len(f) = n
    BY <1>1, FcnIsSeq
  <1> QED
    BY <1>2 DEF IsBlock

\* What is stored in a block leaves it as long as it is.
LEMMA PutKeepsLen ==
    ASSUME NEW mem, IsBlock(mem), NEW off, NEW toks
    PROVE  IsBlock(Put(mem, off, toks)) /\ Len(Put(mem, off, toks)) = Len(mem)
  <1> DEFINE c == CellsOf(toks)
             f == [i \in 1..Len(mem) |-> IF i \in (off + 1)..(off + Len(c)) THEN c[i - off]
                                         ELSE mem[i]]
  <1>1. Put(mem, off, toks) = f
    BY DEF Put
  <1>2. f = [i \in 1..Len(mem) |-> f[i]]
    OBVIOUS
  <1>3. Len(mem) \in Nat
    BY DEF IsBlock
  <1> HIDE DEF f
  <1> QED
    BY <1>1, <1>2, <1>3, FcnIsBlock

\* realloc() to a larger size keeps the cells and adds others.
LEMMA GrownLen ==
    ASSUME NEW mem, IsBlock(mem), NEW k \in Nat
    PROVE  /\ IsBlock(mem \o [i \in 1..k |-> Junk])
           /\ Len(mem \o [i \in 1..k |-> Junk]) = Len(mem) + k
  <1> DEFINE S == {mem[i] : i \in 1..Len(mem)} \cup {Junk}
             new == [i \in 1..k |-> Junk]
             all == mem \o new
  <1>1. Len(mem) \in Nat /\ mem = [i \in 1..Len(mem) |-> mem[i]]
    BY DEF IsBlock
  <1>2. mem \in [1..Len(mem) -> S]
    BY <1>1
  <1>3. mem \in Seq(S)
    BY <1>1, <1>2, FcnIsSeq
  <1>4. new \in [1..k -> S]
    OBVIOUS
  <1>5. new \in Seq(S) /\ Len(new) = k
    BY <1>4, FcnIsSeq
  <1> HIDE DEF S, new
  <1>6. all \in Seq(S) /\ Len(all) = Len(mem) + k
    BY <1>3, <1>5, ConcatProperties
  <1>7. all = [i \in 1..Len(all) |-> all[i]] /\ Len(all) \in Nat
    BY <1>6, LenProperties
  <1> QED
    BY <1>6, <1>7 DEF IsBlock, new

\* tp_ensure leaves p alone and makes room, unless only doubling the buffer was
\* not enough.
LEMMA EnsureMakesRoom ==
    ASSUME IsTp(tp), tp.p <= Size, NEW sz \in Nat, NEW oom \in BOOLEAN,
           tp_ensure(sz, oom) # NoSpace
    PROVE  /\ IsTp(tp_ensure(sz, oom)) /\ tp_ensure(sz, oom).p = tp.p
           /\ \/ tp.p + sz <= Len(tp_ensure(sz, oom).mem)
              \/ tp.p > 0 /\ sz > Size /\ sz <= 2 * Size
  <1>1. tp.p \in Nat /\ Size \in Nat /\ IsBlock(tp.mem)
    BY DEF IsTp, IsBlock, Size
  <1>2. CASE Size - tp.p >= sz
    <2>1. tp_ensure(sz, oom) = tp
      BY <1>2 DEF tp_ensure
    <2>2. tp.p + sz <= Size
      BY <1>1, <1>2
    <2> QED
      BY <2>1, <2>2 DEF Size
  <1>3. CASE ~(Size - tp.p >= sz)
    <2> DEFINE k == tp_realloc(sz) - Size
               mem == tp.mem \o [i \in 1..k |-> Junk]
    <2>1. Size - tp.p < sz
      BY <1>1, <1>3
    <2>2. tp_ensure(sz, oom) = [tp EXCEPT !.blk = @ + 1, !.size = Rebased(@), !.sync = Rebased(@),
                                          !.mem = @ \o [i \in 1..k |-> Junk]]
      BY <1>3, <2>1 DEF tp_ensure
    <2>3. k \in Nat
      BY <1>1, <2>1 DEF tp_realloc
    <2>4. IsBlock(mem) /\ Len(mem) = Size + k
      BY <1>1, <2>3, GrownLen DEF Size
    <2>5. \/ tp.p + sz <= Size + k
          \/ tp.p > 0 /\ sz > Size /\ sz <= 2 * Size
      BY <1>1, <2>1 DEF tp_realloc
    <2> HIDE DEF k
    <2>6. /\ tp_ensure(sz, oom) = [blk |-> tp.blk + 1, mem |-> mem, p |-> tp.p,
                                   size |-> Rebased(tp.size), sync |-> Rebased(tp.sync),
                                   reserve |-> tp.reserve]
      BY <2>2 DEF IsTp
    <2> HIDE DEF mem
    <2>7. /\ tp_ensure(sz, oom).mem = mem
          /\ tp_ensure(sz, oom).p = tp.p
          /\ IsTp(tp_ensure(sz, oom))
      BY <1>1, <2>4, <2>6 DEF IsTp
    <2> QED
      BY <2>4, <2>5, <2>7
  <1> QED
    BY <1>2, <1>3

\* A struct tp in which the block was written to, with the same pointer.
SameRoom(t, u) == IsTp(u) /\ u.p = t.p /\ Len(u.mem) = Len(t.mem)

LEMMA PutKeepsTp ==
    ASSUME NEW t, IsTp(t), NEW off, NEW toks
    PROVE  SameRoom(t, [t EXCEPT !.mem = Put(@, off, toks)])
  <1> DEFINE mem == Put(t.mem, off, toks)
             u == [t EXCEPT !.mem = Put(@, off, toks)]
  <1>1. IsBlock(mem) /\ Len(mem) = Len(t.mem)
    BY PutKeepsLen DEF IsTp
  <1>2. u = [blk |-> t.blk, mem |-> mem, p |-> t.p, size |-> t.size, sync |-> t.sync,
             reserve |-> t.reserve]
    BY DEF IsTp
  <1> HIDE DEF mem, u
  <1>3. u.mem = mem /\ u.p = t.p /\ IsTp(u)
    BY <1>1, <1>2 DEF IsTp
  <1> QED
    BY <1>1, <1>3 DEF SameRoom, u

LEMMA StoreKeepsTp ==
    ASSUME NEW t, IsTp(t), NEW q, NEW tok
    PROVE  SameRoom(t, Store(t, q, tok))
  <1>1. SameRoom(t, t)
    BY DEF SameRoom
  <1> QED
    BY <1>1, PutKeepsTp DEF Store

\* tp_add moves p by what was counted.
LEMMA AddMovesP ==
    ASSUME NEW t, IsTp(t), NEW sz \in Nat
    PROVE  /\ IsTp(tp_add(t, sz)) /\ tp_add(t, sz).p = t.p + sz
           /\ Len(tp_add(t, sz).mem) = Len(t.mem)
  <1> DEFINE u == [t EXCEPT !.p = @ + sz]
  <1>1. t.p + sz \in Nat
    BY DEF IsTp
  <1>2. u = [blk |-> t.blk, mem |-> t.mem, p |-> t.p + sz, size |-> t.size, sync |-> t.sync,
             reserve |-> t.reserve]
    BY DEF IsTp
  <1>3. IsBlock(t.mem)
    BY DEF IsTp
  <1>4. tp_add(t, sz) = Store(u, u.size, U32(u.p - u.size.off - PrefixSize))
    BY DEF tp_add
  <1> HIDE DEF u
  <1>5. IsTp(u) /\ u.p = t.p + sz /\ u.mem = t.mem
    BY <1>1, <1>2, <1>3 DEF IsTp
  <1>6. SameRoom(u, tp_add(t, sz))
    BY <1>4, <1>5, StoreKeepsTp
  <1> QED
    BY <1>5, <1>6 DEF SameRoom

\* tpi_encode_header sets the two pointers.
LEMMA HeaderKeepsTp ==
    ASSUME NEW t, IsTp(t), NEW code
    PROVE  SameRoom(t, tpi_encode_header(t, code))
  <1> DEFINE u == tpi_encode_header(t, code)
             size == [blk |-> t.blk, off |-> t.p]
             sync == [blk |-> t.blk, off |-> t.p + tpi_sizeof_header(code) - U32(0).w]
  <1>1. u = [t EXCEPT !.size = size, !.sync = sync]
    BY DEF tpi_encode_header
  <1> HIDE DEF u, size, sync
  <1>2. u = [blk |-> t.blk, mem |-> t.mem, p |-> t.p, size |-> size, sync |-> sync,
             reserve |-> t.reserve]
    BY <1>1 DEF IsTp
  <1>3. u.mem = t.mem /\ u.p = t.p /\ IsTp(u)
    BY <1>2 DEF IsTp
  <1> QED
    BY <1>3 DEF SameRoom, u

\* A call that counted sz bytes, got room for them in t, wrote n there, and then
\* moved p: if a byte went outside, it was a call that miscounted, or the buffer
\* was only doubled.
LEMMA WroteInBounds ==
    ASSUME BufInv, ~over, NEW sz \in Nat, NEW n \in Nat, NEW oom \in BOOLEAN, NEW u,
           tp_ensure(sz, oom) # NoSpace,
           SameRoom(tp_ensure(sz, oom), u),
           tp' = tp_add(u, sz), Wrote(tp_ensure(sz, oom), n, sz)
    PROVE  BufInv'
  <1> DEFINE t == tp_ensure(sz, oom)
  <1>1. IsTp(tp) /\ tp.p <= Size /\ tp.p \in Nat /\ Size \in Nat
    BY DEF BufInv, Size, IsTp, IsBlock
  <1>2. /\ IsTp(t) /\ t.p = tp.p
        /\ \/ tp.p + sz <= Len(t.mem)
           \/ tp.p > 0 /\ sz > Size /\ sz <= 2 * Size
    BY <1>1, EnsureMakesRoom
  <1>3. Len(t.mem) \in Nat
    BY <1>2 DEF IsTp, IsBlock
  <1>4. /\ over' = (t.p + n > Len(t.mem) \/ t.p + sz > Len(t.mem))
        /\ short' = (short \/ n > sz \/ (tp.p > 0 /\ sz > Size /\ sz <= 2 * Size))
    BY DEF Wrote
  <1>5. SameRoom(t, u)
    OBVIOUS
  <1> HIDE DEF t
  <1>6. IsTp(tp') /\ tp'.p = t.p + sz /\ Len(tp'.mem) = Len(t.mem)
    BY <1>5, AddMovesP DEF SameRoom
  <1>7. ~over' => tp'.p <= Len(tp'.mem)
    <2>1. t.p + sz > Len(t.mem) \/ t.p + sz <= Len(t.mem)
      BY <1>1, <1>2, <1>3
    <2> QED
      BY <1>4, <1>6, <2>1
  <1>8. over' => n > sz \/ (tp.p > 0 /\ sz > Size /\ sz <= 2 * Size)
    <2>1. t.p + sz <= Len(t.mem) => ~(t.p + sz > Len(t.mem))
      BY <1>1, <1>2, <1>3
    <2>2. t.p + sz <= Len(t.mem) /\ t.p + n > Len(t.mem) => n > sz
      BY <1>1, <1>2, <1>3
    <2> QED
      BY <1>2, <1>4, <2>1, <2>2
  <1>9. over' => short'
    BY <1>4, <1>8
  <1>10. over' \in BOOLEAN
    BY <1>4
  <1> QED
    BY <1>6, <1>7, <1>9, <1>10 DEF BufInv, InBounds

LEMMA BufInvStep ==
    ASSUME BufInv, [TpNext]_tpVars
    PROVE  BufInv'
  <1>1. ASSUME UNCHANGED <<tp, over, short>>
        PROVE  BufInv'
    BY <1>1 DEF BufInv, InBounds
  <1>2. ASSUME NEW q \in TpRequests, NEW oom \in BOOLEAN, Begin(q, oom)
        PROVE  BufInv'
    <2> DEFINE sz == q.sz + tpi_sizeof_header(q.code)
               t == tp_ensure(sz, oom)
               toks == HeaderToks(q.code) \o q.body
               n == PrefixSize + Bytes(toks)
               u == [tpi_encode_header(t, q.code) EXCEPT !.mem = Put(@, t.p + PrefixSize, toks)]
    <2>1. ~over
      BY <1>2 DEF Begin, Building
    <2>2. sz \in Nat /\ n \in Nat
      BY CountAssumption DEF PrefixSize
    <2>3. CASE t = NoSpace /\ NoRoom
      BY <1>1, <2>3 DEF NoRoom
    <2>4. CASE t # NoSpace /\ tp' = tp_add(u, sz) /\ Wrote(t, n, sz)
      <3>1. IsTp(tp) /\ tp.p <= Size
        BY <2>1 DEF BufInv, Size
      <3> HIDE DEF sz
      <3>2. IsTp(t)
        BY <2>2, <2>4, <3>1, EnsureMakesRoom
      <3> HIDE DEF t, toks
      <3>3. SameRoom(t, tpi_encode_header(t, q.code))
        BY <3>2, HeaderKeepsTp
      <3>4. SameRoom(tpi_encode_header(t, q.code), u)
        BY <3>3, PutKeepsTp DEF SameRoom
      <3> HIDE DEF u, n
      <3>5. SameRoom(t, u)
        BY <3>3, <3>4 DEF SameRoom
      <3> QED
        BY <2>1, <2>2, <2>4, <3>5, WroteInBounds DEF t
    <2> QED
      BY <1>2, <2>3, <2>4 DEF Begin
  <1>3. ASSUME NEW x \in Pieces, NEW oom \in BOOLEAN, Extend(x, oom)
        PROVE  BufInv'
    <2> DEFINE t == tp_ensure(x.sz, oom)
               u == [t EXCEPT !.mem = Put(@, t.p, x.toks)]
    <2>1. ~over
      BY <1>3 DEF Extend, Building
    <2>2. x.sz \in Nat /\ Bytes(x.toks) \in Nat
      BY CountAssumption
    <2>3. CASE t = NoSpace /\ NoRoom
      BY <1>1, <2>3 DEF NoRoom
    <2>4. CASE t # NoSpace /\ tp' = tp_add(u, x.sz) /\ Wrote(t, Bytes(x.toks), x.sz)
      <3>1. IsTp(tp) /\ tp.p <= Size
        BY <2>1 DEF BufInv, Size
      <3>2. IsTp(t)
        BY <2>2, <2>4, <3>1, EnsureMakesRoom
      <3>3. SameRoom(t, u)
        BY <3>2, PutKeepsTp
      <3> HIDE DEF u
      <3> QED
        BY <2>1, <2>2, <2>4, <3>3, WroteInBounds
    <2> QED
      BY <1>3, <2>3, <2>4 DEF Extend
  <1>4. ASSUME NEW oom \in BOOLEAN, tp_format(oom)
        PROVE  BufInv'
    <2> DEFINE sz == Bytes(Formatted)
               t == tp_ensure(sz, oom)
               u == [t EXCEPT !.mem = IF t = tp THEN Put(@, t.p, Formatted) ELSE @]
    <2>1. ~over
      BY <1>4 DEF tp_format, Building
    <2>2. sz \in Nat
      BY CountAssumption
    <2>3. CASE t = NoSpace /\ NoRoom
      BY <1>1, <2>3 DEF NoRoom
    <2>4. CASE t # NoSpace /\ tp' = tp_add(u, sz) /\ Wrote(t, sz, sz)
      <3>1. IsTp(tp) /\ tp.p <= Size
        BY <2>1 DEF BufInv, Size
      <3> HIDE DEF sz
      <3>2. IsTp(t)
        BY <2>2, <2>4, <3>1, EnsureMakesRoom
      <3> HIDE DEF t
      <3>3. t = tp => SameRoom(t, u)
        BY <3>2, PutKeepsTp
      <3>4. t # tp => u = t
        BY <3>2 DEF IsTp
      <3>5. SameRoom(t, u)
        BY <3>2, <3>3, <3>4 DEF SameRoom
      <3> HIDE DEF u
      <3> QED
        BY <2>1, <2>2, <2>4, <3>5, WroteInBounds DEF t
    <2> QED
      BY <1>4, <2>3, <2>4 DEF tp_format
  <1>5. CASE tp_reqid(9)
    <2>1. tp' = Store(tp, tp.sync, U32(9)) /\ UNCHANGED <<over, short>>
      BY <1>5 DEF tp_reqid
    <2>2. SameRoom(tp, tp')
      BY <2>1, StoreKeepsTp DEF BufInv
    <2> QED
      BY <2>1, <2>2 DEF SameRoom, BufInv, InBounds
  <1>6. CASE ReadReply
    BY <1>1, <1>6 DEF ReadReply
  <1>7. CASE \/ tp_next \/ tp_rewind \/ tp_nextfield \/ tp_rewindfield
             \/ MapInit \/ MapNext \/ MapReset
    BY <1>1, <1>7 DEF tp_next, tp_rewind, tp_nextfield, tp_rewindfield, MapInit, MapNext,
                      MapReset, OnlyReading
  <1>8. CASE UNCHANGED tpVars
    BY <1>1, <1>8 DEF tpVars
  <1> QED
    BY <1>2, <1>3, <1>4, <1>5, <1>6, <1>7, <1>8 DEF TpNext

\* For every size of the buffer, given to tp_init or grown by tp_realloc, and
\* every sequence of calls of tp.h, failing realloc()s included, no byte is
\* written outside of the buffer, unless a call wrote more than it counted or
\* tp_realloc only doubled what was in use already.
THEOREM InBoundsTheorem == TpSpec => []InBounds
  <1>1. TpInit => BufInv
    <2> SUFFICES ASSUME TpInit
                 PROVE  BufInv
      OBVIOUS
    <2>1. PICK n \in Sizes \cup {0}, reserve \in BOOLEAN :
              tp = [blk |-> 0, mem |-> [i \in 1..n |-> Junk], p |-> 0,
                    size |-> Null, sync |-> Null, reserve |-> reserve]
      BY DEF TpInit
    <2>2. n \in Nat /\ over = FALSE
      BY TpAssumption DEF TpInit
    <2> DEFINE mem == [i \in 1..n |-> Junk]
    <2>3. mem = [i \in 1..n |-> mem[i]]
      OBVIOUS
    <2>4. tp.mem = mem /\ tp.p = 0 /\ tp = [blk |-> tp.blk, mem |-> tp.mem, p |-> tp.p,
                                            size |-> tp.size, sync |-> tp.sync,
                                            reserve |-> tp.reserve]
      BY <2>1
    <2> HIDE DEF mem
    <2>5. IsBlock(mem) /\ Len(mem) = n
      BY <2>2, <2>3, FcnIsBlock
    <2>6. IsTp(tp)
      BY <2>4, <2>5 DEF IsTp
    <2>7. tp.p <= Len(tp.mem)
      BY <2>2, <2>4, <2>5
    <2> QED
      BY <2>2, <2>6, <2>7 DEF BufInv, InBounds
  <1>2. BufInv /\ [TpNext]_tpVars => BufInv'
    BY BufInvStep
  <1>3. BufInv => InBounds
    BY DEF BufInv
  <1> QED
    BY <1>1, <1>2, <1>3, PTL DEF TpSpec

-----------------------------------------------------------------------------
(* TntObject: the offsets of the open containers. *)

\* The width that closing a container of an object of type t expects of its
\* header.
Wide(t, cell) ==
    CASE t = "SPARSE" -> 5
      [] t = "PACKED" -> 1
      [] t = "SIMPLE" -> Width(cell.n)

HeaderOf(cs, e) == cs[e.offset + 1]

\* The header of entry e is in cs, all of it, at the entry's offset.
HeaderAt(cs, e, t) ==
    /\ e.offset < Len(cs) /\ e.offset + HeaderOf(cs, e).w <= Len(cs)
    /\ HeaderOf(cs, e).kind = e.kind
    /\ HeaderOf(cs, e).w = Wide(t, HeaderOf(cs, e))

\* So it is for every entry that is known, and the header of one container is
\* behind that of the container around it.
OpenIn(cs, st, t) ==
    /\ \A i \in 1..Len(st) : st[i].known => HeaderAt(cs, st[i], t)
    /\ \A i, j \in 1..Len(st) :
           i < j /\ st[i].known /\ st[j].known
           => st[i].offset + HeaderOf(cs, st[i]).w <= st[j].offset

ObjectTypes ==
    /\ type \in Types /\ cells \in Seq(Cells) /\ stack \in Seq(Entries)
    /\ wrcnt \in Nat /\ upd \in BOOLEAN
    /\ stackAlloc \in Nat \ {0} /\ Len(stack) <= stackAlloc

\* A new object has no open container, so its type can change; an object with
\* update operations has at most one, which tnt_update_container opened.
Usage ==
    /\ wrcnt = 0 => stack = <<>>
    /\ upd => /\ fmt = <<>> /\ type = "SPARSE" /\ wrcnt > 0 /\ Len(stack) <= 1
              /\ \A i \in 1..Len(stack) : stack[i].known

ObjectInv == ObjectTypes /\ OpenIn(cells, stack, type) /\ Usage

\* One sequence behind another, part by part.
LEMMA JoinFacts ==
    ASSUME NEW S, NEW s \in Seq(S), NEW t \in Seq(S)
    PROVE  /\ s \o t \in Seq(S)
           /\ Len(s) \in Nat /\ Len(t) \in Nat /\ Len(s \o t) = Len(s) + Len(t)
           /\ \A i \in 1..Len(s) : (s \o t)[i] = s[i]
           /\ \A i \in 1..Len(t) : (s \o t)[Len(s) + i] = t[i]
  <1>1. Len(s) \in Nat /\ Len(t) \in Nat
    BY LenProperties
  <1>2. /\ s \o t \in Seq(S) /\ Len(s \o t) = Len(s) + Len(t)
        /\ \A i \in 1..Len(s) + Len(t) :
               (s \o t)[i] = IF i <= Len(s) THEN s[i] ELSE t[i - Len(s)]
    BY ConcatProperties, Zenon
  <1> DEFINE st == s \o t
  <1> HIDE DEF st
  <1>3. \A i \in 1..Len(s) + Len(t) : st[i] = IF i <= Len(s) THEN s[i] ELSE t[i - Len(s)]
    BY <1>2 DEF st
  <1>4. \A i \in 1..Len(s) : st[i] = s[i]
    <2> TAKE i \in 1..Len(s)
    <2>1. i \in 1..Len(s) + Len(t) /\ i <= Len(s)
      BY <1>1
    <2> QED
      BY <1>3, <2>1, Zenon
  <1>5. \A i \in 1..Len(t) : st[Len(s) + i] = t[i]
    <2> TAKE i \in 1..Len(t)
    <2>1. /\ Len(s) + i \in 1..Len(s) + Len(t)
          /\ ~(Len(s) + i <= Len(s)) /\ Len(s) + i - Len(s) = i
      BY <1>1
    <2> QED
      BY <1>3, <2>1
  <1> QED
    BY <1>1, <1>2, <1>4, <1>5, Zenon DEF st

\* mp_sizeof_array and mp_sizeof_map come to one, three or five bytes.
LEMMA WidthFacts ==
    /\ \A n \in Nat : Width(n) \in {1, 3, 5}
    /\ Width(0) = 1
  BY ObjectAssumption DEF Width

\* A header is as long as it says.
LEMMA HeaderCellsFacts ==
    ASSUME NEW k \in Containers, NEW n \in Nat, NEW w \in {1, 3, 5}
    PROVE  /\ HeaderCells(k, n, w) \in Seq(Cells)
           /\ Len(HeaderCells(k, n, w)) = w
           /\ HeaderCells(k, n, w)[1] = Cell(k, n, w)
           /\ Cell(k, n, w).kind = k /\ Cell(k, n, w).n = n /\ Cell(k, n, w).w = w
  <1> DEFINE more == [i \in 1..(w - 1) |-> Cell("length", 0, 1)]
             first == <<Cell(k, n, w)>>
  <1>1. Cell(k, n, w) \in Cells /\ Cell("length", 0, 1) \in Cells
    BY DEF Cell, Cells
  <1>2. w - 1 \in Nat /\ more \in [1..(w - 1) -> Cells]
    BY <1>1
  <1>3. more \in Seq(Cells) /\ Len(more) = w - 1
    BY <1>2, FcnIsSeq
  <1>4. first \in Seq(Cells) /\ Len(first) = 1 /\ first[1] = Cell(k, n, w)
    BY <1>1
  <1> HIDE DEF more, first
  <1>5. /\ first \o more \in Seq(Cells) /\ Len(first \o more) = Len(first) + Len(more)
        /\ \A i \in 1..Len(first) : (first \o more)[i] = first[i]
    <2>1. first \in Seq(Cells) /\ more \in Seq(Cells)
      BY <1>3, <1>4
    <2> QED
      BY <2>1, JoinFacts, ZenonT(30)
  <1>6. (first \o more)[1] = first[1]
    <2>1. 1 \in 1..Len(first)
      BY <1>4
    <2> QED
      BY <1>5, <2>1, Zenon
  <1>7. HeaderCells(k, n, w) = first \o more
    BY DEF HeaderCells, first, more
  <1>8. Len(first) + Len(more) = w
    BY <1>3, <1>4
  <1>9. Cell(k, n, w).kind = k /\ Cell(k, n, w).n = n /\ Cell(k, n, w).w = w
    BY DEF Cell
  <1> QED
    BY <1>4, <1>5, <1>6, <1>7, <1>8, <1>9, Zenon

\* The header that a container is opened with is the one that closing expects.
LEMMA OpeningFacts ==
    ASSUME NEW k \in Containers, NEW n \in Nat, type \in Types
    PROVE  /\ Opening(k, n) \in Seq(Cells)
           /\ Opening(k, n)[1].kind = k
           /\ Opening(k, n)[1].w = Len(Opening(k, n))
           /\ Opening(k, n)[1].w = Wide(type, Opening(k, n)[1])
           /\ Opening(k, n)[1].w \in {1, 3, 5}
  <1>1. CASE type = "SIMPLE"
    <2> DEFINE w == Width(n)
    <2>1. Opening(k, n) = HeaderCells(k, n, w) /\ w \in {1, 3, 5}
      BY <1>1, WidthFacts DEF Opening
    <2> HIDE DEF w
    <2> DEFINE h == HeaderCells(k, n, w)
               c == Cell(k, n, w)
    <2>2. w \in {1, 3, 5}
      BY <2>1
    <2>3. h \in Seq(Cells) /\ Len(h) = w /\ h[1] = c /\ c.kind = k /\ c.n = n /\ c.w = w
      BY <2>2, HeaderCellsFacts, ZenonT(30)
    <2> HIDE DEF h, c
    <2>4. h \in Seq(Cells) /\ Len(h) = w /\ h[1].kind = k /\ h[1].n = n /\ h[1].w = w
      BY <2>3
    <2> USE DEF h
    <2>5. Wide(type, Opening(k, n)[1]) = w
      BY <1>1, <2>1, <2>4 DEF Wide, w
    <2> QED
      BY <2>1, <2>4, <2>5
  <1>2. CASE type = "SPARSE"
    <2>1. Opening(k, n) = HeaderCells(k, 0, 5)
      BY <1>2 DEF Opening
    <2>2. /\ HeaderCells(k, 0, 5) \in Seq(Cells)
          /\ HeaderCells(k, 0, 5)[1].kind = k
          /\ Len(HeaderCells(k, 0, 5)) = 5
          /\ HeaderCells(k, 0, 5)[1].n = 0
          /\ HeaderCells(k, 0, 5)[1].w = 5
      BY <2>1, HeaderCellsFacts
    <2> QED
      BY <1>2, <2>1, <2>2 DEF Wide
  <1>3. CASE type = "PACKED"
    <2>1. Opening(k, n) = HeaderCells(k, 0, 1)
      BY <1>3, WidthFacts DEF Opening
    <2>2. /\ HeaderCells(k, 0, 1) \in Seq(Cells)
          /\ HeaderCells(k, 0, 1)[1].kind = k
          /\ Len(HeaderCells(k, 0, 1)) = 1
          /\ HeaderCells(k, 0, 1)[1].n = 0
          /\ HeaderCells(k, 0, 1)[1].w = 1
      BY <2>1, HeaderCellsFacts
    <2> QED
      BY <1>3, <2>1, <2>2 DEF Wide
  <1> QED
    BY <1>1, <1>2, <1>3 DEF Types

\* The first cell of a header that is there.
LEMMA HeaderOfFacts ==
    ASSUME NEW cs \in Seq(Cells), NEW e \in Entries, NEW t, HeaderAt(cs, e, t)
    PROVE  /\ e.offset \in Nat /\ Len(cs) \in Nat /\ e.offset + 1 \in 1..Len(cs)
           /\ HeaderOf(cs, e) \in Cells /\ HeaderOf(cs, e).w \in {1, 3, 5}
  <1>1. e.offset \in Nat /\ Len(cs) \in Nat
    BY LenProperties DEF Entries
  <1>2. e.offset + 1 \in 1..Len(cs)
    BY <1>1 DEF HeaderAt
  <1>3. HeaderOf(cs, e) \in Cells
    BY <1>2, ElementOfSeq DEF HeaderOf
  <1>4. HeaderOf(cs, e).w \in {1, 3, 5}
    BY <1>3 DEF Cells
  <1> QED
    BY <1>1, <1>2, <1>3, <1>4

\* A header is found where it was as long as the cells up to its end stay.
LEMMA HeaderStays ==
    ASSUME NEW cs \in Seq(Cells), NEW ds \in Seq(Cells), NEW t,
           NEW e \in Entries, NEW f \in Entries, f.offset = e.offset, f.kind = e.kind,
           NEW m \in Nat, m <= Len(ds), \A i \in 1..m : ds[i] = cs[i],
           HeaderAt(cs, e, t), e.offset + HeaderOf(cs, e).w <= m
    PROVE  HeaderAt(ds, f, t) /\ HeaderOf(ds, f) = HeaderOf(cs, e)
  <1> DEFINE w == HeaderOf(cs, e).w
  <1>1. e.offset \in Nat /\ w \in {1, 3, 5} /\ Len(ds) \in Nat
    BY HeaderOfFacts, LenProperties
  <1>2. e.offset + w <= m
    OBVIOUS
  <1> HIDE DEF w
  <1>3. e.offset + 1 \in 1..m /\ e.offset < Len(ds) /\ e.offset + w <= Len(ds)
    BY <1>1, <1>2
  <1>4. HeaderOf(ds, f) = HeaderOf(cs, e)
    BY <1>3 DEF HeaderOf
  <1> QED
    BY <1>3, <1>4 DEF HeaderAt, w

\* The open containers stay where they are when the cells up to the end of the
\* last header stay, whatever follows, and the stack does not point elsewhere.
LEMMA OpenStays ==
    ASSUME NEW cs \in Seq(Cells), NEW ds \in Seq(Cells), NEW t,
           NEW st \in Seq(Entries), NEW su \in Seq(Entries), OpenIn(cs, st, t),
           NEW m \in Nat, m <= Len(ds), \A i \in 1..m : ds[i] = cs[i],
           Len(su) <= Len(st),
           \A i \in 1..Len(su) :
               su[i].known => /\ st[i].known /\ su[i].offset = st[i].offset
                              /\ su[i].kind = st[i].kind
                              /\ st[i].offset + HeaderOf(cs, st[i]).w <= m
    PROVE  OpenIn(ds, su, t)
  <1>1. Len(su) \in Nat /\ Len(st) \in Nat
    BY LenProperties
  <1>2. \A i \in 1..Len(su) : i \in 1..Len(st) /\ su[i] \in Entries /\ st[i] \in Entries
    BY <1>1, ElementOfSeq
  <1>3. \A i \in 1..Len(su) :
            su[i].known => HeaderAt(ds, su[i], t) /\ HeaderOf(ds, su[i]) = HeaderOf(cs, st[i])
    <2> SUFFICES ASSUME NEW i \in 1..Len(su), su[i].known
                 PROVE  HeaderAt(ds, su[i], t) /\ HeaderOf(ds, su[i]) = HeaderOf(cs, st[i])
      OBVIOUS
    <2>1. HeaderAt(cs, st[i], t)
      BY <1>2 DEF OpenIn
    <2> QED
      BY <1>2, <2>1, HeaderStays
  <1>4. ASSUME NEW i \in 1..Len(su), NEW j \in 1..Len(su), i < j, su[i].known, su[j].known
        PROVE  su[i].offset + HeaderOf(ds, su[i]).w <= su[j].offset
    <2>1. st[i].offset + HeaderOf(cs, st[i]).w <= st[j].offset
      BY <1>2, <1>4 DEF OpenIn
    <2> QED
      BY <1>3, <1>4, <2>1
  <1> QED
    BY <1>3, <1>4 DEF OpenIn

\* A container is opened: its header goes behind the cells, its entry behind
\* the stack.
LEMMA OpenPushed ==
    ASSUME NEW cs \in Seq(Cells), NEW h \in Seq(Cells), NEW t, NEW st \in Seq(Entries),
           OpenIn(cs, st, t), NEW e \in Entries, e.offset = Len(cs),
           NEW c \in Cells, h[1] = c, Len(h) = c.w, c.kind = e.kind, c.w = Wide(t, c)
    PROVE  OpenIn(cs \o h, Append(st, e), t)
  <1> DEFINE ds == cs \o h
             su == Append(st, e)
  <1> HIDE DEF ds, su
  <1>1. /\ ds \in Seq(Cells) /\ Len(cs) \in Nat /\ Len(h) \in Nat /\ Len(ds) = Len(cs) + Len(h)
        /\ \A i \in 1..Len(cs) : ds[i] = cs[i]
        /\ \A i \in 1..Len(h) : ds[Len(cs) + i] = h[i]
    <2>1. /\ cs \o h \in Seq(Cells) /\ Len(cs) \in Nat /\ Len(h) \in Nat
          /\ Len(cs \o h) = Len(cs) + Len(h)
      BY JoinFacts, Zenon
    <2>2. \A i \in 1..Len(cs) : (cs \o h)[i] = cs[i]
      BY JoinFacts, Zenon
    <2>3. \A i \in 1..Len(h) : (cs \o h)[Len(cs) + i] = h[i]
      BY JoinFacts
    <2> QED
      BY <2>1, <2>2, <2>3, Zenon DEF ds
  <1>2. /\ su \in Seq(Entries) /\ Len(st) \in Nat /\ Len(su) = Len(st) + 1
        /\ \A i \in 1..Len(st) : su[i] = st[i]
        /\ su[Len(st) + 1] = e
    <2>1. Len(st) \in Nat
      BY LenProperties
    <2>2. /\ su \in Seq(Entries) /\ Len(su) = Len(st) + 1
          /\ \A i \in 1..Len(st) : su[i] = st[i]
          /\ su[Len(st) + 1] = e
      BY AppendProperties DEF su
    <2> QED
      BY <2>1, <2>2
  <1>3. Len(h) \in {1, 3, 5} /\ Len(cs) <= Len(ds)
    <2>1. c.w \in {1, 3, 5}
      BY DEF Cells
    <2> QED
      BY <1>1, <2>1
  <1>4. HeaderOf(ds, e) = c
    <2>1. 1 \in 1..Len(h)
      BY <1>3
    <2> QED
      BY <1>1, <2>1 DEF HeaderOf
  <1>5. HeaderAt(ds, e, t)
    <2>1. e.offset < Len(ds) /\ e.offset + Len(h) <= Len(ds)
      <3>1. e.offset = Len(cs) /\ Len(cs) \in Nat /\ Len(ds) = Len(cs) + Len(h)
        BY <1>1
      <3> QED
        BY <1>3, <3>1
    <2> QED
      BY <1>4, <2>1 DEF HeaderAt
  <1>6. ASSUME NEW i \in 1..Len(st), st[i].known
        PROVE  /\ st[i].offset + HeaderOf(cs, st[i]).w <= Len(cs)
               /\ HeaderAt(ds, su[i], t) /\ HeaderOf(ds, su[i]) = HeaderOf(cs, st[i])
    <2>1. HeaderAt(cs, st[i], t) /\ st[i] \in Entries
      BY <1>6, ElementOfSeq DEF OpenIn
    <2>2. st[i].offset + HeaderOf(cs, st[i]).w <= Len(cs)
      BY <2>1 DEF HeaderAt
    <2>3. HeaderAt(ds, st[i], t) /\ HeaderOf(ds, st[i]) = HeaderOf(cs, st[i])
      <3> DEFINE m == Len(cs)
      <3>1. m \in Nat /\ m <= Len(ds) /\ \A l \in 1..m : ds[l] = cs[l]
        BY <1>1, <1>3
      <3>2. st[i].offset + HeaderOf(cs, st[i]).w <= m
        BY <2>2
      <3> HIDE DEF m
      <3>3. ds \in Seq(Cells) /\ st[i].offset = st[i].offset /\ st[i].kind = st[i].kind
        BY <1>1
      <3> QED
        BY <2>1, <3>1, <3>2, <3>3, HeaderStays
    <2> QED
      BY <1>2, <2>2, <2>3
  <1>7. \A i \in 1..Len(su) : su[i].known => HeaderAt(ds, su[i], t)
    <2> TAKE i \in 1..Len(su)
    <2>1. i \in 1..Len(st) \/ i = Len(st) + 1
      BY <1>2
    <2> QED
      BY <1>2, <1>5, <1>6, <2>1
  <1>8. ASSUME NEW i \in 1..Len(su), NEW j \in 1..Len(su), i < j, su[i].known, su[j].known
        PROVE  su[i].offset + HeaderOf(ds, su[i]).w <= su[j].offset
    <2>1. i \in 1..Len(st) /\ (j \in 1..Len(st) \/ j = Len(st) + 1)
      BY <1>2, <1>8
    <2>2. su[i] = st[i] /\ st[i].known
      BY <1>2, <1>8, <2>1
    <2>3. CASE j \in 1..Len(st)
      <3>1. su[j] = st[j] /\ st[j].known
        BY <1>2, <1>8, <2>3
      <3>2. st[i].offset + HeaderOf(cs, st[i]).w <= st[j].offset
        BY <1>8, <2>1, <2>2, <2>3, <3>1 DEF OpenIn
      <3> QED
        BY <1>6, <2>1, <2>2, <3>1, <3>2
    <2>4. CASE j = Len(st) + 1
      BY <1>2, <1>6, <2>1, <2>2, <2>4
    <2> QED
      BY <2>1, <2>3, <2>4
  <1> QED
    BY <1>7, <1>8 DEF OpenIn, ds, su

\* Counting one more element moves no entry.
LEMMA BumpFacts ==
    ASSUME NEW st \in Seq(Entries)
    PROVE  /\ Bump(st) \in Seq(Entries) /\ Len(Bump(st)) = Len(st)
           /\ \A i \in 1..Len(st) : /\ Bump(st)[i].known = st[i].known
                                    /\ Bump(st)[i].offset = st[i].offset
                                    /\ Bump(st)[i].kind = st[i].kind
  <1>1. CASE st = <<>>
    <2>1. Bump(st) = st
      BY <1>1 DEF Bump
    <2> QED
      BY <2>1
  <1>2. CASE st # <<>>
    <2> DEFINE n == Len(st)
               top == [st[n] EXCEPT !.size = @ + 1]
    <2>1. n \in Nat /\ n # 0
      BY <1>2, LenProperties, EmptySeq
    <2>2. n \in 1..Len(st) /\ st[n] \in Entries
      BY <2>1, ElementOfSeq
    <2>3. /\ top \in Entries /\ top.known = st[n].known /\ top.offset = st[n].offset
          /\ top.kind = st[n].kind
      BY <2>2 DEF Entries
    <2>4. Bump(st) = [st EXCEPT ![n] = top]
      BY <1>2 DEF Bump
    <2> HIDE DEF n, top
    <2>5. /\ [st EXCEPT ![n] = top] \in Seq(Entries)
          /\ Len([st EXCEPT ![n] = top]) = Len(st)
          /\ \A i \in 1..Len(st) : [st EXCEPT ![n] = top][i] = IF i = n THEN top ELSE st[i]
      BY <2>2, <2>3, ExceptSeq
    <2> QED
      BY <2>3, <2>4, <2>5
  <1> QED
    BY <1>1, <1>2

\* The entries of a stack that has grown are not known.
LEMMA GrownFacts ==
    ASSUME NEW st \in Seq(Entries)
    PROVE  /\ Grown(st) \in Seq(Entries) /\ Len(Grown(st)) = Len(st)
           /\ \A i \in 1..Len(st) : ~Grown(st)[i].known
  <1>1. Len(st) \in Nat /\ \A i \in 1..Len(st) : st[i] \in Entries
    BY LenProperties, ElementOfSeq
  <1>2. \A i \in 1..Len(st) : /\ [st[i] EXCEPT !.known = FALSE] \in Entries
                              /\ ~[st[i] EXCEPT !.known = FALSE].known
    BY <1>1 DEF Entries
  <1>3. Grown(st) \in [1..Len(st) -> Entries]
    BY <1>2 DEF Grown
  <1>4. Grown(st) \in Seq(Entries) /\ Len(Grown(st)) = Len(st)
    BY <1>1, <1>3, FcnIsSeq
  <1> QED
    BY <1>2, <1>4 DEF Grown

\* Cells behind the ones that are there disturb no open container.
LEMMA OpenAppended ==
    ASSUME NEW cs \in Seq(Cells), NEW ds \in Seq(Cells), NEW t,
           NEW st \in Seq(Entries), NEW su \in Seq(Entries), OpenIn(cs, st, t),
           Len(cs) <= Len(ds), \A i \in 1..Len(cs) : ds[i] = cs[i],
           Len(su) = Len(st),
           \A i \in 1..Len(st) :
               su[i].known => /\ st[i].known /\ su[i].offset = st[i].offset
                              /\ su[i].kind = st[i].kind
    PROVE  OpenIn(ds, su, t)
  <1> DEFINE m == Len(cs)
  <1>1. m \in Nat /\ Len(st) \in Nat
    BY LenProperties
  <1>2. m <= Len(ds) /\ \A i \in 1..m : ds[i] = cs[i]
    OBVIOUS
  <1>3. Len(su) <= Len(st)
    BY <1>1
  <1>4. \A i \in 1..Len(su) :
            su[i].known => /\ st[i].known /\ su[i].offset = st[i].offset
                           /\ su[i].kind = st[i].kind
                           /\ st[i].offset + HeaderOf(cs, st[i]).w <= m
    BY DEF OpenIn, HeaderAt
  <1> HIDE DEF m
  <1> QED
    BY <1>1, <1>2, <1>3, <1>4, OpenStays

\* The first m elements of a sequence, and those from a on.
LEMMA CutFacts ==
    ASSUME NEW S, NEW s \in Seq(S), NEW m \in Nat, m <= Len(s), NEW a \in Nat \ {0}
    PROVE  /\ SubSeq(s, 1, m) \in Seq(S) /\ Len(SubSeq(s, 1, m)) = m
           /\ \A i \in 1..m : SubSeq(s, 1, m)[i] = s[i]
           /\ SubSeq(s, a, Len(s)) \in Seq(S)
  <1>1. Len(s) \in Nat
    BY LenProperties
  <1>2. 1 \in Int /\ m \in Int /\ a \in Int /\ Len(s) \in Int
    BY <1>1
  <1>3. \A i \in 1..m : s[i] \in S
    BY <1>1, ElementOfSeq
  <1>4. \A i \in a..Len(s) : s[i] \in S
    BY <1>1, ElementOfSeq
  <1>5. SubSeq(s, a, Len(s)) \in Seq(S)
    BY <1>2, <1>4, SubSeqProperties, Zenon
  <1> DEFINE front == SubSeq(s, 1, m)
  <1>6. /\ front \in Seq(S) /\ Len(front) = IF 1 <= m THEN m - 1 + 1 ELSE 0
        /\ \A i \in 1..m - 1 + 1 : front[i] = s[1 + i - 1]
    BY <1>2, <1>3, SubSeqProperties
  <1> HIDE DEF front
  <1>7. Len(front) = m /\ \A i \in 1..m : front[i] = s[i]
    BY <1>6
  <1> QED
    BY <1>5, <1>6, <1>7 DEF front

\* memmove and a new header: what is before the header stays.
LEMMA RewriteFacts ==
    ASSUME cells \in Seq(Cells), NEW o \in Nat, o <= Len(cells), NEW w \in Nat,
           NEW h \in Seq(Cells)
    PROVE  /\ Rewrite(o, w, h) \in Seq(Cells) /\ o <= Len(Rewrite(o, w, h))
           /\ \A i \in 1..o : Rewrite(o, w, h)[i] = cells[i]
  <1> DEFINE before == SubSeq(cells, 1, o)
             after == SubSeq(cells, o + w + 1, Len(cells))
             upto == before \o h
  <1>1. o + w + 1 \in Nat \ {0}
    OBVIOUS
  <1>2. /\ before \in Seq(Cells) /\ Len(before) = o /\ \A i \in 1..o : before[i] = cells[i]
        /\ after \in Seq(Cells)
    BY <1>1, CutFacts
  <1>3. Rewrite(o, w, h) = upto \o after
    BY DEF Rewrite
  <1> HIDE DEF before, after, upto
  <1>4. /\ upto \in Seq(Cells) /\ Len(upto) = Len(before) + Len(h) /\ Len(h) \in Nat
        /\ \A i \in 1..Len(before) : upto[i] = before[i]
    <2>1. /\ before \o h \in Seq(Cells) /\ Len(before \o h) = Len(before) + Len(h)
          /\ Len(h) \in Nat
          /\ \A i \in 1..Len(before) : (before \o h)[i] = before[i]
      BY <1>2, JoinFacts, Zenon
    <2> QED
      BY <2>1, Zenon DEF upto
  <1>5. /\ upto \o after \in Seq(Cells) /\ Len(upto \o after) = Len(upto) + Len(after)
        /\ Len(after) \in Nat
        /\ \A i \in 1..Len(upto) : (upto \o after)[i] = upto[i]
    BY <1>2, <1>4, JoinFacts, Zenon
  <1> DEFINE all == upto \o after
  <1>6. /\ all \in Seq(Cells) /\ Len(all) = Len(upto) + Len(after)
        /\ \A i \in 1..Len(upto) : all[i] = upto[i]
    BY <1>5
  <1> HIDE DEF all
  <1>7. Len(upto) = o + Len(h) /\ o <= Len(all)
    BY <1>2, <1>4, <1>5, <1>6
  <1>8. \A i \in 1..o : i \in 1..Len(upto)
    BY <1>4, <1>7
  <1>9. \A i \in 1..o : all[i] = cells[i]
    BY <1>2, <1>4, <1>6, <1>8
  <1> QED
    BY <1>3, <1>6, <1>7, <1>9 DEF all

\* The innermost container is closed: the others stay open where they are when
\* the cells before its header stay.
LEMMA OpenClosed ==
    ASSUME NEW cs \in Seq(Cells), NEW ds \in Seq(Cells), NEW t,
           NEW st \in Seq(Entries), st # <<>>, OpenIn(cs, st, t),
           NEW o \in Nat, o <= Len(ds), \A i \in 1..o : ds[i] = cs[i],
           st[Len(st)].known, st[Len(st)].offset = o
    PROVE  /\ SubSeq(st, 1, Len(st) - 1) \in Seq(Entries)
           /\ Len(SubSeq(st, 1, Len(st) - 1)) = Len(st) - 1
           /\ OpenIn(ds, SubSeq(st, 1, Len(st) - 1), t)
  <1> DEFINE n == Len(st)
             m == n - 1
             su == SubSeq(st, 1, m)
  <1>1. n \in Nat /\ n # 0
    BY LenProperties, EmptySeq
  <1>2. m \in Nat /\ m <= Len(st) /\ 1 \in Nat \ {0}
    BY <1>1
  <1> HIDE DEF m
  <1>3. su \in Seq(Entries) /\ Len(su) = m /\ \A i \in 1..m : su[i] = st[i]
    BY <1>2, CutFacts
  <1> HIDE DEF su
  <1>4. \A i \in 1..m : i \in 1..n /\ n \in 1..n /\ i < n
    BY <1>1 DEF m
  <1>5. \A i \in 1..m : st[i].known => st[i].offset + HeaderOf(cs, st[i]).w <= o
    BY <1>4 DEF OpenIn
  <1>6. \A i \in 1..Len(su) :
            su[i].known => /\ st[i].known /\ su[i].offset = st[i].offset
                           /\ su[i].kind = st[i].kind
                           /\ st[i].offset + HeaderOf(cs, st[i]).w <= o
    BY <1>3, <1>5
  <1>7. Len(su) <= Len(st)
    BY <1>2, <1>3
  <1>8. OpenIn(ds, su, t)
    BY <1>3, <1>6, <1>7, OpenStays
  <1> QED
    BY <1>3, <1>8 DEF su, m

\* With no container open there is nothing to lead to.
LEMMA OpenNone ==
    ASSUME NEW cs, NEW t
    PROVE  OpenIn(cs, <<>>, t) /\ <<>> \in Seq(Entries) /\ Len(<<>>) = 0
  BY EmptySeq DEF OpenIn

LEMMA SetTypeStep ==
    ASSUME ObjectInv, NEW t \in Types, SetType(t), ~upd, upd' = upd
    PROVE  ObjectInv'
  <1>1. stack' = <<>> /\ cells' = cells /\ wrcnt' = 0 /\ type' = t /\ stackAlloc' = stackAlloc
    BY DEF ObjectInv, Usage, SetType
  <1>2. OpenIn(cells', stack', type')
    BY <1>1, OpenNone
  <1>3. ObjectTypes'
    BY <1>1, OpenNone DEF ObjectInv, ObjectTypes
  <1> QED
    BY <1>1, <1>2, <1>3 DEF ObjectInv, Usage

LEMMA AddScalarStep ==
    ASSUME ObjectInv, AddScalar, ~upd, upd' = upd
    PROVE  ObjectInv'
  <1> DEFINE ds == Append(cells, Atom)
             su == Bump(stack)
  <1>1. /\ type \in Types /\ cells \in Seq(Cells) /\ stack \in Seq(Entries)
        /\ OpenIn(cells, stack, type) /\ wrcnt \in Nat /\ upd \in BOOLEAN
        /\ stackAlloc \in Nat \ {0} /\ Len(stack) <= stackAlloc
    BY DEF ObjectInv, ObjectTypes
  <1>2. cells' = ds /\ stack' = su /\ wrcnt' = wrcnt + 1 /\ type' = type
        /\ stackAlloc' = stackAlloc
    BY DEF AddScalar
  <1>3. Atom \in Cells /\ Len(cells) \in Nat
    BY <1>1, LenProperties DEF Atom, Cell, Cells
  <1>4. ds \in Seq(Cells) /\ Len(ds) = Len(cells) + 1 /\ \A i \in 1..Len(cells) : ds[i] = cells[i]
    BY <1>1, <1>3, AppendProperties
  <1>5. /\ su \in Seq(Entries) /\ Len(su) = Len(stack)
        /\ \A i \in 1..Len(stack) : /\ su[i].known = stack[i].known
                                    /\ su[i].offset = stack[i].offset
                                    /\ su[i].kind = stack[i].kind
    BY <1>1, BumpFacts
  <1> HIDE DEF ds, su
  <1>6. Len(cells) <= Len(ds)
    BY <1>3, <1>4
  <1>7. OpenIn(ds, su, type)
    BY <1>1, <1>4, <1>5, <1>6, OpenAppended
  <1>8. ObjectTypes'
    BY <1>1, <1>2, <1>4, <1>5 DEF ObjectTypes
  <1>9. wrcnt' # 0
    BY <1>1, <1>2
  <1> QED
    BY <1>2, <1>7, <1>8, <1>9 DEF ObjectInv, Usage

LEMMA CloseStep ==
    ASSUME ObjectInv, Close, ~upd, upd' = upd
    PROVE  ObjectInv'
  <1> DEFINE top == stack[Len(stack)]
             n == Counted(top.kind, top.size)
             su == SubSeq(stack, 1, Len(stack) - 1)
             o == top.offset
  <1>1. /\ type \in Types /\ cells \in Seq(Cells) /\ stack \in Seq(Entries)
        /\ OpenIn(cells, stack, type) /\ wrcnt \in Nat /\ upd \in BOOLEAN
        /\ stackAlloc \in Nat \ {0} /\ Len(stack) <= stackAlloc
        /\ (wrcnt = 0 => stack = <<>>)
    BY DEF ObjectInv, ObjectTypes, Usage
  <1>2. stack # <<>> /\ type' = type /\ stackAlloc' = stackAlloc /\ wrcnt' = wrcnt
    BY DEF Close
  <1>3. Len(stack) \in Nat /\ Len(stack) # 0
    BY <1>1, <1>2, LenProperties, EmptySeq
  <1>4. top \in Entries /\ Len(stack) \in 1..Len(stack)
    BY <1>1, <1>3, ElementOfSeq
  <1>5. o \in Nat /\ top.kind \in Containers /\ top.size \in Nat
    BY <1>4 DEF Entries
  <1>6. n \in Nat
    BY <1>5 DEF Counted
  <1>7. CASE ~top.known
    <2>1. cells' = cells /\ stack' = stack
      BY <1>7 DEF Close
    <2>2. ObjectTypes' /\ OpenIn(cells', stack', type')
      BY <1>1, <1>2, <2>1 DEF ObjectTypes
    <2> QED
      BY <1>1, <1>2, <2>1, <2>2 DEF ObjectInv, Usage
  <1>8. CASE top.known
    <2>1. /\ stack' = su
          /\ cells' = CASE type = "SIMPLE" -> cells
                        [] type = "SPARSE" -> Rewrite(o, 5, HeaderCells(top.kind, n, 5))
                        [] type = "PACKED" -> Rewrite(o, 1, HeaderCells(top.kind, n, Width(n)))
      BY <1>8 DEF Close
    <2>2. Len(cells) \in Nat /\ o <= Len(cells)
      <3>1. Len(cells) \in Nat
        BY <1>1, LenProperties
      <3>2. o < Len(cells)
        BY <1>1, <1>4, <1>8 DEF OpenIn, HeaderAt
      <3> QED
        BY <1>5, <3>1, <3>2
    <2> HIDE DEF top, n, su, o
    <2>3. cells' \in Seq(Cells) /\ o <= Len(cells') /\ \A i \in 1..o : cells'[i] = cells[i]
      <3>1. CASE type = "SIMPLE"
        BY <1>1, <2>1, <2>2, <3>1
      <3>2. CASE type = "SPARSE"
        <4>1. HeaderCells(top.kind, n, 5) \in Seq(Cells)
          BY <1>5, <1>6, HeaderCellsFacts
        <4>2. cells' = Rewrite(o, 5, HeaderCells(top.kind, n, 5))
          BY <2>1, <3>2
        <4> QED
          BY <1>1, <1>5, <2>2, <4>1, <4>2, RewriteFacts
      <3>3. CASE type = "PACKED"
        <4>1. Width(n) \in {1, 3, 5}
          BY <1>6, WidthFacts
        <4>2. HeaderCells(top.kind, n, Width(n)) \in Seq(Cells)
          BY <1>5, <1>6, <4>1, HeaderCellsFacts, Zenon
        <4>3. cells' = Rewrite(o, 1, HeaderCells(top.kind, n, Width(n)))
          BY <2>1, <3>3
        <4> QED
          BY <1>1, <1>5, <2>2, <4>2, <4>3, RewriteFacts
      <3> QED
        BY <1>1, <3>1, <3>2, <3>3 DEF Types
    <2>4. stack[Len(stack)].known /\ stack[Len(stack)].offset = o
      BY <1>8 DEF top, o
    <2>5. su \in Seq(Entries) /\ Len(su) = Len(stack) - 1 /\ OpenIn(cells', su, type)
      BY <1>1, <1>2, <1>5, <2>3, <2>4, OpenClosed DEF su
    <2>6. Len(su) <= stackAlloc
      BY <1>1, <1>3, <2>5
    <2>7. ObjectTypes' /\ OpenIn(cells', stack', type')
      BY <1>1, <1>2, <2>1, <2>3, <2>5, <2>6 DEF ObjectTypes
    <2>8. wrcnt' # 0
      BY <1>1, <1>2
    <2> QED
      BY <2>7, <2>8 DEF ObjectInv, Usage
  <1> QED
    BY <1>7, <1>8

LEMMA AddContainerStep ==
    ASSUME ObjectInv, NEW k \in Containers, NEW n \in Nat, AddContainer(k, n), ~upd, upd' = upd
    PROVE  ObjectInv'
  <1> DEFINE bumped == Bump(stack)
             e == [size |-> 0, offset |-> Len(cells), kind |-> k, known |-> TRUE]
             st == IF Len(stack) < stackAlloc THEN bumped ELSE Grown(bumped)
             h == Opening(k, n)
  <1>1. /\ type \in Types /\ cells \in Seq(Cells) /\ stack \in Seq(Entries)
        /\ OpenIn(cells, stack, type) /\ wrcnt \in Nat /\ upd \in BOOLEAN
        /\ stackAlloc \in Nat \ {0} /\ Len(stack) <= stackAlloc
        /\ (wrcnt = 0 => stack = <<>>)
    BY DEF ObjectInv, ObjectTypes, Usage
  <1>2. Len(cells) \in Nat /\ Len(stack) \in Nat /\ Len(cells) <= Len(cells)
    <2>1. Len(cells) \in Nat /\ Len(stack) \in Nat
      BY <1>1, LenProperties
    <2> QED
      BY <2>1
  <1>3. /\ bumped \in Seq(Entries) /\ Len(bumped) = Len(stack)
        /\ \A i \in 1..Len(stack) : /\ bumped[i].known = stack[i].known
                                    /\ bumped[i].offset = stack[i].offset
                                    /\ bumped[i].kind = stack[i].kind
    BY <1>1, BumpFacts
  <1>4. type' = type
    BY DEF AddContainer
  <1>5. CASE Len(stack) = stackAlloc /\ stackAlloc = StackMax
    <2>1. stack' = bumped /\ cells' = cells /\ stackAlloc' = stackAlloc /\ wrcnt' = wrcnt
      BY <1>5 DEF AddContainer
    <2> HIDE DEF bumped
    <2>2. OpenIn(cells, bumped, type)
      BY <1>1, <1>2, <1>3, OpenAppended
    <2>3. ObjectTypes' /\ OpenIn(cells', stack', type')
      BY <1>1, <1>3, <1>4, <2>1, <2>2 DEF ObjectTypes
    <2>4. Len(stack) # 0
      BY <1>1, <1>5
    <2>5. wrcnt' # 0
      BY <1>1, <2>1, <2>4, EmptySeq
    <2> QED
      BY <2>3, <2>5 DEF ObjectInv, Usage
  <1>6. CASE ~(Len(stack) = stackAlloc /\ stackAlloc = StackMax)
    <2>1. /\ stack' = Append(st, e) /\ stackAlloc' = Room /\ cells' = cells \o h
          /\ wrcnt' = wrcnt + 1
      BY <1>6 DEF AddContainer
    <2> HIDE DEF bumped
    <2>2. /\ st \in Seq(Entries) /\ Len(st) = Len(stack)
          /\ \A i \in 1..Len(stack) :
                 st[i].known => /\ stack[i].known /\ st[i].offset = stack[i].offset
                                /\ st[i].kind = stack[i].kind
      <3>1. CASE Len(stack) < stackAlloc
        BY <1>3, <3>1
      <3>2. CASE ~(Len(stack) < stackAlloc)
        BY <1>3, <3>2, GrownFacts
      <3> QED
        BY <3>1, <3>2
    <2>3. e \in Entries /\ e.offset = Len(cells) /\ e.kind = k
      BY <1>2 DEF Entries
    <2>4. /\ h \in Seq(Cells) /\ h[1].kind = k /\ h[1].w = Len(h)
          /\ h[1].w = Wide(type, h[1]) /\ h[1].w \in {1, 3, 5}
      BY <1>1, OpeningFacts
    <2> HIDE DEF st, e, h
    <2>5. OpenIn(cells, st, type)
      BY <1>1, <1>2, <2>2, OpenAppended
    <2>6. h[1] \in Cells
      <3>1. 1 \in 1..Len(h)
        BY <2>4
      <3> QED
        BY <2>4, <3>1, ElementOfSeq
    <2>7. OpenIn(cells \o h, Append(st, e), type)
      <3> DEFINE c == h[1]
      <3>1. c \in Cells /\ h[1] = c /\ Len(h) = c.w /\ c.kind = e.kind /\ c.w = Wide(type, c)
        BY <2>3, <2>4, <2>6
      <3> HIDE DEF c
      <3> QED
        BY <1>1, <2>2, <2>3, <2>4, <2>5, <3>1, OpenPushed
    <2>8. cells' \in Seq(Cells)
      BY <1>1, <2>1, <2>4, ConcatProperties
    <2>9. stack' \in Seq(Entries) /\ Len(stack') = Len(stack) + 1
      BY <2>1, <2>2, <2>3, AppendProperties
    <2>10. stackAlloc' \in Nat \ {0} /\ Len(stack) + 1 <= stackAlloc'
      <3>1. CASE Len(stack) < stackAlloc
        BY <1>1, <1>2, <2>1, <3>1 DEF Room
      <3>2. CASE ~(Len(stack) < stackAlloc)
        BY <1>1, <1>2, <2>1, <3>2 DEF Room
      <3> QED
        BY <3>1, <3>2
    <2>11. wrcnt' \in Nat /\ wrcnt' # 0
      BY <1>1, <2>1
    <2>12. ObjectTypes' /\ OpenIn(cells', stack', type')
      BY <1>1, <1>4, <2>1, <2>7, <2>8, <2>9, <2>10, <2>11 DEF ObjectTypes
    <2> QED
      BY <2>11, <2>12 DEF ObjectInv, Usage
  <1> QED
    BY <1>5, <1>6

LEMMA ResetStep ==
    ASSUME ObjectInv, Reset, upd' = FALSE
    PROVE  ObjectInv'
  <1>1. /\ stack' = <<>> /\ cells' = <<>> /\ wrcnt' = 0 /\ type' = "SIMPLE"
        /\ stackAlloc' = stackAlloc
    BY DEF Reset
  <1>2. OpenIn(cells', stack', type')
    BY <1>1, OpenNone
  <1>3. <<>> \in Seq(Cells)
    BY EmptySeq
  <1>4. ObjectTypes'
    <2>1. stackAlloc' \in Nat \ {0}
      BY <1>1 DEF ObjectInv, ObjectTypes
    <2>2. /\ stack' \in Seq(Entries) /\ Len(stack') = 0 /\ cells' \in Seq(Cells)
          /\ wrcnt' \in Nat /\ type' \in Types /\ upd' \in BOOLEAN
      BY <1>1, <1>3, OpenNone DEF Types
    <2>3. Len(stack') <= stackAlloc'
      BY <2>1, <2>2
    <2> QED
      BY <2>1, <2>2, <2>3 DEF ObjectTypes
  <1> QED
    BY <1>1, <1>2, <1>4 DEF ObjectInv, Usage

LEMMA UpdateContainerStep ==
    ASSUME ObjectInv, UpdateContainer, fmt = <<>>
    PROVE  ObjectInv'
  <1> DEFINE e == [size |-> 0, offset |-> 0, kind |-> "array", known |-> TRUE]
             h == HeaderCells("array", 0, 5)
             c == Cell("array", 0, 5)
  <1>1. /\ type' = "SPARSE" /\ wrcnt' = 1 /\ upd' = TRUE /\ fmt' = <<>>
        /\ stack' = <<e>> /\ cells' = h
    BY DEF UpdateContainer
  <1>2. stackAlloc' \in Nat \ {0}
    BY ObjectAssumption DEF UpdateContainer, ObjectInv, ObjectTypes
  <1>3. e \in Entries /\ e.offset = 0 /\ e.kind = "array" /\ e.known
    BY DEF Entries, Containers
  <1>4. /\ h \in Seq(Cells) /\ Len(h) = 5 /\ h[1] = c /\ c.kind = "array" /\ c.w = 5
    BY HeaderCellsFacts DEF Containers
  <1> HIDE DEF e, h, c
  <1>5. <<e>> \in Seq(Entries) /\ Len(<<e>>) = 1 /\ <<e>>[1] = e
    BY <1>3
  <1>6. HeaderAt(h, e, "SPARSE")
    BY <1>3, <1>4 DEF HeaderAt, HeaderOf, Wide
  <1>7. OpenIn(h, <<e>>, "SPARSE")
    BY <1>5, <1>6 DEF OpenIn
  <1>8. ObjectTypes' /\ OpenIn(cells', stack', type')
    BY <1>1, <1>2, <1>4, <1>5, <1>7 DEF ObjectTypes, Types
  <1>9. \A i \in 1..Len(stack') : stack'[i].known
    BY <1>1, <1>3, <1>5
  <1> QED
    BY <1>1, <1>5, <1>8, <1>9 DEF ObjectInv, Usage

LEMMA UpdateOpStep ==
    ASSUME ObjectInv, NEW n \in Nat, UpdateOp(n)
    PROVE  ObjectInv'
  <1> DEFINE w == Width(n)
             h == HeaderCells("array", n, w)
             args == [i \in 1..n |-> Atom]
             upto == cells \o h
  <1>1. /\ type \in Types /\ cells \in Seq(Cells) /\ stack \in Seq(Entries)
        /\ OpenIn(cells, stack, type) /\ wrcnt \in Nat /\ upd
        /\ stackAlloc \in Nat \ {0} /\ Len(stack) <= stackAlloc /\ Usage
    BY DEF ObjectInv, ObjectTypes, UpdateOp
  <1>2. /\ cells' = upto \o args /\ wrcnt' = wrcnt + 1 /\ type' = type /\ stack' = stack
        /\ stackAlloc' = stackAlloc /\ fmt' = fmt /\ upd' = upd
    BY DEF UpdateOp
  <1>3. w \in {1, 3, 5}
    BY WidthFacts
  <1>4. Atom \in Cells
    BY DEF Atom, Cell, Cells
  <1>5. args \in [1..n -> Cells]
    BY <1>4
  <1>6. args \in Seq(Cells)
    BY <1>5, FcnIsSeq
  <1> HIDE DEF w, args
  <1>7. h \in Seq(Cells)
    BY <1>3, HeaderCellsFacts DEF Containers
  <1> HIDE DEF h
  <1>8. /\ upto \in Seq(Cells) /\ Len(upto) = Len(cells) + Len(h)
        /\ Len(cells) \in Nat /\ Len(h) \in Nat
        /\ \A i \in 1..Len(cells) : upto[i] = cells[i]
    <2>1. cells \in Seq(Cells)
      BY <1>1
    <2> QED
      BY <2>1, <1>7, JoinFacts, Zenon
  <1> HIDE DEF upto
  <1>9. /\ cells' \in Seq(Cells) /\ Len(cells') = Len(upto) + Len(args)
        /\ Len(args) \in Nat
        /\ \A i \in 1..Len(upto) : cells'[i] = upto[i]
    <2>1. /\ upto \o args \in Seq(Cells) /\ Len(upto \o args) = Len(upto) + Len(args)
          /\ Len(args) \in Nat
          /\ \A i \in 1..Len(upto) : (upto \o args)[i] = upto[i]
      BY <1>6, <1>8, JoinFacts, Zenon
    <2> QED
      BY <1>2, <2>1, Zenon
  <1>10. Len(cells) <= Len(cells')
    BY <1>8, <1>9
  <1>11. \A i \in 1..Len(cells) : i \in 1..Len(upto)
    BY <1>8
  <1>12. \A i \in 1..Len(cells) : cells'[i] = cells[i]
    BY <1>8, <1>9, <1>11
  <1>13. OpenIn(cells', stack, type)
    BY <1>1, <1>9, <1>10, <1>12, OpenAppended
  <1>14. wrcnt' \in Nat /\ wrcnt' > 0
    BY <1>1, <1>2
  <1>15. ObjectTypes' /\ OpenIn(cells', stack', type')
    BY <1>1, <1>2, <1>9, <1>13, <1>14 DEF ObjectTypes
  <1> QED
    BY <1>1, <1>2, <1>14, <1>15 DEF ObjectInv, Usage

LEMMA UpdateCloseStep ==
    ASSUME ObjectInv, UpdateClose
    PROVE  ObjectInv'
  <1> DEFINE o == stack[1].offset
             h == HeaderCells("array", OpsWritten, 5)
  <1>1. /\ type \in Types /\ cells \in Seq(Cells) /\ stack \in Seq(Entries)
        /\ OpenIn(cells, stack, type) /\ wrcnt \in Nat /\ upd /\ stack # <<>>
        /\ stackAlloc \in Nat \ {0} /\ Usage
    BY DEF ObjectInv, ObjectTypes, UpdateClose
  <1>2. /\ cells' = Rewrite(o, 5, h) /\ stack' = <<>> /\ wrcnt' = wrcnt /\ type' = type
        /\ stackAlloc' = stackAlloc /\ fmt' = fmt /\ upd' = upd
    BY DEF UpdateClose
  <1>3. OpsWritten \in Nat
    BY <1>1 DEF Usage, OpsWritten
  <1>4. Len(stack) \in Nat /\ Len(stack) # 0
    BY <1>1, LenProperties, EmptySeq
  <1>5. 1 \in 1..Len(stack)
    BY <1>4
  <1>6. stack[1] \in Entries
    BY <1>1, <1>5, ElementOfSeq
  <1>7. o \in Nat /\ Len(cells) \in Nat
    BY <1>1, <1>6, LenProperties DEF Entries
  <1>8. stack[1].known
    BY <1>1, <1>5 DEF Usage
  <1>9. o < Len(cells)
    BY <1>1, <1>5, <1>8 DEF OpenIn, HeaderAt
  <1>10. o <= Len(cells)
    BY <1>7, <1>9
  <1>11. h \in Seq(Cells)
    BY <1>3, HeaderCellsFacts DEF Containers
  <1> HIDE DEF o, h
  <1>12. cells' \in Seq(Cells)
    BY <1>1, <1>2, <1>7, <1>10, <1>11, RewriteFacts
  <1>13. OpenIn(cells', stack', type')
    BY <1>2, OpenNone
  <1>14. ObjectTypes'
    BY <1>1, <1>2, <1>12, OpenNone DEF ObjectTypes
  <1>15. Len(stack') <= 1 /\ \A i \in 1..Len(stack') : stack'[i].known
    BY <1>2, OpenNone
  <1> QED
    BY <1>1, <1>2, <1>13, <1>14, <1>15 DEF ObjectInv, Usage

LEMMA FormatStepStep ==
    ASSUME ObjectInv, FormatStep
    PROVE  ObjectInv'
  <1>1. ~upd /\ upd' = upd
    BY DEF ObjectInv, Usage, FormatStep
  <1>2. CASE AddScalar
    BY <1>1, <1>2, AddScalarStep
  <1>3. ASSUME NEW k \in Containers, AddContainer(k, 0)
        PROVE  ObjectInv'
    BY <1>1, <1>3, AddContainerStep
  <1>4. CASE Close
    BY <1>1, <1>4, CloseStep
  <1>5. CASE UNCHANGED <<type, cells, stack, stackAlloc, wrcnt>>
    <2>1. ObjectTypes' /\ OpenIn(cells', stack', type')
      BY <1>1, <1>5 DEF ObjectInv, ObjectTypes
    <2> QED
      BY <1>1, <1>5, <2>1 DEF ObjectInv, Usage
  <1>6. \/ AddScalar \/ Close \/ AddContainer("array", 0) \/ AddContainer("map", 0)
        \/ UNCHANGED <<type, cells, stack, stackAlloc, wrcnt>>
    BY DEF FormatStep
  <1>7. "array" \in Containers /\ "map" \in Containers
    BY DEF Containers
  <1> QED
    BY <1>2, <1>3, <1>4, <1>5, <1>6, <1>7

\* Every call of the object and of the update functions keeps the invariant.
LEMMA ObjectInvStep == ObjectInv /\ [ObjectNext]_objectVars => ObjectInv'
  <1> SUFFICES ASSUME ObjectInv, [ObjectNext]_objectVars
               PROVE  ObjectInv'
    OBVIOUS
  <1>1. CASE fmt = <<>> /\ ~upd /\ Calls /\ UNCHANGED <<fmt, upd>>
    <2>1. ~upd /\ upd' = upd
      BY <1>1
    <2>2. CASE \E t \in Types : SetType(t)
      BY <2>1, <2>2, SetTypeStep
    <2>3. CASE AddScalar
      BY <2>1, <2>3, AddScalarStep
    <2>4. CASE \E k \in Containers, n \in DeclaredSizes : AddContainer(k, n)
      <3>1. PICK k \in Containers, n \in DeclaredSizes : AddContainer(k, n)
        BY <2>4
      <3>2. n \in Nat
        BY ObjectAssumption
      <3> QED
        BY <2>1, <3>1, <3>2, AddContainerStep
    <2>5. CASE Close
      BY <2>1, <2>5, CloseStep
    <2> QED
      BY <1>1, <2>2, <2>3, <2>4, <2>5 DEF Calls
  <1>2. CASE fmt = <<>> /\ Reset /\ upd' = FALSE /\ UNCHANGED fmt
    BY <1>2, ResetStep
  <1>3. CASE fmt = <<>> /\ ~upd /\ \E f \in Formats : FormatStart(f)
    <2>1. "PACKED" \in Types /\ SetType("PACKED") /\ ~upd /\ upd' = upd
      BY <1>3 DEF FormatStart, Types
    <2> QED
      BY <2>1, SetTypeStep
  <1>4. CASE FormatStep
    BY <1>4, FormatStepStep
  <1>5. CASE fmt = <<>> /\ UpdateContainer
    BY <1>5, UpdateContainerStep
  <1>6. CASE UpdateField \/ UpdateSplice
    <2>1. 3 \in Nat /\ 5 \in Nat
      OBVIOUS
    <2> QED
      BY <1>6, <2>1, UpdateOpStep DEF UpdateField, UpdateSplice
  <1>7. CASE UpdateClose
    BY <1>7, UpdateCloseStep
  <1>8. CASE UNCHANGED objectVars
    <2>1. UNCHANGED <<type, cells, stack, stackAlloc, wrcnt, fmt, upd>>
      BY <1>8 DEF objectVars
    <2>2. ObjectTypes' /\ OpenIn(cells', stack', type') /\ Usage'
      BY <2>1 DEF ObjectInv, ObjectTypes, Usage
    <2> QED
      BY <2>2 DEF ObjectInv
  <1> QED
    BY <1>1, <1>2, <1>3, <1>4, <1>5, <1>6, <1>7, <1>8 DEF ObjectNext

LEMMA ObjectInvInit == ObjectInit => ObjectInv
  <1> SUFFICES ASSUME ObjectInit
               PROVE  ObjectInv
    OBVIOUS
  <1>1. /\ stack = <<>> /\ cells = <<>> /\ wrcnt = 0 /\ type = "SIMPLE"
        /\ stackAlloc = StackInit /\ upd = FALSE
    BY DEF ObjectInit
  <1>2. OpenIn(cells, stack, type)
    BY <1>1, OpenNone
  <1>3. stackAlloc \in Nat \ {0}
    BY <1>1, ObjectAssumption
  <1>4. /\ stack \in Seq(Entries) /\ Len(stack) = 0 /\ cells \in Seq(Cells)
        /\ wrcnt \in Nat /\ type \in Types /\ upd \in BOOLEAN
    BY <1>1, OpenNone, EmptySeq DEF Types
  <1>5. Len(stack) <= stackAlloc
    BY <1>3, <1>4
  <1> QED
    BY <1>1, <1>2, <1>3, <1>4, <1>5 DEF ObjectInv, ObjectTypes, Usage

\* The inductive invariant says more than OffsetsValid: whole headers, and the
\* order of every two open containers and not of neighbours only.
LEMMA OpenIsValid == ObjectInv => OffsetsValid
  <1> SUFFICES ASSUME ObjectInv, NEW i \in 1..Len(stack), stack[i].known
               PROVE  LET cell == cells[stack[i].offset + 1]
                      IN  /\ cell.kind = stack[i].kind
                          /\ cell.w = CASE type = "SPARSE" -> 5
                                        [] type = "PACKED" -> 1
                                        [] type = "SIMPLE" -> Width(cell.n)
                          /\ i > 1 /\ stack[i - 1].known
                             => stack[i - 1].offset < stack[i].offset
    BY DEF OffsetsValid
  <1>1. cells \in Seq(Cells) /\ stack \in Seq(Entries) /\ OpenIn(cells, stack, type)
    BY DEF ObjectInv, ObjectTypes
  <1>2. Len(stack) \in Nat /\ stack[i] \in Entries
    BY <1>1, LenProperties, ElementOfSeq
  <1>3. HeaderAt(cells, stack[i], type)
    BY <1>1 DEF OpenIn
  <1>4. ASSUME i > 1, stack[i - 1].known
        PROVE  stack[i - 1].offset < stack[i].offset
    <2> DEFINE j == i - 1
    <2>1. j \in 1..Len(stack) /\ j < i
      BY <1>2, <1>4
    <2>2. stack[j].known
      BY <1>4
    <2> HIDE DEF j
    <2>3. stack[j] \in Entries
      BY <1>1, <2>1, ElementOfSeq
    <2>4. HeaderAt(cells, stack[j], type)
      BY <1>1, <2>1, <2>2 DEF OpenIn
    <2> DEFINE w == HeaderOf(cells, stack[j]).w
               a == stack[j].offset
               b == stack[i].offset
    <2>5. a + w <= b
      BY <1>1, <2>1, <2>2 DEF OpenIn
    <2>6. a \in Nat /\ w \in {1, 3, 5}
      BY <1>1, <2>3, <2>4, HeaderOfFacts
    <2>7. b \in Nat
      BY <1>2 DEF Entries
    <2> HIDE DEF w, a, b
    <2>8. a < b
      BY <2>5, <2>6, <2>7
    <2> QED
      BY <2>8 DEF a, b, j
  <1> QED
    BY <1>3, <1>4 DEF HeaderAt, HeaderOf, Wide

\* For every size of the stack, every limit of the one-byte and of the
\* three-byte header and every sequence of calls of tnt_object.c and
\* tnt_update.c, formats that fail midway included: as long as the stack has
\* not been replaced, the offset of every open container leads to its own
\* header, of the width that closing it rewrites, whatever the containers
\* inside it did to the cells behind.
THEOREM OffsetsValidTheorem == ObjectSpec => []OffsetsValid
  <1> QED
    BY ObjectInvInit, ObjectInvStep, OpenIsValid, PTL DEF ObjectSpec

\* The entries in use are entries of the stack that is allocated.
StackFits == Len(stack) <= stackAlloc

\* tnt_object_add_array and tnt_object_add_map grow the stack or give up before
\* they write an entry: whatever the calls and the failures before, no entry is
\* written behind the stack.
THEOREM StackFitsTheorem == ObjectSpec => []StackFits
  <1>1. ObjectInv => StackFits
    BY DEF ObjectInv, ObjectTypes, StackFits
  <1> QED
    BY <1>1, ObjectInvInit, ObjectInvStep, PTL DEF ObjectSpec
=============================================================================
