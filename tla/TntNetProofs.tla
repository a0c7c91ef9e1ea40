---------------------------- MODULE TntNetProofs ----------------------------
(***************************************************************************)
(* Proofs about TntNet, for every size of the send buffer, every set of    *)
(* requests the server may refuse and every bound.                         *)
(*                                                                         *)
(* The argument is about the ids of the requests (the order in which they  *)
(* were encoded), wherever the requests and their replies are: in the send *)
(* buffer b, at the server s, or among the replies r.                      *)
(***************************************************************************)
EXTENDS TntNet, SeqFacts, FunctionTheorems, FiniteSetTheorems

-----------------------------------------------------------------------------
(* The inductive invariant. *)

FinalOf(r) == {i \in 1..Len(r) : r[i].res # "chunk"}

BufIds(b) == {b[i].id : i \in 1..Len(b)}
SrvIds(s) == {q.id : q \in s}
ReplyIds(r) == {r[i].id : i \in 1..Len(r)}
FinalIds(r) == {r[i].id : i \in FinalOf(r)}

\* Requests a final reply can still come for, and those any reply can.
Due(b, s, r) == BufIds(b) \cup SrvIds(s) \cup FinalIds(r)
Known(b, s, r) == BufIds(b) \cup SrvIds(s) \cup ReplyIds(r)

\* Each request is in one place, and its final reply is its last one.
Apart(b, s, r) ==
    /\ \A i, j \in 1..Len(b) : b[i].id = b[j].id => i = j
    /\ \A p, q \in s : p.id = q.id => p = q
    /\ BufIds(b) \cap (SrvIds(s) \cup ReplyIds(r)) = {}
    /\ SrvIds(s) \cap FinalIds(r) = {}
    /\ \A i \in FinalOf(r) : \A j \in 1..Len(r) : i < j => r[i].id # r[j].id

\* A request is counted only while a final reply can come for it, unless the
\* connection is dead or the stream torn (~live); until a read or a send failed
\* (m), every one is.  w requests are counted, n ids were given out.
Sound(b, s, r, w, n, live, m) ==
    /\ Known(b, s, r) \subseteq 1..n
    /\ IsFiniteSet(s)
    /\ live => w <= Cardinality(Due(b, s, r))
    /\ ~m => Cardinality(Known(b, s, r)) <= w /\ Apart(b, s, r)

\* What is written can be sent, and reads meet replies where they begin.
InStep == (~lost \/ ~connected) /\ ~torn

Counted ==
    /\ Len(sbuf) <= SBufCap
    /\ lost \/ ~connected => srv = {}
    /\ ~connected => s2c = <<>>
    /\ torn => missed
    /\ Sound(sbuf, srv, s2c, wrcnt, nextId, InStep, missed)

\* The requests that are in hand or have a reply on its way.
Origin(x) == Request(x.id, x.kind, x.sync)
Entries(b, s, r) == {b[i] : i \in 1..Len(b)} \cup s \cup {Origin(r[i]) : i \in 1..Len(r)}
Entered == Entries(sbuf, srv, s2c)

-----------------------------------------------------------------------------
(* Ids under the operations on the three places. *)

\* n ids were given out; k more are.
LEMMA FreshIds ==
    ASSUME NEW n \in Nat, NEW k \in Nat, NEW A \in SUBSET (1..n)
    PROVE  /\ IsFiniteSet(A) /\ Cardinality(A) \in Nat
           /\ IsFiniteSet(A \cup ((n + 1)..(n + k)))
           /\ Cardinality(A \cup ((n + 1)..(n + k))) = Cardinality(A) + k
           /\ A \cup ((n + 1)..(n + k)) \subseteq 1..(n + k)
  <1>1. IsFiniteSet(A) /\ Cardinality(A) \in Nat
    <2>1. IsFiniteSet(1..n)
      BY FS_Interval
    <2> QED
      BY <2>1, FS_Subset, FS_CardinalityType
  <1>2. IsFiniteSet((n + 1)..(n + k)) /\ Cardinality((n + 1)..(n + k)) = k
    <2>1. n + 1 \in Int /\ n + k \in Int
      OBVIOUS
    <2>2. /\ IsFiniteSet((n + 1)..(n + k))
          /\ Cardinality((n + 1)..(n + k)) = IF n + 1 > n + k THEN 0 ELSE n + k - (n + 1) + 1
      BY <2>1, FS_Interval
    <2> QED
      BY <2>2
  <1>3. A \cap ((n + 1)..(n + k)) = {}
    OBVIOUS
  <1>4. Cardinality(A \cap ((n + 1)..(n + k))) = 0
    BY <1>3, FS_EmptySet
  <1>5. /\ IsFiniteSet(A \cup ((n + 1)..(n + k)))
        /\ Cardinality(A \cup ((n + 1)..(n + k))) =
              Cardinality(A) + Cardinality((n + 1)..(n + k))
                - Cardinality(A \cap ((n + 1)..(n + k)))
    BY <1>1, <1>2, FS_Union
  <1>6. Cardinality(A \cup ((n + 1)..(n + k))) = Cardinality(A) + k
    BY <1>1, <1>2, <1>4, <1>5
  <1>7. A \cup ((n + 1)..(n + k)) \subseteq 1..(n + k)
    OBVIOUS
  <1> QED
    BY <1>1, <1>5, <1>6, <1>7

\* Requests written behind what is in the buffer.
LEMMA BufConcat ==
    ASSUME NEW b \in Seq(Requests), NEW c \in Seq(Requests)
    PROVE  /\ b \o c \in Seq(Requests)
           /\ Len(b \o c) = Len(b) + Len(c) /\ Len(b) \in Nat /\ Len(c) \in Nat
           /\ \A i \in 1..Len(b) : (b \o c)[i] = b[i]
           /\ \A i \in 1..Len(c) : (b \o c)[Len(b) + i] = c[i]
           /\ BufIds(b \o c) = BufIds(b) \cup BufIds(c)
  <1>1. Len(b) \in Nat /\ Len(c) \in Nat
    BY LenProperties
  <1>2. /\ b \o c \in Seq(Requests) /\ Len(b \o c) = Len(b) + Len(c)
        /\ \A i \in 1..Len(b) + Len(c) :
              (b \o c)[i] = IF i <= Len(b) THEN b[i] ELSE c[i - Len(b)]
    BY ConcatProperties
  <1> DEFINE d == b \o c
  <1> HIDE DEF d
  <1>3. /\ Len(d) = Len(b) + Len(c)
        /\ \A i \in 1..Len(b) + Len(c) : d[i] = IF i <= Len(b) THEN b[i] ELSE c[i - Len(b)]
    BY <1>2 DEF d
  <1>4. \A i \in 1..Len(b) : d[i] = b[i]
    BY <1>1, <1>3
  <1>5. ASSUME NEW i \in 1..Len(c) PROVE d[Len(b) + i] = c[i]
    <2>1. /\ Len(b) + i \in 1..Len(b) + Len(c)
          /\ ~(Len(b) + i <= Len(b)) /\ Len(b) + i - Len(b) = i
      BY <1>1
    <2> QED
      BY <2>1, <1>3
  <1>6. BufIds(d) \subseteq BufIds(b) \cup BufIds(c)
    <2> SUFFICES ASSUME NEW i \in 1..Len(d) PROVE d[i].id \in BufIds(b) \cup BufIds(c)
      BY DEF BufIds
    <2>1. CASE i <= Len(b)
      <3>1. i \in 1..Len(b)
        BY <2>1, <1>1, <1>3
      <3> QED
        BY <3>1, <1>4 DEF BufIds
    <2>2. CASE ~(i <= Len(b))
      <3>1. i - Len(b) \in 1..Len(c) /\ i \in 1..Len(b) + Len(c)
        BY <2>2, <1>1, <1>3
      <3>2. d[i] = c[i - Len(b)]
        BY <3>1, <2>2, <1>3
      <3> QED
        BY <3>1, <3>2 DEF BufIds
    <2> QED
      BY <2>1, <2>2
  <1>7. BufIds(b) \subseteq BufIds(d)
    <2> SUFFICES ASSUME NEW i \in 1..Len(b) PROVE b[i].id \in BufIds(d)
      BY DEF BufIds
    <2>1. i \in 1..Len(d)
      BY <1>1, <1>3
    <2> QED
      BY <2>1, <1>4 DEF BufIds
  <1>8. BufIds(c) \subseteq BufIds(d)
    <2> SUFFICES ASSUME NEW i \in 1..Len(c) PROVE c[i].id \in BufIds(d)
      BY DEF BufIds
    <2>1. Len(b) + i \in 1..Len(d)
      BY <1>1, <1>3
    <2> QED
      BY <2>1, <1>5 DEF BufIds
  <1> QED
    BY <1>1, <1>2, <1>4, <1>5, <1>6, <1>7, <1>8, Zenon DEF d

\* The server puts a reply behind the others.
LEMMA ReplyAppend ==
    ASSUME NEW r \in Seq(Replies), NEW x \in Replies
    PROVE  /\ Append(r, x) \in Seq(Replies) /\ Len(Append(r, x)) = Len(r) + 1 /\ Len(r) \in Nat
           /\ \A i \in 1..Len(r) : Append(r, x)[i] = r[i]
           /\ Append(r, x)[Len(r) + 1] = x
           /\ ReplyIds(Append(r, x)) = ReplyIds(r) \cup {x.id}
           /\ FinalOf(Append(r, x)) =
                 FinalOf(r) \cup (IF x.res = "chunk" THEN {} ELSE {Len(r) + 1})
           /\ FinalIds(Append(r, x)) =
                 FinalIds(r) \cup (IF x.res = "chunk" THEN {} ELSE {x.id})
  <1> DEFINE a == Append(r, x)
  <1>1. /\ a \in Seq(Replies) /\ Len(a) = Len(r) + 1 /\ Len(r) \in Nat
        /\ \A i \in 1..Len(r) : a[i] = r[i]
        /\ a[Len(r) + 1] = x
    BY AppendProperties, LenProperties
  <1> HIDE DEF a
  <1>2. 1..Len(a) = 1..Len(r) \cup {Len(r) + 1}
    BY <1>1
  <1>3. ReplyIds(a) = ReplyIds(r) \cup {x.id}
    BY <1>1, <1>2 DEF ReplyIds
  <1>4. FinalOf(a) = FinalOf(r) \cup (IF x.res = "chunk" THEN {} ELSE {Len(r) + 1})
    BY <1>1, <1>2 DEF FinalOf
  <1>5. \A i \in FinalOf(r) : a[i] = r[i]
    BY <1>1 DEF FinalOf
  <1>6. FinalIds(a) = FinalIds(r) \cup (IF x.res = "chunk" THEN {} ELSE {x.id})
    BY <1>1, <1>4, <1>5 DEF FinalIds
  <1> QED
    BY <1>1, <1>3, <1>4, <1>6, Zenon DEF a

\* read_reply takes the first reply.
LEMMA ReplyTail ==
    ASSUME NEW r \in Seq(Replies), r # <<>>
    PROVE  /\ Head(r) \in Replies /\ Head(r) = r[1]
           /\ Tail(r) \in Seq(Replies) /\ Len(Tail(r)) = Len(r) - 1 /\ Len(r) \in Nat
           /\ Len(r) > 0 /\ \A i \in 1..Len(Tail(r)) : Tail(r)[i] = r[i + 1]
           /\ ReplyIds(r) = ReplyIds(Tail(r)) \cup {Head(r).id}
           /\ FinalIds(r) =
                 FinalIds(Tail(r)) \cup (IF Head(r).res = "chunk" THEN {} ELSE {Head(r).id})
  <1> DEFINE t == Tail(r)
             h == Head(r)
  <1>1. /\ h \in Replies /\ t \in Seq(Replies) /\ Len(t) = Len(r) - 1
        /\ \A i \in 1..Len(t) : t[i] = r[i + 1]
    BY HeadTailProperties
  <1>2. Len(r) \in Nat /\ Len(r) > 0 /\ h = r[1]
    BY LenProperties, EmptySeq
  <1> HIDE DEF t, h
  <1>3. ReplyIds(r) \subseteq ReplyIds(t) \cup {h.id}
    <2> SUFFICES ASSUME NEW i \in 1..Len(r), i # 1 PROVE r[i].id \in ReplyIds(t)
      BY <1>2 DEF ReplyIds
    <2>1. i - 1 \in 1..Len(t) /\ i = (i - 1) + 1
      BY <1>1, <1>2
    <2>2. t[i - 1] = r[i]
      BY <2>1, <1>1
    <2> QED
      BY <2>1, <2>2 DEF ReplyIds
  <1>4. ReplyIds(t) \cup {h.id} \subseteq ReplyIds(r)
    <2>1. 1 \in 1..Len(r)
      BY <1>2
    <2>2. ASSUME NEW i \in 1..Len(t) PROVE t[i].id \in ReplyIds(r)
      <3>1. i + 1 \in 1..Len(r)
        BY <1>1, <1>2
      <3> QED
        BY <3>1, <1>1 DEF ReplyIds
    <2> QED
      BY <2>1, <2>2, <1>2 DEF ReplyIds
  <1>5. FinalIds(r) \subseteq FinalIds(t) \cup (IF h.res = "chunk" THEN {} ELSE {h.id})
    <2> SUFFICES ASSUME NEW i \in FinalOf(r), i # 1 PROVE r[i].id \in FinalIds(t)
      BY <1>2 DEF FinalIds, FinalOf
    <2>1. i - 1 \in 1..Len(t) /\ i = (i - 1) + 1
      BY <1>1, <1>2 DEF FinalOf
    <2>2. t[i - 1] = r[i]
      BY <2>1, <1>1
    <2>3. i - 1 \in FinalOf(t)
      BY <2>1, <2>2 DEF FinalOf
    <2> QED
      BY <2>2, <2>3 DEF FinalIds
  <1>6. FinalIds(t) \cup (IF h.res = "chunk" THEN {} ELSE {h.id}) \subseteq FinalIds(r)
    <2>1. 1 \in 1..Len(r)
      BY <1>2
    <2>2. ASSUME NEW i \in FinalOf(t) PROVE t[i].id \in FinalIds(r)
      <3>0. i \in 1..Len(t) /\ t[i].res # "chunk"
        BY DEF FinalOf
      <3>1. i + 1 \in 1..Len(r) /\ t[i] = r[i + 1]
        BY <3>0, <1>1, <1>2
      <3>2. i + 1 \in FinalOf(r)
        BY <3>0, <3>1 DEF FinalOf
      <3> QED
        BY <3>1, <3>2 DEF FinalIds
    <2>3. h.res # "chunk" => h.id \in FinalIds(r)
      BY <2>1, <1>2 DEF FinalIds, FinalOf
    <2>4. FinalIds(t) \subseteq FinalIds(r)
      BY <2>2 DEF FinalIds
    <2> QED
      BY <2>3, <2>4
  <1> QED
    BY <1>1, <1>2, <1>3, <1>4, <1>5, <1>6, Zenon DEF t, h

-----------------------------------------------------------------------------
(* The count under the same operations. *)

\* What the sizes in Sound are.
LEMMA Sizes ==
    ASSUME NEW b, NEW s, NEW r, NEW n \in Nat, Known(b, s, r) \subseteq 1..n
    PROVE  /\ Due(b, s, r) \subseteq Known(b, s, r)
           /\ IsFiniteSet(Known(b, s, r)) /\ IsFiniteSet(Due(b, s, r))
           /\ Cardinality(Known(b, s, r)) \in Nat /\ Cardinality(Due(b, s, r)) \in Nat
           /\ Cardinality(Due(b, s, r)) <= Cardinality(Known(b, s, r))
  <1>1. Due(b, s, r) \subseteq Known(b, s, r)
    BY DEF Due, Known, FinalIds, ReplyIds, FinalOf
  <1>2. IsFiniteSet(1..n)
    BY FS_Interval
  <1>3. IsFiniteSet(Known(b, s, r))
    BY <1>2, FS_Subset
  <1> QED
    BY <1>1, <1>3, FS_Subset, FS_CardinalityType

\* Requests under the next ids are written behind what is in the buffer.
LEMMA SoundWrite ==
    ASSUME NEW b \in Seq(Requests), NEW s \in SUBSET Requests, NEW r \in Seq(Replies),
           NEW w \in Nat, NEW n \in Nat, NEW live \in BOOLEAN, NEW m \in BOOLEAN,
           NEW c \in Seq(Requests), \A i \in 1..Len(c) : c[i].id = n + i,
           Sound(b, s, r, w, n, live, m)
    PROVE  Sound(b \o c, s, r, w + Len(c), n + Len(c), live, m)
  <1> DEFINE d == b \o c
             l == Len(c)
             F == (n + 1)..(n + l)
  <1>1. /\ Len(d) = Len(b) + l /\ Len(b) \in Nat /\ l \in Nat
        /\ \A i \in 1..Len(b) : d[i] = b[i]
        /\ \A i \in 1..l : d[Len(b) + i] = c[i]
        /\ BufIds(d) = BufIds(b) \cup BufIds(c)
    BY BufConcat, Zenon
  <1>2. BufIds(c) = F
    <2>1. BufIds(c) \subseteq F
      BY <1>1 DEF BufIds
    <2>2. ASSUME NEW x \in F PROVE x \in BufIds(c)
      <3>1. x - n \in 1..l /\ n + (x - n) = x
        BY <1>1
      <3>2. c[x - n].id = x
        BY <3>1
      <3> QED
        BY <3>1, <3>2 DEF BufIds
    <2> QED
      BY <2>1, <2>2
  <1> HIDE DEF d, l
  <1>3. Known(d, s, r) = Known(b, s, r) \cup F /\ Due(d, s, r) = Due(b, s, r) \cup F
    BY <1>1, <1>2 DEF Known, Due
  <1>4. Known(b, s, r) \in SUBSET (1..n) /\ Due(b, s, r) \in SUBSET (1..n)
    BY Sizes DEF Sound
  <1> DEFINE K == Known(b, s, r)
             D == Due(b, s, r)
  <1> HIDE DEF K, D
  <1>5. /\ Cardinality(K) \in Nat /\ Cardinality(K \cup F) = Cardinality(K) + l
        /\ K \cup F \subseteq 1..(n + l)
    BY <1>1, <1>4, FreshIds DEF K
  <1>6. /\ Cardinality(D) \in Nat /\ Cardinality(D \cup F) = Cardinality(D) + l
    BY <1>1, <1>4, FreshIds DEF D
  <1>7. Known(d, s, r) \subseteq 1..(n + l)
    BY <1>3, <1>5 DEF K
  <1>8. ASSUME live PROVE w + l <= Cardinality(Due(d, s, r))
    <2>1. w <= Cardinality(D)
      BY <1>8 DEF Sound, D
    <2>2. w + l <= Cardinality(D \cup F)
      BY <2>1, <1>6, <1>1
    <2> QED
      BY <2>2, <1>3 DEF D
  <1>9. ASSUME ~m PROVE Cardinality(Known(d, s, r)) <= w + l
    <2>1. Cardinality(K) <= w
      BY <1>9 DEF Sound, K
    <2>2. Cardinality(K \cup F) <= w + l
      BY <2>1, <1>5, <1>1
    <2> QED
      BY <2>2, <1>3 DEF K
  <1>10. ASSUME ~m PROVE Apart(d, s, r)
    <2>0. Apart(b, s, r)
      BY <1>10 DEF Sound
    <2>1. ASSUME NEW i \in 1..Len(d), NEW j \in 1..Len(d), d[i].id = d[j].id PROVE i = j
      <3>1. \A h \in 1..Len(b) : d[h].id \in 1..n
        BY <1>1, <1>4 DEF Known, BufIds
      <3>2. ASSUME NEW h \in 1..Len(d), ~(h <= Len(b)) PROVE d[h].id = n + (h - Len(b))
        <4>1. h - Len(b) \in 1..l /\ Len(b) + (h - Len(b)) = h
          BY <3>2, <1>1
        <4>2. d[h] = c[h - Len(b)]
          BY <4>1, <1>1
        <4> QED
          BY <4>1, <4>2 DEF l
      <3>3. CASE i <= Len(b) /\ j <= Len(b)
        <4>1. i \in 1..Len(b) /\ j \in 1..Len(b)
          BY <3>3, <1>1
        <4> QED
          BY <4>1, <2>0, <2>1, <1>1 DEF Apart
      <3>4. CASE i <= Len(b) /\ ~(j <= Len(b))
        <4>1. i \in 1..Len(b)
          BY <3>4, <1>1
        <4> QED
          BY <4>1, <3>1, <3>2, <3>4, <2>1, <1>1
      <3>5. CASE ~(i <= Len(b)) /\ j <= Len(b)
        <4>1. j \in 1..Len(b)
          BY <3>5, <1>1
        <4> QED
          BY <4>1, <3>1, <3>2, <3>5, <2>1, <1>1
      <3>6. CASE ~(i <= Len(b)) /\ ~(j <= Len(b))
        BY <3>2, <3>6, <2>1, <1>1
      <3> QED
        BY <3>3, <3>4, <3>5, <3>6
    <2>2. BufIds(d) \cap (SrvIds(s) \cup ReplyIds(r)) = {}
      <3>1. SrvIds(s) \cup ReplyIds(r) \subseteq 1..n
        BY <1>4 DEF Known
      <3>2. F \cap (1..n) = {}
        OBVIOUS
      <3>3. BufIds(b) \cap (SrvIds(s) \cup ReplyIds(r)) = {}
        BY <2>0 DEF Apart
      <3>4. BufIds(d) = BufIds(b) \cup BufIds(c) /\ BufIds(c) = F
        BY <1>1, <1>2
      <3> QED
        BY <3>1, <3>2, <3>3, <3>4
    <2> QED
      BY <2>0, <2>1, <2>2 DEF Apart
  <1> QED
    BY <1>7, <1>8, <1>9, <1>10 DEF Sound, d, l

\* The requests in the buffer, as a set.
LEMMA BufRange ==
    ASSUME NEW b \in Seq(Requests)
    PROVE  /\ Range(b) \subseteq Requests /\ IsFiniteSet(Range(b))
           /\ \A q \in Range(b) : \E i \in 1..Len(b) : q = b[i]
           /\ Cardinality(Range(b)) <= Len(b)
           /\ SrvIds(Range(b)) = BufIds(b)
  <1>1. Len(b) \in Nat /\ b \in [1..Len(b) -> Requests]
    BY LenProperties
  <1>2. Range(b) = {b[i] : i \in 1..Len(b)}
    BY RangeEquality
  <1>3. b \in Surjection(1..Len(b), Range(b))
    BY <1>1, Fun_RangeProperties
  <1>4. IsFiniteSet(1..Len(b)) /\ Cardinality(1..Len(b)) = Len(b)
    BY <1>1, FS_Interval
  <1>5. IsFiniteSet(Range(b)) /\ Cardinality(Range(b)) <= Len(b)
    BY <1>3, <1>4, FS_Surjection
  <1>6. SrvIds(Range(b)) = BufIds(b)
    BY <1>2 DEF SrvIds, BufIds
  <1>7. Range(b) \subseteq Requests
    BY <1>1, <1>2
  <1> QED
    BY <1>2, <1>5, <1>6, <1>7

\* All of the buffer is sent.
LEMMA SoundTransmit ==
    ASSUME NEW b \in Seq(Requests), NEW s \in SUBSET Requests, NEW r \in Seq(Replies),
           NEW w \in Nat, NEW n \in Nat, NEW live \in BOOLEAN, NEW m \in BOOLEAN,
           Sound(b, s, r, w, n, live, m)
    PROVE  Sound(<<>>, s \cup Range(b), r, w, n, live, m)
  <1>1. /\ IsFiniteSet(Range(b)) /\ SrvIds(Range(b)) = BufIds(b)
        /\ \A q \in Range(b) : \E i \in 1..Len(b) : q = b[i]
    BY BufRange
  <1>2. IsFiniteSet(s \cup Range(b))
    BY <1>1, FS_Union DEF Sound
  <1>3. SrvIds(s \cup Range(b)) = SrvIds(s) \cup BufIds(b)
    BY <1>1 DEF SrvIds
  <1>4. BufIds(<<>>) = {} /\ Len(<<>>) = 0
    BY DEF BufIds
  <1>5. /\ Known(<<>>, s \cup Range(b), r) = Known(b, s, r)
        /\ Due(<<>>, s \cup Range(b), r) = Due(b, s, r)
    BY <1>3, <1>4, Zenon DEF Known, Due
  <1>6. ASSUME Apart(b, s, r) PROVE Apart(<<>>, s \cup Range(b), r)
    <2>1. ASSUME NEW p \in s \cup Range(b), NEW q \in s \cup Range(b), p.id = q.id
          PROVE  p = q
      <3>1. \A x \in s : x.id \in SrvIds(s)
        BY DEF SrvIds
      <3>2. \A x \in Range(b) : x.id \in BufIds(b)
        BY <1>1 DEF BufIds
      <3>3. BufIds(b) \cap SrvIds(s) = {}
        BY <1>6 DEF Apart
      <3>4. CASE p \in s /\ q \in s
        BY <3>4, <2>1, <1>6 DEF Apart
      <3>5. CASE p \in Range(b) /\ q \in Range(b)
        BY <3>5, <2>1, <1>1, <1>6 DEF Apart
      <3>6. CASE p \in s /\ q \in Range(b)
        BY <3>6, <3>1, <3>2, <3>3, <2>1
      <3>7. CASE p \in Range(b) /\ q \in s
        BY <3>7, <3>1, <3>2, <3>3, <2>1
      <3> QED
        BY <3>4, <3>5, <3>6, <3>7
    <2>2. SrvIds(s \cup Range(b)) \cap FinalIds(r) = {}
      <3>1. FinalIds(r) \subseteq ReplyIds(r)
        BY DEF FinalIds, ReplyIds, FinalOf
      <3> QED
        BY <3>1, <1>3, <1>6 DEF Apart
    <2>3. \A i, j \in 1..Len(<<>>) : <<>>[i].id = <<>>[j].id => i = j
      BY <1>4
    <2>4. BufIds(<<>>) \cap (SrvIds(s \cup Range(b)) \cup ReplyIds(r)) = {}
      BY <1>4
    <2>5. \A i \in FinalOf(r) : \A j \in 1..Len(r) : i < j => r[i].id # r[j].id
      BY <1>6 DEF Apart
    <2> QED
      BY <2>1, <2>2, <2>3, <2>4, <2>5, Zenon DEF Apart
  <1> QED
    BY <1>2, <1>5, <1>6 DEF Sound

\* Part of the buffer is sent and all of it stays in the buffer.
LEMMA SoundCut ==
    ASSUME NEW b \in Seq(Requests), NEW s \in SUBSET Requests, NEW r \in Seq(Replies),
           NEW w \in Nat, NEW n \in Nat, NEW live \in BOOLEAN, NEW m \in BOOLEAN,
           NEW T \in SUBSET Range(b),
           Sound(b, s, r, w, n, live, m)
    PROVE  Sound(b, s \cup T, r, w, n, live, TRUE)
  <1>1. /\ IsFiniteSet(Range(b)) /\ SrvIds(Range(b)) = BufIds(b)
    BY BufRange
  <1>2. IsFiniteSet(s \cup T)
    <2>1. IsFiniteSet(T)
      BY <1>1, FS_Subset
    <2> QED
      BY <2>1, FS_Union DEF Sound
  <1>3. SrvIds(s \cup T) \subseteq SrvIds(s) \cup BufIds(b) /\ SrvIds(s) \subseteq SrvIds(s \cup T)
    BY <1>1 DEF SrvIds
  <1>5. /\ Known(b, s \cup T, r) = Known(b, s, r)
        /\ Due(b, s \cup T, r) = Due(b, s, r)
    BY <1>3, Zenon DEF Known, Due
  <1> QED
    BY <1>2, <1>5 DEF Sound

\* The connection is dead: the buffer, what the server had and the replies may
\* be gone.
LEMMA SoundLose ==
    ASSUME NEW b \in Seq(Requests), NEW s \in SUBSET Requests, NEW r \in Seq(Replies),
           NEW w \in Nat, NEW n \in Nat, NEW live \in BOOLEAN, NEW m \in BOOLEAN,
           NEW b1, b1 = b \/ b1 = <<>>, NEW s1, s1 = s \/ s1 = {},
           NEW r1, r1 = r \/ r1 = <<>>, NEW up \in BOOLEAN, ~up,
           Sound(b, s, r, w, n, live, m)
    PROVE  Sound(b1, s1, r1, w, n, up, m)
  <1>1. IsFiniteSet(s1)
    BY FS_EmptySet DEF Sound
  <1>2. Len(<<>>) = 0 /\ BufIds(<<>>) = {} /\ ReplyIds(<<>>) = {} /\ SrvIds({}) = {}
        /\ FinalOf(<<>>) = {} /\ FinalIds(<<>>) = {}
    BY DEF BufIds, SrvIds, ReplyIds, FinalOf, FinalIds
  <1>3. /\ BufIds(b1) \subseteq BufIds(b) /\ SrvIds(s1) \subseteq SrvIds(s)
        /\ ReplyIds(r1) \subseteq ReplyIds(r) /\ FinalIds(r1) \subseteq FinalIds(r)
    BY <1>2
  <1>4. Known(b1, s1, r1) \subseteq Known(b, s, r)
    BY <1>3 DEF Known
  <1>5. Known(b1, s1, r1) \subseteq 1..n
    BY <1>4 DEF Sound
  <1>6. ASSUME ~m PROVE Cardinality(Known(b1, s1, r1)) <= w
    <2>1. IsFiniteSet(Known(b, s, r)) /\ Cardinality(Known(b, s, r)) \in Nat
      BY Sizes DEF Sound
    <2>2. /\ Cardinality(Known(b1, s1, r1)) <= Cardinality(Known(b, s, r))
          /\ Cardinality(Known(b1, s1, r1)) \in Nat
      BY <2>1, <1>4, FS_Subset, FS_CardinalityType
    <2>3. Cardinality(Known(b, s, r)) <= w
      BY <1>6 DEF Sound
    <2> QED
      BY <2>1, <2>2, <2>3
  <1>7. ASSUME ~m PROVE Apart(b1, s1, r1)
    <2>0. Apart(b, s, r)
      BY <1>7 DEF Sound
    <2>1. \A i, j \in 1..Len(b1) : b1[i].id = b1[j].id => i = j
      BY <2>0, <1>2 DEF Apart
    <2>2. \A p, q \in s1 : p.id = q.id => p = q
      BY <2>0 DEF Apart
    <2>3. BufIds(b1) \cap (SrvIds(s1) \cup ReplyIds(r1)) = {}
      BY <2>0, <1>3 DEF Apart
    <2>4. SrvIds(s1) \cap FinalIds(r1) = {}
      BY <2>0, <1>3 DEF Apart
    <2>5. \A i \in FinalOf(r1) : \A j \in 1..Len(r1) : i < j => r1[i].id # r1[j].id
      BY <2>0, <1>2 DEF Apart
    <2> QED
      BY <2>1, <2>2, <2>3, <2>4, <2>5, Zenon DEF Apart
  <1> QED
    BY <1>1, <1>5, <1>6, <1>7 DEF Sound

\* tnt_close: nothing is left, and nothing is counted.
LEMMA SoundClear ==
    ASSUME NEW n \in Nat, NEW live \in BOOLEAN, NEW m \in BOOLEAN
    PROVE  Sound(<<>>, {}, <<>>, 0, n, live, m)
  <1>1. Len(<<>>) = 0 /\ BufIds(<<>>) = {} /\ ReplyIds(<<>>) = {} /\ SrvIds({}) = {}
        /\ FinalOf(<<>>) = {} /\ FinalIds(<<>>) = {}
    BY DEF BufIds, SrvIds, ReplyIds, FinalOf, FinalIds
  <1>2. Known(<<>>, {}, <<>>) = {} /\ Due(<<>>, {}, <<>>) = {}
    BY <1>1 DEF Known, Due
  <1>3. IsFiniteSet({}) /\ Cardinality({}) = 0
    BY FS_EmptySet
  <1>4. Apart(<<>>, {}, <<>>)
    BY <1>1 DEF Apart
  <1> QED
    BY <1>2, <1>3, <1>4 DEF Sound

\* Once the stream is torn, nothing is claimed but that ids were given out.
LEMMA SoundTorn ==
    ASSUME NEW b, NEW s, NEW r, NEW w, NEW n, NEW live, NEW m, Sound(b, s, r, w, n, live, m),
           NEW s1 \in SUBSET s, NEW r1, r1 = r \/ r1 = <<>>, NEW w1
    PROVE  Sound(b, s1, r1, w1, n, FALSE, TRUE)
  <1>1. IsFiniteSet(s1)
    BY FS_Subset DEF Sound
  <1>2. ReplyIds(r1) \subseteq ReplyIds(r) /\ SrvIds(s1) \subseteq SrvIds(s)
    <2>1. ReplyIds(<<>>) = {}
      BY DEF ReplyIds
    <2> QED
      BY <2>1 DEF SrvIds
  <1>3. Known(b, s1, r1) \subseteq 1..n
    BY <1>2 DEF Sound, Known
  <1> QED
    BY <1>1, <1>3 DEF Sound

\* A failed read gives a request up.
LEMMA SoundMiss ==
    ASSUME NEW b, NEW s, NEW r,
           NEW w \in Nat, NEW n \in Nat, NEW live \in BOOLEAN, NEW m \in BOOLEAN,
           Sound(b, s, r, w, n, live, m)
    PROVE  Sound(b, s, r, w - 1, n, live, TRUE)
  <1>1. Cardinality(Due(b, s, r)) \in Nat
    BY Sizes DEF Sound
  <1>2. live => w - 1 <= Cardinality(Due(b, s, r))
    <2>1. live => w <= Cardinality(Due(b, s, r))
      BY DEF Sound
    <2> QED
      BY <2>1, <1>1
  <1> QED
    BY <1>2 DEF Sound

\* Ids are used up.
LEMMA SoundSkip ==
    ASSUME NEW b, NEW s, NEW r,
           NEW w \in Nat, NEW n \in Nat, NEW live \in BOOLEAN, NEW m \in BOOLEAN,
           NEW k \in Nat, k >= n,
           Sound(b, s, r, w, n, live, m)
    PROVE  Sound(b, s, r, w, k, live, m)
  <1>1. 1..n \subseteq 1..k
    OBVIOUS
  <1> QED
    BY <1>1 DEF Sound

\* A reply is taken; one that is no chunk ends its request.
LEMMA SoundTake ==
    ASSUME NEW b \in Seq(Requests), NEW s \in SUBSET Requests, NEW r \in Seq(Replies),
           NEW w \in Nat, NEW n \in Nat, NEW live \in BOOLEAN, NEW m \in BOOLEAN,
           r # <<>>, w > 0, Sound(b, s, r, w, n, live, m)
    PROVE  /\ Sound(b, s, Tail(r), IF Head(r).res = "chunk" THEN w ELSE w - 1, n, live, m)
           /\ ~m /\ Head(r).res # "chunk" => Head(r).id \notin Known(b, s, Tail(r))
  <1> DEFINE t == Tail(r)
             h == Head(r)
  <1>1. /\ h = r[1] /\ t \in Seq(Replies) /\ Len(t) = Len(r) - 1
        /\ Len(r) \in Nat /\ Len(r) > 0 /\ \A i \in 1..Len(t) : t[i] = r[i + 1]
        /\ ReplyIds(r) = ReplyIds(t) \cup {h.id}
        /\ FinalIds(r) = FinalIds(t) \cup (IF h.res = "chunk" THEN {} ELSE {h.id})
    BY ReplyTail, Zenon
  <1> HIDE DEF t, h
  <1>2. Known(b, s, t) \subseteq Known(b, s, r) /\ Known(b, s, r) \subseteq Known(b, s, t) \cup {h.id}
    BY <1>1 DEF Known
  <1>3. Due(b, s, t) \subseteq Due(b, s, r)
        /\ Due(b, s, r) \subseteq Due(b, s, t) \cup (IF h.res = "chunk" THEN {} ELSE {h.id})
    BY <1>1 DEF Due
  <1>4. Known(b, s, t) \subseteq 1..n
    BY <1>2 DEF Sound
  <1>5. /\ IsFiniteSet(Known(b, s, t)) /\ IsFiniteSet(Known(b, s, r))
        /\ Cardinality(Known(b, s, t)) \in Nat /\ Cardinality(Known(b, s, r)) \in Nat
        /\ IsFiniteSet(Due(b, s, t)) /\ IsFiniteSet(Due(b, s, r))
        /\ Cardinality(Due(b, s, t)) \in Nat /\ Cardinality(Due(b, s, r)) \in Nat
    <2>1. Known(b, s, r) \subseteq 1..n
      BY DEF Sound
    <2> QED
      BY <2>1, <1>4, Sizes
  <1> DEFINE k == Cardinality(Known(b, s, r))
             k1 == Cardinality(Known(b, s, t))
             d == Cardinality(Due(b, s, r))
             d1 == Cardinality(Due(b, s, t))
  <1>6. k1 <= k
    BY <1>2, <1>5, FS_Subset
  <1>7. IF h.res = "chunk" THEN d1 = d ELSE d <= d1 + 1
    <2>1. CASE h.res = "chunk"
      <3>1. Due(b, s, t) = Due(b, s, r)
        BY <2>1, <1>3
      <3> QED
        BY <2>1, <3>1
    <2>2. CASE h.res # "chunk"
      <3>1. /\ IsFiniteSet(Due(b, s, t) \cup {h.id})
            /\ Cardinality(Due(b, s, t) \cup {h.id}) =
                  IF h.id \in Due(b, s, t) THEN d1 ELSE d1 + 1
        BY <1>5, FS_AddElement
      <3>2. d <= Cardinality(Due(b, s, t) \cup {h.id})
        BY <2>2, <1>3, <3>1, FS_Subset
      <3> QED
        BY <3>1, <3>2, <2>2, <1>5
    <2> QED
      BY <2>1, <2>2
  <1>8. ASSUME ~m, h.res # "chunk" PROVE h.id \notin Known(b, s, t)
    <2>0. Apart(b, s, r)
      BY <1>8 DEF Sound
    <2>1. 1 \in FinalOf(r) /\ h.id \in FinalIds(r) /\ h.id \in ReplyIds(r)
      BY <1>1, <1>8 DEF FinalOf
    <2>2. h.id \notin BufIds(b) /\ h.id \notin SrvIds(s)
      BY <2>0, <2>1 DEF Apart
    <2>3. ASSUME NEW i \in 1..Len(t) PROVE t[i].id # h.id
      <3>1. i + 1 \in 1..Len(r) /\ 1 < i + 1 /\ t[i] = r[i + 1]
        BY <1>1
      <3> QED
        BY <3>1, <2>0, <2>1, <1>1 DEF Apart
    <2> QED
      BY <2>2, <2>3 DEF Known, ReplyIds
  <1>9. ASSUME ~m, h.res # "chunk" PROVE k1 <= k - 1
    <2>1. h.id \in Known(b, s, r) /\ h.id \notin Known(b, s, t)
      BY <1>1, <1>8, <1>9 DEF Known
    <2>2. Known(b, s, r) = Known(b, s, t) \cup {h.id}
      BY <2>1, <1>2
    <2>3. k = k1 + 1
      BY <2>1, <2>2, <1>5, FS_AddElement
    <2> QED
      BY <2>3, <1>5
  <1>10. ASSUME ~m PROVE Apart(b, s, t)
    <2>0. Apart(b, s, r)
      BY <1>10 DEF Sound
    <2>1. BufIds(b) \cap (SrvIds(s) \cup ReplyIds(t)) = {} /\ SrvIds(s) \cap FinalIds(t) = {}
      BY <2>0, <1>1 DEF Apart
    <2>2. ASSUME NEW i \in FinalOf(t), NEW j \in 1..Len(t), i < j PROVE t[i].id # t[j].id
      <3>1. i \in 1..Len(t) /\ t[i].res # "chunk"
        BY DEF FinalOf
      <3>2. /\ i + 1 \in 1..Len(r) /\ j + 1 \in 1..Len(r) /\ i + 1 < j + 1
            /\ t[i] = r[i + 1] /\ t[j] = r[j + 1]
        <4>1. t[i] = r[i + 1] /\ t[j] = r[j + 1]
          BY <3>1, <1>1
        <4>2. Len(t) = Len(r) - 1 /\ Len(r) \in Nat
          BY <1>1
        <4> QED
          BY <3>1, <2>2, <4>1, <4>2
      <3>3. i + 1 \in FinalOf(r)
        BY <3>1, <3>2 DEF FinalOf
      <3> QED
        BY <3>2, <3>3, <2>0 DEF Apart
    <2>3. /\ \A i, j \in 1..Len(b) : b[i].id = b[j].id => i = j
          /\ \A p, q \in s : p.id = q.id => p = q
      BY <2>0 DEF Apart
    <2> QED
      BY <2>1, <2>2, <2>3, Zenon DEF Apart
  <1> DEFINE w1 == IF h.res = "chunk" THEN w ELSE w - 1
  <1>11. live => w1 <= d1
    <2>1. live => w <= d
      BY DEF Sound
    <2> HIDE DEF d, d1
    <2>2. d \in Nat /\ d1 \in Nat
      BY <1>5 DEF d, d1
    <2> QED
      BY <2>1, <2>2, <1>7
  <1>12. ~m => k1 <= w1
    <2>1. ~m => k <= w
      BY DEF Sound
    <2>2. k \in Nat /\ k1 \in Nat
      BY <1>5
    <2>3. ~m /\ h.res # "chunk" => k1 <= k - 1
      BY <1>9
    <2>4. k1 <= k
      BY <1>6
    <2> HIDE DEF k, k1
    <2> QED
      BY <2>1, <2>2, <2>3, <2>4
  <1>13. Sound(b, s, t, w1, n, live, m)
    <2>1. IsFiniteSet(s)
      BY DEF Sound
    <2> HIDE DEF w1
    <2> QED
      BY <2>1, <1>4, <1>10, <1>11, <1>12 DEF Sound
  <1> QED
    BY <1>8, <1>13 DEF h, t

\* The server answers q, or pushes a chunk and goes on with it: s1 is what it
\* still has to answer.
LEMMA SoundReply ==
    ASSUME NEW b \in Seq(Requests), NEW s \in SUBSET Requests, NEW r \in Seq(Replies),
           NEW w \in Nat, NEW n \in Nat, NEW live \in BOOLEAN, NEW m \in BOOLEAN,
           NEW q \in s, NEW x \in Replies, x.id = q.id,
           NEW s1, s1 = IF x.res = "chunk" THEN s ELSE s \ {q},
           Sound(b, s, r, w, n, live, m)
    PROVE  Sound(b, s1, Append(r, x), w, n, live, m)
  <1> DEFINE a == Append(r, x)
  <1>1. /\ Len(a) = Len(r) + 1 /\ Len(r) \in Nat
        /\ \A i \in 1..Len(r) : a[i] = r[i]
        /\ a[Len(r) + 1] = x
        /\ ReplyIds(a) = ReplyIds(r) \cup {x.id}
        /\ FinalOf(a) = FinalOf(r) \cup (IF x.res = "chunk" THEN {} ELSE {Len(r) + 1})
        /\ FinalIds(a) = FinalIds(r) \cup (IF x.res = "chunk" THEN {} ELSE {x.id})
    BY ReplyAppend, ZenonT(60)
  <1> HIDE DEF a
  <1>2. IsFiniteSet(s1)
    BY FS_RemoveElement DEF Sound
  <1>3. /\ SrvIds(s1) \subseteq SrvIds(s) /\ SrvIds(s) \subseteq SrvIds(s1) \cup {x.id}
        /\ x.id \in SrvIds(s) /\ (x.res = "chunk" => s1 = s)
    BY DEF SrvIds
  <1>4. Known(b, s1, a) = Known(b, s, r)
    BY <1>1, <1>3 DEF Known
  <1>5. Due(b, s1, a) = Due(b, s, r)
    BY <1>1, <1>3 DEF Due
  <1>6. ASSUME Apart(b, s, r) PROVE Apart(b, s1, a)
    <2>1. BufIds(b) \cap (SrvIds(s1) \cup ReplyIds(a)) = {}
      <3>1. BufIds(b) \cap (SrvIds(s) \cup ReplyIds(r)) = {}
        BY <1>6 DEF Apart
      <3>2. ReplyIds(a) = ReplyIds(r) \cup {x.id}
        BY <1>1
      <3>3. SrvIds(s1) \subseteq SrvIds(s) /\ x.id \in SrvIds(s)
        BY <1>3
      <3> QED
        BY <3>1, <3>2, <3>3
    <2>2. SrvIds(s1) \cap FinalIds(a) = {}
      <3>1. x.res # "chunk" => x.id \notin SrvIds(s1)
        BY <1>6 DEF Apart, SrvIds
      <3>2. SrvIds(s) \cap FinalIds(r) = {}
        BY <1>6 DEF Apart
      <3>3. CASE x.res = "chunk"
        BY <3>2, <3>3, <1>1, <1>3
      <3>4. CASE x.res # "chunk"
        <4>1. FinalIds(a) = FinalIds(r) \cup {x.id}
          BY <3>4, <1>1
        <4> QED
          BY <4>1, <3>1, <3>2, <3>4, <1>3
      <3> QED
        BY <3>3, <3>4
    <2>3. ASSUME NEW i \in FinalOf(a), NEW j \in 1..Len(a), i < j PROVE a[i].id # a[j].id
      <3>1. i \in FinalOf(r) /\ i \in 1..Len(r) /\ a[i] = r[i]
        BY <2>3, <1>1 DEF FinalOf
      <3>2. CASE j = Len(r) + 1
        <4>1. r[i].id \in FinalIds(r)
          BY <3>1 DEF FinalIds
        <4> QED
          BY <4>1, <3>1, <3>2, <1>1, <1>3, <1>6 DEF Apart
      <3>3. CASE j # Len(r) + 1
        <4>1. j \in 1..Len(r)
          BY <3>3, <1>1
        <4> QED
          BY <4>1, <3>1, <2>3, <1>1, <1>6 DEF Apart
      <3> QED
        BY <3>2, <3>3
    <2>4. /\ \A i, j \in 1..Len(b) : b[i].id = b[j].id => i = j
          /\ \A p, o \in s1 : p.id = o.id => p = o
      BY <1>6 DEF Apart
    <2> QED
      BY <2>1, <2>2, <2>3, <2>4, Zenon DEF Apart
  <1> QED
    BY <1>2, <1>4, <1>5, <1>6 DEF Sound, a

-----------------------------------------------------------------------------
(* Where the requests in hand come from. *)

LEMMA EntryFacts ==
    ASSUME NEW b \in Seq(Requests), NEW s \in SUBSET Requests, NEW r \in Seq(Replies)
    PROVE  /\ Entries(b, s, r) \subseteq Requests
           /\ \A e \in Entries(b, s, r) : e.id \in Known(b, s, r)
           /\ \A i \in 1..Len(r) : Origin(r[i]) \in Entries(b, s, r)
  <1>1. \A i \in 1..Len(b) : b[i] \in Requests
    BY ElementOfSeq
  <1>2. \A i \in 1..Len(r) : r[i] \in Replies
    BY ElementOfSeq
  <1>3. \A x \in Replies : Origin(x) \in Requests /\ Origin(x).id = x.id
    BY DEF Origin, Request, Requests, Replies
  <1> QED
    BY <1>1, <1>2, <1>3 DEF Entries, Known, BufIds, SrvIds, ReplyIds

LEMMA EntriesWrite ==
    ASSUME NEW b \in Seq(Requests), NEW s, NEW r, NEW c \in Seq(Requests)
    PROVE  Entries(b \o c, s, r) \subseteq Entries(b, s, r) \cup Range(c)
  <1>1. Range(b \o c) = Range(b) \cup Range(c)
    BY RangeConcatenation
  <1>2. /\ Range(b \o c) = {(b \o c)[i] : i \in 1..Len(b \o c)}
        /\ Range(b) = {b[i] : i \in 1..Len(b)}
    <2>1. b \o c \in Seq(Requests)
      BY BufConcat, Zenon
    <2> QED
      BY <2>1, RangeEquality, Zenon
  <1> QED
    BY <1>1, <1>2, Zenon DEF Entries

LEMMA EntriesSend ==
    ASSUME NEW b \in Seq(Requests), NEW s, NEW r, NEW T \in SUBSET Range(b)
    PROVE  /\ Entries(b, s \cup T, r) \subseteq Entries(b, s, r)
           /\ Entries(<<>>, s \cup T, r) \subseteq Entries(b, s, r)
  <1>1. Range(b) = {b[i] : i \in 1..Len(b)}
    BY RangeEquality
  <1>2. {<<>>[i] : i \in 1..Len(<<>>)} = {}
    OBVIOUS
  <1> QED
    BY <1>1, <1>2 DEF Entries

LEMMA EntriesTake ==
    ASSUME NEW b, NEW s, NEW r \in Seq(Replies), r # <<>>
    PROVE  Entries(b, s, Tail(r)) \subseteq Entries(b, s, r)
  <1>1. /\ Len(Tail(r)) = Len(r) - 1 /\ Len(r) \in Nat
        /\ \A i \in 1..Len(Tail(r)) : Tail(r)[i] = r[i + 1]
    BY ReplyTail
  <1> DEFINE t == Tail(r)
  <1> HIDE DEF t
  <1>2. \A i \in 1..Len(t) : i + 1 \in 1..Len(r) /\ t[i] = r[i + 1]
    BY <1>1 DEF t
  <1>3. Entries(b, s, t) \subseteq Entries(b, s, r)
    BY <1>2 DEF Entries
  <1> QED
    BY <1>3 DEF t

LEMMA EntriesReply ==
    ASSUME NEW b, NEW s \in SUBSET Requests, NEW r \in Seq(Replies), NEW q \in s,
           NEW x \in Replies, Origin(x) = q, NEW s1 \in SUBSET s
    PROVE  Entries(b, s1, Append(r, x)) \subseteq Entries(b, s, r)
  <1> DEFINE a == Append(r, x)
  <1>1. /\ Len(a) = Len(r) + 1 /\ Len(r) \in Nat
        /\ \A i \in 1..Len(r) : a[i] = r[i]
        /\ a[Len(r) + 1] = x
    BY ReplyAppend, Zenon
  <1> HIDE DEF a
  <1>2. \A i \in 1..Len(a) : i \in 1..Len(r) \/ i = Len(r) + 1
    BY <1>1
  <1>3. Entries(b, s1, a) \subseteq Entries(b, s, r)
    BY <1>1, <1>2 DEF Entries
  <1> QED
    BY <1>3 DEF a

LEMMA EntriesLose ==
    ASSUME NEW b, NEW s, NEW r, NEW b1, b1 = b \/ b1 = <<>>, NEW s1 \in SUBSET s,
           NEW r1, r1 = r \/ r1 = <<>>
    PROVE  Entries(b1, s1, r1) \subseteq Entries(b, s, r)
  BY DEF Entries

\* The part of a buffer that a send got out, or that the buffer has room for.
LEMMA PrefixFacts ==
    ASSUME NEW c \in Seq(Requests), NEW k \in 0..Len(c)
    PROVE  /\ SubSeq(c, 1, k) \in Seq(Requests) /\ Len(SubSeq(c, 1, k)) = k
           /\ \A i \in 1..k : SubSeq(c, 1, k)[i] = c[i]
           /\ Range(SubSeq(c, 1, k)) \subseteq Range(c)
  <1>1. Len(c) \in Nat /\ \A i \in 1..Len(c) : c[i] \in Requests
    BY LenProperties, ElementOfSeq
  <1>2. \A i \in 1..k : c[i] \in Requests
    BY <1>1
  <1> DEFINE p == SubSeq(c, 1, k)
  <1>3. /\ p \in Seq(Requests)
        /\ Len(p) = IF 1 <= k THEN k - 1 + 1 ELSE 0
        /\ \A i \in 1..k - 1 + 1 : p[i] = c[1 + i - 1]
    BY <1>1, <1>2, SubSeqProperties
  <1> HIDE DEF p
  <1>4. Len(p) = k /\ \A i \in 1..k : p[i] = c[i]
    BY <1>1, <1>3
  <1>5. Range(p) = {p[i] : i \in 1..Len(p)} /\ Range(c) = {c[i] : i \in 1..Len(c)}
    BY <1>3, RangeEquality
  <1>6. Range(p) \subseteq Range(c)
    BY <1>1, <1>4, <1>5
  <1> QED
    BY <1>3, <1>4, <1>6 DEF p

-----------------------------------------------------------------------------
(* The sends and the reads. *)

\* The variables the operations on the three places are about.
Places ==
    /\ sbuf \in Seq(Requests) /\ srv \subseteq Requests /\ s2c \in Seq(Replies)
    /\ wrcnt \in Nat /\ nextId \in Nat /\ cuts \in Nat
    /\ connected \in BOOLEAN /\ lost \in BOOLEAN /\ torn \in BOOLEAN /\ missed \in BOOLEAN

LEMMA PlacesFacts ==
    ASSUME Places, Counted
    PROVE  /\ srv \in SUBSET Requests /\ s2c \in Seq(Replies) /\ sbuf \in Seq(Requests)
           /\ InStep \in BOOLEAN /\ missed \in BOOLEAN /\ wrcnt \in Nat /\ nextId \in Nat
           /\ Sound(sbuf, srv, s2c, wrcnt, nextId, InStep, missed)
           /\ (lost \/ ~connected => srv = {}) /\ (~connected => s2c = <<>>)
           /\ (torn => missed)
  BY DEF Places, Counted, InStep

\* A send of b: what is in the buffer, or a request if there is no buffer.
LEMMA TransmitSound ==
    ASSUME NEW b \in Seq(Requests), NEW w \in Nat, NEW n \in Nat, Places,
           Sound(b, srv, s2c, w, n, InStep, missed),
           lost \/ ~connected => srv = {},
           Transmit(b)
    PROVE  /\ Sound(<<>>, srv', s2c, w, n, InStep, missed)
           /\ srv' \subseteq Requests /\ (lost \/ ~connected => srv' = {})
           /\ Entries(<<>>, srv', s2c) \subseteq Entries(b, srv, s2c)
  <1>0. /\ srv \in SUBSET Requests /\ s2c \in Seq(Replies)
        /\ InStep \in BOOLEAN /\ missed \in BOOLEAN
    BY DEF Places, InStep
  <1>1. connected /\ srv' = IF lost THEN srv ELSE srv \cup Range(b)
    BY DEF Transmit
  <1>2. Range(b) \subseteq Requests
    BY BufRange
  <1>3. CASE lost
    <2>1. srv' = srv /\ ~InStep
      BY <1>1, <1>3 DEF InStep
    <2>2. Sound(<<>>, srv, s2c, w, n, InStep, missed)
      <3> DEFINE e == <<>>
      <3>1. e = b \/ e = <<>>
        OBVIOUS
      <3> HIDE DEF e
      <3>2. Sound(e, srv, s2c, w, n, InStep, missed)
        BY <3>1, <2>1, <1>0, SoundLose
      <3> QED
        BY <3>2 DEF e
    <2>3. Entries(<<>>, srv, s2c) \subseteq Entries(b, srv, s2c)
      BY EntriesLose
    <2> QED
      BY <2>1, <2>2, <2>3, <1>3 DEF Places
  <1>4. CASE ~lost
    <2>1. srv' = srv \cup Range(b)
      BY <1>1, <1>4
    <2>2. Sound(<<>>, srv \cup Range(b), s2c, w, n, InStep, missed)
      BY <1>0, SoundTransmit
    <2>3. Entries(<<>>, srv \cup Range(b), s2c) \subseteq Entries(b, srv, s2c)
      BY EntriesSend
    <2> QED
      BY <2>1, <2>2, <2>3, <1>1, <1>2, <1>4 DEF Places
  <1> QED
    BY <1>3, <1>4 DEF Places

LEMMA SendFailsSound ==
    ASSUME NEW b \in Seq(Requests), NEW w \in Nat, NEW n \in Nat, Places,
           Sound(b, srv, s2c, w, n, InStep, missed),
           lost \/ ~connected => srv = {},
           SendFails(b)
    PROVE  /\ Sound(b, srv', s2c, w, n, InStep, missed')
           /\ srv' \subseteq Requests /\ (lost \/ ~connected => srv' = {})
           /\ missed' \in BOOLEAN /\ cuts' \in Nat /\ (missed => missed')
           /\ Entries(b, srv', s2c) \subseteq Entries(b, srv, s2c)
  <1>1. PICK k \in 0..Len(b) :
            /\ k = 0 \/ (connected /\ ~lost /\ k < Len(b) /\ cuts < MaxCuts)
            /\ srv' = srv \cup Range(SubSeq(b, 1, k))
            /\ cuts' = cuts + (IF k > 0 THEN 1 ELSE 0)
            /\ missed' = (missed \/ k > 0)
    BY DEF SendFails
  <1>2. Range(b) \subseteq Requests
    BY BufRange
  <1>3. cuts' \in Nat
    BY <1>1 DEF Places
  <1>4. CASE k = 0
    <2>1. SubSeq(b, 1, 0) = <<>>
      BY SubSeqEmpty
    <2>2. Range(<<>>) = {}
      BY DEF Range
    <2>3. srv' = srv
      BY <2>1, <2>2, <1>1, <1>4 DEF Places
    <2>4. ~(k > 0)
      BY <1>4
    <2>5. missed' = missed
      BY <2>4, <1>1, Zenon DEF Places
    <2> QED
      BY <2>3, <2>5, <1>3 DEF Places
  <1>5. CASE k # 0
    <2>1. k > 0
      BY <1>1, <1>5
    <2>2. missed' = TRUE /\ ~(lost \/ ~connected)
      BY <2>1, <1>1, <1>5 DEF Places
    <2> DEFINE T == Range(SubSeq(b, 1, k))
    <2>3. T \in SUBSET Range(b)
      BY PrefixFacts, <1>1
    <2>4. srv' = srv \cup T
      BY <1>1
    <2> HIDE DEF T
    <2>5. Sound(b, srv \cup T, s2c, w, n, InStep, TRUE)
      BY <2>3, SoundCut DEF Places, InStep
    <2>6. Entries(b, srv \cup T, s2c) \subseteq Entries(b, srv, s2c)
      BY <2>3, EntriesSend
    <2> QED
      BY <2>2, <2>3, <2>4, <2>5, <2>6, <1>2, <1>3 DEF Places
  <1> QED
    BY <1>4, <1>5

\* A send of one request that fails has sent no whole request.
LEMMA SendFailsWhole ==
    ASSUME NEW c \in Seq(Requests), Len(c) = 1, Places, SendFails(c)
    PROVE  UNCHANGED <<srv, cuts, missed>>
  <1>1. PICK k \in 0..Len(c) :
            /\ k = 0 \/ (connected /\ ~lost /\ k < Len(c) /\ cuts < MaxCuts)
            /\ srv' = srv \cup Range(SubSeq(c, 1, k))
            /\ cuts' = cuts + (IF k > 0 THEN 1 ELSE 0)
            /\ missed' = (missed \/ k > 0)
    BY DEF SendFails
  <1>2. k = 0 /\ ~(k > 0)
    BY <1>1
  <1>3. SubSeq(c, 1, 0) = <<>> /\ Range(<<>>) = {}
    BY SubSeqEmpty DEF Range
  <1>4. srv' = srv
    BY <1>1, <1>2, <1>3
  <1>5. missed' = missed
    BY <1>1, <1>2, Zenon DEF Places
  <1>6. cuts' = cuts
    BY <1>1, <1>2 DEF Places
  <1> QED
    BY <1>4, <1>5, <1>6

\* A request is written under the next id.
LEMMA WriteSound ==
    ASSUME Places, Counted, NEW q \in Requests, q.id = nextId + 1, Write(q),
           nextId' = nextId + 1, UNCHANGED <<connected, lost, s2c, torn>>
    PROVE  /\ Places' /\ Counted' /\ (missed => missed')
           /\ Entered' \subseteq Entered \cup {q}
           /\ wrcnt' <= wrcnt + 1
           /\ Len(sbuf) < SBufCap => wrcnt' = wrcnt + 1
  <1> DEFINE c == <<q>>
             e == <<>>
  <1>0. /\ srv \in SUBSET Requests /\ s2c \in Seq(Replies) /\ sbuf \in Seq(Requests)
        /\ InStep \in BOOLEAN /\ missed \in BOOLEAN
        /\ Sound(sbuf, srv, s2c, wrcnt, nextId, InStep, missed)
        /\ (lost \/ ~connected => srv = {}) /\ (~connected => s2c = <<>>)
        /\ (torn => missed)
    BY PlacesFacts
  <1>1. /\ wrcnt \in Nat /\ nextId \in Nat /\ Len(sbuf) \in Nat
        /\ SBufCap \in Nat /\ Len(sbuf) <= SBufCap
    BY LenProperties, NetAssumption DEF Places, Counted
  <1>2. InStep' = InStep
    BY DEF InStep
  <1>3. nextId + 1 \in Nat /\ nextId' \in Nat /\ wrcnt + 1 \in Nat
    BY <1>1
  <1>4. /\ c \in Seq(Requests) /\ Len(c) = 1 /\ c[1] = q
        /\ \A i \in 1..Len(c) : c[i].id = nextId + i
        /\ Range(c) = {q}
    <2>1. c \in Seq(Requests) /\ Len(c) = 1 /\ c[1] = q
      OBVIOUS
    <2>2. Range(c) = {c[i] : i \in 1..Len(c)}
      BY <2>1, RangeEquality
    <2> HIDE DEF c
    <2> QED
      BY <2>1, <2>2
  <1>5. e \in Seq(Requests) /\ Len(e) = 0 /\ e \o c = c
    BY <1>4, EmptySeq, ConcatEmptySeq
  <1> HIDE DEF c
  \* Writing behind b, whatever is then in the three places.
  <1>6. ASSUME NEW b \in Seq(Requests), NEW s \in SUBSET Requests,
               Sound(b, s, s2c, wrcnt, nextId, InStep, missed)
        PROVE  /\ Sound(b \o c, s, s2c, wrcnt + 1, nextId + 1, InStep, missed)
               /\ b \o c \in Seq(Requests) /\ Len(b \o c) = Len(b) + 1
               /\ Entries(b \o c, s, s2c) \subseteq Entries(b, s, s2c) \cup {q}
    <2>1. Sound(b \o c, s, s2c, wrcnt + Len(c), nextId + Len(c), InStep, missed)
      <3>1. s2c \in Seq(Replies) /\ InStep \in BOOLEAN /\ missed \in BOOLEAN
        BY <1>0
      <3>2. wrcnt \in Nat /\ nextId \in Nat
        BY <1>1
      <3>3. c \in Seq(Requests) /\ \A i \in 1..Len(c) : c[i].id = nextId + i
        BY <1>4
      <3> QED
        BY <3>1, <3>2, <3>3, <1>6, SoundWrite
    <2>2. b \o c \in Seq(Requests) /\ Len(b \o c) = Len(b) + Len(c)
      BY <1>4, BufConcat
    <2>3. Entries(b \o c, s, s2c) \subseteq Entries(b, s, s2c) \cup Range(c)
      BY <1>4, EntriesWrite
    <2> QED
      BY <2>1, <2>2, <2>3, <1>4
  <1>7. CASE /\ Len(sbuf) < SBufCap
             /\ sbuf' = Append(sbuf, q) /\ wrcnt' = wrcnt + 1
             /\ UNCHANGED <<srv, missed, cuts>>
    <2>1. sbuf' = sbuf \o c
      <3>1. Append(sbuf, q) = sbuf \o <<q>>
        BY <1>0, AppendIsConcat
      <3> QED
        BY <3>1, <1>7 DEF c
    <2>2. /\ Sound(sbuf', srv, s2c, wrcnt + 1, nextId + 1, InStep, missed)
          /\ sbuf' \in Seq(Requests) /\ Len(sbuf') = Len(sbuf) + 1
          /\ Entries(sbuf', srv, s2c) \subseteq Entries(sbuf, srv, s2c) \cup {q}
      BY <2>1, <1>0, <1>6
    <2>3. Len(sbuf') <= SBufCap
      BY <2>2, <1>1, <1>7
    <2>4. Places'
      BY <2>2, <1>3, <1>7 DEF Places
    <2>5. Counted'
      BY <2>2, <2>3, <1>0, <1>2, <1>7 DEF Counted
    <2> QED
      BY <2>2, <2>4, <2>5, <1>1, <1>7 DEF Entered
  <1>8. CASE /\ SBufCap > 0 /\ Len(sbuf) = SBufCap
             /\ Transmit(sbuf)
             /\ sbuf' = <<q>> /\ wrcnt' = wrcnt + 1
             /\ UNCHANGED <<missed, cuts>>
    <2>1. /\ Sound(e, srv', s2c, wrcnt, nextId, InStep, missed)
          /\ srv' \subseteq Requests /\ (lost \/ ~connected => srv' = {})
          /\ Entries(e, srv', s2c) \subseteq Entries(sbuf, srv, s2c)
      BY <1>0, <1>1, <1>8, TransmitSound
    <2>2. sbuf' = e \o c
      BY <1>5, <1>8 DEF c
    <2> HIDE DEF e
    <2>3. srv' \in SUBSET Requests
      BY <2>1
    <2>4. /\ Sound(sbuf', srv', s2c, wrcnt + 1, nextId + 1, InStep, missed)
          /\ sbuf' \in Seq(Requests) /\ Len(sbuf') = 0 + 1
          /\ Entries(sbuf', srv', s2c) \subseteq Entries(e, srv', s2c) \cup {q}
      BY <2>1, <2>2, <2>3, <1>5, <1>6
    <2>5. Len(sbuf') <= SBufCap
      BY <2>4, <1>1, <1>8
    <2>6. Places'
      BY <2>1, <2>4, <1>3, <1>8 DEF Places
    <2>7. Counted'
      BY <2>1, <2>4, <2>5, <1>0, <1>2, <1>8 DEF Counted
    <2> QED
      BY <2>1, <2>4, <2>6, <2>7, <1>1, <1>8 DEF Entered
  <1>9. CASE /\ SBufCap = 0
             /\ Transmit(<<q>>)
             /\ wrcnt' = wrcnt + 1
             /\ UNCHANGED <<sbuf, missed, cuts>>
    <2>1. sbuf = e
      <3>1. Len(sbuf) = 0
        BY <1>1, <1>9
      <3> QED
        BY <3>1, <1>0, EmptySeq
    <2>2. /\ Sound(c, srv, s2c, wrcnt + 1, nextId + 1, InStep, missed)
          /\ Entries(c, srv, s2c) \subseteq Entries(sbuf, srv, s2c) \cup {q}
      <3> HIDE DEF e
      <3>1. Sound(e, srv, s2c, wrcnt, nextId, InStep, missed)
        BY <2>1, <1>0
      <3>2. /\ Sound(e \o c, srv, s2c, wrcnt + 1, nextId + 1, InStep, missed)
            /\ Entries(e \o c, srv, s2c) \subseteq Entries(e, srv, s2c) \cup {q}
        BY <3>1, <1>0, <1>5, <1>6
      <3> QED
        BY <3>2, <2>1, <1>5
    <2>3. /\ Sound(<<>>, srv', s2c, wrcnt + 1, nextId + 1, InStep, missed)
          /\ srv' \subseteq Requests /\ (lost \/ ~connected => srv' = {})
          /\ Entries(<<>>, srv', s2c) \subseteq Entries(c, srv, s2c)
      <3>1. Transmit(c)
        BY <1>9 DEF c
      <3> QED
        BY <3>1, <2>2, <1>0, <1>3, <1>4, TransmitSound
    <2>4. Places'
      BY <2>3, <1>3, <1>9 DEF Places
    <2>5. Counted'
      BY <2>1, <2>3, <1>0, <1>1, <1>2, <1>9 DEF Counted
    <2> QED
      BY <2>1, <2>2, <2>3, <2>4, <2>5, <1>1, <1>9 DEF Entered
  <1>10. CASE /\ Len(sbuf) = SBufCap
              /\ SendFails(IF SBufCap = 0 THEN <<q>> ELSE sbuf)
              /\ UNCHANGED <<sbuf, wrcnt>>
    <2>1. Sound(sbuf, srv, s2c, wrcnt, nextId + 1, InStep, missed)
      <3>1. nextId + 1 \in Nat /\ nextId + 1 >= nextId
        BY <1>1
      <3> QED
        BY <3>1, <1>0, <1>1, SoundSkip
    <2>2. CASE SBufCap = 0
      <3>1. UNCHANGED <<srv, cuts, missed>>
        <4>1. SendFails(c)
          BY <2>2, <1>10 DEF c
        <4> QED
          BY <4>1, <1>0, <1>4, SendFailsWhole
      <3>2. Places' /\ Counted'
        BY <3>1, <2>1, <1>0, <1>1, <1>2, <1>3, <1>10 DEF Places, Counted
      <3>3. Entered' = Entered
        BY <3>1, <1>10 DEF Entered
      <3> QED
        BY <3>1, <3>2, <3>3, <1>1, <1>10
    <2>3. CASE SBufCap # 0
      <3>1. /\ Sound(sbuf, srv', s2c, wrcnt, nextId + 1, InStep, missed')
            /\ srv' \subseteq Requests /\ (lost \/ ~connected => srv' = {})
            /\ missed' \in BOOLEAN /\ cuts' \in Nat /\ (missed => missed')
            /\ Entries(sbuf, srv', s2c) \subseteq Entries(sbuf, srv, s2c)
        BY <2>1, <2>3, <1>0, <1>1, <1>3, <1>10, SendFailsSound
      <3>2. Places'
        BY <3>1, <1>3, <1>10 DEF Places
      <3>3. Counted'
        BY <3>1, <1>0, <1>1, <1>2, <1>10 DEF Counted
      <3> QED
        BY <3>1, <3>2, <3>3, <1>1, <1>10 DEF Entered
    <2> QED
      BY <2>2, <2>3
  <1> QED
    BY <1>7, <1>8, <1>9, <1>10 DEF Write

\* tnt_flush.
LEMMA SendBufferSound ==
    ASSUME Places, Counted, SendBuffer,
           UNCHANGED <<connected, lost, s2c, torn, wrcnt, nextId>>
    PROVE  Places' /\ Counted' /\ (missed => missed') /\ Entered' \subseteq Entered
  <1>0. /\ sbuf \in Seq(Requests) /\ wrcnt \in Nat /\ nextId \in Nat
        /\ Sound(sbuf, srv, s2c, wrcnt, nextId, InStep, missed)
        /\ (lost \/ ~connected => srv = {}) /\ (~connected => s2c = <<>>)
        /\ (torn => missed)
    BY PlacesFacts
  <1>1. InStep' = InStep /\ Len(sbuf) <= SBufCap
    BY DEF InStep, Counted
  <1>2. CASE Transmit(sbuf) /\ sbuf' = <<>> /\ UNCHANGED <<missed, cuts>>
    <2>0. <<>> \in Seq(Requests) /\ Len(<<>>) = 0 /\ SBufCap \in Nat
      BY EmptySeq, NetAssumption
    <2>1. /\ Sound(<<>>, srv', s2c, wrcnt, nextId, InStep, missed)
          /\ srv' \subseteq Requests /\ (lost \/ ~connected => srv' = {})
          /\ Entries(<<>>, srv', s2c) \subseteq Entries(sbuf, srv, s2c)
      BY <1>0, <1>2, TransmitSound
    <2>2. Places'
      BY <2>0, <2>1, <1>2 DEF Places
    <2>3. Counted'
      BY <2>0, <2>1, <1>0, <1>1, <1>2 DEF Counted
    <2> QED
      BY <2>1, <2>2, <2>3, <1>2 DEF Entered
  <1>3. CASE SendFails(sbuf) /\ UNCHANGED sbuf
    <2>1. /\ Sound(sbuf, srv', s2c, wrcnt, nextId, InStep, missed')
          /\ srv' \subseteq Requests /\ (lost \/ ~connected => srv' = {})
          /\ missed' \in BOOLEAN /\ cuts' \in Nat /\ (missed => missed')
          /\ Entries(sbuf, srv', s2c) \subseteq Entries(sbuf, srv, s2c)
      BY <1>0, <1>3, SendFailsSound
    <2>2. Places'
      BY <2>1, <1>3 DEF Places
    <2>3. Counted'
      BY <2>1, <1>0, <1>1, <1>3 DEF Counted
    <2> QED
      BY <2>1, <2>2, <2>3, <1>3 DEF Entered
  <1> QED
    BY <1>2, <1>3 DEF SendBuffer

\* read_reply takes a reply.
LEMMA TakeSound ==
    ASSUME NEW r, Places, Counted, Take(r),
           UNCHANGED <<connected, lost, nextId, sbuf, srv>>
    PROVE  /\ Places' /\ Counted' /\ missed' = missed
           /\ Entered' \subseteq Entered /\ Origin(r) \in Entered
           /\ \E i \in 1..Len(s2c) : r = s2c[i]
           /\ ~missed /\ r.res # "chunk" => \A e \in Entered' : e.id # r.id
  <1>0. /\ srv \in SUBSET Requests /\ s2c \in Seq(Replies) /\ sbuf \in Seq(Requests)
        /\ InStep \in BOOLEAN /\ missed \in BOOLEAN /\ wrcnt \in Nat /\ nextId \in Nat
        /\ Sound(sbuf, srv, s2c, wrcnt, nextId, InStep, missed)
        /\ (~connected => s2c = <<>>)
    BY PlacesFacts
  <1>1. /\ wrcnt > 0 /\ s2c # <<>> /\ r = Head(s2c) /\ s2c' = Tail(s2c)
        /\ wrcnt' = IF r.res = "chunk" THEN wrcnt ELSE wrcnt - 1
        /\ UNCHANGED <<torn, missed, cuts>>
    BY DEF Take
  <1>a. InStep' = InStep
    BY <1>1 DEF InStep
  <1>2. /\ r = s2c[1] /\ s2c' \in Seq(Replies) /\ Len(s2c) \in Nat /\ Len(s2c) > 0
    BY <1>0, <1>1, ReplyTail
  <1>3. /\ Sound(sbuf, srv, s2c', wrcnt', nextId, InStep, missed)
        /\ ~missed /\ r.res # "chunk" => r.id \notin Known(sbuf, srv, s2c')
    BY <1>0, <1>1, SoundTake
  <1>4. wrcnt' \in Nat
    BY <1>0, <1>1
  <1>5. Places'
    BY <1>1, <1>2, <1>4 DEF Places
  <1>6. Counted'
    <2>1. connected
      BY <1>0, <1>1 DEF Places
    <2> QED
      BY <2>1, <1>0, <1>1, <1>3, <1>a DEF Counted
  <1>7. Entered' \subseteq Entered
    BY <1>0, <1>1, EntriesTake DEF Entered
  <1>8. Origin(r) \in Entered /\ \E i \in 1..Len(s2c) : r = s2c[i]
    <2>1. 1 \in 1..Len(s2c)
      BY <1>2
    <2> QED
      BY <2>1, <1>0, <1>2, EntryFacts DEF Entered
  <1>9. ~missed /\ r.res # "chunk" => \A e \in Entered' : e.id # r.id
    <2>1. \A e \in Entered' : e.id \in Known(sbuf, srv, s2c')
      BY <1>0, <1>2, EntryFacts DEF Entered
    <2> QED
      BY <2>1, <1>3
  <1> QED
    BY <1>1, <1>5, <1>6, <1>7, <1>8, <1>9

\* The stream is torn, before the step or by it, and nothing is written.
LEMMA TornSound ==
    ASSUME Places, Counted, torn', missed', torn' \in BOOLEAN, missed' \in BOOLEAN,
           UNCHANGED <<connected, lost, nextId, sbuf, cuts>>,
           srv' \in SUBSET srv, s2c' = s2c \/ s2c' = <<>>, wrcnt' \in Nat
    PROVE  Places' /\ Counted' /\ Entered' \subseteq Entered
  <1>0. /\ srv \in SUBSET Requests /\ s2c \in Seq(Replies)
        /\ Sound(sbuf, srv, s2c, wrcnt, nextId, InStep, missed)
        /\ (lost \/ ~connected => srv = {}) /\ (~connected => s2c = <<>>)
    BY PlacesFacts
  <1>1. InStep' = FALSE /\ missed' = TRUE
    BY DEF InStep
  <1>2. s2c' \in Seq(Replies)
    BY <1>0, EmptySeq
  <1>3. Places'
    BY <1>0, <1>2 DEF Places
  <1>4. Sound(sbuf, srv', s2c', wrcnt', nextId, FALSE, TRUE)
    BY <1>0, SoundTorn
  <1>5. Counted'
    BY <1>0, <1>1, <1>4 DEF Counted
  <1>6. Entered' \subseteq Entered
    BY EntriesLose DEF Entered
  <1> QED
    BY <1>3, <1>5, <1>6

\* What read_reply returns is a reply that was sent, unless a read failed before.
LEMMA ReadSound ==
    ASSUME NEW r, Places, Counted, Read(r),
           UNCHANGED <<connected, lost, nextId, sbuf, srv>>
    PROVE  /\ Places' /\ Counted' /\ missed' = missed /\ Entered' \subseteq Entered
           /\ wrcnt > 0 /\ wrcnt' = IF r.res = "chunk" THEN wrcnt ELSE wrcnt - 1
           /\ ~missed =>
                 /\ Take(r) /\ Origin(r) \in Entered
                 /\ \E i \in 1..Len(s2c) : r = s2c[i]
                 /\ r.res # "chunk" => \A e \in Entered' : e.id # r.id
  <1>1. CASE Take(r)
    <2>1. wrcnt > 0 /\ wrcnt' = IF r.res = "chunk" THEN wrcnt ELSE wrcnt - 1
      BY <1>1 DEF Take
    <2> QED
      BY <2>1, <1>1, TakeSound
  <1>2. CASE TakeGarbled(r)
    <2>1. /\ torn /\ wrcnt > 0 /\ wrcnt' = IF r.res = "chunk" THEN wrcnt ELSE wrcnt - 1
          /\ UNCHANGED <<s2c, torn, missed, cuts>>
      BY <1>2 DEF TakeGarbled
    <2>2. /\ missed /\ torn' /\ missed' /\ torn' \in BOOLEAN /\ missed' \in BOOLEAN
      BY <2>1 DEF Counted, Places
    <2>3. wrcnt' \in Nat
      BY <2>1 DEF Places
    <2>4. srv' \in SUBSET srv /\ (s2c' = s2c \/ s2c' = <<>>)
      BY <2>1
    <2>5. Places' /\ Counted' /\ Entered' \subseteq Entered
      BY <2>1, <2>2, <2>3, <2>4, TornSound
    <2> QED
      BY <2>1, <2>2, <2>5
  <1> QED
    BY <1>1, <1>2 DEF Read

\* read_reply fails.
LEMMA ReadFailsSound ==
    ASSUME Places, Counted, ReadFails,
           UNCHANGED <<connected, lost, nextId, sbuf, srv>>
    PROVE  Places' /\ Counted' /\ missed' /\ Entered' \subseteq Entered
  <1>0. /\ InStep \in BOOLEAN /\ missed \in BOOLEAN /\ wrcnt \in Nat /\ nextId \in Nat
        /\ Sound(sbuf, srv, s2c, wrcnt, nextId, InStep, missed)
    BY PlacesFacts
  <1>1. wrcnt > 0 /\ wrcnt' = wrcnt - 1 /\ missed' = TRUE /\ UNCHANGED cuts
    BY DEF ReadFails
  <1>2. wrcnt' \in Nat
    BY <1>0, <1>1
  <1>3. CASE UNCHANGED <<s2c, torn>>
    <2>1. InStep' = InStep
      BY <1>3 DEF InStep
    <2>2. Sound(sbuf, srv, s2c, wrcnt - 1, nextId, InStep, TRUE)
      BY <1>0, SoundMiss
    <2> QED
      BY <2>1, <2>2, <1>1, <1>2, <1>3 DEF Places, Counted, Entered
  <1>4. CASE connected /\ torn' = TRUE /\ s2c' = <<>>
    <2>1. srv' \in SUBSET srv
      OBVIOUS
    <2> QED
      BY <2>1, <1>1, <1>2, <1>4, TornSound
  <1> QED
    BY <1>1, <1>3, <1>4 DEF ReadFails

-----------------------------------------------------------------------------
(* The steps. *)

\* A step that moves no request.
LEMMA QuietSound ==
    ASSUME Places, Counted,
           UNCHANGED <<connected, lost, nextId, sbuf, srv, s2c, torn, wrcnt, missed, cuts>>
    PROVE  Places' /\ Counted' /\ Entered' = Entered
  BY DEF Places, Counted, Entered, InStep

\* tnt_close, and tnt_connect on a live connection.
LEMMA ClearSound ==
    ASSUME Places, ClearStream, CloseSocket, UNCHANGED nextId,
           connected' \in BOOLEAN, lost' \in BOOLEAN
    PROVE  Places' /\ Counted' /\ Entered' = {} /\ wrcnt' = 0
  <1>1. /\ wrcnt' = 0 /\ sbuf' = <<>> /\ srv' = {} /\ s2c' = <<>> /\ missed' = FALSE
        /\ torn' = FALSE /\ UNCHANGED cuts
    BY DEF ClearStream, CloseSocket
  <1>2. <<>> \in Seq(Requests) /\ <<>> \in Seq(Replies) /\ Len(<<>>) = 0
    BY EmptySeq
  <1>3. Places'
    BY <1>1, <1>2 DEF Places
  <1>4. Sound(<<>>, {}, <<>>, 0, nextId', InStep', missed')
    <2>1. nextId' \in Nat /\ InStep' \in BOOLEAN /\ missed' \in BOOLEAN
      BY <1>3 DEF Places, InStep
    <2> QED
      BY <2>1, SoundClear
  <1>5. SBufCap \in Nat
    BY NetAssumption
  <1>6. Counted'
    BY <1>1, <1>2, <1>4, <1>5 DEF Counted
  <1>7. Entered' = {}
    BY <1>1, <1>2 DEF Entered, Entries
  <1> QED
    BY <1>1, <1>3, <1>6, <1>7

\* tnt_connect without a connection: what was written before is kept.
LEMMA ReopenSound ==
    ASSUME Places, Counted, ~connected, CloseSocket,
           UNCHANGED <<wrcnt, sbuf, torn, missed, cuts, nextId>>,
           connected' \in BOOLEAN, lost' \in BOOLEAN, ~lost' \/ ~connected'
    PROVE  Places' /\ Counted' /\ Entered' = Entered
  <1>1. srv = {} /\ s2c = <<>>
    BY DEF Counted
  <1>2. srv' = srv /\ s2c' = s2c
    BY <1>1 DEF CloseSocket
  <1>3. InStep' = InStep
    BY DEF InStep
  <1>4. Sound(sbuf', srv', s2c', wrcnt', nextId', InStep', missed')
    BY <1>2, <1>3 DEF Counted
  <1>5. Counted'
    BY <1>1, <1>2, <1>4 DEF Counted
  <1> QED
    BY <1>2, <1>5 DEF Places, Entered

\* The user's requests.
LEMMA UserRequestSound ==
    ASSUME Places, Counted, UserRequest, reqid \in Nat
    PROVE  /\ Places' /\ Counted' /\ (missed => missed')
           /\ Entered' \subseteq Entered \cup {Request(nextId + 1, "user", reqid)}
  <1> DEFINE q == Request(nextId + 1, "user", reqid)
  <1>1. nextId \in Nat
    BY DEF Places
  <1>2. q \in Requests /\ q.id = nextId + 1
    BY <1>1 DEF Request, Requests, Kinds
  <1>3. Write(q) /\ nextId' = nextId + 1 /\ UNCHANGED <<connected, lost, s2c, torn>>
    BY DEF UserRequest
  <1> HIDE DEF q
  <1>4. /\ Places' /\ Counted' /\ (missed => missed')
        /\ Entered' \subseteq Entered \cup {q}
    BY <1>2, <1>3, WriteSound
  <1> QED
    BY <1>4 DEF q

\* The flushes.
LEMMA FlushSound ==
    ASSUME Places, Counted, Flush \/ AuthFlush \/ ReloadFlush
    PROVE  /\ Places' /\ Counted' /\ (missed => missed') /\ Entered' \subseteq Entered
           /\ UNCHANGED wrcnt
  <1>1. SendBuffer /\ UNCHANGED <<connected, lost, s2c, torn, wrcnt, nextId>>
    BY DEF Flush, AuthFlush, ReloadFlush, cliVars, histVars
  <1> QED
    BY <1>1, SendBufferSound

\* The server's replies: q is the request, x the reply, s1 what is left.
LEMMA ReplySound ==
    ASSUME Places, Counted, NEW q \in srv, NEW res \in {"ok", "error", "chunk"},
           Sent(Reply(q, res)),
           srv' = IF res = "chunk" THEN srv ELSE srv \ {q},
           UNCHANGED <<connected, lost, nextId, sbuf, wrcnt, torn, missed, cuts>>
    PROVE  /\ Places' /\ Counted' /\ Entered' \subseteq Entered
           /\ \A i \in 1..Len(s2c') : (i \in 1..Len(s2c) /\ s2c'[i] = s2c[i])
                                        \/ s2c'[i] = Reply(q, res)
  <1> DEFINE x == Reply(q, res)
  <1>0. /\ srv \in SUBSET Requests /\ s2c \in Seq(Replies) /\ sbuf \in Seq(Requests)
        /\ InStep \in BOOLEAN /\ missed \in BOOLEAN /\ wrcnt \in Nat /\ nextId \in Nat
        /\ Sound(sbuf, srv, s2c, wrcnt, nextId, InStep, missed) /\ (torn => missed)
    BY PlacesFacts
  <1>1. connected /\ ~lost /\ Len(sbuf) <= SBufCap
    BY DEF Counted, Places
  <1>2. q \in Requests
    BY <1>0
  <1>3. x \in Replies /\ x.id = q.id /\ x.res = res /\ Origin(x) = q
    BY <1>2 DEF Reply, Replies, Requests, Origin, Request
  <1> HIDE DEF x
  <1>4. s2c' = IF torn THEN s2c ELSE Append(s2c, x)
    BY DEF x, Sent
  <1>5. srv' \in SUBSET srv
    OBVIOUS
  <1>6. CASE torn
    <2>1. UNCHANGED s2c
      BY <1>4, <1>6
    <2>2. Places' /\ Counted' /\ Entered' \subseteq Entered
      <3>1. /\ torn' /\ missed' /\ torn' \in BOOLEAN /\ missed' \in BOOLEAN
            /\ wrcnt' \in Nat /\ (s2c' = s2c \/ s2c' = <<>>)
        BY <2>1, <1>0, <1>6 DEF Places
      <3> QED
        BY <3>1, <1>5, TornSound
    <2> QED
      BY <2>1, <2>2
  <1>7. CASE ~torn
    <2>a. s2c' = Append(s2c, x) /\ InStep' = InStep
      BY <1>4, <1>7 DEF InStep
    <2>1. /\ s2c' \in Seq(Replies) /\ Len(s2c') = Len(s2c) + 1 /\ Len(s2c) \in Nat
          /\ \A i \in 1..Len(s2c) : s2c'[i] = s2c[i]
          /\ s2c'[Len(s2c) + 1] = x
      BY <1>0, <1>3, <2>a, ReplyAppend
    <2>2. Sound(sbuf, srv', s2c', wrcnt, nextId, InStep, missed)
      <3>1. srv' = IF x.res = "chunk" THEN srv ELSE srv \ {q}
        BY <1>3
      <3> QED
        BY <3>1, <1>0, <1>3, <2>a, SoundReply
    <2>3. Entered' \subseteq Entered
      BY <1>0, <1>3, <1>5, <2>a, EntriesReply DEF Entered
    <2>4. Places'
      BY <1>0, <1>5, <2>1 DEF Places
    <2>5. Counted'
      BY <1>0, <1>1, <2>a, <2>2 DEF Counted
    <2>6. \A i \in 1..Len(s2c') : (i \in 1..Len(s2c) /\ s2c'[i] = s2c[i]) \/ s2c'[i] = x
      BY <2>1
    <2> QED
      BY <2>3, <2>4, <2>5, <2>6 DEF x
  <1> QED
    BY <1>6, <1>7

LEMMA AnswerSound ==
    ASSUME Places, Counted, ServerAnswer
    PROVE  /\ Places' /\ Counted' /\ missed' = missed /\ Entered' \subseteq Entered
           /\ \E q \in srv, res \in {"ok", "error"} :
                 /\ res = "error" => q.kind \in Reject /\ UNCHANGED srvAuth
                 /\ res = "ok" => srvAuth' = (srvAuth \/ q.kind = "auth")
                 /\ \A i \in 1..Len(s2c') : (i \in 1..Len(s2c) /\ s2c'[i] = s2c[i])
                                              \/ s2c'[i] = Reply(q, res)
  <1>1. PICK q \in srv, res \in {"ok", "error"} :
            /\ srv' = srv \ {q}
            /\ Sent(Reply(q, res))
            /\ res = "error" => q.kind \in Reject /\ UNCHANGED srvAuth
            /\ res = "ok" => srvAuth' = (srvAuth \/ q.kind = "auth")
    BY DEF ServerAnswer
  <1>2. UNCHANGED <<connected, lost, nextId, sbuf, wrcnt, torn, missed, cuts>>
    BY DEF ServerAnswer, cliVars, histVars
  <1>3. res \in {"ok", "error", "chunk"} /\ srv' = IF res = "chunk" THEN srv ELSE srv \ {q}
    BY <1>1
  <1>4. /\ Places' /\ Counted' /\ Entered' \subseteq Entered
        /\ \A i \in 1..Len(s2c') : (i \in 1..Len(s2c) /\ s2c'[i] = s2c[i])
                                     \/ s2c'[i] = Reply(q, res)
    BY <1>1, <1>2, <1>3, ReplySound
  <1> QED
    BY <1>1, <1>2, <1>4

LEMMA PushSound ==
    ASSUME Places, Counted, ServerPush
    PROVE  /\ Places' /\ Counted' /\ missed' = missed /\ Entered' \subseteq Entered
           /\ \E q \in srv :
                 /\ q.kind = "user"
                 /\ \A i \in 1..Len(s2c') : (i \in 1..Len(s2c) /\ s2c'[i] = s2c[i])
                                              \/ s2c'[i] = Reply(q, "chunk")
  <1>1. PICK q \in srv : q.kind = "user" /\ Sent(Reply(q, "chunk"))
    BY DEF ServerPush
  <1>2. UNCHANGED <<connected, lost, nextId, sbuf, wrcnt, torn, missed, cuts, srv>>
    BY DEF ServerPush, cliVars, histVars
  <1>3. "chunk" \in {"ok", "error", "chunk"}
    OBVIOUS
  <1>4. /\ Places' /\ Counted' /\ Entered' \subseteq Entered
        /\ \A i \in 1..Len(s2c') : (i \in 1..Len(s2c) /\ s2c'[i] = s2c[i])
                                     \/ s2c'[i] = Reply(q, "chunk")
    BY <1>1, <1>2, <1>3, ReplySound
  <1> QED
    BY <1>1, <1>2, <1>4

LEMMA NetLostSound ==
    ASSUME Places, Counted, NetLost
    PROVE  Places' /\ Counted' /\ missed' = missed /\ Entered' \subseteq Entered
  <1>1. /\ connected /\ ~lost /\ lost' = TRUE /\ srv' = {} /\ (s2c' = s2c \/ s2c' = <<>>)
        /\ UNCHANGED <<connected, wrcnt, sbuf, nextId, torn, missed, cuts>>
    BY DEF NetLost, cliVars, histVars
  <1> DEFINE up == InStep'
             s1 == srv'
             r1 == s2c'
  <1>2. /\ srv \in SUBSET Requests /\ s2c \in Seq(Replies) /\ sbuf \in Seq(Requests)
        /\ InStep \in BOOLEAN /\ missed \in BOOLEAN /\ wrcnt \in Nat /\ nextId \in Nat
        /\ Sound(sbuf, srv, s2c, wrcnt, nextId, InStep, missed) /\ (torn => missed)
    BY PlacesFacts
  <1>3. up \in BOOLEAN /\ ~up /\ (s1 = srv \/ s1 = {}) /\ (r1 = s2c \/ r1 = <<>>)
    BY <1>1 DEF InStep
  <1>4. Sound(sbuf, s1, r1, wrcnt, nextId, up, missed)
    <2> HIDE DEF up, s1, r1
    <2> QED
      BY <1>2, <1>3, SoundLose
  <1>5. <<>> \in Seq(Replies)
    BY EmptySeq
  <1>6. Places'
    BY <1>1, <1>2, <1>5 DEF Places
  <1>7. Counted'
    BY <1>1, <1>2, <1>4 DEF Counted
  <1>8. Entries(sbuf, s1, r1) \subseteq Entries(sbuf, srv, s2c)
    <2>1. s1 \in SUBSET srv
      BY <1>1
    <2> HIDE DEF s1, r1
    <2> QED
      BY <2>1, <1>3, EntriesLose
  <1> QED
    BY <1>1, <1>6, <1>7, <1>8 DEF Entered

\* Nothing counted means nothing in hand, until a read or a send failed.
LEMMA SoundZero ==
    ASSUME NEW b \in Seq(Requests), NEW s \in SUBSET Requests, NEW r \in Seq(Replies),
           NEW n \in Nat, NEW live \in BOOLEAN, Sound(b, s, r, 0, n, live, FALSE)
    PROVE  Entries(b, s, r) = {} /\ Len(b) = 0
  <1>1. Known(b, s, r) \subseteq 1..n /\ Cardinality(Known(b, s, r)) <= 0
    BY DEF Sound
  <1>2. IsFiniteSet(Known(b, s, r)) /\ Cardinality(Known(b, s, r)) \in Nat
    BY <1>1, Sizes
  <1>3. Cardinality(Known(b, s, r)) = 0
    BY <1>1, <1>2
  <1>4. Known(b, s, r) = {}
    BY <1>2, <1>3, FS_EmptySet
  <1>5. Entries(b, s, r) = {}
    BY <1>4, EntryFacts
  <1>6. Len(b) = 0
    <2>1. Len(b) \in Nat
      BY LenProperties
    <2>2. ASSUME Len(b) # 0 PROVE FALSE
      <3>1. 1 \in 1..Len(b)
        BY <2>1, <2>2
      <3> QED
        BY <3>1, <1>4 DEF Known, BufIds
    <2> QED
      BY <2>2
  <1> QED
    BY <1>5, <1>6

LEMMA NothingInHand ==
    ASSUME Places, Counted, ~missed, wrcnt = 0
    PROVE  Entered = {} /\ Len(sbuf) = 0
  <1>1. /\ srv \in SUBSET Requests /\ s2c \in Seq(Replies) /\ sbuf \in Seq(Requests)
        /\ nextId \in Nat /\ InStep \in BOOLEAN /\ missed = FALSE
    BY DEF Places, InStep
  <1>2. Sound(sbuf, srv, s2c, 0, nextId, InStep, FALSE)
    BY <1>1 DEF Counted
  <1> QED
    BY <1>1, <1>2, SoundZero, Zenon DEF Entered

LEMMA NothingLeft ==
    ASSUME Places', Counted', ~missed', wrcnt' = 0
    PROVE  Entered' = {}
  <1>1. /\ srv' \in SUBSET Requests /\ s2c' \in Seq(Replies) /\ sbuf' \in Seq(Requests)
        /\ nextId' \in Nat /\ InStep' \in BOOLEAN /\ missed' = FALSE
    BY DEF Places, InStep
  <1>2. Sound(sbuf', srv', s2c', 0, nextId', InStep', FALSE)
    BY <1>1 DEF Counted
  <1> QED
    BY <1>1, <1>2, SoundZero, Zenon DEF Entered

\* tnt_authenticate's request.
LEMMA AuthSound ==
    ASSUME Places, Counted, reqid \in Nat, wrcnt = 0, GreetingLogin
    PROVE  /\ Places' /\ Counted' /\ (missed => missed') /\ wrcnt' <= 1
           /\ Entered' \subseteq Entered \cup {Request(nextId + 1, "auth", reqid)}
           /\ ~missed' /\ AuthFits /\ SBufCap > 0 => wrcnt' = 1
  <1> DEFINE q == Request(nextId + 1, "auth", reqid)
  <1>0. nextId \in Nat /\ missed \in BOOLEAN
    BY DEF Places
  <1>1. q \in Requests /\ q.id = nextId + 1
    BY <1>0 DEF Request, Requests, Kinds
  <1>2. /\ nextId' = nextId + 1 /\ UNCHANGED <<connected, lost, s2c, torn>>
        /\ IF AuthFits THEN Write(q) ELSE UNCHANGED <<wrcnt, sbuf, srv, missed, cuts>>
    BY DEF GreetingLogin
  <1> HIDE DEF q
  <1>3. CASE AuthFits
    <2>1. /\ Places' /\ Counted' /\ (missed => missed')
          /\ Entered' \subseteq Entered \cup {q} /\ wrcnt' <= wrcnt + 1
          /\ Len(sbuf) < SBufCap => wrcnt' = wrcnt + 1
      BY <1>1, <1>2, <1>3, WriteSound
    <2>2. wrcnt' <= 1
      BY <2>1
    <2>3. ASSUME ~missed', SBufCap > 0 PROVE wrcnt' = 1
      <3>1. ~missed
        BY <2>1, <2>3, <1>0
      <3>2. Len(sbuf) = 0
        BY <3>1, NothingInHand
      <3> QED
        BY <3>2, <2>1, <2>3
    <2> QED
      BY <2>1, <2>2, <2>3 DEF q
  <1>4. CASE ~AuthFits
    <2>1. UNCHANGED <<wrcnt, sbuf, srv, missed, cuts>> /\ InStep' = InStep
      BY <1>2, <1>4 DEF InStep
    <2>2. Sound(sbuf, srv, s2c, wrcnt, nextId + 1, InStep, missed)
      <3>1. nextId + 1 \in Nat /\ nextId + 1 >= nextId
        BY <1>0
      <3> QED
        BY <3>1, PlacesFacts, SoundSkip
    <2>3. Places' /\ Counted'
      <3>1. nextId' \in Nat
        BY <1>0, <1>2
      <3> QED
        BY <3>1, <2>1, <2>2, <1>2 DEF Places, Counted
    <2>4. Entered' = Entered
      BY <2>1, <1>2 DEF Entered
    <2> QED
      BY <2>1, <2>3, <2>4, <1>4
  <1> QED
    BY <1>3, <1>4

\* The two selects of tnt_reload_schema.
SpaceSelect == Request(nextId + 1, "space", SchemaSync)
IndexSelect == Request(nextId + 1, "index", SchemaSync + 1)

LEMMA SelectFacts ==
    ASSUME Places
    PROVE  /\ SpaceSelect \in Requests /\ SpaceSelect.id = nextId + 1
           /\ SpaceSelect.kind = "space" /\ SpaceSelect.sync = SchemaSync
           /\ IndexSelect \in Requests /\ IndexSelect.id = nextId + 1
           /\ IndexSelect.kind = "index" /\ IndexSelect.sync = SchemaSync + 1
  <1>1. nextId \in Nat /\ SchemaSync \in Nat
    BY NetAssumption DEF Places
  <1> QED
    BY <1>1 DEF Request, Requests, Kinds, SpaceSelect, IndexSelect

LEMMA SpacesSound ==
    ASSUME Places, Counted, NEW who, ReloadSpaces(who), UNCHANGED <<connected, lost, s2c, torn>>
    PROVE  /\ Places' /\ Counted' /\ (missed => missed')
           /\ Entered' \subseteq Entered \cup {SpaceSelect}
  <1>1. Write(SpaceSelect) /\ nextId' = nextId + 1
    BY DEF ReloadSpaces, SpaceSelect
  <1> QED
    BY <1>1, SelectFacts, WriteSound

LEMMA IndexesSound ==
    ASSUME Places, Counted, ReloadIndexes
    PROVE  /\ Places' /\ Counted' /\ (missed => missed')
           /\ Entered' \subseteq Entered \cup {IndexSelect}
  <1>1. Write(IndexSelect) /\ nextId' = nextId + 1 /\ UNCHANGED <<connected, lost, s2c, torn>>
    BY DEF ReloadIndexes, IndexSelect
  <1> QED
    BY <1>1, SelectFacts, WriteSound

-----------------------------------------------------------------------------
(* Type correctness, and the count. *)

\* The variables that the operations on the three places leave alone.
Rest ==
    /\ login \in BOOLEAN /\ srvAuth \in BOOLEAN /\ bkp \in BOOLEAN
    /\ reqid \in Nat /\ conns \in Nat /\ chunks \in Nat /\ sloaded \in Nat
    /\ pc \in {"idle", "greet", "authflush", "auth", "loading", "select", "flush", "schema",
               "reply"}
    /\ caller \in {"connect", "user"}
    /\ fresh \subseteq {"space", "index"}
    /\ ret \in {"none", "ok", "fail"} /\ reloadRet \in {"none", "ok", "fail"}
    /\ got \in Kinds \cup {"none"}

LEMMA TypeParts == TypeOK <=> Places /\ Rest
  BY DEF TypeOK, Places, Rest

LEMMA ReplyInRange ==
    ASSUME Places
    PROVE  \A r \in Range(s2c) : r \in Replies
  <1>1. s2c \in Seq(Replies)
    BY DEF Places
  <1>2. Range(s2c) \subseteq Replies
    BY <1>1, RangeOfSeq
  <1> QED
    BY <1>2

LEMMA RestStep ==
    ASSUME Places, Rest, [Next]_vars
    PROVE  Rest'
  <1> USE DEF Rest
  <1>0. Logins \subseteq BOOLEAN
    BY NetAssumption
  <1>1. CASE Close
    BY <1>1 DEF Close, ClearStream, CloseSocket
  <1>2. CASE ConnectOpen
    <2>1. /\ login' \in BOOLEAN /\ srvAuth' = FALSE /\ pc' = "greet" /\ ret' = "none"
          /\ UNCHANGED <<caller, sloaded, bkp, chunks>>
      BY <1>0, <1>2 DEF ConnectOpen, CloseSocket
    <2>2. conns' \in Nat
      BY <1>2 DEF ConnectOpen
    <2>3. \/ reqid' = 0 /\ reloadRet' = "none" /\ fresh' = {} /\ got' = "none"
          \/ UNCHANGED <<reqid, reloadRet, fresh, got>>
      BY <1>2 DEF ConnectOpen, ClearStream
    <2>4. /\ reqid' \in Nat /\ reloadRet' \in {"none", "ok", "fail"}
          /\ fresh' \subseteq {"space", "index"} /\ got' \in Kinds \cup {"none"}
      <3>1. CASE reqid' = 0 /\ reloadRet' = "none" /\ fresh' = {} /\ got' = "none"
        BY <3>1
      <3>2. CASE UNCHANGED <<reqid, reloadRet, fresh, got>>
        BY <3>2
      <3> QED
        BY <3>1, <3>2, <2>3
    <2> QED
      BY <2>1, <2>2, <2>4
  <1>3. CASE ConnectError
    <2>1. /\ srvAuth' = FALSE /\ ret' = "fail"
          /\ UNCHANGED <<login, pc, caller, sloaded, bkp, chunks, conns>>
      BY <1>3 DEF ConnectError, CloseSocket
    <2>2. \/ reqid' = 0 /\ reloadRet' = "none" /\ fresh' = {} /\ got' = "none"
          \/ UNCHANGED <<reqid, reloadRet, fresh, got>>
      BY <1>3 DEF ConnectError, ClearStream
    <2>3. /\ reqid' \in Nat /\ reloadRet' \in {"none", "ok", "fail"}
          /\ fresh' \subseteq {"space", "index"} /\ got' \in Kinds \cup {"none"}
      <3>1. CASE reqid' = 0 /\ reloadRet' = "none" /\ fresh' = {} /\ got' = "none"
        BY <3>1
      <3>2. CASE UNCHANGED <<reqid, reloadRet, fresh, got>>
        BY <3>2
      <3> QED
        BY <3>1, <3>2, <2>2
    <2> QED
      BY <2>1, <2>3
  <1>4. CASE GreetingNoLogin
    BY <1>4 DEF GreetingNoLogin, loadVars, srvVars
  <1>5. CASE GreetingLogin
    <2>1. UNCHANGED <<login, srvAuth, bkp, conns, chunks, sloaded, caller, fresh, reloadRet, got>>
      BY <1>5 DEF GreetingLogin, loadVars
    <2>2. reqid' \in Nat /\ pc' \in {"idle", "authflush"} /\ ret' \in {"fail", ret}
      BY <1>5 DEF GreetingLogin
    <2> QED
      BY <2>1, <2>2
  <1>6. CASE GreetingError
    BY <1>6 DEF GreetingError, loadVars, srvVars
  <1>7. CASE AuthAccepted
    BY <1>7 DEF AuthAccepted, loadVars, srvVars, histVars
  <1>8. CASE AuthRejected
    BY <1>8 DEF AuthRejected, loadVars, srvVars
  <1>9. CASE ConnectReload
    <2>1. UNCHANGED <<login, reqid, srvAuth, chunks, conns, got>>
      BY <1>9 DEF ConnectReload
    <2>2. CASE ReloadRefused
      BY <2>1, <2>2, <1>9 DEF ConnectReload
    <2>3. CASE ~ReloadRefused
      <3>1. /\ pc' = "select" /\ caller' = "connect" /\ ret' = ret /\ reloadRet' = "none"
            /\ sloaded' = 0 /\ bkp' = FALSE /\ fresh' = {}
        BY <2>3, <1>9 DEF ConnectReload, ReloadSpaces
      <3> QED
        BY <3>1, <2>1
    <2> QED
      BY <2>2, <2>3
  <1>10. CASE SchemaReply
    <2>1. UNCHANGED <<login, reqid, srvAuth, chunks, conns, got>>
      BY <1>10 DEF SchemaReply, srvVars
    <2>2. /\ fresh' \in {fresh, AddSpaces(fresh), AddIndexes(fresh)}
          /\ sloaded' \in {sloaded, sloaded + 1, sloaded + 2, 0}
          /\ bkp' \in {bkp, TRUE, FALSE} /\ pc' \in {pc, "idle"} /\ caller' \in {caller, "user"}
          /\ ret' \in {ret, "ok"} /\ reloadRet' \in {reloadRet, "fail"}
      BY <1>10 DEF SchemaReply, ReloadReturn
    <2>3. fresh' \subseteq {"space", "index"}
      BY <2>2 DEF AddSpaces, AddIndexes
    <2>4. sloaded' \in Nat
      BY <2>2
    <2>5. bkp' \in BOOLEAN
      BY <2>2
    <2>6. /\ pc' \in {"idle", "greet", "authflush", "auth", "loading", "select", "flush",
                     "schema", "reply"}
          /\ caller' \in {"connect", "user"} /\ ret' \in {"none", "ok", "fail"}
          /\ reloadRet' \in {"none", "ok", "fail"}
      BY <2>2
    <2> QED
      BY <2>1, <2>3, <2>4, <2>5, <2>6
  <1>11. CASE SchemaEnd
    <2>1. UNCHANGED <<login, reqid, srvAuth, chunks, conns, got>>
      BY <1>11 DEF SchemaEnd, srvVars
    <2>2. /\ fresh' \in {fresh, AddIndexes(fresh)}
          /\ sloaded' = 0 /\ bkp' = FALSE /\ pc' = "idle" /\ caller' = "user"
          /\ ret' \in {ret, "ok"} /\ reloadRet' \in {"ok", "fail"}
      BY <1>11 DEF SchemaEnd, ReloadReturn
    <2> QED
      BY <2>1, <2>2 DEF AddIndexes
  <1>12. CASE ReplyArrives
    <2>1. PICK r \in Range(s2c) \cup Garbled : got' = r.kind
      BY <1>12 DEF ReplyArrives
    <2>2. got' \in Kinds
      BY <2>1, ReplyInRange DEF Replies, Garbled, Kinds
    <2> QED
      BY <2>2, <1>12 DEF ReplyArrives, loadVars, srvVars
  <1>13. CASE ReplyNone
    BY <1>13 DEF ReplyNone, loadVars, srvVars, histVars
  <1>14. CASE UserRequest
    BY <1>14 DEF UserRequest, loadVars
  <1>15. CASE Flush
    BY <1>15 DEF Flush, cliVars, loadVars, histVars
  <1>16. CASE ReadReply
    BY <1>16 DEF ReadReply, loadVars, srvVars, histVars
  <1>17. CASE UserReload
    <2>1. UNCHANGED <<login, reqid, srvAuth, chunks, conns, got, ret>>
      BY <1>17 DEF UserReload
    <2>2. CASE ReloadRefused
      BY <2>1, <2>2, <1>17 DEF UserReload
    <2>3. CASE ~ReloadRefused
      <3>1. /\ pc' = "select" /\ caller' = "user" /\ reloadRet' = "none"
            /\ sloaded' = 0 /\ bkp' = FALSE /\ fresh' = {}
        BY <2>3, <1>17 DEF UserReload, ReloadSpaces
      <3> QED
        BY <3>1, <2>1
    <2> QED
      BY <2>2, <2>3
  <1>18. CASE ServerAnswer
    <2>1. UNCHANGED <<cliVars, loadVars, chunks, histVars>>
      BY <1>18 DEF ServerAnswer
    <2>2. srvAuth' \in BOOLEAN
      BY <1>18 DEF ServerAnswer
    <2> QED
      BY <2>1, <2>2 DEF cliVars, loadVars, histVars
  <1>19. CASE ServerPush
    BY <1>19 DEF ServerPush, cliVars, loadVars, histVars
  <1>20. CASE NetLost
    BY <1>20 DEF NetLost, cliVars, loadVars, histVars
  <1>21. CASE AuthFlush \/ ReloadIndexes \/ ReloadFlush
    BY <1>21 DEF AuthFlush, ReloadIndexes, ReloadFlush, loadVars, histVars
  <1>22. CASE UNCHANGED vars
    BY <1>22 DEF vars, cliVars, loadVars, srvVars, histVars
  <1> QED
    BY <1>1, <1>2, <1>3, <1>4, <1>5, <1>6, <1>7, <1>8, <1>9, <1>10, <1>11, <1>12, <1>13,
       <1>14, <1>15, <1>16, <1>17, <1>18, <1>19, <1>20, <1>21, <1>22 DEF Next, CallStep

\* No request appears in the three places but the one a call writes.
Moved ==
    \/ Entered' \subseteq Entered
    \/ Entered' \subseteq Entered \cup {Request(nextId + 1, "user", reqid)}
    \/ Entered' \subseteq Entered \cup {Request(nextId + 1, "auth", reqid)}
    \/ Entered' \subseteq Entered \cup {SpaceSelect}
    \/ Entered' \subseteq Entered \cup {IndexSelect}

LEMMA PlacesStep ==
    ASSUME Places, Rest, Counted, [Next]_vars
    PROVE  Places' /\ Counted' /\ Moved
  <1>0. /\ connected \in BOOLEAN /\ lost \in BOOLEAN /\ reqid \in Nat
    BY DEF Places, Rest
  <1> USE DEF Moved
  <1>1. CASE Close
    BY <1>0, <1>1, ClearSound DEF Close
  <1>2. CASE ConnectOpen
    <2>1. CASE connected
      BY <2>1, <1>2, ClearSound DEF ConnectOpen
    <2>2. CASE ~connected
      BY <2>2, <1>2, ReopenSound DEF ConnectOpen
    <2> QED
      BY <2>1, <2>2
  <1>3. CASE ConnectError
    <2>1. CASE connected
      BY <2>1, <1>0, <1>3, ClearSound DEF ConnectError
    <2>2. CASE ~connected
      BY <2>2, <1>0, <1>3, ReopenSound DEF ConnectError
    <2> QED
      BY <2>1, <2>2
  <1>4. CASE GreetingNoLogin
    BY <1>4, QuietSound DEF GreetingNoLogin, srvVars
  <1>5. CASE GreetingLogin
    <2>1. UNCHANGED <<connected, lost, s2c, torn>>
      BY <1>5 DEF GreetingLogin
    <2>2. CASE wrcnt # 0
      BY <2>1, <2>2, <1>5, QuietSound DEF GreetingLogin
    <2>3. CASE wrcnt = 0
      BY <2>3, <1>0, <1>5, AuthSound
    <2> QED
      BY <2>2, <2>3
  <1>6. CASE GreetingError
    <2>1. /\ torn' /\ missed' /\ torn' \in BOOLEAN /\ missed' \in BOOLEAN
          /\ UNCHANGED <<connected, lost, nextId, sbuf, cuts>>
          /\ srv' \in SUBSET srv /\ s2c' = s2c /\ wrcnt' \in Nat
      BY <1>6 DEF GreetingError, srvVars, Places
    <2> QED
      BY <2>1, TornSound
  <1>7. CASE AuthAccepted
    <2>1. UNCHANGED <<connected, lost, nextId, sbuf, srv>>
      BY <1>7 DEF AuthAccepted, srvVars, histVars
    <2>2. CASE NothingOutstanding
      BY <2>1, <2>2, QuietSound DEF NothingOutstanding
    <2>3. CASE \E r : Read(r)
      BY <2>1, <2>3, ReadSound
    <2> QED
      BY <2>2, <2>3, <1>7 DEF AuthAccepted
  <1>8. CASE AuthRejected
    <2>1. UNCHANGED <<connected, lost, nextId, sbuf, srv>>
      BY <1>8 DEF AuthRejected, srvVars
    <2>2. CASE ReadFails
      BY <2>1, <2>2, ReadFailsSound
    <2>3. CASE \E r : Read(r)
      BY <2>1, <2>3, ReadSound
    <2> QED
      BY <2>2, <2>3, <1>8 DEF AuthRejected
  <1>9. CASE ConnectReload
    <2>1. UNCHANGED <<connected, lost, s2c, torn>>
      BY <1>9 DEF ConnectReload
    <2>2. CASE ReloadRefused
      BY <2>1, <2>2, <1>9, QuietSound DEF ConnectReload
    <2>3. CASE ~ReloadRefused
      BY <2>1, <2>3, <1>9, SpacesSound DEF ConnectReload
    <2> QED
      BY <2>2, <2>3
  <1>10. CASE SchemaReply
    <2>1. UNCHANGED <<connected, lost, nextId, sbuf, srv>>
      BY <1>10 DEF SchemaReply, srvVars
    <2>2. \E r : Read(r)
      BY <1>10 DEF SchemaReply
    <2> QED
      BY <2>1, <2>2, ReadSound
  <1>11. CASE SchemaEnd
    <2>1. UNCHANGED <<connected, lost, nextId, sbuf, srv>>
      BY <1>11 DEF SchemaEnd, srvVars
    <2>2. CASE NothingOutstanding
      BY <2>1, <2>2, QuietSound DEF NothingOutstanding
    <2>3. CASE ReadFails
      BY <2>1, <2>3, ReadFailsSound
    <2> QED
      BY <2>2, <2>3, <1>11 DEF SchemaEnd
  <1>12. CASE ReplyArrives
    <2>1. UNCHANGED <<connected, lost, nextId, sbuf, srv>>
      BY <1>12 DEF ReplyArrives, srvVars
    <2>2. \E r : Read(r)
      BY <1>12 DEF ReplyArrives
    <2> QED
      BY <2>1, <2>2, ReadSound
  <1>13. CASE ReplyNone
    <2>1. UNCHANGED <<connected, lost, nextId, sbuf, srv>>
      BY <1>13 DEF ReplyNone, srvVars, histVars
    <2>2. CASE NothingOutstanding
      BY <2>1, <2>2, QuietSound DEF NothingOutstanding
    <2>3. CASE ReadFails
      BY <2>1, <2>3, ReadFailsSound
    <2> QED
      BY <2>2, <2>3, <1>13 DEF ReplyNone
  <1>14. CASE UserRequest
    BY <1>0, <1>14, UserRequestSound
  <1>15. CASE Flush
    BY <1>15, FlushSound
  <1>16. CASE ReadReply
    BY <1>16, QuietSound DEF ReadReply, srvVars, histVars
  <1>17. CASE UserReload
    <2>1. UNCHANGED <<connected, lost, s2c, torn>>
      BY <1>17 DEF UserReload
    <2>2. CASE ReloadRefused
      BY <2>1, <2>2, <1>17, QuietSound DEF UserReload
    <2>3. CASE ~ReloadRefused
      BY <2>1, <2>3, <1>17, SpacesSound DEF UserReload
    <2> QED
      BY <2>2, <2>3
  <1>18. CASE ServerAnswer
    BY <1>18, AnswerSound
  <1>19. CASE ServerPush
    BY <1>19, PushSound
  <1>20. CASE NetLost
    BY <1>20, NetLostSound
  <1>21. CASE AuthFlush \/ ReloadFlush
    BY <1>21, FlushSound
  <1>22. CASE ReloadIndexes
    BY <1>22, IndexesSound
  <1>23. CASE UNCHANGED vars
    BY <1>23, QuietSound DEF vars, cliVars, srvVars, histVars
  <1> QED
    BY <1>1, <1>2, <1>3, <1>4, <1>5, <1>6, <1>7, <1>8, <1>9, <1>10, <1>11, <1>12, <1>13,
       <1>14, <1>15, <1>16, <1>17, <1>18, <1>19, <1>20, <1>21, <1>22, <1>23 DEF Next, CallStep

\* The inductive invariant.
NetInv == TypeOK /\ Counted

LEMMA NetInvInit == Init => NetInv
  <1> SUFFICES ASSUME Init PROVE NetInv
    OBVIOUS
  <1>1. <<>> \in Seq(Requests) /\ <<>> \in Seq(Replies) /\ Len(<<>>) = 0
    BY EmptySeq
  <1>2. SBufCap \in Nat
    BY NetAssumption
  <1>3. Places
    BY <1>1 DEF Init, Places
  <1>4. Rest
    BY DEF Init, Rest
  <1>5. Sound(<<>>, {}, <<>>, 0, 0, TRUE, FALSE)
    BY SoundClear
  <1>6. /\ sbuf = <<>> /\ srv = {} /\ s2c = <<>> /\ wrcnt = 0 /\ nextId = 0
        /\ connected = FALSE /\ lost = FALSE /\ torn = FALSE /\ missed = FALSE
    BY DEF Init
  <1>7. InStep = TRUE
    BY <1>6 DEF InStep
  <1>8. Sound(sbuf, srv, s2c, wrcnt, nextId, InStep, missed)
    BY <1>5, <1>6, <1>7
  <1> QED
    BY <1>1, <1>2, <1>3, <1>4, <1>6, <1>8, TypeParts DEF Counted, NetInv

LEMMA NetInvStep == NetInv /\ [Next]_vars => NetInv'
  <1> SUFFICES ASSUME NetInv, [Next]_vars PROVE NetInv'
    OBVIOUS
  <1>1. Places /\ Rest /\ Counted
    BY TypeParts DEF NetInv
  <1>2. Places' /\ Counted' /\ Rest'
    BY <1>1, RestStep, PlacesStep
  <1>3. TypeOK'
    BY <1>2 DEF TypeOK, Places, Rest
  <1> QED
    BY <1>2, <1>3 DEF NetInv

\* In every reachable state the stream counts no request beyond those a final
\* reply can come for while its reads are in step (a read that fails inside a
\* message, or a greeting that is not read whole, ends that), and until a read or
\* a send fails it counts them all and each is in one place.
THEOREM NetInvTheorem == Spec => []NetInv
  BY NetInvInit, NetInvStep, PTL DEF Spec

\* Every variable of the stream, the network and the server keeps its type;
\* in particular s->wrcnt never falls below zero.
THEOREM TypeCorrect == Spec => []TypeOK
  BY NetInvTheorem, PTL DEF NetInv

\* Numbering what is in a finite set.
LEMMA ImageFacts ==
    ASSUME NEW S, IsFiniteSet(S), NEW T, NEW f \in [S -> T], \A t \in T : \E x \in S : f[x] = t
    PROVE  /\ IsFiniteSet(T) /\ Cardinality(T) \in Nat /\ Cardinality(S) \in Nat
           /\ Cardinality(T) <= Cardinality(S)
  <1>1. f \in Surjection(S, T)
    BY Fun_IsSurj
  <1>2. /\ IsFiniteSet(T)
        /\ Cardinality(T) <= Cardinality(S)
    BY <1>1, FS_Surjection
  <1>3. Cardinality(T) \in Nat /\ Cardinality(S) \in Nat
    BY <1>2, FS_CardinalityType
  <1> QED
    BY <1>2, <1>3

LEMMA ImageSize ==
    ASSUME NEW S, IsFiniteSet(S), NEW T, NEW f \in [S -> T], \A t \in T : \E x \in S : f[x] = t,
           \A x, y \in S : f[x] = f[y] => x = y
    PROVE  Cardinality(T) = Cardinality(S)
  <1>1. f \in Surjection(S, T)
    BY Fun_IsSurj
  <1>2. f \in Injection(S, T)
    BY Fun_IsInj
  <1> QED
    BY <1>1, <1>2, FS_Surjection

\* The ids a final reply can come for, against the places they are in.
LEMMA DueCount ==
    ASSUME NEW b \in Seq(Requests), NEW s \in SUBSET Requests, NEW r \in Seq(Replies),
           IsFiniteSet(s)
    PROVE  /\ Cardinality(Due(b, s, r)) \in Nat
           /\ Len(b) + Cardinality(s) + Cardinality(FinalOf(r)) \in Nat
           /\ Cardinality(Due(b, s, r)) <= Len(b) + Cardinality(s) + Cardinality(FinalOf(r))
           /\ Apart(b, s, r) =>
                 Cardinality(Due(b, s, r)) = Len(b) + Cardinality(s) + Cardinality(FinalOf(r))
  <1>1. Len(b) \in Nat /\ Len(r) \in Nat
    BY LenProperties
  <1>2. /\ IsFiniteSet(1..Len(b)) /\ Cardinality(1..Len(b)) = Len(b)
        /\ IsFiniteSet(1..Len(r))
    <2>1. 1 \in Int /\ Len(b) \in Int /\ Len(r) \in Int
      BY <1>1
    <2>2. /\ IsFiniteSet(1..Len(b)) /\ IsFiniteSet(1..Len(r))
          /\ Cardinality(1..Len(b)) = IF 1 > Len(b) THEN 0 ELSE Len(b) - 1 + 1
      BY <2>1, FS_Interval
    <2> QED
      BY <2>2, <1>1
  <1>3. IsFiniteSet(FinalOf(r))
    <2>1. FinalOf(r) \in SUBSET (1..Len(r))
      BY DEF FinalOf
    <2> QED
      BY <2>1, <1>2, FS_Subset
  <1> DEFINE B == BufIds(b)
             S == SrvIds(s)
             F == FinalIds(r)
  <1>4. /\ IsFiniteSet(B) /\ Cardinality(B) \in Nat /\ Cardinality(B) <= Len(b)
        /\ Apart(b, s, r) => Cardinality(B) = Len(b)
    <2> DEFINE f == [i \in 1..Len(b) |-> b[i].id]
    <2>1. f \in [1..Len(b) -> B] /\ \A t \in B : \E x \in 1..Len(b) : f[x] = t
      BY DEF BufIds
    <2>2. Apart(b, s, r) => \A x, y \in 1..Len(b) : f[x] = f[y] => x = y
      BY DEF Apart
    <2> HIDE DEF f, B
    <2>3. Apart(b, s, r) => Cardinality(B) = Len(b)
      BY <2>1, <2>2, <1>2, ImageSize
    <2>4. /\ IsFiniteSet(B) /\ Cardinality(B) \in Nat
          /\ Cardinality(B) <= Cardinality(1..Len(b))
      BY <2>1, <1>2, ImageFacts
    <2> QED
      BY <2>3, <2>4, <1>2
  <1>5. /\ IsFiniteSet(S) /\ Cardinality(S) \in Nat /\ Cardinality(S) <= Cardinality(s)
        /\ Cardinality(s) \in Nat
        /\ Apart(b, s, r) => Cardinality(S) = Cardinality(s)
    <2> DEFINE f == [q \in s |-> q.id]
    <2>1. f \in [s -> S] /\ \A t \in S : \E x \in s : f[x] = t
      BY DEF SrvIds
    <2>2. Apart(b, s, r) => \A x, y \in s : f[x] = f[y] => x = y
      BY DEF Apart
    <2> HIDE DEF f, S
    <2>3. Apart(b, s, r) => Cardinality(S) = Cardinality(s)
      BY <2>1, <2>2, ImageSize
    <2> QED
      BY <2>1, <2>3, ImageFacts
  <1>6. /\ IsFiniteSet(F) /\ Cardinality(F) \in Nat /\ Cardinality(F) <= Cardinality(FinalOf(r))
        /\ Cardinality(FinalOf(r)) \in Nat
        /\ Apart(b, s, r) => Cardinality(F) = Cardinality(FinalOf(r))
    <2> DEFINE f == [i \in FinalOf(r) |-> r[i].id]
    <2>1. f \in [FinalOf(r) -> F] /\ \A t \in F : \E x \in FinalOf(r) : f[x] = t
      BY DEF FinalIds
    <2>2. ASSUME Apart(b, s, r), NEW x \in FinalOf(r), NEW y \in FinalOf(r), f[x] = f[y]
          PROVE  x = y
      <3>1. x \in 1..Len(r) /\ y \in 1..Len(r) /\ r[x].id = r[y].id
        BY <2>2 DEF FinalOf
      <3>2. ~(x < y) /\ ~(y < x)
        BY <3>1, <2>2 DEF Apart
      <3> QED
        BY <3>1, <3>2, <1>1
    <2> HIDE DEF f, F
    <2>3. Apart(b, s, r) => Cardinality(F) = Cardinality(FinalOf(r))
      BY <2>1, <2>2, <1>3, ImageSize
    <2>4. /\ IsFiniteSet(F) /\ Cardinality(F) \in Nat
          /\ Cardinality(FinalOf(r)) \in Nat
          /\ Cardinality(F) <= Cardinality(FinalOf(r))
      BY <2>1, <1>3, ImageFacts, ZenonT(60)
    <2> QED
      BY <2>3, <2>4
  <1>7. /\ IsFiniteSet(B \cup S) /\ Cardinality(B \cup S) \in Nat /\ Cardinality(B \cap S) \in Nat
        /\ Cardinality(B \cup S) = Cardinality(B) + Cardinality(S) - Cardinality(B \cap S)
        /\ Apart(b, s, r) => Cardinality(B \cap S) = 0
    <2>1. IsFiniteSet(B \cap S) /\ IsFiniteSet(B \cup S)
      BY <1>4, <1>5, FS_Intersection, FS_Union
    <2>2. Apart(b, s, r) => B \cap S = {}
      BY DEF Apart
    <2> HIDE DEF B, S
    <2> QED
      BY <2>1, <2>2, <1>4, <1>5, FS_CardinalityType, FS_EmptySet, FS_Union
  <1>8. /\ Cardinality(Due(b, s, r)) \in Nat /\ Cardinality((B \cup S) \cap F) \in Nat
        /\ Cardinality(Due(b, s, r)) =
              Cardinality(B \cup S) + Cardinality(F) - Cardinality((B \cup S) \cap F)
        /\ Apart(b, s, r) => Cardinality((B \cup S) \cap F) = 0
    <2>0. Due(b, s, r) = (B \cup S) \cup F
      BY DEF Due
    <2>1. IsFiniteSet((B \cup S) \cap F) /\ IsFiniteSet((B \cup S) \cup F)
      BY <1>6, <1>7, FS_Intersection, FS_Union
    <2>2. Apart(b, s, r) => (B \cup S) \cap F = {}
      <3>1. F \subseteq ReplyIds(r)
        BY DEF FinalIds, ReplyIds, FinalOf
      <3> QED
        BY <3>1 DEF Apart
    <2> HIDE DEF B, S, F
    <2> QED
      BY <2>0, <2>1, <2>2, <1>6, <1>7, FS_CardinalityType, FS_EmptySet, FS_Union
  <1> DEFINE nb == Cardinality(B)
             ns == Cardinality(S)
             nf == Cardinality(F)
             mb == Cardinality(B \cap S)
             mf == Cardinality((B \cup S) \cap F)
             d == Cardinality(Due(b, s, r))
             cs == Cardinality(s)
             cf == Cardinality(FinalOf(r))
  <1>9. /\ nb \in Nat /\ ns \in Nat /\ nf \in Nat /\ mb \in Nat /\ mf \in Nat /\ d \in Nat
        /\ cs \in Nat /\ cf \in Nat
        /\ nb <= Len(b) /\ ns <= cs /\ nf <= cf /\ d = (nb + ns - mb) + nf - mf
    BY <1>4, <1>5, <1>6, <1>7, <1>8
  <1>10. Apart(b, s, r) => nb = Len(b) /\ ns = cs /\ nf = cf /\ mb = 0 /\ mf = 0
    BY <1>4, <1>5, <1>6, <1>7, <1>8
  <1> HIDE DEF nb, ns, nf, mb, mf, d, cs, cf
  <1>11. d <= Len(b) + cs + cf /\ Len(b) + cs + cf \in Nat
    BY <1>1, <1>9
  <1>12. Apart(b, s, r) => d = Len(b) + cs + cf
    BY <1>1, <1>9, <1>10
  <1> QED
    BY <1>9, <1>11, <1>12 DEF d, cs, cf

\* On a live connection the count read_reply trusts never promises more replies
\* than can still come, whatever sends failed and whatever reads failed before
\* anything of their reply had come.  (A read that fails inside a reply tears the
\* stream, and nothing is claimed of what follows.)
THEOREM NeverOvercountsTheorem == Spec => []NeverOvercounts
  <1>1. NetInv => NeverOvercounts
    <2> SUFFICES ASSUME NetInv, ~lost, ~torn
                 PROVE  wrcnt <= Len(sbuf) + Cardinality(srv) + Cardinality(FinalOf(s2c))
      BY DEF NeverOvercounts, Final, FinalOf
    <2>1. /\ sbuf \in Seq(Requests) /\ srv \in SUBSET Requests /\ s2c \in Seq(Replies)
          /\ IsFiniteSet(srv)
      BY DEF NetInv, TypeOK, Counted, Sound
    <2>2. wrcnt \in Nat
      BY DEF NetInv, TypeOK
    <2>3. wrcnt <= Cardinality(Due(sbuf, srv, s2c))
      BY DEF NetInv, Counted, Sound, InStep
    <2>4. /\ Cardinality(Due(sbuf, srv, s2c)) \in Nat
          /\ Len(sbuf) + Cardinality(srv) + Cardinality(FinalOf(s2c)) \in Nat
          /\ Cardinality(Due(sbuf, srv, s2c))
                <= Len(sbuf) + Cardinality(srv) + Cardinality(FinalOf(s2c))
      BY <2>1, DueCount
    <2> QED
      BY <2>2, <2>3, <2>4
  <1> QED
    BY <1>1, NetInvTheorem, PTL

\* Until a read fails, a send fails halfway or the connection dies, the count is
\* the number of requests without a final reply, wherever each of them is.
THEOREM CountsOutstandingTheorem == Spec => []CountsOutstanding
  <1>1. NetInv => CountsOutstanding
    <2> SUFFICES ASSUME NetInv, ~missed, ~lost
                 PROVE  wrcnt = Len(sbuf) + Cardinality(srv) + Cardinality(FinalOf(s2c))
      BY DEF CountsOutstanding, Final, FinalOf
    <2>1. /\ sbuf \in Seq(Requests) /\ srv \in SUBSET Requests /\ s2c \in Seq(Replies)
          /\ IsFiniteSet(srv) /\ Apart(sbuf, srv, s2c)
          /\ Known(sbuf, srv, s2c) \subseteq 1..nextId /\ nextId \in Nat
      BY DEF NetInv, TypeOK, Counted, Sound
    <2>2. wrcnt \in Nat
      BY DEF NetInv, TypeOK
    <2>3. /\ wrcnt <= Cardinality(Due(sbuf, srv, s2c))
          /\ Cardinality(Known(sbuf, srv, s2c)) <= wrcnt
      BY DEF NetInv, Counted, Sound, InStep
    <2>4. Cardinality(Due(sbuf, srv, s2c)) =
              Len(sbuf) + Cardinality(srv) + Cardinality(FinalOf(s2c))
      BY <2>1, DueCount
    <2>5. /\ Cardinality(Due(sbuf, srv, s2c)) \in Nat
          /\ Cardinality(Known(sbuf, srv, s2c)) \in Nat
          /\ Cardinality(Due(sbuf, srv, s2c)) <= Cardinality(Known(sbuf, srv, s2c))
      BY <2>1, Sizes
    <2>6. wrcnt = Cardinality(Due(sbuf, srv, s2c))
      BY <2>2, <2>3, <2>5
    <2> QED
      BY <2>4, <2>6
  <1> QED
    BY <1>1, NetInvTheorem, PTL

-----------------------------------------------------------------------------
(***************************************************************************)
(* Whose reply a call reads, and what a schema load and a tnt_connect that *)
(* report success have done.                                               *)
(*                                                                         *)
(* Until a read or a send fails, what is in hand (Entered) is known in     *)
(* every phase of a call: only AUTH while tnt_authenticate waits, nothing  *)
(* before the selects are written, only the two selects during the load.   *)
(***************************************************************************)

(* The inductive invariants. *)

\* What a reply on its way says of the server.
Truthful ==
    \A i \in 1..Len(s2c) :
        /\ s2c[i].res = "chunk" => s2c[i].kind = "user"
        /\ s2c[i].res = "error" => s2c[i].kind \in Reject
        /\ s2c[i].res = "ok" /\ s2c[i].kind = "auth" => srvAuth

\* An id is one request's, and the selects have the syncs of the schema load.
Named ==
    /\ \A p, q \in Entered : p.id = q.id => p = q
    /\ \A e \in Entered : /\ e.kind = "space" => e.sync = SchemaSync
                          /\ e.kind = "index" => e.sync = SchemaSync + 1

\* tnt_reload_schema has written its first select.
InLoad == {"select", "flush", "schema"}

\* What is in hand while the library waits for its own replies.
Phases ==
    ~missed =>
        /\ pc \in {"authflush", "auth"} => wrcnt <= 1 /\ \A e \in Entered : e.kind = "auth"
        /\ pc = "loading" => wrcnt = 0
        /\ pc = "select" => \A e \in Entered : e.kind = "space"
        /\ pc \in InLoad => /\ \A e \in Entered : e.kind \in {"space", "index"}
                           /\ \A p, q \in Entered : p.kind = q.kind => p = q

\* How far a schema load has come, by the replies that are still to come.
Progress ==
    \/ sloaded = 0 /\ fresh = {}
    \/ sloaded = 1 /\ fresh = {"space"}
    \/ sloaded = 3 /\ fresh = {"space", "index"} /\ ~bkp

Awaited ==
    \A e \in Entered : /\ e.kind = "space" => sloaded = 0
                       /\ e.kind = "index" => sloaded # 3 /\ ~bkp

Loading ==
    /\ pc \in InLoad => reloadRet = "none"
    /\ pc = "select" => sloaded = 0 /\ ~bkp
    /\ ~missed /\ pc \in InLoad => Progress /\ Awaited
    /\ ReloadComplete

Order == Truthful /\ Named /\ Phases /\ Loading

-----------------------------------------------------------------------------
(* What replies say. *)

LEMMA EmptyTruthful ==
    ASSUME s2c' = <<>>
    PROVE  Truthful'
  <1>1. Len(<<>>) = 0
    BY EmptySeq
  <1>2. \A i \in 1..Len(s2c') : FALSE
    BY <1>1
  <1> QED
    BY <1>2 DEF Truthful

LEMMA TakeTruthful ==
    ASSUME NEW r, Places, Truthful, Take(r), UNCHANGED srvAuth
    PROVE  Truthful'
  <1>1. s2c \in Seq(Replies) /\ s2c # <<>> /\ s2c' = Tail(s2c)
    BY DEF Places, Take
  <1>2. /\ Len(s2c') = Len(s2c) - 1 /\ Len(s2c) \in Nat
        /\ \A i \in 1..Len(s2c') : s2c'[i] = s2c[i + 1]
    BY <1>1, ReplyTail
  <1>3. \A i \in 1..Len(s2c') : i + 1 \in 1..Len(s2c) /\ s2c'[i] = s2c[i + 1]
    BY <1>2
  <1> QED
    BY <1>3 DEF Truthful

LEMMA ReadTruthful ==
    ASSUME NEW r, Places, Truthful, Read(r), UNCHANGED srvAuth
    PROVE  Truthful'
  <1>1. CASE Take(r)
    BY <1>1, TakeTruthful
  <1>2. CASE TakeGarbled(r)
    BY <1>2 DEF TakeGarbled, Truthful
  <1> QED
    BY <1>1, <1>2 DEF Read

LEMMA TruthfulStep ==
    ASSUME Places, Rest, Counted, Truthful, [Next]_vars
    PROVE  Truthful'
  <1>0. ASSUME UNCHANGED <<s2c, srvAuth>> PROVE Truthful'
    BY <1>0 DEF Truthful
  <1>1. CASE Close \/ ConnectOpen \/ ConnectError
    BY <1>1, EmptyTruthful DEF Close, ConnectOpen, ConnectError, CloseSocket
  <1>2. CASE GreetingNoLogin \/ GreetingError \/ ReadReply
    BY <1>0, <1>2 DEF GreetingNoLogin, GreetingError, ReadReply, srvVars
  <1>3. CASE GreetingLogin
    BY <1>0, <1>3 DEF GreetingLogin
  <1>4. CASE AuthAccepted \/ AuthRejected
    <2>1. UNCHANGED srvAuth
      BY <1>4 DEF AuthAccepted, AuthRejected, srvVars
    <2>2. (\E r : Read(r)) \/ UNCHANGED s2c \/ s2c' = <<>>
      BY <1>4 DEF AuthAccepted, AuthRejected, NothingOutstanding, ReadFails
    <2> QED
      BY <2>1, <2>2, <1>0, ReadTruthful, EmptyTruthful
  <1>5. CASE ConnectReload \/ UserReload
    BY <1>0, <1>5 DEF ConnectReload, UserReload
  <1>6. CASE SchemaReply \/ ReplyArrives
    <2>1. UNCHANGED srvAuth
      BY <1>6 DEF SchemaReply, ReplyArrives, srvVars
    <2>2. \E r : Read(r)
      BY <1>6 DEF SchemaReply, ReplyArrives
    <2> QED
      BY <2>1, <2>2, ReadTruthful
  <1>7. CASE SchemaEnd \/ ReplyNone
    <2>1. UNCHANGED srvAuth /\ (UNCHANGED s2c \/ s2c' = <<>>)
      BY <1>7 DEF SchemaEnd, ReplyNone, NothingOutstanding, ReadFails, srvVars
    <2> QED
      BY <2>1, <1>0, EmptyTruthful
  <1>8. CASE UserRequest \/ Flush \/ AuthFlush \/ ReloadIndexes \/ ReloadFlush
    BY <1>0, <1>8 DEF UserRequest, Flush, AuthFlush, ReloadIndexes, ReloadFlush
  <1>9. CASE ServerAnswer
    <2>1. PICK q \in srv, res \in {"ok", "error"} :
              /\ res = "error" => q.kind \in Reject /\ UNCHANGED srvAuth
              /\ res = "ok" => srvAuth' = (srvAuth \/ q.kind = "auth")
              /\ \A i \in 1..Len(s2c') : (i \in 1..Len(s2c) /\ s2c'[i] = s2c[i])
                                           \/ s2c'[i] = Reply(q, res)
      BY <1>9, AnswerSound
    <2>2. Reply(q, res).res = res /\ Reply(q, res).kind = q.kind
      BY DEF Reply
    <2>3. srvAuth => srvAuth'
      BY <2>1 DEF Rest
    <2>4. res = "ok" /\ q.kind = "auth" => srvAuth'
      BY <2>1 DEF Rest
    <2> SUFFICES ASSUME NEW i \in 1..Len(s2c')
                 PROVE  /\ s2c'[i].res = "chunk" => s2c'[i].kind = "user"
                        /\ s2c'[i].res = "error" => s2c'[i].kind \in Reject
                        /\ s2c'[i].res = "ok" /\ s2c'[i].kind = "auth" => srvAuth'
      BY DEF Truthful
    <2>5. CASE i \in 1..Len(s2c) /\ s2c'[i] = s2c[i]
      BY <2>3, <2>5 DEF Truthful
    <2>6. CASE s2c'[i] = Reply(q, res)
      BY <2>1, <2>2, <2>4, <2>6
    <2> QED
      BY <2>1, <2>5, <2>6
  <1>10. CASE ServerPush
    <2>1. PICK q \in srv :
              /\ q.kind = "user"
              /\ \A i \in 1..Len(s2c') : (i \in 1..Len(s2c) /\ s2c'[i] = s2c[i])
                                           \/ s2c'[i] = Reply(q, "chunk")
      BY <1>10, PushSound
    <2>2. Reply(q, "chunk").res = "chunk" /\ Reply(q, "chunk").kind = "user"
      BY <2>1 DEF Reply
    <2>3. UNCHANGED srvAuth
      BY <1>10 DEF ServerPush
    <2> QED
      BY <2>1, <2>2, <2>3 DEF Truthful
  <1>11. CASE NetLost
    BY <1>0, <1>11, EmptyTruthful DEF NetLost
  <1>12. CASE UNCHANGED vars
    BY <1>0, <1>12 DEF vars, srvVars
  <1> QED
    BY <1>1, <1>2, <1>3, <1>4, <1>5, <1>6, <1>7, <1>8, <1>9, <1>10, <1>11, <1>12
       DEF Next, CallStep

-----------------------------------------------------------------------------
(* Ids. *)

LEMMA NamedStep ==
    ASSUME Places, Rest, Counted, Named, [Next]_vars
    PROVE  Named'
  <1>0. /\ nextId \in Nat /\ reqid \in Nat /\ SchemaSync \in Nat
    BY NetAssumption DEF Places, Rest
  <1>1. \A e \in Entered : e.id \in 1..nextId
    <2>1. /\ srv \in SUBSET Requests /\ s2c \in Seq(Replies) /\ sbuf \in Seq(Requests)
      BY DEF Places
    <2>2. \A e \in Entered : e.id \in Known(sbuf, srv, s2c)
      BY <2>1, EntryFacts DEF Entered
    <2> QED
      BY <2>2 DEF Counted, Sound
  <1>2. ASSUME NEW N, Entered' \subseteq Entered \cup N,
               \A p \in N : p.id > nextId,
               \A p, q \in N : p.id = q.id => p = q,
               \A e \in N : /\ e.kind = "space" => e.sync = SchemaSync
                            /\ e.kind = "index" => e.sync = SchemaSync + 1
        PROVE  Named'
    <2>1. \A p \in Entered, q \in N : p.id # q.id
      BY <1>0, <1>1, <1>2
    <2>2. \A p, q \in Entered \cup N : p.id = q.id => p = q
      BY <2>1, <1>2 DEF Named
    <2> QED
      BY <2>2, <1>2 DEF Named
  <1>3. Moved
    BY PlacesStep
  <1>4. CASE Entered' \subseteq Entered
    BY <1>4 DEF Named
  <1>5. CASE Entered' \subseteq Entered \cup {Request(nextId + 1, "user", reqid)}
    <2> DEFINE q == Request(nextId + 1, "user", reqid)
               N == {q}
    <2>1. q.id > nextId /\ q.kind = "user"
      BY <1>0 DEF Request
    <2> HIDE DEF q
    <2>2. /\ \A p \in N : p.id > nextId
          /\ \A p, o \in N : p.id = o.id => p = o
          /\ \A e \in N : /\ e.kind = "space" => e.sync = SchemaSync
                          /\ e.kind = "index" => e.sync = SchemaSync + 1
      BY <2>1
    <2>3. Entered' \subseteq Entered \cup N
      BY <1>5 DEF q
    <2> HIDE DEF N
    <2> QED
      BY <2>2, <2>3, <1>2
  <1>6. CASE Entered' \subseteq Entered \cup {Request(nextId + 1, "auth", reqid)}
    <2> DEFINE q == Request(nextId + 1, "auth", reqid)
               N == {q}
    <2>1. q.id > nextId /\ q.kind = "auth"
      BY <1>0 DEF Request
    <2> HIDE DEF q
    <2>2. /\ \A p \in N : p.id > nextId
          /\ \A p, o \in N : p.id = o.id => p = o
          /\ \A e \in N : /\ e.kind = "space" => e.sync = SchemaSync
                          /\ e.kind = "index" => e.sync = SchemaSync + 1
      BY <2>1
    <2>3. Entered' \subseteq Entered \cup N
      BY <1>6 DEF q
    <2> HIDE DEF N
    <2> QED
      BY <2>2, <2>3, <1>2
  <1>7. CASE \/ Entered' \subseteq Entered \cup {SpaceSelect}
             \/ Entered' \subseteq Entered \cup {IndexSelect}
    <2>1. PICK e \in {SpaceSelect, IndexSelect} : Entered' \subseteq Entered \cup {e}
      BY <1>7
    <2>2. /\ e.id = nextId + 1
          /\ e.kind = "space" => e.sync = SchemaSync
          /\ e.kind = "index" => e.sync = SchemaSync + 1
      BY SelectFacts
    <2>3. nextId + 1 > nextId
      BY <1>0
    <2> DEFINE N == {e}
    <2>4. /\ \A p \in N : p.id > nextId
          /\ \A p, q \in N : p.id = q.id => p = q
          /\ \A p \in N : /\ p.kind = "space" => p.sync = SchemaSync
                          /\ p.kind = "index" => p.sync = SchemaSync + 1
      BY <2>2, <2>3
    <2>5. Entered' \subseteq Entered \cup N
      BY <2>1
    <2> HIDE DEF N
    <2> QED
      BY <2>4, <2>5, <1>2
  <1> QED
    BY <1>3, <1>4, <1>5, <1>6, <1>7 DEF Moved

-----------------------------------------------------------------------------
(* The phases of tnt_connect and tnt_reload_schema. *)

\* A flush, the server and the network interfere with no call.
LEMMA Background ==
    ASSUME Places, Counted,
           Flush \/ ServerAnswer \/ ServerPush \/ NetLost \/ UNCHANGED vars
    PROVE  /\ UNCHANGED <<connected, login, reqid, pc, caller>>
           /\ UNCHANGED <<sloaded, bkp, fresh, reloadRet>>
           /\ UNCHANGED <<ret, got, wrcnt>>
           /\ missed => missed'
           /\ Entered' \subseteq Entered
  <1>1. CASE Flush
    BY <1>1, FlushSound DEF Flush, cliVars, loadVars, histVars
  <1>2. CASE ServerAnswer
    <2>1. missed' = missed /\ Entered' \subseteq Entered
      BY <1>2, AnswerSound
    <2> QED
      BY <2>1, <1>2 DEF ServerAnswer, cliVars, loadVars, histVars
  <1>3. CASE ServerPush
    <2>1. missed' = missed /\ Entered' \subseteq Entered
      BY <1>3, PushSound
    <2> QED
      BY <2>1, <1>3 DEF ServerPush, cliVars, loadVars, histVars
  <1>4. CASE NetLost
    <2>1. missed' = missed /\ Entered' \subseteq Entered
      BY <1>4, NetLostSound
    <2> QED
      BY <2>1, <1>4 DEF NetLost, cliVars, loadVars, histVars
  <1>5. CASE UNCHANGED vars
    <2>1. Entered' = Entered
      BY <1>5 DEF vars, srvVars, Entered
    <2> QED
      BY <2>1, <1>5 DEF vars, cliVars, loadVars, histVars
  <1> QED
    BY <1>1, <1>2, <1>3, <1>4, <1>5

\* The first select is written only when nothing is in hand.
LEMMA SelectsInHand ==
    ASSUME Places, Counted, NEW who, ~ReloadRefused, ReloadSpaces(who),
           UNCHANGED <<connected, lost, s2c, torn>>, ~missed'
    PROVE  ~missed /\ Entered' \subseteq {SpaceSelect}
  <1>1. wrcnt = 0
    BY DEF ReloadRefused
  <1>2. ~missed /\ Entered' \subseteq Entered \cup {SpaceSelect}
    BY SpacesSound
  <1>3. Entered = {}
    BY <1>1, <1>2, NothingInHand
  <1> QED
    BY <1>2, <1>3

LEMMA PhasesStep ==
    ASSUME Places, Rest, Counted, Order, [Next]_vars
    PROVE  Phases'
  <1>0. Truthful /\ Phases /\ wrcnt \in Nat /\ missed \in BOOLEAN /\ reqid \in Nat
    BY DEF Order, Places, Rest
  <1>1. ASSUME pc' \in {"idle", "greet", "reply"} PROVE Phases'
    BY <1>1 DEF Phases, InLoad
  <1>2. CASE Close \/ ConnectOpen \/ ConnectError
    BY <1>1, <1>2 DEF Close, ConnectOpen, ConnectError
  <1>3. CASE GreetingNoLogin \/ GreetingError \/ ReadReply
    BY <1>1, <1>3 DEF GreetingNoLogin, GreetingError, ReadReply
  <1>4. CASE GreetingLogin
    <2>1. CASE wrcnt # 0
      BY <2>1, <1>1, <1>4 DEF GreetingLogin
    <2>2. CASE wrcnt = 0
      <3> SUFFICES ASSUME ~missed'
                   PROVE  pc' = "authflush" /\ wrcnt' <= 1 /\ \A e \in Entered' : e.kind = "auth"
        BY DEF Phases, InLoad
      <3>1. pc' = "authflush"
        BY <2>2, <1>4 DEF GreetingLogin
      <3>2. /\ missed => missed'
            /\ wrcnt' <= 1
            /\ Entered' \subseteq Entered \cup {Request(nextId + 1, "auth", reqid)}
        BY <2>2, <1>0, <1>4, AuthSound DEF GreetingLogin
      <3>3. Entered = {}
        BY <3>2, <2>2, NothingInHand
      <3>4. Request(nextId + 1, "auth", reqid).kind = "auth"
        BY DEF Request
      <3> QED
        BY <3>1, <3>2, <3>3, <3>4
    <2> QED
      BY <2>1, <2>2
  <1>5. CASE AuthAccepted
    <2> SUFFICES ASSUME ~missed' PROVE pc' = "loading" /\ wrcnt' = 0
      BY DEF Phases, InLoad
    <2>1. pc = "auth" /\ pc' = "loading" /\ UNCHANGED <<connected, lost, nextId, sbuf, srv>>
      BY <1>5 DEF AuthAccepted, srvVars, histVars
    <2>2. CASE NothingOutstanding
      BY <2>1, <2>2 DEF NothingOutstanding
    <2>3. CASE \E r : Read(r)
      <3>1. PICK r : Read(r)
        BY <2>3
      <3>2. /\ missed' = missed /\ Origin(r) \in Entered
            /\ \E i \in 1..Len(s2c) : r = s2c[i]
            /\ wrcnt > 0 /\ wrcnt' = IF r.res = "chunk" THEN wrcnt ELSE wrcnt - 1
        BY <3>1, <2>1, ReadSound
      <3>3. wrcnt <= 1 /\ Origin(r).kind = "auth"
        BY <3>2, <2>1, <1>0 DEF Phases
      <3>4. r.kind = "auth"
        BY <3>3 DEF Origin, Request
      <3>5. r.res # "chunk"
        BY <3>2, <3>4, <1>0 DEF Truthful
      <3> QED
        BY <3>2, <3>3, <3>5, <2>1, <1>0
    <2> QED
      BY <2>2, <2>3, <1>5 DEF AuthAccepted
  <1>6. CASE AuthRejected \/ SchemaEnd \/ ReplyArrives \/ ReplyNone
    BY <1>1, <1>6 DEF AuthRejected, SchemaEnd, ReloadReturn, ReplyArrives, ReplyNone
  <1>7. CASE ConnectReload \/ UserReload
    <2>1. UNCHANGED <<connected, lost, s2c, torn>>
      BY <1>7 DEF ConnectReload, UserReload
    <2>2. CASE ReloadRefused
      BY <2>2, <1>1, <1>7 DEF ConnectReload, UserReload
    <2>3. CASE ~ReloadRefused
      <3> SUFFICES ASSUME ~missed'
                   PROVE  /\ pc' = "select"
                          /\ \A e \in Entered' : e.kind = "space"
                          /\ \A p, q \in Entered' : p.kind = q.kind => p = q
        BY DEF Phases, InLoad
      <3>1. PICK who : ReloadSpaces(who)
        BY <2>3, <1>7 DEF ConnectReload, UserReload
      <3>2. pc' = "select"
        BY <3>1 DEF ReloadSpaces
      <3>3. Entered' \subseteq {SpaceSelect}
        BY <3>1, <2>1, <2>3, SelectsInHand
      <3>4. SpaceSelect.kind = "space"
        BY SelectFacts
      <3> QED
        BY <3>2, <3>3, <3>4
    <2> QED
      BY <2>2, <2>3
  <1>8. CASE SchemaReply
    <2>1. UNCHANGED <<connected, lost, nextId, sbuf, srv>> /\ pc = "schema"
      BY <1>8 DEF SchemaReply, srvVars
    <2>2. missed' = missed /\ Entered' \subseteq Entered
      BY <2>1, <1>8, ReadSound DEF SchemaReply
    <2>3. pc' \in {"schema", "idle"}
      BY <2>1, <1>8 DEF SchemaReply, ReloadReturn
    <2> QED
      BY <2>1, <2>2, <2>3, <1>0 DEF Phases, InLoad
  <1>9. CASE UserRequest
    BY <1>1, <1>9 DEF UserRequest
  <1>10. CASE Flush \/ ServerAnswer \/ ServerPush \/ NetLost \/ UNCHANGED vars
    <2>1. /\ UNCHANGED <<connected, login, reqid, pc, caller>>
          /\ UNCHANGED <<ret, got, wrcnt>>
          /\ missed => missed'
          /\ Entered' \subseteq Entered
      BY <1>10, Background
    <2> QED
      BY <2>1, <1>0 DEF Phases
  <1>11. CASE AuthFlush \/ ReloadFlush
    <2>1. /\ UNCHANGED wrcnt /\ (missed => missed') /\ Entered' \subseteq Entered
      BY <1>11, FlushSound
    <2>2. (pc = "authflush" /\ pc' = "auth") \/ (pc = "flush" /\ pc' = "schema")
      BY <1>11 DEF AuthFlush, ReloadFlush
    <2> QED
      BY <2>1, <2>2, <1>0 DEF Phases, InLoad
  <1>12. CASE ReloadIndexes
    <2>1. (missed => missed') /\ Entered' \subseteq Entered \cup {IndexSelect}
      BY <1>12, IndexesSound
    <2>2. pc = "select" /\ pc' = "flush"
      BY <1>12 DEF ReloadIndexes
    <2>3. IndexSelect.kind = "index"
      BY SelectFacts
    <2> SUFFICES ASSUME ~missed'
                 PROVE  /\ \A e \in Entered' : e.kind \in {"space", "index"}
                        /\ \A p, q \in Entered' : p.kind = q.kind => p = q
      BY <2>2 DEF Phases, InLoad
    <2>4. /\ \A e \in Entered : e.kind = "space"
          /\ \A p, q \in Entered : p.kind = q.kind => p = q
      BY <2>1, <2>2, <1>0 DEF Phases, InLoad
    <2> QED
      BY <2>1, <2>3, <2>4
  <1> QED
    BY <1>2, <1>3, <1>4, <1>5, <1>6, <1>7, <1>8, <1>9, <1>10, <1>11, <1>12
       DEF Next, CallStep

\* A reply to one of the selects ends that select, and no other reply comes.
LEMMA SelectTaken ==
    ASSUME Places, Counted, Order, pc = "schema", ~missed, NEW r, Read(r),
           UNCHANGED <<connected, lost, nextId, sbuf, srv>>
    PROVE  /\ missed' = missed /\ Entered' \subseteq Entered
           /\ r.kind \in {"space", "index"} /\ r.res \in {"ok", "error"}
           /\ r.kind = "space" => r.sync = SchemaSync
           /\ r.kind = "index" => r.sync = SchemaSync + 1
           /\ r.res = "error" => r.kind \in Reject
           /\ \A e \in Entered' : e.kind # r.kind
           /\ \E e \in Entered : e.kind = r.kind
  <1>0. Truthful /\ Named /\ Phases
    BY DEF Order
  <1>1. /\ missed' = missed /\ Entered' \subseteq Entered /\ Origin(r) \in Entered
        /\ \E i \in 1..Len(s2c) : r = s2c[i]
        /\ r.res # "chunk" => \A e \in Entered' : e.id # r.id
    BY ReadSound
  <1>2. Origin(r).id = r.id /\ Origin(r).kind = r.kind /\ Origin(r).sync = r.sync
    BY DEF Origin, Request
  <1>3. r.kind \in {"space", "index"}
    BY <1>0, <1>1, <1>2 DEF Phases, InLoad
  <1>4. r \in Replies
    <2>1. s2c \in Seq(Replies)
      BY DEF Places
    <2> QED
      BY <2>1, <1>1, ElementOfSeq
  <1>5. r.res # "chunk" /\ (r.res = "error" => r.kind \in Reject)
    BY <1>0, <1>1, <1>3 DEF Truthful
  <1>6. r.res \in {"ok", "error"}
    BY <1>4, <1>5 DEF Replies
  <1>7. \A e \in Entered' : e.kind # r.kind
    <2> SUFFICES ASSUME NEW e \in Entered', e.kind = r.kind PROVE FALSE
      OBVIOUS
    <2>1. e \in Entered
      BY <1>1
    <2>2. e = Origin(r)
      BY <2>1, <1>0, <1>1, <1>2 DEF Phases, InLoad
    <2>3. e.id # r.id
      BY <1>1, <1>5
    <2> QED
      BY <2>2, <2>3, <1>2
  <1>8. /\ r.kind = "space" => r.sync = SchemaSync
        /\ r.kind = "index" => r.sync = SchemaSync + 1
    BY <1>0, <1>1, <1>2 DEF Named
  <1> QED
    BY <1>1, <1>2, <1>3, <1>5, <1>6, <1>7, <1>8

LEMMA SchemaReplyLoading ==
    ASSUME Places, Rest, Counted, Order, SchemaReply
    PROVE  Loading'
  <1>0. /\ SchemaSync \in Nat /\ sloaded \in Nat /\ bkp \in BOOLEAN /\ missed \in BOOLEAN
        /\ pc = "schema" /\ Loading /\ reloadRet = "none"
    BY NetAssumption DEF Places, Rest, SchemaReply, Order, Loading, InLoad
  <1>1. UNCHANGED <<connected, lost, nextId, sbuf, srv>>
    BY DEF SchemaReply, srvVars
  <1>2. PICK r :
            /\ Read(r)
            /\ \/ /\ r.sync = SchemaSync /\ r.res # "error"
                  /\ fresh' = AddSpaces(fresh)
                  /\ sloaded' = sloaded + 1
                  /\ UNCHANGED <<pc, caller, ret, reloadRet, bkp>>
               \/ /\ r.sync = SchemaSync + 1 /\ r.res # "error"
                  /\ sloaded % 2 = 0
                  /\ bkp' = TRUE
                  /\ UNCHANGED <<pc, caller, ret, reloadRet, fresh, sloaded>>
               \/ /\ r.sync = SchemaSync + 1 /\ r.res # "error"
                  /\ sloaded % 2 = 1
                  /\ fresh' = AddIndexes(fresh)
                  /\ sloaded' = sloaded + 2
                  /\ UNCHANGED <<pc, caller, ret, reloadRet, bkp>>
               \/ /\ r.res = "error" \/ r.sync \notin {SchemaSync, SchemaSync + 1}
                  /\ ReloadReturn("fail")
                  /\ UNCHANGED fresh
    BY DEF SchemaReply
  <1>3. CASE r.res = "error" \/ r.sync \notin {SchemaSync, SchemaSync + 1}
    <2>1. pc' = "idle" /\ reloadRet' = "fail"
      BY <1>2, <1>3 DEF ReloadReturn
    <2> QED
      BY <2>1 DEF Loading, InLoad, ReloadComplete
  <1>4. CASE ~(r.res = "error" \/ r.sync \notin {SchemaSync, SchemaSync + 1})
    <2>1. UNCHANGED <<pc, reloadRet>>
      BY <1>2, <1>4
    <2>2. pc' = "schema" /\ reloadRet' = "none" /\ ReloadComplete'
      BY <2>1, <1>0 DEF ReloadComplete
    <2> SUFFICES ASSUME ~missed' PROVE Progress' /\ Awaited'
      BY <2>2 DEF Loading
    <2>3. missed' = missed
      BY <1>1, <1>2, ReadSound
    <2>4. Progress /\ Awaited
      BY <2>3, <1>0 DEF Loading, InLoad
    <2>5. /\ Entered' \subseteq Entered
          /\ r.kind \in {"space", "index"}
          /\ r.kind = "space" => r.sync = SchemaSync
          /\ r.kind = "index" => r.sync = SchemaSync + 1
          /\ \A e \in Entered' : e.kind # r.kind
          /\ \E e \in Entered : e.kind = r.kind
      BY <2>3, <1>0, <1>1, <1>2, SelectTaken
    <2>6. SchemaSync # SchemaSync + 1
      BY <1>0
    <2>7. CASE r.kind = "space"
      <3>1. sloaded = 0 /\ fresh = {}
        BY <2>4, <2>5, <2>7 DEF Progress, Awaited
      <3>2. fresh' = AddSpaces(fresh) /\ sloaded' = sloaded + 1 /\ UNCHANGED bkp
        BY <2>5, <2>6, <2>7, <1>2, <1>4
      <3>3. fresh' = {"space"} /\ sloaded' = 1
        BY <3>1, <3>2 DEF AddSpaces
      <3>4. \A e \in Entered' : e \in Entered /\ e.kind # "space"
        BY <2>5, <2>7
      <3>5. Progress'
        BY <3>3 DEF Progress
      <3>6. Awaited'
        BY <3>2, <3>3, <3>4, <2>4 DEF Awaited
      <3> QED
        BY <3>5, <3>6
    <2>8. CASE r.kind = "index"
      <3>1. sloaded # 3 /\ ~bkp
        BY <2>4, <2>5, <2>8 DEF Awaited
      <3>2. r.sync = SchemaSync + 1 /\ r.res # "error"
        BY <2>5, <2>8, <1>4
      <3>3. \A e \in Entered' : e \in Entered /\ e.kind # "index"
        BY <2>5, <2>8
      <3>4. CASE sloaded = 0
        <4>1. sloaded % 2 = 0 /\ fresh = {}
          BY <3>4, <2>4 DEF Progress
        <4>2. UNCHANGED <<fresh, sloaded>>
          BY <4>1, <3>2, <2>6, <1>2
        <4> QED
          BY <4>1, <4>2, <3>3, <3>4 DEF Progress, Awaited
      <3>5. CASE sloaded = 1
        <4>1. sloaded % 2 = 1 /\ fresh = {"space"}
          BY <3>5, <2>4 DEF Progress
        <4>2. fresh' = AddIndexes(fresh) /\ sloaded' = sloaded + 2 /\ UNCHANGED bkp
          BY <4>1, <3>2, <2>6, <1>2
        <4>3. fresh' = {"space", "index"} /\ sloaded' = 3
          BY <4>1, <4>2, <3>5 DEF AddIndexes
        <4>4. ~bkp'
          BY <4>2, <3>1
        <4>5. \A e \in Entered' : e.kind # "space" /\ e.kind # "index"
          BY <3>3, <3>5, <2>4 DEF Awaited
        <4> QED
          BY <4>3, <4>4, <4>5 DEF Progress, Awaited
      <3> QED
        BY <3>1, <3>4, <3>5, <2>4 DEF Progress
    <2> QED
      BY <2>5, <2>7, <2>8
  <1> QED
    BY <1>3, <1>4

LEMMA SchemaEndLoading ==
    ASSUME Places, Rest, Order, SchemaEnd
    PROVE  Loading'
  <1>1. pc = "schema" /\ pc' = "idle" /\ Loading
    BY DEF SchemaEnd, ReloadReturn, Order
  <1> SUFFICES ASSUME ~missed', reloadRet' = "ok" PROVE fresh' = {"space", "index"}
    BY <1>1 DEF Loading, InLoad, ReloadComplete
  <1>2. ~missed
    BY DEF SchemaEnd, NothingOutstanding, ReadFails
  <1>3. Progress
    BY <1>1, <1>2 DEF Loading, InLoad
  <1>4. IF bkp THEN sloaded + 2 = 3 ELSE sloaded = 3
    BY DEF SchemaEnd, ReloadReturn
  <1>5. fresh' = IF bkp THEN AddIndexes(fresh) ELSE fresh
    BY DEF SchemaEnd
  <1>6. CASE bkp
    <2>1. sloaded = 1
      BY <1>4, <1>6 DEF Rest
    <2>2. fresh = {"space"}
      BY <2>1, <1>3 DEF Progress
    <2> QED
      BY <2>2, <1>5, <1>6 DEF AddIndexes
  <1>7. CASE ~bkp
    BY <1>3, <1>4, <1>5, <1>7 DEF Progress
  <1> QED
    BY <1>6, <1>7

LEMMA LoadingStep ==
    ASSUME Places, Rest, Counted, Order, [Next]_vars
    PROVE  Loading'
  <1>0. Loading /\ missed \in BOOLEAN
    BY DEF Order, Places
  <1>1. ASSUME pc' \notin InLoad, missed => missed', UNCHANGED <<reloadRet, fresh>>
        PROVE  Loading'
    BY <1>0, <1>1 DEF Loading, InLoad, ReloadComplete
  <1>2. ASSUME pc' \notin InLoad, reloadRet' # "ok" PROVE Loading'
    BY <1>2 DEF Loading, InLoad, ReloadComplete
  <1>3. CASE Close \/ ConnectOpen \/ ConnectError
    <2>1. pc' \notin InLoad
      BY <1>3 DEF Close, ConnectOpen, ConnectError, InLoad
    <2>2. reloadRet' = "none" \/ UNCHANGED <<missed, reloadRet, fresh>>
      BY <1>3 DEF Close, ConnectOpen, ConnectError, ClearStream
    <2> QED
      BY <2>1, <2>2, <1>1, <1>2
  <1>4. CASE GreetingNoLogin \/ GreetingError \/ ReadReply
    BY <1>1, <1>4 DEF GreetingNoLogin, GreetingError, ReadReply, InLoad, loadVars
  <1>5. CASE GreetingLogin
    <2>1. pc' \notin InLoad /\ UNCHANGED <<reloadRet, fresh>>
      BY <1>5 DEF GreetingLogin, InLoad, loadVars
    <2>2. missed => missed'
      <3>1. CASE wrcnt = 0
        BY <3>1, <1>5, AuthSound DEF Rest
      <3>2. CASE wrcnt # 0
        BY <3>2, <1>5 DEF GreetingLogin
      <3> QED
        BY <3>1, <3>2
    <2> QED
      BY <2>1, <2>2, <1>1
  <1>6. CASE AuthAccepted \/ AuthRejected \/ ReplyArrives \/ ReplyNone
    <2>1. pc' \notin InLoad /\ UNCHANGED <<reloadRet, fresh>>
      BY <1>6 DEF AuthAccepted, AuthRejected, ReplyArrives, ReplyNone, InLoad, loadVars
    <2>2. missed => missed'
      BY <1>6 DEF AuthAccepted, AuthRejected, ReplyArrives, ReplyNone,
                  NothingOutstanding, ReadFails, Read, Take, TakeGarbled
    <2> QED
      BY <2>1, <2>2, <1>1
  <1>7. CASE ConnectReload \/ UserReload
    <2>1. CASE ReloadRefused
      BY <2>1, <1>2, <1>7 DEF ConnectReload, UserReload, InLoad
    <2>2. CASE ~ReloadRefused
      <3>1. PICK who : ReloadSpaces(who)
        BY <2>2, <1>7 DEF ConnectReload, UserReload
      <3>2. sloaded' = 0 /\ bkp' = FALSE /\ fresh' = {} /\ reloadRet' = "none"
        BY <3>1 DEF ReloadSpaces
      <3>3. Progress' /\ Awaited'
        BY <3>2 DEF Progress, Awaited
      <3> QED
        BY <3>2, <3>3 DEF Loading, ReloadComplete
    <2> QED
      BY <2>1, <2>2
  <1>8. CASE SchemaReply
    BY <1>8, SchemaReplyLoading
  <1>9. CASE SchemaEnd
    BY <1>9, SchemaEndLoading
  <1>10. CASE UserRequest
    <2>1. pc' \notin InLoad /\ UNCHANGED <<reloadRet, fresh>>
      BY <1>10 DEF UserRequest, InLoad, loadVars
    <2>2. missed => missed'
      BY <1>10, UserRequestSound DEF Rest
    <2> QED
      BY <2>1, <2>2, <1>1
  <1>11. CASE Flush \/ ServerAnswer \/ ServerPush \/ NetLost \/ UNCHANGED vars
    <2>1. /\ UNCHANGED <<pc, sloaded, bkp, fresh, reloadRet>>
          /\ missed => missed'
          /\ Entered' \subseteq Entered
      BY <1>11, Background
    <2>2. Progress => Progress'
      BY <2>1 DEF Progress
    <2>3. Awaited => Awaited'
      BY <2>1 DEF Awaited
    <2> QED
      BY <2>1, <2>2, <2>3, <1>0 DEF Loading, ReloadComplete
  <1>12. CASE AuthFlush
    <2>1. pc' \notin InLoad /\ UNCHANGED <<reloadRet, fresh>>
      BY <1>12 DEF AuthFlush, InLoad, loadVars
    <2> QED
      BY <2>1, <1>1, <1>12, FlushSound
  <1>13. CASE ReloadFlush
    <2>1. /\ pc = "flush" /\ pc' = "schema"
          /\ UNCHANGED <<sloaded, bkp, fresh, reloadRet>>
      BY <1>13 DEF ReloadFlush, loadVars
    <2>2. (missed => missed') /\ Entered' \subseteq Entered
      BY <1>13, FlushSound
    <2>3. (Progress => Progress') /\ (Awaited => Awaited')
      BY <2>1, <2>2 DEF Progress, Awaited
    <2> QED
      BY <2>1, <2>2, <2>3, <1>0 DEF Loading, InLoad, ReloadComplete
  <1>14. CASE ReloadIndexes
    <2>1. /\ pc = "select" /\ pc' = "flush"
          /\ UNCHANGED <<sloaded, bkp, fresh, reloadRet>>
      BY <1>14 DEF ReloadIndexes, loadVars
    <2>2. (missed => missed') /\ Entered' \subseteq Entered \cup {IndexSelect}
      BY <1>14, IndexesSound
    <2>3. IndexSelect.kind = "index"
      BY SelectFacts
    <2>4. sloaded = 0 /\ ~bkp /\ reloadRet = "none"
      BY <2>1, <1>0 DEF Loading, InLoad
    <2>5. Progress => Progress'
      BY <2>1 DEF Progress
    <2>6. Awaited => Awaited'
      BY <2>1, <2>2, <2>3, <2>4 DEF Awaited
    <2> QED
      BY <2>1, <2>2, <2>4, <2>5, <2>6, <1>0 DEF Loading, InLoad, ReloadComplete
  <1> QED
    BY <1>3, <1>4, <1>5, <1>6, <1>7, <1>8, <1>9, <1>10, <1>11, <1>12, <1>13, <1>14
       DEF Next, CallStep

LEMMA OrderInit == Init => Order
  <1> SUFFICES ASSUME Init PROVE Order
    OBVIOUS
  <1>1. sbuf = <<>> /\ srv = {} /\ s2c = <<>> /\ pc = "idle" /\ reloadRet = "none"
    BY DEF Init
  <1>2. Len(<<>>) = 0
    BY EmptySeq
  <1>3. Entered = {}
    BY <1>1, <1>2 DEF Entered, Entries
  <1> QED
    BY <1>1, <1>2, <1>3 DEF Order, Truthful, Named, Phases, Loading, InLoad, ReloadComplete

\* In every reachable state, what is in hand is what the call in progress
\* expects, until a read or a send fails.
THEOREM OrderTheorem == Spec => [](NetInv /\ Order)
  <1>1. Init => NetInv /\ Order
    BY NetInvInit, OrderInit
  <1>2. NetInv /\ Order /\ [Next]_vars => NetInv' /\ Order'
    <2> SUFFICES ASSUME NetInv, Order, [Next]_vars PROVE NetInv' /\ Order'
      OBVIOUS
    <2>1. Places /\ Rest /\ Counted
      BY TypeParts DEF NetInv
    <2>2. NetInv'
      BY NetInvStep
    <2>3. Truthful' /\ Named' /\ Phases' /\ Loading'
      BY <2>1, TruthfulStep, NamedStep, PhasesStep, LoadingStep DEF Order
    <2> QED
      BY <2>2, <2>3 DEF Order
  <1> QED
    BY <1>1, <1>2, PTL DEF Spec

\* Until a read fails, or a send halfway, a tnt_reload_schema that reports success
\* has handed the spaces and then the indexes to the schema, in whichever order
\* the replies came and whatever the server refuses.
THEOREM ReloadCompleteTheorem == Spec => []ReloadComplete
  <1>1. Order => ReloadComplete
    BY DEF Order, Loading
  <1> QED
    BY <1>1, OrderTheorem, PTL

-----------------------------------------------------------------------------
(* Authentication. *)

\* While tnt_authenticate waits, exactly AUTH is counted (if there is a send
\* buffer and AUTH fits it), so that it goes on only after the server's answer.
Authed ==
    ~missed =>
        /\ pc \in {"authflush", "auth"} => wrcnt = 1
        /\ pc = "loading" \/ (pc \in InLoad /\ caller = "connect") => srvAuth
        /\ login /\ ret = "ok" /\ connected => srvAuth

LEMMA AuthedStep ==
    ASSUME AuthFits, SBufCap > 0, Places, Rest, Counted, Order, Authed, [Next]_vars
    PROVE  Authed'
  <1>0. /\ Truthful /\ Phases /\ missed \in BOOLEAN /\ srvAuth \in BOOLEAN /\ connected \in BOOLEAN
        /\ login \in BOOLEAN /\ reqid \in Nat /\ wrcnt \in Nat
    BY DEF Order, Places, Rest
  <1>1. ASSUME pc' \in {"idle", "greet", "reply"}, ret' # "ok" \/ ~connected'
        PROVE  Authed'
    BY <1>1 DEF Authed, InLoad
  <1>2. ASSUME pc' \in {"idle", "greet", "reply"}, missed => missed',
               UNCHANGED <<login, ret, connected, srvAuth>>
        PROVE  Authed'
    BY <1>0, <1>2 DEF Authed, InLoad
  <1>3. CASE Close \/ ConnectOpen \/ ConnectError
    BY <1>1, <1>3 DEF Close, ConnectOpen, ConnectError
  <1>4. CASE GreetingNoLogin
    <2>1. ~login' /\ pc' = "idle"
      BY <1>4 DEF GreetingNoLogin
    <2> QED
      BY <2>1 DEF Authed, InLoad
  <1>5. CASE GreetingError
    BY <1>1, <1>5 DEF GreetingError
  <1>6. CASE GreetingLogin
    <2>1. CASE wrcnt # 0
      BY <2>1, <1>1, <1>6 DEF GreetingLogin
    <2>2. CASE wrcnt = 0
      <3>1. pc' = "authflush" /\ UNCHANGED <<login, ret, connected, srvAuth>>
        BY <2>2, <1>6 DEF GreetingLogin
      <3>2. (missed => missed') /\ (~missed' => wrcnt' = 1)
        BY <2>2, <1>0, <1>6, AuthSound
      <3> QED
        BY <3>1, <3>2, <1>0 DEF Authed, InLoad
    <2> QED
      BY <2>1, <2>2
  <1>7. CASE AuthAccepted
    <2>1. /\ pc = "auth" /\ pc' = "loading" /\ UNCHANGED <<connected, lost, nextId, sbuf, srv>>
          /\ UNCHANGED srvAuth
      BY <1>7 DEF AuthAccepted, srvVars, histVars
    <2> SUFFICES ASSUME ~missed' PROVE srvAuth
      <3>1. UNCHANGED <<login, ret, connected>>
        BY <1>7 DEF AuthAccepted, histVars
      <3> QED
        BY <3>1, <2>1 DEF Authed, InLoad
    <2>2. CASE NothingOutstanding
      <3>1. ~missed /\ wrcnt = 0
        BY <2>2 DEF NothingOutstanding
      <3> QED
        BY <3>1, <2>1 DEF Authed
    <2>3. CASE \E r : Read(r) /\ r.res # "error"
      <3>1. PICK r : Read(r) /\ r.res # "error"
        BY <2>3
      <3>2. /\ missed' = missed /\ Origin(r) \in Entered
            /\ \E i \in 1..Len(s2c) : r = s2c[i]
        BY <3>1, <2>1, ReadSound
      <3>3. Origin(r).kind = "auth"
        BY <3>2, <2>1, <1>0 DEF Phases
      <3>4. r.kind = "auth"
        BY <3>3 DEF Origin, Request
      <3>5. r \in Replies
        <4>1. s2c \in Seq(Replies)
          BY DEF Places
        <4> QED
          BY <4>1, <3>2, ElementOfSeq
      <3>6. r.res = "ok"
        BY <3>1, <3>2, <3>4, <3>5, <1>0 DEF Truthful, Replies
      <3> QED
        BY <3>2, <3>4, <3>6, <1>0 DEF Truthful
    <2> QED
      BY <2>2, <2>3, <1>7 DEF AuthAccepted
  <1>8. CASE AuthRejected
    BY <1>1, <1>8 DEF AuthRejected
  <1>9. CASE ConnectReload
    <2>1. UNCHANGED <<connected, lost, s2c, torn, srvAuth, login>> /\ pc = "loading"
      BY <1>9 DEF ConnectReload
    <2>2. (missed => missed') /\ pc' \in {"idle", "select"}
      <3>1. CASE ReloadRefused
        BY <3>1, <1>9 DEF ConnectReload
      <3>2. CASE ~ReloadRefused
        <4>1. ReloadSpaces("connect") /\ pc' = "select"
          BY <3>2, <1>9 DEF ConnectReload, ReloadSpaces
        <4> QED
          BY <4>1, <2>1, SpacesSound
      <3> QED
        BY <3>1, <3>2
    <2> QED
      BY <2>1, <2>2, <1>0 DEF Authed
  <1>10. CASE SchemaReply
    <2>1. /\ pc = "schema" /\ UNCHANGED <<connected, login, srvAuth>>
          /\ missed' = missed
      BY <1>10 DEF SchemaReply, srvVars, Read, Take, TakeGarbled
    <2>2. \/ UNCHANGED <<pc, caller, ret>>
          \/ pc' = "idle" /\ ret' = IF caller = "connect" THEN "ok" ELSE ret
      BY <1>10 DEF SchemaReply, ReloadReturn
    <2> QED
      BY <2>1, <2>2, <1>0 DEF Authed, InLoad
  <1>11. CASE SchemaEnd
    <2>1. /\ pc = "schema" /\ UNCHANGED <<connected, login, srvAuth>>
          /\ missed => missed'
      BY <1>11 DEF SchemaEnd, srvVars, NothingOutstanding, ReadFails
    <2>2. pc' = "idle" /\ ret' = IF caller = "connect" THEN "ok" ELSE ret
      BY <1>11 DEF SchemaEnd, ReloadReturn
    <2> QED
      BY <2>1, <2>2, <1>0 DEF Authed, InLoad
  <1>12. CASE ReplyArrives
    BY <1>2, <1>12 DEF ReplyArrives, srvVars, Read, Take, TakeGarbled
  <1>13. CASE ReplyNone
    <2>1. missed => missed'
      BY <1>13 DEF ReplyNone, NothingOutstanding, ReadFails
    <2> QED
      BY <2>1, <1>2, <1>13 DEF ReplyNone, srvVars, histVars
  <1>14. CASE UserRequest
    <2>1. missed => missed'
      BY <1>0, <1>14, UserRequestSound
    <2> QED
      BY <2>1, <1>2, <1>14 DEF UserRequest
  <1>15. CASE ReadReply
    BY <1>2, <1>15 DEF ReadReply, srvVars, histVars
  <1>16. CASE UserReload
    <2>1. UNCHANGED <<connected, lost, s2c, torn, srvAuth, login, ret>>
      BY <1>16 DEF UserReload
    <2>2. CASE ReloadRefused
      BY <2>1, <2>2, <1>2, <1>16 DEF UserReload
    <2>3. CASE ~ReloadRefused
      <3>1. ReloadSpaces("user")
        BY <2>3, <1>16 DEF UserReload
      <3>2. (missed => missed') /\ pc' = "select" /\ caller' = "user"
        BY <3>1, <2>1, SpacesSound DEF ReloadSpaces
      <3> QED
        BY <3>2, <2>1, <1>0 DEF Authed, InLoad
    <2> QED
      BY <2>2, <2>3
  <1>17. CASE Flush \/ ServerAnswer \/ ServerPush \/ NetLost \/ UNCHANGED vars
    <2>1. /\ UNCHANGED <<connected, login, pc, caller, ret, wrcnt>>
          /\ missed => missed'
      BY <1>17, Background
    <2>2. srvAuth => srvAuth'
      <3>1. CASE ServerAnswer
        BY <3>1, <1>0 DEF ServerAnswer
      <3>2. CASE Flush \/ ServerPush \/ NetLost \/ UNCHANGED vars
        BY <3>2 DEF Flush, ServerPush, NetLost, vars, srvVars
      <3> QED
        BY <3>1, <3>2, <1>17
    <2> QED
      BY <2>1, <2>2, <1>0 DEF Authed
  <1>18. CASE AuthFlush \/ ReloadFlush
    <2>1. UNCHANGED wrcnt /\ (missed => missed')
      BY <1>18, FlushSound
    <2>2. /\ (pc = "authflush" /\ pc' = "auth") \/ (pc = "flush" /\ pc' = "schema")
          /\ UNCHANGED <<connected, login, caller, ret, srvAuth>>
      BY <1>18 DEF AuthFlush, ReloadFlush, histVars
    <2> QED
      BY <2>1, <2>2, <1>0 DEF Authed, InLoad
  <1>19. CASE ReloadIndexes
    <2>1. missed => missed'
      BY <1>19, IndexesSound
    <2>2. /\ pc = "select" /\ pc' = "flush"
          /\ UNCHANGED <<connected, login, caller, ret, srvAuth>>
      BY <1>19 DEF ReloadIndexes
    <2> QED
      BY <2>1, <2>2, <1>0 DEF Authed, InLoad
  <1> QED
    BY <1>3, <1>4, <1>5, <1>6, <1>7, <1>8, <1>9, <1>10, <1>11, <1>12, <1>13, <1>14, <1>15,
       <1>16, <1>17, <1>18, <1>19 DEF Next, CallStep

\* tnt_connect with a login reports success only on a session the server
\* authenticated, if there is a send buffer and the AUTH packet fits it (with a
\* packet that does not fit, or a send that fails where there is no buffer,
\* tnt_authenticate finds nothing outstanding and goes on).
THEOREM ConnectMeansAuthTheorem ==
    AuthFits /\ SBufCap > 0 => (Spec => []ConnectMeansAuth)
  <1> SUFFICES ASSUME AuthFits, SBufCap > 0 PROVE Spec => []ConnectMeansAuth
    OBVIOUS
  <1>1. Init => Authed
    BY DEF Init, Authed, InLoad
  <1>2. NetInv /\ Order /\ Authed /\ [Next]_vars => Authed'
    <2> SUFFICES ASSUME NetInv, Order, Authed, [Next]_vars PROVE Authed'
      OBVIOUS
    <2>1. Places /\ Rest /\ Counted
      BY TypeParts DEF NetInv
    <2> QED
      BY <2>1, AuthedStep
  <1>3. Authed => ConnectMeansAuth
    BY DEF Authed, ConnectMeansAuth
  <1> QED
    BY <1>1, <1>2, <1>3, OrderTheorem, PTL DEF Spec

-----------------------------------------------------------------------------
(* Whose reply the user gets. *)

\* Between the library's own exchanges only the user's requests are in hand,
\* under syncs below s->reqid.
Users == \A e \in Entered : e.kind = "user" /\ e.sync < reqid

Owned ==
    ~missed =>
        /\ pc \in {"idle", "greet", "reply"} => Users
        /\ \A p, q \in Entered : p.sync = q.sync => p = q
        /\ got \in {"none", "user"}

LEMMA OwnedStep ==
    ASSUME Reject \cap {"space", "index"} = {},
           Places, Rest, Counted, Order, Owned, [Next]_vars
    PROVE  Owned'
  <1>0. /\ Truthful /\ Phases /\ missed \in BOOLEAN /\ reqid \in Nat /\ wrcnt \in Nat
        /\ SchemaSync \in Nat /\ nextId \in Nat
    BY NetAssumption DEF Order, Places, Rest
  <1>a. Places' /\ Counted'
    BY PlacesStep
  \* A step after which nothing is in hand.
  <1>1. ASSUME Entered' = {}, ((missed => missed') /\ UNCHANGED got) \/ got' = "none"
        PROVE  Owned'
    BY <1>0, <1>1 DEF Owned, Users
  \* A step between two exchanges that writes nothing.
  <1>2. ASSUME pc \in {"idle", "greet", "reply"}, missed => missed',
               Entered' \subseteq Entered, UNCHANGED reqid,
               UNCHANGED got \/ got' = "user"
        PROVE  Owned'
    BY <1>0, <1>2 DEF Owned, Users
  <1>3. CASE Close
    <2>1. Entered' = {} /\ got' = "none"
      BY <1>3, ClearSound DEF Close, ClearStream, Places
    <2> QED
      BY <2>1, <1>1
  <1>4. CASE ConnectOpen
    <2>1. CASE connected
      <3>1. Entered' = {} /\ got' = "none"
        BY <2>1, <1>4, ClearSound DEF ConnectOpen, ClearStream, Places
      <3> QED
        BY <3>1, <1>1
    <2>2. CASE ~connected
      <3>1. Entered' = Entered
        BY <2>2, <1>4, ReopenSound DEF ConnectOpen
      <3>2. pc = "idle" /\ UNCHANGED <<missed, reqid, got>>
        BY <2>2, <1>4 DEF ConnectOpen
      <3> QED
        BY <3>1, <3>2, <1>2
    <2> QED
      BY <2>1, <2>2
  <1>5. CASE ConnectError
    <2>1. CASE connected
      <3>1. Entered' = {} /\ got' = "none"
        BY <2>1, <1>5, ClearSound DEF ConnectError, ClearStream, Places
      <3> QED
        BY <3>1, <1>1
    <2>2. CASE ~connected
      <3>1. Entered' = Entered
        BY <2>2, <1>5, ReopenSound DEF ConnectError, Places
      <3>2. pc = "idle" /\ UNCHANGED <<missed, reqid, got>>
        BY <2>2, <1>5 DEF ConnectError
      <3> QED
        BY <3>1, <3>2, <1>2
    <2> QED
      BY <2>1, <2>2
  <1>6. CASE GreetingNoLogin \/ GreetingError \/ ReadReply
    <2>1. /\ UNCHANGED <<sbuf, srv, s2c, reqid, got>> /\ (missed => missed')
          /\ pc \in {"idle", "greet", "reply"}
      BY <1>6 DEF GreetingNoLogin, GreetingError, ReadReply, srvVars, histVars
    <2>2. Entered' = Entered
      BY <2>1 DEF Entered
    <2> QED
      BY <2>1, <2>2, <1>2
  <1>7. CASE GreetingLogin
    <2>1. CASE wrcnt # 0
      <3>1. UNCHANGED <<sbuf, srv, s2c, missed, reqid, got>> /\ pc = "greet"
        BY <2>1, <1>7 DEF GreetingLogin
      <3>2. Entered' = Entered
        BY <3>1 DEF Entered
      <3> QED
        BY <3>1, <3>2, <1>2
    <2>2. CASE wrcnt = 0
      <3>1. pc = "greet" /\ pc' = "authflush" /\ UNCHANGED got
        BY <2>2, <1>7 DEF GreetingLogin
      <3>2. /\ missed => missed'
            /\ Entered' \subseteq Entered \cup {Request(nextId + 1, "auth", reqid)}
        BY <2>2, <1>0, <1>7, AuthSound
      <3> SUFFICES ASSUME ~missed'
                   PROVE  (\A p, q \in Entered' : p.sync = q.sync => p = q)
                          /\ got' \in {"none", "user"}
        BY <3>1 DEF Owned
      <3>3. Entered = {}
        BY <3>2, <2>2, NothingInHand
      <3>4. got \in {"none", "user"}
        BY <3>2, <1>0 DEF Owned
      <3> QED
        BY <3>1, <3>2, <3>3, <3>4
    <2> QED
      BY <2>1, <2>2
  <1>8. CASE AuthAccepted \/ AuthRejected
    <2>1. /\ pc = "auth" /\ UNCHANGED <<connected, lost, nextId, sbuf, srv>>
          /\ UNCHANGED got
      BY <1>8 DEF AuthAccepted, AuthRejected, srvVars, histVars
    <2>2. CASE ReadFails
      BY <2>2 DEF ReadFails, Owned
    <2>3. CASE NothingOutstanding
      <3>1. missed' = missed /\ wrcnt' = 0
        BY <2>3 DEF NothingOutstanding
      <3> SUFFICES ASSUME ~missed' PROVE Entered' = {}
        BY <3>1, <2>1, <1>1 DEF Owned
      <3> QED
        BY <3>1, <1>a, NothingLeft
    <2>4. CASE \E r : Read(r)
      <3> SUFFICES ASSUME ~missed' PROVE Owned'
        BY DEF Owned
      <3>1. PICK r : Read(r)
        BY <2>4
      <3>2. /\ missed' = missed /\ Origin(r) \in Entered
            /\ \E i \in 1..Len(s2c) : r = s2c[i]
            /\ wrcnt > 0 /\ wrcnt' = IF r.res = "chunk" THEN wrcnt ELSE wrcnt - 1
        BY <3>1, <2>1, ReadSound
      <3>3. wrcnt <= 1 /\ Origin(r).kind = "auth"
        BY <3>2, <2>1, <1>0 DEF Phases
      <3>4. r.kind = "auth"
        BY <3>3 DEF Origin, Request
      <3>5. r.res # "chunk"
        BY <3>2, <3>4, <1>0 DEF Truthful
      <3>6. wrcnt' = 0
        BY <3>2, <3>3, <3>5, <1>0
      <3> QED
        BY <3>2, <3>6, <2>1, <1>1, <1>a, NothingLeft
    <2> QED
      BY <2>2, <2>3, <2>4, <1>8 DEF AuthAccepted, AuthRejected
  <1>9. CASE ConnectReload \/ UserReload
    <2>1. UNCHANGED <<connected, lost, s2c, torn, reqid, got>> /\ pc \in {"loading", "idle"}
      BY <1>9 DEF ConnectReload, UserReload
    <2>2. CASE ReloadRefused
      <3>1. UNCHANGED <<sbuf, srv, missed, wrcnt>> /\ pc' = "idle"
        BY <2>2, <1>9 DEF ConnectReload, UserReload
      <3>2. Entered' = Entered
        BY <3>1, <2>1 DEF Entered
      <3>3. CASE pc = "idle"
        BY <3>1, <3>2, <3>3, <2>1, <1>2
      <3>4. CASE pc = "loading"
        <4> SUFFICES ASSUME ~missed' PROVE Owned'
          BY DEF Owned
        <4>1. ~missed /\ wrcnt = 0
          BY <3>1, <3>4, <1>0 DEF Phases
        <4>2. Entered = {}
          BY <4>1, NothingInHand
        <4> QED
          BY <4>2, <3>1, <3>2, <2>1, <1>1
      <3> QED
        BY <3>3, <3>4, <2>1
    <2>3. CASE ~ReloadRefused
      <3>1. PICK who : ReloadSpaces(who)
        BY <2>3, <1>9 DEF ConnectReload, UserReload
      <3>2. pc' = "select"
        BY <3>1 DEF ReloadSpaces
      <3> SUFFICES ASSUME ~missed'
                   PROVE  (\A p, q \in Entered' : p.sync = q.sync => p = q)
                          /\ got' \in {"none", "user"}
        BY <3>2 DEF Owned
      <3>3. ~missed /\ Entered' \subseteq {SpaceSelect}
        BY <3>1, <2>1, <2>3, SelectsInHand
      <3>4. got \in {"none", "user"}
        BY <3>3 DEF Owned
      <3> QED
        BY <3>3, <3>4, <2>1
    <2> QED
      BY <2>2, <2>3
  <1>10. CASE SchemaReply
    <2>1. /\ UNCHANGED <<connected, lost, nextId, sbuf, srv>> /\ pc = "schema"
          /\ UNCHANGED got
      BY <1>10 DEF SchemaReply, srvVars
    <2>2. PICK r : /\ Read(r)
                   /\ UNCHANGED pc \/ r.res = "error" \/ r.sync \notin {SchemaSync, SchemaSync + 1}
      BY <1>10 DEF SchemaReply
    <2> SUFFICES ASSUME ~missed' PROVE Owned'
      BY DEF Owned
    <2>3. ~missed
      BY <2>1, <2>2, ReadSound
    <2>4. /\ Entered' \subseteq Entered
          /\ r.kind \in {"space", "index"} /\ r.res \in {"ok", "error"}
          /\ r.kind = "space" => r.sync = SchemaSync
          /\ r.kind = "index" => r.sync = SchemaSync + 1
          /\ r.res = "error" => r.kind \in Reject
      BY <2>1, <2>2, <2>3, SelectTaken
    <2>5. pc' = "schema"
      BY <2>1, <2>2, <2>4
    <2> QED
      BY <2>1, <2>3, <2>4, <2>5 DEF Owned
  <1>11. CASE SchemaEnd
    <2>1. UNCHANGED got
      BY <1>11 DEF SchemaEnd
    <2>2. CASE ReadFails
      BY <2>2 DEF ReadFails, Owned
    <2>3. CASE NothingOutstanding
      <3>1. missed' = missed /\ wrcnt' = 0
        BY <2>3 DEF NothingOutstanding
      <3> SUFFICES ASSUME ~missed' PROVE Entered' = {}
        BY <3>1, <2>1, <1>1 DEF Owned
      <3> QED
        BY <3>1, <1>a, NothingLeft
    <2> QED
      BY <2>2, <2>3, <1>11 DEF SchemaEnd
  <1>12. CASE ReplyArrives
    <2>1. /\ pc = "reply" /\ UNCHANGED <<connected, lost, nextId, sbuf, srv>>
          /\ UNCHANGED reqid
      BY <1>12 DEF ReplyArrives, srvVars
    <2> SUFFICES ASSUME ~missed' PROVE Owned'
      BY DEF Owned
    <2>2. PICK r : Read(r) /\ got' = r.kind
      BY <1>12 DEF ReplyArrives
    <2>3. missed' = missed /\ Entered' \subseteq Entered /\ Origin(r) \in Entered
      BY <2>1, <2>2, ReadSound
    <2>4. Origin(r).kind = "user"
      BY <2>1, <2>3 DEF Owned, Users
    <2>5. got' = "user"
      BY <2>2, <2>4 DEF Origin, Request
    <2> QED
      BY <2>1, <2>3, <2>5, <1>2
  <1>13. CASE ReplyNone
    <2>1. pc = "reply" /\ UNCHANGED <<sbuf, srv, reqid, got>>
      BY <1>13 DEF ReplyNone, srvVars, histVars
    <2>2. CASE ReadFails
      BY <2>2 DEF ReadFails, Owned
    <2>3. CASE NothingOutstanding
      <3>1. UNCHANGED <<s2c, missed>>
        BY <2>3 DEF NothingOutstanding
      <3>2. Entered' = Entered
        BY <3>1, <2>1 DEF Entered
      <3> QED
        BY <3>1, <3>2, <2>1, <1>2
    <2> QED
      BY <2>2, <2>3, <1>13 DEF ReplyNone
  <1>14. CASE UserRequest
    <2> DEFINE q == Request(nextId + 1, "user", reqid)
    <2>1. pc = "idle" /\ UNCHANGED got /\ reqid' = reqid + 1
      BY <1>14 DEF UserRequest
    <2>2. (missed => missed') /\ Entered' \subseteq Entered \cup {q}
      BY <1>0, <1>14, UserRequestSound
    <2>3. q.kind = "user" /\ q.sync = reqid
      BY DEF Request
    <2> HIDE DEF q
    <2> SUFFICES ASSUME ~missed' PROVE Owned'
      BY DEF Owned
    <2>4. /\ \A e \in Entered : e.kind = "user" /\ e.sync < reqid
          /\ \A o, p \in Entered : o.sync = p.sync => o = p
          /\ got \in {"none", "user"}
      BY <2>1, <2>2 DEF Owned, Users
    <2>5. \A e \in Entered : e.sync \in Nat
      <3>1. /\ srv \in SUBSET Requests /\ s2c \in Seq(Replies) /\ sbuf \in Seq(Requests)
        BY DEF Places
      <3>2. Entered \subseteq Requests
        BY <3>1, EntryFacts DEF Entered
      <3> QED
        BY <3>2 DEF Requests
    <2>6. \A e \in Entered : e.sync < reqid' /\ e.sync # q.sync
      BY <2>1, <2>3, <2>4, <2>5, <1>0
    <2>7. q.sync < reqid'
      BY <2>1, <2>3, <1>0
    <2>8. Users'
      BY <2>2, <2>3, <2>4, <2>6, <2>7 DEF Users
    <2>9. \A o, p \in Entered' : o.sync = p.sync => o = p
      BY <2>2, <2>4, <2>6
    <2> QED
      BY <2>1, <2>4, <2>8, <2>9 DEF Owned
  <1>15. CASE Flush \/ ServerAnswer \/ ServerPush \/ NetLost \/ UNCHANGED vars
    <2>1. /\ UNCHANGED <<pc, reqid, got>>
          /\ missed => missed'
          /\ Entered' \subseteq Entered
      BY <1>15, Background
    <2> QED
      BY <2>1, <1>0 DEF Owned, Users
  <1>16. CASE AuthFlush \/ ReloadFlush
    <2>1. (missed => missed') /\ Entered' \subseteq Entered
      BY <1>16, FlushSound
    <2>2. pc' \in {"auth", "schema"} /\ UNCHANGED got
      BY <1>16 DEF AuthFlush, ReloadFlush, histVars
    <2> QED
      BY <2>1, <2>2, <1>0 DEF Owned
  <1>17. CASE ReloadIndexes
    <2>1. (missed => missed') /\ Entered' \subseteq Entered \cup {IndexSelect}
      BY <1>17, IndexesSound
    <2>2. pc = "select" /\ pc' = "flush" /\ UNCHANGED got
      BY <1>17 DEF ReloadIndexes
    <2> SUFFICES ASSUME ~missed'
                 PROVE  (\A p, q \in Entered' : p.sync = q.sync => p = q)
                        /\ got' \in {"none", "user"}
      BY <2>2 DEF Owned
    <2>3. /\ \A e \in Entered : e.sync = SchemaSync
          /\ \A p, q \in Entered : p.sync = q.sync => p = q
          /\ got \in {"none", "user"}
      BY <2>1, <2>2, <1>0 DEF Phases, Order, Named, Owned
    <2>4. IndexSelect.sync = SchemaSync + 1 /\ SchemaSync # SchemaSync + 1
      BY <1>0, SelectFacts
    <2> QED
      BY <2>1, <2>2, <2>3, <2>4
  <1> QED
    BY <1>3, <1>4, <1>5, <1>6, <1>7, <1>8, <1>9, <1>10, <1>11, <1>12, <1>13, <1>14, <1>15,
       <1>16, <1>17 DEF Next, CallStep

\* Until a read or a send fails, the user is never given the reply to one of
\* the library's own requests, and a reply's sync says which request it
\* answers, if the server does not refuse the selects of the schema load (when
\* it does, tnt_reload_schema leaves the reply to the other select unread).
THEOREM OwnRepliesTheorem ==
    Reject \cap {"space", "index"} = {} => (Spec => []OwnReplies)
  <1> SUFFICES ASSUME Reject \cap {"space", "index"} = {} PROVE Spec => []OwnReplies
    OBVIOUS
  <1>1. Init => Owned
    <2> SUFFICES ASSUME Init PROVE Owned
      OBVIOUS
    <2>1. sbuf = <<>> /\ srv = {} /\ s2c = <<>> /\ got = "none"
      BY DEF Init
    <2>2. Entered = {}
      BY <2>1 DEF Entered, Entries
    <2> QED
      BY <2>1, <2>2 DEF Owned, Users
  <1>2. NetInv /\ Order /\ Owned /\ [Next]_vars => Owned'
    <2> SUFFICES ASSUME NetInv, Order, Owned, [Next]_vars PROVE Owned'
      OBVIOUS
    <2>1. Places /\ Rest /\ Counted
      BY TypeParts DEF NetInv
    <2> QED
      BY <2>1, OwnedStep
  <1>3. NetInv /\ Owned => OwnReplies
    <2> SUFFICES ASSUME NetInv, Owned PROVE OwnReplies
      OBVIOUS
    <2>1. sbuf \in Seq(Requests)
      BY DEF NetInv, TypeOK
    <2>2. Range(sbuf) = {sbuf[i] : i \in 1..Len(sbuf)}
      BY <2>1, RangeEquality
    <2>3. Pending \subseteq Entered
      BY <2>2 DEF Pending, Entered, Entries, Final, Origin, Request
    <2> QED
      BY <2>3 DEF OwnReplies, Owned
  <1> QED
    BY <1>1, <1>2, <1>3, OrderTheorem, PTL DEF Spec
=============================================================================
