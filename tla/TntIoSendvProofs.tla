-------------------------- MODULE TntIoSendvProofs --------------------------
(***************************************************************************)
(* The vector loop of tnt_io_sendv_raw, for every vector of segments, every *)
(* place where writev() may stop and every getiovmax().                     *)
(***************************************************************************)
EXTENDS TntIoSendv, SeqFacts

\* Bytes that follow on those that went out keep them in order.
LEMMA BytesAppend ==
    ASSUME NEW w, NEW from \in Nat, NEW n \in Nat,
           w \in Seq(Nat), w = Bytes(0, Len(w)), Len(w) = from
    PROVE  /\ w \o Bytes(from, n) \in Seq(Nat)
           /\ Len(w \o Bytes(from, n)) = from + n
           /\ w \o Bytes(from, n) = Bytes(0, from + n)
  <1> DEFINE b == Bytes(from, n)
             c == w \o b
  <1>1. b \in Seq(Nat) /\ Len(b) = n /\ \A i \in 1..n : b[i] = from + i
    BY DEF Bytes
  <1>2. \A i \in 1..from : w[i] = i
    BY DEF Bytes
  <1> HIDE DEF b
  <1>3. c \in Seq(Nat) /\ Len(c) = from + n
    BY <1>1
  <1>4. \A i \in 1..(from + n) : c[i] = 0 + i
    BY <1>1, <1>2
  <1>5. c = Bytes(0, from + n)
    <2> DEFINE d == Bytes(0, from + n)
    <2>1. d \in Seq(Nat) /\ Len(d) = from + n /\ \A i \in 1..(from + n) : d[i] = 0 + i
      BY DEF Bytes
    <2> HIDE DEF c, d
    <2>2. c = d
      BY <1>3, <1>4, <2>1
    <2> QED
      BY <2>2 DEF d
  <1> QED
    BY <1>3, <1>5 DEF b

\* Counting on by n.
LEMMA CountOn ==
    ASSUME NEW t \in Nat, NEW p \in Nat, NEW q \in Nat, NEW n \in Nat, t + p = q
    PROVE  t + (p + n) = q + n
  OBVIOUS

\* Skipping the last l bytes of q, when not more than q went out.
LEMMA SkipLast ==
    ASSUME NEW b \in Nat, NEW l \in Nat, NEW x \in Nat, NEW w \in Nat, NEW q \in Nat,
           b + x = w, b + l = q, w <= q, l <= x
    PROVE  x - l = 0 /\ w = q
  OBVIOUS

\* Cutting the first x of l bytes.
LEMMA CutOff ==
    ASSUME NEW b \in Nat, NEW l \in Nat, NEW x \in Nat, x < l
    PROVE  b + x \in Nat /\ l - x \in Nat /\ l - x > 0 /\ (b + x) + (l - x) = b + l
  OBVIOUS

\* What every step knows of the vector.
LEMMA VectorFacts ==
    ASSUME TypeOK
    PROVE  /\ Len(iov) \in Nat /\ at \in Nat /\ k \in Nat /\ r \in Nat /\ total \in Nat
           /\ request \in Nat /\ Len(wire) \in Nat /\ Len(iov) >= 1
           /\ 1 <= at /\ at <= Len(iov) + 1 /\ 1 <= k /\ k <= Len(iov)
           /\ \A i \in 1..Len(iov) : iov[i].base \in Nat /\ iov[i].len \in Nat
  <1>1. Len(iov) \in Nat /\ Len(wire) \in Nat
    BY LenProperties DEF TypeOK
  <1>2. \A i \in 1..Len(iov) : iov[i] \in [base : Nat, len : Nat]
    BY ElementOfSeq DEF TypeOK
  <1>3. \A i \in 1..Len(iov) : iov[i].base \in Nat /\ iov[i].len \in Nat
    BY <1>2
  <1>4. at \in 1..(Len(iov) + 1) /\ k \in 1..Len(iov)
    BY DEF TypeOK
  <1>5. /\ at \in Nat /\ 1 <= at /\ at <= Len(iov) + 1
        /\ k \in Nat /\ 1 <= k /\ k <= Len(iov) /\ Len(iov) >= 1
    BY <1>1, <1>4
  <1> QED
    BY <1>1, <1>3, <1>5 DEF TypeOK

\* txv and writev are given the segment that iov points to, and none behind
\* the end.
LEMMA LastFacts ==
    ASSUME TypeOK, at <= Len(iov)
    PROVE  Last \in at..Len(iov)
  BY VectorFacts, IovMaxAssumption DEF Last

LEMMA InitIndInv == Init => IndInv
  <1> SUFFICES ASSUME Init PROVE IndInv
    OBVIOUS
  <1>1. PICK v \in Vectors :
          /\ iov = [i \in 1..(Len(v) - 1) |-> [base |-> v[i], len |-> v[i + 1] - v[i]]]
          /\ request = v[Len(v)]
    BY DEF Init
  <1>2. /\ v \in Seq(Nat) /\ Len(v) \in Nat /\ Len(v) > 1
        /\ v[1] = 0 /\ v[2] > 0
        /\ \A i \in 1..Len(v) : v[i] \in Nat
        /\ \A i, j \in 1..Len(v) : i <= j => v[i] <= v[j]
    BY VectorsAssumption, LenProperties, ElementOfSeq
  <1>3. \A i \in 1..(Len(v) - 1) : i + 1 \in 1..Len(v) /\ i \in 1..Len(v) /\ i <= i + 1
    BY <1>2
  <1>4. \A i \in 1..(Len(v) - 1) : v[i + 1] - v[i] \in Nat
    BY <1>2, <1>3
  <1>5. iov \in [1..(Len(v) - 1) -> [base : Nat, len : Nat]]
    BY <1>1, <1>2, <1>3, <1>4
  <1>6. iov \in Seq([base : Nat, len : Nat]) /\ Len(iov) = Len(v) - 1
    <2>1. Len(v) - 1 \in Nat
      BY <1>2
    <2> QED
      BY <1>5, <2>1, FcnIsSeq
  <1>7. \A i \in 1..Len(iov) : iov[i].base = v[i] /\ iov[i].len = v[i + 1] - v[i]
    BY <1>1, <1>6
  <1>8. TypeOK
    BY <1>1, <1>2, <1>6, EmptyFacts DEF Init, TypeOK
  <1>9. wire = Bytes(0, Len(wire))
    BY EmptyFacts DEF Init, Bytes
  <1>10. \A i \in 1..Len(iov) : End(i) = v[i + 1]
    <2> TAKE i \in 1..Len(iov)
    <2>1. v[i] \in Nat /\ v[i + 1] \in Nat
      BY <1>2, <1>3, <1>6
    <2>2. End(i) = v[i] + (v[i + 1] - v[i])
      BY <1>7 DEF End
    <2> QED
      BY <2>1, <2>2
  <1>11. Contiguous
    <2>1. at = 1
      BY DEF Init
    <2>2. \A i \in 1..(Len(iov) - 1) : i \in 1..Len(iov) /\ i + 1 \in 1..Len(iov)
      BY <1>2, <1>6
    <2>3. \A i \in 1..(Len(iov) - 1) : End(i) = iov[i + 1].base
      BY <1>7, <1>10, <2>2
    <2>4. \A i \in 1..Len(iov) : v[i + 1] <= v[Len(v)]
      <3> TAKE i \in 1..Len(iov)
      <3>1. i + 1 \in 1..Len(v) /\ Len(v) \in 1..Len(v) /\ i + 1 <= Len(v)
        BY <1>2, <1>6
      <3> QED
        BY <1>2, <3>1
    <2>5. Len(iov) \in 1..Len(iov) /\ Len(iov) + 1 = Len(v)
      BY <1>2, <1>6
    <2> QED
      BY <1>1, <1>10, <2>1, <2>3, <2>4, <2>5 DEF Contiguous
  <1>12. Position
    <2>1. 1 \in 1..Len(iov) /\ 1 <= Len(iov) /\ iov[1].base = 0
      BY <1>2, <1>6, <1>7
    <2>2. iov[1].len > 0
      <3>1. iov[1].len = v[2] - v[1]
        BY <1>7, <2>1
      <3>2. v[2] \in Nat /\ v[1] = 0 /\ v[2] > 0
        BY <1>2
      <3> QED
        BY <3>1, <3>2
    <2>3. pc = "send" /\ at = 1 /\ total = 0 /\ Len(wire) = 0
      BY EmptyFacts DEF Init
    <2> QED
      BY <2>1, <2>2, <2>3 DEF Position
  <1> QED
    BY <1>8, <1>9, <1>11, <1>12 DEF IndInv

LEMMA CallStep == IndInv /\ Call => IndInv'
  <1> SUFFICES ASSUME IndInv, Call PROVE IndInv'
    OBVIOUS
  <1>1. TypeOK /\ Contiguous /\ Position /\ wire = Bytes(0, Len(wire))
    BY DEF IndInv
  <1>2. at <= Len(iov) /\ Last \in at..Len(iov) /\ at \in 1..Len(iov)
    BY <1>1, VectorFacts, LastFacts DEF Call, Position
  <1>3. TypeOK'
    BY <1>1, <1>2 DEF Call, TypeOK
  <1>4. Contiguous'
    BY <1>1 DEF Call, Contiguous, End
  <1>5. Last' = Last
    BY DEF Call, Last
  <1>6. Position'
    BY <1>1, <1>2, <1>5, VectorFacts DEF Call, Position
  <1> QED
    BY <1>1, <1>3, <1>4, <1>6 DEF IndInv, Call

LEMMA CopySegmentStep == IndInv /\ CopySegment => IndInv'
  <1> SUFFICES ASSUME IndInv, CopySegment PROVE IndInv'
    OBVIOUS
  <1>1. TypeOK /\ Contiguous /\ Position /\ wire = Bytes(0, Len(wire))
    BY DEF IndInv
  <1>2. at <= Len(iov) /\ Last \in at..Len(iov) /\ at \in 1..Len(iov)
    BY <1>1, VectorFacts, LastFacts DEF CopySegment, Position
  <1>3. /\ k \in at..(Len(iov) - 1) /\ k \in 1..Len(iov) /\ k + 1 \in at..Last
        /\ k + 1 \in 1..Len(iov)
        /\ iov[k].base = Len(wire) /\ total + r = Len(wire)
    <2>1. /\ k \in at..Last /\ k < Last
          /\ iov[k].base = Len(wire) /\ total + r = Len(wire)
      BY <1>1 DEF CopySegment, Position
    <2>2. Len(iov) \in Nat /\ at \in Nat /\ k \in Nat
      BY <1>1, VectorFacts
    <2> QED
      BY <1>2, <2>1, <2>2
  <1>4. /\ wire' \in Seq(Nat) /\ Len(wire') = iov[k].base + iov[k].len
        /\ wire' = Bytes(0, iov[k].base + iov[k].len)
    <2>1. iov[k].base \in Nat /\ iov[k].len \in Nat /\ wire \in Seq(Nat)
      BY <1>1, <1>3, VectorFacts DEF TypeOK
    <2> QED
      BY <1>1, <1>3, <2>1, BytesAppend DEF CopySegment
  <1>5. TypeOK'
    <2>1. r' \in Nat
      <3>1. r \in Nat /\ iov[k].len \in Nat /\ r' = r + iov[k].len
        BY <1>1, <1>3, VectorFacts DEF CopySegment
      <3> QED
        BY <3>1
    <2> QED
      BY <1>1, <1>3, <1>4, <2>1 DEF CopySegment, TypeOK
  <1>6. Contiguous'
    BY <1>1 DEF CopySegment, Contiguous, End
  <1>7. Last' = Last
    BY DEF CopySegment, Last
  <1>8. iov[k + 1].base = Len(wire')
    BY <1>1, <1>3, <1>4 DEF Contiguous, End
  <1>9. total + r' = Len(wire')
    <2>1. r \in Nat /\ total \in Nat /\ iov[k].base \in Nat /\ iov[k].len \in Nat
      BY <1>1, <1>3, VectorFacts
    <2>2. r' = r + iov[k].len
      BY DEF CopySegment
    <2>3. total + (r + iov[k].len) = iov[k].base + iov[k].len
      <3>1. total + r = iov[k].base
        BY <1>3
      <3> QED
        BY <2>1, <3>1, CountOn
    <2> QED
      BY <1>4, <2>2, <2>3
  <1>10. Position'
    BY <1>1, <1>2, <1>3, <1>7, <1>8, <1>9 DEF CopySegment, Position
  <1> QED
    BY <1>4, <1>5, <1>6, <1>10 DEF IndInv

LEMMA WritevReturnsStep ==
    ASSUME NEW n \in 0..request, IndInv, WritevReturns(n)
    PROVE  IndInv'
  <1>1. TypeOK /\ Contiguous /\ Position /\ wire = Bytes(0, Len(wire))
    BY DEF IndInv
  <1>2. at <= Len(iov) /\ Last \in at..Len(iov) /\ at \in 1..Len(iov)
    BY <1>1, VectorFacts, LastFacts DEF WritevReturns, Position
  <1>3. /\ k \in at..Len(iov) /\ k \in 1..Len(iov) /\ iov[at].base = total
        /\ iov[k].base = Len(wire) /\ total + r = Len(wire)
    <2>1. /\ k \in at..Last /\ iov[at].base = total
          /\ iov[k].base = Len(wire) /\ total + r = Len(wire)
      BY <1>1 DEF WritevReturns, Position
    <2>2. Len(iov) \in Nat /\ at \in Nat /\ k \in Nat
      BY <1>1, VectorFacts
    <2> QED
      BY <1>2, <2>1, <2>2
  <1>4. n \in Nat /\ n <= iov[k].len /\ iov[k].base \in Nat /\ iov[k].len \in Nat
    <2>1. iov[k].base \in Nat /\ iov[k].len \in Nat
      BY <1>1, <1>3, VectorFacts
    <2>2. n \in Nat
      <3>1. request \in Nat
        BY <1>1 DEF TypeOK
      <3> QED
        BY <3>1
    <2> QED
      BY <2>1, <2>2 DEF WritevReturns
  <1>5. /\ wire' \in Seq(Nat) /\ Len(wire') = iov[k].base + n
        /\ wire' = Bytes(0, iov[k].base + n)
    <2>1. wire \in Seq(Nat)
      BY <1>1 DEF TypeOK
    <2> QED
      BY <1>1, <1>3, <1>4, <2>1, BytesAppend DEF WritevReturns
  <1>6. r' = r + n /\ total' = total + (r + n) /\ r' \in Nat /\ total' \in Nat
    <2>1. r \in Nat /\ total \in Nat
      BY <1>1, VectorFacts
    <2>2. r' = r + n /\ total' = total + r'
      BY DEF WritevReturns
    <2> QED
      BY <1>4, <2>1, <2>2
  <1>7. TypeOK'
    BY <1>1, <1>5, <1>6 DEF WritevReturns, TypeOK
  <1>8. Contiguous'
    BY <1>1 DEF WritevReturns, Contiguous, End
  <1>9. total' = Len(wire') /\ Len(wire') <= request /\ iov[at].base + r' = Len(wire')
    <2>1. iov[k].base + iov[k].len <= request
      BY <1>1, <1>3 DEF Contiguous, End
    <2>2. r \in Nat /\ total \in Nat /\ request \in Nat
      BY <1>1, VectorFacts
    <2>3. total + (r + n) = iov[k].base + n
      BY <1>3, <1>4, <2>2, CountOn
    <2>4. iov[k].base + n <= request
      BY <1>4, <2>1, <2>2
    <2> QED
      BY <1>3, <1>5, <1>6, <2>3, <2>4
  <1>10. Position'
    BY <1>1, <1>2, <1>9, VectorFacts DEF WritevReturns, Position
  <1> QED
    BY <1>5, <1>7, <1>8, <1>10 DEF IndInv

LEMMA WritevErrorStep == IndInv /\ WritevError => IndInv'
  BY DEF IndInv, WritevError, TypeOK, Contiguous, Position, End

\* A segment that is skipped ends where the next one begins; behind the last
\* one nothing is left to skip.
LEMMA SkipStep == IndInv /\ Skip => IndInv'
  <1> SUFFICES ASSUME IndInv, Skip PROVE IndInv'
    OBVIOUS
  <1>1. TypeOK /\ Contiguous /\ Position /\ wire = Bytes(0, Len(wire))
    BY DEF IndInv
  <1>2. /\ at \in 1..Len(iov) /\ iov[at].base \in Nat /\ iov[at].len \in Nat
        /\ iov[at].len <= r
    BY <1>1, VectorFacts DEF Skip, EndsWithin
  <1>3. iov[at].base + r = Len(wire) /\ total = Len(wire) /\ Len(wire) <= request
    BY <1>1 DEF Skip, Position
  <1>4. r' = r - iov[at].len /\ r' \in Nat /\ at' = at + 1 /\ at' \in 1..(Len(iov) + 1)
    <2>1. r' = r - iov[at].len /\ at' = at + 1 /\ r \in Nat /\ Len(iov) \in Nat
      BY <1>1, VectorFacts DEF Skip
    <2> QED
      BY <1>2, <2>1
  <1>5. TypeOK'
    BY <1>1, <1>4 DEF Skip, TypeOK
  <1>6. Contiguous'
    BY <1>1, <1>2, <1>4, VectorFacts DEF Skip, Contiguous, End
  <1>7. r \in Nat /\ request \in Nat /\ Len(wire) \in Nat
    BY <1>1, VectorFacts
  <1>8. CASE at < Len(iov)
    <2>1. iov[at].base + iov[at].len = iov[at + 1].base
      BY <1>1, <1>2, <1>8, VectorFacts DEF Contiguous, End
    <2>2. iov[at + 1].base + r' = Len(wire)
      <3>1. iov[at].base + r = (iov[at].base + iov[at].len) + (r - iov[at].len)
        BY <1>2, <1>7
      <3> QED
        BY <1>3, <1>4, <2>1, <3>1
    <2>3. ~(at' > Len(iov))
      BY <1>1, <1>4, <1>8, VectorFacts
    <2> QED
      BY <1>1, <1>3, <1>4, <1>5, <1>6, <2>2, <2>3 DEF Skip, Position, IndInv
  <1>9. CASE at = Len(iov)
    <2>1. iov[at].base + iov[at].len = request
      BY <1>1, <1>2, <1>9, VectorFacts DEF Contiguous, End
    <2>2. r' = 0 /\ Len(wire) = request
      <3>1. r - iov[at].len = 0 /\ Len(wire) = request
        <4>1. iov[at].base \in Nat /\ iov[at].len \in Nat /\ iov[at].len <= r
          BY <1>2
        <4>2. iov[at].base + r = Len(wire) /\ Len(wire) <= request
          BY <1>3
        <4> QED
          BY <1>7, <2>1, <4>1, <4>2, SkipLast
      <3> QED
        BY <1>4, <3>1
    <2>3. ~(at' <= Len(iov))
      BY <1>1, <1>4, <1>9, VectorFacts
    <2> QED
      BY <1>1, <1>3, <1>4, <1>5, <1>6, <2>2, <2>3 DEF Skip, Position, IndInv
  <1> QED
    BY <1>1, <1>2, <1>8, <1>9, VectorFacts

\* The segment writev stopped in begins behind the last byte that went out,
\* and is not empty.
LEMMA StopStep == IndInv /\ Stop => IndInv'
  <1> SUFFICES ASSUME IndInv, Stop PROVE IndInv'
    OBVIOUS
  <1>1. TypeOK /\ Contiguous /\ Position /\ wire = Bytes(0, Len(wire))
    BY DEF IndInv
  <1>2. /\ at \in 1..Len(iov) /\ iov[at].base \in Nat /\ iov[at].len \in Nat
        /\ r < iov[at].len /\ r \in Nat
    BY <1>1, VectorFacts DEF Stop, EndsWithin
  <1>3. iov[at].base + r = Len(wire) /\ total = Len(wire)
    BY <1>1 DEF Stop, Position
  <1> DEFINE seg == [base |-> iov[at].base + r, len |-> iov[at].len - r]
  <1>4. /\ seg \in [base : Nat, len : Nat] /\ seg.len > 0 /\ seg.base = Len(wire)
        /\ seg.base + seg.len = iov[at].base + iov[at].len
    <2>1. /\ iov[at].base + r \in Nat /\ iov[at].len - r \in Nat /\ iov[at].len - r > 0
          /\ (iov[at].base + r) + (iov[at].len - r) = iov[at].base + iov[at].len
      BY <1>2, CutOff
    <2>2. seg.base = iov[at].base + r /\ seg.len = iov[at].len - r
      OBVIOUS
    <2>3. seg \in [base : Nat, len : Nat]
      BY <2>1
    <2> HIDE DEF seg
    <2> QED
      BY <1>3, <2>1, <2>2, <2>3
  <1>5. iov' = [iov EXCEPT ![at] = seg]
    BY DEF Stop
  <1> HIDE DEF seg
  <1>6. /\ iov' \in Seq([base : Nat, len : Nat]) /\ Len(iov') = Len(iov)
        /\ iov'[at] = seg
        /\ \A i \in 1..Len(iov) : i # at => iov'[i] = iov[i]
    <2>1. iov \in Seq([base : Nat, len : Nat])
      BY <1>1 DEF TypeOK
    <2> QED
      BY <1>2, <1>4, <1>5, <2>1, ExceptSeq
  <1>7. TypeOK'
    BY <1>1, <1>6 DEF Stop, TypeOK
  <1>8. \A i \in 1..Len(iov) : End(i)' = End(i)
    BY <1>2, <1>4, <1>6 DEF End
  <1>9. \A i \in at..(Len(iov) - 1) : iov'[i + 1].base = iov[i + 1].base
    <2> TAKE i \in at..(Len(iov) - 1)
    <2>1. i + 1 \in 1..Len(iov) /\ i + 1 # at
      BY <1>1, <1>2, VectorFacts
    <2> QED
      BY <1>6, <2>1
  <1>10. Contiguous'
    <2>1. \A i \in at..(Len(iov) - 1) : End(i)' = iov'[i + 1].base
      <3> TAKE i \in at..(Len(iov) - 1)
      <3>1. i \in 1..Len(iov)
        BY <1>1, <1>2, VectorFacts
      <3> QED
        BY <1>1, <1>8, <1>9, <3>1 DEF Contiguous
    <2>2. \A i \in at..Len(iov) : End(i)' <= request
      <3> TAKE i \in at..Len(iov)
      <3>1. i \in 1..Len(iov)
        BY <1>1, <1>2, VectorFacts
      <3> QED
        BY <1>1, <1>8, <3>1 DEF Contiguous
    <2>3. End(Len(iov))' = request
      BY <1>1, <1>2, <1>6, <1>8, VectorFacts DEF Contiguous
    <2> QED
      BY <1>6, <2>1, <2>2, <2>3 DEF Stop, Contiguous
  <1>11. Position'
    BY <1>2, <1>3, <1>4, <1>6 DEF Stop, Position
  <1> QED
    BY <1>1, <1>7, <1>10, <1>11 DEF IndInv, Stop

LEMMA ReturnStep == IndInv /\ Return => IndInv'
  BY DEF IndInv, Return, TypeOK, Contiguous, Position, End

\* Where every byte of the request is, at every step of the loop.
THEOREM IndInvTheorem == Spec => []IndInv
  <1>1. IndInv /\ [Next]_vars => IndInv'
    <2> SUFFICES ASSUME IndInv, [Next]_vars PROVE IndInv'
      OBVIOUS
    <2>1. CASE \E n \in 0..request : WritevReturns(n)
      BY <2>1, WritevReturnsStep
    <2>2. CASE UNCHANGED vars
      BY <2>2 DEF vars, IndInv, TypeOK, Contiguous, Position, End, Last
    <2> QED
      BY <2>1, <2>2, CallStep, CopySegmentStep, WritevErrorStep, SkipStep, StopStep,
         ReturnStep DEF Next
  <1> QED
    BY <1>1, InitIndInv, PTL DEF Spec

\* The bytes of the request go out once each and in order, wherever writev()
\* stops, and tnt_io_sendv_raw returns their number.
THEOREM RestIsSuffixTheorem == Spec => []RestIsSuffix
  <1>1. IndInv => RestIsSuffix
    <2> SUFFICES ASSUME IndInv PROVE RestIsSuffix
      OBVIOUS
    <2>1. TypeOK /\ Contiguous /\ Position /\ wire = Bytes(0, Len(wire))
      BY DEF IndInv
    <2>2. ASSUME pc = "send"
          PROVE  /\ at <= Len(iov) /\ iov[at].base = Len(wire)
                 /\ \A i \in at..(Len(iov) - 1) : iov[i].base + iov[i].len = iov[i + 1].base
                 /\ iov[Len(iov)].base + iov[Len(iov)].len = request
      BY <2>1, <2>2 DEF Contiguous, Position, End
    <2> QED
      BY <2>1, <2>2 DEF RestIsSuffix, Position
  <1> QED
    BY <1>1, IndInvTheorem, PTL

\* writev() and the callback are never asked to send nothing, for every
\* getiovmax() and however many segments are empty.
THEOREM AlwaysSomethingToSendTheorem == Spec => []AlwaysSomethingToSend
  <1>1. IndInv => AlwaysSomethingToSend
    <2> SUFFICES ASSUME IndInv, pc = "send" PROVE \E i \in at..Last : iov[i].len > 0
      BY DEF AlwaysSomethingToSend
    <2>1. TypeOK /\ at <= Len(iov) /\ iov[at].len > 0
      BY DEF IndInv, Position
    <2>2. at \in at..Last
      BY <2>1, LastFacts, VectorFacts
    <2> QED
      BY <2>1, <2>2
  <1> QED
    BY <1>1, IndInvTheorem, PTL
=============================================================================
