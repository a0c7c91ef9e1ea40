-------------------------- MODULE TntIoRecvProofs ---------------------------
(***************************************************************************)
(* Proofs about TntIoRecv, for every buffer size, every set of read sizes  *)
(* and every bound.                                                        *)
(***************************************************************************)
EXTENDS TntIoRecv, SeqFacts

USE RBufSizesAssumption, ReadSizesAssumption, BoundsAssumption

\* What every step leaves alone: the size of the buffer.
SameSize == size' = size /\ Cells' = Cells

-----------------------------------------------------------------------------
(* The copies. *)

\* A memcpy of n bytes out of rbuf.buf that stays inside it yields those bytes.
LEMMA SliceFacts ==
    ASSUME NEW b \in [Cells -> Nat], NEW o \in Nat, NEW n \in Nat,
           o + n <= size, size \in Nat
    PROVE  /\ Slice(b, o, n) \in Seq(Nat)
           /\ Len(Slice(b, o, n)) = n
           /\ \A i \in 1..n : Slice(b, o, n)[i] = b[o + i - 1]
  <1>1. \A i \in 1..n : b[o + i - 1] \in Nat
    BY DEF Cells
  <1>2. Slice(b, o, n) \in [1..n -> Nat]
    BY <1>1 DEF Slice
  <1>3. Slice(b, o, n) \in Seq(Nat)
    BY <1>2, SeqDef
  <1>4. Len(Slice(b, o, n)) = n
    BY <1>2, <1>3, LenProperties
  <1> QED
    BY <1>3, <1>4 DEF Slice

-----------------------------------------------------------------------------
(* The types the steps below work with, once for all of them. *)

\* The types and bounds every step of tnt_io_recv starts from.
LEMMA Types ==
    ASSUME IndInv
    PROVE  /\ put \in Nat /\ base \in Nat /\ taken \in Nat /\ left \in Nat
           /\ off \in Nat /\ top \in Nat /\ buf \in [Cells -> Nat]
           /\ out \in Seq(Nat) /\ delivered \in Seq(Nat)
           /\ Len(out) \in Nat /\ Len(delivered) \in Nat
           /\ off <= top /\ top <= size /\ size \in Nat /\ base <= taken /\ taken <= put
  <1>1. out \in Seq(Nat) /\ delivered \in Seq(Nat)
    BY DEF IndInv, TypeOK
  <1>2. Len(out) \in Nat /\ Len(delivered) \in Nat
    BY <1>1, LenProperties
  <1> QED
    BY <1>1, <1>2 DEF IndInv, TypeOK, BufferInBounds, CallShape

\* What copying n bytes from rbuf.off behind the bytes of the call gives.
LEMMA CopyFacts ==
    ASSUME IndInv, NEW n \in Nat, off + n <= top
    PROVE  LET bytes == out \o Slice(buf, off, n) IN
           /\ bytes \in Seq(Nat)
           /\ Len(bytes) = Len(out) + n
           /\ \A i \in 1..Len(bytes) : bytes[i] \in (base + 1)..taken
           /\ connected /\ ~broken /\ pc # "refill" =>
                \A i \in 1..Len(bytes) : bytes[i] = base + Len(delivered) + i
  <1> DEFINE sl == Slice(buf, off, n)
             bytes == out \o sl
  <1>t. /\ off \in Nat /\ top \in Nat /\ out \in Seq(Nat) /\ Len(out) \in Nat
        /\ Len(delivered) \in Nat /\ base \in Nat
        /\ buf \in [Cells -> Nat] /\ off + n <= size /\ size \in Nat
    BY Types
  <1>0. /\ sl \in Seq(Nat) /\ Len(sl) = n
        /\ \A i \in 1..n : sl[i] = buf[off + i - 1]
    <2>1. off \in Nat /\ buf \in [Cells -> Nat] /\ off + n <= size /\ size \in Nat
      BY <1>t
    <2> QED
      BY <2>1, SliceFacts, Zenon
  <1> HIDE DEF sl
  <1>1. /\ bytes \in Seq(Nat) /\ Len(bytes) = Len(out) + n
        /\ \A i \in 1..Len(bytes) :
              bytes[i] = IF i <= Len(out) THEN out[i] ELSE sl[i - Len(out)]
    <2>1. out \in Seq(Nat) /\ sl \in Seq(Nat)
      BY <1>0, <1>t
    <2>2. /\ bytes \in Seq(Nat) /\ Len(bytes) = Len(out) + Len(sl)
          /\ \A i \in 1..Len(out) + Len(sl) :
                bytes[i] = IF i <= Len(out) THEN out[i] ELSE sl[i - Len(out)]
      BY <2>1, ConcatFacts, Zenon
    <2> QED
      BY <2>2, <1>0, Zenon
  <1> HIDE DEF bytes
  <1>2. ASSUME NEW i \in 1..Len(bytes)
        PROVE  /\ bytes[i] \in (base + 1)..taken
               /\ connected /\ ~broken /\ pc # "refill" =>
                     bytes[i] = base + Len(delivered) + i
    <2>1. CASE i <= Len(out)
      <3>1. i \in 1..Len(out) /\ bytes[i] = out[i]
        BY <2>1, <1>1, <1>t
      <3> QED
        BY <3>1 DEF IndInv, OwnBytes, Aligned
    <2>2. CASE i > Len(out)
      <3> DEFINE j == off + (i - Len(out)) - 1
      <3>1. j \in Cells /\ off <= j /\ j < top
        BY <2>2, <1>1, <1>t DEF Cells
      <3>2. bytes[i] = buf[j]
        <4>1. i - Len(out) \in 1..n /\ bytes[i] = sl[i - Len(out)]
          BY <2>2, <1>1, <1>t
        <4> QED
          BY <4>1, <1>0
      <3>3. buf[j] \in (base + 1)..taken
        BY <3>1 DEF IndInv, OwnBytes
      <3>4. connected /\ ~broken /\ pc # "refill" =>
              buf[j] = base + Len(delivered) + Len(out) + (j - off) + 1
        BY <3>1 DEF IndInv, Aligned
      <3>5. base + Len(delivered) + Len(out) + (j - off) + 1 = base + Len(delivered) + i
        BY <1>1, <1>t
      <3> QED
        BY <3>2, <3>3, <3>4, <3>5
    <2> QED
      BY <2>1, <2>2, <1>t, <1>1
  <1> QED
    BY <1>1, <1>2 DEF bytes, sl

\* A read that returns bytes of this connection, in order while the stream is
\* not broken, keeps the history so.
LEMMA ReturnFacts ==
    ASSUME IndInv, NEW bytes \in Seq(Nat),
           delivered' = delivered \o bytes,
           base' = base, broken' = broken, taken' \in Nat, taken <= taken',
           \A i \in 1..Len(bytes) : bytes[i] \in (base + 1)..taken',
           ~broken => \A i \in 1..Len(bytes) : bytes[i] = base + Len(delivered) + i
    PROVE  /\ delivered' \in Seq(Nat)
           /\ Len(delivered') = Len(delivered) + Len(bytes)
           /\ \A i \in 1..Len(delivered') : delivered'[i] \in (base' + 1)..taken'
           /\ InOrder'
  <1>t. /\ delivered \in Seq(Nat) /\ Len(delivered) \in Nat /\ base \in Nat /\ taken \in Nat
        /\ Len(bytes) \in Nat
    BY Types, LenProperties
  <1>1. /\ delivered' \in Seq(Nat)
        /\ Len(delivered') = Len(delivered) + Len(bytes)
        /\ \A i \in 1..Len(delivered') : delivered'[i] =
              IF i <= Len(delivered) THEN delivered[i] ELSE bytes[i - Len(delivered)]
    BY <1>t, ConcatFacts
  <1>2. ASSUME NEW i \in 1..Len(delivered')
        PROVE  /\ delivered'[i] \in (base + 1)..taken'
               /\ ~broken => delivered'[i] = base + i
    <2>1. CASE i <= Len(delivered)
      <3>1. i \in 1..Len(delivered) /\ delivered'[i] = delivered[i]
        BY <2>1, <1>1, <1>t
      <3>2. delivered[i] \in (base + 1)..taken
        BY <3>1 DEF IndInv, OwnBytes
      <3> QED
        BY <3>1, <3>2, <1>t DEF IndInv, InOrder
    <2>2. CASE i > Len(delivered)
      <3> DEFINE j == i - Len(delivered)
      <3>1. j \in 1..Len(bytes) /\ delivered'[i] = bytes[j]
        BY <2>2, <1>1, <1>t
      <3>2. base + Len(delivered) + j = base + i
        BY <1>t, <1>1
      <3> QED
        BY <3>1, <3>2
    <2> QED
      BY <2>1, <2>2, <1>t, <1>1
  <1> QED
    BY <1>1, <1>2 DEF InOrder

-----------------------------------------------------------------------------
(* One lemma per action that moves bytes. *)

\* The fast path of tnt_io_recv.
LEMMA ServeInv == ASSUME IndInv, Serve, SameSize PROVE IndInv'
  <1> USE DEF SameSize
  <1> DEFINE bytes == out \o Slice(buf, off, left)
  <1>t. /\ off \in Nat /\ left \in Nat /\ top \in Nat /\ base \in Nat /\ taken \in Nat
        /\ Len(out) \in Nat /\ Len(delivered) \in Nat
        /\ off + left <= top
        /\ pc = "scan" /\ connected
    BY Types DEF IndInv, CallShape, Serve
  <1>n. /\ off' = off + left
        /\ pc' = "idle" /\ left' = 0 /\ out' = <<>>
        /\ delivered' = delivered \o bytes
        /\ UNCHANGED <<put, base, taken, eof, connected, buf, top, error, broken>>
    BY DEF Serve, Return, netVars
  <1>1. /\ bytes \in Seq(Nat) /\ Len(bytes) = Len(out) + left
        /\ \A i \in 1..Len(bytes) : bytes[i] \in (base + 1)..taken
        /\ ~broken => \A i \in 1..Len(bytes) : bytes[i] = base + Len(delivered) + i
    BY <1>t, CopyFacts
  <1> HIDE DEF bytes
  <1>2. /\ delivered' \in Seq(Nat) /\ Len(delivered') = Len(delivered) + Len(bytes)
        /\ \A i \in 1..Len(delivered') : delivered'[i] \in (base' + 1)..taken'
        /\ InOrder'
    <2>1. /\ base' = base /\ broken' = broken /\ taken' \in Nat /\ taken <= taken'
          /\ delivered' = delivered \o bytes
          /\ \A i \in 1..Len(bytes) : bytes[i] \in (base + 1)..taken'
      BY <1>1, <1>t, <1>n
    <2> QED
      BY <1>1, <2>1, ReturnFacts
  <1>a. TypeOK' /\ BufferInBounds'
    BY <1>t, <1>n, <1>2, EmptyFacts DEF IndInv, TypeOK, BufferInBounds
  <1>b. CallShape'
    BY <1>n, <1>t DEF IndInv, CallShape
  <1>d. OwnBytes'
    BY <1>n, <1>2, EmptyFacts DEF IndInv, OwnBytes
  <1>g. NothingDropped'
    <2>1. ~broken => base + Len(delivered) + Len(out) + (top - off) = taken
      BY <1>t DEF IndInv, NothingDropped, InFlight
    <2>2. InFlight' = top - (off + left) /\ Len(out') = 0
      BY <1>n, EmptyFacts DEF InFlight
    <2>3. /\ base' = base /\ taken' = taken
          /\ Len(delivered') = Len(delivered) + (Len(out) + left)
      BY <1>n, <1>1, <1>2
    <2>4. ~broken => base' + Len(delivered') + Len(out') + InFlight' = taken'
      BY <2>1, <2>2, <2>3, <1>t
    <2> QED
      BY <2>4, <1>n DEF NothingDropped
  <1>h. connected' /\ ~broken' => Aligned'
    BY <1>t, <1>n, <1>1, <1>2, EmptyFacts DEF IndInv, Aligned, Cells
  <1> QED
    BY <1>a, <1>b, <1>d, <1>2, <1>g, <1>h DEF IndInv

\* The copy before a refill.
LEMMA DrainInv == ASSUME IndInv, Drain, SameSize PROVE IndInv'
  <1> USE DEF SameSize
  <1> DEFINE bytes == out \o Slice(buf, off, top - off)
  <1>t. /\ off \in Nat /\ left \in Nat /\ top \in Nat /\ base \in Nat /\ taken \in Nat
        /\ Len(out) \in Nat /\ Len(delivered) \in Nat
        /\ off <= top /\ off + left > top
        /\ pc = "scan"
    BY Types DEF Drain
  <1>n. /\ off' = 0 /\ pc' = "refill" /\ left' = left - (top - off)
        /\ out' = bytes
        /\ UNCHANGED <<put, base, taken, eof, connected, buf, top, error, delivered, broken>>
    BY DEF Drain, netVars, histVars
  <1>1. /\ bytes \in Seq(Nat) /\ Len(bytes) = Len(out) + (top - off)
        /\ \A i \in 1..Len(bytes) : bytes[i] \in (base + 1)..taken
        /\ connected /\ ~broken =>
              \A i \in 1..Len(bytes) : bytes[i] = base + Len(delivered) + i
    <2>1. top - off \in Nat /\ off + (top - off) <= top
      BY <1>t
    <2> QED
      BY <2>1, <1>t, CopyFacts
  <1> HIDE DEF bytes
  <1>a. TypeOK' /\ BufferInBounds'
    BY <1>t, <1>n, <1>1 DEF IndInv, TypeOK, BufferInBounds
  <1>b. CallShape'
    BY <1>n, <1>t DEF IndInv, CallShape
  <1>d. OwnBytes'
    BY <1>n, <1>1 DEF IndInv, OwnBytes
  <1>f. InOrder'
    BY <1>n DEF IndInv, InOrder
  <1>g. NothingDropped'
    <2>1. connected /\ ~broken => base + Len(delivered) + Len(out) + (top - off) = taken
      BY <1>t DEF IndInv, NothingDropped, InFlight
    <2>2. InFlight' = 0
      BY <1>n DEF InFlight
    <2>3. connected /\ ~broken => base + Len(delivered) + Len(bytes) + 0 = taken
      BY <2>1, <1>1, <1>t
    <2> QED
      BY <2>2, <2>3, <1>n DEF NothingDropped
  <1>h. connected' /\ ~broken' => Aligned'
    BY <1>n, <1>1 DEF Aligned
  <1> QED
    BY <1>a, <1>b, <1>d, <1>f, <1>g, <1>h DEF IndInv

\* One recv() into the buffer, with or without the return that may follow it.
LEMMA RefillInv == ASSUME IndInv, NEW n \in 1..size, Refill(n), SameSize PROVE IndInv'
  <1> USE DEF SameSize
  <1>t. /\ put \in Nat /\ base \in Nat /\ taken \in Nat /\ left \in Nat /\ n \in Nat
        /\ out \in Seq(Nat) /\ Len(out) \in Nat /\ Len(delivered) \in Nat
        /\ buf \in [Cells -> Nat] /\ base <= taken /\ taken + n <= put
        /\ pc = "refill" /\ connected /\ off = 0 /\ n <= size /\ size \in Nat
    BY Types DEF Refill, IndInv, CallShape
  <1>n. /\ buf' = [i \in Cells |-> IF i < n THEN taken + i + 1 ELSE buf[i]]
        /\ top' = n /\ taken' = taken + n
        /\ UNCHANGED <<put, base, eof, connected>>
    BY DEF Refill
  <1>k. ~broken => base + Len(delivered) + Len(out) = taken
    <2>1. ~broken => base + Len(delivered) + Len(out) + 0 = taken
      BY <1>t DEF IndInv, NothingDropped, InFlight
    <2> QED
      BY <2>1, <1>t
  <1>c. /\ ~broken => \A i \in 1..Len(out) : out[i] = base + Len(delivered) + i
        /\ \A i \in 1..Len(out) : out[i] \in (base + 1)..taken
    BY <1>t DEF IndInv, Aligned, OwnBytes
  <1>m. /\ buf' \in [Cells -> Nat]
        /\ \A i \in Cells : i < n => buf'[i] = taken + i + 1
        /\ \A i \in Cells : i < n => buf'[i] \in (base + 1)..taken'
    BY <1>t, <1>n DEF Cells
  <1>1. CASE left <= n
    <2> DEFINE sl == Slice(buf', 0, left)
               bytes == out \o sl
    <2>n. /\ off' = left /\ pc' = "idle" /\ left' = 0 /\ out' = <<>>
          /\ delivered' = delivered \o bytes
          /\ UNCHANGED <<error, broken>>
      BY <1>1 DEF Refill, Return
    <2>0. /\ sl \in Seq(Nat) /\ Len(sl) = left
          /\ \A i \in 1..left : sl[i] = taken + i
      <3>1. /\ sl \in Seq(Nat) /\ Len(sl) = left
            /\ \A i \in 1..left : sl[i] = buf'[0 + i - 1]
        <4>1. /\ 0 + left <= size /\ 0 \in Nat /\ left \in Nat /\ size \in Nat
              /\ buf' \in [Cells -> Nat]
          BY <1>1, <1>t, <1>m
        <4> QED
          BY <4>1, SliceFacts
      <3>2. ASSUME NEW i \in 1..left PROVE buf'[0 + i - 1] = taken + i
        <4>1. 0 + i - 1 \in Cells /\ 0 + i - 1 < n /\ taken + (0 + i - 1) + 1 = taken + i
          BY <1>1, <1>t DEF Cells
        <4> QED
          BY <4>1, <1>m
      <3> QED
        BY <3>1, <3>2
    <2> HIDE DEF sl
    <2>1. /\ bytes \in Seq(Nat) /\ Len(bytes) = Len(out) + left
          /\ \A i \in 1..Len(bytes) :
                bytes[i] = IF i <= Len(out) THEN out[i] ELSE sl[i - Len(out)]
      <3>1. out \in Seq(Nat) /\ sl \in Seq(Nat)
        BY <2>0, <1>t
      <3>2. /\ bytes \in Seq(Nat) /\ Len(bytes) = Len(out) + Len(sl)
            /\ \A i \in 1..Len(out) + Len(sl) :
                  bytes[i] = IF i <= Len(out) THEN out[i] ELSE sl[i - Len(out)]
        BY <3>1, ConcatFacts, Zenon
      <3> QED
        BY <3>2, <2>0, Zenon
    <2> HIDE DEF bytes
    <2>2. ASSUME NEW i \in 1..Len(bytes)
          PROVE  /\ bytes[i] \in (base + 1)..taken'
                 /\ ~broken => bytes[i] = base + Len(delivered) + i
      <3>1. CASE i <= Len(out)
        <4>1. i \in 1..Len(out) /\ bytes[i] = out[i]
          BY <3>1, <2>1, <1>t
        <4> QED
          BY <4>1, <1>c, <1>t, <1>n
      <3>2. CASE i > Len(out)
        <4>1. i - Len(out) \in 1..left /\ bytes[i] = sl[i - Len(out)]
          BY <3>2, <2>1, <1>t
        <4>2. bytes[i] = taken + (i - Len(out))
          BY <4>1, <2>0
        <4>3. bytes[i] \in (base + 1)..taken'
          BY <4>1, <4>2, <1>t, <1>n, <1>1
        <4>4. ~broken => bytes[i] = base + Len(delivered) + i
          <5>1. i \in Int
            BY <2>1, <1>t
          <5> QED
            BY <5>1, <4>2, <1>k, <1>t
        <4> QED
          BY <4>3, <4>4
      <3> QED
        BY <3>1, <3>2, <1>t, <2>1
    <2>3. /\ delivered' \in Seq(Nat) /\ Len(delivered') = Len(delivered) + Len(bytes)
          /\ \A i \in 1..Len(delivered') : delivered'[i] \in (base' + 1)..taken'
          /\ InOrder'
      <3>1. /\ base' = base /\ broken' = broken /\ taken' \in Nat /\ taken <= taken'
            /\ delivered' = delivered \o bytes
        BY <1>t, <1>n, <2>n
      <3> QED
        BY <3>1, <2>1, <2>2, ReturnFacts
    <2>a. TypeOK' /\ BufferInBounds'
      BY <1>1, <1>t, <1>n, <1>m, <2>n, <2>3, EmptyFacts DEF IndInv, TypeOK, BufferInBounds
    <2>b. CallShape'
      BY <1>n, <1>t, <2>n DEF IndInv, CallShape
    <2>d. OwnBytes'
      BY <1>n, <1>m, <2>n, <2>3, EmptyFacts DEF OwnBytes
    <2>g. NothingDropped'
      <3>1. InFlight' = n - left /\ Len(out') = 0
        BY <1>n, <2>n, EmptyFacts DEF InFlight
      <3>2. /\ base' = base /\ taken' = taken + n
            /\ Len(delivered') = Len(delivered) + (Len(out) + left)
        BY <1>n, <2>1, <2>3
      <3>3. ~broken => base' + Len(delivered') + Len(out') + InFlight' = taken'
        <4>1. ASSUME ~broken PROVE base' + Len(delivered') = taken + left
          BY <4>1, <3>2, <1>k, <1>t
        <4> QED
          BY <4>1, <3>1, <3>2, <1>t
      <3> QED
        BY <3>3, <2>n DEF NothingDropped
    <2>h. ~broken => Aligned'
      <3>1. ASSUME ~broken, NEW i \in Cells, left <= i, i < n
            PROVE  buf'[i] = base' + Len(delivered') + Len(out') + (i - left) + 1
        <4>1. /\ Len(delivered') = Len(delivered) + (Len(out) + left) /\ Len(out') = 0
              /\ base' = base /\ i \in Int
          BY <1>n, <2>1, <2>3, <2>n, EmptyFacts DEF Cells
        <4>2. buf'[i] = taken + i + 1
          BY <3>1, <1>m
        <4>3. base + Len(delivered) + Len(out) = taken
          BY <3>1, <1>k
        <4>4. base' + Len(delivered') + Len(out') = taken + left
          BY <4>1, <4>3, <1>t
        <4> QED
          BY <4>1, <4>2, <4>4, <1>t
      <3> QED
        BY <3>1, <1>n, <2>n, EmptyFacts DEF Aligned
    <2> QED
      BY <2>a, <2>b, <2>d, <2>3, <2>g, <2>h, <2>n DEF IndInv
  <1>2. CASE left > n
    <2>n. /\ pc' = "scan"
          /\ UNCHANGED <<off, left, out, error, delivered, broken>>
      BY <1>2, <1>t DEF Refill, histVars
    <2>a. TypeOK' /\ BufferInBounds'
      BY <1>t, <1>n, <1>m, <2>n DEF IndInv, TypeOK, BufferInBounds
    <2>b. CallShape'
      BY <1>n, <1>t, <1>2, <2>n DEF IndInv, CallShape
    <2>d. OwnBytes'
      BY <1>n, <1>t, <1>m, <2>n DEF IndInv, OwnBytes
    <2>f. InOrder'
      BY <1>n, <2>n DEF IndInv, InOrder
    <2>g. NothingDropped'
      <3>1. InFlight' = n
        BY <1>n, <1>t, <2>n DEF InFlight
      <3>2. ~broken => base + Len(delivered) + Len(out) + n = taken'
        BY <1>k, <1>t, <1>n
      <3> QED
        BY <3>1, <3>2, <1>n, <2>n DEF NothingDropped
    <2>h. ~broken => Aligned'
      <3>1. ASSUME ~broken, NEW i \in Cells, i < n
            PROVE  buf'[i] = base + Len(delivered) + Len(out) + (i - 0) + 1
        <4>1. buf'[i] = taken + i + 1 /\ i \in Int
          BY <3>1, <1>m DEF Cells
        <4> QED
          BY <4>1, <1>k, <1>t, <3>1
      <3> QED
        BY <3>1, <1>n, <1>t, <1>c, <2>n DEF Aligned
    <2> QED
      BY <2>a, <2>b, <2>d, <2>f, <2>g, <2>h, <2>n DEF IndInv
  <1> QED
    BY <1>1, <1>2, <1>t

\* One recv() of a read without a buffer.
LEMMA RawRecvInv == ASSUME IndInv, NEW n \in 1..left, RawRecv(n), SameSize PROVE IndInv'
  <1> USE DEF SameSize
  <1> DEFINE run == [i \in 1..n |-> taken + i]
             bytes == out \o run
  <1>t. /\ put \in Nat /\ base \in Nat /\ taken \in Nat /\ left \in Nat /\ n \in Nat
        /\ out \in Seq(Nat) /\ Len(out) \in Nat /\ Len(delivered) \in Nat
        /\ base <= taken /\ taken + n <= put /\ n <= left /\ 1 <= n
        /\ pc = "raw" /\ connected /\ size = 0 /\ off = 0 /\ top = 0
    BY Types DEF RawRecv, IndInv, CallShape
  <1>n. /\ taken' = taken + n
        /\ UNCHANGED <<put, base, eof, connected, buf, off, top, error, broken>>
    BY DEF RawRecv, Return, bufVars, histVars
  <1>k. ~broken => base + Len(delivered) + Len(out) = taken
    <2>1. ~broken => base + Len(delivered) + Len(out) + (top - off) = taken
      BY <1>t DEF IndInv, NothingDropped, InFlight
    <2> QED
      BY <2>1, <1>t
  <1>c. /\ ~broken => \A i \in 1..Len(out) : out[i] = base + Len(delivered) + i
        /\ \A i \in 1..Len(out) : out[i] \in (base + 1)..taken
    BY <1>t DEF IndInv, Aligned, OwnBytes
  <1>0. /\ run \in Seq(Nat) /\ Len(run) = n
        /\ \A i \in 1..n : run[i] = taken + i
    BY <1>t, RunFacts
  <1> HIDE DEF run
  <1>1. /\ bytes \in Seq(Nat) /\ Len(bytes) = Len(out) + n
        /\ \A i \in 1..Len(bytes) :
              bytes[i] = IF i <= Len(out) THEN out[i] ELSE run[i - Len(out)]
    BY <1>0, <1>t, ConcatFacts
  <1> HIDE DEF bytes
  <1>2. ASSUME NEW i \in 1..Len(bytes)
        PROVE  /\ bytes[i] \in (base + 1)..taken'
               /\ ~broken => bytes[i] = base + Len(delivered) + i
    <2>1. CASE i <= Len(out)
      <3>1. i \in 1..Len(out) /\ bytes[i] = out[i]
        BY <2>1, <1>1, <1>t
      <3> QED
        BY <3>1, <1>c, <1>t, <1>n
    <2>2. CASE i > Len(out)
      <3>1. i \in Int /\ i - Len(out) \in 1..n /\ bytes[i] = run[i - Len(out)]
        BY <2>2, <1>1, <1>t
      <3>2. bytes[i] = taken + (i - Len(out))
        BY <3>1, <1>0
      <3>3. bytes[i] \in (base + 1)..taken'
        BY <3>1, <3>2, <1>t, <1>n
      <3>4. ~broken => bytes[i] = base + Len(delivered) + i
        BY <3>1, <3>2, <1>k, <1>t
      <3> QED
        BY <3>3, <3>4
    <2> QED
      BY <2>1, <2>2, <1>t, <1>1
  <1>3. CASE n = left
    <2>n. /\ pc' = "idle" /\ left' = 0 /\ out' = <<>>
          /\ delivered' = delivered \o bytes
      BY <1>3 DEF RawRecv, Return, bytes, run
    <2>3. /\ delivered' \in Seq(Nat) /\ Len(delivered') = Len(delivered) + Len(bytes)
          /\ \A i \in 1..Len(delivered') : delivered'[i] \in (base' + 1)..taken'
          /\ InOrder'
      <3>1. /\ base' = base /\ broken' = broken /\ taken' \in Nat /\ taken <= taken'
            /\ delivered' = delivered \o bytes
        BY <1>t, <1>n, <2>n
      <3> QED
        BY <3>1, <1>1, <1>2, ReturnFacts
    <2>a. TypeOK' /\ BufferInBounds'
      BY <1>t, <1>n, <2>n, <2>3, EmptyFacts DEF IndInv, TypeOK, BufferInBounds
    <2>b. CallShape'
      BY <1>n, <1>t, <2>n DEF IndInv, CallShape
    <2>d. OwnBytes'
      <3>1. Cells = {}
        BY <1>t DEF Cells
      <3> QED
        BY <3>1, <2>n, <2>3, EmptyFacts DEF OwnBytes
    <2>g. NothingDropped'
      <3>1. InFlight' = 0 /\ Len(out') = 0
        BY <1>t, <1>n, <2>n, EmptyFacts DEF InFlight
      <3>2. /\ base' = base /\ taken' = taken + n
            /\ Len(delivered') = Len(delivered) + (Len(out) + n)
        BY <1>n, <1>1, <2>3
      <3>3. ~broken => base' + Len(delivered') + Len(out') + InFlight' = taken'
        BY <3>1, <3>2, <1>k, <1>t
      <3> QED
        BY <3>3, <1>n DEF NothingDropped
    <2>h. Aligned'
      BY <1>n, <1>t, <2>n, EmptyFacts DEF Aligned, Cells
    <2> QED
      BY <2>a, <2>b, <2>d, <2>3, <2>g, <2>h DEF IndInv
  <1>4. CASE n # left
    <2>n. /\ left' = left - n /\ out' = bytes
          /\ UNCHANGED <<pc, delivered>>
      BY <1>4 DEF RawRecv, bytes, run, histVars
    <2>a. TypeOK' /\ BufferInBounds'
      BY <1>t, <1>n, <1>1, <2>n DEF IndInv, TypeOK, BufferInBounds
    <2>b. CallShape'
      BY <1>n, <1>t, <1>4, <2>n DEF IndInv, CallShape
    <2>d. OwnBytes'
      BY <1>n, <1>t, <1>2, <2>n DEF IndInv, OwnBytes, Cells
    <2>f. InOrder'
      BY <1>n, <2>n DEF IndInv, InOrder
    <2>g. NothingDropped'
      <3>1. InFlight' = 0
        BY <1>n, <1>t, <2>n DEF InFlight
      <3>2. ~broken => base + Len(delivered) + Len(bytes) + 0 = taken'
        <4>1. Len(bytes) = Len(out) + n /\ taken' = taken + n
          BY <1>1, <1>n
        <4> QED
          BY <4>1, <1>k, <1>t
      <3> QED
        BY <3>1, <3>2, <1>n, <2>n DEF NothingDropped
    <2>h. ~broken => Aligned'
      BY <1>n, <1>t, <1>2, <2>n DEF Aligned, Cells
    <2> QED
      BY <2>a, <2>b, <2>d, <2>f, <2>g, <2>h, <1>n DEF IndInv
  <1> QED
    BY <1>3, <1>4

\* A failed recv(): the stream stays aligned only if nothing was copied and the
\* buffer was never filled; otherwise ReturnError marks it broken.
LEMMA FailInv ==
    ASSUME IndInv, pc \in {"refill", "raw"}, ReturnError, UNCHANGED <<netVars, bufVars>>,
           SameSize
    PROVE  IndInv'
  <1> USE DEF SameSize
  <1>t. /\ base \in Nat /\ taken \in Nat /\ Len(delivered) \in Nat
        /\ off \in Nat /\ top \in Nat /\ off <= top
    BY Types
  <1>n. /\ pc' = "idle" /\ left' = 0 /\ out' = <<>> /\ error' = "ESYSTEM"
        /\ broken' = (broken \/ out # <<>> \/ top > 0)
        /\ UNCHANGED <<put, base, taken, eof, connected, buf, off, top, delivered>>
    BY DEF ReturnError, netVars, bufVars
  <1>k. ~broken' => ~broken /\ out = <<>> /\ top = 0 /\ off = 0
    <2>1. ~broken' => ~broken /\ out = <<>> /\ ~(top > 0)
      BY <1>n, Zenon
    <2>2. ~(top > 0) => top = 0 /\ off = 0
      BY <1>t
    <2> QED
      BY <2>1, <2>2, Zenon
  <1>a. TypeOK' /\ BufferInBounds'
    BY <1>n, EmptyFacts DEF IndInv, TypeOK, BufferInBounds, Errors
  <1>b. CallShape'
    BY <1>n, <1>t DEF IndInv, CallShape
  <1>d. OwnBytes'
    BY <1>n, EmptyFacts DEF IndInv, OwnBytes
  <1>f. InOrder'
    BY <1>n, <1>k DEF IndInv, InOrder
  <1>g. NothingDropped'
    <2>1. InFlight' = top - off /\ Len(out') = 0
      BY <1>n, EmptyFacts DEF InFlight
    <2>2. ASSUME connected, ~broken' PROVE base + Len(delivered) + 0 + InFlight' = taken
      <3>1. base + Len(delivered) + 0 + InFlight = taken
        BY <2>2, <1>k, EmptyFacts DEF IndInv, NothingDropped
      <3>2. InFlight = 0
        BY <2>2, <1>k DEF InFlight
      <3>3. top - off = 0
        BY <2>2, <1>k
      <3> QED
        BY <2>1, <3>1, <3>2, <3>3
    <2> QED
      BY <2>1, <2>2, <1>n DEF NothingDropped
  <1>h. ~broken' => Aligned'
    BY <1>n, <1>k, EmptyFacts DEF Aligned, Cells
  <1> QED
    BY <1>a, <1>b, <1>d, <1>f, <1>g, <1>h DEF IndInv

-----------------------------------------------------------------------------
(* The steps that move no byte to the caller. *)

\* tnt_net and tnt_iob_init leave the receiving half empty.
LEMMA InitInv == Init => IndInv
  <1> SUFFICES ASSUME Init PROVE IndInv
    OBVIOUS
  <1>1. TypeOK /\ BufferInBounds
    <2>1. buf \in [Cells -> Nat]
      BY DEF Init
    <2>2. BufferInBounds
      BY DEF Init, BufferInBounds
    <2> QED
      BY <2>1, <2>2, EmptyFacts DEF Init, TypeOK, Errors
  <1>2. CallShape /\ OwnBytes /\ InOrder
    BY EmptyFacts DEF Init, CallShape, OwnBytes, InOrder
  <1>3. NothingDropped /\ (connected => Aligned)
    BY EmptyFacts DEF Init, NothingDropped, Aligned
  <1> QED
    BY <1>1, <1>2, <1>3 DEF IndInv

\* The server's steps and the entry of a read leave every byte where it is.
LEMMA QuietInv ==
    ASSUME IndInv, ServerSend \/ ServerClose \/ \E n \in ReadSizes : Read(n), SameSize
    PROVE  IndInv'
  <1> USE DEF SameSize
  <1>t. /\ put \in Nat /\ taken \in Nat /\ base \in Nat /\ base <= taken /\ taken <= put
    BY Types
  <1>n. /\ UNCHANGED <<base, taken, connected, buf, off, top, error, delivered, broken>>
        /\ put' \in Nat /\ put <= put' /\ eof' \in BOOLEAN
    <2>1. CASE ServerSend
      BY <2>1, <1>t DEF ServerSend, IndInv, TypeOK, bufVars, histVars
    <2>2. CASE ServerClose
      BY <2>2, <1>t DEF ServerClose, bufVars, histVars
    <2>3. CASE \E n \in ReadSizes : Read(n)
      BY <2>3, <1>t DEF Read, IndInv, TypeOK, netVars, bufVars, histVars
    <2> QED
      BY <2>1, <2>2, <2>3
  <1>c. \/ UNCHANGED <<pc, left, out>>
        \/ /\ pc = "idle" /\ pc' \in {"scan", "raw"} /\ left' \in Nat \ {0}
           /\ out = <<>> /\ out' = <<>>
           /\ pc' = "raw" => size = 0
    BY DEF ServerSend, ServerClose, Read, callVars, IndInv, CallShape
  <1>o. out' = out
    BY <1>c
  <1>a. TypeOK' /\ BufferInBounds'
    BY <1>n, <1>c, <1>o DEF IndInv, TypeOK, BufferInBounds
  <1>b. CallShape'
    BY <1>n, <1>c, <1>t DEF IndInv, CallShape
  <1>d. OwnBytes' /\ InOrder'
    BY <1>n, <1>o DEF IndInv, OwnBytes, InOrder
  <1>e. pc' = "refill" <=> pc = "refill"
    BY <1>c
  <1>g. NothingDropped'
    BY <1>n, <1>o, <1>e DEF IndInv, NothingDropped, InFlight
  <1>h. connected' /\ ~broken' => Aligned'
    BY <1>n, <1>o, <1>e DEF IndInv, Aligned
  <1> QED
    BY <1>a, <1>b, <1>d, <1>g, <1>h DEF IndInv

\* tnt_close and tnt_connect start over with an empty buffer.
LEMMA ReconnectInv ==
    ASSUME IndInv, Close \/ Connect \/ ConnectError, SameSize
    PROVE  IndInv'
  <1> USE DEF SameSize
  <1>t. /\ put \in Nat /\ taken \in Nat /\ base \in Nat /\ base <= taken /\ taken <= put
        /\ off \in Nat /\ top \in Nat /\ off <= top /\ size \in Nat
    BY Types
  <1>i. pc = "idle" /\ left = 0 /\ out = <<>>
    BY DEF Close, Connect, ConnectError, IndInv, CallShape
  <1>z. ~connected => top = 0 /\ off = 0
    BY <1>t DEF IndInv, CallShape
  <1>n. /\ buf' = buf /\ off' = 0 /\ top' = 0
        /\ pc' = "idle" /\ left' = 0 /\ out' = <<>>
        /\ put' = put /\ eof' \in BOOLEAN /\ error' \in Errors
    BY <1>i, <1>z DEF Close, Connect, ConnectError, ClearBuf, bufVars, callVars,
                      IndInv, TypeOK, Errors
  <1>1. CASE Connect
    <2>n. /\ connected' = TRUE /\ base' = put /\ taken' = put
          /\ delivered' = <<>> /\ broken' = FALSE
      BY <1>1 DEF Connect
    <2>a. TypeOK' /\ BufferInBounds'
      <3>1. BufferInBounds'
        BY <1>n, <1>t DEF BufferInBounds
      <3> QED
        BY <3>1, <1>n, <2>n, <1>t, EmptyFacts DEF IndInv, TypeOK
    <2>b. CallShape'
      BY <1>n, <2>n, <1>t DEF CallShape
    <2>c. OwnBytes' /\ InOrder' /\ Aligned'
      BY <1>n, <2>n, EmptyFacts DEF OwnBytes, InOrder, Aligned, Cells
    <2>d. NothingDropped'
      BY <1>n, <2>n, <1>t, EmptyFacts DEF NothingDropped, InFlight
    <2> QED
      BY <2>a, <2>b, <2>c, <2>d DEF IndInv
  <1>2. CASE Close \/ ConnectError
    <2>n. connected' = FALSE /\ UNCHANGED <<base, taken, delivered, broken>>
      BY <1>2 DEF Close, ConnectError, histVars
    <2>a. TypeOK' /\ BufferInBounds'
      <3>1. BufferInBounds'
        BY <1>n, <1>t DEF BufferInBounds
      <3> QED
        BY <3>1, <1>n, <2>n, <1>t, EmptyFacts DEF IndInv, TypeOK
    <2>b. CallShape'
      BY <1>n, <2>n, <1>t DEF CallShape
    <2>c. OwnBytes' /\ InOrder'
      BY <1>n, <2>n, EmptyFacts DEF IndInv, OwnBytes, InOrder, Cells
    <2>d. NothingDropped'
      BY <2>n DEF NothingDropped
    <2> QED
      BY <2>a, <2>b, <2>c, <2>d, <2>n DEF IndInv
  <1> QED
    BY <1>1, <1>2

\* A step of something else.
LEMMA StutterInv == IndInv /\ UNCHANGED vars => IndInv'
  BY DEF vars, netVars, bufVars, callVars, histVars, IndInv, TypeOK, BufferInBounds,
         CallShape, OwnBytes, InOrder, NothingDropped, InFlight, Aligned, Cells

-----------------------------------------------------------------------------
\* Where every byte is, at every step of every read.
THEOREM IndInvTheorem == Spec => []IndInv
  <1>1. Init => IndInv
    BY InitInv
  <1>2. IndInv /\ [Next]_vars => IndInv'
    <2> SUFFICES ASSUME IndInv, [Next]_vars PROVE IndInv'
      OBVIOUS
    <2>0. SameSize
      BY DEF Next, vars, SameSize, Cells
    <2>1. CASE ServerSend \/ ServerClose \/ \E n \in ReadSizes : Read(n)
      BY <2>1, <2>0, QuietInv
    <2>2. CASE Serve
      BY <2>2, <2>0, ServeInv
    <2>3. CASE Drain
      BY <2>3, <2>0, DrainInv
    <2>4. CASE \E n \in 1..size : Refill(n)
      BY <2>4, <2>0, RefillInv
    <2>5. CASE \E n \in 1..left : RawRecv(n)
      BY <2>5, <2>0, RawRecvInv
    <2>6. CASE RecvEmpty \/ RecvError
      BY <2>6, <2>0, FailInv DEF RecvEmpty, RecvError
    <2>7. CASE Close \/ Connect \/ ConnectError
      BY <2>7, <2>0, ReconnectInv
    <2>8. CASE UNCHANGED vars
      BY <2>8, StutterInv
    <2> QED
      BY <2>1, <2>2, <2>3, <2>4, <2>5, <2>6, <2>7, <2>8 DEF Next, Step, CallStep
  <1> QED
    BY <1>1, <1>2, PTL DEF Spec

\* Every variable of the receiving half keeps its type.
THEOREM TypeCorrect == Spec => []TypeOK
  <1>1. IndInv => TypeOK
    BY DEF IndInv
  <1> QED
    BY <1>1, IndInvTheorem, PTL

\* tnt_io_recv never copies outside rbuf.buf, for any buffer size, any reads and
\* any failures.
THEOREM BufferInBoundsTheorem == Spec => []BufferInBounds
  <1>1. IndInv => BufferInBounds
    BY DEF IndInv
  <1> QED
    BY <1>1, IndInvTheorem, PTL

\* Until an error loses its place, reads return the server's bytes in order.
THEOREM InOrderTheorem == Spec => []InOrder
  <1>1. IndInv => InOrder
    BY DEF IndInv
  <1> QED
    BY <1>1, IndInvTheorem, PTL

\* Between recv() and the caller no byte is dropped, and none is added.
THEOREM NothingDroppedTheorem == Spec => []NothingDropped
  <1>1. IndInv => NothingDropped
    BY DEF IndInv
  <1> QED
    BY <1>1, IndInvTheorem, PTL

\* No read, before or after an error, returns a byte of an earlier connection.
THEOREM CurrentConnectionOnlyTheorem == Spec => []CurrentConnectionOnly
  <1>1. IndInv => CurrentConnectionOnly
    BY DEF IndInv, OwnBytes, CurrentConnectionOnly
  <1> QED
    BY <1>1, IndInvTheorem, PTL

-----------------------------------------------------------------------------
(* TntIoRecv implements ByteStream. *)

\* A read that returns is a Get of the abstract stream, or a GetBroken.
LEMMA ReturnRefines ==
    ASSUME IndInv, IndInv', NEW bytes \in Seq(Nat),
           delivered' = delivered \o bytes, UNCHANGED <<put, base, broken>>
    PROVE  [Stream!Next]_(Stream!vars)
  <1>t. /\ delivered \in Seq(Nat) /\ Len(delivered) \in Nat
        /\ base \in Nat /\ put \in Nat
    BY Types
  <1>n. put' = put /\ base' = base /\ broken' = broken
    OBVIOUS
  <1>e. CASE bytes = <<>>
    <2>1. delivered' = delivered
      BY <1>e, <1>t, ConcatEmptySeq
    <2> QED
      BY <2>1, <1>n DEF Stream!vars
  <1> SUFFICES ASSUME bytes # <<>> PROVE Stream!Next
    BY <1>e
  <1>0. Len(bytes) \in Nat /\ Len(bytes) >= 1
    BY EmptySeq, LenProperties
  <1>1. /\ Len(delivered') = Len(delivered) + Len(bytes)
        /\ \A i \in 1..Len(delivered') : delivered'[i] =
              IF i <= Len(delivered) THEN delivered[i] ELSE bytes[i - Len(delivered)]
    <2>1. /\ Len(delivered \o bytes) = Len(delivered) + Len(bytes)
          /\ \A i \in 1..Len(delivered) + Len(bytes) : (delivered \o bytes)[i] =
                IF i <= Len(delivered) THEN delivered[i] ELSE bytes[i - Len(delivered)]
      BY <1>t, ConcatFacts, Zenon
    <2> QED
      BY <2>1, Zenon
  <1>2. \A i \in 1..Len(delivered') : delivered'[i] \in (base + 1)..put
    <2>1. /\ \A i \in 1..Len(delivered') : delivered'[i] \in (base + 1)..taken'
          /\ taken' <= put /\ taken' \in Nat
      BY <1>n DEF IndInv, OwnBytes, CallShape, TypeOK
    <2>2. (base + 1)..taken' \subseteq (base + 1)..put
      BY <2>1, <1>t
    <2> QED
      BY <2>1, <2>2, Zenon
  <1>3. CASE broken
    <2>1. Len(delivered') >= Len(delivered)
      BY <1>0, <1>1, <1>t
    <2>2. \A i \in 1..Len(delivered) : delivered'[i] = delivered[i]
      BY <1>0, <1>1, <1>t
    <2> QED
      BY <1>3, <2>1, <2>2, <1>2, <1>n DEF Stream!Next, Stream!GetBroken
  <1>4. CASE ~broken
    <2> DEFINE n == Len(bytes)
               run == Stream!Run(base + Len(delivered), n)
    <2>1. \A i \in 1..Len(delivered') : delivered'[i] = base + i
      BY <1>4, <1>n DEF IndInv, InOrder
    <2>2. ASSUME NEW i \in 1..n PROVE bytes[i] = base + Len(delivered) + i
      <3>1. /\ Len(delivered) + i \in 1..Len(delivered')
            /\ ~(Len(delivered) + i <= Len(delivered))
            /\ Len(delivered) + i - Len(delivered) = i
        BY <1>0, <1>1, <1>t
      <3>2. delivered'[Len(delivered) + i] = bytes[i]
        BY <3>1, <1>1
      <3>3. delivered'[Len(delivered) + i] = base + (Len(delivered) + i)
        BY <3>1, <2>1
      <3>4. base + (Len(delivered) + i) = base + Len(delivered) + i
        BY <1>t
      <3> QED
        BY <3>2, <3>3, <3>4
    <2>3. bytes = run
      <3>1. /\ run \in Seq(Nat) /\ Len(run) = n
            /\ \A j \in 1..n : run[j] = base + Len(delivered) + j
        <4>1. base + Len(delivered) \in Nat
          BY <1>t
        <4> QED
          BY <4>1, <1>0, RunFacts DEF Stream!Run
      <3> QED
        BY <3>1, <2>2, <1>0, SeqEqual
    <2>4. n \in 1..(put - base - Len(delivered))
      <3>1. Len(delivered') \in 1..Len(delivered')
        BY <1>0, <1>1, <1>t
      <3>2. base + Len(delivered') \in (base + 1)..put
        BY <3>1, <1>2, <2>1
      <3> QED
        BY <3>2, <1>0, <1>1, <1>t
    <2> QED
      BY <1>4, <2>3, <2>4, <1>n DEF Stream!Next, Stream!Get
  <1> QED
    BY <1>3, <1>4

\* Serve and Refill return numbers, as many as were copied and were left to copy.
LEMMA ReturnedBytes ==
    ASSUME IndInv, NEW b \in [Cells -> Nat], NEW o \in Nat, o + left <= size
    PROVE  /\ out \o Slice(b, o, left) \in Seq(Nat)
           /\ Len(out \o Slice(b, o, left)) = Len(out) + left
  <1>1. out \in Seq(Nat) /\ left \in Nat /\ size \in Nat
    BY Types
  <1>2. Slice(b, o, left) \in Seq(Nat) /\ Len(Slice(b, o, left)) = left
    BY <1>1, SliceFacts
  <1> QED
    BY <1>1, <1>2, ConcatProperties

\* Every step of the receiving half is a step of the abstract stream or leaves
\* it alone.
LEMMA StepRefines ==
    ASSUME IndInv, IndInv', [Next]_vars
    PROVE  [Stream!Next]_(Stream!vars)
  <1>t. /\ put \in Nat /\ base \in Nat /\ taken \in Nat /\ left \in Nat
        /\ off \in Nat /\ top \in Nat /\ buf \in [Cells -> Nat]
        /\ off <= top /\ top <= size /\ size \in Nat /\ out \in Seq(Nat)
    BY Types
  <1>m. buf' \in [Cells -> Nat]
    <2>1. Cells' = Cells
      BY DEF Next, vars, Cells
    <2> QED
      BY <2>1 DEF IndInv, TypeOK
  <1>1. CASE ServerSend
    BY <1>1, <1>t DEF ServerSend, histVars, Stream!Next, Stream!Put
  <1>2. CASE ServerClose \/ (\E n \in ReadSizes : Read(n)) \/ Drain \/ Close \/ ConnectError
             \/ UNCHANGED vars
    BY <1>2 DEF ServerClose, Read, Drain, Close, ConnectError, vars, netVars, histVars,
                Stream!vars
  <1>3. CASE Serve
    <2>1. off + left <= size
      BY <1>3, <1>t DEF Serve
    <2>2. out \o Slice(buf, off, left) \in Seq(Nat)
      BY <2>1, <1>t, ReturnedBytes
    <2>3. /\ delivered' = delivered \o (out \o Slice(buf, off, left))
          /\ UNCHANGED <<put, base, broken>>
      BY <1>3 DEF Serve, Return, netVars
    <2> QED
      BY <2>2, <2>3, ReturnRefines
  <1>4. CASE \E n \in 1..size : Refill(n)
    <2> PICK n \in 1..size : Refill(n)
      BY <1>4
    <2>0. UNCHANGED <<put, base, broken>>
      BY DEF Refill, Return, histVars
    <2>1. CASE left <= n
      <3>1. 0 + left <= size /\ 0 \in Nat
        BY <2>1, <1>t
      <3>2. out \o Slice(buf', 0, left) \in Seq(Nat)
        BY <3>1, <1>m, ReturnedBytes
      <3>3. delivered' = delivered \o (out \o Slice(buf', 0, left))
        BY <2>1 DEF Refill, Return
      <3> QED
        BY <3>2, <3>3, <2>0, ReturnRefines
    <2>2. CASE ~(left <= n)
      BY <2>2, <2>0 DEF Refill, histVars, Stream!vars
    <2> QED
      BY <2>1, <2>2
  <1>5. CASE \E n \in 1..left : RawRecv(n)
    <2> PICK n \in 1..left : RawRecv(n)
      BY <1>5
    <2>0. UNCHANGED <<put, base, broken>>
      BY DEF RawRecv, Return, histVars
    <2>1. CASE n = left
      <3> DEFINE bytes == out \o [i \in 1..n |-> taken + i]
      <3>1. [i \in 1..n |-> taken + i] \in Seq(Nat)
        BY <1>t, RunFacts
      <3>2. bytes \in Seq(Nat)
        BY <3>1, <1>t, ConcatProperties
      <3>3. delivered' = delivered \o bytes
        BY <2>1 DEF RawRecv, Return
      <3> QED
        BY <3>2, <3>3, <2>0, ReturnRefines
    <2>2. CASE n # left
      BY <2>2, <2>0 DEF RawRecv, histVars, Stream!vars
    <2> QED
      BY <2>1, <2>2
  <1>6. CASE RecvEmpty \/ RecvError
    <2>1. /\ UNCHANGED <<put, base, delivered>>
          /\ broken' = (broken \/ out # <<>> \/ top > 0)
      BY <1>6 DEF RecvEmpty, RecvError, ReturnError, netVars
    <2>2. broken \in BOOLEAN
      BY DEF IndInv, TypeOK
    <2>3. broken' = TRUE \/ broken' = broken
      BY <2>1, <2>2, Zenon
    <2> QED
      BY <2>1, <2>3 DEF Stream!Next, Stream!Break, Stream!vars
  <1>7. CASE Connect
    <2>1. /\ base' = put /\ UNCHANGED put
          /\ delivered' = <<>> /\ broken' = FALSE
      BY <1>7 DEF Connect
    <2>2. /\ taken <= put
          /\ \A i \in 1..Len(delivered) : delivered[i] \in (base + 1)..taken
      BY DEF IndInv, CallShape, OwnBytes
    <2>3. \A i \in 1..Len(delivered) : delivered[i] <= put
      BY <2>2, <1>t
    <2> QED
      BY <2>1, <2>3, <1>t DEF Stream!Next, Stream!Reset
  <1> QED
    BY <1>1, <1>2, <1>3, <1>4, <1>5, <1>6, <1>7 DEF Next, Step, CallStep

\* What the caller of s->read sees is a FIFO byte stream, for every buffer size,
\* every split of the bytes by recv() and every sequence of read sizes.
THEOREM RecvImplementsStream == Spec => StreamSpec
  <1>1. Init => Stream!Init
    BY DEF Init, Stream!Init
  <1>2. IndInv /\ IndInv' /\ [Next]_vars => [Stream!Next]_(Stream!vars)
    BY StepRefines
  <1> QED
    BY <1>1, <1>2, IndInvTheorem, PTL DEF Spec, StreamSpec, Stream!Spec

-----------------------------------------------------------------------------
\* A read that returns bytes returns Asked of them.
LEMMA ReturnExact ==
    ASSUME IndInv, NEW bytes \in Seq(Nat), Len(bytes) = Asked,
           pc' = "idle", delivered' = delivered \o bytes
    PROVE  ExactStep
  <1>1. delivered \in Seq(Nat)
    BY Types
  <1>2. Len(delivered') = Len(delivered) + Asked
    BY <1>1, ConcatFacts
  <1> QED
    BY <1>2 DEF ExactStep

\* No step of a read loses count of what it has and what it still wants.
LEMMA StepExact == ASSUME IndInv, [Next]_vars PROVE [ExactStep]_vars
  <1>t. /\ left \in Nat /\ off \in Nat /\ top \in Nat /\ buf \in [Cells -> Nat]
        /\ out \in Seq(Nat) /\ Len(out) \in Nat /\ taken \in Nat
        /\ off <= top /\ top <= size /\ size \in Nat
    BY Types
  <1>s. SameSize
    BY DEF Next, vars, SameSize, Cells
  <1>1. CASE Serve
    <2>1. off + left <= size
      BY <1>1, <1>t DEF Serve
    <2>2. /\ out \o Slice(buf, off, left) \in Seq(Nat)
          /\ Len(out \o Slice(buf, off, left)) = Asked
      BY <2>1, <1>t, ReturnedBytes DEF Asked
    <2>3. pc' = "idle" /\ delivered' = delivered \o (out \o Slice(buf, off, left))
      BY <1>1 DEF Serve, Return
    <2> QED
      BY <2>2, <2>3, ReturnExact
  <1>2. CASE Drain
    <2>1. top - off \in Nat /\ off + (top - off) <= size
      BY <1>t
    <2>2. /\ Slice(buf, off, top - off) \in Seq(Nat)
          /\ Len(Slice(buf, off, top - off)) = top - off
      BY <2>1, <1>t, SliceFacts
    <2>3. Len(out \o Slice(buf, off, top - off)) = Len(out) + (top - off)
      BY <2>2, <1>t, ConcatFacts
    <2>4. /\ pc' = "refill" /\ out' = out \o Slice(buf, off, top - off)
          /\ left' = left - (top - off)
      BY <1>2 DEF Drain
    <2>5. Asked' = Asked
      BY <2>1, <2>3, <2>4, <1>t DEF Asked
    <2> QED
      BY <2>4, <2>5 DEF ExactStep
  <1>3. CASE \E n \in 1..size : Refill(n)
    <2> PICK n \in 1..size : Refill(n)
      BY <1>3
    <2>1. CASE left <= n
      <3>1. 0 + left <= size /\ 0 \in Nat
        BY <2>1, <1>t
      <3>2. buf' \in [Cells -> Nat]
        BY <1>s, RefillInv DEF IndInv, TypeOK, SameSize
      <3>3. /\ out \o Slice(buf', 0, left) \in Seq(Nat)
            /\ Len(out \o Slice(buf', 0, left)) = Asked
        BY <3>1, <3>2, ReturnedBytes DEF Asked
      <3>4. pc' = "idle" /\ delivered' = delivered \o (out \o Slice(buf', 0, left))
        BY <2>1 DEF Refill, Return
      <3> QED
        BY <3>3, <3>4, ReturnExact
    <2>2. CASE ~(left <= n)
      BY <2>2 DEF Refill, ExactStep, Asked
    <2> QED
      BY <2>1, <2>2
  <1>4. CASE \E n \in 1..left : RawRecv(n)
    <2> PICK n \in 1..left : RawRecv(n)
      BY <1>4
    <2> DEFINE bytes == out \o [i \in 1..n |-> taken + i]
    <2>1. /\ [i \in 1..n |-> taken + i] \in Seq(Nat)
          /\ Len([i \in 1..n |-> taken + i]) = n
      BY <1>t, RunFacts
    <2>2. bytes \in Seq(Nat) /\ Len(bytes) = Len(out) + n
      BY <2>1, <1>t, ConcatFacts
    <2>3. CASE n = left
      <3>1. pc' = "idle" /\ delivered' = delivered \o bytes
        BY <2>3 DEF RawRecv, Return
      <3>2. Len(bytes) = Asked
        BY <2>2, <2>3 DEF Asked
      <3> QED
        BY <2>2, <3>1, <3>2, ReturnExact
    <2>4. CASE n # left
      <3>1. /\ pc' = pc /\ pc = "raw" /\ out' = bytes /\ left' = left - n
        BY <2>4 DEF RawRecv
      <3>2. n \in Nat /\ left - n \in Int
        BY <1>t
      <3>3. Len(out') = Len(out) + n
        BY <2>2, <3>1
      <3>4. Len(out') + left' = Len(out) + left
        BY <3>1, <3>2, <3>3, <1>t
      <3> QED
        BY <3>1, <3>4 DEF ExactStep, Asked
    <2> QED
      BY <2>3, <2>4
  <1>5. CASE RecvEmpty \/ RecvError
    BY <1>5 DEF RecvEmpty, RecvError, ReturnError, ExactStep
  <1>6. CASE ServerSend \/ ServerClose \/ UNCHANGED vars
    BY <1>6 DEF ServerSend, ServerClose, callVars, vars, ExactStep, Asked
  <1>7. CASE (\E n \in ReadSizes : Read(n)) \/ Close \/ Connect \/ ConnectError
    BY <1>7 DEF Read, Close, Connect, ConnectError, ExactStep
  <1> QED
    BY <1>1, <1>2, <1>3, <1>4, <1>5, <1>6, <1>7 DEF Next, Step, CallStep

\* s->read returns exactly the bytes asked for, or none.
THEOREM ExactSizeTheorem == Spec => ExactSize
  <1>1. IndInv /\ [Next]_vars => [ExactStep]_vars
    BY StepExact
  <1> QED
    BY <1>1, IndInvTheorem, PTL DEF Spec, ExactSize
=============================================================================
