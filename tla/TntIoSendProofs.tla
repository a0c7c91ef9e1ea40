-------------------------- MODULE TntIoSendProofs ---------------------------
(***************************************************************************)
(* Proofs about TntIoSend, for every buffer size, every set of write sizes *)
(* and every bound.                                                        *)
(***************************************************************************)
EXTENDS TntIoSend, SeqFacts

USE SBufSizesAssumption, WriteSizesAssumption, SendBoundsAssumption

-----------------------------------------------------------------------------
\* The types and bounds every step of the sending half starts from.
LEMMA Types ==
    ASSUME IndInv
    PROVE  /\ put \in Nat /\ base \in Nat /\ size \in Nat /\ soff \in Nat
           /\ sbuf \in Seq(Nat) /\ msg \in Seq(Nat) /\ delivered \in Seq(Nat)
           /\ Len(sbuf) \in Nat /\ Len(msg) \in Nat /\ Len(delivered) \in Nat
           /\ Len(sbuf) <= size /\ base <= put - Len(msg) - Len(sbuf)
           /\ pc \in {"idle", "flush", "spill", "raw"}
           /\ connected \in BOOLEAN /\ broken \in BOOLEAN /\ error \in Errors
  <1>1. sbuf \in Seq(Nat) /\ msg \in Seq(Nat) /\ delivered \in Seq(Nat)
    BY DEF IndInv, TypeOK
  <1>2. Len(sbuf) \in Nat /\ Len(msg) \in Nat /\ Len(delivered) \in Nat
    BY <1>1, LenProperties
  <1> QED
    BY <1>1, <1>2 DEF IndInv, TypeOK, BufferInBounds, LastWritten

\* The bytes of one request, numbered behind those written before.
LEMMA RequestFacts ==
    ASSUME NEW p \in Nat, NEW n \in Nat
    PROVE  /\ Run(p, n) \in Seq(Nat) /\ Len(Run(p, n)) = n
           /\ \A i \in 1..n : Run(p, n)[i] = p + i
  BY RunFacts DEF Run

-----------------------------------------------------------------------------
(* Writes. *)

\* tnt_io_send and tnt_io_sendv up to the point where they enter send().
LEMMA WriteInv ==
    ASSUME IndInv, NEW n \in WriteSizes, Write(n), UNCHANGED size
    PROVE  IndInv'
  <1>t. /\ put \in Nat /\ base \in Nat /\ size \in Nat /\ soff \in Nat
        /\ sbuf \in Seq(Nat) /\ msg \in Seq(Nat) /\ delivered \in Seq(Nat)
        /\ Len(sbuf) \in Nat /\ Len(msg) \in Nat /\ Len(delivered) \in Nat
        /\ Len(sbuf) <= size /\ base <= put - Len(msg) - Len(sbuf)
        /\ n \in Nat /\ n > 0
    BY Types
  <1>i. pc = "idle" /\ soff = 0 /\ msg = <<>> /\ Len(msg) = 0
    BY EmptyFacts DEF Write, IndInv, CallShape
  <1>u. UNCHANGED <<size, base, connected, delivered, broken>>
    BY DEF Write
  <1>r. /\ Run(put, n) \in Seq(Nat) /\ Len(Run(put, n)) = n
        /\ \A i \in 1..n : Run(put, n)[i] = put + i
    BY <1>t, RequestFacts
  <1>e. WriteRaw(n) \/ WriteTooBig(n) \/ WriteBuffered(n) \/ WriteSpill(n)
    BY DEF Write
  <1>1. CASE WriteTooBig(n)
    <2>n. error' = "EBIG" /\ UNCHANGED <<put, sbuf, pc, msg, soff>>
      BY <1>1 DEF WriteTooBig, callVars
    <2> QED
      BY <1>u, <2>n DEF IndInv, TypeOK, Errors, BufferInBounds, CallShape, Source, LastWritten,
                        Sent, InOrder, NothingDropped
  <1>2. CASE WriteRaw(n) \/ WriteSpill(n)
    <2>n. /\ pc' \in {"raw", "spill"} /\ msg' = Run(put, n) /\ put' = put + n
          /\ UNCHANGED <<sbuf, soff, error>>
          /\ pc' = "raw" => size = 0
          /\ pc' = "spill" => n <= size /\ Len(sbuf) + n > size
      BY <1>2 DEF WriteRaw, WriteSpill
    <2>m. msg' \in Seq(Nat) /\ Len(msg') = n /\ \A i \in 1..Len(msg') : msg'[i] = put + i
      BY <2>n, <1>r
    <2>a. TypeOK' /\ BufferInBounds'
      BY <1>u, <2>n, <2>m, <1>t DEF IndInv, TypeOK, BufferInBounds
    <2>z. pc' = "raw" => sbuf = <<>>
      BY <2>n, <1>t, EmptySeq
    <2>b. CallShape'
      <3>1. soff' < Len(Source')
        BY <2>n, <2>m, <1>i, <1>t DEF Source
      <3> QED
        BY <3>1, <1>u, <2>n, <2>m, <2>z, <1>i, <1>t DEF CallShape
    <2>c. LastWritten'
      <3>1. \A i \in 1..Len(sbuf) : sbuf[i] = put - Len(msg) - Len(sbuf) + i
        BY DEF IndInv, LastWritten
      <3>2. put' - Len(msg') = put - Len(msg)
        BY <2>n, <2>m, <1>i, <1>t
      <3> QED
        BY <3>1, <3>2, <1>u, <2>n, <2>m, <1>i, <1>t DEF LastWritten
    <2>d. Sent'
      <3>1. \A i \in 1..Len(delivered) : /\ delivered[i] \in (base + 1)..put
                                         /\ delivered[i] <= put
                                         /\ ~connected => delivered[i] <= put - Len(sbuf)
        BY <1>i, <1>t DEF IndInv, Sent
      <3>2. /\ put' - Len(msg') = put
            /\ (base + 1)..put \subseteq (base' + 1)..put'
        BY <1>u, <2>n, <2>m, <1>t
      <3> QED
        BY <3>1, <3>2, <1>u, <2>n DEF Sent
    <2>e. InOrder'
      BY <1>u DEF IndInv, InOrder
    <2>f. NothingDropped'
      <3>0. /\ soff' = 0 /\ put' = put + n /\ Len(sbuf') \in Nat /\ Len(msg') \in Nat
            /\ Len(sbuf') + Len(msg') = Len(sbuf) + n
        BY <2>n, <2>m, <1>i, <1>t
      <3>1. ASSUME connected, ~broken
            PROVE  base + (Len(delivered) - soff) + Len(sbuf) + Len(msg) = put
        BY <3>1 DEF IndInv, NothingDropped
      <3>2. ASSUME connected, ~broken
            PROVE  base + (Len(delivered) - soff') + Len(sbuf') + Len(msg') = put'
        <4>1. base + (Len(delivered) - 0) + Len(sbuf) + 0 = put
          BY <3>1, <3>2, <1>i
        <4>2. /\ base \in Nat /\ put \in Nat /\ n \in Nat
              /\ Len(delivered) \in Nat /\ Len(sbuf) \in Nat
          BY <1>t
        <4>3. base + (Len(delivered) - 0) + Len(sbuf') + Len(msg') = put + n
          BY <3>0, <4>1, <4>2
        <4> QED
          BY <3>0, <4>3
      <3> QED
        BY <3>2, <1>u DEF NothingDropped
    <2> QED
      BY <2>a, <2>b, <2>c, <2>d, <2>e, <2>f DEF IndInv
  <1>3. CASE WriteBuffered(n)
    <2>n. /\ sbuf' = sbuf \o Run(put, n) /\ put' = put + n
          /\ Len(sbuf) + n <= size
          /\ UNCHANGED <<pc, msg, soff, error>>
      BY <1>3 DEF WriteBuffered, callVars
    <2>m. /\ sbuf' \in Seq(Nat) /\ Len(sbuf') = Len(sbuf) + n
          /\ \A i \in 1..Len(sbuf') :
                sbuf'[i] = IF i <= Len(sbuf) THEN sbuf[i] ELSE Run(put, n)[i - Len(sbuf)]
      <3> DEFINE run == Run(put, n)
      <3> HIDE DEF run
      <3>1. run \in Seq(Nat) /\ Len(run) = n
        BY <1>r DEF run
      <3>2. /\ sbuf \o run \in Seq(Nat) /\ Len(sbuf \o run) = Len(sbuf) + Len(run)
            /\ \A i \in 1..Len(sbuf) + Len(run) :
                  (sbuf \o run)[i] = IF i <= Len(sbuf) THEN sbuf[i] ELSE run[i - Len(sbuf)]
        BY <3>1, <1>t, ConcatFacts, Zenon
      <3>3. sbuf' = sbuf \o run
        BY <2>n DEF run
      <3> QED
        BY <3>1, <3>2, <3>3, Zenon DEF run
    <2>a. TypeOK' /\ BufferInBounds'
      BY <1>u, <2>n, <2>m, <1>t DEF IndInv, TypeOK, BufferInBounds
    <2>b. CallShape'
      BY <1>u, <2>n, <1>i, <1>t DEF IndInv, CallShape
    <2>c. LastWritten'
      <3>1. ASSUME NEW i \in 1..Len(sbuf')
            PROVE  sbuf'[i] = put' - Len(msg') - Len(sbuf') + i
        <4>1. CASE i <= Len(sbuf)
          <5>1. i \in 1..Len(sbuf)
            BY <4>1, <2>m, <1>t
          <5>2. sbuf[i] = put - Len(msg) - Len(sbuf) + i
            BY <5>1 DEF IndInv, LastWritten
          <5> QED
            BY <4>1, <5>2, <2>n, <2>m, <1>t
        <4>2. CASE ~(i <= Len(sbuf))
          <5>1. i - Len(sbuf) \in 1..n
            BY <4>2, <2>m, <1>t
          <5>2. sbuf'[i] = put + (i - Len(sbuf))
            BY <4>2, <5>1, <2>m, <1>r
          <5> QED
            BY <5>2, <2>n, <2>m, <1>i, <1>t
        <4> QED
          BY <4>1, <4>2
      <3>2. 1..Len(msg') = {} /\ base' <= put' - Len(msg') - Len(sbuf')
        BY <1>u, <2>n, <2>m, <1>i, <1>t
      <3> QED
        BY <3>1, <3>2 DEF LastWritten
    <2>d. Sent'
      <3>1. \A i \in 1..Len(delivered) : /\ delivered[i] \in (base + 1)..put
                                         /\ ~connected => delivered[i] <= put - Len(sbuf)
        BY <1>i, <1>t DEF IndInv, Sent
      <3>2. /\ put' - Len(msg') = put + n /\ put' - Len(msg') - Len(sbuf') = put - Len(sbuf)
            /\ (base + 1)..put \subseteq (base' + 1)..put'
            /\ \A x \in (base + 1)..put : x <= put + n
        BY <1>u, <2>n, <2>m, <1>i, <1>t
      <3> QED
        BY <3>1, <3>2, <1>u, <2>n DEF Sent
    <2>e. InOrder'
      BY <1>u DEF IndInv, InOrder
    <2>f. NothingDropped'
      <3>0. /\ soff' = 0 /\ put' = put + n /\ Len(sbuf') \in Nat /\ Len(msg') \in Nat
            /\ Len(sbuf') + Len(msg') = Len(sbuf) + n
        BY <2>n, <2>m, <1>i, <1>t
      <3>1. ASSUME connected, ~broken
            PROVE  base + (Len(delivered) - soff) + Len(sbuf) + Len(msg) = put
        BY <3>1 DEF IndInv, NothingDropped
      <3>2. ASSUME connected, ~broken
            PROVE  base + (Len(delivered) - soff') + Len(sbuf') + Len(msg') = put'
        <4>1. base + (Len(delivered) - 0) + Len(sbuf) + 0 = put
          BY <3>1, <3>2, <1>i
        <4>2. /\ base \in Nat /\ put \in Nat /\ n \in Nat
              /\ Len(delivered) \in Nat /\ Len(sbuf) \in Nat
          BY <1>t
        <4>3. base + (Len(delivered) - 0) + Len(sbuf') + Len(msg') = put + n
          BY <3>0, <4>1, <4>2
        <4> QED
          BY <3>0, <4>3
      <3> QED
        BY <3>2, <1>u DEF NothingDropped
    <2> QED
      BY <2>a, <2>b, <2>c, <2>d, <2>e, <2>f DEF IndInv
  <1> QED
    BY <1>1, <1>2, <1>3, <1>e

\* tnt_flush with something to send.
LEMMA FlushInv == ASSUME IndInv, Flush, UNCHANGED size PROVE IndInv'
  <1>t. sbuf \in Seq(Nat) /\ Len(sbuf) \in Nat
    BY Types
  <1>i. pc = "idle" /\ soff = 0 /\ msg = <<>>
    BY DEF Flush, IndInv, CallShape
  <1>n. /\ pc' = "flush" /\ sbuf # <<>>
        /\ UNCHANGED <<size, put, base, connected, sbuf, msg, soff, error, delivered, broken>>
    BY DEF Flush
  <1>1. Len(sbuf) > 0
    BY <1>t, <1>n, EmptySeq
  <1>a. TypeOK' /\ BufferInBounds'
    BY <1>n DEF IndInv, TypeOK, BufferInBounds
  <1>b. CallShape'
    BY <1>n, <1>i, <1>1 DEF IndInv, CallShape, Source
  <1>c. LastWritten' /\ InOrder' /\ NothingDropped'
    BY <1>n DEF IndInv, LastWritten, InOrder, NothingDropped
  <1>d. Sent'
    BY <1>n, <1>i DEF IndInv, Sent
  <1> QED
    BY <1>a, <1>b, <1>c, <1>d DEF IndInv

-----------------------------------------------------------------------------
(* send() *)

\* Where the bytes in hand begin.
Start == put - Len(msg) - Len(sbuf)

\* What tnt_io_send_raw was called with are the bytes from Start on.
LEMMA SourceFacts ==
    ASSUME IndInv, pc # "idle"
    PROVE  /\ Source \in Seq(Nat) /\ Len(Source) \in Nat /\ soff < Len(Source)
           /\ Start \in Nat /\ base <= Start
           /\ \A i \in 1..Len(Source) : Source[i] = Start + i
           /\ Start + Len(Source) = IF pc = "raw" THEN put ELSE put - Len(msg)
           /\ connected /\ ~broken => base + Len(delivered) = Start + soff
  <1>t. /\ put \in Nat /\ base \in Nat /\ soff \in Nat
        /\ sbuf \in Seq(Nat) /\ msg \in Seq(Nat)
        /\ Len(sbuf) \in Nat /\ Len(msg) \in Nat /\ Len(delivered) \in Nat
        /\ base <= put - Len(msg) - Len(sbuf)
    BY Types
  <1>1. soff < Len(Source)
    BY DEF IndInv, CallShape
  <1>2. Start \in Nat /\ base <= Start
    BY <1>t DEF Start
  <1>3. connected /\ ~broken => base + Len(delivered) = Start + soff
    BY <1>t DEF IndInv, NothingDropped, Start
  <1>4. CASE pc = "raw"
    <2>1. Source = msg /\ Len(sbuf) = 0
      BY <1>4, EmptyFacts DEF Source, IndInv, CallShape
    <2>2. \A i \in 1..Len(msg) : msg[i] = put - Len(msg) + i
      BY DEF IndInv, LastWritten
    <2>3. Start = put - Len(msg)
      BY <2>1, <1>t DEF Start
    <2>4. Start + Len(Source) = put
      BY <2>1, <2>3, <1>t
    <2> QED
      BY <1>1, <1>2, <1>3, <1>4, <1>t, <2>1, <2>2, <2>3, <2>4
  <1>5. CASE pc # "raw"
    <2>1. Source = sbuf
      BY <1>5 DEF Source
    <2>2. \A i \in 1..Len(sbuf) : sbuf[i] = Start + i
      BY DEF IndInv, LastWritten, Start
    <2>3. Start + Len(Source) = put - Len(msg)
      BY <2>1, <1>t DEF Start
    <2> QED
      BY <1>1, <1>2, <1>3, <1>5, <1>t, <2>1, <2>2, <2>3
  <1> QED
    BY <1>4, <1>5

\* The n bytes send() takes are the next ones in order.
LEMMA TakenFacts ==
    ASSUME IndInv, NEW n \in 1..Len(Source), Send(n)
    PROVE  /\ delivered' \in Seq(Nat) /\ Len(delivered') = Len(delivered) + n
           /\ \A i \in 1..Len(delivered) : delivered'[i] = delivered[i]
           /\ \A i \in 1..n : delivered'[Len(delivered) + i] = Start + soff + i
           /\ \A i \in 1..Len(delivered') : delivered'[i] \in (base + 1)..put
           /\ pc # "raw" => \A i \in 1..Len(delivered') : delivered'[i] <= put - Len(msg)
           /\ ~broken => \A i \in 1..Len(delivered') : delivered'[i] = base + i
  <1>s. /\ Source \in Seq(Nat) /\ Len(Source) \in Nat
        /\ Start \in Nat /\ base <= Start
        /\ \A i \in 1..Len(Source) : Source[i] = Start + i
        /\ Start + Len(Source) = IF pc = "raw" THEN put ELSE put - Len(msg)
        /\ ~broken => base + Len(delivered) = Start + soff
    BY SourceFacts DEF Send
  <1>t. /\ put \in Nat /\ base \in Nat /\ soff \in Nat /\ Len(msg) \in Nat
        /\ delivered \in Seq(Nat) /\ Len(delivered) \in Nat /\ n \in Nat /\ n > 0
    BY <1>s, Types
  <1>a. /\ put \in Nat /\ base \in Nat /\ soff \in Nat /\ Len(msg) \in Nat
        /\ Len(delivered) \in Nat /\ n \in Nat /\ n > 0
        /\ Start \in Nat /\ base <= Start /\ Len(Source) \in Nat
    BY <1>s, <1>t
  <1> DEFINE part == Chunk(Source, soff, n)
  <1>n. soff + n <= Len(Source) /\ delivered' = delivered \o part
    BY DEF Send
  <1>1. part \in Seq(Nat) /\ Len(part) = n /\ \A i \in 1..n : part[i] = Source[soff + i]
    <2>1. Source \in Seq(Nat) /\ soff \in Nat /\ n \in Nat /\ soff + n <= Len(Source)
      BY <1>s, <1>t, <1>n
    <2> QED
      BY <2>1, PartFacts DEF Chunk
  <1> HIDE DEF part
  <1>2. /\ delivered' \in Seq(Nat) /\ Len(delivered') = Len(delivered) + n
        /\ \A i \in 1..Len(delivered) : delivered'[i] = delivered[i]
        /\ \A i \in 1..n : delivered'[Len(delivered) + i] = part[i]
    <2>0. part \in Seq(Nat) /\ delivered \in Seq(Nat)
      BY <1>1, <1>t
    <2>1. /\ delivered \o part \in Seq(Nat)
          /\ Len(delivered \o part) = Len(delivered) + Len(part)
          /\ \A i \in 1..Len(delivered) : (delivered \o part)[i] = delivered[i]
          /\ \A i \in 1..Len(part) : (delivered \o part)[Len(delivered) + i] = part[i]
      BY <2>0, ConcatParts, Zenon
    <2> QED
      BY <2>1, <1>1, <1>n, Zenon
  <1>3. ASSUME NEW i \in 1..n PROVE delivered'[Len(delivered) + i] = Start + soff + i
    <2>1. soff + i \in 1..Len(Source) /\ Start + (soff + i) = Start + soff + i
      BY <1>a, <1>n
    <2>2. Source[soff + i] = Start + (soff + i)
      BY <2>1, <1>s
    <2>3. delivered'[Len(delivered) + i] = Source[soff + i]
      BY <1>1, <1>2, Zenon
    <2> QED
      BY <2>1, <2>2, <2>3, Zenon
  <1>5. ASSUME NEW i \in 1..Len(delivered')
        PROVE  /\ delivered'[i] \in (base + 1)..put
               /\ pc # "raw" => delivered'[i] <= put - Len(msg)
               /\ ~broken => delivered'[i] = base + i
    <2>1. CASE i <= Len(delivered)
      <3>1. i \in 1..Len(delivered)
        BY <2>1, <1>2, <1>t
      <3>2. /\ delivered[i] \in (base + 1)..put
            /\ pc # "raw" => delivered[i] <= put - Len(msg)
            /\ ~broken => delivered[i] = base + i
        BY <3>1 DEF IndInv, Sent, InOrder
      <3> QED
        BY <3>1, <3>2, <1>2
    <2>2. CASE ~(i <= Len(delivered))
      <3> DEFINE j == i - Len(delivered)
      <3>1. j \in 1..n /\ i = Len(delivered) + j
        BY <2>2, <1>2, <1>t
      <3> HIDE DEF j
      <3>2. delivered'[i] = Start + soff + j
        BY <3>1, <1>3
      <3>3. Start + soff + j \in (base + 1)..(Start + Len(Source))
        <4>1. j \in Nat /\ j >= 1 /\ soff + j <= Len(Source)
          BY <3>1, <1>a, <1>n
        <4> QED
          BY <4>1, <1>a
      <3>4. ASSUME ~broken PROVE Start + soff + j = base + i
        <4>1. base + Len(delivered) = Start + soff
          BY <3>4, <1>s
        <4>2. j \in Nat /\ i = Len(delivered) + j
          BY <3>1, <1>a
        <4>3. base \in Nat /\ Len(delivered) \in Nat /\ Start \in Nat /\ soff \in Nat
          BY <1>a
        <4> QED
          BY <4>1, <4>2, <4>3
      <3>5. /\ Start + Len(Source) <= put
            /\ pc # "raw" => Start + Len(Source) = put - Len(msg)
        <4>1. Start + Len(Source) = IF pc = "raw" THEN put ELSE put - Len(msg)
          BY <1>s
        <4>2. put \in Nat /\ Len(msg) \in Nat
          BY <1>a
        <4> QED
          BY <4>1, <4>2
      <3>6. /\ Start + soff + j \in (base + 1)..put
            /\ pc # "raw" => Start + soff + j <= put - Len(msg)
        <4>1. Start + soff + j <= Start + Len(Source) /\ Start + soff + j >= base + 1
          BY <3>3, <1>a
        <4>2. Start + soff + j \in Nat
          BY <3>1, <1>a
        <4>3. base \in Nat /\ put \in Nat /\ Len(msg) \in Nat /\ Start + Len(Source) \in Nat
          BY <1>a
        <4> QED
          BY <3>5, <4>1, <4>2, <4>3
      <3> QED
        BY <3>2, <3>4, <3>6
    <2> QED
      BY <2>1, <2>2
  <1> QED
    BY <1>2, <1>3, <1>5

\* One send(), with or without the return that follows it.
LEMMA SendInv ==
    ASSUME IndInv, NEW n \in 1..Len(Source), Send(n), UNCHANGED size
    PROVE  IndInv'
  <1>t. /\ put \in Nat /\ base \in Nat /\ size \in Nat /\ soff \in Nat
        /\ sbuf \in Seq(Nat) /\ msg \in Seq(Nat) /\ delivered \in Seq(Nat)
        /\ Len(sbuf) \in Nat /\ Len(msg) \in Nat /\ Len(delivered) \in Nat
        /\ Len(sbuf) <= size /\ base <= put - Len(msg) - Len(sbuf)
        /\ pc \in {"flush", "spill", "raw"} /\ connected
    BY Types DEF Send
  <1>s. /\ Len(Source) \in Nat
        /\ Start + Len(Source) = IF pc = "raw" THEN put ELSE put - Len(msg)
        /\ ~broken => base + Len(delivered) = Start + soff
        /\ Start \in Nat /\ n \in Nat /\ n > 0 /\ soff + n <= Len(Source)
    BY SourceFacts DEF Send
  <1>d. /\ delivered' \in Seq(Nat) /\ Len(delivered') = Len(delivered) + n
        /\ \A i \in 1..Len(delivered') : delivered'[i] \in (base + 1)..put
        /\ pc # "raw" => \A i \in 1..Len(delivered') : delivered'[i] <= put - Len(msg)
        /\ ~broken => \A i \in 1..Len(delivered') : delivered'[i] = base + i
    BY TakenFacts
  <1>u. UNCHANGED <<size, put, base, connected, error, broken>>
    BY DEF Send
  <1>e. InOrder'
    BY <1>d, <1>u DEF InOrder
  <1>a. /\ put \in Nat /\ base \in Nat /\ soff \in Nat /\ Len(msg) \in Nat
        /\ Len(delivered) \in Nat /\ n \in Nat /\ Start \in Nat /\ Len(Source) \in Nat
    BY <1>s, <1>t
  <1>1. CASE soff + n = Len(Source)
    <2>n. /\ pc' = "idle" /\ soff' = 0 /\ msg' = <<>>
          /\ sbuf' = IF pc = "spill" THEN msg ELSE <<>>
      BY <1>1 DEF Send, SendDone
    <2>m. Len(msg') = 0 /\ msg' \in Seq(Nat)
      BY <2>n, EmptyFacts
    <2>b. /\ sbuf' \in Seq(Nat) /\ Len(sbuf') \in Nat
          /\ Len(sbuf') = IF pc = "spill" THEN Len(msg) ELSE 0
      BY <2>n, <1>t, EmptyFacts
    <2>c. /\ pc = "spill" => Len(msg) <= size
          /\ pc = "flush" => Len(msg) = 0
      BY EmptyFacts DEF IndInv, CallShape
    <2>1. TypeOK'
      BY <1>u, <1>d, <2>n, <2>m, <2>b DEF IndInv, TypeOK
    <2>2. BufferInBounds'
      BY <1>u, <2>b, <2>c, <1>t DEF BufferInBounds
    <2>3. CallShape'
      BY <1>u, <2>n, <2>m, <1>t DEF CallShape
    <2>4. LastWritten'
      <3>1. CASE pc = "spill"
        <4>1. sbuf' = msg
          BY <3>1, <2>n
        <4>2. \A i \in 1..Len(msg) : msg[i] = put - Len(msg) + i
          BY DEF IndInv, LastWritten
        <4>3. put' - Len(msg') - Len(sbuf') = put - Len(msg)
          BY <3>1, <2>m, <2>b, <1>u, <1>t
        <4>4. base' <= put' - Len(msg') - Len(sbuf') /\ 1..Len(msg') = {}
          BY <4>3, <2>m, <1>u, <1>t
        <4> QED
          BY <4>1, <4>2, <4>3, <4>4 DEF LastWritten
      <3>2. CASE pc # "spill"
        <4>1. /\ base' <= put' - Len(msg') - Len(sbuf')
              /\ 1..Len(msg') = {} /\ 1..Len(sbuf') = {}
          BY <3>2, <2>m, <2>b, <1>u, <1>t
        <4> QED
          BY <4>1 DEF LastWritten
      <3> QED
        BY <3>1, <3>2
    <2>5. Sent'
      <3>1. \A i \in 1..Len(delivered') : delivered'[i] <= put' - Len(msg')
        BY <1>d, <1>u, <2>m, <1>t
      <3> QED
        BY <3>1, <1>d, <1>u, <1>t DEF Sent
    <2>6. NothingDropped'
      <3>1. ASSUME ~broken PROVE base + Len(delivered') + Len(sbuf') = put
        <4>1. base + Len(delivered') = Start + Len(Source)
          <5>1. base + Len(delivered) = Start + soff
            BY <3>1, <1>s
          <5>2. Len(delivered') = Len(delivered) + n
            BY <1>d
          <5> QED
            BY <5>1, <5>2, <1>1, <1>a
        <4>2. Start + Len(Source) + Len(sbuf') = put
          <5>1. CASE pc = "raw"
            BY <5>1, <1>s, <2>b, <1>t
          <5>2. CASE pc = "spill"
            BY <5>2, <1>s, <2>b, <1>t
          <5>3. CASE pc = "flush"
            BY <5>3, <1>s, <2>b, <2>c, <1>t
          <5> QED
            BY <5>1, <5>2, <5>3, <1>t
        <4> QED
          BY <4>1, <4>2
      <3>2. ASSUME ~broken
            PROVE  base' + (Len(delivered') - soff') + Len(sbuf') + Len(msg') = put'
        <4>1. base + Len(delivered') + Len(sbuf') = put
          BY <3>1, <3>2
        <4>2. Len(delivered') \in Nat /\ soff' = 0 /\ base' = base /\ put' = put
          BY <1>d, <1>u, <2>n, LenProperties
        <4>3. Len(sbuf') \in Nat /\ Len(msg') = 0
          BY <2>m, <2>b
        <4> QED
          BY <4>1, <4>2, <4>3, <1>a
      <3> QED
        BY <3>2, <1>u DEF NothingDropped
    <2> QED
      BY <2>1, <2>2, <2>3, <2>4, <2>5, <2>6, <1>e DEF IndInv
  <1>2. CASE soff + n # Len(Source)
    <2>n. soff' = soff + n /\ UNCHANGED <<pc, msg, sbuf>>
      BY <1>2 DEF Send
    <2>1. TypeOK' /\ BufferInBounds'
      BY <1>u, <1>d, <2>n, <1>t, <1>s DEF IndInv, TypeOK, BufferInBounds
    <2>3. CallShape'
      <3>1. Source' = Source
        BY <2>n DEF Source
      <3>2. soff' < Len(Source')
        BY <3>1, <2>n, <1>2, <1>s, <1>t
      <3> QED
        BY <3>2, <1>u, <2>n, <1>t DEF IndInv, CallShape
    <2>4. LastWritten'
      BY <1>u, <2>n DEF IndInv, LastWritten
    <2>5. Sent'
      <3>1. soff' > 0
        BY <2>n, <1>s, <1>t
      <3> QED
        BY <3>1, <1>d, <1>u, <2>n, <1>t DEF Sent
    <2>6. NothingDropped'
      <3>1. ASSUME ~broken
            PROVE  base + (Len(delivered) - soff) + Len(sbuf) + Len(msg) = put
        BY <3>1, <1>t DEF IndInv, NothingDropped
      <3>2. Len(delivered') - soff' = Len(delivered) - soff
        BY <1>d, <2>n, <1>s, <1>t
      <3> QED
        BY <3>1, <3>2, <1>u, <2>n DEF NothingDropped
    <2> QED
      BY <2>1, <2>3, <2>4, <2>5, <2>6, <1>e DEF IndInv
  <1> QED
    BY <1>1, <1>2

\* A send() that fails: the message of a write is given back to the caller,
\* unless part of it is on the wire.
LEMMA SendErrorInv == ASSUME IndInv, SendError, UNCHANGED size PROVE IndInv'
  <1>t. /\ put \in Nat /\ base \in Nat /\ size \in Nat /\ soff \in Nat
        /\ sbuf \in Seq(Nat) /\ msg \in Seq(Nat) /\ delivered \in Seq(Nat)
        /\ Len(sbuf) \in Nat /\ Len(msg) \in Nat /\ Len(delivered) \in Nat
        /\ Len(sbuf) <= size /\ base <= put - Len(msg) - Len(sbuf)
        /\ connected \in BOOLEAN /\ broken \in BOOLEAN
    BY Types
  <1>n. /\ pc # "idle" /\ pc' = "idle" /\ soff' = 0 /\ msg' = <<>> /\ error' = "ESYSTEM"
        /\ broken' = (broken \/ soff > 0)
        /\ put' = IF pc = "raw" /\ soff > 0 THEN put ELSE put - Len(msg)
        /\ UNCHANGED <<size, base, connected, sbuf, delivered>>
    BY DEF SendError
  <1>m. msg' \in Seq(Nat) /\ Len(msg') = 0
    BY <1>n, EmptyFacts
  <1>r. pc = "raw" => Len(sbuf) = 0
    BY EmptyFacts DEF IndInv, CallShape
  <1>p. /\ put' \in Nat /\ put - Len(msg) <= put'
        /\ Len(sbuf) > 0 => put' = put - Len(msg)
    BY <1>n, <1>r, <1>t
  <1>b. broken' \in BOOLEAN /\ (~broken' => ~broken /\ soff = 0)
    <2>1. soff = 0 \/ soff > 0
      BY <1>t
    <2>2. broken' = (broken \/ soff > 0)
      BY <1>n
    <2> QED
      BY <2>1, <2>2, Zenon
  <1>1. TypeOK' /\ BufferInBounds'
    BY <1>n, <1>m, <1>p, <1>b DEF IndInv, TypeOK, Errors, BufferInBounds
  <1>2. CallShape'
    BY <1>n, <1>m, <1>t DEF CallShape
  <1>3. LastWritten'
    <2>1. ASSUME NEW i \in 1..Len(sbuf) PROVE sbuf[i] = put' - Len(msg') - Len(sbuf) + i
      <3>1. sbuf[i] = put - Len(msg) - Len(sbuf) + i
        BY DEF IndInv, LastWritten
      <3>2. put' = put - Len(msg)
        BY <1>p, <1>t
      <3> QED
        BY <3>1, <3>2, <1>m, <1>p, <1>t
    <2>2. base <= put' - Len(msg') - Len(sbuf) /\ 1..Len(msg') = {}
      BY <1>p, <1>m, <1>t
    <2> QED
      BY <2>1, <2>2, <1>n DEF LastWritten
  <1>4. Sent'
    <2>n. put \in Nat /\ base \in Nat /\ Len(msg) \in Nat /\ Len(sbuf) \in Nat
      BY <1>t
    <2>1. ASSUME NEW i \in 1..Len(delivered)
          PROVE  delivered[i] \in (base + 1)..put'
      <3>1. delivered[i] \in (base + 1)..put
        BY DEF IndInv, Sent
      <3>2. CASE pc = "raw" /\ soff > 0
        BY <3>1, <3>2, <1>n
      <3>3. CASE ~(pc = "raw" /\ soff > 0)
        <4>1. delivered[i] <= put - Len(msg)
          BY <3>3 DEF IndInv, Sent
        <4>2. put' = put - Len(msg)
          BY <3>3, <1>n
        <4> QED
          BY <3>1, <4>1, <4>2, <1>t
      <3> QED
        BY <3>2, <3>3
    <2>2. ASSUME NEW i \in 1..Len(delivered), ~connected
          PROVE  delivered[i] <= put' - Len(msg') - Len(sbuf)
      <3>1. delivered[i] <= put - Len(msg) - Len(sbuf)
        BY <2>2 DEF IndInv, Sent
      <3>2. delivered[i] \in Nat
        BY <1>t, ElementOfSeq
      <3>3. put - Len(msg) - Len(sbuf) <= put' - 0 - Len(sbuf)
        BY <1>p, <2>n
      <3>4. delivered[i] <= put' - 0 - Len(sbuf)
        BY <3>1, <3>2, <3>3, <1>p, <2>n
      <3> QED
        BY <3>4, <1>m
    <2>3. ASSUME NEW i \in 1..Len(delivered) PROVE delivered[i] <= put' - Len(msg')
      <3>1. delivered[i] \in (base + 1)..put'
        BY <2>1
      <3>2. delivered[i] <= put' - 0
        BY <3>1, <1>p, <2>n
      <3> QED
        BY <3>2, <1>m
    <2> QED
      BY <2>1, <2>2, <2>3, <1>n DEF Sent
  <1>5. InOrder'
    BY <1>b, <1>n DEF IndInv, InOrder
  <1>6. NothingDropped'
    <2> SUFFICES ASSUME connected, ~broken'
                 PROVE  base + (Len(delivered) - soff') + Len(sbuf) + Len(msg') = put'
      BY <1>n DEF NothingDropped
    <2>1. base + (Len(delivered) - soff) + Len(sbuf) + Len(msg) = put
      BY <1>b DEF IndInv, NothingDropped
    <2>2. soff = 0 /\ soff' = 0 /\ Len(msg') = 0 /\ put' = put - Len(msg)
      BY <1>b, <1>n, <1>m
    <2> QED
      BY <2>1, <2>2, <1>t
  <1> QED
    BY <1>1, <1>2, <1>3, <1>4, <1>5, <1>6 DEF IndInv

-----------------------------------------------------------------------------
(* The calls that clear the buffer, and the start. *)

\* tnt_close, tnt_connect and a tnt_connect that fails.
LEMMA ReconnectInv ==
    ASSUME IndInv, Close \/ Connect \/ ConnectError, UNCHANGED size
    PROVE  IndInv'
  <1>t. /\ put \in Nat /\ base \in Nat /\ size \in Nat
        /\ sbuf \in Seq(Nat) /\ delivered \in Seq(Nat)
        /\ Len(sbuf) \in Nat /\ Len(delivered) \in Nat
        /\ Len(sbuf) <= size /\ base <= put - Len(msg) - Len(sbuf)
        /\ connected \in BOOLEAN
    BY Types
  <1>i. pc = "idle" /\ soff = 0 /\ msg = <<>> /\ Len(msg) = 0
    BY EmptyFacts DEF Close, Connect, ConnectError, IndInv, CallShape
  <1>n. /\ UNCHANGED <<size, put, pc, msg, soff>>
        /\ sbuf' = <<>> \/ sbuf' = sbuf
        /\ connected => sbuf' = <<>>
        /\ error' \in Errors
    BY DEF Close, Connect, ConnectError, ClearBuf, callVars, Errors, IndInv, TypeOK
  <1>s. /\ sbuf' \in Seq(Nat) /\ Len(sbuf') \in Nat /\ Len(sbuf') <= Len(sbuf)
        /\ connected => Len(sbuf') = 0
        /\ sbuf' # sbuf => Len(sbuf') = 0
    <2>1. CASE sbuf' = <<>>
      BY <2>1, <1>t, EmptyFacts
    <2>2. CASE sbuf' # <<>>
      BY <2>2, <1>n, <1>t
    <2> QED
      BY <2>1, <2>2
  <1>l. ASSUME NEW i \in 1..Len(sbuf') PROVE sbuf'[i] = put' - Len(msg') - Len(sbuf') + i
    <2>1. sbuf' = sbuf
      BY <1>s
    <2> QED
      BY <2>1, <1>n DEF IndInv, LastWritten
  <1>m. 1..Len(msg') = {}
    BY <1>i, <1>n
  <1>c. BufferInBounds' /\ CallShape'
    BY <1>n, <1>i, <1>s, <1>t DEF BufferInBounds, CallShape
  <1>1. CASE Connect
    <2>n. /\ connected' = TRUE /\ base' = put - Len(sbuf')
          /\ delivered' = <<>> /\ broken' = FALSE
      BY <1>1 DEF Connect
    <2>d. delivered' \in Seq(Nat) /\ Len(delivered') = 0 /\ 1..Len(delivered') = {}
      BY <2>n, EmptyFacts
    <2>b. base' \in Nat /\ base' = put' - Len(msg') - Len(sbuf')
      BY <2>n, <1>n, <1>i, <1>s, <1>t
    <2>1. TypeOK'
      BY <2>n, <2>d, <2>b, <1>n, <1>s DEF IndInv, TypeOK
    <2>2. LastWritten'
      <3>1. base' <= put' - Len(msg') - Len(sbuf')
        BY <2>b, <1>s, <1>t
      <3> QED
        BY <1>l, <1>m, <3>1 DEF LastWritten
    <2>3. Sent' /\ InOrder'
      BY <2>d DEF Sent, InOrder
    <2>4. NothingDropped'
      <3>1. base' + (Len(delivered') - soff') + Len(sbuf') + Len(msg') = put'
        BY <2>n, <2>d, <1>n, <1>i, <1>s, <1>t
      <3> QED
        BY <3>1 DEF NothingDropped
    <2> QED
      BY <2>1, <2>2, <2>3, <2>4, <1>c DEF IndInv
  <1>2. CASE Close \/ ConnectError
    <2>n. connected' = FALSE /\ UNCHANGED <<base, delivered, broken>>
      BY <1>2 DEF Close, ConnectError
    <2>1. TypeOK'
      BY <2>n, <1>n, <1>s DEF IndInv, TypeOK
    <2>2. LastWritten'
      <3>1. base' <= put' - Len(msg') - Len(sbuf')
        BY <2>n, <1>n, <1>i, <1>s, <1>t
      <3> QED
        BY <1>l, <1>m, <3>1 DEF LastWritten
    <2>3. Sent'
      <3>1. ASSUME NEW i \in 1..Len(delivered)
            PROVE  /\ delivered[i] \in (base + 1)..put /\ delivered[i] <= put - Len(msg)
                   /\ delivered[i] <= put - Len(msg) - Len(sbuf')
        <4>1. /\ delivered[i] \in (base + 1)..put /\ delivered[i] <= put - Len(msg)
              /\ ~connected => delivered[i] <= put - Len(msg) - Len(sbuf)
          BY <1>i DEF IndInv, Sent
        <4>n. /\ put \in Nat /\ base \in Nat /\ Len(msg) = 0
              /\ Len(sbuf) \in Nat /\ Len(sbuf') \in Nat /\ Len(sbuf') <= Len(sbuf)
          BY <1>s, <1>i, <1>t
        <4>2. CASE connected
          <5>1. Len(sbuf') = 0
            BY <4>2, <1>s
          <5> QED
            BY <4>1, <4>n, <5>1
        <4>3. CASE ~connected
          <5>1. delivered[i] \in (base + 1)..put /\ delivered[i] <= put - Len(msg) - Len(sbuf)
            BY <4>1, <4>3
          <5>2. delivered[i] <= put - Len(msg) - Len(sbuf')
            BY <5>1, <4>n
          <5> QED
            BY <4>1, <5>2
        <4> QED
          BY <4>2, <4>3
      <3> QED
        BY <3>1, <2>n, <1>n DEF Sent
    <2>4. InOrder' /\ NothingDropped'
      BY <2>n DEF IndInv, InOrder, NothingDropped
    <2> QED
      BY <2>1, <2>2, <2>3, <2>4, <1>c DEF IndInv
  <1> QED
    BY <1>1, <1>2

\* A stream that was just made.
LEMMA InitInv == Init => IndInv
  <1> SUFFICES ASSUME Init PROVE IndInv
    OBVIOUS
  <1>1. size \in Nat
    BY DEF Init
  <1>2. TypeOK
    BY <1>1, EmptyFacts DEF Init, TypeOK, Errors
  <1>3. BufferInBounds /\ CallShape
    BY <1>1, EmptyFacts DEF Init, BufferInBounds, CallShape
  <1>4. LastWritten /\ Sent /\ InOrder /\ NothingDropped
    BY EmptyFacts DEF Init, LastWritten, Sent, InOrder, NothingDropped
  <1> QED
    BY <1>2, <1>3, <1>4 DEF IndInv

\* A step of something else.
LEMMA StutterInv == IndInv /\ UNCHANGED vars => IndInv'
  BY DEF vars, callVars, IndInv, TypeOK, BufferInBounds, CallShape, Source, LastWritten, Sent,
         InOrder, NothingDropped

-----------------------------------------------------------------------------
\* Where every byte is, at every step of every write and flush.
THEOREM IndInvTheorem == Spec => []IndInv
  <1>1. IndInv /\ [Next]_vars => IndInv'
    <2> SUFFICES ASSUME IndInv, [Next]_vars PROVE IndInv'
      OBVIOUS
    <2>1. CASE UNCHANGED vars
      BY <2>1, StutterInv
    <2>2. CASE Next
      <3>0. UNCHANGED size
        BY <2>2 DEF Next
      <3>1. CASE \E n \in WriteSizes : Write(n)
        BY <3>0, <3>1, WriteInv
      <3>2. CASE Flush
        BY <3>0, <3>2, FlushInv
      <3>3. CASE \E n \in 1..Len(Source) : Send(n)
        BY <3>0, <3>3, SendInv
      <3>4. CASE SendError
        BY <3>0, <3>4, SendErrorInv
      <3>5. CASE Close \/ Connect \/ ConnectError
        BY <3>0, <3>5, ReconnectInv
      <3> QED
        BY <2>2, <3>1, <3>2, <3>3, <3>4, <3>5 DEF Next, Step, CallStep
    <2> QED
      BY <2>1, <2>2
  <1> QED
    BY <1>1, InitInv, PTL DEF Spec

\* Every variable of the sending half keeps its type.
THEOREM TypeCorrect == Spec => []TypeOK
  <1>1. IndInv => TypeOK
    BY DEF IndInv
  <1> QED
    BY <1>1, IndInvTheorem, PTL

\* No write copies past the end of sbuf.buf, for any buffer size and any mix of
\* writes, spills, flushes and failures.
THEOREM BufferInBoundsTheorem == Spec => []BufferInBounds
  <1>1. IndInv => BufferInBounds
    BY DEF IndInv
  <1> QED
    BY <1>1, IndInvTheorem, PTL

\* Until an error loses track of a partial send, the server gets the bytes in
\* the order of the writes.
THEOREM InOrderTheorem == Spec => []InOrder
  <1>1. IndInv => InOrder
    BY DEF IndInv
  <1> QED
    BY <1>1, IndInvTheorem, PTL

\* Every byte a write accepted is on the wire, in the buffer or in the call.
THEOREM NothingDroppedTheorem == Spec => []NothingDropped
  <1>1. IndInv => NothingDropped
    BY DEF IndInv
  <1> QED
    BY <1>1, IndInvTheorem, PTL

\* Broken or not, a connection carries no byte of an earlier one and none that
\* was given back to the caller.
THEOREM CurrentConnectionOnlyTheorem == Spec => []CurrentConnectionOnly
  <1>1. IndInv => CurrentConnectionOnly
    BY DEF IndInv, Sent, CurrentConnectionOnly
  <1> QED
    BY <1>1, IndInvTheorem, PTL

-----------------------------------------------------------------------------
(* TntIoSend implements ByteStream. *)

\* A send() is a Get of the abstract stream, or a GetBroken.
LEMMA SendRefines ==
    ASSUME IndInv, NEW n \in 1..Len(Source), Send(n)
    PROVE  Stream!Next
  <1>t. /\ put \in Nat /\ base \in Nat /\ delivered \in Seq(Nat) /\ Len(delivered) \in Nat
        /\ n \in Nat /\ n > 0
    BY SourceFacts, Types DEF Send
  <1>d. /\ delivered' \in Seq(Nat) /\ Len(delivered') = Len(delivered) + n
        /\ \A i \in 1..Len(delivered) : delivered'[i] = delivered[i]
        /\ \A i \in 1..Len(delivered') : delivered'[i] \in (base + 1)..put
        /\ ~broken => \A i \in 1..Len(delivered') : delivered'[i] = base + i
    BY TakenFacts
  <1>u. UNCHANGED <<put, base, broken>>
    BY DEF Send
  <1>1. CASE broken
    <2>1. Len(delivered') >= Len(delivered)
      BY <1>d, <1>t
    <2> QED
      BY <1>1, <2>1, <1>d, <1>u DEF Stream!Next, Stream!GetBroken
  <1>2. CASE ~broken
    <2> DEFINE run == Stream!Run(base + Len(delivered), n)
    <2>1. /\ run \in Seq(Nat) /\ Len(run) = n
          /\ \A j \in 1..n : run[j] = base + Len(delivered) + j
      <3>1. base + Len(delivered) \in Nat
        BY <1>t
      <3> QED
        BY <3>1, <1>t, RunFacts DEF Stream!Run
    <2> HIDE DEF run
    <2>2. /\ delivered \o run \in Seq(Nat) /\ Len(delivered \o run) = Len(delivered) + Len(run)
          /\ \A i \in 1..Len(delivered) : (delivered \o run)[i] = delivered[i]
          /\ \A i \in 1..Len(run) : (delivered \o run)[Len(delivered) + i] = run[i]
      BY <2>1, <1>t, ConcatParts, Zenon
    <2>3. ASSUME NEW i \in 1..Len(delivered') PROVE delivered'[i] = (delivered \o run)[i]
      <3>1. CASE i <= Len(delivered)
        <4>1. i \in 1..Len(delivered)
          BY <3>1, <1>d, <1>t
        <4> QED
          BY <4>1, <2>2, <1>d, Zenon
      <3>2. CASE ~(i <= Len(delivered))
        <4> DEFINE j == i - Len(delivered)
        <4>1. j \in 1..n /\ i = Len(delivered) + j
          BY <3>2, <1>d, <1>t
        <4> HIDE DEF j
        <4>2. (delivered \o run)[i] = base + Len(delivered) + j
          BY <4>1, <2>1, <2>2, Zenon
        <4>3. delivered'[i] = base + i
          BY <1>2, <1>d
        <4> QED
          BY <4>1, <4>2, <4>3, <1>t
      <3> QED
        BY <3>1, <3>2
    <2>4. delivered' = delivered \o run
      BY <2>1, <2>2, <2>3, <1>d, SeqEqual
    <2>5. n \in 1..(put - base - Len(delivered))
      <3>1. Len(delivered') \in 1..Len(delivered')
        BY <1>d, <1>t
      <3>2. base + Len(delivered') \in (base + 1)..put
        BY <3>1, <1>d, <1>2
      <3>3. Len(delivered') = Len(delivered) + n
        BY <1>d
      <3> QED
        BY <3>2, <3>3, <1>t
    <2> QED
      BY <1>2, <2>4, <2>5, <1>u DEF run, Stream!Next, Stream!Get
  <1> QED
    BY <1>1, <1>2

\* A send() that fails takes the message back, breaks the stream, or neither.
LEMMA SendErrorRefines ==
    ASSUME IndInv, IndInv', SendError
    PROVE  [Stream!Next]_(Stream!vars)
  <1>t. put \in Nat /\ put' \in Nat /\ Len(msg) \in Nat /\ soff \in Nat /\ broken \in BOOLEAN
    BY Types DEF IndInv, TypeOK
  <1>n. /\ broken' = (broken \/ soff > 0)
        /\ put' = IF pc = "raw" /\ soff > 0 THEN put ELSE put - Len(msg)
        /\ UNCHANGED <<base, delivered>>
    BY DEF SendError
  <1>b. broken' = TRUE \/ broken' = broken
    BY <1>n, <1>t, Zenon
  <1>1. CASE put' = put
    BY <1>1, <1>n, <1>b DEF Stream!Next, Stream!Break, Stream!vars
  <1>2. CASE put' # put
    <2>1. put' < put
      BY <1>2, <1>n, <1>t
    <2>2. base <= put' /\ \A i \in 1..Len(delivered) : delivered[i] <= put'
      <3>1. \A i \in 1..Len(delivered') : delivered'[i] \in (base' + 1)..put'
        BY DEF IndInv, Sent
      <3>2. base' <= put' - Len(msg') - Len(sbuf') /\ Len(msg') \in Nat /\ Len(sbuf') \in Nat
        BY LenProperties DEF IndInv, LastWritten, TypeOK
      <3>3. base' \in Nat
        BY DEF IndInv, TypeOK
      <3> QED
        BY <3>1, <3>2, <3>3, <1>n, <1>t
    <2>3. broken' \in {broken, TRUE}
      BY <1>b
    <2> QED
      BY <2>1, <2>2, <2>3, <1>n, <1>t DEF Stream!Next, Stream!Withdraw
  <1> QED
    BY <1>1, <1>2

\* A new connection carries nothing that the old one delivered.
LEMMA ConnectRefines ==
    ASSUME IndInv, IndInv', Connect
    PROVE  Stream!Next
  <1>t. /\ put \in Nat /\ base \in Nat /\ delivered \in Seq(Nat)
        /\ Len(sbuf) \in Nat /\ Len(delivered) \in Nat
    BY Types
  <1>i. msg = <<>> /\ Len(msg) = 0 /\ pc = "idle"
    BY EmptyFacts DEF Connect, IndInv, CallShape
  <1>n. /\ base' = put - Len(sbuf') /\ put' = put
        /\ delivered' = <<>> /\ broken' = FALSE
        /\ connected => sbuf' = <<>>
        /\ ~connected => sbuf' = sbuf
    BY DEF Connect, ClearBuf
  <1>b. base' \in Nat /\ Len(sbuf') \in Nat
    BY LenProperties DEF IndInv, TypeOK
  <1>1. ASSUME NEW i \in 1..Len(delivered) PROVE delivered[i] <= base'
    <2>1. CASE connected
      <3>1. base' = put
        BY <2>1, <1>n, <1>t, EmptyFacts
      <3>2. delivered[i] \in (base + 1)..put
        BY DEF IndInv, Sent
      <3> QED
        BY <3>1, <3>2, <1>t
    <2>2. CASE ~connected
      <3>1. delivered[i] <= put - Len(msg) - Len(sbuf) /\ delivered[i] \in Nat
        BY <2>2, <1>t, ElementOfSeq DEF IndInv, Sent
      <3> QED
        BY <3>1, <2>2, <1>i, <1>n, <1>t
    <2> QED
      BY <2>1, <2>2
  <1>2. base' <= put
    BY <1>n, <1>b, <1>t
  <1> QED
    BY <1>1, <1>2, <1>b, <1>n DEF Stream!Next, Stream!Reset

\* Every step of the sending half is a step of the abstract stream or leaves it
\* alone.
LEMMA StepRefines ==
    ASSUME IndInv, IndInv', [Next]_vars
    PROVE  [Stream!Next]_(Stream!vars)
  <1>t. put \in Nat /\ base \in Nat
    BY Types
  <1>1. CASE \E n \in WriteSizes : Write(n)
    <2> PICK n \in WriteSizes : Write(n)
      BY <1>1
    <2>1. n \in Nat /\ n > 0
      OBVIOUS
    <2>2. (put' = put + n \/ put' = put) /\ UNCHANGED <<base, delivered, broken>>
      BY DEF Write, WriteRaw, WriteTooBig, WriteBuffered, WriteSpill
    <2>3. CASE put' = put + n
      <3>1. put' \in Nat /\ put' > put
        BY <2>1, <2>3, <1>t
      <3> QED
        BY <3>1, <2>2 DEF Stream!Next, Stream!Put
    <2>4. CASE put' = put
      BY <2>2, <2>4 DEF Stream!vars
    <2> QED
      BY <2>2, <2>3, <2>4
  <1>2. CASE Flush \/ Close \/ ConnectError \/ UNCHANGED vars
    BY <1>2 DEF Flush, Close, ConnectError, vars, Stream!vars
  <1>3. CASE \E n \in 1..Len(Source) : Send(n)
    BY <1>3, SendRefines
  <1>4. CASE SendError
    BY <1>4, SendErrorRefines
  <1>5. CASE Connect
    BY <1>5, ConnectRefines
  <1> QED
    BY <1>1, <1>2, <1>3, <1>4, <1>5 DEF Next, Step, CallStep

\* What the server sees is a FIFO byte stream, for every buffer size, every mix
\* of writes and flushes and every way send() splits them.
THEOREM SendImplementsStream == Spec => StreamSpec
  <1>1. Init => Stream!Init
    BY DEF Init, Stream!Init
  <1>2. IndInv /\ IndInv' /\ [Next]_vars => [Stream!Next]_(Stream!vars)
    BY StepRefines
  <1> QED
    BY <1>1, <1>2, IndInvTheorem, PTL DEF Spec, StreamSpec, Stream!Spec

-----------------------------------------------------------------------------
\* Only a send() that took the rest ends a flush with an empty buffer.
LEMMA StepFlushes == ASSUME IndInv, IndInv', [Next]_vars PROVE [FlushStep]_vars
  <1> SUFFICES ASSUME Next, pc = "flush", pc' = "idle", ~broken', sbuf' = <<>>
               PROVE  base + Len(delivered') = put
    BY DEF FlushStep
  <1>1. CASE \E n \in 1..Len(Source) : Send(n)
    <2>1. connected' /\ base' = base /\ put' = put
      BY <1>1 DEF Send
    <2>2. base' + (Len(delivered') - soff') + Len(sbuf') + Len(msg') = put'
      BY <2>1 DEF IndInv, NothingDropped
    <2>3. soff' = 0 /\ Len(msg') = 0 /\ Len(sbuf') = 0
      BY EmptyFacts DEF IndInv, CallShape
    <2>4. base' \in Nat /\ Len(delivered') \in Nat
      BY LenProperties DEF IndInv, TypeOK
    <2> QED
      BY <2>1, <2>2, <2>3, <2>4
  <1>2. CASE SendError
    <2>1. sbuf = <<>> /\ Source = sbuf
      BY <1>2 DEF SendError, Source
    <2>2. soff < Len(Source) /\ soff \in Nat
      BY DEF IndInv, CallShape, TypeOK
    <2> QED
      BY <2>1, <2>2, EmptyFacts
  <1> QED
    BY <1>1, <1>2 DEF Next, Step, CallStep, Write, Flush, Close, Connect, ConnectError

\* A flush that succeeds leaves nothing behind.
THEOREM FlushCompleteTheorem == Spec => FlushComplete
  <1>1. IndInv /\ IndInv' /\ [Next]_vars => [FlushStep]_vars
    BY StepFlushes
  <1> QED
    BY <1>1, IndInvTheorem, PTL DEF Spec, FlushComplete
=============================================================================
