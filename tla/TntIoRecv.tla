----------------------------- MODULE TntIoRecv ------------------------------
(***************************************************************************)
(* The receiving half of a tnt_net stream: tnt_io_recv and tnt_io_recv_raw *)
(* (tnt/tnt_io.c) over the buffer sn->rbuf (tnt/tnt_iob.c), and the calls  *)
(* that clear it (tnt_close, tnt_connect).                                 *)
(*                                                                         *)
(* The socket is a FIFO of bytes the server wrote; recv() takes any        *)
(* non-empty prefix of what is there, or fails (timeout, end of file,      *)
(* reset).  A byte is its position in the server's output, so the order in *)
(* which the caller sees the bytes can be compared with the order in which *)
(* they were sent.  A call is split where the code enters recv(): the      *)
(* server and the network act between two such steps.                      *)
(***************************************************************************)
EXTENDS Integers, Sequences

CONSTANTS RBufSizes,   \* values of opt.recv_buf; 0 means no buffer (rbuf.buf == NULL)
          ReadSizes,   \* sizes the callers of s->read pass
          RecvTmout,   \* TRUE iff opt.tmout_recv (SO_RCVTIMEO) is set
          MaxBytes,    \* bound: bytes the server ever sends
          MaxRead      \* bound: bytes read on one connection

ASSUME RBufSizesAssumption == RBufSizes \subseteq Nat
ASSUME ReadSizesAssumption == ReadSizes \subseteq Nat \ {0}
ASSUME RecvTmoutAssumption == RecvTmout \in BOOLEAN
ASSUME BoundsAssumption == MaxBytes \in Nat /\ MaxRead \in Nat

VARIABLES
    put,         \* bytes the server has written, all connections
    base,        \* value of put when the current connection was made
    taken,       \* position of the last byte recv() returned
    eof,         \* the server closed its end
    connected,   \* sn->connected
    size,        \* sn->rbuf.size
    buf,         \* sn->rbuf.buf
    off,         \* sn->rbuf.off
    top,         \* sn->rbuf.top
    pc,          \* where the call of s->read is
    left,        \* bytes the call still has to produce
    out,         \* bytes the call has stored in the caller's buffer
    error,       \* sn->error
    delivered,   \* history: bytes returned by successful reads
    broken       \* history: an error lost track of the position

netVars == <<put, base, taken, eof, connected>>
bufVars == <<buf, off, top>>
callVars == <<pc, left, out>>
histVars == <<delivered, broken>>
vars == <<size, netVars, bufVars, callVars, error, histVars>>

Errors == {"EOK", "ESYSTEM"}

\* The cells of rbuf.buf, and the n bytes from cell o on (a memcpy source).
Cells == 0..(size - 1)
Slice(b, o, n) == [i \in 1..n |-> b[o + i - 1]]

\* tnt_iob_init zeroes the buffer: 0 is no byte of the server's.
Init ==
    /\ put = 0 /\ base = 0 /\ taken = 0
    /\ eof = FALSE /\ connected = FALSE
    /\ size \in RBufSizes
    /\ buf = [i \in Cells |-> 0] /\ off = 0 /\ top = 0
    /\ pc = "idle" /\ left = 0 /\ out = <<>>
    /\ error = "EOK"
    /\ delivered = <<>> /\ broken = FALSE

-----------------------------------------------------------------------------
(* The server and the network. *)

ServerSend ==
    /\ connected /\ ~eof
    /\ put < MaxBytes
    /\ put' = put + 1
    /\ UNCHANGED <<base, taken, eof, connected, bufVars, callVars, error, histVars>>

ServerClose ==
    /\ connected /\ ~eof
    /\ eof' = TRUE
    /\ UNCHANGED <<put, base, taken, connected, bufVars, callVars, error, histVars>>

-----------------------------------------------------------------------------
(* s->read(s, buf, size), in the order of its steps. *)

\* Entry of tnt_io_recv: without a buffer it is tnt_io_recv_raw(..., all = 1).
Read(n) ==
    /\ pc = "idle"
    /\ Len(delivered) + n <= MaxRead
    /\ pc' = IF size = 0 THEN "raw" ELSE "scan"
    /\ left' = n
    /\ out' = <<>>
    /\ UNCHANGED <<netVars, bufVars, error, histVars>>

Return(bytes) ==
    /\ pc' = "idle" /\ left' = 0 /\ out' = <<>>
    /\ delivered' = delivered \o bytes
    /\ UNCHANGED <<error, broken>>

\* recv() failed: the read returns -1.  What the call had copied is gone, and
\* off was rewound while top keeps the size of the previous fill, so the cells
\* already handed out count as unread again.  Only when neither happens does
\* the stream stay in step with the server.
ReturnError ==
    /\ pc' = "idle" /\ left' = 0 /\ out' = <<>>
    /\ error' = "ESYSTEM"
    /\ broken' = (broken \/ out # <<>> \/ top > 0)
    /\ UNCHANGED delivered

\* Mutant: the served bytes are not marked as read.
ServeKeepsOff ==
    /\ pc = "scan"
    /\ off + left <= top
    /\ Return(out \o Slice(buf, off, left))
    /\ UNCHANGED <<netVars, bufVars>>

\* The buffer holds all that is left.
Serve ==
    /\ pc = "scan"
    /\ off + left <= top
    /\ off' = off + left
    /\ Return(out \o Slice(buf, off, left))
    /\ UNCHANGED <<netVars, buf, top>>

\* Mutants of Drain: count without copying; go on asking for the whole size.
DrainNoCopy ==
    /\ pc = "scan"
    /\ off + left > top
    /\ left' = left - (top - off)
    /\ off' = 0
    /\ pc' = "refill"
    /\ UNCHANGED <<netVars, buf, top, out, error, histVars>>

DrainAsksAll ==
    /\ pc = "scan"
    /\ off + left > top
    /\ out' = out \o Slice(buf, off, top - off)
    /\ off' = 0
    /\ pc' = "refill"
    /\ UNCHANGED <<netVars, buf, top, left, error, histVars>>

\* It does not: copy what there is and rewind off before the refill.
Drain ==
    /\ pc = "scan"
    /\ off + left > top
    /\ out' = out \o Slice(buf, off, top - off)
    /\ left' = left - (top - off)
    /\ off' = 0
    /\ pc' = "refill"
    /\ UNCHANGED <<netVars, buf, top, error, histVars>>

\* Mutant: top keeps the size of the previous fill.
RefillKeepsTop(n) ==
    /\ pc = "refill" /\ connected
    /\ n <= size /\ taken + n <= put
    /\ buf' = [i \in Cells |-> IF i < n THEN taken + i + 1 ELSE buf[i]]
    /\ taken' = taken + n
    /\ IF left <= n
       THEN /\ off' = left
            /\ Return(out \o Slice(buf', 0, left))
       ELSE /\ pc' = "scan"
            /\ UNCHANGED <<off, left, out, error, histVars>>
    /\ UNCHANGED <<put, base, eof, connected, top>>

\* recv() returned n bytes into rbuf.buf.
Refill(n) ==
    /\ pc = "refill" /\ connected
    /\ n <= size /\ taken + n <= put
    /\ buf' = [i \in Cells |-> IF i < n THEN taken + i + 1 ELSE buf[i]]
    /\ top' = n
    /\ taken' = taken + n
    /\ IF left <= n
       THEN /\ off' = left
            /\ Return(out \o Slice(buf', 0, left))
       ELSE /\ pc' = "scan"
            /\ UNCHANGED <<off, left, out, error, histVars>>
    /\ UNCHANGED <<put, base, eof, connected>>

\* Mutant of RawRecv: each recv() writes at the start of the caller's buffer.
RawRecvOverwrites(n) ==
    /\ pc = "raw" /\ connected
    /\ n <= left /\ taken + n <= put
    /\ taken' = taken + n
    /\ LET bytes == [i \in 1..n |-> taken + i]
       IN  IF n = left
           THEN Return(bytes)
           ELSE /\ out' = bytes
                /\ left' = left - n
                /\ UNCHANGED <<pc, error, histVars>>
    /\ UNCHANGED <<put, base, eof, connected, bufVars>>

\* recv() returned n bytes straight into the caller's buffer.
RawRecv(n) ==
    /\ pc = "raw" /\ connected
    /\ n <= left /\ taken + n <= put
    /\ taken' = taken + n
    /\ LET bytes == out \o [i \in 1..n |-> taken + i]
       IN  IF n = left
           THEN Return(bytes)
           ELSE /\ out' = bytes
                /\ left' = left - n
                /\ UNCHANGED <<pc, error, histVars>>
    /\ UNCHANGED <<put, base, eof, connected, bufVars>>

\* Mutant: a recv() that timed out is called again.
RecvEmptyRetries ==
    /\ pc \in {"refill", "raw"} /\ connected
    /\ taken = put
    /\ eof
    /\ ReturnError
    /\ UNCHANGED <<netVars, bufVars>>

\* recv() finds no byte and returns -1 after SO_RCVTIMEO, or 0 at end of file.
RecvEmpty ==
    /\ pc \in {"refill", "raw"} /\ connected
    /\ taken = put
    /\ eof \/ RecvTmout
    /\ ReturnError
    /\ UNCHANGED <<netVars, bufVars>>

\* recv() fails at once: a connection reset, or fd is -1.
RecvError ==
    /\ pc \in {"refill", "raw"}
    /\ ReturnError
    /\ UNCHANGED <<netVars, bufVars>>

-----------------------------------------------------------------------------
(* The calls of tnt_net.c that touch the buffer. *)

\* Mutant: only the read position is reset.
ClearOff == off' = 0 /\ UNCHANGED <<buf, top>>

\* tnt_iob_clear(&sn->rbuf)
ClearBuf == off' = 0 /\ top' = 0 /\ UNCHANGED buf

\* tnt_close: clears the buffer and closes the socket; sn->error stays.
Close ==
    /\ pc = "idle"
    /\ ClearBuf
    /\ connected' = FALSE
    /\ UNCHANGED <<put, base, taken, eof, callVars, error, histVars>>

\* tnt_connect: closes a live connection first; a new socket is empty.
Connect ==
    /\ pc = "idle"
    /\ IF connected THEN ClearBuf ELSE UNCHANGED bufVars
    /\ connected' = TRUE /\ eof' = FALSE
    /\ base' = put /\ taken' = put
    /\ error' = "EOK"
    /\ delivered' = <<>> /\ broken' = FALSE
    /\ UNCHANGED <<put, callVars>>

ConnectError ==
    /\ pc = "idle"
    /\ IF connected THEN ClearBuf ELSE UNCHANGED bufVars
    /\ connected' = FALSE
    /\ error' = "ESYSTEM"
    /\ UNCHANGED <<put, base, taken, eof, callVars, histVars>>

-----------------------------------------------------------------------------
\* The steps of a call that the process takes by itself once it is in it.
CallStep ==
    \/ Serve \/ Drain
    \/ \E n \in 1..size : Refill(n)
    \/ \E n \in 1..left : RawRecv(n)
    \/ RecvEmpty
    \/ ~connected /\ RecvError

Step ==
    \/ ServerSend \/ ServerClose
    \/ \E n \in ReadSizes : Read(n)
    \/ CallStep
    \/ RecvError
    \/ Close \/ Connect \/ ConnectError

\* The size of the buffer is fixed by tnt_init.
Next == Step /\ UNCHANGED size

Spec == Init /\ [][Next]_vars

\* A call in progress keeps running: recv() returns when there are bytes, when
\* the server closed, and after SO_RCVTIMEO when it is set.
FairSpec == Spec /\ WF_vars(CallStep /\ UNCHANGED size)

-----------------------------------------------------------------------------
TypeOK ==
    /\ put \in Nat /\ base \in Nat /\ taken \in Nat
    /\ eof \in BOOLEAN /\ connected \in BOOLEAN
    /\ size \in Nat
    /\ buf \in [Cells -> Nat] /\ off \in Nat /\ top \in Nat
    /\ pc \in {"idle", "scan", "refill", "raw"}
    /\ left \in Nat /\ out \in Seq(Nat)
    /\ error \in Errors
    /\ delivered \in Seq(Nat) /\ broken \in BOOLEAN

\* Neither memcpy of tnt_io_recv leaves the buffer, and the size_t subtraction
\* rbuf.top - rbuf.off never wraps, errors and reconnects included.
BufferInBounds == off <= top /\ top <= size

\* Until an error loses its place, the successful reads of a connection return
\* exactly the bytes the server sent on it: none lost, doubled or swapped,
\* however recv() splits them and whatever sizes the reads ask for.
InOrder ==
    ~broken => \A i \in 1..Len(delivered) : delivered[i] = base + i

\* Even after an error a read never returns a byte of an earlier connection or
\* one the server has not sent (the zero fill of tnt_iob_init): tnt_close
\* clears the buffer.
CurrentConnectionOnly ==
    \A i \in 1..Len(delivered) : delivered[i] \in (base + 1)..taken

\* Bytes recv() returned and the caller has not got yet are in the buffer or in
\* the call: nothing is dropped between the two copies of a refilling read.
\* (The call rewinds off before recv(), when the buffer counts as empty.)
InFlight == IF pc = "refill" THEN 0 ELSE top - off
NothingDropped ==
    connected /\ ~broken => base + Len(delivered) + Len(out) + InFlight = taken

-----------------------------------------------------------------------------
(* The inductive invariant behind the safety properties. *)

CallShape ==
    /\ base <= taken /\ taken <= put
    /\ pc = "idle" <=> left = 0
    /\ pc = "idle" => out = <<>>
    /\ pc = "refill" => off = 0
    /\ pc = "raw" => size = 0
    /\ ~connected => top = 0

\* Every byte in the program is one of the current connection.
OwnBytes ==
    /\ \A i \in Cells : i < top => buf[i] \in (base + 1)..taken
    /\ \A i \in 1..Len(out) : out[i] \in (base + 1)..taken
    /\ \A i \in 1..Len(delivered) : delivered[i] \in (base + 1)..taken

\* What was delivered, what the call has copied and what the buffer still
\* holds follow each other.
Aligned ==
    /\ \A i \in 1..Len(out) : out[i] = base + Len(delivered) + i
    /\ pc # "refill" =>
         \A i \in Cells : off <= i /\ i < top =>
             buf[i] = base + Len(delivered) + Len(out) + (i - off) + 1

\* Together they say where every byte is, which makes them preserved by every
\* step: InOrder alone says nothing of the buffer the next read is served from.
IndInv ==
    /\ TypeOK
    /\ BufferInBounds
    /\ CallShape
    /\ OwnBytes
    /\ InOrder
    /\ NothingDropped
    /\ connected /\ ~broken => Aligned

-----------------------------------------------------------------------------
\* A read that succeeds returns exactly the bytes asked for, and one that fails
\* none, over however many fills and short recv() calls it is spread: what it
\* has and what it still wants always add up to its size.
Asked == Len(out) + left
ExactStep ==
    pc # "idle" =>
        \/ pc' # "idle" /\ Asked' = Asked
        \/ /\ pc' = "idle"
           /\ Len(delivered') \in {Len(delivered), Len(delivered) + Asked}
ExactSize == [][ExactStep]_vars

\* With a receive timeout every read returns.
ReadReturns == (pc # "idle") ~> (pc = "idle")

\* The stream as the caller sees it.
Stream == INSTANCE ByteStream
              WITH put <- put, base <- base, delivered <- delivered, broken <- broken
StreamSpec == Stream!Spec
=============================================================================
