----------------------------- MODULE TntIoSend ------------------------------
(***************************************************************************)
(* The sending half of a tnt_net stream: tnt_io_send, tnt_io_sendv,        *)
(* tnt_io_send_raw and tnt_io_flush (tnt/tnt_io.c) over the buffer         *)
(* sn->sbuf (tnt/tnt_iob.c), and the calls that clear it (tnt_close,       *)
(* tnt_connect).                                                           *)
(*                                                                         *)
(* Bytes are numbered in the order in which the callers' writes commit     *)
(* them, so the order on the wire can be compared with the order of the    *)
(* writes.  send() takes any non-empty prefix of what it is given, or      *)
(* fails.  A call is split where the code enters send().                   *)
(*                                                                         *)
(* tnt_io_sendv differs from tnt_io_send in how it lays the bytes out, not *)
(* in what it decides: Write(n) is either of them with n bytes in all.     *)
(* TntIoSendv models the vector loop of tnt_io_sendv_raw.                  *)
(***************************************************************************)
EXTENDS Integers, Sequences

CONSTANTS SBufSizes,   \* values of opt.send_buf; 0 means no buffer (sbuf.buf == NULL)
          WriteSizes,  \* sizes of the requests the callers write
          SendTmout,   \* TRUE iff opt.tmout_send (SO_SNDTIMEO) is set
          MaxBytes,    \* bound: bytes the callers ever write
          MaxWire      \* bound: bytes sent on one connection

ASSUME SBufSizesAssumption == SBufSizes \subseteq Nat
ASSUME WriteSizesAssumption == WriteSizes \subseteq Nat \ {0}
ASSUME SendTmoutAssumption == SendTmout \in BOOLEAN
ASSUME SendBoundsAssumption == MaxBytes \in Nat /\ MaxWire \in Nat

VARIABLES
    put,         \* bytes the callers have written, all connections
    base,        \* the current connection carries the bytes after this one
    connected,   \* sn->connected
    size,        \* sn->sbuf.size
    sbuf,        \* the bytes sn->sbuf.buf[0 .. sn->sbuf.off - 1]
    pc,          \* where the call is
    msg,         \* the caller's bytes of a call that is sending
    soff,        \* tnt_io_send_raw's off
    error,       \* sn->error
    delivered,   \* history: bytes send() took on this connection
    broken       \* history: an error lost track of what was sent

callVars == <<pc, msg, soff>>
vars == <<size, put, base, connected, sbuf, callVars, error, delivered, broken>>

Errors == {"EOK", "ESYSTEM", "EBIG"}

\* The n bytes after byte p, and n elements of s after the first o.
Run(p, n) == [i \in 1..n |-> p + i]
Chunk(s, o, n) == [i \in 1..n |-> s[o + i]]

Init ==
    /\ put = 0 /\ base = 0 /\ connected = FALSE
    /\ size \in SBufSizes
    /\ sbuf = <<>>
    /\ pc = "idle" /\ msg = <<>> /\ soff = 0
    /\ error = "EOK"
    /\ delivered = <<>> /\ broken = FALSE

-----------------------------------------------------------------------------
(* s->write(s, buf, size) and s->writev(s, iov, count). *)

\* Without a buffer: tnt_io_send_raw(s, buf, size, 1).
WriteRaw(n) ==
    /\ size = 0
    /\ pc' = "raw"
    /\ msg' = Run(put, n) /\ put' = put + n
    /\ UNCHANGED <<sbuf, soff, error>>

\* More than the buffer can ever hold.
WriteTooBig(n) ==
    /\ size > 0 /\ n > size
    /\ error' = "EBIG"
    /\ UNCHANGED <<put, sbuf, callVars>>

\* Mutant: the room is checked without the new bytes.
WriteBufferedUnchecked(n) ==
    /\ size > 0 /\ n <= size
    /\ Len(sbuf) < size
    /\ sbuf' = sbuf \o Run(put, n) /\ put' = put + n
    /\ UNCHANGED <<callVars, error>>

\* It fits behind what is buffered.
WriteBuffered(n) ==
    /\ size > 0 /\ n <= size
    /\ Len(sbuf) + n <= size
    /\ sbuf' = sbuf \o Run(put, n) /\ put' = put + n
    /\ UNCHANGED <<callVars, error>>

\* It does not: the buffer is sent first.
WriteSpill(n) ==
    /\ size > 0 /\ n <= size
    /\ Len(sbuf) + n > size
    /\ pc' = "spill"
    /\ msg' = Run(put, n) /\ put' = put + n
    /\ UNCHANGED <<sbuf, soff, error>>

Write(n) ==
    /\ pc = "idle"
    /\ put + n <= MaxBytes
    /\ Len(delivered) + Len(sbuf) + n <= MaxWire
    /\ WriteRaw(n) \/ WriteTooBig(n) \/ WriteBuffered(n) \/ WriteSpill(n)
    /\ UNCHANGED <<base, connected, delivered, broken>>

\* tnt_flush.  With an empty buffer it returns at once.
Flush ==
    /\ pc = "idle"
    /\ sbuf # <<>>
    /\ Len(delivered) + Len(sbuf) <= MaxWire
    /\ pc' = "flush"
    /\ UNCHANGED <<put, base, connected, sbuf, msg, soff, error, delivered, broken>>

\* Mutant: a write that finds no room overtakes the buffer.
SourceOvertakes == IF pc \in {"raw", "spill"} THEN msg ELSE sbuf

\* What tnt_io_send_raw was called with.
Source == IF pc = "raw" THEN msg ELSE sbuf

\* All of Source is sent: the buffer is empty, or holds the message that
\* waited for the room.
SendDone ==
    /\ pc' = "idle" /\ soff' = 0 /\ msg' = <<>>
    /\ sbuf' = IF pc = "spill" THEN msg ELSE <<>>

\* Mutant: a short send() is taken for all.
SendOnce(n) ==
    /\ pc # "idle" /\ connected
    /\ soff + n <= Len(Source)
    /\ delivered' = delivered \o Chunk(Source, soff, n)
    /\ SendDone
    /\ UNCHANGED <<put, base, connected, error, broken>>

\* send() took n bytes.
Send(n) ==
    /\ pc # "idle" /\ connected
    /\ soff + n <= Len(Source)
    /\ delivered' = delivered \o Chunk(Source, soff, n)
    /\ IF soff + n = Len(Source)
       THEN SendDone
       ELSE soff' = soff + n /\ UNCHANGED <<pc, msg, sbuf>>
    /\ UNCHANGED <<put, base, connected, error, broken>>

\* Mutant: a send() that failed is called again.
SendErrorRetries ==
    /\ pc # "idle"
    /\ error' = "ESYSTEM"
    /\ UNCHANGED <<put, base, connected, sbuf, callVars, delivered, broken>>

\* send() failed: the call returns -1.  The buffer is kept as it is, the bytes
\* send() has taken included; the message of a write is given back to the
\* caller, unless part of it is on the wire.
SendError ==
    /\ pc # "idle"
    /\ pc' = "idle" /\ soff' = 0 /\ msg' = <<>>
    /\ error' = "ESYSTEM"
    /\ broken' = (broken \/ soff > 0)
    /\ put' = IF pc = "raw" /\ soff > 0 THEN put ELSE put - Len(msg)
    /\ UNCHANGED <<base, connected, sbuf, delivered>>

-----------------------------------------------------------------------------
(* The calls of tnt_net.c that touch the buffer. *)

\* Mutant: tnt_close leaves the buffer.
ClearNothing == UNCHANGED sbuf

\* tnt_iob_clear(&sn->sbuf)
ClearBuf == sbuf' = <<>>

\* tnt_close: what was written and not flushed is dropped.
Close ==
    /\ pc = "idle"
    /\ ClearBuf
    /\ connected' = FALSE
    /\ UNCHANGED <<put, base, callVars, error, delivered, broken>>

\* tnt_connect: closes a live connection first.  What was written while there
\* was none stays buffered and goes out on the new one.
Connect ==
    /\ pc = "idle"
    /\ IF connected THEN ClearBuf ELSE UNCHANGED sbuf
    /\ connected' = TRUE
    /\ base' = put - Len(sbuf')
    /\ error' = "EOK"
    /\ delivered' = <<>> /\ broken' = FALSE
    /\ UNCHANGED <<put, callVars>>

ConnectError ==
    /\ pc = "idle"
    /\ IF connected THEN ClearBuf ELSE UNCHANGED sbuf
    /\ connected' = FALSE
    /\ error' = "ESYSTEM"
    /\ UNCHANGED <<put, base, callVars, delivered, broken>>

-----------------------------------------------------------------------------
\* The steps of a call that the process takes by itself once it is in it:
\* send() returns when the socket has room, and after SO_SNDTIMEO if it is set.
CallStep ==
    \/ \E n \in 1..Len(Source) : Send(n)
    \/ (SendTmout \/ ~connected) /\ SendError

Step ==
    \/ \E n \in WriteSizes : Write(n)
    \/ Flush
    \/ CallStep
    \/ SendError
    \/ Close \/ Connect \/ ConnectError

\* The size of the buffer is fixed by tnt_init.
Next == Step /\ UNCHANGED size

Spec == Init /\ [][Next]_vars

FairSpec == Spec /\ WF_vars(CallStep /\ UNCHANGED size)

-----------------------------------------------------------------------------
TypeOK ==
    /\ put \in Nat /\ base \in Nat /\ connected \in BOOLEAN
    /\ size \in Nat
    /\ sbuf \in Seq(Nat) /\ msg \in Seq(Nat) /\ soff \in Nat
    /\ pc \in {"idle", "flush", "spill", "raw"}
    /\ error \in Errors
    /\ delivered \in Seq(Nat) /\ broken \in BOOLEAN

\* No memcpy of tnt_io_send or tnt_io_sendv_put runs past sbuf.buf.
BufferInBounds == Len(sbuf) <= size

\* Until an error loses track of a partial send, the wire carries exactly the
\* bytes that were written, in the order of the writes, whatever the mix of
\* buffered writes, spills and flushes and however send() splits them.
InOrder ==
    ~broken => \A i \in 1..Len(delivered) : delivered[i] = base + i

\* Every byte a write accepted is on the wire, in the buffer or in the call:
\* no write that succeeded is dropped by a spill or a flush.
NothingDropped ==
    connected /\ ~broken =>
        base + (Len(delivered) - soff) + Len(sbuf) + Len(msg) = put

\* No byte of a request that was written for an earlier connection, or given
\* back to the caller, is sent on this one.
CurrentConnectionOnly ==
    \A i \in 1..Len(delivered) : delivered[i] \in (base + 1)..put

\* A flush that succeeds leaves nothing behind: all that was written before it
\* is on the wire.
FlushStep ==
    pc = "flush" /\ pc' = "idle" /\ ~broken' /\ sbuf' = <<>> =>
        base + Len(delivered') = put
FlushComplete == [][FlushStep]_vars

-----------------------------------------------------------------------------
(* The inductive invariant behind the safety properties. *)

CallShape ==
    /\ pc = "idle" => soff = 0 /\ msg = <<>>
    /\ pc # "idle" => soff < Len(Source)
    /\ pc = "flush" => msg = <<>>
    /\ pc = "raw" => sbuf = <<>> /\ size = 0
    /\ Len(msg) <= size \/ pc = "raw"
    /\ ~connected => soff = 0

\* The buffer and the message of the call are the last bytes written.
LastWritten ==
    /\ \A i \in 1..Len(sbuf) : sbuf[i] = put - Len(msg) - Len(sbuf) + i
    /\ \A i \in 1..Len(msg) : msg[i] = put - Len(msg) + i
    /\ base <= put - Len(msg) - Len(sbuf)

\* How far the wire can have got.
Sent ==
    /\ \A i \in 1..Len(delivered) : delivered[i] \in (base + 1)..put
    /\ ~(pc = "raw" /\ soff > 0) =>
         \A i \in 1..Len(delivered) : delivered[i] <= put - Len(msg)
    /\ ~connected =>
         \A i \in 1..Len(delivered) : delivered[i] <= put - Len(msg) - Len(sbuf)

IndInv ==
    /\ TypeOK
    /\ BufferInBounds
    /\ CallShape
    /\ LastWritten
    /\ Sent
    /\ InOrder
    /\ NothingDropped

-----------------------------------------------------------------------------
\* With a send timeout every write and every flush returns.
CallReturns == (pc # "idle") ~> (pc = "idle")

\* The stream as the server sees it.
Stream == INSTANCE ByteStream
              WITH put <- put, base <- base, delivered <- delivered, broken <- broken
StreamSpec == Stream!Spec
=============================================================================
