----------------------------- MODULE TntIoSendv -----------------------------
(***************************************************************************)
(* tnt_io_sendv_raw (tnt/tnt_io.c) with all = 1: sending a request that is *)
(* a vector of segments, straight from the caller's iovec.  writev() may   *)
(* stop anywhere, also in the middle of a segment; the loop then moves the *)
(* vector past what was taken.  Segments may be empty (an encoder with     *)
(* nothing to put in one), and a writev callback (sbuf.txv) sees at most   *)
(* IovMax of them at a time, while writev() itself sees them all.          *)
(*                                                                         *)
(* The bytes of the request are numbered 1, 2, 3, ...; a segment holds the *)
(* bytes base + 1 .. base + len.                                           *)
(***************************************************************************)
EXTENDS Integers, Sequences

CONSTANTS Vectors,     \* the iovecs callers pass: where segments begin and the last ends
          UseTxv,      \* TRUE iff the sbuf.txv callback is installed
          IovMax       \* getiovmax()

ASSUME VectorsAssumption ==
    \A v \in Vectors :
        /\ v \in Seq(Nat) /\ Len(v) > 1
        /\ v[1] = 0 /\ v[2] > 0       \* the length of the request comes first
        /\ \A i, j \in 1..Len(v) : i <= j => v[i] <= v[j]
ASSUME IovMaxAssumption == UseTxv \in BOOLEAN /\ IovMax \in Nat \ {0}

VARIABLES
    iov,      \* the caller's vector, [base |-> iov_base, len |-> iov_len] each
    at,       \* where iov points to; count is Len(iov) - at + 1
    total,    \* bytes taken so far
    r,        \* what writev returned; in the call, what it took so far
    pc,       \* "send" before writev, "writev" in it, "skip" in the inner loop
    k,        \* external: the segment that writev is copying
    request,  \* history: the number of bytes of the call
    wire      \* history: the bytes that went out

vars == <<iov, at, total, r, pc, k, request, wire>>

\* The bytes from + 1 .. from + n.
Bytes(from, n) == [i \in 1..n |-> from + i]

\* The last segment that txv or writev is given.
Last == IF UseTxv /\ Len(iov) - at + 1 > IovMax THEN at + IovMax - 1 ELSE Len(iov)

Init ==
    /\ \E v \in Vectors :
          /\ iov = [i \in 1..(Len(v) - 1) |-> [base |-> v[i], len |-> v[i + 1] - v[i]]]
          /\ request = v[Len(v)]
    /\ at = 1 /\ total = 0 /\ r = 0 /\ k = 1
    /\ pc = "send"
    /\ wire = <<>>

Call ==
    /\ pc = "send"
    /\ pc' = "writev"
    /\ k' = at /\ r' = 0
    /\ UNCHANGED <<iov, at, total, request, wire>>

\* writev took all of a segment and goes on with the next one.
CopySegment ==
    /\ pc = "writev" /\ k < Last
    /\ wire' = wire \o Bytes(iov[k].base, iov[k].len)
    /\ r' = r + iov[k].len
    /\ k' = k + 1
    /\ UNCHANGED <<iov, at, total, pc, request>>

\* writev returns with n bytes of the segment it has come to.
WritevReturns(n) ==
    /\ pc = "writev" /\ n <= iov[k].len /\ r + n > 0
    /\ wire' = wire \o Bytes(iov[k].base, n)
    /\ r' = r + n
    /\ total' = total + r'
    /\ pc' = "skip"
    /\ UNCHANGED <<iov, at, k, request>>

\* writev returned -1, or 0 because it was given no byte to send.
WritevError ==
    /\ pc = "writev" /\ r = 0
    /\ pc' = "error"
    /\ UNCHANGED <<iov, at, total, r, k, request, wire>>

\* Mutant of EndsWithin: a segment that ends where writev stopped is kept.
EndsBefore(seg) == seg.len < r

\* The segment ends within the r bytes that are left to skip.
EndsWithin(seg) == seg.len <= r

Skip ==
    /\ pc = "skip" /\ at <= Len(iov) /\ EndsWithin(iov[at])
    /\ r' = r - iov[at].len
    /\ at' = at + 1
    /\ UNCHANGED <<iov, total, pc, k, request, wire>>

\* Mutant of Stop: the segment that writev stopped in starts over.
StopRepeats ==
    /\ pc = "skip" /\ at <= Len(iov) /\ ~EndsWithin(iov[at])
    /\ pc' = "send"
    /\ UNCHANGED <<iov, at, total, r, k, request, wire>>

Stop ==
    /\ pc = "skip" /\ at <= Len(iov) /\ ~EndsWithin(iov[at])
    /\ iov' = [iov EXCEPT ![at] = [base |-> @.base + r, len |-> @.len - r]]
    /\ pc' = "send"
    /\ UNCHANGED <<at, total, r, k, request, wire>>

Return ==
    /\ pc = "skip" /\ at > Len(iov)
    /\ pc' = "ok"
    /\ UNCHANGED <<iov, at, total, r, k, request, wire>>

Next ==
    \/ Call \/ CopySegment \/ WritevError \/ Skip \/ Stop \/ Return
    \/ \E n \in 0..request : WritevReturns(n)

Spec == Init /\ [][Next]_vars

-----------------------------------------------------------------------------
\* Wherever writev stops, the bytes go out once each and in order, the vector
\* that is left holds exactly the rest of the request, and the return value is
\* the request's length when all is sent.
RestIsSuffix ==
    /\ wire = Bytes(0, Len(wire))
    /\ pc = "send" => /\ at <= Len(iov) /\ iov[at].base = Len(wire)
                      /\ \A i \in at..(Len(iov) - 1) : iov[i].base + iov[i].len = iov[i + 1].base
                      /\ iov[Len(iov)].base + iov[Len(iov)].len = request
    /\ pc = "ok" => total = request /\ Len(wire) = request

\* The loop never asks writev to send nothing, which it would take for an
\* error although every byte is out: empty segments are skipped as well.
AlwaysSomethingToSend == pc = "send" => \E i \in at..Last : iov[i].len > 0

-----------------------------------------------------------------------------
(* The inductive invariant. *)

TypeOK ==
    /\ iov \in Seq([base : Nat, len : Nat])
    /\ at \in 1..(Len(iov) + 1) /\ k \in 1..Len(iov)
    /\ total \in Nat /\ r \in Nat /\ request \in Nat
    /\ pc \in {"send", "writev", "skip", "ok", "error"}
    /\ wire \in Seq(Nat)

End(i) == iov[i].base + iov[i].len

\* The segments that are left follow one another up to the end of the request.
Contiguous ==
    /\ \A i \in at..(Len(iov) - 1) : End(i) = iov[i + 1].base
    /\ \A i \in at..Len(iov) : End(i) <= request
    /\ at <= Len(iov) => End(Len(iov)) = request

\* Where the last byte that went out is.
Position ==
    /\ pc \in {"send", "writev"} => at <= Len(iov) /\ iov[at].len > 0
    /\ pc = "send" => iov[at].base = Len(wire) /\ total = Len(wire)
    /\ pc = "writev" => k \in at..Last /\ iov[k].base = Len(wire) /\ total + r = Len(wire)
                        /\ iov[at].base = total
    /\ pc = "skip" => /\ total = Len(wire) /\ Len(wire) <= request
                      /\ at <= Len(iov) => iov[at].base + r = Len(wire)
                      /\ at > Len(iov) => r = 0 /\ Len(wire) = request
    /\ pc = "ok" => total = request /\ Len(wire) = request

IndInv == TypeOK /\ wire = Bytes(0, Len(wire)) /\ Contiguous /\ Position
=============================================================================
