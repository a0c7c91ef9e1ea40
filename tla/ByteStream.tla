----------------------------- MODULE ByteStream -----------------------------
(***************************************************************************)
(* What one direction of a tnt_net connection promises its user: the bytes *)
(* put in at one end come out at the other end once each and in order,     *)
(* until the stream is broken by an I/O error that lost track of them; a   *)
(* reconnect starts a new, empty stream.                                   *)
(*                                                                         *)
(* A byte is its position in the sequence of all bytes ever put in: the    *)
(* n-th byte is the number n.  The current connection carries the bytes    *)
(* after position base.                                                    *)
(*                                                                         *)
(* TntIoRecv (server to caller) and TntIoSend (caller to server) both      *)
(* implement this specification.                                           *)
(***************************************************************************)
EXTENDS Integers, Sequences

VARIABLES put,         \* number of bytes put into the stream so far
          base,        \* value of put when the current connection was made
          delivered,   \* what came out of the current connection
          broken       \* an I/O error lost track of the position

vars == <<put, base, delivered, broken>>

\* The n positions that follow position p, in order.
Run(p, n) == [i \in 1..n |-> p + i]

Init ==
    /\ put = 0
    /\ base = 0
    /\ delivered = <<>>
    /\ broken = FALSE

Put ==
    /\ put' \in Nat /\ put' > put
    /\ UNCHANGED <<base, delivered, broken>>

\* A writer may take back bytes none of which came out; the error that made it
\* do so may break the stream.
Withdraw ==
    /\ put' \in Nat /\ put' < put
    /\ base <= put'
    /\ \A i \in 1..Len(delivered) : delivered[i] <= put'
    /\ broken' \in {broken, TRUE}
    /\ UNCHANGED <<base, delivered>>

Get ==
    /\ ~broken
    /\ \E n \in 1..(put - base - Len(delivered)) :
           delivered' = delivered \o Run(base + Len(delivered), n)
    /\ UNCHANGED <<put, base, broken>>

\* A broken stream still yields bytes of the current connection only.
GetBroken ==
    /\ broken
    /\ Len(delivered') >= Len(delivered)
    /\ \A i \in 1..Len(delivered) : delivered'[i] = delivered[i]
    /\ \A i \in 1..Len(delivered') : delivered'[i] \in (base + 1)..put
    /\ UNCHANGED <<put, base, broken>>

Break ==
    /\ broken' = TRUE
    /\ UNCHANGED <<put, base, delivered>>

\* A new connection carries no byte that the old one delivered.
Reset ==
    /\ base' \in Nat /\ base' <= put
    /\ \A i \in 1..Len(delivered) : delivered[i] <= base'
    /\ delivered' = <<>>
    /\ broken' = FALSE
    /\ UNCHANGED put

Next == Put \/ Withdraw \/ Get \/ GetBroken \/ Break \/ Reset

Spec == Init /\ [][Next]_vars
=============================================================================
