---------------------------- MODULE MCTntIoSendv ----------------------------
(* Every vector of up to four segments of up to three bytes. *)
EXTENDS TntIoSendv

MCVectors ==
    {v \in UNION {[1..n -> 0..12] : n \in 2..5} :
        /\ v[1] = 0 /\ v[2] > 0
        /\ \A i \in 2..Len(v) : v[i] - v[i - 1] \in 0..3}
=============================================================================
