------------------------------ MODULE MsgPack -------------------------------
(***************************************************************************)
(* Msgpack values as sequences of tokens, for the modules that encode and  *)
(* parse them.  A token has a kind, a value and a width in bytes; a string *)
(* is two of them, its length and its bytes.  mp_check and mp_next of the  *)
(* msgpuck library look for the end of a value by counting the values that *)
(* are still missing, and so do Missing and EndOf.                         *)
(***************************************************************************)
EXTENDS Integers, SequencesExt

Tok(t, v, w) == [t |-> t, v |-> v, w |-> w]
Uint(v) == Tok("uint", v, IF v < 128 THEN 1 ELSE IF v < 256 THEN 2
                          ELSE IF v < 65536 THEN 3 ELSE 5)
MapOf(n) == Tok("map", n, 1)
ArrayOf(n) == Tok("array", n, 1)
Strl(n) == Tok("strl", n, IF n < 32 THEN 1 ELSE 2)
Raw(n) == Tok("raw", 0, n)

\* A string of n bytes: mp_encode_strl and the bytes.
Str(n) == <<Strl(n), Raw(n)>>

\* Values that have to follow a token before its own value is complete.
Arity(x) == CASE x.t = "map" -> 2 * x.v [] x.t = "array" -> x.v
              [] x.t = "strl" -> 1 [] OTHER -> 0

Bytes(s) == FoldSeq(LAMBDA x, n : x.w + n, 0, s)

\* The values still missing after s[i..j] when a value starts at i.
Missing(s, i, j) == 1 + FoldSeq(LAMBDA x, n : Arity(x) - 1 + n, 0, SubSeq(s, i, j))

\* Where a value that starts at i may end: nowhere if s is cut off before.
Ends(s, i) == {j \in i..Len(s) : Missing(s, i, j) = 0}
EndOf(s, i) == CHOOSE j \in Ends(s, i) : \A k \in Ends(s, i) : j <= k

\* s is one value and nothing else.
OneValue(s) == Ends(s, 1) # {} /\ EndOf(s, 1) = Len(s)

=============================================================================
