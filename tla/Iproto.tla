------------------------------- MODULE Iproto -------------------------------
(***************************************************************************)
(* Numbers of the binary protocol that more than one module needs: keys of *)
(* the header and of the body of a packet, and the size of a scramble.     *)
(***************************************************************************)
EXTENDS MsgPack

CODE == 0
SYNC == 1
DATA == 48
ERROR == 49
ScrambleSize == 20
=============================================================================
