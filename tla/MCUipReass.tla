----------------------------- MODULE MCUipReass -----------------------------
(* Fragments of one or two blocks of a packet of at most six, in a buffer  *)
(* of seven with the header: all of them end within the arrays.            *)
EXTENDS UipReass

ReassFrags == [at : 0..4, len : {1, 2}, more : BOOLEAN]
=============================================================================
