----------------------------- MODULE MCMainLoop -----------------------------
(* An instance of MainLoop for TLC.                                        *)
EXTENDS MainLoop, TLC

CONSTANTS A, B, a, b

Pools == (A :> {a}) @@ (B :> {b})
=============================================================================
