----------------------------- MODULE MCZSignal -----------------------------
(* Small instances of ZSignal for TLC.                                      *)
EXTENDS ZSignal
=============================================================================
