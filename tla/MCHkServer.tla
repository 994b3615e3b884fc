----------------------------- MODULE MCHkServer -----------------------------
(* Small instances of HkServer for TLC.                                     *)
EXTENDS HkServer, TLC

\* A number whose four bytes differ, and a negative one.
MCNumbers == {16909060, -2}

\* The robots differ only in their address.
MCSymmetry == Permutations(Robots)
=============================================================================
