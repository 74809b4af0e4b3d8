----------------------------- MODULE MCWebGame -----------------------------
(***************************************************************************)
(* Two web clients for TLC.                                                *)
(***************************************************************************)
EXTENDS WebGame

CONSTANTS c1, c2
Pair == {c1, c2}
=============================================================================
