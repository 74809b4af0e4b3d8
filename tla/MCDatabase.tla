----------------------------- MODULE MCDatabase -----------------------------
(***************************************************************************)
(* An instance of Database for TLC: the first account may be ahead of the  *)
(* other by a difference at which the rating formula is exact, or by one   *)
(* that is next to a threshold.                                            *)
(***************************************************************************)
EXTENDS Database

CONSTANTS Alice, Bob

Accounts == {Alice, Bob}

Ahead == {0, 10, 11, 100, 200, 400, 719, 720, 800}

FirstStarts ==
  {[n \in Accounts |-> IF n = Alice THEN 1000 + d ELSE 1000] : d \in Ahead}
=============================================================================
