---------------------------- MODULE MCPlayerLink ----------------------------
(***************************************************************************)
(* An instance of PlayerLink for TLC: the three kinds of lines, and the    *)
(* bursts the handlers send.                                               *)
(***************************************************************************)
EXTENDS PlayerLink

Lines == {"note", "match", "end"}

AllBursts == HandlerBursts
=============================================================================
