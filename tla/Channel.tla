------------------------------ MODULE Channel ------------------------------
(***************************************************************************)
(* What a session's send promises, whatever the transport and the state of *)
(* the connection: the lines reach the client in the order they were sent, *)
(* none twice and none before another was dropped; only the loss of the    *)
(* connection loses lines, and then only the last ones.                    *)
(***************************************************************************)
EXTENDS Naturals, Sequences

CONSTANT Line

VARIABLES
  transit,    \* the lines sent and not yet received
  up          \* FALSE once the connection is lost

chanVars == <<transit, up>>

IsPartOf(short, long) ==
  Len(short) <= Len(long) /\ short = SubSeq(long, 1, Len(short))

ChannelInit == transit = <<>> /\ up = TRUE

Put ==
  /\ up
  /\ transit' \in Seq(Line)
  /\ IsPartOf(transit, transit')
  /\ UNCHANGED up

Take ==
  /\ \E k \in 1..Len(transit) : transit' = SubSeq(transit, k + 1, Len(transit))
  /\ UNCHANGED up

Cut ==
  /\ up /\ up' = FALSE
  /\ transit' \in Seq(Line)
  /\ IsPartOf(transit', transit)

ChannelNext == Put \/ Take \/ Cut

ChannelSpec == ChannelInit /\ [][ChannelNext]_chanVars
=============================================================================
