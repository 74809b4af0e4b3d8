-------------------------------- MODULE Elo --------------------------------
(***************************************************************************)
(* The rating arithmetic of GameRoom::update_rating.  The code computes    *)
(* the winner's new rating as lround(Ra + x) and the loser's as            *)
(* lround(Rb - x), in doubles, with x = 32 * (1 - Ea) and                  *)
(* Ea = 1 / (1 + 10^((Rb - Ra) / 400)).  x depends on d = Ra - Rb only and *)
(* falls as d grows; EloThreshold[g] is the largest d at which it is above *)
(* g - 1/2, that is                                                        *)
(*     floor(400 * log10(32 / (g - 1/2) - 1)).                             *)
(* It is never equal to g - 1/2, so neither rounding meets a tie.          *)
(***************************************************************************)
EXTENDS Integers, FiniteSets

\* const int K = 32, the most one game can move a rating.
K == 32

EloThreshold ==
  << 719,  523,  428,  364,  314,  273,  237,  205,
     176,  149,  124,  100,   77,   54,   32,   10,
     -11,  -33,  -55,  -78, -101, -125, -150, -177,
    -206, -238, -274, -315, -365, -429, -524, -720 >>

\* mutant of Gain: a threshold itself no longer counts.
Gain_strict(d) == Cardinality({g \in 1..K : d < EloThreshold[g]})

\* mutant of Gain: the ratings of winner and loser are swapped in the exponent.
Gain_swapped(d) == Cardinality({g \in 1..K : d >= EloThreshold[g]})

\* Points the winner gains who is rated d above the loser: the first lround goes
\* up to Ra + g where x is above g - 1/2.
Gain(d) == Cardinality({g \in 1..K : d <= EloThreshold[g]})

\* mutant of Loss: at a threshold the loser's rounding goes the other way.
Loss_spared(d) == K - Cardinality({g \in 1..K : d >= EloThreshold[g]})

\* Points the loser loses to a winner rated d above him: all K but one for each
\* g - 1/2 that x does not reach, from which the second lround goes back up.
Loss(d) == K - Cardinality({g \in 1..K : d > EloThreshold[g]})
=============================================================================
