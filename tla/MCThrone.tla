------------------------------ MODULE MCThrone ------------------------------
(***************************************************************************)
(* Model checking of Throne: a claim may come with nothing, with next to   *)
(* nothing, with the first price and with more than a later one.           *)
(***************************************************************************)
EXTENDS Throne, TLC

Symmetry == Permutations(Agents)

=============================================================================
