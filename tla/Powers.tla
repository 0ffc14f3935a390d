------------------------------- MODULE Powers -------------------------------
(***************************************************************************)
(* What the bits and the bytes of a number stand for.                      *)
(***************************************************************************)
EXTENDS Integers

PowerOf2[n \in Nat] == IF n = 0 THEN 1 ELSE 2 * PowerOf2[n - 1]

PowerOf256[n \in Nat] == IF n = 0 THEN 1 ELSE 256 * PowerOf256[n - 1]

=============================================================================
