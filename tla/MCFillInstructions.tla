------------------------- MODULE MCFillInstructions -------------------------
(***************************************************************************)
(* Every byte string over Alphabet of at most MaxLength bytes, and the     *)
(* strings PUSH1 a, PUSH1 b, op, PUSH1 c, op', op'' over Immediates,       *)
(* Operators and Unary: the constants a folding computes are folded again. *)
(***************************************************************************)
EXTENDS FillInstructions

CONSTANTS Alphabet, MaxLength, Immediates, Operators, Unary

ASSUME BoundsAssumption ==
    /\ Alphabet \cup Immediates \cup Operators \cup Unary \subseteq Byte
    /\ MaxLength \in Nat

MCByteStrings == UNION {[0 .. (n - 1) -> Alphabet] : n \in 1 .. MaxLength}

MCFoldings ==
    {[i \in 0 .. 8 |->
        CASE i \in {0, 2, 5} -> OP_PUSH1
          [] i = 1 -> v[1] [] i = 3 -> v[2] [] i = 6 -> v[3]
          [] i = 4 -> f[1] [] i = 7 -> f[2]
          [] i = 8 -> u] :
        v \in [1 .. 3 -> Immediates], f \in [1 .. 2 -> Operators], u \in Unary}

MCCodes == MCByteStrings \cup MCFoldings

=============================================================================
