----------------------------- MODULE MCGoBlocks -----------------------------
(***************************************************************************)
(* Every byte string of at most MaxLength bytes over an alphabet with a    *)
(* stop, a jump, a JUMPDEST, a PUSH of two bytes, RETURN, which is no stop *)
(* to this parser, and the unassigned opcode the C++ table takes for a     *)
(* jump with four bytes of data; and those over LongAlphabet one longer.   *)
(***************************************************************************)
EXTENDS GoBlocks

CONSTANTS Alphabet, LongAlphabet, MaxLength

MCCodes ==
    UNION {[1 .. n -> Alphabet] : n \in 0 .. MaxLength}
    \cup [1 .. MaxLength + 1 -> LongAlphabet]

=============================================================================
