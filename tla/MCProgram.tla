----------------------------- MODULE MCProgram -----------------------------
(***************************************************************************)
(* Every byte string over Alphabet of at most MaxLength bytes; programs    *)
(* that push one of JumpTargets, alone or above ORIGIN, and go on with     *)
(* four bytes of JumpTail: jumps to known addresses lead to code of every  *)
(* kind, and back; programs that push a target as more bytes than an       *)
(* int64_t has; and the programs of MCBlocks and MCConstructors.           *)
(***************************************************************************)
EXTENDS MCBlocks

CONSTANTS Alphabet, MaxLength, JumpTargets, JumpTail

MCByteStrings == UNION {[0 .. (n - 1) -> Alphabet] : n \in 1 .. MaxLength}

MCJumps ==
    {AsCode(before \o <<OP_PUSH1, target>> \o tail) :
        before \in {<<>>, <<Out!OP_ORIGIN>>}, target \in JumpTargets, tail \in [1 .. 4 -> JumpTail]}

MCWideJumps ==
    {AsCode(<<OP_PUSH1 + WordBytes>> \o [i \in 1 .. WordBytes |-> 0] \o <<target>> \o tail) :
        target \in JumpTargets, tail \in [1 .. 3 -> JumpTail]}

MCShortCodes == MCByteStrings \cup MCJumps \cup MCWideJumps

MCCodes == MCShortCodes \cup MCBlockCodes \cup Constructors

=============================================================================
