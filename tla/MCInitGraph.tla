---------------------------- MODULE MCInitGraph ----------------------------
(***************************************************************************)
(* Model checking of InitGraph: the stream of every byte string of at most *)
(* MaxLength bytes over an alphabet with one opcode of each class the pass *)
(* tells apart (a stop, a branch, a JUMPDEST, a plain one, one with two    *)
(* bytes of immediate data).                                               *)
(***************************************************************************)
EXTENDS InitGraph

CONSTANTS Alphabet, MaxLength

MCStreams ==
    UNION {{StreamOf(code, n) : code \in [0 .. (n - 1) -> Alphabet]} :
              n \in 0 .. MaxLength}
=============================================================================
