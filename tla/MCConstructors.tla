--------------------------- MODULE MCConstructors ---------------------------
(***************************************************************************)
(* Constructors: code that copies a part of itself to memory and returns a *)
(* part of the memory.                                                     *)
(***************************************************************************)
EXTENDS Program

CONSTANTS
    Sizes,              \* of the copy and of what is returned
    Offsets,            \* in the code, of what is copied
    Unreadable          \* stands for a constant that has too many bytes

OP_GAS == 90

\* A constant of one or two bytes, or the complement of 0, which cannot be read.
PushedNumber(v) ==
    IF v = Unreadable THEN <<OP_PUSH1, 0, OP_NOT>>
    ELSE IF v < 256 THEN <<OP_PUSH1, v>>
    ELSE <<OP_PUSH1 + 1, v \div 256, v % 256>>

Constructor(size, from, to, between, returned, at, contract) ==
    PushedNumber(size) \o PushedNumber(from) \o PushedNumber(to) \o <<Find!OP_CODECOPY>>
        \o between \o PushedNumber(returned) \o PushedNumber(at) \o <<OP_RETURN>>
        \o contract

\* A contract that reads tx.origin, one that starts with a JUMPDEST, a cut-short
\* PUSH behind it, and another constructor.
Contracts ==
    {<<Out!OP_ORIGIN, OP_POP, OP_STOP>>, <<OP_JUMPDEST, OP_GAS, OP_STOP>>,
     <<OP_PUSH1, 0, OP_GAS, OP_STOP, OP_PUSH1>>,
     Constructor(4, 12, 0, <<>>, 4, 0, <<OP_STOP, Out!OP_ORIGIN, OP_POP, OP_STOP>>)}

Constructors ==
    {AsCode(Constructor(size, from, to, between, returned, at, contract)) :
        size \in Sizes, from \in Offsets, to \in {0, 1},
        between \in {<<>>, <<OP_JUMPDEST>>, <<OP_STOP>>},
        returned \in Sizes, at \in {0, 1}, contract \in Contracts}

=============================================================================
