------------------------------ MODULE OpCodes ------------------------------
(***************************************************************************)
(* The opcode table of the C++ disassembler (opcodes_xx.h) and the         *)
(* classification predicates of OpCodes::OpCode (OpCodes.cc).  An opcode   *)
(* is its byte, a number in 0..255; a byte the table does not list is the  *)
(* UNKNOWN opcode OpCodes::get makes for it, which removes nothing, adds   *)
(* nothing and has no immediate data.                                      *)
(***************************************************************************)
EXTENDS Integers

Byte == 0 .. 255

OP_STOP       == 0
OP_ADD        == 1
OP_EXP        == 10
OP_SIGNEXTEND == 11
OP_LT         == 16
OP_ISZERO     == 21
OP_NOT        == 25
OP_BYTE       == 26
OP_POP        == 80
OP_JUMP       == 86
OP_JUMPI      == 87
OP_JUMPDEST   == 91
OP_PUSH1      == 96
OP_PUSH32     == 127
OP_DUP1       == 128
OP_DUP16      == 143
OP_SWAP1      == 144
OP_SWAP16     == 159
OP_RETURN     == 243
OP_REVERT     == 253
OP_INVALID    == 254
OP_SUICIDE    == 255

(***************************************************************************)
(* Columns of the table.                                                   *)
(***************************************************************************)

IsPush(op) == op \in OP_PUSH1 .. OP_PUSH32
IsDup(op)  == op \in OP_DUP1 .. OP_DUP16
IsSwap(op) == op \in OP_SWAP1 .. OP_SWAP16

\* Bytes of immediate data behind the opcode byte: PUSHn carries n, the
\* four-byte jumps JUMPTO, JUMPIF, JUMPSUB carry 4 and JUMPV carries 8.
Length(op) ==
    IF IsPush(op) THEN op - OP_PUSH1 + 1
    ELSE IF op \in 176 .. 178 THEN 4
    ELSE IF op = 179 THEN 8
    ELSE 0

StackRemoved(op) ==
    CASE IsDup(op)                                    -> op - OP_DUP1 + 1
      [] IsSwap(op)                                   -> op - OP_SWAP1 + 2
      [] op \in {21, 25, 49, 53, 59, 64, 80, 81, 84,
                 86, 185, 255}                        -> 1
      [] op \in (1 .. 7) \cup {10, 11, 160, 243} \cup (16 .. 20)
                \cup (22 .. 24) \cup {26, 32, 82, 83, 85, 87} -> 2
      [] op \in {8, 9, 55, 57, 161, 240}              -> 3
      [] op \in {60, 162}                             -> 4
      [] op = 163                                     -> 5
      [] op \in {164, 244}                            -> 6
      [] op \in {241, 242}                            -> 7
      [] OTHER                                        -> 0

StackAdded(op) ==
    CASE IsDup(op)  -> op - OP_DUP1 + 2
      [] IsSwap(op) -> op - OP_SWAP1 + 2
      [] \/ IsPush(op)
         \/ op \in (1 .. 11) \cup (16 .. 26) \cup {32} \cup (48 .. 54)
                   \cup {56, 58, 59} \cup (64 .. 69) \cup {81, 84}
                   \cup (88 .. 90) \cup {184, 240, 241, 242, 244} -> 1
      [] OTHER -> 0

\* The opcode bytes the table names; OpCodes::get makes an UNKNOWN opcode for
\* every other byte.
Known == (0 .. 11) \cup (16 .. 26) \cup {32} \cup (48 .. 60) \cup (64 .. 69)
         \cup (80 .. 91) \cup (96 .. 159) \cup (160 .. 164) \cup (172 .. 174)
         \cup (176 .. 185) \cup (240 .. 244) \cup (253 .. 255)

IsUnknown(op) == op \notin Known

(***************************************************************************)
(* Predicates of OpCodes::OpCode.                                          *)
(***************************************************************************)

IsBranch(op) == op \in {OP_JUMP, OP_JUMPI}

\* The opcodes after which the disassembler assumes execution stops.
IsStop(op) == op \in {OP_STOP, OP_RETURN, OP_INVALID, OP_SUICIDE}

IsFallThrough(op) == ~IsStop(op) /\ op # OP_JUMP

IsStackManipulatorOnly(op) ==
    IsSwap(op) \/ IsDup(op) \/ IsPush(op) \/ op = OP_POP

IsArithmetic(op) ==
    /\ ~IsUnknown(op)
    /\ op \notin {OP_EXP, OP_SIGNEXTEND}
    /\ op >= OP_ADD /\ op < OP_BYTE

=============================================================================
