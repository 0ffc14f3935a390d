---------------------------- MODULE RustOpCodes ----------------------------
(***************************************************************************)
(* The opcode table of the Rust disassembler (op_codes.rs), its gas prices *)
(* and its arithmetic on BigInts.  A byte the table does not list takes    *)
(* and returns nothing and costs nothing.                                  *)
(***************************************************************************)
EXTENDS Integers, Sequences, BitSums

CONSTANTS
    UsizeModulus        \* 2^64 in the code: one more than the greatest usize

STOP     == 0
ADD      == 1
MUL      == 2
SUB      == 3
DIV      == 4
SDIV     == 5
MOD      == 6
EXP      == 10
LT       == 16
GT       == 17
EQ       == 20
ISZERO   == 21
AND      == 22
OR       == 23
XOR      == 24
NOT      == 25
POP      == 80
SHA3     == 32
BALANCE  == 49
SLOAD    == 84
SSTORE   == 85
JUMP     == 86
JUMPI    == 87
JUMPDEST == 91
PUSH1    == 96
DUP1     == 128
SWAP1    == 144
CALL     == 241
RETURN   == 243
SUICIDE  == 255

IsPush(op) == op \in PUSH1 .. PUSH1 + 31
IsDup(op)  == op \in DUP1 .. DUP1 + 15
IsSwap(op) == op \in SWAP1 .. SWAP1 + 15

PushBytes(op) == IF IsPush(op) THEN op - PUSH1 + 1 ELSE 0

IsStop(op) == op \in {STOP, RETURN}
IsJump(op) == op \in {JUMP, JUMPI}

IsArithmetic(op) ==
    op \in {EXP, DIV, NOT, ISZERO, SUB, OR, AND, ADD, GT, LT, XOR, MUL, MOD, EQ, SDIV}

-----------------------------------------------------------------------------
(***************************************************************************)
(* Columns of OPCODES.                                                     *)
(***************************************************************************)

Args(op) ==
    CASE IsDup(op)  -> op - DUP1 + 1
      [] IsSwap(op) -> op - SWAP1 + 2
      [] op \in {21, 25, 49, 53, 59, 64, 80, 81, 84, 86, 255} -> 1
      [] op \in (1 .. 7) \cup {10, 11} \cup (16 .. 20) \cup (22 .. 24)
                \cup {26, 32, 82, 83, 85, 87, 160, 243, 253} -> 2
      [] op \in {8, 9, 55, 57, 62, 161, 240, 251} -> 3
      [] op \in {60, 162}      -> 4
      [] op = 163              -> 5
      [] op \in {164, 244, 250} -> 6
      [] op \in {241, 242}     -> 7
      [] OTHER                 -> 0

\* What an opcode that is no PUSH, DUP or SWAP returns.
Ret(op) ==
    IF op \in (1 .. 11) \cup (16 .. 26) \cup {32} \cup (48 .. 54) \cup {56, 58, 59, 61}
              \cup (64 .. 69) \cup {81, 84} \cup (88 .. 90) \cup (240 .. 242)
              \cup {244, 250, 251}
    THEN 1 ELSE 0

Base    == {48} \cup (50 .. 52) \cup {54, 56, 58, 61} \cup (65 .. 69) \cup {80}
           \cup (88 .. 90)
VeryLow == {1, 3} \cup (16 .. 26) \cup {53, 55, 57, 62} \cup (81 .. 83)
           \cup (PUSH1 .. SWAP1 + 15)
Low     == (4 .. 7) \cup {2, 11}
Mid     == {8, 9, JUMP}
High    == {JUMPI}
Special == {10, 32, 49, 59, 60, 64, 84, 85, 91, 244, 250, 251, 255}
           \cup (160 .. 164) \cup (240 .. 242)

\* Special opcodes that get_gas_price panics on: BLOCKHASH, LOG0, CREATE,
\* CALLCODE, DELEGATECALL, STATICCALL, CREATE2.
Unpriced == {64, 160, 240, 242, 244, 250, 251}

GasPrice(op) ==
    CASE op \in Base    -> 2
      [] op \in VeryLow -> 3
      [] op \in Low     -> 5
      [] op \in Mid     -> 8
      [] op \in High    -> 10
      [] op \in {59, 60, CALL} -> 700
      [] op = BALANCE   -> 400
      [] op = SLOAD     -> 200
      [] op = JUMPDEST  -> 1
      [] op = SSTORE    -> 5000
      [] op = EXP       -> 10
      [] op = SHA3      -> 30
      [] op \in 161 .. 164 -> 375
      [] OTHER          -> 0

-----------------------------------------------------------------------------

Abs(a) == IF a < 0 THEN -a ELSE a

\* Division of BigInts rounds towards zero.
Quotient(a, b) ==
    IF (a < 0) # (b < 0) THEN -(Abs(a) \div Abs(b)) ELSE Abs(a) \div Abs(b)

\* The bytes to_bytes_be makes of a natural: one for zero.
ByteLength(a) == CHOOSE n \in 1 .. 32 : a < 256 ^ n /\ (n = 1 \/ 256 ^ (n - 1) <= a)

Truth(b) == IF b THEN 1 ELSE 0

\* to_usize gives something.
FitsUsize(n) == 0 <= n /\ n < UsizeModulus

\* An unwrap of a number that is negative or too large, the remainder by zero, and OR, for which
\* solve has no arm.
SolvePanics(op, in) ==
    \/ op = OR
    \/ op = MOD /\ in[2] = 0
    \/ op = EXP /\ ~FitsUsize(in[2])
    \/ op = NOT /\ in[1] < 0
    \/ op \in {AND, XOR} /\ (in[1] < 0 \/ in[2] < 0)

\* LT is computed as "greater than", and NOT inverts only the bytes there are.
Solve(op, in) ==
    CASE op = ADD            -> in[1] + in[2]
      [] op = MUL            -> in[1] * in[2]
      [] op = SUB            -> in[1] - in[2]
      [] op \in {DIV, SDIV}  -> IF in[2] = 0 THEN 0 ELSE Quotient(in[1], in[2])
      [] op = MOD            -> in[1] - in[2] * Quotient(in[1], in[2])
      [] op = EXP            -> in[1] ^ in[2]
      [] op \in {GT, LT}     -> Truth(in[1] > in[2])
      [] op = EQ             -> Truth(in[1] = in[2])
      [] op = ISZERO         -> Truth(in[1] = 0)
      [] op = AND            -> BitwiseSum(in[1], in[2], AndBits)
      [] op = XOR            -> BitwiseSum(in[1], in[2], XorBits)
      [] op = NOT            -> 256 ^ ByteLength(in[1]) - 1 - in[1]

=============================================================================
