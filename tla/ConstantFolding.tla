-------------------------- MODULE ConstantFolding --------------------------
(***************************************************************************)
(* OpCodes::OpCode::Solve and the conversions around it                    *)
(* (getInt64FromVec, getVecFromInt64).  A constant is a big-endian string  *)
(* of bytes, the data of a PUSH or the result of a folding; it is read     *)
(* into an int64_t and written back from one.  The width of an int64_t and *)
(* that of a word of the EVM are parameters.                               *)
(***************************************************************************)
EXTENDS OpCodes, Sequences, Powers

CONSTANTS
    WordBytes,          \* bytes of an int64_t (8 in the code)
    EvmBytes            \* bytes of a word of the EVM (32 in the code)

ASSUME WidthAssumption ==
    WordBytes \in Nat \ {0} /\ EvmBytes \in Nat /\ WordBytes < EvmBytes

Bits == INSTANCE BitSums WITH Bits <- 8 * WordBytes

OP_MUL  == 2
OP_SUB  == 3
OP_DIV  == 4
OP_SDIV == 5
OP_MOD  == 6
OP_GT   == 17
OP_EQ   == 20
OP_AND  == 22
OP_XOR  == 24

Modulus == PowerOf256[WordBytes]

\* The int64_t with the bits of an unsigned number.
Signed(u) == IF 2 * u < Modulus THEN u ELSE u - Modulus

\* The number a big-endian string of bytes stands for.
WordOf(v) ==
    LET upTo[i \in 0 .. Len(v)] == IF i = 0 THEN 0 ELSE 256 * upTo[i - 1] + v[i]
    IN  upTo[Len(v)]

IsReadable(v) == Len(v) <= WordBytes

\* getInt64FromVec of a vector that IsReadable: eight bytes may make it negative.
GetInt64FromVec(v) == Signed(WordOf(v))

\* The bytes getVecFromInt64 shifts out of a number, the highest first.
LowBytes(u) ==
    LET n == CHOOSE k \in 1 .. WordBytes :
                u < PowerOf256[k] /\ \A j \in 1 .. (k - 1) : u >= PowerOf256[j]
    IN  [i \in 1 .. n |-> (u \div PowerOf256[n - i]) % 256]

GetVecFromInt64Unsigned(i) == LowBytes(i % Modulus)

\* getVecFromInt64: the sign of a negative number is pushed first, and the whole
\* reversed, so it ends behind the number.
GetVecFromInt64(i) ==
    LowBytes(i % Modulus)
        \o (IF i < 0 THEN [k \in 1 .. (EvmBytes - WordBytes) |-> 255] ELSE <<>>)

Truth(b) == IF b THEN 1 ELSE 0

\* The opcodes Solve has a case for; for the other arithmetic ones it throws
\* and simplify keeps the symbolic output.
HasLogic == {OP_ADD, OP_MUL, OP_SUB, OP_DIV, OP_SDIV, OP_MOD, OP_LT, OP_GT,
             OP_EQ, OP_ISZERO, OP_AND, OP_XOR, OP_NOT}

MinInt64 == Signed(Modulus \div 2)

\* Instructions of the processor that trap: the remainder by zero, and a
\* quotient that has no int64_t.
Traps(op, in) ==
    \/ op = OP_MOD /\ in[2] = 0
    \/ op \in {OP_DIV, OP_SDIV, OP_MOD} /\ in[1] = MinInt64 /\ in[2] = -1

\* Division truncates towards zero.
Quotient(a, b) ==
    LET q == (IF a < 0 THEN -a ELSE a) \div (IF b < 0 THEN -b ELSE b)
    IN  IF a < 0 <=> b < 0 THEN q ELSE -q

SolveReversed(op, in) ==
    CASE op = OP_ADD                -> in[1] + in[2]
      [] op = OP_SUB                -> in[2] - in[1]
      [] op \in {OP_GT, OP_LT}      -> Truth(in[1] > in[2])
      [] op = OP_ISZERO             -> Truth(in[1] = 0)
      [] OTHER                      -> 0

\* The integer Solve computes, before it is cut to an int64_t.  LT is computed as
\* "greater than", like GT.
Solve(op, in) ==
    CASE op = OP_ADD                -> in[1] + in[2]
      [] op = OP_MUL                -> in[1] * in[2]
      [] op = OP_SUB                -> in[1] - in[2]
      [] op \in {OP_DIV, OP_SDIV}   -> IF in[2] = 0 THEN 0 ELSE Quotient(in[1], in[2])
      [] op = OP_MOD                -> in[1] - in[2] * Quotient(in[1], in[2])
      [] op \in {OP_GT, OP_LT}      -> Truth(in[1] > in[2])
      [] op = OP_EQ                 -> Truth(in[1] = in[2])
      [] op = OP_ISZERO             -> Truth(in[1] = 0)
      [] op = OP_AND                -> Bits!BitwiseSum(in[1] % Modulus, in[2] % Modulus,
                                                       Bits!AndBits)
      [] op = OP_XOR                -> Bits!BitwiseSum(in[1] % Modulus, in[2] % Modulus,
                                                       Bits!XorBits)
      [] op = OP_NOT                -> -in[1] - 1

\* The constant a folding leaves: overflow wraps.
Result(op, in) == GetVecFromInt64(Signed(Solve(op, in) % Modulus))

=============================================================================
