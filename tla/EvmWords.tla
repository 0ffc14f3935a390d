------------------------------ MODULE EvmWords ------------------------------
(***************************************************************************)
(* What the EVM computes, by the definitions of its arithmetic opcodes and *)
(* none of those OpCode::Solve has, on words that take no more bytes than  *)
(* an int64_t.  Bitwise opcodes work on sets of bits.                      *)
(***************************************************************************)
EXTENDS ConstantFolding

EvmModulus == PowerOf256[EvmBytes]

BitsOf(a) == {i \in 0 .. (8 * WordBytes - 1) : (a \div PowerOf2[i]) % 2 = 1}

WithBits(bits) ==
    LET sum[i \in 0 .. 8 * WordBytes] ==
            IF i = 0 THEN 0
            ELSE sum[i - 1] + (IF i - 1 \in bits THEN PowerOf2[i - 1] ELSE 0)
    IN  sum[8 * WordBytes]

\* The word an opcode makes of the words in, the top of the stack first.
EVMResult(op, in) ==
    CASE op = OP_ADD    -> in[1] + in[2]
      [] op = OP_MUL    -> in[1] * in[2]
      [] op = OP_SUB    -> (in[1] - in[2]) % EvmModulus
      [] op \in {OP_DIV, OP_SDIV} ->
            IF in[2] = 0 THEN 0
            ELSE CHOOSE q \in 0 .. in[1] :
                    q * in[2] <= in[1] /\ in[1] - q * in[2] < in[2]
      [] op = OP_MOD    ->
            IF in[2] = 0 THEN 0
            ELSE CHOOSE r \in 0 .. (in[2] - 1) :
                    \E q \in 0 .. in[1] : q * in[2] + r = in[1]
      [] op = OP_LT     -> Truth(in[1] < in[2])
      [] op = OP_GT     -> Truth(in[2] < in[1])
      [] op = OP_EQ     -> Truth(~(in[1] < in[2] \/ in[2] < in[1]))
      [] op = OP_ISZERO -> Truth(in[1] = 0)
      [] op = OP_AND    -> WithBits(BitsOf(in[1]) \cap BitsOf(in[2]))
      [] op = OP_XOR    -> WithBits((BitsOf(in[1]) \cup BitsOf(in[2]))
                                    \ (BitsOf(in[1]) \cap BitsOf(in[2])))
      [] op = OP_NOT    -> EvmModulus - 1 - in[1]

=============================================================================
