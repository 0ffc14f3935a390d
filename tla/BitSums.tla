------------------------------ MODULE BitSums ------------------------------
(***************************************************************************)
(* The bitwise operators of both disassemblers, on naturals below 2^Bits.  *)
(***************************************************************************)
EXTENDS Powers

CONSTANT Bits           \* bound: width of the operands of AND and XOR

\* What the operators make of two bits.
AndBits == [p \in (0 .. 1) \X (0 .. 1) |-> p[1] * p[2]]
XorBits == [p \in (0 .. 1) \X (0 .. 1) |-> (p[1] + p[2]) % 2]

BitwiseSum(a, b, bits) ==
    LET below[i \in 0 .. Bits] ==
            IF i = 0 THEN 0
            ELSE LET w == PowerOf2[i - 1]
                 IN  below[i - 1] + w * bits[<<(a \div w) % 2, (b \div w) % 2>>]
    IN  below[Bits]

=============================================================================
