------------------------- MODULE InstructionStream -------------------------
(***************************************************************************)
(* The instruction stream that OpCodes::iterate makes of a byte string: a  *)
(* map from the offset of each instruction to its opcode.  iterate starts  *)
(* at offset 0, steps over the immediate data of each instruction, and     *)
(* leaves out a last instruction whose immediate data is cut short.        *)
(***************************************************************************)
EXTENDS OpCodes, FiniteSets

\* The offset behind instruction o.
EndOf(s, o) == o + 1 + Length(s[o])

IsStream(s) ==
    /\ DOMAIN s \in SUBSET Nat
    /\ \A o \in DOMAIN s : s[o] \in Byte
    /\ \A o, p \in DOMAIN s : o < p => EndOf(s, o) <= p
    /\ \A o \in DOMAIN s : o = 0 \/ \E p \in DOMAIN s : EndOf(s, p) = o

IsByteString(c) ==
    IsFiniteSet(DOMAIN c) /\ c \in [0 .. (Cardinality(DOMAIN c) - 1) -> Byte]

\* The stream of the byte string code (a function on 0 .. len-1).
StreamOf(code, len) ==
    LET isStart[o \in 0 .. len] ==
            \/ o = 0
            \/ \E p \in 0 .. (o - 1) :
                   isStart[p] /\ p + 1 + Length(code[p]) = o
        starts == {o \in 0 .. (len - 1) :
                      isStart[o] /\ o + Length(code[o]) < len}
    IN  [o \in starts |-> code[o]]

=============================================================================
