-------------------------- MODULE CreatedContracts --------------------------
(***************************************************************************)
(* Program::findCreatedContracts (Program.cc): behind each CODECOPY of a   *)
(* reachable node whose operands are constants, the first instruction that *)
(* stops is looked for; if it is a RETURN, the part of the code it returns *)
(* is taken for a contract and analysed as a program of its own.           *)
(***************************************************************************)
EXTENDS CFInstruction, InstructionStream, FiniteSetsExt

CONSTANTS
    IntBytes            \* bytes of an int (4 in the code)

VARIABLES
    code,               \* Program::byteCode
    instructions,       \* offset -> CFInstruction
    nodes,              \* start address -> CFNode, or NoNode for a null pointer
    reach,              \* nodes IsReachable says yes of
    copies,             \* CODECOPYs still to be looked at
    copyAt,             \* the one whose stop is being looked for, or NoCopy
    searchPos,          \* the local pos of that search
    nulls,              \* keys of instructions that hold a null pointer
    created,            \* byte strings found, as sequences
    findStatus          \* "waiting", "asked", "running", "done", "aborted"

findVars == <<code, instructions, nodes, reach, copies, copyAt, searchPos, nulls,
              created, findStatus>>

NoNode == [start |-> -1, end |-> -1, idx |-> 0, isJumpDest |-> FALSE]
NoCopy == -1

OP_CODECOPY == 57

Opcodes == [o \in DOMAIN instructions |-> instructions[o].op]

AllOperandsConstant(o) ==
    \A i \in 1 .. Len(instructions[o].operands) :
        instructions[o].operands[i].kind = "constant"

\* CFNode::Instructions.
InstructionsOf(k) ==
    {o \in DOMAIN instructions : nodes[k].start <= o /\ o < nodes[k].end}

\* nodes is walked in the order of the addresses.
Copies ==
    {o \in UNION {InstructionsOf(k) : k \in reach} :
        instructions[o].op = OP_CODECOPY /\ AllOperandsConstant(o)}

-----------------------------------------------------------------------------

\* IsReachable has been asked of every node.
Begin ==
    /\ findStatus = "asked"
    /\ findStatus' = "running"
    /\ copies' = Copies
    /\ UNCHANGED <<code, instructions, nodes, reach, copyAt, searchPos, nulls, created>>

\* The operands of an instruction, read; the assertion wants all to be readable.
CanRead(o) == AllReadable(instructions[o].operands)
Operand(o, i) == Values(instructions[o].operands)[i]

OthersAndThis(o) == copies

Others(o) == copies \ {o}

Copy(o) ==
    /\ findStatus = "running"
    /\ copyAt = NoCopy
    /\ o \in copies /\ \A p \in copies : o <= p
    /\ CanRead(o)
    /\ copyAt' = o
    /\ searchPos' = o
    /\ copies' = Others(o)
    /\ UNCHANGED <<code, instructions, nodes, reach, nulls, created, findStatus>>

\* instructions.size(), the null pointers the search has added included.
InstructionCount == Cardinality(DOMAIN instructions) + Cardinality(nulls)

\* The loop compares an offset with a number of instructions.
Searches == copyAt # NoCopy /\ searchPos < InstructionCount

StopsAt(o) == o \in DOMAIN instructions /\ IsStop(instructions[o].op)

\* instructions[pos++] adds a null pointer where there is no instruction.
Search ==
    /\ findStatus = "running"
    /\ Searches
    /\ ~StopsAt(searchPos)
    /\ nulls' = nulls \cup ({searchPos} \ DOMAIN instructions)
    /\ searchPos' = searchPos + 1
    /\ UNCHANGED <<code, instructions, nodes, reach, copies, copyAt, created, findStatus>>

GiveUp ==
    /\ findStatus = "running"
    /\ copyAt # NoCopy /\ ~Searches
    /\ copyAt' = NoCopy
    /\ UNCHANGED <<code, instructions, nodes, reach, copies, searchPos, nulls, created,
                   findStatus>>

IntModulus == PowerOf256[IntBytes]

\* The int with the lowest bytes of n.
AsInt(n) ==
    LET low == n % IntModulus
    IN  IF 2 * low < IntModulus THEN low ELSE low - IntModulus

FirstByteOfCode(copy, ret) == AsInt(Operand(ret, 1) - Operand(copy, 1))

\* Where the int that counts the bytes starts, and the int64_t it runs up to.
FirstByte(copy, ret) == AsInt(Operand(copy, 2) - (Operand(ret, 1) - Operand(copy, 1)))

EndByte(copy, ret) ==
    Signed((Operand(copy, 2) + Operand(ret, 2) - (Operand(ret, 1) - Operand(copy, 1))) % Modulus)

\* The bytes returned; an offset outside the code, below zero as well, has none.
NewCode(copy, ret) ==
    LET returned == {i \in DOMAIN code : FirstByte(copy, ret) <= i /\ i < EndByte(copy, ret)}
    IN  [i \in 1 .. Cardinality(returned) |-> code[Min(returned) + i - 1]]

\* The int has to count beyond the greatest int.
Overflows(copy, ret) ==
    FirstByte(copy, ret) < EndByte(copy, ret) /\ 2 * EndByte(copy, ret) >= IntModulus

Returns(o) == instructions[o].op = OP_RETURN /\ AllOperandsConstant(o)

\* The program of an empty string is not made.  An int that overflows is undefined:
\* here it has been kept in a register of 64 bits.
Stop ==
    /\ findStatus = "running"
    /\ Searches
    /\ StopsAt(searchPos)
    /\ Returns(searchPos) => CanRead(searchPos)
    /\ created' = created \cup
          ({NewCode(copyAt, o) : o \in {p \in {searchPos} : Returns(p)}} \ {<<>>})
    /\ copyAt' = NoCopy
    /\ UNCHANGED <<code, instructions, nodes, reach, copies, searchPos, nulls, findStatus>>

\* The int that overflows starts again below zero, never gets to the end and takes the
\* bytes of the code again and again, until there is no memory left.
Exhaust ==
    /\ findStatus = "running"
    /\ Searches
    /\ StopsAt(searchPos) /\ Returns(searchPos) /\ CanRead(searchPos)
    /\ Overflows(copyAt, searchPos)
    /\ findStatus' = "aborted"
    /\ UNCHANGED <<code, instructions, nodes, reach, copies, copyAt, searchPos, nulls, created>>

\* assert(canRead) fails for an operand of more than eight bytes.
Abort ==
    /\ findStatus = "running"
    /\ \/ /\ copyAt = NoCopy
          /\ \E o \in copies : (\A p \in copies : o <= p) /\ ~CanRead(o)
       \/ Searches /\ StopsAt(searchPos) /\ Returns(searchPos) /\ ~CanRead(searchPos)
    /\ findStatus' = "aborted"
    /\ UNCHANGED <<code, instructions, nodes, reach, copies, copyAt, searchPos, nulls, created>>

Return ==
    /\ findStatus = "running"
    /\ copyAt = NoCopy /\ copies = {}
    /\ findStatus' = "done"
    /\ UNCHANGED <<code, instructions, nodes, reach, copies, copyAt, searchPos, nulls, created>>

Next ==
    \/ Begin \/ (\E o \in copies : Copy(o)) \/ Search \/ GiveUp \/ Stop \/ Exhaust
    \/ Abort \/ Return

=============================================================================
