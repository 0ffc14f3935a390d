------------------------------ MODULE Reports ------------------------------
(***************************************************************************)
(* What etherdis --outdir does with a Program (etherdis.cc): it writes the *)
(* disassembly, in short and in full, and audits the program               *)
(* (AuditResult.cc).  Of the text, only the lookups are modelled that the  *)
(* writing makes with Program::GetNode, which asserts that it finds a node.*)
(***************************************************************************)
EXTENDS CFInstruction, InstructionStream, FiniteSets

VARIABLES
    code,               \* Program::byteCode
    instructions,       \* offset -> CFInstruction
    symbols,            \* idx -> where a symbol is created and used
    nodes,              \* start address -> CFNode, or NoNode for a null pointer
    reach,              \* nodes IsReachable says yes of
    created,            \* byte strings of the contracts created
    left,               \* outputs still to be written
    findings,           \* offsets the audit reports
    outStatus           \* "waiting", "running", "done" or "aborted"

outVars == <<code, instructions, symbols, nodes, reach, created, left, findings, outStatus>>

NoNode == [start |-> -1, end |-> -1, idx |-> 0, isJumpDest |-> FALSE]

OP_ORIGIN == 50

Nothing == -1           \* GetNode returned a null pointer
Failed  == -2           \* its assertion failed

Filed == {k \in DOMAIN nodes : nodes[k] # NoNode}

Smallest(S) == CHOOSE k \in S : \A j \in S : k <= j
Largest(S)  == CHOOSE k \in S : \A j \in S : j <= k

StartsBeforeStrictly(k, offset) == nodes[k].start < offset

StartsBefore(k, offset) == nodes[k].start <= offset

\* Program::GetNode: lower_bound, and back from there to a node that starts early
\* enough.  From end() there is no way back: the loop stops at once.
GetNode(offset) ==
    LET behind == {k \in DOMAIN nodes : k >= offset}
        before == {k \in Filed : k <= Smallest(behind) /\ StartsBefore(k, offset)}
    IN  IF offset \notin DOMAIN code THEN Nothing
        ELSE IF behind = {} \/ before = {} THEN Failed
        ELSE IF nodes[Largest(before)].end >= offset THEN Largest(before)
        ELSE Failed

-----------------------------------------------------------------------------

InstructionsOf(k) ==
    {o \in DOMAIN instructions : nodes[k].start <= o /\ o < nodes[k].end}

SymbolsIn(exprs) ==
    {exprs[i].idx : i \in {j \in 1 .. Len(exprs) : exprs[j].kind = "symbol"}}

\* CFInstruction::allOutputsSingleUse: the instruction is written where its
\* result is used.
WrittenInline(o) ==
    /\ instructions[o].outputs # <<>>
    /\ \A i \in SymbolsIn(instructions[o].outputs) : Cardinality(symbols[i].usedAt) <= 1

\* Operands written as what they are.
Written(o, full) ==
    {i \in 1 .. Len(instructions[o].operands) :
        LET idx == instructions[o].operands[i].idx
        IN  full \/ idx \notin DOMAIN symbols \/ Cardinality(symbols[idx].usedAt) # 1}

\* Nodes shown by DisassemReport; those that look like data are dumped as bytes.
Shown(full) ==
    {k \in Filed :
        IF full THEN k \in reach \/ \A o \in InstructionsOf(k) : ~IsUnknown(instructions[o].op)
        ELSE k \in reach}

ShownInstructions(full) ==
    {o \in UNION {InstructionsOf(k) : k \in Shown(full)} :
        full \/ ~(IsStackManipulatorOnly(instructions[o].op) \/ WrittenInline(o))}

\* Every constant written is looked up as an address.
Lookups(full) ==
    UNION {{GetInt64FromVec(instructions[o].operands[i].value) :
               i \in {j \in Written(o, full) : AllReadable(<<instructions[o].operands[j]>>)}} :
           o \in ShownInstructions(full)}

Origins == {o \in DOMAIN instructions : instructions[o].op = OP_ORIGIN}

\* A contract that creates contracts is taken for a constructor and not audited;
\* a byte string without an instruction is not kept as a contract.
IsConstructor == \E c \in created : Length(c[1]) < Len(c)

Audited == IF IsConstructor THEN {} ELSE Origins

ReportedUnreached(o) == TRUE

Reported(o) == GetNode(o) \in reach

-----------------------------------------------------------------------------

\* createOutDir; without --outdir only one of the two disassemblies is written.
Begin ==
    /\ outStatus = "waiting"
    /\ outStatus' = "running"
    /\ left' = <<"disassembly", "full", "audit">>
    /\ UNCHANGED <<code, instructions, symbols, nodes, reach, created, findings>>

LookedUp == IF Head(left) = "audit" THEN Audited ELSE Lookups(Head(left) = "full")

Write ==
    /\ outStatus = "running" /\ left # <<>>
    /\ \A offset \in LookedUp : GetNode(offset) # Failed
    /\ findings' = IF Head(left) = "audit" THEN {o \in Audited : Reported(o)} ELSE findings
    /\ left' = Tail(left)
    /\ UNCHANGED <<code, instructions, symbols, nodes, reach, created, outStatus>>

\* The assertion of GetNode fails.
Abort ==
    /\ outStatus = "running" /\ left # <<>>
    /\ \E offset \in LookedUp : GetNode(offset) = Failed
    /\ outStatus' = "aborted"
    /\ UNCHANGED <<code, instructions, symbols, nodes, reach, created, left, findings>>

Return ==
    /\ outStatus = "running" /\ left = <<>>
    /\ outStatus' = "done"
    /\ UNCHANGED <<code, instructions, symbols, nodes, reach, created, left, findings>>

Next == Begin \/ Write \/ Abort \/ Return

=============================================================================
