-------------------------- MODULE FillInstructions --------------------------
(***************************************************************************)
(* Program::fillInstructions (Program.cc) with CFInstruction::simplify:    *)
(* one pass over the byte code that decodes the instructions and runs each *)
(* once on a symbolic stack, recording what it consumed and produced, and  *)
(* a table of the symbols it met.  One step is one call of the function    *)
(* OpCodes::iterate is given.                                              *)
(***************************************************************************)
EXTENDS CFInstruction, InstructionStream, EvmWords, FiniteSets, Maps

CONSTANTS
    Codes,              \* the byte strings to analyse: functions on 0 .. n-1
    JunkIdx             \* values an uninitialised CFExpression::idx may have

ASSUME CodesAssumption == \A c \in Codes : IsByteString(c)

VARIABLES
    code,               \* Program::byteCode
    pos,                \* offset iterate has come to
    instructions,       \* offset -> CFInstruction
    stack,              \* the symbolic stack, its top last
    globalIdx,          \* idx of the next output
    jumpdests,          \* offset of a JUMPDEST -> arguments taken behind it
    jumpIdx,            \* the last JUMPDEST, or NoJumpDest
    symbols,            \* idx -> where a symbol is created and used
    fillStatus          \* "filling", "filled", or "trapped"

fillVars == <<code, pos, instructions, stack, globalIdx, jumpdests, jumpIdx,
              symbols, fillStatus>>

NoJumpDest == -1

Size == Cardinality(DOMAIN code)

-----------------------------------------------------------------------------

NoEntries == [x \in {} |-> 0]

Init ==
    /\ code \in Codes
    /\ pos = 0
    /\ instructions = NoEntries
    /\ stack = <<>>
    /\ globalIdx = 0
    /\ jumpdests = NoEntries
    /\ jumpIdx = NoJumpDest
    /\ symbols = NoEntries
    /\ fillStatus = "filling"

-----------------------------------------------------------------------------
\* The operand's idx is looked up in the symbol table whatever the operand is:
\* an argument or a constant with the idx of a symbol counts as a use of it.
Used(op, operands) ==
    IF IsStackManipulatorOnly(op) THEN {}
    ELSE {operands[i].idx : i \in 1 .. Len(operands)} \cap DOMAIN symbols

CreatedAgain(outputs) ==
    {outputs[k].idx : k \in {j \in 1 .. Len(outputs) : outputs[j].kind = "symbol"}}

\* Outputs that are symbols the table does not have yet.
Created(outputs) ==
    {i \in {outputs[k].idx : k \in {j \in 1 .. Len(outputs) :
                                       outputs[j].kind = "symbol"}} :
        i \notin DOMAIN symbols}

SymbolsAfter(op, operands, outputs) ==
    [i \in DOMAIN symbols \cup Created(outputs) |->
        IF i \in Created(outputs) THEN [createdAt |-> pos, usedAt |-> {}]
        ELSE IF i \in Used(op, operands)
             THEN [symbols[i] EXCEPT !.usedAt = @ \cup {pos}]
             ELSE symbols[i]]

\* The immediate data of the instruction.
Data == [i \in 1 .. Length(code[pos]) |-> code[pos + i]]

Simulate(op, entry, args) ==
    LET operands == Operands(op, entry, args)
        outputs  == Simplified(op, operands, FreshOutputs(op, Data, globalIdx))
    IN  /\ instructions' = Store(instructions, pos,
               [op |-> op, operands |-> operands, outputs |-> outputs])
        /\ globalIdx' = globalIdx + StackAdded(op)
        /\ symbols' = SymbolsAfter(op, operands, outputs)
        /\ stack' = Pushed(Rest(op, entry), outputs)

\* iterate hands over an instruction whose immediate data is complete.
Decodes == fillStatus = "filling" /\ pos < Size /\ pos + Length(code[pos]) < Size

Advance == pos' = pos + Length(code[pos]) + 1

TrapsHere ==
    LET operands == Operands(code[pos], stack, <<>>)
    IN  /\ Missing(code[pos], stack) = 0
        /\ Folds(code[pos], operands)
        /\ Traps(code[pos], Values(operands))

\* A JUMPDEST forgets the stack; arguments are numbered from 0 behind it.
AtJumpDest ==
    /\ Decodes
    /\ code[pos] = OP_JUMPDEST
    /\ jumpdests' = Store(jumpdests, pos, 0)
    /\ jumpIdx' = pos
    /\ Simulate(code[pos], <<>>, <<>>)
    /\ Advance
    /\ UNCHANGED <<code, fillStatus>>

\* Behind a JUMPDEST the arguments are counted.
AtInstruction ==
    /\ Decodes
    /\ code[pos] # OP_JUMPDEST
    /\ jumpIdx # NoJumpDest
    /\ ~TrapsHere
    /\ LET missing == Missing(code[pos], stack)
       IN  /\ Simulate(code[pos], stack,
                       [k \in 1 .. missing |-> jumpdests[jumpIdx] + k - 1])
           /\ jumpdests' = [jumpdests EXCEPT ![jumpIdx] = @ + missing]
    /\ Advance
    /\ UNCHANGED <<code, jumpIdx, fillStatus>>

\* In front of the first JUMPDEST their idx is never assigned.
AtEntryInstruction ==
    /\ Decodes
    /\ code[pos] # OP_JUMPDEST
    /\ jumpIdx = NoJumpDest
    /\ ~TrapsHere
    /\ \E junk \in [1 .. Missing(code[pos], stack) -> JunkIdx] :
           Simulate(code[pos], stack, junk)
    /\ Advance
    /\ UNCHANGED <<code, jumpdests, jumpIdx, fillStatus>>

\* The program is killed by the division.
Trap ==
    /\ Decodes
    /\ TrapsHere
    /\ fillStatus' = "trapped"
    /\ UNCHANGED <<code, pos, instructions, stack, globalIdx, jumpdests, jumpIdx, symbols>>

\* iterate comes to the end, stepping over a last instruction cut short.
Finish ==
    /\ fillStatus = "filling"
    /\ ~Decodes
    /\ fillStatus' = "filled"
    /\ UNCHANGED <<code, pos, instructions, stack, globalIdx, jumpdests, jumpIdx, symbols>>

Next == AtJumpDest \/ AtInstruction \/ AtEntryInstruction \/ Trap \/ Finish

Spec == Init /\ [][Next]_fillVars

-----------------------------------------------------------------------------
(***************************************************************************)
(* The symbol table                                                        *)
(***************************************************************************)

SymbolsIn(exprs) ==
    {exprs[k].idx : k \in {j \in 1 .. Len(exprs) : exprs[j].kind = "symbol"}}

\* Every symbol an instruction consumes or produces is in the table, as
\* CFInstruction::allOutputsSingleUse and CFSymbolInfo::ToString assert, and
\* the table names the instruction that computed it, not one that only moved
\* it on the stack.
SymbolsKnown ==
    /\ \A o \in DOMAIN instructions :
          SymbolsIn(instructions[o].operands) \cup SymbolsIn(instructions[o].outputs)
              \subseteq DOMAIN symbols
    /\ \A i \in DOMAIN symbols :
          LET creator == instructions[symbols[i].createdAt]
          IN  /\ i \in SymbolsIn(creator.outputs)
              /\ i \notin SymbolsIn(creator.operands)

\* CFSymbolInfo::ToString writes a symbol by writing the operands of the
\* instruction that created it: the symbols among them were created at smaller
\* offsets, so its recursion ends.
SymbolsAcyclic ==
    \A i \in DOMAIN symbols :
        \A j \in SymbolsIn(instructions[symbols[i].createdAt].operands) :
            symbols[j].createdAt < symbols[i].createdAt

\* A symbol that an instruction other than a stack manipulator consumes has
\* that instruction among its uses: allOutputsSingleUse never takes a symbol
\* with several uses for one it may write inline.
UsesRecorded ==
    \A o \in DOMAIN instructions :
        ~IsStackManipulatorOnly(instructions[o].op) =>
            \A i \in SymbolsIn(instructions[o].operands) : o \in symbols[i].usedAt

\* The symbol table is right about every symbol on the way: where it comes from,
\* that this goes back to older ones only, and where it is used.
SymbolTableIsSound == SymbolsKnown /\ SymbolsAcyclic /\ UsesRecorded

\* symbols.txt lists under "Used at: " the instructions that consume the symbol.
\* The code looks an operand up by its number alone, and the arguments behind a
\* JUMPDEST and the constants are numbered like the symbols.
UsedAtConsumers ==
    \A i \in DOMAIN symbols : \A o \in symbols[i].usedAt :
        i \in SymbolsIn(instructions[o].operands)

-----------------------------------------------------------------------------
(***************************************************************************)
(* The stack of the EVM behind a JUMPDEST                                  *)
(***************************************************************************)

\* The stack, with the depth - taken arguments that are still below it.
WithArguments(s, taken, depth) ==
    [k \in 1 .. (depth - taken) |-> Argument(depth - k)] \o s

\* What the EVM does to a stack before that holds enough values, the values an
\* instruction computes being outputs (the first one on top).
MovesStack(op, before, after, outputs) ==
    LET n == Len(before)
    IN  CASE IsDup(op)  -> after = Append(before, before[n - (op - OP_DUP1)])
          [] IsSwap(op) ->
                LET other == n - (op - OP_SWAP1) - 1
                IN  after = [before EXCEPT ![n] = before[other], ![other] = before[n]]
          [] OTHER ->
                /\ SubSeq(after, 1, n - StackRemoved(op)) = SubSeq(before, 1, n - StackRemoved(op))
                /\ Len(after) = n - StackRemoved(op) + StackAdded(op)
                /\ \A k \in 1 .. StackAdded(op) : after[Len(after) - k + 1] = outputs[k]

\* Behind a JUMPDEST the symbolic stack, with the arguments numbered by their
\* depth at the JUMPDEST below it, moves as the stack of the EVM does; and the
\* operands recorded for an instruction are the values on top of it.
SimulatesStack ==
    [][\A o \in DOMAIN instructions' \ DOMAIN instructions :
          (jumpIdx # NoJumpDest /\ code[o] # OP_JUMPDEST) =>
             LET depth  == jumpdests'[jumpIdx]
                 before == WithArguments(stack, jumpdests[jumpIdx], depth)
                 inst   == instructions'[o]
             IN  /\ MovesStack(code[o], before, stack', inst.outputs)
                 /\ \A k \in 1 .. Len(inst.operands) :
                        inst.operands[k] = before[Len(before) - k + 1]
      ]_fillVars

-----------------------------------------------------------------------------
(***************************************************************************)
(* The values of the EVM                                                   *)
(***************************************************************************)

WordsOf(exprs) == [i \in 1 .. Len(exprs) |-> WordOf(exprs[i].value)]

Folded(inst) ==
    /\ IsArithmetic(inst.op)
    /\ inst.outputs[1].kind = "constant"

FoldedRight(inst) ==
    WordOf(inst.outputs[1].value) = EVMResult(inst.op, WordsOf(inst.operands))

\* Everything about a folding is below 2^63: an int64_t has the bits of the word.
StaysBelowSign(inst) ==
    /\ \A i \in 1 .. Len(inst.operands) : 2 * WordsOf(inst.operands)[i] < Modulus
    /\ 2 * EVMResult(inst.op, WordsOf(inst.operands)) < Modulus

\* A constant the disassembler computes, from operands that may themselves have
\* been computed, is the word the EVM computes as long as everything stays below
\* 2^63, and a comparison with zero or of two words for equality always; except
\* for LT.
FoldedAsEVM ==
    \A o \in DOMAIN instructions :
        LET inst == instructions[o]
        IN  /\ Folded(inst) /\ inst.op # OP_LT
            /\ inst.op \in {OP_ISZERO, OP_EQ} \/ StaysBelowSign(inst)
            => FoldedRight(inst)

Int64Result(inst) == Signed(Solve(inst.op, Values(inst.operands)) % Modulus)

\* What a later folding or jump reads of a folded constant is the int64_t that
\* was computed; a negative one, whose bytes are in the wrong order, takes more
\* bytes than are ever read.
ReadBack ==
    \A o \in DOMAIN instructions :
        LET inst == instructions[o]
            out  == inst.outputs[1].value
        IN  Folded(inst) =>
                /\ IsReadable(out) <=> Int64Result(inst) >= 0
                /\ IsReadable(out) => GetInt64FromVec(out) = Int64Result(inst)

=============================================================================
