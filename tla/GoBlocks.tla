------------------------------ MODULE GoBlocks ------------------------------
(***************************************************************************)
(* ParseByteCode of the Go parser (go/Parser/Program.go): fillInstructions *)
(* decodes the code into a map, fillBlocks visits every offset and cuts    *)
(* the instructions into blocks.  fillOps does nothing yet.                *)
(***************************************************************************)
EXTENDS InstructionStream, Sequences, Maps

CONSTANT Codes          \* the byte strings to parse

ASSUME CodesAssumption == Codes \subseteq Seq(Byte)

VARIABLES
    bytecode,
    pos,                \* where fillInstructions stands
    Instructions,       \* offset -> opcode and number of data bytes
    offset,             \* where fillBlocks stands
    currentBlock,
    Blocks,             \* the blocks added, in order
    phase               \* "filling", "cutting", "returned"

vars == <<bytecode, pos, Instructions, offset, currentBlock, Blocks, phase>>


Unended == -1           \* the End of a block no instruction has come to

Size == Len(bytecode)

\* Offsets count from 0.
ByteAt(o) == bytecode[o + 1]

Init ==
    /\ bytecode \in Codes
    /\ pos = 0
    /\ Instructions = [o \in {} |-> 0]
    /\ offset = 0
    /\ currentBlock = [Start |-> 0, End |-> 0]
    /\ Blocks = <<>>
    /\ phase = "filling"

-----------------------------------------------------------------------------

\* getDataLength: only a PUSH has data.
DataLength(op) == IF IsPush(op) THEN op - OP_PUSH1 + 1 ELSE 0

DataInFull(o) == DataLength(ByteAt(o))

\* The data of a PUSH at the end of the code is cut short.
DataAt(o) ==
    IF o + DataLength(ByteAt(o)) < Size THEN DataLength(ByteAt(o)) ELSE Size - o - 1

\* fillInstructions: a step is one round of its loop.
FillInstruction ==
    /\ phase = "filling"
    /\ pos < Size
    /\ Instructions' = Store(Instructions, pos,
                             [OpCode |-> ByteAt(pos), Data |-> DataAt(pos)])
    /\ pos' = pos + 1 + DataLength(ByteAt(pos))
    /\ UNCHANGED <<bytecode, offset, currentBlock, Blocks, phase>>

FillReturns ==
    /\ phase = "filling"
    /\ pos >= Size
    /\ phase' = "cutting"
    /\ UNCHANGED <<bytecode, pos, Instructions, offset, currentBlock, Blocks>>

-----------------------------------------------------------------------------

\* isStop has no RETURN.
IsGoStop(op) == op \in {OP_STOP, OP_REVERT, 254, 255}

IsGoJump(op) == op \in {OP_JUMP, OP_JUMPI}

WithBlockAlways(blocks, b) == Append(blocks, b)

\* addBlock.
WithBlock(blocks, b) == IF b.End = Unended THEN blocks ELSE Append(blocks, b)

EndAt(o) == o + Instructions[o].Data + 1

OpenedAt(o) == currentBlock.Start

StartAt(o) == IF Instructions[o].OpCode = OP_JUMPDEST THEN o ELSE currentBlock.Start

\* The blocks once the current one has been filed in front of a JUMPDEST.
BlocksBefore(o) ==
    IF Instructions[o].OpCode = OP_JUMPDEST THEN WithBlock(Blocks, currentBlock) ELSE Blocks

Ends(o) == IsGoJump(Instructions[o].OpCode) \/ IsGoStop(Instructions[o].OpCode)

\* fillBlocks at an offset that holds an instruction.
CutAtInstruction ==
    /\ offset \in DOMAIN Instructions
    /\ LET grown == [Start |-> StartAt(offset), End |-> EndAt(offset)]
       IN  /\ Blocks' = IF Ends(offset) THEN WithBlock(BlocksBefore(offset), grown)
                        ELSE BlocksBefore(offset)
           /\ currentBlock' = IF Ends(offset) THEN [Start |-> grown.End, End |-> Unended]
                              ELSE grown

\* and at one that holds data.
SkipData ==
    /\ offset \notin DOMAIN Instructions
    /\ UNCHANGED <<Blocks, currentBlock>>

Cut ==
    /\ phase = "cutting"
    /\ offset < Size
    /\ CutAtInstruction \/ SkipData
    /\ offset' = offset + 1
    /\ UNCHANGED <<bytecode, pos, Instructions, phase>>

CutReturns ==
    /\ phase = "cutting"
    /\ offset >= Size
    /\ Blocks' = WithBlock(Blocks, currentBlock)
    /\ phase' = "returned"
    /\ UNCHANGED <<bytecode, pos, Instructions, offset, currentBlock>>

Next == FillInstruction \/ FillReturns \/ Cut \/ CutReturns

Spec == Init /\ [][Next]_vars

\* ParseByteCode makes no blocking call and runs to its end.
FairSpec == Spec /\ WF_vars(Next)

-----------------------------------------------------------------------------

Block == [Start : Nat, End : Nat]

TypeOK ==
    /\ bytecode \in Codes
    /\ pos \in Nat /\ offset \in Nat
    /\ DOMAIN Instructions \subseteq 0 .. (Size - 1)
    /\ \A o \in DOMAIN Instructions :
          Instructions[o] \in [OpCode : Byte, Data : Nat]
    /\ currentBlock \in [Start : Nat, End : Nat \cup {Unended}]
    /\ Blocks \in Seq(Block)
    /\ phase \in {"filling", "cutting", "returned"}

\* The blocks main.go prints lie one behind the other from the first byte of the
\* code on, and once ParseByteCode has returned they reach to its last byte, cut
\* short PUSH data included.
BlocksTile ==
    /\ Blocks # <<>> => Blocks[1].Start = 0
    /\ \A i \in 1 .. (Len(Blocks) - 1) : Blocks[i].End = Blocks[i + 1].Start
    /\ phase = "returned" => Blocks # <<>> /\ Blocks[Len(Blocks)].End = Size

-----------------------------------------------------------------------------
(***************************************************************************)
(* fillBlocks implements BasicBlocks for the opcodes it takes for jumps    *)
(* and stops.  The EVM reads zeros behind the code, so a PUSH that is cut  *)
(* short ends behind the code; the empty block that is filed in front of a *)
(* JUMPDEST at 0, or of an empty code, is no block.                        *)
(***************************************************************************)

\* To this parser the jumps with data of the other opcode tables are plain opcodes.
PlainOp(op) == IF op \in 176 .. 179 THEN OP_ADD ELSE op

\* Where the EVM comes to the instruction behind the one at o.
BehindFull(o) == o + 1 + DataLength(ByteAt(o))

\* The EVM comes to an instruction at 0 and behind each of the others.
IsStart[o \in 0 .. Size] == o = 0 \/ \E p \in 0 .. (o - 1) : IsStart[p] /\ BehindFull(p) = o

\* The instructions of the code, the last one with its full data.
Stream == [o \in {p \in 0 .. (Size - 1) : IsStart[p]} |-> PlainOp(ByteAt(o))]

\* The last block is the only one the end of the code can cut short.
PaddedEnd(b) ==
    IF b.End < Size THEN b.End
    ELSE LET s == Stream
         IN  EndOf(s, CHOOSE o \in DOMAIN s : \A p \in DOMAIN s : p <= o)

PaddedBlocks ==
    {[start |-> Blocks[i].Start, end |-> PaddedEnd(Blocks[i])] :
        i \in {j \in DOMAIN Blocks : Blocks[j].Start < Blocks[j].End}}

Abstract ==
    INSTANCE BasicBlocks WITH
        stream <- Stream,
        blocks <- PaddedBlocks,
        BlockEnders <- {op \in Byte : IsGoJump(op) \/ IsGoStop(op)},
        KeepsTail <- TRUE

\* At every moment the blocks filed are the first basic blocks of the code, each in
\* its full length, and in the end they are all of them.
ImplementsBasicBlocks == Abstract!Spec

=============================================================================
