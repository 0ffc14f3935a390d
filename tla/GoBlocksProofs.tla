--------------------------- MODULE GoBlocksProofs ---------------------------
(***************************************************************************)
(* Proofs about GoBlocks, for every set of byte strings: the type of its   *)
(* state, and that the blocks it files lie one behind the other from the   *)
(* first byte of the code to the last.                                     *)
(***************************************************************************)
EXTENDS GoBlocks, WellFoundedInduction, TLAPS

\* A row of blocks that starts at 0 and reaches to end.
Reaches(row, end) ==
    /\ row = <<>> => end = 0
    /\ row # <<>> => row[1].Start = 0 /\ row[Len(row)].End = end
    /\ \A i \in 1 .. (Len(row) - 1) : row[i].End = row[i + 1].Start

LEMMA ReachesFurther ==
    ASSUME NEW row \in Seq(Block), NEW b \in Block, Reaches(row, b.Start)
    PROVE  /\ Append(row, b) \in Seq(Block)
           /\ Append(row, b) # <<>>
           /\ Reaches(Append(row, b), b.End)
<1> DEFINE longer == Append(row, b)
<1>1. /\ longer \in Seq(Block) /\ Len(longer) = Len(row) + 1 /\ longer # <<>>
      /\ longer[Len(longer)] = b /\ Len(row) \in Nat
      /\ \A i \in 1 .. Len(row) : longer[i] = row[i]
  OBVIOUS
<1>2. longer[1].Start = 0
  <2>1. CASE row = <<>>
    BY <2>1, <1>1 DEF Reaches
  <2>2. CASE row # <<>>
    <3>1. 1 \in 1 .. Len(row)
      BY <2>2
    <3> QED
      BY <2>2, <3>1, <1>1 DEF Reaches
  <2> QED
    BY <2>1, <2>2
<1>3. ASSUME NEW i \in 1 .. (Len(longer) - 1)
      PROVE  longer[i].End = longer[i + 1].Start
  <2>1. CASE i < Len(row)
    <3>1. i \in 1 .. (Len(row) - 1) /\ i + 1 \in 1 .. Len(row) /\ i \in 1 .. Len(row)
      BY <2>1, <1>1
    <3> QED
      BY <3>1, <1>1 DEF Reaches
  <2>2. CASE i = Len(row)
    <3>1. row # <<>> /\ i \in 1 .. Len(row) /\ i + 1 = Len(longer)
      BY <2>2, <1>1
    <3> QED
      BY <2>2, <3>1, <1>1 DEF Reaches
  <2> QED
    BY <1>1, <2>1, <2>2
<1> QED
  BY <1>1, <1>2, <1>3 DEF Reaches

-----------------------------------------------------------------------------

\* Where the decoding stands, but for data that is missing.
Reach == IF pos < Size THEN pos ELSE Size

\* The instructions lie one behind the other, from 0 to where the decoding stands.
Decoded ==
    /\ \A o \in DOMAIN Instructions : o < Size /\ EndAt(o) <= Reach
    /\ \A o, p \in DOMAIN Instructions : o < p => EndAt(o) <= p
    /\ \A o \in DOMAIN Instructions : EndAt(o) \in DOMAIN Instructions \cup {Reach}
    /\ 0 \in DOMAIN Instructions \cup {Reach}
    /\ phase # "filling" => Size <= pos

\* Where the block that is being filled ends so far.
Frontier == IF currentBlock.End = Unended THEN currentBlock.Start ELSE currentBlock.End

\* The next instruction fillBlocks will come to is the one at the frontier.
AtFrontier ==
    /\ phase = "filling" => Blocks = <<>> /\ currentBlock = [Start |-> 0, End |-> 0] /\ offset = 0
    /\ phase = "cutting" =>
          /\ Reaches(Blocks, currentBlock.Start)
          /\ offset <= Frontier
          /\ Frontier \in DOMAIN Instructions \cup {Size}
          /\ \A o \in DOMAIN Instructions : o < offset \/ Frontier <= o
          /\ currentBlock.End = Unended => Blocks # <<>>
    /\ phase = "returned" => Blocks # <<>> /\ Reaches(Blocks, Size)

IInv == TypeOK /\ Decoded /\ AtFrontier

LEMMA DataLengthType == \A op \in Byte : DataLength(op) \in Nat
  BY DEF DataLength, Byte, IsPush, OP_PUSH1, OP_PUSH32

LEMMA SizeType == TypeOK => bytecode \in Seq(Byte) /\ Size \in Nat
  BY CodesAssumption DEF TypeOK, Size

LEMMA BytesAreBytes == TypeOK => \A o \in 0 .. (Size - 1) : ByteAt(o) \in Byte
<1> SUFFICES ASSUME TypeOK, NEW o \in 0 .. (Size - 1)
             PROVE  ByteAt(o) \in Byte
  OBVIOUS
<1>1. bytecode \in Seq(Byte) /\ o + 1 \in 1 .. Len(bytecode)
  BY SizeType DEF Size
<1> QED
  BY <1>1 DEF ByteAt

LEMMA InitIInv == Init => IInv
<1> SUFFICES ASSUME Init PROVE IInv
  OBVIOUS
<1>1. TypeOK
  BY CodesAssumption DEF Init, TypeOK, Block
<1>2. Size \in Nat
  BY <1>1, SizeType
<1>3. Decoded
  BY <1>2 DEF Init, Decoded, Reach
<1>4. AtFrontier
  BY DEF Init, AtFrontier
<1> QED
  BY <1>1, <1>3, <1>4 DEF IInv

\* A round of fillInstructions files the next instruction behind the others.
LEMMA FillKeeps ==
    ASSUME IInv, FillInstruction
    PROVE  IInv'
<1> DEFINE len == DataLength(ByteAt(pos))
           new == [OpCode |-> ByteAt(pos), Data |-> DataAt(pos)]
<1>1. /\ Size \in Nat /\ pos \in 0 .. (Size - 1) /\ phase = "filling"
      /\ ByteAt(pos) \in Byte /\ len \in Nat
  <2>1. Size \in Nat /\ pos \in Nat /\ pos < Size
    BY SizeType DEF IInv, TypeOK, FillInstruction
  <2>2. ByteAt(pos) \in Byte
    BY <2>1, BytesAreBytes DEF IInv
  <2> QED
    BY <2>1, <2>2, DataLengthType DEF FillInstruction
<1>2. DataAt(pos) \in Nat /\ pos + DataAt(pos) + 1 = (IF pos' < Size THEN pos' ELSE Size)
  BY <1>1 DEF DataAt, FillInstruction
<1>3. /\ Size' = Size /\ pos' \in Nat /\ pos < pos'
      /\ UNCHANGED <<bytecode, offset, currentBlock, Blocks, phase>>
  BY <1>1 DEF FillInstruction, Size
<1>4. \A o \in DOMAIN Instructions : o < pos /\ EndAt(o) <= pos
  BY <1>1 DEF IInv, Decoded, Reach, TypeOK, EndAt
<1>5. /\ DOMAIN Instructions' = DOMAIN Instructions \cup {pos}
      /\ Instructions'[pos] = new
      /\ \A o \in DOMAIN Instructions : Instructions'[o] = Instructions[o]
  <2>1. pos \notin DOMAIN Instructions
    BY <1>1, <1>4
  <2> QED
    BY <2>1 DEF FillInstruction, Store
<1>6. /\ \A o \in DOMAIN Instructions : EndAt(o)' = EndAt(o)
      /\ \A o \in {pos} : EndAt(o)' = Reach'
  <2>1. \A o \in DOMAIN Instructions : EndAt(o)' = EndAt(o)
    BY <1>5 DEF EndAt
  <2>2. \A o \in {pos} : EndAt(o)' = pos + DataAt(pos) + 1
    BY <1>5 DEF EndAt
  <2>3. Reach' = IF pos' < Size THEN pos' ELSE Size
    BY <1>3 DEF Reach
  <2> QED
    BY <1>2, <2>1, <2>2, <2>3
<1>7. TypeOK'
  <2>1. \A o \in DOMAIN Instructions' : Instructions'[o] \in [OpCode : Byte, Data : Nat]
    BY <1>1, <1>2, <1>5 DEF IInv, TypeOK
  <2>2. DOMAIN Instructions' \subseteq 0 .. (Size' - 1)
    BY <1>1, <1>3, <1>5 DEF IInv, TypeOK
  <2> QED
    BY <1>3, <2>1, <2>2 DEF IInv, TypeOK
<1>8. Decoded'
  <2>1. Reach = pos /\ Reach' <= Size /\ pos < Reach' /\ Reach' \in Nat
    BY <1>1, <1>3 DEF Reach
  <2>2. \A o \in DOMAIN Instructions : EndAt(o) \in Int
    BY DEF IInv, TypeOK, EndAt
  <2>3. \A o \in DOMAIN Instructions' : o < Size' /\ EndAt(o)' <= Reach'
    <3>1. \A o \in DOMAIN Instructions : o < Size /\ EndAt(o)' <= Reach'
      BY <1>1, <1>4, <1>6, <2>1, <2>2 DEF IInv, Decoded
    <3>2. \A o \in {pos} : o < Size /\ EndAt(o)' <= Reach'
      BY <1>1, <1>6, <2>1
    <3> QED
      BY <1>3, <1>5, <3>1, <3>2
  <2>4. ASSUME NEW o \in DOMAIN Instructions', NEW p \in DOMAIN Instructions', o < p
        PROVE  EndAt(o)' <= p
    <3>1. o \in DOMAIN Instructions
      BY <1>1, <1>4, <1>5, <2>4 DEF IInv, TypeOK
    <3> QED
      BY <3>1, <1>4, <1>5, <1>6, <2>4 DEF IInv, Decoded
  <2>5. \A o \in DOMAIN Instructions' : EndAt(o)' \in DOMAIN Instructions' \cup {Reach'}
    <3>1. \A o \in DOMAIN Instructions : EndAt(o)' \in DOMAIN Instructions \cup {pos}
      BY <1>6, <2>1 DEF IInv, Decoded
    <3>2. \A o \in {pos} : EndAt(o)' = Reach'
      BY <1>6
    <3> QED
      BY <1>5, <3>1, <3>2
  <2>6. 0 \in DOMAIN Instructions' \cup {Reach'}
    BY <1>5, <2>1 DEF IInv, Decoded
  <2> QED
    BY <1>1, <1>3, <2>3, <2>4, <2>5, <2>6 DEF Decoded
<1>9. AtFrontier'
  BY <1>1, <1>3 DEF IInv, AtFrontier
<1> QED
  BY <1>7, <1>8, <1>9 DEF IInv

LEMMA FillReturnKeeps ==
    ASSUME IInv, FillReturns
    PROVE  IInv'
<1>1. /\ Size' = Size /\ Size \in Nat /\ Size <= pos /\ pos \in Nat
      /\ phase = "filling" /\ phase' = "cutting"
      /\ UNCHANGED <<bytecode, pos, Instructions, offset, currentBlock, Blocks>>
  BY SizeType DEF IInv, TypeOK, FillReturns, Size
<1>2. TypeOK'
  BY <1>1 DEF IInv, TypeOK
<1>3. Decoded'
  <2>1. Reach' = Reach /\ \A o \in DOMAIN Instructions : EndAt(o)' = EndAt(o)
    BY <1>1 DEF Reach, EndAt
  <2> QED
    BY <1>1, <2>1 DEF IInv, Decoded
<1>4. AtFrontier'
  <2>1. Blocks = <<>> /\ currentBlock = [Start |-> 0, End |-> 0] /\ offset = 0
    BY <1>1 DEF IInv, AtFrontier
  <2>2. Frontier' = 0 /\ 0 \in DOMAIN Instructions \cup {Size}
    BY <1>1, <2>1 DEF Frontier, Unended, IInv, Decoded, Reach
  <2>3. \A o \in DOMAIN Instructions : 0 <= o
    BY DEF IInv, TypeOK
  <2> QED
    BY <1>1, <2>1, <2>2, <2>3 DEF AtFrontier, Reaches, Unended
<1> QED
  BY <1>2, <1>3, <1>4 DEF IInv

\* Before the block of the instruction at offset grows, the blocks filed reach to
\* where it starts.
LEMMA ReachesStart ==
    ASSUME IInv, phase = "cutting", offset \in DOMAIN Instructions
    PROVE  /\ offset = Frontier
           /\ BlocksBefore(offset) \in Seq(Block)
           /\ StartAt(offset) \in Nat
           /\ Reaches(BlocksBefore(offset), StartAt(offset))
<1>1. /\ Blocks \in Seq(Block) /\ offset \in Nat
      /\ currentBlock.Start \in Nat /\ currentBlock.End \in Nat \cup {Unended}
      /\ Reaches(Blocks, currentBlock.Start)
  BY DEF IInv, TypeOK, AtFrontier
<1>2. offset = Frontier
  BY <1>1 DEF IInv, AtFrontier, Frontier, Unended
<1>3. CASE Instructions[offset].OpCode # OP_JUMPDEST
  BY <1>1, <1>2, <1>3 DEF BlocksBefore, StartAt
<1>4. CASE Instructions[offset].OpCode = OP_JUMPDEST
  <2>1. BlocksBefore(offset) = WithBlock(Blocks, currentBlock) /\ StartAt(offset) = offset
    BY <1>4 DEF BlocksBefore, StartAt
  <2>2. CASE currentBlock.End = Unended
    BY <1>1, <1>2, <2>1, <2>2 DEF WithBlock, Frontier
  <2>3. CASE currentBlock.End # Unended
    <3>1. currentBlock \in Block
      BY <2>3 DEF IInv, TypeOK, Block
    <3>2. BlocksBefore(offset) = Append(Blocks, currentBlock) /\ offset = currentBlock.End
      BY <1>2, <2>1, <2>3 DEF WithBlock, Frontier
    <3> QED
      BY <1>1, <1>2, <2>1, <3>1, <3>2, ReachesFurther
  <2> QED
    BY <2>2, <2>3
<1> QED
  BY <1>3, <1>4

LEMMA CutKeeps ==
    ASSUME IInv, Cut
    PROVE  IInv'
<1>1. /\ Size' = Size /\ Size \in Nat /\ offset \in Nat /\ offset < Size
      /\ offset' = offset + 1 /\ phase = "cutting" /\ phase' = "cutting"
      /\ UNCHANGED <<bytecode, pos, Instructions>>
  BY SizeType DEF IInv, TypeOK, Cut, Size
<1>2. Reach' = Reach /\ Reach = Size /\ \A o \in DOMAIN Instructions : EndAt(o)' = EndAt(o)
  BY <1>1 DEF Reach, EndAt, IInv, Decoded, TypeOK
<1>3. Decoded'
  BY <1>1, <1>2 DEF IInv, Decoded
<1>4. ASSUME SkipData PROVE TypeOK' /\ AtFrontier'
  <2>1. UNCHANGED <<Blocks, currentBlock>> /\ offset \notin DOMAIN Instructions
    BY <1>4 DEF SkipData
  <2>2. TypeOK'
    BY <1>1, <2>1 DEF IInv, TypeOK
  <2>3. Frontier' = Frontier /\ Frontier \in Nat
    BY <2>1 DEF Frontier, IInv, TypeOK
  <2>4. offset # Frontier
    BY <1>1, <2>1 DEF IInv, AtFrontier
  <2>5. offset' <= Frontier /\ \A o \in DOMAIN Instructions : o < offset' \/ Frontier <= o
    BY <1>1, <2>3, <2>4 DEF IInv, AtFrontier, TypeOK
  <2>6. Reaches(Blocks, currentBlock.Start)' <=> Reaches(Blocks, currentBlock.Start)
    BY <2>1 DEF Reaches
  <2>7. AtFrontier'
    BY <1>1, <2>1, <2>3, <2>5, <2>6 DEF IInv, AtFrontier
  <2> QED
    BY <2>2, <2>7
<1>5. ASSUME CutAtInstruction PROVE TypeOK' /\ AtFrontier'
  <2> DEFINE before == BlocksBefore(offset)
             s == StartAt(offset)
             e == EndAt(offset)
  <2>1. /\ offset \in DOMAIN Instructions /\ before \in Seq(Block) /\ s \in Nat
        /\ Reaches(before, s)
    BY <1>1, <1>5, ReachesStart DEF CutAtInstruction
  <2>2. e \in Nat /\ offset < e /\ e \in DOMAIN Instructions \cup {Size}
    BY <1>1, <1>2, <2>1 DEF IInv, Decoded, TypeOK, EndAt
  <2>3. \A o \in DOMAIN Instructions : o < offset' \/ e <= o
    BY <1>1, <2>1 DEF IInv, Decoded, TypeOK
  <2>4. \/ /\ Blocks' = WithBlock(before, [Start |-> s, End |-> e])
           /\ currentBlock' = [Start |-> e, End |-> Unended]
        \/ /\ Blocks' = before
           /\ currentBlock' = [Start |-> s, End |-> e]
    BY <1>5 DEF CutAtInstruction
  <2> HIDE DEF before, s, e
  <2>5. /\ Blocks' \in Seq(Block)
        /\ currentBlock' \in [Start : Nat, End : Nat \cup {Unended}]
        /\ Reaches(Blocks', currentBlock'.Start)
        /\ Frontier' = e
        /\ currentBlock'.End = Unended => Blocks' # <<>>
    <3>1. [Start |-> s, End |-> e] \in Block /\ e # Unended
      BY <2>1, <2>2 DEF Block, Unended
    <3>2. CASE /\ Blocks' = WithBlock(before, [Start |-> s, End |-> e])
               /\ currentBlock' = [Start |-> e, End |-> Unended]
      <4>1. Blocks' = Append(before, [Start |-> s, End |-> e])
        BY <3>1, <3>2 DEF WithBlock
      <4>2. Blocks' \in Seq(Block) /\ Blocks' # <<>> /\ Reaches(Blocks', e)
        BY <2>1, <3>1, <4>1, ReachesFurther
      <4> QED
        BY <2>2, <3>2, <4>2 DEF Frontier
    <3>3. CASE Blocks' = before /\ currentBlock' = [Start |-> s, End |-> e]
      BY <2>1, <2>2, <3>1, <3>3 DEF Frontier
    <3> QED
      BY <2>4, <3>2, <3>3
  <2>6. TypeOK'
    BY <1>1, <2>5 DEF IInv, TypeOK
  <2>7. AtFrontier'
    <3>1. offset' <= e
      BY <1>1, <2>2
    <3> QED
      BY <1>1, <2>2, <2>3, <2>5, <3>1 DEF AtFrontier, Reaches
  <2> QED
    BY <2>6, <2>7
<1> QED
  BY <1>3, <1>4, <1>5 DEF IInv, Cut

LEMMA CutReturnKeeps ==
    ASSUME IInv, CutReturns
    PROVE  IInv'
<1>1. /\ Size' = Size /\ Size \in Nat /\ offset \in Nat /\ Size <= offset
      /\ phase = "cutting" /\ phase' = "returned"
      /\ Blocks' = WithBlock(Blocks, currentBlock)
      /\ UNCHANGED <<bytecode, pos, Instructions, offset, currentBlock>>
  BY SizeType DEF IInv, TypeOK, CutReturns, Size
<1>2. /\ Blocks \in Seq(Block) /\ Reaches(Blocks, currentBlock.Start)
      /\ currentBlock \in [Start : Nat, End : Nat \cup {Unended}]
  BY <1>1 DEF IInv, TypeOK, AtFrontier
<1>3. Decoded'
  <2>1. Reach' = Reach /\ \A o \in DOMAIN Instructions : EndAt(o)' = EndAt(o)
    BY <1>1 DEF Reach, EndAt
  <2> QED
    BY <1>1, <2>1 DEF IInv, Decoded
<1>4. Frontier = Size
  BY <1>1 DEF IInv, AtFrontier, TypeOK
<1>5. Blocks' \in Seq(Block) /\ Blocks' # <<>> /\ Reaches(Blocks', Size)
  <2>1. CASE currentBlock.End = Unended
    <3>1. Blocks' = Blocks /\ currentBlock.Start = Size /\ Blocks # <<>>
      BY <1>1, <1>4, <2>1 DEF WithBlock, Frontier, IInv, AtFrontier
    <3> QED
      BY <1>2, <3>1
  <2>2. CASE currentBlock.End # Unended
    <3>1. currentBlock \in Block /\ currentBlock.End = Size
      BY <1>2, <1>4, <2>2 DEF Block, Frontier
    <3>2. Blocks' = Append(Blocks, currentBlock)
      BY <1>1, <2>2 DEF WithBlock
    <3> QED
      BY <1>2, <3>1, <3>2, ReachesFurther
  <2> QED
    BY <2>1, <2>2
<1>6. TypeOK'
  BY <1>1, <1>5 DEF IInv, TypeOK
<1>7. AtFrontier'
  BY <1>1, <1>5 DEF AtFrontier, Reaches
<1> QED
  BY <1>3, <1>6, <1>7 DEF IInv

-----------------------------------------------------------------------------

LEMMA Invariance == Spec => []IInv
<1>1. ASSUME IInv, [Next]_vars PROVE IInv'
  <2>1. CASE UNCHANGED vars
    <3>1. Size' = Size /\ Reach' = Reach /\ Frontier' = Frontier
          /\ \A o \in DOMAIN Instructions : EndAt(o)' = EndAt(o)
      BY <2>1 DEF vars, Size, Reach, Frontier, EndAt
    <3>2. TypeOK'
      BY <1>1, <2>1, <3>1 DEF vars, IInv, TypeOK
    <3>3. Decoded'
      BY <1>1, <2>1, <3>1 DEF vars, IInv, Decoded
    <3>4. AtFrontier'
      BY <1>1, <2>1, <3>1 DEF vars, IInv, AtFrontier, Reaches
    <3> QED
      BY <3>2, <3>3, <3>4 DEF IInv
  <2> QED
    BY <1>1, <2>1, FillKeeps, FillReturnKeeps, CutKeeps, CutReturnKeeps DEF Next
<1> QED
  BY InitIInv, <1>1, PTL DEF Spec

\* ParseByteCode keeps the type of its state, whatever the code.
THEOREM TypeCorrect == Spec => []TypeOK
<1>1. IInv => TypeOK
  BY DEF IInv
<1> QED
  BY <1>1, Invariance, PTL

\* The blocks of ParseByteCode tile the code: none overlap, nothing is left out.
THEOREM BlocksTileTheCode == Spec => []BlocksTile
<1>1. IInv => BlocksTile
  <2> SUFFICES ASSUME IInv PROVE BlocksTile
    OBVIOUS
  <2>1. CASE phase = "filling"
    BY <2>1 DEF IInv, AtFrontier, BlocksTile
  <2>2. CASE phase = "cutting"
    BY <2>2 DEF IInv, AtFrontier, BlocksTile, Reaches
  <2>3. CASE phase = "returned"
    BY <2>3 DEF IInv, AtFrontier, BlocksTile, Reaches
  <2> QED
    BY <2>1, <2>2, <2>3 DEF IInv, TypeOK
<1> QED
  BY <1>1, Invariance, PTL

-----------------------------------------------------------------------------
(***************************************************************************)
(* The instructions of the code, whatever decodes them: what IsStart       *)
(* computes are the offsets a trail leads to, a set of offsets that holds  *)
(* with each but 0 the one of the instruction in front of it.              *)
(***************************************************************************)

IsTrail(S) == \A q \in S : q = 0 \/ \E p \in S : BehindFull(p) = q

Starts == UNION {S \in SUBSET (0 .. (Size - 1)) : IsTrail(S)}

LEMMA Smallest ==
    ASSUME NEW S \in SUBSET Nat, S # {}
    PROVE  \E n \in S : \A m \in S : n <= m
<1> DEFINE less == OpToRel(<, Nat)
<1>1. IsWellFoundedOn(less, Nat)
  BY NatLessThanWellFounded
<1>2. \A m, n \in Nat : m < n => <<m, n>> \in less
  BY DEF OpToRel
<1> HIDE DEF less
<1>3. PICK n \in S : \A m \in S : ~(<<m, n>> \in less)
  BY <1>1, WFMin
<1>4. \A m \in S : ~(m < n)
  BY <1>2, <1>3
<1> QED
  BY <1>3, <1>4

LEMMA CodeFacts ==
    ASSUME bytecode \in Seq(Byte)
    PROVE  /\ Size \in Nat
           /\ \A o \in 0 .. (Size - 1) :
                 /\ ByteAt(o) \in Byte
                 /\ BehindFull(o) \in Nat
                 /\ o < BehindFull(o)
<1>1. Size \in Nat
  BY DEF Size
<1>2. ASSUME NEW o \in 0 .. (Size - 1)
      PROVE  ByteAt(o) \in Byte /\ BehindFull(o) \in Nat /\ o < BehindFull(o)
  <2>1. o + 1 \in 1 .. Len(bytecode)
    BY <1>1 DEF Size
  <2>2. ByteAt(o) \in Byte
    BY <2>1 DEF ByteAt
  <2>3. DataLength(ByteAt(o)) \in Nat
    BY <2>2, DataLengthType
  <2> QED
    BY <1>1, <2>2, <2>3 DEF BehindFull
<1> QED
  BY <1>1, <1>2

\* The offsets trails lead to form a trail, which ends where the code does.
LEMMA StartsFacts ==
    ASSUME bytecode \in Seq(Byte)
    PROVE  /\ Starts \subseteq 0 .. (Size - 1)
           /\ \A S \in SUBSET (0 .. (Size - 1)) : IsTrail(S) => S \subseteq Starts
           /\ IsTrail(Starts)
           /\ 0 < Size => 0 \in Starts
           /\ \A p \in Starts : BehindFull(p) < Size => BehindFull(p) \in Starts
<1>1. Starts \subseteq 0 .. (Size - 1)
  BY DEF Starts
<1>2. \A S \in SUBSET (0 .. (Size - 1)) : IsTrail(S) => S \subseteq Starts
  BY DEF Starts
<1>3. IsTrail(Starts)
  <2> SUFFICES ASSUME NEW q \in Starts, q # 0
               PROVE  \E p \in Starts : BehindFull(p) = q
    BY DEF IsTrail
  <2>1. PICK S \in SUBSET (0 .. (Size - 1)) : IsTrail(S) /\ q \in S
    BY DEF Starts
  <2>2. PICK p \in S : BehindFull(p) = q
    BY <2>1 DEF IsTrail
  <2> QED
    BY <1>2, <2>1, <2>2
<1>4. ASSUME 0 < Size PROVE 0 \in Starts
  <2>1. {0} \in SUBSET (0 .. (Size - 1))
    BY <1>4, CodeFacts
  <2>2. IsTrail({0})
    BY DEF IsTrail
  <2> QED
    BY <1>2, <2>1, <2>2
<1>5. ASSUME NEW p \in Starts, BehindFull(p) < Size
      PROVE  BehindFull(p) \in Starts
  <2> DEFINE longer == Starts \cup {BehindFull(p)}
  <2>1. longer \in SUBSET (0 .. (Size - 1))
    <3>1. Size \in Nat /\ p \in 0 .. (Size - 1) /\ BehindFull(p) \in Nat
      BY <1>1, CodeFacts
    <3>2. BehindFull(p) \in 0 .. (Size - 1)
      BY <1>5, <3>1
    <3> QED
      BY <1>1, <3>2
  <2>2. IsTrail(longer)
    BY <1>3 DEF IsTrail
  <2>3. BehindFull(p) \in longer
    OBVIOUS
  <2> HIDE DEF longer
  <2> QED
    BY <1>2, <2>1, <2>2, <2>3
<1> QED
  BY <1>1, <1>2, <1>3, <1>4, <1>5

\* No instruction starts inside another.
LEMMA StartsApart ==
    ASSUME bytecode \in Seq(Byte)
    PROVE  \A o, p \in Starts : o < p => BehindFull(o) <= p
<1> DEFINE bad == {p \in Starts : \E o \in Starts : o < p /\ p < BehindFull(o)}
<1>1. /\ \A o \in Starts : o \in Nat /\ BehindFull(o) \in Nat /\ o < BehindFull(o)
      /\ IsTrail(Starts)
  BY StartsFacts, CodeFacts
<1>2. ASSUME bad # {} PROVE FALSE
  <2>1. bad \in SUBSET Nat
    BY <1>1
  <2>2. PICK p \in bad : \A q \in bad : p <= q
    <3> HIDE DEF bad
    <3> QED
      BY <1>2, <2>1, Smallest
  <2>3. PICK o \in Starts : o < p /\ p < BehindFull(o)
    BY <2>2
  <2>4. p \in Starts /\ p # 0
    BY <1>1, <2>2, <2>3
  <2>5. PICK r \in Starts : BehindFull(r) = p
    BY <1>1, <2>4 DEF IsTrail
  <2>6. r < p /\ r # o
    BY <1>1, <2>3, <2>5
  <2>7. CASE o < r
    <3>1. r < BehindFull(o)
      BY <1>1, <2>3, <2>4, <2>6
    <3>2. r \in bad
      BY <2>7, <3>1
    <3> QED
      BY <1>1, <2>2, <2>4, <2>6, <3>2
  <2>8. CASE r < o
    <3>1. o < BehindFull(r)
      BY <2>3, <2>5
    <3>2. o \in bad
      BY <2>8, <3>1
    <3> QED
      BY <1>1, <2>2, <2>3, <2>4, <3>2
  <2> QED
    BY <1>1, <2>6, <2>7, <2>8
<1>3. \A o, p \in Starts : o < p => ~(p < BehindFull(o))
  BY <1>2
<1> QED
  BY <1>1, <1>3

\* The recursion has a solution, and IsStart is it.
LEMMA IsStartSolves ==
    ASSUME bytecode \in Seq(Byte)
    PROVE  \A o \in 0 .. Size :
              IsStart[o] <=> (o = 0 \/ \E p \in 0 .. (o - 1) : IsStart[p] /\ BehindFull(p) = o)
<1> DEFINE Solves(g) ==
              g = [o \in 0 .. Size |-> o = 0 \/ \E p \in 0 .. (o - 1) : g[p] /\ BehindFull(p) = o]
           comes == [o \in 0 .. Size |-> o = 0 \/ \E p \in Starts : BehindFull(p) = o]
<1>1. /\ Size \in Nat
      /\ Starts \subseteq 0 .. (Size - 1)
      /\ \A p \in Starts : p < BehindFull(p)
      /\ IsTrail(Starts)
  BY StartsFacts, CodeFacts
<1>2. ASSUME NEW o \in 0 .. Size
      PROVE  (\E p \in Starts : BehindFull(p) = o)
                 <=> (\E p \in 0 .. (o - 1) : comes[p] /\ BehindFull(p) = o)
  <2>1. ASSUME NEW p \in Starts, BehindFull(p) = o
        PROVE  p \in 0 .. (o - 1) /\ comes[p]
    <3>1. p \in 0 .. (Size - 1) /\ p < o
      BY <1>1, <2>1
    <3>2. p \in 0 .. (o - 1) /\ p \in 0 .. Size
      BY <1>1, <3>1
    <3>3. p = 0 \/ \E q \in Starts : BehindFull(q) = p
      BY <1>1 DEF IsTrail
    <3> QED
      BY <3>2, <3>3
  <2>2. ASSUME NEW p \in 0 .. (o - 1), comes[p]
        PROVE  p \in Starts
    <3>1. p \in 0 .. Size /\ p < Size /\ 0 < Size
      BY <1>1
    <3>2. p = 0 \/ \E q \in Starts : BehindFull(q) = p
      BY <2>2, <3>1
    <3> QED
      BY <3>1, <3>2, StartsFacts
  <2> QED
    BY <2>1, <2>2
<1>3. Solves(comes)
  BY <1>2
<1>4. IsStart = CHOOSE g : Solves(g)
  BY DEF IsStart
<1>5. Solves(IsStart)
  <2> HIDE DEF Solves, comes
  <2> QED
    BY <1>3, <1>4
<1> QED
  BY <1>5

LEMMA IsStartIsStarts ==
    ASSUME bytecode \in Seq(Byte)
    PROVE  {o \in 0 .. (Size - 1) : IsStart[o]} = Starts
<1> DEFINE found == {o \in 0 .. (Size - 1) : IsStart[o]}
           missed == {o \in Starts : ~IsStart[o]}
<1>1. /\ Size \in Nat
      /\ Starts \subseteq 0 .. (Size - 1)
      /\ IsTrail(Starts)
      /\ \A p \in Starts : p < BehindFull(p)
  BY StartsFacts, CodeFacts
<1>2. \A o \in 0 .. Size :
         IsStart[o] <=> (o = 0 \/ \E p \in 0 .. (o - 1) : IsStart[p] /\ BehindFull(p) = o)
  BY IsStartSolves
<1>3. found \subseteq Starts
  <2>1. found \in SUBSET (0 .. (Size - 1))
    OBVIOUS
  <2>2. ASSUME NEW q \in found, q # 0
        PROVE  \E p \in found : BehindFull(p) = q
    <3>1. q \in 0 .. (Size - 1) /\ IsStart[q] /\ q \in 0 .. Size
      BY <1>1
    <3>2. PICK p \in 0 .. (q - 1) : IsStart[p] /\ BehindFull(p) = q
      BY <1>2, <2>2, <3>1
    <3>3. p \in 0 .. (Size - 1)
      BY <1>1, <3>1
    <3> QED
      BY <3>2, <3>3
  <2>3. IsTrail(found)
    BY <2>2 DEF IsTrail
  <2> HIDE DEF found
  <2> QED
    BY <2>1, <2>3, StartsFacts
<1>4. ASSUME missed # {} PROVE FALSE
  <2>1. missed \in SUBSET Nat
    <3>1. \A o \in Starts : o \in Nat
      BY <1>1
    <3> QED
      BY <3>1, Zenon
  <2>2. PICK o \in missed : \A q \in missed : o <= q
    <3> HIDE DEF missed
    <3> QED
      BY <1>4, <2>1, Smallest
  <2>3. o \in Starts /\ ~IsStart[o] /\ o \in 0 .. Size /\ o \in Nat
    BY <1>1, <2>2
  <2>4. o # 0
    BY <1>2, <2>3
  <2>5. PICK p \in Starts : BehindFull(p) = o
    BY <1>1, <2>3, <2>4 DEF IsTrail
  <2>6. p \in Nat /\ p < o
    BY <1>1, <2>5
  <2>7. p \in 0 .. (o - 1)
    BY <2>3, <2>6
  <2>8. IsStart[p]
    BY <2>2, <2>3, <2>6
  <2> QED
    BY <1>2, <2>3, <2>5, <2>7, <2>8
<1>5. Starts \subseteq found
  BY <1>1, <1>4
<1> QED
  BY <1>3, <1>5

-----------------------------------------------------------------------------
(***************************************************************************)
(* The stream the EVM reads, whose basic blocks the abstract specification *)
(* speaks of.                                                              *)
(***************************************************************************)

IsEnder(op) == IsGoJump(op) \/ IsGoStop(op)

LEMMA SameLength == \A op : Abstract!Length(op) = Length(op)
  BY DEF Abstract!Length, Length, Abstract!IsPush, IsPush,
         Abstract!OP_PUSH1, Abstract!OP_PUSH32, OP_PUSH1, OP_PUSH32

LEMMA SameEndOf == \A s, o : Abstract!EndOf(s, o) = EndOf(s, o)
  BY SameLength DEF Abstract!EndOf, EndOf

\* To the abstract specification a byte is the opcode it is to this parser.
LEMMA PlainOpFacts ==
    ASSUME NEW op \in Byte
    PROVE  /\ PlainOp(op) \in Byte
           /\ Length(PlainOp(op)) = DataLength(op)
           /\ PlainOp(op) = OP_JUMPDEST <=> op = OP_JUMPDEST
           /\ IsEnder(PlainOp(op)) <=> IsEnder(op)
  BY DEF PlainOp, Byte, Length, DataLength, IsPush, IsEnder, IsGoJump, IsGoStop,
         OP_PUSH1, OP_PUSH32, OP_ADD, OP_JUMPDEST, OP_JUMP, OP_JUMPI, OP_STOP, OP_REVERT

LEMMA StreamFacts ==
    ASSUME bytecode \in Seq(Byte)
    PROVE  /\ DOMAIN Stream = Starts
           /\ \A o \in Starts :
                 /\ Stream[o] \in Byte
                 /\ EndOf(Stream, o) = BehindFull(o)
                 /\ Stream[o] = OP_JUMPDEST <=> ByteAt(o) = OP_JUMPDEST
                 /\ IsEnder(Stream[o]) <=> IsEnder(ByteAt(o))
<1>1. Stream = [o \in Starts |-> PlainOp(ByteAt(o))]
  BY IsStartIsStarts DEF Stream
<1>2. ASSUME NEW o \in Starts
      PROVE  /\ Stream[o] \in Byte
             /\ EndOf(Stream, o) = BehindFull(o)
             /\ Stream[o] = OP_JUMPDEST <=> ByteAt(o) = OP_JUMPDEST
             /\ IsEnder(Stream[o]) <=> IsEnder(ByteAt(o))
  <2>1. ByteAt(o) \in Byte
    BY StartsFacts, CodeFacts
  <2>2. Stream[o] = PlainOp(ByteAt(o))
    BY <1>1
  <2> QED
    BY <2>1, <2>2, PlainOpFacts DEF EndOf, BehindFull
<1> QED
  BY <1>1, <1>2

LEMMA StreamIsStream ==
    ASSUME bytecode \in Seq(Byte)
    PROVE  Abstract!IsStream(Stream)
<1>1. /\ Size \in Nat
      /\ DOMAIN Stream = Starts
      /\ Starts \subseteq 0 .. (Size - 1)
      /\ IsTrail(Starts)
      /\ \A o \in Starts : Stream[o] \in Byte /\ EndOf(Stream, o) = BehindFull(o)
      /\ \A o, p \in Starts : o < p => BehindFull(o) <= p
  BY StreamFacts, StartsFacts, StartsApart, CodeFacts
<1>2. \A o \in Starts : o \in Nat
  BY <1>1
<1>3. DOMAIN Stream \in SUBSET Nat
  BY <1>1, <1>2, Zenon
<1>4. \A o, p \in DOMAIN Stream : o < p => Abstract!EndOf(Stream, o) <= p
  BY <1>1, SameEndOf
<1>5. \A o \in DOMAIN Stream :
         o = 0 \/ \E p \in DOMAIN Stream : Abstract!EndOf(Stream, p) = o
  BY <1>1, SameEndOf DEF IsTrail
<1>6. \A o \in DOMAIN Stream : Stream[o] \in Abstract!Byte
  BY <1>1 DEF Abstract!Byte, Byte
<1> QED
  BY <1>3, <1>4, <1>5, <1>6 DEF Abstract!IsStream

Leaders == Abstract!Leaders(Stream)

LEMMA LeaderFacts ==
    ASSUME bytecode \in Seq(Byte), NEW o
    PROVE  o \in Leaders <=>
              /\ o \in Starts
              /\ \/ o = 0
                 \/ ByteAt(o) = OP_JUMPDEST
                 \/ \E p \in Starts : BehindFull(p) = o /\ IsEnder(ByteAt(p))
<1>1. /\ DOMAIN Stream = Starts
      /\ Size \in Nat
      /\ Starts \subseteq 0 .. (Size - 1)
      /\ 0 < Size => 0 \in Starts
      /\ \A p \in Starts :
            /\ Stream[p] \in Byte
            /\ EndOf(Stream, p) = BehindFull(p)
            /\ Stream[p] = OP_JUMPDEST <=> ByteAt(p) = OP_JUMPDEST
            /\ IsEnder(Stream[p]) <=> IsEnder(ByteAt(p))
  BY StreamFacts, StartsFacts, CodeFacts
<1>2. \A p \in Starts :
         Stream[p] \in {op \in Byte : IsGoJump(op) \/ IsGoStop(op)} <=> IsEnder(ByteAt(p))
  BY <1>1 DEF IsEnder
<1>3. o \in Starts => ((\A p \in Starts : o <= p) <=> o = 0)
  BY <1>1
<1>4. o \in Leaders <=>
         /\ o \in Starts
         /\ \/ \A p \in Starts : o <= p
            \/ Stream[o] = OP_JUMPDEST
            \/ \E p \in Starts : /\ BehindFull(p) = o
                                 /\ Stream[p] \in {op \in Byte : IsGoJump(op) \/ IsGoStop(op)}
  BY <1>1, SameEndOf DEF Leaders, Abstract!Leaders, Abstract!OP_JUMPDEST, OP_JUMPDEST
<1> QED
  BY <1>1, <1>2, <1>3, <1>4

-----------------------------------------------------------------------------
(***************************************************************************)
(* fillInstructions files the instructions of the code: those filed are on *)
(* a trail, and at its end none is missing.                                *)
(***************************************************************************)

Trailed ==
    /\ \A o \in DOMAIN Instructions :
          Instructions[o] = [OpCode |-> ByteAt(o), Data |-> DataAt(o)]
    /\ IsTrail(DOMAIN Instructions)
    /\ pos = 0 \/ \E p \in DOMAIN Instructions : BehindFull(p) = pos

\* An instruction ends in front of the next one, or where the code does.
LEMMA EndsWhere ==
    ASSUME IInv, Trailed, NEW o \in DOMAIN Instructions
    PROVE  /\ EndAt(o) = IF BehindFull(o) < Size THEN BehindFull(o) ELSE Size
           /\ Ends(o) <=> IsEnder(ByteAt(o))
           /\ Instructions[o].OpCode = ByteAt(o)
<1>1. /\ bytecode \in Seq(Byte) /\ Size \in Nat /\ o \in 0 .. (Size - 1)
      /\ Instructions[o] = [OpCode |-> ByteAt(o), Data |-> DataAt(o)]
  BY SizeType DEF IInv, TypeOK, Trailed
<1>2. ByteAt(o) \in Byte
  BY <1>1, CodeFacts
<1>3. DataLength(ByteAt(o)) \in Nat
  BY <1>2, DataLengthType
<1>4. EndAt(o) = o + DataAt(o) + 1
  BY <1>1 DEF EndAt
<1>5. EndAt(o) = IF BehindFull(o) < Size THEN BehindFull(o) ELSE Size
  BY <1>1, <1>3, <1>4 DEF DataAt, BehindFull
<1> QED
  BY <1>1, <1>5 DEF Ends, IsEnder

LEMMA AllFilled ==
    ASSUME IInv, Trailed, phase # "filling"
    PROVE  DOMAIN Instructions = Starts
<1>1. /\ bytecode \in Seq(Byte) /\ Size \in Nat
      /\ DOMAIN Instructions \in SUBSET (0 .. (Size - 1))
      /\ Reach = Size
  BY SizeType DEF IInv, TypeOK, Decoded, Reach
<1>2. DOMAIN Instructions \subseteq Starts
  BY <1>1, StartsFacts DEF Trailed
<1>3. /\ Starts \subseteq 0 .. (Size - 1) /\ IsTrail(Starts)
      /\ \A p \in Starts : p \in Nat /\ p < BehindFull(p)
  BY <1>1, StartsFacts, CodeFacts
<1> DEFINE missed == Starts \ DOMAIN Instructions
<1>4. ASSUME missed # {} PROVE FALSE
  <2>1. missed \in SUBSET Nat
    BY <1>3
  <2>2. PICK o \in missed : \A q \in missed : o <= q
    <3> HIDE DEF missed
    <3> QED
      BY <1>4, <2>1, Smallest
  <2>3. o \in Starts /\ o \notin DOMAIN Instructions /\ o < Size /\ o \in Nat
    BY <1>1, <1>3, <2>2
  <2>4. o # 0
    BY <1>1, <2>3 DEF IInv, Decoded
  <2>5. PICK p \in Starts : BehindFull(p) = o
    BY <1>3, <2>3, <2>4 DEF IsTrail
  <2>6. p < o /\ p \in Nat
    BY <1>3, <2>5
  <2>7. p \in DOMAIN Instructions
    BY <2>2, <2>3, <2>6
  <2>8. EndAt(p) = o
    BY <2>3, <2>5, <2>7, EndsWhere
  <2>9. EndAt(p) \in DOMAIN Instructions \cup {Size}
    BY <1>1, <2>7 DEF IInv, Decoded
  <2> QED
    BY <2>3, <2>8, <2>9
<1> QED
  BY <1>2, <1>4

LEMMA TrailedInit == Init => Trailed
  BY DEF Init, Trailed, IsTrail

LEMMA TrailedNext == IInv /\ Trailed /\ [Next]_vars => Trailed'
<1> SUFFICES ASSUME IInv, Trailed, [Next]_vars PROVE Trailed'
  OBVIOUS
<1>1. bytecode' = bytecode
  BY DEF Next, vars, FillInstruction, FillReturns, Cut, CutReturns
<1>2. /\ Size' = Size
      /\ \A o : ByteAt(o)' = ByteAt(o) /\ DataAt(o)' = DataAt(o)
                /\ BehindFull(o)' = BehindFull(o)
  BY <1>1 DEF Size, ByteAt, DataAt, BehindFull
<1>3. CASE FillInstruction
  <2>1. /\ pos \in Nat /\ pos < Size /\ phase = "filling"
        /\ pos' = BehindFull(pos)
        /\ Instructions' = Store(Instructions, pos, [OpCode |-> ByteAt(pos), Data |-> DataAt(pos)])
    BY <1>3 DEF FillInstruction, BehindFull, IInv, TypeOK
  <2>2. pos \notin DOMAIN Instructions
    <3>1. \A o \in DOMAIN Instructions :
             o \in Nat /\ EndAt(o) \in Nat /\ o < EndAt(o) /\ EndAt(o) <= pos
      BY <2>1 DEF IInv, TypeOK, Decoded, Reach, EndAt
    <3> QED
      BY <2>1, <3>1
  <2>3. /\ DOMAIN Instructions' = DOMAIN Instructions \cup {pos}
        /\ Instructions'[pos] = [OpCode |-> ByteAt(pos), Data |-> DataAt(pos)]
        /\ \A o \in DOMAIN Instructions : Instructions'[o] = Instructions[o]
    BY <2>1, <2>2 DEF Store
  <2>4. \A o \in DOMAIN Instructions' :
           Instructions'[o] = [OpCode |-> ByteAt(o), Data |-> DataAt(o)]'
    BY <1>2, <2>3 DEF Trailed
  <2>5. \A q \in DOMAIN Instructions' :
           q = 0 \/ \E p \in DOMAIN Instructions' : BehindFull(p)' = q
    BY <1>2, <2>3 DEF Trailed, IsTrail
  <2>6. \E p \in DOMAIN Instructions' : BehindFull(p)' = pos'
    BY <1>2, <2>1, <2>3
  <2> QED
    BY <2>4, <2>5, <2>6 DEF Trailed, IsTrail
<1>4. CASE ~FillInstruction
  <2>1. pos' = pos /\ Instructions' = Instructions
    BY <1>4 DEF Next, vars, FillReturns, Cut, CutReturns
  <2> QED
    BY <1>2, <2>1 DEF Trailed, IsTrail
<1> QED
  BY <1>3, <1>4

-----------------------------------------------------------------------------
(***************************************************************************)
(* What fillBlocks files: the blocks with instructions start at the        *)
(* leaders in front of the open block, which starts at one too and holds   *)
(* no other.                                                               *)
(***************************************************************************)

Closed == {Blocks[i].Start : i \in {j \in DOMAIN Blocks : Blocks[j].Start < Blocks[j].End}}

CutUpTo(s, f, closed) ==
    /\ s \in Leaders \cup {Size}
    /\ s <= f
    /\ s < f => \E p \in DOMAIN Instructions : s <= p /\ EndAt(p) = f /\ ~Ends(p)
    /\ \A l \in Leaders : l <= s \/ f <= l
    /\ \A l \in Leaders : l < s => l \in closed
    /\ \A l \in closed : l \in Leaders /\ l < s

Runs ==
    /\ phase = "cutting" => CutUpTo(currentBlock.Start, Frontier, Closed)
    /\ phase = "returned" => Leaders \subseteq Closed

Layers == IInv /\ Trailed /\ Runs

LEMMA ClosedIsAbstract == Abstract!Closed = Closed
<1> DEFINE Full == {j \in DOMAIN Blocks : Blocks[j].Start < Blocks[j].End}
           Padded(i) == [start |-> Blocks[i].Start, end |-> PaddedEnd(Blocks[i])]
<1>1. PaddedBlocks = {Padded(i) : i \in Full}
  BY DEF PaddedBlocks
<1>2. Abstract!Closed = {b.start : b \in {Padded(i) : i \in Full}}
  BY <1>1 DEF Abstract!Closed
<1>3. Closed = {Blocks[i].Start : i \in Full}
  BY DEF Closed
<1>4. \A i : Padded(i).start = Blocks[i].Start
  OBVIOUS
<1> HIDE DEF Full, Padded
<1> QED
  BY <1>2, <1>3, <1>4

LEMMA StreamKept ==
    ASSUME bytecode' = bytecode
    PROVE  Stream' = Stream /\ Leaders' = Leaders /\ Size' = Size
<1>1. Size' = Size
  BY DEF Size
<1>2. \A o : ByteAt(o)' = ByteAt(o) /\ BehindFull(o)' = BehindFull(o)
  BY DEF ByteAt, BehindFull
<1>3. IsStart' = IsStart
  BY DEF IsStart, BehindFull, DataLength, ByteAt, Size, IsPush, OP_PUSH1, OP_PUSH32
<1>4. Stream' = Stream
  BY <1>1, <1>2, <1>3 DEF Stream
<1> QED
  BY <1>1, <1>4 DEF Leaders, Abstract!Leaders

\* Instructions from a leader on, up to one the next leader lies behind, are its block.
LEMMA RunIsBlock ==
    ASSUME bytecode \in Seq(Byte), NEW a \in Starts, NEW z \in Starts, a <= z,
           \A k \in Leaders : k <= a \/ z < k,
           \A p \in Starts : z < p => \E k \in Leaders : a < k /\ k <= p
    PROVE  Abstract!BlockOf(Stream, a) = [start |-> a, end |-> BehindFull(z)]
<1> DEFINE Last(o) ==
              /\ a <= o
              /\ \A k \in Leaders : k <= a \/ o < k
              /\ \A p \in Starts : o < p => \E k \in Leaders : a < k /\ k <= p
<1>1. /\ \A o \in Starts : o \in Nat
      /\ DOMAIN Stream = Starts
      /\ EndOf(Stream, z) = BehindFull(z)
  BY StreamFacts, StartsFacts, CodeFacts
<1>2. \A k \in Leaders : k \in Nat
  BY <1>1, LeaderFacts
<1>3. Last(z)
  OBVIOUS
<1>4. ASSUME NEW o \in Starts, Last(o) PROVE o = z
  BY <1>1, <1>2, <1>4
<1>5. (CHOOSE o \in Starts : Last(o)) = z
  <2> HIDE DEF Last
  <2> QED
    BY <1>3, <1>4
<1> QED
  BY <1>1, <1>5, SameEndOf DEF Abstract!BlockOf, Leaders

\* Where the data of a block's last instruction would end.
LEMMA PaddedEndIs ==
    ASSUME IInv, Trailed, phase # "filling", NEW z \in DOMAIN Instructions,
           NEW b, b.End = EndAt(z)
    PROVE  PaddedEnd(b) = BehindFull(z)
<1>1. /\ bytecode \in Seq(Byte) /\ Size \in Nat
      /\ DOMAIN Instructions = Starts /\ DOMAIN Stream = Starts
      /\ Starts \subseteq 0 .. (Size - 1)
      /\ \A o, p \in Starts : o < p => BehindFull(o) <= p
      /\ EndOf(Stream, z) = BehindFull(z)
      /\ z \in Nat /\ BehindFull(z) \in Nat
  BY SizeType, AllFilled, StreamFacts, StartsFacts, StartsApart, CodeFacts DEF IInv
<1>2. b.End = IF BehindFull(z) < Size THEN BehindFull(z) ELSE Size
  BY EndsWhere
<1>3. CASE BehindFull(z) < Size
  BY <1>1, <1>2, <1>3 DEF PaddedEnd
<1>4. CASE ~(BehindFull(z) < Size)
  <2>1. \A p \in Starts : p \in Nat /\ p < Size /\ p <= z
    BY <1>1, <1>4
  <2>2. \A o \in Starts : (\A p \in Starts : p <= o) => o = z
    BY <1>1, <2>1
  <2>3. (CHOOSE o \in Starts : \A p \in Starts : p <= o) = z
    BY <1>1, <2>1, <2>2
  <2>4. PaddedEnd(b) = EndOf(Stream, CHOOSE o \in DOMAIN Stream : \A p \in DOMAIN Stream : p <= o)
    BY <1>1, <1>2, <1>4 DEF PaddedEnd
  <2> QED
    BY <1>1, <2>3, <2>4
<1> QED
  BY <1>3, <1>4

\* Filing a block adds it, with its full length, if it holds anything.
LEMMA FilingAdds ==
    ASSUME Blocks \in Seq(Block), NEW b \in Block,
           bytecode' = bytecode, Blocks' = Append(Blocks, b)
    PROVE  IF b.Start < b.End
           THEN /\ PaddedBlocks' = PaddedBlocks \cup {[start |-> b.Start, end |-> PaddedEnd(b)]}
                /\ Closed' = Closed \cup {b.Start}
           ELSE PaddedBlocks' = PaddedBlocks /\ Closed' = Closed
<1> DEFINE lastEnd == EndOf(Stream, CHOOSE o \in DOMAIN Stream : \A p \in DOMAIN Stream : p <= o)
           Full(i) == [start |-> Blocks[i].Start,
                       end   |-> IF Blocks[i].End < Size THEN Blocks[i].End ELSE lastEnd]
           Holds == {j \in DOMAIN Blocks : Blocks[j].Start < Blocks[j].End}
           Grown(i) == [start |-> Blocks'[i].Start,
                        end   |-> IF Blocks'[i].End < Size THEN Blocks'[i].End ELSE lastEnd]
           HoldsNow == {j \in DOMAIN Blocks' : Blocks'[j].Start < Blocks'[j].End}
           n == Len(Blocks) + 1
           new == [start |-> b.Start, end |-> PaddedEnd(b)]
<1>1. Stream' = Stream /\ Size' = Size
  BY StreamKept
<1>2. /\ PaddedBlocks = {Full(i) : i \in Holds}
      /\ PaddedBlocks' = {Grown(i) : i \in HoldsNow}
      /\ new = [start |-> b.Start, end |-> IF b.End < Size THEN b.End ELSE lastEnd]
  BY <1>1 DEF PaddedBlocks, PaddedEnd, EndOf
<1>3. /\ Closed = {Blocks[i].Start : i \in Holds}
      /\ Closed' = {Blocks'[i].Start : i \in HoldsNow}
  BY DEF Closed
<1>4. /\ DOMAIN Blocks' = DOMAIN Blocks \cup {n} /\ n \notin DOMAIN Blocks
      /\ Blocks'[n] = b
      /\ \A i \in DOMAIN Blocks : Blocks'[i] = Blocks[i]
  OBVIOUS
<1>5. Grown(n) = new /\ \A i \in DOMAIN Blocks : Grown(i) = Full(i)
  BY <1>2, <1>4
<1>6. CASE b.Start < b.End
  <2>1. HoldsNow = Holds \cup {n} /\ \A i \in Holds : i \in DOMAIN Blocks
    BY <1>4, <1>6
  <2> HIDE DEF Holds, HoldsNow, Full, Grown, new, n
  <2>2. PaddedBlocks' = PaddedBlocks \cup {new}
    BY <1>2, <1>5, <2>1
  <2>3. Closed' = Closed \cup {b.Start}
    BY <1>3, <1>4, <2>1
  <2> QED
    BY <1>6, <2>2, <2>3 DEF new
<1>7. CASE ~(b.Start < b.End)
  <2>1. HoldsNow = Holds /\ \A i \in Holds : i \in DOMAIN Blocks
    BY <1>4, <1>7
  <2> HIDE DEF Holds, HoldsNow, Full, Grown, new, n
  <2> QED
    BY <1>2, <1>3, <1>4, <1>5, <1>7, <2>1
<1> QED
  BY <1>6, <1>7

\* Behind an instruction that ends a block lies a leader, or the end of the code.
LEMMA NextIsLeader ==
    ASSUME IInv, Trailed, phase # "filling", NEW o \in DOMAIN Instructions, Ends(o)
    PROVE  EndAt(o) \in Leaders \cup {Size}
<1>1. /\ bytecode \in Seq(Byte) /\ o \in Starts /\ IsEnder(ByteAt(o))
      /\ EndAt(o) = IF BehindFull(o) < Size THEN BehindFull(o) ELSE Size
  BY SizeType, AllFilled, EndsWhere DEF IInv
<1>2. BehindFull(o) < Size => BehindFull(o) \in Starts
  BY <1>1, StartsFacts
<1>3. BehindFull(o) < Size => BehindFull(o) \in Leaders
  BY <1>1, <1>2, LeaderFacts
<1> QED
  BY <1>1, <1>3

\* Filing the block from the open one's start to instruction z is a step of BasicBlocks.
LEMMA FilingCloses ==
    ASSUME IInv, Trailed, phase = "cutting",
           CutUpTo(currentBlock.Start, Frontier, Closed),
           NEW b \in Block, b.Start = currentBlock.Start,
           NEW z \in DOMAIN Instructions, b.Start <= z, b.End = EndAt(z),
           EndAt(z) \in Leaders \cup {Size},
           \A l \in Leaders : l <= b.Start \/ z < l,
           bytecode' = bytecode, Blocks' = Append(Blocks, b)
    PROVE  /\ Abstract!Next
           /\ Closed' = Closed \cup {b.Start}
<1> DEFINE s == b.Start
<1>1. /\ bytecode \in Seq(Byte) /\ Size \in Nat /\ Blocks \in Seq(Block)
      /\ DOMAIN Instructions = Starts
      /\ \A p \in Starts : p \in Nat /\ p < Size /\ BehindFull(p) \in Nat /\ p < BehindFull(p)
      /\ \A o, p \in Starts : o < p => BehindFull(o) <= p
      /\ s \in Nat
      /\ EndAt(z) = IF BehindFull(z) < Size THEN BehindFull(z) ELSE Size
  <2>1. bytecode \in Seq(Byte) /\ Size \in Nat /\ Blocks \in Seq(Block)
    BY SizeType DEF IInv, TypeOK
  <2>2. DOMAIN Instructions = Starts
    BY AllFilled
  <2>3. /\ \A p \in Starts : p \in Nat /\ p < Size /\ BehindFull(p) \in Nat /\ p < BehindFull(p)
        /\ \A o, p \in Starts : o < p => BehindFull(o) <= p
    BY <2>1, StartsFacts, StartsApart, CodeFacts
  <2>4. s \in Nat
    BY DEF Block
  <2> QED
    BY <2>1, <2>2, <2>3, <2>4, EndsWhere
<1>2. s \in Leaders /\ s \in Starts
  <2>1. s # Size
    BY <1>1
  <2>2. s \in Leaders
    BY <2>1 DEF CutUpTo
  <2> QED
    BY <1>1, <2>2, LeaderFacts
<1>3. ASSUME NEW p \in Starts, z < p
      PROVE  \E k \in Leaders : s < k /\ k <= p
  <2>1. BehindFull(z) <= p /\ BehindFull(z) < Size
    BY <1>1, <1>3
  <2>2. EndAt(z) \in Leaders /\ s < EndAt(z) /\ EndAt(z) <= p
    BY <1>1, <2>1
  <2> QED
    BY <2>2
<1>4. Abstract!BlockOf(Stream, s) = [start |-> s, end |-> BehindFull(z)]
  BY <1>1, <1>2, <1>3, RunIsBlock
<1>5. PaddedEnd(b) = BehindFull(z)
  BY PaddedEndIs
<1>6. s < b.End
  BY <1>1
<1>7. /\ PaddedBlocks' = PaddedBlocks \cup {Abstract!BlockOf(Stream, s)}
      /\ Closed' = Closed \cup {s}
  BY <1>1, <1>4, <1>5, <1>6, FilingAdds
<1>8. Stream' = Stream
  BY StreamKept
<1>9. \A l \in Leaders \ Closed : s <= l
  <2>1. \A l \in Leaders : l \in Nat
    BY <1>1, LeaderFacts
  <2> QED
    BY <1>1, <2>1 DEF CutUpTo
<1>10. s \in Abstract!Owed(Stream) \ Closed
  <2>1. s \notin Closed
    BY <1>1 DEF CutUpTo
  <2> QED
    BY <1>2, <2>1 DEF Abstract!Owed, Leaders
<1>11. Abstract!Close(s)
  BY <1>7, <1>8, <1>9, ClosedIsAbstract DEF Abstract!Close, Leaders
<1>12. Abstract!Next
  BY <1>10, <1>11, ClosedIsAbstract DEF Abstract!Next
<1> QED
  BY <1>7, <1>12

-----------------------------------------------------------------------------

Refines == Abstract!Next \/ UNCHANGED <<Stream, PaddedBlocks>>

Kept == bytecode' = bytecode /\ Instructions' = Instructions

\* What the open block becomes, in terms of where it starts and ends so far.
LEMMA CutUpToNow ==
    ASSUME Kept, phase' = "cutting", NEW s, NEW f, NEW closed,
           CutUpTo(s, f, closed),
           currentBlock'.Start = s, Frontier' = f, Closed' = closed
    PROVE  Runs'
<1>1. /\ Leaders' = Leaders /\ Size' = Size
      /\ \A p \in DOMAIN Instructions : EndAt(p)' = EndAt(p) /\ (Ends(p)' <=> Ends(p))
      /\ DOMAIN Instructions' = DOMAIN Instructions
  BY StreamKept DEF Kept, EndAt, Ends
<1>2. CutUpTo(currentBlock.Start, Frontier, Closed)'
  BY <1>1 DEF CutUpTo
<1> QED
  BY <1>2 DEF Runs

LEMMA StandsStill ==
    ASSUME Kept, Blocks' = Blocks
    PROVE  Refines /\ Closed' = Closed
<1>1. Stream' = Stream /\ Size' = Size
  BY StreamKept DEF Kept
<1>2. PaddedBlocks' = PaddedBlocks
  BY <1>1 DEF PaddedBlocks, PaddedEnd, EndOf
<1> QED
  BY <1>1, <1>2 DEF Refines, Closed

\* The facts about the instruction fillBlocks has come to.
LEMMA AtInstruction ==
    ASSUME Layers, phase = "cutting", offset \in DOMAIN Instructions
    PROVE  /\ bytecode \in Seq(Byte) /\ Size \in Nat /\ offset \in Nat
           /\ DOMAIN Instructions = Starts
           /\ \A l \in Leaders : l \in Nat
           /\ offset = Frontier
           /\ currentBlock.Start \in Nat /\ currentBlock.Start <= offset
           /\ currentBlock.Start \in Leaders
           /\ CutUpTo(currentBlock.Start, offset, Closed)
           /\ EndAt(offset) \in Nat /\ offset < EndAt(offset)
           /\ \A l \in Leaders : offset < l => EndAt(offset) <= l
<1>1. /\ bytecode \in Seq(Byte) /\ Size \in Nat /\ offset \in Nat
      /\ currentBlock.Start \in Nat
  BY SizeType DEF Layers, IInv, TypeOK
<1>2. offset = Frontier
  BY ReachesStart DEF Layers
<1>3. CutUpTo(currentBlock.Start, offset, Closed)
  BY <1>2 DEF Layers, Runs
<1>4. DOMAIN Instructions = Starts
  BY AllFilled DEF Layers
<1>5. \A l \in Leaders : l \in Starts
  BY <1>1, LeaderFacts
<1>6. \A p \in Starts : p \in Nat /\ p < Size
  BY <1>1, StartsFacts, CodeFacts
<1>7. EndAt(offset) \in Nat /\ offset < EndAt(offset)
  BY <1>1 DEF Layers, IInv, TypeOK, EndAt
<1>8. \A o, p \in DOMAIN Instructions : o < p => EndAt(o) <= p
  BY DEF Layers, IInv, Decoded
<1>9. currentBlock.Start <= offset /\ currentBlock.Start \in Leaders
  <2>1. currentBlock.Start <= offset /\ offset < Size
    BY <1>3, <1>4, <1>6 DEF CutUpTo
  <2>2. currentBlock.Start # Size
    BY <1>1, <2>1
  <2> QED
    BY <1>3, <2>1, <2>2 DEF CutUpTo
<1> QED
  BY <1>1, <1>2, <1>3, <1>4, <1>5, <1>6, <1>7, <1>8, <1>9

\* A JUMPDEST files the open block, if it holds anything, and opens its own.
LEMMA JumpDestRefines ==
    ASSUME Layers, Kept, phase = "cutting", phase' = "cutting", CutAtInstruction,
           Instructions[offset].OpCode = OP_JUMPDEST
    PROVE  Refines /\ Runs'
<1> DEFINE s == currentBlock.Start
           o == offset
<1>1. /\ bytecode \in Seq(Byte) /\ Size \in Nat /\ o \in Nat
      /\ o \in DOMAIN Instructions
      /\ DOMAIN Instructions = Starts
      /\ \A l \in Leaders : l \in Nat
      /\ o = Frontier /\ s \in Nat /\ s <= o /\ s \in Leaders
      /\ CutUpTo(s, o, Closed)
      /\ EndAt(o) \in Nat /\ o < EndAt(o)
      /\ \A l \in Leaders : o < l => EndAt(o) <= l
  BY AtInstruction DEF CutAtInstruction
<1>2. o \in Leaders
  <2>1. ByteAt(o) = OP_JUMPDEST
    BY <1>1, EndsWhere DEF Layers
  <2> QED
    BY <1>1, <2>1, LeaderFacts
<1>3. ~Ends(o) /\ StartAt(o) = o /\ BlocksBefore(o) = WithBlock(Blocks, currentBlock)
  BY DEF Ends, IsGoJump, IsGoStop, StartAt, BlocksBefore, OP_JUMPDEST, OP_JUMP, OP_JUMPI,
         OP_STOP, OP_REVERT
<1>4. /\ Blocks' = WithBlock(Blocks, currentBlock)
      /\ currentBlock' = [Start |-> o, End |-> EndAt(o)]
  BY <1>3 DEF CutAtInstruction
<1>5. currentBlock'.Start = o /\ Frontier' = EndAt(o)
  BY <1>1, <1>4 DEF Frontier, Unended
<1>6. Refines /\ Closed' = IF s < o THEN Closed \cup {s} ELSE Closed
  <2>1. CASE currentBlock.End = Unended
    <3>1. s = o /\ Blocks' = Blocks
      BY <1>1, <1>4, <2>1 DEF Frontier, WithBlock
    <3> QED
      BY <1>1, <3>1, StandsStill
  <2>2. CASE currentBlock.End # Unended
    <3>1. currentBlock.End = o /\ Blocks' = Append(Blocks, currentBlock)
      BY <1>1, <1>4, <2>2 DEF Frontier, WithBlock
    <3>2. currentBlock \in Block /\ Blocks \in Seq(Block)
      BY <2>2 DEF Layers, IInv, TypeOK, Block
    <3>3. CASE s < o
      <4>1. PICK z \in DOMAIN Instructions : s <= z /\ EndAt(z) = o /\ ~Ends(z)
        BY <1>1, <3>3 DEF CutUpTo
      <4>2. z < o /\ z \in Nat
        BY <1>1, <4>1 DEF Layers, IInv, TypeOK, EndAt
      <4>3. \A l \in Leaders : l <= s \/ z < l
        BY <1>1, <4>2 DEF CutUpTo
      <4>4. Abstract!Next /\ Closed' = Closed \cup {s}
        BY <1>1, <1>2, <3>1, <3>2, <4>1, <4>3, FilingCloses DEF Kept, Layers
      <4> QED
        BY <3>3, <4>4 DEF Refines
    <3>4. CASE ~(s < o)
      <4>1. PaddedBlocks' = PaddedBlocks /\ Closed' = Closed
        BY <3>1, <3>2, <3>4, FilingAdds DEF Kept
      <4>2. Stream' = Stream
        BY StreamKept DEF Kept
      <4> QED
        BY <3>4, <4>1, <4>2 DEF Refines
    <3> QED
      BY <3>3, <3>4
  <2> QED
    BY <2>1, <2>2
<1>7. CutUpTo(o, EndAt(o), Closed')
  <2>1. \A l \in Leaders : l < o => l \in Closed'
    BY <1>1, <1>6 DEF CutUpTo
  <2>2. \A l \in Closed' : l \in Leaders /\ l < o
    BY <1>1, <1>6 DEF CutUpTo
  <2>3. \A l \in Leaders : l <= o \/ EndAt(o) <= l
    BY <1>1
  <2>4. \E p \in DOMAIN Instructions : o <= p /\ EndAt(p) = EndAt(o) /\ ~Ends(p)
    BY <1>1, <1>3
  <2> QED
    BY <1>1, <1>2, <2>1, <2>2, <2>3, <2>4 DEF CutUpTo
<1>8. Runs'
  BY <1>5, <1>7, CutUpToNow
<1> QED
  BY <1>6, <1>8

\* Any other instruction joins the open block, which is filed if it ends one.
LEMMA OtherRefines ==
    ASSUME Layers, Kept, phase = "cutting", phase' = "cutting", CutAtInstruction,
           Instructions[offset].OpCode # OP_JUMPDEST
    PROVE  Refines /\ Runs'
<1> DEFINE s == currentBlock.Start
           o == offset
           e == EndAt(offset)
<1>1. /\ bytecode \in Seq(Byte) /\ Size \in Nat /\ o \in Nat
      /\ o \in DOMAIN Instructions
      /\ DOMAIN Instructions = Starts
      /\ \A l \in Leaders : l \in Nat
      /\ s \in Nat /\ s <= o /\ s \in Leaders
      /\ CutUpTo(s, o, Closed)
      /\ o = Frontier
      /\ e \in Nat /\ o < e
      /\ \A l \in Leaders : o < l => e <= l
  BY AtInstruction DEF CutAtInstruction
<1>2. s < o => o \notin Leaders
  <2> SUFFICES ASSUME s < o, o \in Leaders PROVE FALSE
    OBVIOUS
  <2>1. PICK z \in DOMAIN Instructions : EndAt(z) = o /\ ~Ends(z)
    BY <1>1 DEF CutUpTo
  <2>2. ByteAt(o) # OP_JUMPDEST /\ o # 0
    BY <1>1, EndsWhere DEF Layers
  <2>3. PICK p \in Starts : BehindFull(p) = o /\ IsEnder(ByteAt(p))
    BY <1>1, <2>2, LeaderFacts
  <2>4. \A q \in Starts : q \in Nat /\ q < Size /\ BehindFull(q) \in Nat /\ q < BehindFull(q)
    BY <1>1, StartsFacts, CodeFacts
  <2>5. o < Size /\ BehindFull(z) = o
    <3>1. EndAt(z) = IF BehindFull(z) < Size THEN BehindFull(z) ELSE Size
      BY EndsWhere DEF Layers
    <3> QED
      BY <1>1, <2>1, <2>4, <3>1
  <2>6. p = z
    BY <1>1, <2>3, <2>4, <2>5, StartsApart
  <2> QED
    BY <1>1, <2>1, <2>3, <2>6, EndsWhere DEF Layers
<1>3. \A l \in Leaders : l <= s \/ e <= l
  BY <1>1, <1>2 DEF CutUpTo
<1>4. \A l \in Leaders : l < e => l = s \/ l \in Closed
  BY <1>1, <1>3 DEF CutUpTo
<1>5. BlocksBefore(o) = Blocks /\ StartAt(o) = s
  BY DEF BlocksBefore, StartAt
<1>6. CASE Ends(o)
  <2> DEFINE b == [Start |-> s, End |-> e]
  <2>1. b \in Block /\ b.Start = s /\ b.End = e /\ e # Unended
    BY <1>1 DEF Block, Unended
  <2>2. Blocks' = Append(Blocks, b) /\ currentBlock' = [Start |-> e, End |-> Unended]
    BY <1>5, <1>6, <2>1 DEF CutAtInstruction, WithBlock
  <2> HIDE DEF b
  <2>3. e \in Leaders \cup {Size}
    BY <1>1, <1>6, NextIsLeader DEF Layers
  <2>4. \A l \in Leaders : l <= s \/ o < l
    BY <1>1, <1>3
  <2>5. Abstract!Next /\ Closed' = Closed \cup {s}
    BY <1>1, <2>1, <2>2, <2>3, <2>4, FilingCloses DEF Layers, Kept
  <2>6. currentBlock'.Start = e /\ Frontier' = e
    BY <2>2 DEF Frontier
  <2>7. CutUpTo(e, e, Closed')
    <3>1. \A l \in Leaders : l <= e \/ e <= l
      BY <1>1
    <3>2. \A l \in Leaders : l < e => l \in Closed'
      BY <1>4, <2>5
    <3>3. \A l \in Closed' : l \in Leaders /\ l < e
      BY <1>1, <2>5 DEF CutUpTo
    <3>4. e <= e /\ ~(e < e)
      BY <1>1
    <3> QED
      BY <2>3, <3>1, <3>2, <3>3, <3>4 DEF CutUpTo
  <2>8. Runs'
    BY <2>6, <2>7, CutUpToNow
  <2> QED
    BY <2>5, <2>8 DEF Refines
<1>7. CASE ~Ends(o)
  <2>1. Blocks' = Blocks /\ currentBlock' = [Start |-> s, End |-> e]
    BY <1>5, <1>7 DEF CutAtInstruction
  <2>2. Refines /\ Closed' = Closed
    BY <2>1, StandsStill
  <2>3. currentBlock'.Start = s /\ Frontier' = e
    BY <1>1, <2>1 DEF Frontier, Unended
  <2>4. CutUpTo(s, e, Closed)
    <3>1. \E p \in DOMAIN Instructions : s <= p /\ EndAt(p) = e /\ ~Ends(p)
      BY <1>1, <1>7
    <3>2. s <= e
      BY <1>1
    <3> QED
      BY <1>1, <1>3, <3>1, <3>2 DEF CutUpTo
  <2>5. Runs'
    BY <2>2, <2>3, <2>4, CutUpToNow
  <2> QED
    BY <2>2, <2>5
<1> QED
  BY <1>6, <1>7

\* At its end fillBlocks files the block that is open.
LEMMA ReturnRefines ==
    ASSUME Layers, CutReturns
    PROVE  Refines /\ Runs'
<1> DEFINE s == currentBlock.Start
<1>1. /\ phase = "cutting" /\ phase' = "returned" /\ Kept
      /\ Blocks' = WithBlock(Blocks, currentBlock)
      /\ Blocks \in Seq(Block) /\ bytecode \in Seq(Byte) /\ Size \in Nat
      /\ s \in Nat
  BY SizeType DEF CutReturns, Kept, Layers, IInv, TypeOK
<1>2. Frontier = Size /\ CutUpTo(s, Size, Closed)
  <2>1. Frontier = Size
    <3>1. /\ offset \in Nat /\ Size <= offset /\ offset <= Frontier
          /\ Frontier \in DOMAIN Instructions \cup {Size}
          /\ DOMAIN Instructions \subseteq 0 .. (Size - 1)
      BY <1>1 DEF CutReturns, Layers, IInv, AtFrontier, TypeOK
    <3> QED
      BY <1>1, <3>1
  <2> QED
    BY <1>1, <2>1 DEF Layers, Runs
<1>3. Leaders' = Leaders /\ Stream' = Stream
  BY <1>1, StreamKept DEF Kept
<1>4. \A l \in Leaders : l \in Nat /\ l < Size
  BY <1>1, LeaderFacts, StartsFacts, CodeFacts
<1>5. \A l \in Leaders : l = s \/ l \in Closed
  BY <1>1, <1>2, <1>4 DEF CutUpTo
<1>6. Refines /\ \A l \in Leaders : l \in Closed'
  <2>1. CASE s < Size
    <3>1. PICK z \in DOMAIN Instructions : s <= z /\ EndAt(z) = Size /\ ~Ends(z)
      BY <1>2, <2>1 DEF CutUpTo
    <3>2. currentBlock.End = Size
      BY <1>1, <1>2, <2>1 DEF Frontier
    <3>3. currentBlock \in Block /\ Blocks' = Append(Blocks, currentBlock)
      BY <1>1, <3>2 DEF Layers, IInv, TypeOK, Block, WithBlock, Unended
    <3>4. z \in Nat /\ z < Size
      BY <1>1 DEF Layers, IInv, TypeOK
    <3>5. \A l \in Leaders : l <= s \/ z < l
      BY <1>1, <1>2, <1>4, <3>4 DEF CutUpTo
    <3>6. Abstract!Next /\ Closed' = Closed \cup {s}
      BY <1>1, <1>2, <3>1, <3>2, <3>3, <3>5, FilingCloses DEF Layers, Kept
    <3> QED
      BY <1>5, <3>6 DEF Refines
  <2>2. CASE ~(s < Size)
    <3>1. s = Size /\ \A l \in Leaders : l \in Closed
      BY <1>1, <1>2, <1>4, <1>5, <2>2 DEF CutUpTo
    <3>2. CASE currentBlock.End = Unended
      BY <1>1, <3>1, <3>2, StandsStill DEF WithBlock
    <3>3. CASE currentBlock.End # Unended
      <4>1. currentBlock \in Block /\ currentBlock.End = Size
        BY <1>2, <3>3 DEF Layers, IInv, TypeOK, Block, Frontier
      <4>2. PaddedBlocks' = PaddedBlocks /\ Closed' = Closed
        BY <1>1, <2>2, <3>3, <4>1, FilingAdds DEF WithBlock, Kept
      <4> QED
        BY <1>3, <3>1, <4>2 DEF Refines
    <3> QED
      BY <3>2, <3>3
  <2> QED
    BY <2>1, <2>2
<1> QED
  BY <1>1, <1>3, <1>6 DEF Runs

-----------------------------------------------------------------------------

LEMMA LayersInit == Init => Layers /\ Abstract!Init
<1> SUFFICES ASSUME Init PROVE Layers /\ Abstract!Init
  OBVIOUS
<1>1. IInv /\ Trailed
  BY InitIInv, TrailedInit
<1>2. Runs
  BY DEF Init, Runs
<1>3. Abstract!IsStream(Stream)
  BY <1>1, SizeType, StreamIsStream DEF IInv
<1>4. PaddedBlocks = {}
  BY DEF Init, PaddedBlocks
<1> QED
  BY <1>1, <1>2, <1>3, <1>4 DEF Layers, Abstract!Init

\* Nothing is filed while fillInstructions is at work.
LEMMA FillRefines ==
    ASSUME Layers, FillInstruction \/ FillReturns
    PROVE  Refines /\ Runs'
<1>1. /\ phase = "filling" /\ bytecode' = bytecode /\ Blocks' = Blocks
      /\ currentBlock' = currentBlock
      /\ Blocks = <<>> /\ currentBlock = [Start |-> 0, End |-> 0]
  BY DEF FillInstruction, FillReturns, Layers, IInv, AtFrontier
<1>2. Stream' = Stream /\ Leaders' = Leaders /\ Size' = Size
  BY <1>1, StreamKept
<1>3. PaddedBlocks' = PaddedBlocks
  BY <1>1 DEF PaddedBlocks
<1>4. CASE FillInstruction
  BY <1>1, <1>2, <1>3, <1>4 DEF Refines, FillInstruction, Runs
<1>5. CASE FillReturns
  <2>1. phase' = "cutting" /\ Instructions' = Instructions
    BY <1>5 DEF FillReturns
  <2>2. bytecode \in Seq(Byte) /\ Size \in Nat
    BY SizeType DEF Layers, IInv
  <2>3. currentBlock'.Start = 0 /\ Frontier' = 0 /\ Closed' = {}
    BY <1>1 DEF Frontier, Unended, Closed
  <2>4. \A l \in Leaders : l \in Nat
    BY <2>2, LeaderFacts, StartsFacts, CodeFacts
  <2>5. 0 \in Leaders \cup {Size}
    BY <2>2, LeaderFacts, StartsFacts
  <2>6. CutUpTo(0, 0, {})
    BY <2>4, <2>5 DEF CutUpTo
  <2>7. Runs'
    BY <1>1, <2>1, <2>3, <2>6, CutUpToNow DEF Kept
  <2> QED
    BY <1>2, <1>3, <2>7 DEF Refines
<1> QED
  BY <1>4, <1>5

LEMMA CutRefines ==
    ASSUME Layers, Cut
    PROVE  Refines /\ Runs'
<1>1. phase = "cutting" /\ phase' = "cutting" /\ Kept /\ (CutAtInstruction \/ SkipData)
  BY DEF Cut, Kept
<1>2. CASE CutAtInstruction
  BY <1>1, <1>2, JumpDestRefines, OtherRefines
<1>3. CASE SkipData
  <2>1. Blocks' = Blocks /\ currentBlock' = currentBlock
    BY <1>3 DEF SkipData
  <2>2. Refines /\ Closed' = Closed
    BY <1>1, <2>1, StandsStill
  <2>3. CutUpTo(currentBlock.Start, Frontier, Closed)
    BY <1>1 DEF Layers, Runs
  <2>4. currentBlock'.Start = currentBlock.Start /\ Frontier' = Frontier
    BY <2>1 DEF Frontier
  <2>5. Runs'
    BY <1>1, <2>2, <2>3, <2>4, CutUpToNow
  <2> QED
    BY <2>2, <2>5
<1> QED
  BY <1>1, <1>2, <1>3

LEMMA StepRefines == Layers /\ [Next]_vars => Refines /\ Runs'
<1> SUFFICES ASSUME Layers, [Next]_vars PROVE Refines /\ Runs'
  OBVIOUS
<1>1. CASE UNCHANGED vars
  <2>1. /\ Kept /\ Blocks' = Blocks /\ currentBlock' = currentBlock /\ phase' = phase
        /\ Frontier' = Frontier
    BY <1>1 DEF vars, Kept, Frontier
  <2>2. Refines /\ Closed' = Closed
    BY <2>1, StandsStill
  <2>3. phase = "cutting" => Runs'
    <3> SUFFICES ASSUME phase = "cutting" PROVE Runs'
      OBVIOUS
    <3>1. CutUpTo(currentBlock.Start, Frontier, Closed)
      BY DEF Layers, Runs
    <3>2. phase' = "cutting" /\ currentBlock'.Start = currentBlock.Start
      BY <2>1
    <3> QED
      BY <2>1, <2>2, <3>1, <3>2, CutUpToNow
  <2>4. phase # "cutting" => Runs'
    BY <2>1, <2>2, StreamKept DEF Kept, Layers, Runs
  <2> QED
    BY <2>2, <2>3, <2>4
<1>2. CASE Next
  BY <1>2, FillRefines, CutRefines, ReturnRefines DEF Next
<1> QED
  BY <1>1, <1>2

LEMMA LayersHold == Spec => []Layers
<1>1. Init => IInv /\ Trailed /\ Runs
  BY LayersInit DEF Layers
<1>2. IInv /\ Trailed /\ Runs /\ [Next]_vars => Trailed' /\ Runs'
  BY TrailedNext, StepRefines DEF Layers
<1> QED
  BY <1>1, <1>2, Invariance, PTL DEF Spec, Layers

\* For every code, each step of ParseByteCode closes the next basic block or none.
THEOREM StepsCloseBlocks == Spec => Abstract!Init /\ [][Abstract!Next]_<<Stream, PaddedBlocks>>
<1>1. Layers /\ [Next]_vars => [Abstract!Next]_<<Stream, PaddedBlocks>>
  BY StepRefines DEF Refines
<1>2. Init => Abstract!Init
  BY LayersInit
<1> QED
  BY <1>1, <1>2, LayersHold, PTL DEF Spec

\* For every code, once ParseByteCode has returned each basic block is filed.
THEOREM NoBlockIsOwed ==
    Spec => [](phase = "returned" => Abstract!Owed(Stream) \subseteq Abstract!Closed)
<1>1. Layers => (phase = "returned" => Abstract!Owed(Stream) \subseteq Abstract!Closed)
  BY ClosedIsAbstract DEF Layers, Runs, Abstract!Owed, Leaders
<1> QED
  BY <1>1, LayersHold, PTL

\* A run of ParseByteCode that returns implements BasicBlocks, for every code.
THEOREM ReturningParseImplements == Spec /\ <>(phase = "returned") => ImplementsBasicBlocks
<1>1. [](phase = "returned" => Abstract!Owed(Stream) \subseteq Abstract!Closed)
          /\ <>(phase = "returned")
      => <>(Abstract!Owed(Stream) \subseteq Abstract!Closed)
  BY PTL
<1> QED
  BY <1>1, StepsCloseBlocks, NoBlockIsOwed
  DEF ImplementsBasicBlocks, Abstract!Spec, Abstract!AllClosed

=============================================================================
