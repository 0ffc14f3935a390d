----------------------- MODULE FillInstructionsProofs -----------------------
(***************************************************************************)
(* Proofs about FillInstructions, for every set of codes, every width of   *)
(* words and whatever an uninitialised idx may be.                         *)
(***************************************************************************)
EXTENDS FillInstructions, CFInstructionProofs, FiniteSetTheorems, SequenceTheorems, TLAPS

-----------------------------------------------------------------------------
(***************************************************************************)
(* Instructions on sequences of expressions                                *)
(***************************************************************************)

IsSequence(s) == \E S : s \in Seq(S)

\* A function on 1 .. n is a sequence of length n.
LEMMA IsSequenceOf ==
    ASSUME NEW n \in Nat, NEW f, f = [i \in 1 .. n |-> f[i]]
    PROVE  IsSequence(f) /\ Len(f) = n
<1>1. f \in [1 .. n -> {f[i] : i \in 1 .. n}]
  OBVIOUS
<1>2. f \in Seq({f[i] : i \in 1 .. n})
  BY <1>1
<1>3. Len(f) \in Nat /\ 1 .. Len(f) = 1 .. n
  BY <1>1, <1>2, LenProperties
<1>4. Len(f) = n
  BY <1>3
<1>5. IsSequence(f)
  BY <1>2 DEF IsSequence
<1> QED
  BY <1>4, <1>5

\* Sequences over different sets are equal when they agree.
LEMMA SameSequence ==
    ASSUME NEW S, NEW T, NEW s \in Seq(S), NEW t \in Seq(T), NEW n,
           Len(s) = n, Len(t) = n, \A i \in 1 .. n : s[i] = t[i]
    PROVE  s = t
<1>1. s \in Seq(S \cup T)
  BY SeqMonotonic
<1>2. t \in Seq(S \cup T)
  BY SeqMonotonic
<1> QED
  BY <1>1, <1>2, SeqEqual

\* Membership in SymbolsIn.
LEMMA InSymbols ==
    ASSUME NEW exprs, NEW i
    PROVE  i \in SymbolsIn(exprs) <=>
               \E k \in 1 .. Len(exprs) : exprs[k].kind = "symbol" /\ exprs[k].idx = i
  BY DEF SymbolsIn

\* The symbols among the operands come from the stack.
LEMMA OperandsFromStack ==
    ASSUME NEW op, NEW entry, NEW args, IsSequence(entry)
    PROVE  /\ IsSequence(Operands(op, entry, args))
           /\ Len(Operands(op, entry, args)) = StackRemoved(op)
           /\ SymbolsIn(Operands(op, entry, args)) \subseteq SymbolsIn(entry)
<1> DEFINE operands == Operands(op, entry, args)
           n == StackRemoved(op)
<1>1. n \in Nat
  BY StackRemovedType
<1>2. /\ IsSequence(operands) /\ Len(operands) = n
      /\ \A i \in 1 .. n : operands[i] =
            IF i <= Len(entry) THEN entry[Len(entry) - i + 1]
            ELSE Argument(args[i - Len(entry)])
  <2>1. operands = [i \in 1 .. n |-> operands[i]]
    BY DEF Operands
  <2>2. IsSequence(operands) /\ Len(operands) = n
    <3> HIDE DEF operands, n
    <3> QED
      BY <1>1, <2>1, IsSequenceOf
  <2> QED
    BY <2>2 DEF Operands
<1>3. Len(entry) \in Nat
  BY DEF IsSequence
<1>4. ASSUME NEW k \in 1 .. n, operands[k].kind = "symbol"
      PROVE  operands[k].idx \in SymbolsIn(entry)
  <2>1. k <= Len(entry)
    BY <1>2, <1>4 DEF Argument
  <2>2. Len(entry) - k + 1 \in 1 .. Len(entry)
    BY <1>3, <2>1, <1>1
  <2> HIDE DEF operands
  <2>3. operands[k] = entry[Len(entry) - k + 1]
    BY <1>2, <2>1
  <2> QED
    BY <2>2, <2>3, <1>4, InSymbols
<1>5. SymbolsIn(operands) \subseteq SymbolsIn(entry)
  <2> HIDE DEF operands
  <2> SUFFICES ASSUME NEW i \in SymbolsIn(operands) PROVE i \in SymbolsIn(entry)
    OBVIOUS
  <2> QED
    BY <1>2, <1>4, InSymbols
<1> QED
  BY <1>2, <1>5

\* simplify leaves a sequence, whatever it makes of the instruction.
LEMMA SimplifiedIsSequence ==
    ASSUME NEW op, NEW operands, NEW value, NEW first, IsSequence(operands)
    PROVE  IsSequence(Simplified(op, operands, FreshOutputs(op, value, first)))
<1> DEFINE fresh == FreshOutputs(op, value, first)
<1>1. CASE IsDup(op)
  <2>1. PICK S : operands \in Seq(S)
    BY DEF IsSequence
  <2>2. DupOutputs(operands) \in Seq(S \cup {operands[Len(operands)]})
    BY <2>1 DEF DupOutputs
  <2> QED
    BY <1>1, <2>2 DEF Simplified, IsSequence
<1>2. CASE ~IsDup(op) /\ IsSwap(op)
  <2> DEFINE outputs == SwapOutputs(operands)
             n == Len(operands)
  <2>1. n \in Nat
    BY DEF IsSequence
  <2>2. outputs = [i \in 1 .. n |-> outputs[i]]
    BY DEF SwapOutputs
  <2>3. IsSequence(outputs)
    <3> HIDE DEF outputs, n
    <3> QED
      BY <2>1, <2>2, IsSequenceOf
  <2> QED
    BY <1>2, <2>3 DEF Simplified
<1>3. CASE ~IsDup(op) /\ ~IsSwap(op) /\ Folds(op, operands)
  <2> DEFINE folded == Constant(fresh[1].idx, Result(op, Values(operands)))
  <2>1. <<folded>> \in Seq({folded})
    OBVIOUS
  <2>2. Simplified(op, operands, fresh) = <<folded>>
    BY <1>3 DEF Simplified
  <2> QED
    BY <2>1, <2>2 DEF IsSequence
<1>4. CASE ~IsDup(op) /\ ~IsSwap(op) /\ ~Folds(op, operands)
  <2> DEFINE n == StackAdded(op)
  <2>1. n \in Nat
    BY StackAddedType
  <2>2. fresh = [i \in 1 .. n |-> fresh[i]]
    BY DEF FreshOutputs
  <2>3. IsSequence(fresh)
    <3> HIDE DEF fresh, n
    <3> QED
      BY <2>1, <2>2, IsSequenceOf
  <2> QED
    BY <1>4, <2>3 DEF Simplified
<1> QED
  BY <1>1, <1>2, <1>3, <1>4

\* The values on the stack afterwards were there before or are outputs ...
LEMMA PushedElements ==
    ASSUME NEW op, NEW entry, NEW outputs, IsSequence(entry), IsSequence(outputs)
    PROVE  LET after == Pushed(Rest(op, entry), outputs)
           IN  /\ IsSequence(after)
               /\ \A k \in 1 .. Len(after) : \/ \E j \in 1 .. Len(entry) : after[k] = entry[j]
                                             \/ \E j \in 1 .. Len(outputs) : after[k] = outputs[j]
<1> DEFINE n == Len(outputs)
           top == [i \in 1 .. n |-> outputs[n - i + 1]]
           rest == Rest(op, entry)
           after == rest \o top
<1>1. PICK S : entry \in Seq(S)
  BY DEF IsSequence
<1>2. n \in Nat
  BY DEF IsSequence
<1>3. IsSequence(top) /\ Len(top) = n
  <2>1. top = [i \in 1 .. n |-> top[i]]
    OBVIOUS
  <2> HIDE DEF top, n
  <2> QED
    BY <1>2, <2>1, IsSequenceOf
<1>4. PICK T : top \in Seq(T)
  BY <1>3 DEF IsSequence
<1>5. rest \in Seq(S) /\ \A k \in 1 .. Len(rest) : k \in 1 .. Len(entry) /\ rest[k] = entry[k]
  <2> DEFINE m == Len(entry) - StackRemoved(op)
  <2>1. Len(entry) \in Nat /\ m \in Int /\ m <= Len(entry)
    BY <1>1, StackRemovedType
  <2>2. rest = SubSeq(entry, 1, m)
    BY DEF Rest
  <2> HIDE DEF m, rest
  <2>3. rest \in Seq(S)
    BY <1>1, <2>1, <2>2
  <2>4. /\ Len(rest) = IF m >= 1 THEN m ELSE 0
        /\ \A k \in 1 .. Len(rest) : rest[k] = entry[k]
    BY <1>1, <2>1, <2>2
  <2> QED
    BY <2>1, <2>3, <2>4
<1>6. /\ after \in Seq(S \cup T) /\ Len(after) = Len(rest) + n
      /\ \A k \in 1 .. Len(after) :
            after[k] = IF k <= Len(rest) THEN rest[k] ELSE top[k - Len(rest)]
  <2> HIDE DEF top, rest
  <2>1. rest \in Seq(S \cup T) /\ top \in Seq(S \cup T)
    BY <1>4, <1>5
  <2> QED
    BY <1>3, <2>1
<1>7. ASSUME NEW k \in 1 .. Len(after)
      PROVE  \/ \E j \in 1 .. Len(entry) : after[k] = entry[j]
             \/ \E j \in 1 .. n : after[k] = outputs[j]
  <2>1. CASE k <= Len(rest)
    <3>1. k \in 1 .. Len(rest) /\ after[k] = rest[k]
      BY <1>5, <1>6, <2>1
    <3> HIDE DEF after, rest
    <3>2. k \in 1 .. Len(entry) /\ after[k] = entry[k]
      BY <1>5, <3>1
    <3> QED
      BY <3>2
  <2>2. CASE k > Len(rest)
    <3>1. Len(rest) \in Nat /\ k - Len(rest) \in 1 .. n /\ after[k] = top[k - Len(rest)]
      BY <1>2, <1>5, <1>6, <2>2
    <3>2. n - (k - Len(rest)) + 1 \in 1 .. n /\ after[k] = outputs[n - (k - Len(rest)) + 1]
      BY <1>2, <3>1
    <3> HIDE DEF after, rest, n
    <3> QED
      BY <3>2
  <2>3. k \in Int /\ Len(rest) \in Int
    BY <1>5
  <2> QED
    BY <2>1, <2>2, <2>3
<1>8. Pushed(Rest(op, entry), outputs) = after
  BY DEF Pushed
<1>9. IsSequence(after)
  BY <1>6 DEF IsSequence
<1> HIDE DEF after
<1> QED
  BY <1>7, <1>8, <1>9

\* ... and so are the symbols.
LEMMA PushedFromOutputs ==
    ASSUME NEW op, NEW entry, NEW outputs, IsSequence(entry), IsSequence(outputs)
    PROVE  LET after == Pushed(Rest(op, entry), outputs)
           IN  IsSequence(after) /\ SymbolsIn(after) \subseteq SymbolsIn(entry) \cup SymbolsIn(outputs)
<1> DEFINE after == Pushed(Rest(op, entry), outputs)
<1>1. /\ IsSequence(after)
      /\ \A k \in 1 .. Len(after) : \/ \E j \in 1 .. Len(entry) : after[k] = entry[j]
                                    \/ \E j \in 1 .. Len(outputs) : after[k] = outputs[j]
  BY PushedElements
<1> HIDE DEF after
<1>2. ASSUME NEW i \in SymbolsIn(after)
      PROVE  i \in SymbolsIn(entry) \cup SymbolsIn(outputs)
  <2>1. PICK k \in 1 .. Len(after) : after[k].kind = "symbol" /\ after[k].idx = i
    BY <1>2, InSymbols
  <2> QED
    BY <1>1, <2>1, InSymbols
<1> QED
  BY <1>1, <1>2 DEF after

-----------------------------------------------------------------------------
(***************************************************************************)
(* The inductive invariant: the table is sound; its entries name           *)
(* instructions, and these lie in front of pos; and it has every symbol on *)
(* the stack, where the next instruction finds its operands.               *)
(***************************************************************************)
EntriesNameInstructions ==
    \A i \in DOMAIN symbols :
        /\ symbols[i] = [createdAt |-> symbols[i].createdAt, usedAt |-> symbols[i].usedAt]
        /\ symbols[i].createdAt \in DOMAIN instructions

InstructionsBehind ==
    /\ pos \in Nat
    /\ \A o \in DOMAIN instructions : o \in Nat /\ o < pos

StackIsKnown == IsSequence(stack) /\ SymbolsIn(stack) \subseteq DOMAIN symbols

IInv ==
    /\ EntriesNameInstructions
    /\ InstructionsBehind
    /\ StackIsKnown
    /\ SymbolTableIsSound

-----------------------------------------------------------------------------

\* IInv holds at first,
LEMMA InitIInv == Init => IInv
<1> SUFFICES ASSUME Init PROVE IInv
  OBVIOUS
<1>1. /\ DOMAIN instructions = {} /\ DOMAIN symbols = {} /\ stack = <<>> /\ pos = 0
  BY DEF Init, NoEntries
<1>2. SymbolsIn(stack) = {} /\ IsSequence(stack)
  BY <1>1 DEF SymbolsIn, IsSequence
<1> QED
  BY <1>1, <1>2 DEF IInv, EntriesNameInstructions, InstructionsBehind, StackIsKnown,
                    SymbolTableIsSound, SymbolsKnown, SymbolsAcyclic, UsesRecorded

\* What running an instruction on a stack whose symbols the table has does to the
\* instructions and to the table.
LEMMA SimulateFacts ==
    ASSUME IInv, NEW op, NEW entry, NEW args, Simulate(op, entry, args),
           IsSequence(entry), SymbolsIn(entry) \subseteq DOMAIN symbols
    PROVE  \E operands, outputs :
             /\ DOMAIN instructions' = DOMAIN instructions \cup {pos}
             /\ \A o \in DOMAIN instructions : o # pos /\ instructions'[o] = instructions[o]
             /\ instructions'[pos] = [op |-> op, operands |-> operands, outputs |-> outputs]
             /\ SymbolsIn(operands) \subseteq DOMAIN symbols
             /\ IsSequence(outputs)
             /\ symbols' = SymbolsAfter(op, operands, outputs)
             /\ IsSequence(stack')
             /\ SymbolsIn(stack') \subseteq SymbolsIn(entry) \cup SymbolsIn(outputs)
<1> DEFINE operands == Operands(op, entry, args)
           outputs == Simplified(op, operands, FreshOutputs(op, Data, globalIdx))
<1>1. IsSequence(operands) /\ SymbolsIn(operands) \subseteq DOMAIN symbols
  <2>1. IsSequence(operands) /\ SymbolsIn(operands) \subseteq SymbolsIn(entry)
    BY OperandsFromStack
  <2> QED
    BY <2>1
<1>2. /\ instructions' = Store(instructions, pos,
                             [op |-> op, operands |-> operands, outputs |-> outputs])
      /\ symbols' = SymbolsAfter(op, operands, outputs)
      /\ stack' = Pushed(Rest(op, entry), outputs)
  BY DEF Simulate
<1> HIDE DEF operands
<1>3. IsSequence(outputs)
  BY <1>1, SimplifiedIsSequence
<1> HIDE DEF outputs
<1>4. IsSequence(stack') /\ SymbolsIn(stack') \subseteq SymbolsIn(entry) \cup SymbolsIn(outputs)
  BY <1>2, <1>3, PushedFromOutputs
<1>5. \A o \in DOMAIN instructions : o # pos
  BY DEF IInv, InstructionsBehind
<1>6. /\ DOMAIN instructions' = DOMAIN instructions \cup {pos}
      /\ \A o \in DOMAIN instructions : o # pos /\ instructions'[o] = instructions[o]
      /\ instructions'[pos] = [op |-> op, operands |-> operands, outputs |-> outputs]
  BY <1>2, <1>5 DEF Store
<1> QED
  BY <1>1, <1>2, <1>3, <1>4, <1>6

\* The new table: entries of symbols not met before, and longer lists of uses.
LEMMA TableAfter ==
    ASSUME EntriesNameInstructions, NEW op, NEW operands, NEW outputs,
           symbols' = SymbolsAfter(op, operands, outputs)
    PROVE  /\ DOMAIN symbols' = DOMAIN symbols \cup SymbolsIn(outputs)
           /\ \A i \in DOMAIN symbols' : i \notin DOMAIN symbols =>
                 symbols'[i] = [createdAt |-> pos, usedAt |-> {}]
           /\ \A i \in DOMAIN symbols :
                 /\ symbols'[i] = [createdAt |-> symbols[i].createdAt,
                                   usedAt |-> symbols'[i].usedAt]
                 /\ symbols[i].usedAt \subseteq symbols'[i].usedAt
                 /\ i \in Used(op, operands) => pos \in symbols'[i].usedAt
<1>1. Created(outputs) = SymbolsIn(outputs) \ DOMAIN symbols
  BY DEF Created, SymbolsIn
<1> DEFINE new == Created(outputs)
           used == Used(op, operands)
           entryOf(i) == IF i \in new THEN [createdAt |-> pos, usedAt |-> {}]
                         ELSE IF i \in used
                              THEN [symbols[i] EXCEPT !.usedAt = @ \cup {pos}]
                              ELSE symbols[i]
<1>2. symbols' = [i \in DOMAIN symbols \cup new |-> entryOf(i)]
  BY DEF SymbolsAfter
<1> HIDE DEF new, used
<1>3. ASSUME NEW i \in DOMAIN symbols
      PROVE  /\ symbols'[i] = [createdAt |-> symbols[i].createdAt,
                               usedAt |-> symbols'[i].usedAt]
             /\ symbols[i].usedAt \subseteq symbols'[i].usedAt
             /\ i \in used => pos \in symbols'[i].usedAt
  <2>1. i \notin new
    BY <1>1 DEF new
  <2>2. symbols[i] = [createdAt |-> symbols[i].createdAt, usedAt |-> symbols[i].usedAt]
    BY DEF EntriesNameInstructions
  <2>3. CASE i \in used
    <3>1. symbols'[i] = [symbols[i] EXCEPT !.usedAt = @ \cup {pos}]
      BY <1>2, <2>1, <2>3
    <3>2. symbols'[i] = [createdAt |-> symbols[i].createdAt,
                         usedAt |-> symbols[i].usedAt \cup {pos}]
      BY <2>2, <3>1
    <3> QED
      BY <3>2
  <2>4. CASE i \notin used
    BY <1>2, <2>1, <2>2, <2>4
  <2> QED
    BY <2>3, <2>4
<1>4. \A i \in DOMAIN symbols' : i \notin DOMAIN symbols =>
          symbols'[i] = [createdAt |-> pos, usedAt |-> {}]
  BY <1>2
<1>5. DOMAIN symbols' = DOMAIN symbols \cup SymbolsIn(outputs)
  BY <1>1, <1>2 DEF new
<1> QED
  BY <1>3, <1>4, <1>5 DEF used

\* A step of the pass keeps the invariant.
LEMMA SimulateKeeps ==
    ASSUME IInv, NEW op, NEW entry, NEW args, Simulate(op, entry, args),
           IsSequence(entry), SymbolsIn(entry) \subseteq DOMAIN symbols,
           pos' \in Nat, pos < pos'
    PROVE  IInv'
<1> USE DEF IInv
<1>1. PICK operands, outputs :
         /\ DOMAIN instructions' = DOMAIN instructions \cup {pos}
         /\ \A o \in DOMAIN instructions : o # pos /\ instructions'[o] = instructions[o]
         /\ instructions'[pos] = [op |-> op, operands |-> operands, outputs |-> outputs]
         /\ SymbolsIn(operands) \subseteq DOMAIN symbols
         /\ IsSequence(outputs)
         /\ symbols' = SymbolsAfter(op, operands, outputs)
         /\ IsSequence(stack')
         /\ SymbolsIn(stack') \subseteq SymbolsIn(entry) \cup SymbolsIn(outputs)
  BY SimulateFacts
<1>2. /\ instructions'[pos].op = op /\ instructions'[pos].operands = operands
      /\ instructions'[pos].outputs = outputs
  BY <1>1
<1>3. /\ DOMAIN symbols' = DOMAIN symbols \cup SymbolsIn(outputs)
      /\ \A i \in DOMAIN symbols' : i \notin DOMAIN symbols =>
            symbols'[i] = [createdAt |-> pos, usedAt |-> {}]
      /\ \A i \in DOMAIN symbols :
            /\ symbols'[i] = [createdAt |-> symbols[i].createdAt, usedAt |-> symbols'[i].usedAt]
            /\ symbols[i].usedAt \subseteq symbols'[i].usedAt
            /\ i \in Used(op, operands) => pos \in symbols'[i].usedAt
  BY <1>1, TableAfter
<1>4. /\ \A i \in DOMAIN symbols : symbols'[i].createdAt = symbols[i].createdAt
      /\ \A i \in DOMAIN symbols' : i \notin DOMAIN symbols => symbols'[i].createdAt = pos
  BY <1>3
<1>5. \A i \in DOMAIN symbols : symbols[i].createdAt \in DOMAIN instructions
  BY DEF EntriesNameInstructions
<1>6. EntriesNameInstructions'
  <2> SUFFICES ASSUME NEW i \in DOMAIN symbols'
               PROVE  /\ symbols'[i] = [createdAt |-> symbols'[i].createdAt,
                                        usedAt |-> symbols'[i].usedAt]
                      /\ symbols'[i].createdAt \in DOMAIN instructions'
    BY DEF EntriesNameInstructions
  <2> QED
    BY <1>1, <1>3, <1>4, <1>5
<1>7. InstructionsBehind'
  BY <1>1 DEF InstructionsBehind
<1>8. StackIsKnown'
  BY <1>1, <1>3 DEF StackIsKnown
<1>9. SymbolsKnown'
  <2>1. ASSUME NEW o \in DOMAIN instructions'
        PROVE  SymbolsIn(instructions'[o].operands) \cup SymbolsIn(instructions'[o].outputs)
                   \subseteq DOMAIN symbols'
    BY <1>1, <1>2, <1>3 DEF SymbolTableIsSound, SymbolsKnown
  <2>2. ASSUME NEW i \in DOMAIN symbols'
        PROVE  /\ i \in SymbolsIn(instructions'[symbols'[i].createdAt].outputs)
               /\ i \notin SymbolsIn(instructions'[symbols'[i].createdAt].operands)
    <3>1. CASE i \in DOMAIN symbols
      BY <1>1, <1>4, <1>5, <3>1 DEF SymbolTableIsSound, SymbolsKnown
    <3>2. CASE i \notin DOMAIN symbols
      BY <1>1, <1>2, <1>3, <1>4, <3>2
    <3> QED
      BY <3>1, <3>2
  <2> QED
    BY <2>1, <2>2 DEF SymbolsKnown, SymbolsIn
<1>10. SymbolsAcyclic'
  <2> SUFFICES ASSUME NEW i \in DOMAIN symbols',
                      NEW j \in SymbolsIn(instructions'[symbols'[i].createdAt].operands)
               PROVE  symbols'[j].createdAt < symbols'[i].createdAt
    BY DEF SymbolsAcyclic, SymbolsIn
  <2>1. CASE i \in DOMAIN symbols
    <3>1. instructions'[symbols'[i].createdAt] = instructions[symbols[i].createdAt]
      BY <1>1, <1>4, <1>5, <2>1
    <3>2. j \in DOMAIN symbols
      BY <1>5, <2>1, <3>1 DEF SymbolTableIsSound, SymbolsKnown
    <3> QED
      BY <1>4, <2>1, <3>1, <3>2 DEF SymbolTableIsSound, SymbolsAcyclic
  <2>2. CASE i \notin DOMAIN symbols
    <3>1. j \in DOMAIN symbols
      BY <1>1, <1>2, <1>4, <2>2
    <3> QED
      BY <1>4, <1>5, <2>2, <3>1 DEF InstructionsBehind
  <2> QED
    BY <2>1, <2>2
<1>11. UsesRecorded'
  <2> SUFFICES ASSUME NEW o \in DOMAIN instructions',
                      ~IsStackManipulatorOnly(instructions'[o].op),
                      NEW i \in SymbolsIn(instructions'[o].operands)
               PROVE  o \in symbols'[i].usedAt
    BY DEF UsesRecorded, SymbolsIn
  <2>1. CASE o \in DOMAIN instructions
    <3>1. instructions'[o] = instructions[o]
      BY <1>1, <2>1
    <3>2. i \in DOMAIN symbols /\ o \in symbols[i].usedAt
      BY <2>1, <3>1 DEF SymbolTableIsSound, SymbolsKnown, UsesRecorded
    <3> QED
      BY <1>3, <3>2
  <2>2. CASE o = pos
    <3>1. i \in DOMAIN symbols /\ i \in SymbolsIn(operands) /\ ~IsStackManipulatorOnly(op)
      BY <1>1, <1>2, <2>2
    <3>2. i \in Used(op, operands)
      BY <3>1, InSymbols DEF Used
    <3> QED
      BY <1>3, <2>2, <3>1, <3>2
  <2> QED
    BY <1>1, <2>1, <2>2
<1> QED
  BY <1>6, <1>7, <1>8, <1>9, <1>10, <1>11 DEF SymbolTableIsSound

-----------------------------------------------------------------------------

\* and every step of the pass keeps it.
LEMMA NextKeeps == IInv /\ [Next]_fillVars => IInv'
<1> SUFFICES ASSUME IInv, [Next]_fillVars PROVE IInv'
  OBVIOUS
<1>1. Advance => pos' \in Nat /\ pos < pos'
  BY LengthType DEF Advance, IInv, InstructionsBehind
<1>2. CASE AtJumpDest
  <2>1. IsSequence(<<>>) /\ SymbolsIn(<<>>) = {}
    BY DEF IsSequence, SymbolsIn
  <2>2. Simulate(code[pos], <<>>, <<>>)
    BY <1>2 DEF AtJumpDest
  <2> QED
    BY <1>1, <1>2, <2>1, <2>2, SimulateKeeps DEF AtJumpDest
<1>3. IsSequence(stack) /\ SymbolsIn(stack) \subseteq DOMAIN symbols
  BY DEF IInv, StackIsKnown
<1>4. CASE AtInstruction
  <2>1. PICK args : Simulate(code[pos], stack, args)
    BY <1>4 DEF AtInstruction
  <2> QED
    BY <1>1, <1>3, <1>4, <2>1, SimulateKeeps DEF AtInstruction
<1>5. CASE AtEntryInstruction
  <2>1. PICK args : Simulate(code[pos], stack, args)
    BY <1>5 DEF AtEntryInstruction
  <2> QED
    BY <1>1, <1>3, <1>5, <2>1, SimulateKeeps DEF AtEntryInstruction
<1>6. CASE UNCHANGED <<code, pos, instructions, stack, globalIdx, jumpdests, jumpIdx, symbols>>
  BY <1>6 DEF IInv, EntriesNameInstructions, InstructionsBehind, StackIsKnown,
              SymbolTableIsSound, SymbolsKnown, SymbolsAcyclic, UsesRecorded, SymbolsIn,
              IsSequence
<1> QED
  BY <1>2, <1>4, <1>5, <1>6 DEF Next, Trap, Finish, fillVars

\* Wherever the pass stands, the symbol table knows every symbol on the way, traces it
\* back to an instruction that made it from older ones only, and has every use of it.
THEOREM SymbolsAreTraced == Spec => []SymbolTableIsSound
<1>1. IInv => SymbolTableIsSound
  BY DEF IInv
<1> QED
  BY <1>1, InitIInv, NextKeeps, PTL DEF Spec

-----------------------------------------------------------------------------
(***************************************************************************)
(* The stack of the EVM                                                    *)
(***************************************************************************)

\* A sequence has nothing in front of its first element.
LEMMA SubSeqOfNothing ==
    ASSUME NEW S, NEW s \in Seq(S), NEW m \in Int, m <= 0
    PROVE  SubSeq(s, 1, m) = <<>>
<1>1. SubSeq(s, 1, m) \in Seq(S) /\ Len(SubSeq(s, 1, m)) = 0
  OBVIOUS
<1> QED
  BY <1>1

\* With the arguments an instruction misses put below the stack, its operands are the
\* values on top and the rest is what lies below them.
LEMMA WithArgumentsFacts ==
    ASSUME NEW op, NEW entry, IsSequence(entry), NEW taken \in Nat
    PROVE  LET missing == Missing(op, entry)
               args == [k \in 1 .. missing |-> taken + k - 1]
               before == WithArguments(entry, taken, taken + missing)
               n == Len(before)
           IN  /\ IsSequence(before) /\ StackRemoved(op) <= n
               /\ Rest(op, entry) = SubSeq(before, 1, n - StackRemoved(op))
               /\ \A i \in 1 .. StackRemoved(op) :
                     Operands(op, entry, args)[i] = before[n - i + 1]
<1> DEFINE missing == Missing(op, entry)
           args == [k \in 1 .. missing |-> taken + k - 1]
           depth == taken + missing
           low == [k \in 1 .. missing |-> Argument(depth - k)]
           before == low \o entry
           n == Len(before)
           removed == StackRemoved(op)
           e == Len(entry)
<1>1. removed \in Nat
  BY StackRemovedType
<1>2. PICK S : entry \in Seq(S)
  BY DEF IsSequence
<1>3. e \in Nat
  BY <1>2
<1>4. missing \in Nat /\ removed <= missing + e /\ (missing > 0 => missing + e = removed)
  <2>1. missing = IF removed > e THEN removed - e ELSE 0
    BY DEF Missing
  <2> HIDE DEF removed, e, missing
  <2> QED
    BY <1>1, <1>3, <2>1
<1>5. WithArguments(entry, taken, depth) = before
  <2> DEFINE shift == depth - taken
  <2>1. shift = missing
    <3> HIDE DEF missing
    <3> QED
      BY <1>4
  <2>2. WithArguments(entry, taken, depth) = [k \in 1 .. shift |-> Argument(depth - k)] \o entry
    BY DEF WithArguments
  <2> HIDE DEF shift, missing, depth
  <2> QED
    BY <2>1, <2>2
<1>6. IsSequence(low) /\ Len(low) = missing
  <2>1. low = [i \in 1 .. missing |-> low[i]]
    OBVIOUS
  <2> HIDE DEF low, missing
  <2> QED
    BY <1>4, <2>1, IsSequenceOf
<1>7. PICK T : low \in Seq(T)
  BY <1>6 DEF IsSequence
<1>8. /\ before \in Seq(S \cup T) /\ n = missing + e
      /\ \A k \in 1 .. missing : before[k] = low[k]
      /\ \A k \in 1 .. e : before[missing + k] = entry[k]
  <2>1. low \in Seq(S \cup T) /\ entry \in Seq(S \cup T)
    BY <1>2, <1>7
  <2> HIDE DEF low, missing
  <2>2. /\ before \in Seq(S \cup T) /\ Len(before) = missing + e
        /\ \A k \in 1 .. (missing + e) :
              before[k] = IF k <= missing THEN low[k] ELSE entry[k - missing]
    BY <1>6, <2>1
  <2> HIDE DEF before, e
  <2> QED
    BY <1>3, <1>4, <2>2
<1>9. Rest(op, entry) = SubSeq(before, 1, n - removed)
  <2>1. CASE missing = 0
    <3> HIDE DEF low, missing
    <3>1. low = <<>>
      BY <1>6, <1>7, <2>1
    <3>2. before = entry
      BY <1>2, <3>1
    <3> QED
      BY <3>2 DEF Rest
  <2>2. CASE missing > 0
    <3>1. n - removed = 0 /\ e - removed <= 0
      <4> HIDE DEF missing, e, n, removed
      <4> QED
        BY <1>1, <1>3, <1>4, <1>8, <2>2
    <3>2. SubSeq(before, 1, n - removed) = <<>>
      <4> HIDE DEF before, removed, missing
      <4>1. n \in Nat /\ n - removed \in Int /\ n - removed <= 0
        BY <1>1, <1>8, <3>1
      <4> QED
        BY <1>8, <4>1, SubSeqOfNothing
    <3>3. SubSeq(entry, 1, e - removed) = <<>>
      <4> HIDE DEF removed
      <4>1. e - removed \in Int
        BY <1>1, <1>3
      <4> QED
        BY <1>2, <3>1, <4>1, SubSeqOfNothing
    <3> QED
      BY <3>2, <3>3 DEF Rest
  <2> QED
    <3>1. missing = 0 \/ missing > 0
      BY <1>4
    <3> QED
      BY <2>1, <2>2, <3>1
<1>10. ASSUME NEW i \in 1 .. removed
       PROVE  Operands(op, entry, args)[i] = before[n - i + 1]
  <2>1. Operands(op, entry, args)[i] =
            IF i <= e THEN entry[e - i + 1] ELSE Argument(args[i - e])
    BY DEF Operands
  <2>2. CASE i <= e
    <3>1. e - i + 1 \in 1 .. e /\ n - i + 1 = missing + (e - i + 1)
      <4> HIDE DEF missing, e, n, removed
      <4> QED
        BY <1>1, <1>3, <1>4, <1>8, <2>2
    <3> HIDE DEF missing, e, n, before
    <3> QED
      BY <1>8, <2>1, <2>2, <3>1
  <2>3. CASE i > e
    <3>1. /\ i - e \in 1 .. missing /\ n - i + 1 \in 1 .. missing
          /\ depth - (n - i + 1) = taken + (i - e) - 1
          /\ ~(i <= e)
      <4> HIDE DEF missing, e, n, removed
      <4> QED
        BY <1>1, <1>3, <1>4, <1>8, <2>3
    <3>2. low[n - i + 1] = Argument(depth - (n - i + 1))
      BY <3>1
    <3>3. args[i - e] = taken + (i - e) - 1
      BY <3>1
    <3> HIDE DEF missing, e, n, before, args, low
    <3> QED
      BY <1>8, <2>1, <3>1, <3>2, <3>3
  <2> QED
    <3>1. i <= e \/ i > e
      BY <1>1, <1>3
    <3> QED
      BY <2>2, <2>3, <3>1
<1>11. IsSequence(before) /\ removed <= n
  BY <1>4, <1>8 DEF IsSequence
<1> QED
  BY <1>5, <1>9, <1>10, <1>11

\* simplify makes as many outputs as the opcode adds.
LEMMA FoldedAddsOne ==
    ASSUME NEW op, NEW operands, Folds(op, operands), ~IsDup(op), ~IsSwap(op)
    PROVE  StackAdded(op) = 1
<1>1. op \in (1 .. 7) \cup (16 .. 25)
  BY DEF Folds, HasLogic, OP_ADD, OP_MUL, OP_SUB, OP_DIV, OP_SDIV, OP_MOD, OP_LT, OP_GT,
         OP_EQ, OP_ISZERO, OP_AND, OP_XOR, OP_NOT
<1> QED
  BY <1>1 DEF StackAdded

\* An opcode that is neither a DUP nor a SWAP leaves as many values as the table says.
LEMMA OtherOutputs ==
    ASSUME NEW op, NEW operands, NEW value, NEW first, IsSequence(operands),
           ~IsDup(op), ~IsSwap(op)
    PROVE  Len(Simplified(op, operands, FreshOutputs(op, value, first))) = StackAdded(op)
<1> DEFINE fresh == FreshOutputs(op, value, first)
           n == StackAdded(op)
<1>1. CASE Folds(op, operands)
  <2> DEFINE folded == Constant(fresh[1].idx, Result(op, Values(operands)))
  <2>1. Simplified(op, operands, fresh) = <<folded>>
    BY <1>1 DEF Simplified
  <2> QED
    BY <1>1, <2>1, FoldedAddsOne
<1>2. CASE ~Folds(op, operands)
  <2>1. n \in Nat
    BY StackAddedType
  <2>2. fresh = [i \in 1 .. n |-> fresh[i]]
    BY DEF FreshOutputs
  <2>3. Len(fresh) = n
    <3> HIDE DEF fresh, n
    <3> QED
      BY <2>1, <2>2, IsSequenceOf
  <2> QED
    BY <1>2, <2>3 DEF Simplified
<1> QED
  BY <1>1, <1>2

\* after is before with its r topmost values, the operands, replaced by outputs.
Replaces(before, after, m, r, operands, outputs) ==
    /\ IsSequence(before) /\ Len(before) = m + r
    /\ IsSequence(operands) /\ Len(operands) = r
    /\ \A i \in 1 .. r : operands[i] = before[m + r - i + 1]
    /\ IsSequence(after) /\ Len(after) = m + Len(outputs)
    /\ \A k \in 1 .. m : after[k] = before[k]
    /\ \A k \in 1 .. Len(outputs) : after[m + k] = outputs[Len(outputs) - k + 1]

\* A DUP of the value at m + 1.
LEMMA DupMoves ==
    ASSUME NEW before, NEW after, NEW operands, NEW m \in Nat, NEW r \in Nat, r > 0,
           Replaces(before, after, m, r, operands, DupOutputs(operands))
    PROVE  after = Append(before, before[m + 1])
<1> DEFINE outputs == DupOutputs(operands)
           copied == Append(before, before[m + 1])
<1> USE DEF Replaces
<1>1. PICK S : before \in Seq(S)
  BY DEF IsSequence
<1>2. PICK T : after \in Seq(T)
  BY DEF IsSequence
<1>3. PICK U : operands \in Seq(U)
  BY DEF IsSequence
<1>4. /\ Len(outputs) = r + 1 /\ outputs[1] = operands[r]
      /\ \A k \in 1 .. r : outputs[k + 1] = operands[k]
  <2>1. <<operands[r]>> \in Seq(U \cup {operands[r]}) /\ operands \in Seq(U \cup {operands[r]})
    BY <1>3
  <2>2. outputs = <<operands[r]>> \o operands
    BY DEF DupOutputs
  <2> HIDE DEF outputs
  <2> QED
    BY <2>1, <2>2
<1>5. operands[r] = before[m + 1]
  <2>1. m + r - r + 1 = m + 1 /\ r \in 1 .. r
    OBVIOUS
  <2> QED
    BY <2>1
<1>6. /\ copied \in Seq(S \cup {before[m + 1]}) /\ Len(copied) = m + r + 1
      /\ copied[m + r + 1] = before[m + 1]
      /\ \A k \in 1 .. (m + r) : copied[k] = before[k]
  <2>1. before \in Seq(S \cup {before[m + 1]})
    BY <1>1
  <2> QED
    BY <2>1
<1> HIDE DEF outputs, copied
<1>7. Len(after) = m + r + 1
  BY <1>4 DEF outputs
<1>8. ASSUME NEW k \in 1 .. (m + r + 1)
      PROVE  after[k] = copied[k]
  <2>1. CASE k <= m
    BY <1>6, <2>1
  <2>2. CASE m < k /\ k <= m + r
    <3> DEFINE j == m + r - k + 1
    <3>1. /\ k - m \in 1 .. (r + 1) /\ m + (k - m) = k
          /\ r + 1 - (k - m) + 1 = j + 1 /\ j \in 1 .. r
          /\ m + r - j + 1 = k /\ k \in 1 .. (m + r)
      BY <2>2
    <3> HIDE DEF j
    <3>2. after[k] = outputs[j + 1]
      <4>1. after[m + (k - m)] = outputs[Len(outputs) - (k - m) + 1]
        BY <1>4, <3>1 DEF outputs
      <4> QED
        BY <1>4, <3>1, <4>1
    <3>3. outputs[j + 1] = before[k]
      BY <1>4, <3>1
    <3> QED
      BY <1>6, <3>1, <3>2, <3>3
  <2>3. CASE k = m + r + 1
    <3>1. k - m \in 1 .. (r + 1) /\ m + (k - m) = k /\ r + 1 - (k - m) + 1 = 1
      BY <2>3
    <3>2. after[k] = outputs[1]
      <4>1. after[m + (k - m)] = outputs[Len(outputs) - (k - m) + 1]
        BY <1>4, <3>1 DEF outputs
      <4>2. Len(outputs) - (k - m) + 1 = 1
        BY <1>4, <3>1
      <4> QED
        BY <3>1, <4>1, <4>2
    <3> QED
      BY <1>4, <1>5, <1>6, <2>3, <3>2
  <2> QED
    BY <2>1, <2>2, <2>3
<1>9. after = copied
  BY <1>2, <1>6, <1>7, <1>8, SameSequence
<1> QED
  BY <1>9 DEF copied

\* s with the values at i and j exchanged.
Exchanged(s, i, j) == [s EXCEPT ![i] = s[j], ![j] = s[i]]

\* A SWAP with the value at m + 1.
LEMMA SwapMoves ==
    ASSUME NEW before, NEW after, NEW operands, NEW m \in Nat, NEW r \in Nat, r > 1,
           Replaces(before, after, m, r, operands, SwapOutputs(operands))
    PROVE  after = Exchanged(before, m + r, m + 1)
<1> DEFINE outputs == SwapOutputs(operands)
           swapped == Exchanged(before, m + r, m + 1)
<1> USE DEF Replaces
<1>1. PICK S : before \in Seq(S)
  BY DEF IsSequence
<1>2. PICK T : after \in Seq(T)
  BY DEF IsSequence
<1>3. /\ IsSequence(outputs) /\ Len(outputs) = r
      /\ outputs[1] = operands[r] /\ outputs[r] = operands[1]
      /\ \A k \in 2 .. (r - 1) : outputs[k] = operands[k]
  <2>1. outputs = [i \in 1 .. r |-> operands[IF i = 1 THEN r ELSE IF i = r THEN 1 ELSE i]]
    BY DEF SwapOutputs
  <2> HIDE DEF outputs
  <2>2. outputs = [i \in 1 .. r |-> outputs[i]]
    BY <2>1
  <2>3. IsSequence(outputs) /\ Len(outputs) = r
    BY <2>2, IsSequenceOf
  <2> QED
    BY <2>1, <2>3
<1>4. /\ swapped \in Seq(S) /\ Len(swapped) = m + r
      /\ swapped[m + r] = before[m + 1] /\ swapped[m + 1] = before[m + r]
      /\ \A k \in 1 .. (m + r) : k # m + r /\ k # m + 1 => swapped[k] = before[k]
  BY <1>1 DEF Exchanged
<1>5. operands[r] = before[m + 1] /\ operands[1] = before[m + r]
  <2>1. m + r - r + 1 = m + 1 /\ m + r - 1 + 1 = m + r /\ r \in 1 .. r /\ 1 \in 1 .. r
    OBVIOUS
  <2> QED
    BY <2>1
<1> HIDE DEF outputs, swapped
<1>6. Len(after) = m + r
  BY <1>3 DEF outputs
<1>7. ASSUME NEW k \in 1 .. (m + r)
      PROVE  after[k] = swapped[k]
  <2>1. CASE k <= m
    BY <1>4, <2>1
  <2>2. CASE m < k
    <3> DEFINE j == m + r - k + 1
    <3>1. /\ k - m \in 1 .. r /\ m + (k - m) = k /\ r - (k - m) + 1 = j
          /\ j \in 1 .. r /\ m + r - j + 1 = k
          /\ (j = 1 <=> k = m + r) /\ (j = r <=> k = m + 1)
          /\ (j # 1 /\ j # r => j \in 2 .. (r - 1))
      BY <2>2
    <3> HIDE DEF j
    <3>2. after[k] = outputs[j]
      BY <1>3, <3>1 DEF outputs
    <3>3. operands[j] = before[k]
      BY <3>1
    <3>4. CASE j = 1
      BY <1>3, <1>4, <1>5, <3>1, <3>2, <3>4
    <3>5. CASE j = r
      BY <1>3, <1>4, <1>5, <3>1, <3>2, <3>5
    <3>6. CASE j # 1 /\ j # r
      BY <1>3, <1>4, <3>1, <3>2, <3>3, <3>6
    <3> QED
      BY <3>4, <3>5, <3>6
  <2> QED
    BY <2>1, <2>2
<1>8. after = swapped
  BY <1>2, <1>4, <1>6, <1>7, SameSequence
<1> QED
  BY <1>8 DEF swapped

\* Any other instruction drops its operands and pushes what it computes.
LEMMA OtherMoves ==
    ASSUME NEW before, NEW after, NEW operands, NEW outputs, NEW m \in Nat, NEW r \in Nat,
           Replaces(before, after, m, r, operands, outputs), IsSequence(outputs)
    PROVE  /\ SubSeq(after, 1, m) = SubSeq(before, 1, m)
           /\ \A k \in 1 .. Len(outputs) : after[Len(after) - k + 1] = outputs[k]
<1> USE DEF Replaces
<1>1. PICK S : before \in Seq(S)
  BY DEF IsSequence
<1>2. PICK T : after \in Seq(T)
  BY DEF IsSequence
<1>3. Len(outputs) \in Nat
  BY DEF IsSequence
<1>4. SubSeq(after, 1, m) = SubSeq(before, 1, m)
  <2> DEFINE a == SubSeq(after, 1, m)
             b == SubSeq(before, 1, m)
  <2>1. /\ a \in Seq(S \cup T) /\ Len(a) = m /\ \A k \in 1 .. m : a[k] = after[k]
    BY <1>2, <1>3
  <2>2. /\ b \in Seq(S \cup T) /\ Len(b) = m /\ \A k \in 1 .. m : b[k] = before[k]
    BY <1>1
  <2> HIDE DEF a, b
  <2> QED
    <3>1. a = b
      BY <2>1, <2>2, SeqEqual
    <3> QED
      BY <3>1 DEF a, b
<1>5. ASSUME NEW k \in 1 .. Len(outputs)
      PROVE  after[Len(after) - k + 1] = outputs[k]
  <2> DEFINE j == Len(outputs) - k + 1
  <2>1. /\ j \in 1 .. Len(outputs) /\ Len(outputs) - j + 1 = k /\ m + j = Len(after) - k + 1
    BY <1>3
  <2> HIDE DEF j
  <2> QED
    BY <2>1
<1> QED
  BY <1>4, <1>5

\* Running an instruction whose operands are the values on top of a stack replaces
\* these by its outputs ...
LEMMA PushedReplaces ==
    ASSUME NEW before, IsSequence(before), NEW m \in Nat, NEW r \in Nat, Len(before) = m + r,
           NEW operands, IsSequence(operands), Len(operands) = r,
           \A i \in 1 .. r : operands[i] = before[m + r - i + 1],
           NEW outputs, IsSequence(outputs),
           NEW after, after = Pushed(SubSeq(before, 1, m), outputs)
    PROVE  Replaces(before, after, m, r, operands, outputs)
<1> DEFINE n == Len(outputs)
           top == [i \in 1 .. n |-> outputs[n - i + 1]]
           rest == SubSeq(before, 1, m)
<1>1. PICK S : before \in Seq(S)
  BY DEF IsSequence
<1>2. n \in Nat
  BY DEF IsSequence
<1>3. IsSequence(top) /\ Len(top) = n
  <2>1. top = [i \in 1 .. n |-> top[i]]
    OBVIOUS
  <2> HIDE DEF top, n
  <2> QED
    BY <1>2, <2>1, IsSequenceOf
<1>4. PICK T : top \in Seq(T)
  BY <1>3 DEF IsSequence
<1>5. rest \in Seq(S) /\ Len(rest) = m /\ \A k \in 1 .. m : rest[k] = before[k]
  BY <1>1
<1>6. after = rest \o top
  BY DEF Pushed
<1>7. /\ after \in Seq(S \cup T) /\ Len(after) = m + n
      /\ \A k \in 1 .. (m + n) : after[k] = IF k <= m THEN rest[k] ELSE top[k - m]
  <2> DEFINE whole == rest \o top
  <2> HIDE DEF top, rest, n
  <2>1. rest \in Seq(S \cup T) /\ top \in Seq(S \cup T)
    BY <1>4, <1>5
  <2>2. /\ whole \in Seq(S \cup T) /\ Len(whole) = m + n
        /\ \A k \in 1 .. (m + n) : whole[k] = IF k <= m THEN rest[k] ELSE top[k - m]
    BY <1>2, <1>3, <1>5, <2>1
  <2> HIDE DEF whole
  <2> QED
    BY <1>6, <2>2 DEF whole
<1>8. /\ \A k \in 1 .. m : after[k] = before[k]
      /\ \A k \in 1 .. n : after[m + k] = top[k]
  <2> HIDE DEF top, rest, n
  <2> QED
    BY <1>2, <1>5, <1>7
<1>9. \A k \in 1 .. n : top[k] = outputs[n - k + 1]
  OBVIOUS
<1>10. IsSequence(after)
  BY <1>7 DEF IsSequence
<1>11. /\ IsSequence(after) /\ Len(after) = m + n
       /\ \A k \in 1 .. m : after[k] = before[k]
       /\ \A k \in 1 .. n : after[m + k] = outputs[n - k + 1]
  <2> HIDE DEF top, n
  <2> QED
    BY <1>7, <1>8, <1>9, <1>10
<1> QED
  BY <1>11 DEF Replaces

\* What a DUP takes.
LEMMA DupRemoves ==
    ASSUME NEW op, IsDup(op)
    PROVE  op \in 128 .. 143 /\ ~IsSwap(op) /\ StackRemoved(op) = op - OP_DUP1 + 1
<1>1. op \in 128 .. 143
  BY DEF IsDup, OP_DUP1, OP_DUP16
<1>2. ~IsSwap(op)
  BY <1>1 DEF IsSwap, OP_SWAP1, OP_SWAP16
<1>3. StackRemoved(op) = op - OP_DUP1 + 1
  BY <1>1, <1>2, SMT DEF StackRemoved
<1> QED
  BY <1>1, <1>2, <1>3

\* What a SWAP takes.
LEMMA SwapRemoves ==
    ASSUME NEW op, IsSwap(op)
    PROVE  op \in 144 .. 159 /\ StackRemoved(op) = op - OP_SWAP1 + 2
<1>1. op \in 144 .. 159
  BY DEF IsSwap, OP_SWAP1, OP_SWAP16
<1>2. ~IsDup(op)
  BY <1>1 DEF IsDup, OP_DUP1, OP_DUP16
<1>3. StackRemoved(op) = op - OP_SWAP1 + 2
  BY <1>1, <1>2, SMT DEF StackRemoved
<1> QED
  BY <1>1, <1>3

\* ... and that is what the EVM does.
LEMMA ReplacedMovesStack ==
    ASSUME NEW op, NEW before, NEW after, NEW operands, NEW outputs,
           NEW m \in Nat, NEW r \in Nat, r = StackRemoved(op), NEW value, NEW first,
           Replaces(before, after, m, r, operands, outputs),
           outputs = Simplified(op, operands, FreshOutputs(op, value, first))
    PROVE  MovesStack(op, before, after, outputs)
<1>1. Len(before) = m + r /\ IsSequence(operands) /\ Len(after) = m + Len(outputs)
  BY DEF Replaces
<1>2. CASE IsDup(op)
  <2>1. op \in 128 .. 143 /\ ~IsSwap(op) /\ r = op - OP_DUP1 + 1
    BY <1>2, DupRemoves
  <2>2. r > 0 /\ m + 1 = Len(before) - (op - OP_DUP1)
    BY <1>1, <2>1 DEF OP_DUP1
  <2>3. outputs = DupOutputs(operands)
    BY <1>2 DEF Simplified
  <2>4. Replaces(before, after, m, r, operands, DupOutputs(operands))
    BY <2>3
  <2>5. after = Append(before, before[m + 1])
    BY <2>2, <2>4, DupMoves
  <2>6. after = Append(before, before[Len(before) - (op - OP_DUP1)])
    BY <2>2, <2>5
  <2> QED
    BY <1>2, <2>1, <2>6, Zenon DEF MovesStack
<1>3. CASE ~IsDup(op) /\ IsSwap(op)
  <2>1. op \in 144 .. 159 /\ r = op - OP_SWAP1 + 2
    BY <1>3, SwapRemoves
  <2>2. r > 1 /\ m + 1 = Len(before) - (op - OP_SWAP1) - 1
    BY <1>1, <2>1 DEF OP_SWAP1
  <2>3. outputs = SwapOutputs(operands)
    BY <1>3 DEF Simplified
  <2>4. Replaces(before, after, m, r, operands, SwapOutputs(operands))
    BY <2>3
  <2>5. after = Exchanged(before, m + r, m + 1)
    BY <2>2, <2>4, SwapMoves
  <2>6. after = Exchanged(before, Len(before), Len(before) - (op - OP_SWAP1) - 1)
    BY <1>1, <2>2, <2>5
  <2> QED
    BY <1>3, <2>6, Zenon DEF MovesStack, Exchanged
<1>4. CASE ~IsDup(op) /\ ~IsSwap(op)
  <2>1. Len(outputs) = StackAdded(op)
    BY <1>1, <1>4, OtherOutputs
  <2>2. IsSequence(outputs)
    BY <1>1, SimplifiedIsSequence
  <2>3. /\ SubSeq(after, 1, m) = SubSeq(before, 1, m)
        /\ \A k \in 1 .. Len(outputs) : after[Len(after) - k + 1] = outputs[k]
    BY <2>2, OtherMoves
  <2>4. m = Len(before) - StackRemoved(op)
    BY <1>1
  <2>5. LET n == Len(before)
        IN  /\ SubSeq(after, 1, n - StackRemoved(op)) = SubSeq(before, 1, n - StackRemoved(op))
            /\ Len(after) = n - StackRemoved(op) + StackAdded(op)
            /\ \A k \in 1 .. StackAdded(op) : after[Len(after) - k + 1] = outputs[k]
    BY <1>1, <2>1, <2>3, <2>4
  <2> QED
    BY <1>4, <2>5, Zenon DEF MovesStack
<1> QED
  BY <1>2, <1>3, <1>4

-----------------------------------------------------------------------------

\* Behind a JUMPDEST the arguments taken since are counted.
ArgumentsCounted ==
    jumpIdx # NoJumpDest => jumpIdx \in DOMAIN jumpdests /\ jumpdests[jumpIdx] \in Nat

\* How many arguments an instruction misses is a number.
LEMMA MissingType ==
    ASSUME NEW op, NEW entry, IsSequence(entry) PROVE Missing(op, entry) \in Nat
<1>1. StackRemoved(op) \in Nat /\ Len(entry) \in Nat
  BY StackRemovedType DEF IsSequence
<1> QED
  BY <1>1 DEF Missing

\* Every step keeps the count of arguments right.
LEMMA CountKept == IInv /\ ArgumentsCounted /\ [Next]_fillVars => ArgumentsCounted'
<1> SUFFICES ASSUME IInv, ArgumentsCounted, [Next]_fillVars PROVE ArgumentsCounted'
  OBVIOUS
<1>1. CASE AtJumpDest
  BY <1>1 DEF AtJumpDest, ArgumentsCounted, Store
<1>2. CASE AtInstruction
  <2>1. PICK missing \in Nat : missing = Missing(code[pos], stack)
    BY MissingType DEF IInv, StackIsKnown
  <2>2. /\ jumpIdx # NoJumpDest /\ jumpIdx' = jumpIdx
        /\ jumpdests' = [jumpdests EXCEPT ![jumpIdx] = @ + missing]
    BY <1>2, <2>1 DEF AtInstruction
  <2> QED
    BY <2>2 DEF ArgumentsCounted
<1>3. CASE UNCHANGED <<jumpdests, jumpIdx>>
  BY <1>3 DEF ArgumentsCounted
<1> QED
  BY <1>1, <1>2, <1>3 DEF Next, AtEntryInstruction, Trap, Finish, fillVars

\* What SimulatesStack says of one step.
Simulates ==
    \A o \in DOMAIN instructions' \ DOMAIN instructions :
        (jumpIdx # NoJumpDest /\ code[o] # OP_JUMPDEST) =>
           LET depth  == jumpdests'[jumpIdx]
               before == WithArguments(stack, jumpdests[jumpIdx], depth)
               inst   == instructions'[o]
           IN  /\ MovesStack(code[o], before, stack', inst.outputs)
               /\ \A k \in 1 .. Len(inst.operands) :
                      inst.operands[k] = before[Len(before) - k + 1]

\* A step is one of the EVM, as SimulatesStack says.
LEMMA StepSimulates == IInv /\ ArgumentsCounted /\ [Next]_fillVars => Simulates
<1> SUFFICES ASSUME IInv, ArgumentsCounted, [Next]_fillVars,
                    NEW o \in DOMAIN instructions' \ DOMAIN instructions,
                    jumpIdx # NoJumpDest, code[o] # OP_JUMPDEST
             PROVE  LET depth  == jumpdests'[jumpIdx]
                        before == WithArguments(stack, jumpdests[jumpIdx], depth)
                        inst   == instructions'[o]
                    IN  /\ MovesStack(code[o], before, stack', inst.outputs)
                        /\ \A k \in 1 .. Len(inst.operands) :
                               inst.operands[k] = before[Len(before) - k + 1]
  BY DEF Simulates
<1>1. AtInstruction /\ o = pos
  <2>1. ASSUME NEW op, NEW entry, NEW args, Simulate(op, entry, args)
        PROVE  o = pos
    BY <2>1 DEF Simulate, Store
  <2>2. ~AtJumpDest
    BY <2>1 DEF AtJumpDest
  <2> QED
    BY <2>1, <2>2 DEF Next, AtInstruction, AtEntryInstruction, Trap, Finish, fillVars
<1>2. PICK op : op = code[pos]
  OBVIOUS
<1>3. PICK taken \in Nat : taken = jumpdests[jumpIdx]
  BY DEF ArgumentsCounted
<1>4. IsSequence(stack)
  BY DEF IInv, StackIsKnown
<1>5. PICK missing \in Nat : missing = Missing(op, stack)
  BY <1>4, MissingType
<1>6. PICK args : args = [k \in 1 .. missing |-> taken + k - 1]
  OBVIOUS
<1>7. PICK operands : operands = Operands(op, stack, args)
  OBVIOUS
<1>8. PICK outputs : outputs = Simplified(op, operands, FreshOutputs(op, Data, globalIdx))
  OBVIOUS
<1>9. PICK before : before = WithArguments(stack, taken, taken + missing)
  OBVIOUS
<1>10. /\ Simulate(op, stack, args)
       /\ jumpdests'[jumpIdx] = taken + missing
  <2>1. /\ Simulate(op, stack, args)
        /\ jumpdests' = [jumpdests EXCEPT ![jumpIdx] = @ + missing]
    BY <1>1, <1>2, <1>3, <1>5, <1>6 DEF AtInstruction
  <2> QED
    BY <1>3, <2>1 DEF ArgumentsCounted
<1>11. /\ stack' = Pushed(Rest(op, stack), outputs)
       /\ instructions'[pos].outputs = outputs
       /\ instructions'[pos].operands = operands
  BY <1>7, <1>8, <1>10 DEF Simulate, Store
<1>12. /\ IsSequence(before) /\ StackRemoved(op) <= Len(before)
       /\ Rest(op, stack) = SubSeq(before, 1, Len(before) - StackRemoved(op))
       /\ \A i \in 1 .. StackRemoved(op) : operands[i] = before[Len(before) - i + 1]
  <2> DEFINE missed == Missing(op, stack)
             arguments == [k \in 1 .. missed |-> taken + k - 1]
             below == WithArguments(stack, taken, taken + missed)
  <2>1. /\ IsSequence(below) /\ StackRemoved(op) <= Len(below)
        /\ Rest(op, stack) = SubSeq(below, 1, Len(below) - StackRemoved(op))
        /\ \A i \in 1 .. StackRemoved(op) :
              Operands(op, stack, arguments)[i] = below[Len(below) - i + 1]
    BY <1>4, WithArgumentsFacts, Zenon
  <2>2. missed = missing /\ arguments = args /\ below = before
    BY <1>5, <1>6, <1>9
  <2> HIDE DEF missed, arguments, below
  <2> QED
    BY <1>7, <2>1, <2>2
<1>13. IsSequence(operands) /\ Len(operands) = StackRemoved(op)
  BY <1>4, <1>7, OperandsFromStack
<1>14. MovesStack(op, before, stack', outputs)
  <2>1. PICK r \in Nat : r = StackRemoved(op)
    BY StackRemovedType
  <2>2. PICK m \in Nat : m = Len(before) - r
    <3>1. Len(before) - r \in Nat
      BY <1>12, <2>1 DEF IsSequence
    <3> QED
      BY <3>1
  <2>3. Len(before) = m + r
    BY <1>12, <2>1, <2>2 DEF IsSequence
  <2>4. IsSequence(outputs)
    BY <1>8, <1>13, SimplifiedIsSequence
  <2>5. stack' = Pushed(SubSeq(before, 1, m), outputs)
    BY <1>11, <1>12, <2>1, <2>2
  <2>6. \A i \in 1 .. r : operands[i] = before[m + r - i + 1]
    BY <1>12, <2>1, <2>3
  <2>7. Replaces(before, stack', m, r, operands, outputs)
    BY <1>12, <1>13, <2>1, <2>3, <2>4, <2>5, <2>6, PushedReplaces
  <2> QED
    BY <1>8, <2>1, <2>7, ReplacedMovesStack
<1> QED
  BY <1>1, <1>2, <1>3, <1>9, <1>10, <1>11, <1>12, <1>13, <1>14

\* Behind a JUMPDEST the symbolic stack moves as the stack of the EVM does, whatever the
\* code, and what is recorded as an instruction's operands is on top of it.
THEOREM StackIsSimulated == Spec => SimulatesStack
<1>1. Init => ArgumentsCounted
  BY DEF Init, ArgumentsCounted
<1>2. IInv /\ ArgumentsCounted /\ [Next]_fillVars => [Simulates]_fillVars
  BY StepSimulates
<1>3. Spec => [][Simulates]_fillVars
  BY <1>1, <1>2, InitIInv, NextKeeps, CountKept, PTL DEF Spec
<1> QED
  BY <1>3 DEF SimulatesStack, Simulates

-----------------------------------------------------------------------------
(***************************************************************************)
(* The foldings of the pass: a folded instruction has its operands all     *)
(* read, no division in it traps, and its output is the Result.  Constants *)
(* are strings of bytes, on the stack where the next instruction finds     *)
(* them too.                                                               *)
(***************************************************************************)
HoldsBytes(exprs) ==
    \A k \in 1 .. Len(exprs) : exprs[k].kind = "constant" => exprs[k].value \in Seq(Byte)

Solved(inst) ==
    /\ inst.op \in HasLogic
    /\ Len(inst.operands) = StackRemoved(inst.op)
    /\ AllReadable(inst.operands)
    /\ HoldsBytes(inst.operands)
    /\ ~Traps(inst.op, Values(inst.operands))
    /\ inst.outputs[1].value = Result(inst.op, Values(inst.operands))

\* An instruction has the operands its opcode takes, the constants among them bytes.
TakesBytes(inst) == Len(inst.operands) = StackRemoved(inst.op) /\ HoldsBytes(inst.operands)

FoldingsAreSolved ==
    /\ IsByteString(code)
    /\ HoldsBytes(stack)
    /\ \A o \in DOMAIN instructions : TakesBytes(instructions[o])
    /\ \A o \in DOMAIN instructions : Folded(instructions[o]) => Solved(instructions[o])

\* What OpCodes says of the opcodes Solve has a case for.
LEMMA LogicRemoves ==
    ASSUME NEW op \in HasLogic
    PROVE  StackRemoved(op) = IF op \in {OP_ISZERO, OP_NOT} THEN 1 ELSE 2
<1>1. op \in {1, 2, 3, 4, 5, 6, 16, 17, 20, 21, 22, 24, 25}
  BY DEF HasLogic, OP_ADD, OP_MUL, OP_SUB, OP_DIV, OP_SDIV, OP_MOD, OP_LT, OP_GT, OP_EQ,
         OP_ISZERO, OP_AND, OP_XOR, OP_NOT
<1>2. ~IsDup(op) /\ ~IsSwap(op)
  BY <1>1 DEF IsDup, IsSwap, OP_DUP1, OP_DUP16, OP_SWAP1, OP_SWAP16
<1> QED
  BY <1>1, <1>2, SMT DEF StackRemoved, OP_ISZERO, OP_NOT

\* The operands that are read are numbers, each with the bits of its word.
LEMMA ValuesAreNumbers ==
    ASSUME NEW operands, AllReadable(operands), HoldsBytes(operands), NEW k \in 1 .. Len(operands)
    PROVE  LET u == WordOf(operands[k].value)
           IN  /\ u \in Nat /\ u < Modulus
               /\ Values(operands)[k] = Signed(u)
               /\ WordsOf(operands)[k] = u
<1>1. PICK v \in Seq(Byte) : v = operands[k].value
  BY DEF AllReadable, HoldsBytes
<1>2. Len(v) <= WordBytes
  BY <1>1 DEF AllReadable, IsReadable
<1>3. WordOf(v) \in Nat /\ WordOf(v) < PowerOf256[Len(v)]
  BY WordBounded
<1>4. PowerOf256[Len(v)] <= Modulus /\ PowerOf256[Len(v)] \in Nat /\ Modulus \in Nat
  <2>1. Len(v) \in 0 .. WordBytes /\ Len(v) \in Nat /\ WordBytes \in Nat
    BY <1>2, WidthAssumption
  <2> QED
    BY <2>1, PowersGrow, PowersOf256 DEF Modulus
<1>5. Values(operands)[k] = Signed(WordOf(v)) /\ WordsOf(operands)[k] = WordOf(v)
  BY <1>1 DEF Values, WordsOf, GetInt64FromVec
<1> QED
  BY <1>1, <1>3, <1>4, <1>5

\* Readable operands can be computed with.
LEMMA ReadableInput ==
    ASSUME NEW op \in HasLogic, NEW operands, Len(operands) = StackRemoved(op),
           AllReadable(operands), HoldsBytes(operands)
    PROVE  IsInput(op, Values(operands))
<1>1. 1 \in 1 .. Len(operands) /\ (op \notin {OP_ISZERO, OP_NOT} => 2 \in 1 .. Len(operands))
  BY LogicRemoves
<1>2. ASSUME NEW k \in 1 .. Len(operands) PROVE Values(operands)[k] \in Int
  BY ValuesAreNumbers, SignedFacts
<1> QED
  BY <1>1, <1>2 DEF IsInput

\* simplify keeps constants strings of bytes ...
LEMMA SimplifiedHoldsBytes ==
    ASSUME NEW op, NEW operands, IsSequence(operands), Len(operands) = StackRemoved(op),
           HoldsBytes(operands), Folds(op, operands) => ~Traps(op, Values(operands)),
           NEW value, IsPush(op) => value \in Seq(Byte), NEW first
    PROVE  HoldsBytes(Simplified(op, operands, FreshOutputs(op, value, first)))
<1> DEFINE fresh == FreshOutputs(op, value, first)
<1>1. Len(operands) \in Nat
  BY DEF IsSequence
<1>2. CASE IsDup(op)
  <2>1. PICK S : operands \in Seq(S)
    BY DEF IsSequence
  <2>2. PICK e : e = operands[Len(operands)]
    OBVIOUS
  <2>3. PICK outputs : outputs = <<e>> \o operands
    OBVIOUS
  <2>4. /\ Len(outputs) = 1 + Len(operands)
        /\ \A k \in 1 .. Len(outputs) : outputs[k] = IF k = 1 THEN e ELSE operands[k - 1]
    <3>1. <<e>> \in Seq(S \cup {e}) /\ operands \in Seq(S \cup {e}) /\ Len(<<e>>) = 1 /\ <<e>>[1] = e
      BY <2>1
    <3> QED
      BY <2>3, <3>1
  <2>5. IsDup(op) => Len(operands) \in 1 .. Len(operands)
    BY <1>1, DupRemoves DEF OP_DUP1
  <2>6. HoldsBytes(outputs)
    <3>1. ASSUME NEW k \in 1 .. Len(outputs), outputs[k].kind = "constant"
          PROVE  outputs[k].value \in Seq(Byte)
      <4>1. \E j \in 1 .. Len(operands) : outputs[k] = operands[j]
        <5>1. CASE k = 1
          BY <1>2, <2>2, <2>4, <2>5, <5>1
        <5>2. CASE k # 1
          <6>1. k - 1 \in 1 .. Len(operands) /\ outputs[k] = operands[k - 1]
            BY <1>1, <2>4, <5>2
          <6> QED
            BY <6>1
        <5> QED
          BY <5>1, <5>2
      <4> QED
        BY <3>1, <4>1 DEF HoldsBytes
    <3> QED
      BY <3>1 DEF HoldsBytes
  <2> QED
    BY <1>2, <2>2, <2>3, <2>6 DEF Simplified, DupOutputs
<1>3. CASE ~IsDup(op) /\ IsSwap(op)
  <2> DEFINE outputs == SwapOutputs(operands)
             n == Len(operands)
  <2>1. n > 1
    BY <1>3, SwapRemoves DEF OP_SWAP1
  <2>2. Len(outputs) = n /\ \A k \in 1 .. n : \E j \in 1 .. n : outputs[k] = operands[j]
    <3>1. outputs = [i \in 1 .. n |-> outputs[i]]
      BY DEF SwapOutputs
    <3>2. Len(outputs) = n
      <4> HIDE DEF outputs, n
      <4>1. n \in Nat
        BY <1>1 DEF n
      <4> QED
        BY <3>1, <4>1, IsSequenceOf
    <3>3. \A k \in 1 .. n : outputs[k] = operands[IF k = 1 THEN n ELSE IF k = n THEN 1 ELSE k]
      BY DEF SwapOutputs
    <3>4. \A k \in 1 .. n : (IF k = 1 THEN n ELSE IF k = n THEN 1 ELSE k) \in 1 .. n
      <4> HIDE DEF n
      <4>1. n \in Nat
        BY <1>1 DEF n
      <4> QED
        BY <2>1, <4>1
    <3> QED
      BY <3>2, <3>3, <3>4
  <2> HIDE DEF outputs, n
  <2>3. HoldsBytes(outputs)
    <3>1. ASSUME NEW k \in 1 .. Len(outputs), outputs[k].kind = "constant"
          PROVE  outputs[k].value \in Seq(Byte)
      BY <2>2, <3>1 DEF HoldsBytes, n
    <3> QED
      BY <3>1 DEF HoldsBytes
  <2>4. Simplified(op, operands, fresh) = outputs
    BY <1>3 DEF Simplified, outputs
  <2> QED
    BY <2>3, <2>4
<1>4. CASE ~IsDup(op) /\ ~IsSwap(op) /\ Folds(op, operands)
  <2>1. PICK folded : folded = Constant(fresh[1].idx, Result(op, Values(operands)))
    OBVIOUS
  <2>2. Simplified(op, operands, fresh) = <<folded>>
    BY <1>4, <2>1 DEF Simplified
  <2>3. op \in HasLogic /\ AllReadable(operands)
    BY <1>4 DEF Folds
  <2>4. Result(op, Values(operands)) \in Seq(Byte)
    BY <1>4, <2>3, ReadableInput, ResultFacts
  <2>5. folded.value = Result(op, Values(operands))
    BY <2>1 DEF Constant
  <2>6. Len(<<folded>>) = 1 /\ <<folded>>[1] = folded
    OBVIOUS
  <2> QED
    BY <2>2, <2>4, <2>5, <2>6 DEF HoldsBytes
<1>5. CASE ~IsDup(op) /\ ~IsSwap(op) /\ ~Folds(op, operands)
  <2> DEFINE n == StackAdded(op)
  <2>1. Len(fresh) = n
    <3>1. n \in Nat
      BY StackAddedType
    <3>2. fresh = [i \in 1 .. n |-> fresh[i]]
      BY DEF FreshOutputs
    <3> HIDE DEF fresh, n
    <3> QED
      BY <3>1, <3>2, IsSequenceOf
  <2>2. \A k \in 1 .. n : fresh[k].kind = "constant" => fresh[k].value \in Seq(Byte)
    BY DEF FreshOutputs, Constant, Symbol
  <2>3. HoldsBytes(fresh)
    <3> HIDE DEF fresh, n
    <3> QED
      BY <2>1, <2>2 DEF HoldsBytes
  <2> QED
    BY <1>5, <2>3 DEF Simplified
<1> QED
  BY <1>2, <1>3, <1>4, <1>5

\* ... so do the stack's operands ...
LEMMA OperandsHoldBytes ==
    ASSUME NEW op, NEW entry, NEW args, IsSequence(entry), HoldsBytes(entry)
    PROVE  HoldsBytes(Operands(op, entry, args))
<1> DEFINE operands == Operands(op, entry, args)
           n == StackRemoved(op)
<1>1. n \in Nat
  BY StackRemovedType
<1>2. Len(operands) = n
  BY OperandsFromStack
<1>3. Len(entry) \in Nat
  BY DEF IsSequence
<1>4. \A i \in 1 .. n : operands[i] = IF i <= Len(entry) THEN entry[Len(entry) - i + 1]
                                      ELSE Argument(args[i - Len(entry)])
  BY DEF Operands
<1> HIDE DEF operands, n
<1>5. ASSUME NEW k \in 1 .. Len(operands), operands[k].kind = "constant"
      PROVE  operands[k].value \in Seq(Byte)
  <2>1. k \in 1 .. n
    BY <1>2
  <2>2. k <= Len(entry)
    <3>1. ASSUME ~(k <= Len(entry)) PROVE FALSE
      <4>1. operands[k] = Argument(args[k - Len(entry)])
        BY <1>4, <2>1, <3>1
      <4>2. operands[k].kind = "argument"
        BY <4>1 DEF Argument
      <4> QED
        BY <1>5, <4>2
    <3> QED
      BY <3>1
  <2>3. Len(entry) - k + 1 \in 1 .. Len(entry) /\ operands[k] = entry[Len(entry) - k + 1]
    BY <1>1, <1>3, <1>4, <2>1, <2>2
  <2> QED
    BY <1>5, <2>3 DEF HoldsBytes
<1>6. HoldsBytes(operands)
  BY <1>5 DEF HoldsBytes
<1> QED
  BY <1>6 DEF operands

\* ... and the stack.
LEMMA PushedHoldsBytes ==
    ASSUME NEW op, NEW entry, NEW outputs, IsSequence(entry), IsSequence(outputs),
           HoldsBytes(entry), HoldsBytes(outputs)
    PROVE  HoldsBytes(Pushed(Rest(op, entry), outputs))
<1> DEFINE after == Pushed(Rest(op, entry), outputs)
<1>1. \A k \in 1 .. Len(after) : \/ \E j \in 1 .. Len(entry) : after[k] = entry[j]
                                 \/ \E j \in 1 .. Len(outputs) : after[k] = outputs[j]
  BY PushedElements
<1> HIDE DEF after
<1>2. ASSUME NEW k \in 1 .. Len(after), after[k].kind = "constant"
      PROVE  after[k].value \in Seq(Byte)
  BY <1>1, <1>2 DEF HoldsBytes
<1>3. HoldsBytes(after)
  BY <1>2 DEF HoldsBytes
<1> QED
  BY <1>3 DEF after

\* The output of arithmetic is a constant only if it has been folded.
LEMMA ArithmeticOutputs ==
    ASSUME NEW op, IsArithmetic(op), NEW operands, NEW value, NEW first,
           Simplified(op, operands, FreshOutputs(op, value, first))[1].kind = "constant"
    PROVE  /\ Folds(op, operands)
           /\ Simplified(op, operands, FreshOutputs(op, value, first))[1].value
                 = Result(op, Values(operands))
<1> DEFINE fresh == FreshOutputs(op, value, first)
<1>1. /\ op \in Known /\ op >= 1 /\ op < 26 /\ op \notin {10, 11}
  BY DEF IsArithmetic, IsUnknown, OP_ADD, OP_BYTE, OP_EXP, OP_SIGNEXTEND
<1>2. op \in 0 .. 255
  BY <1>1 DEF Known
<1>3. op \in (1 .. 9) \cup (12 .. 25)
  BY <1>1, <1>2
<1>4. ~IsDup(op) /\ ~IsSwap(op) /\ ~IsPush(op)
  BY <1>3 DEF IsDup, IsSwap, IsPush, OP_DUP1, OP_DUP16, OP_SWAP1, OP_SWAP16, OP_PUSH1, OP_PUSH32
<1>5. CASE Folds(op, operands)
  <2>1. Simplified(op, operands, fresh)
            = <<Constant(fresh[1].idx, Result(op, Values(operands)))>>
    BY <1>4, <1>5 DEF Simplified
  <2> QED
    BY <1>5, <2>1 DEF Constant
<1>6. CASE ~Folds(op, operands)
  <2>1. Simplified(op, operands, fresh) = fresh
    BY <1>4, <1>6 DEF Simplified
  <2>2. StackAdded(op) = 1
    <3>1. op \in Known
      BY <1>1
    <3>2. op \in (1 .. 9) \cup (16 .. 25)
      BY <1>3, <3>1 DEF Known
    <3> QED
      BY <1>4, <3>2, SMT DEF StackAdded
  <2>3. 1 \in 1 .. StackAdded(op)
    BY <2>2
  <2>4. fresh[1].kind = "symbol"
    BY <1>4, <2>3 DEF FreshOutputs, Symbol
  <2> QED
    BY <2>1, <2>4
<1> QED
  BY <1>5, <1>6

\* The immediate data of a decoded instruction.
LEMMA DataIsBytes ==
    ASSUME IsByteString(code), pos \in Nat, Decodes
    PROVE  Data \in Seq(Byte)
<1>1. PICK n \in Nat : n = Length(code[pos])
  BY LengthType
<1>2. PICK size \in Nat : size = Size /\ code \in [0 .. (size - 1) -> Byte]
  <2>1. Size \in Nat
    BY FS_CardinalityType DEF IsByteString, Size
  <2> QED
    BY <2>1 DEF IsByteString, Size
<1>3. pos + n < size
  BY <1>1, <1>2 DEF Decodes
<1>4. \A i \in 1 .. n : code[pos + i] \in Byte
  <2>1. \A i \in 1 .. n : pos + i \in 0 .. (size - 1)
    BY <1>3
  <2> QED
    BY <1>2, <2>1
<1>5. Data \in [1 .. n -> Byte]
  BY <1>1, <1>4 DEF Data
<1> QED
  BY <1>5

\* Running an instruction keeps the foldings right, unless it traps.
LEMMA SimulateSolves ==
    ASSUME IInv, FoldingsAreSolved, Decodes, NEW entry, NEW args,
           Simulate(code[pos], entry, args), IsSequence(entry), HoldsBytes(entry),
           Folds(code[pos], Operands(code[pos], entry, args))
               => ~Traps(code[pos], Values(Operands(code[pos], entry, args))),
           UNCHANGED code
    PROVE  FoldingsAreSolved'
<1>1. PICK op : op = code[pos]
  OBVIOUS
<1>2. PICK operands : operands = Operands(op, entry, args)
  OBVIOUS
<1>3. PICK outputs : outputs = Simplified(op, operands, FreshOutputs(op, Data, globalIdx))
  OBVIOUS
<1>4. IsSequence(operands) /\ Len(operands) = StackRemoved(op) /\ HoldsBytes(operands)
  BY <1>2, OperandsFromStack, OperandsHoldBytes
<1>5. Folds(op, operands) => ~Traps(op, Values(operands))
  BY <1>1, <1>2
<1>6. IsSequence(outputs)
  BY <1>3, <1>4, SimplifiedIsSequence
<1>7. HoldsBytes(outputs)
  <2>1. Data \in Seq(Byte)
    BY DataIsBytes DEF FoldingsAreSolved, IInv, InstructionsBehind
  <2> QED
    BY <1>3, <1>4, <1>5, <2>1, SimplifiedHoldsBytes
<1>8. /\ stack' = Pushed(Rest(op, entry), outputs)
      /\ instructions' = Store(instructions, pos,
                               [op |-> op, operands |-> operands, outputs |-> outputs])
  BY <1>1, <1>2, <1>3 DEF Simulate
<1>9. HoldsBytes(stack')
  BY <1>6, <1>7, <1>8, PushedHoldsBytes
<1>10. ASSUME NEW o \in DOMAIN instructions', Folded(instructions'[o])
       PROVE  Solved(instructions'[o])
  <2>1. CASE o # pos
    <3>1. o \in DOMAIN instructions /\ instructions'[o] = instructions[o]
      BY <1>8, <2>1 DEF Store
    <3> QED
      BY <1>10, <3>1 DEF FoldingsAreSolved
  <2>2. CASE o = pos
    <3>1. PICK inst : inst = instructions'[pos] /\ inst.op = op /\ inst.operands = operands
                      /\ inst.outputs = outputs
      BY <1>8 DEF Store
    <3>2. IsArithmetic(op) /\ outputs[1].kind = "constant"
      BY <1>10, <2>2, <3>1 DEF Folded
    <3>3. Folds(op, operands) /\ outputs[1].value = Result(op, Values(operands))
      BY <1>3, <3>2, ArithmeticOutputs
    <3>4. Solved(inst)
      BY <1>4, <1>5, <3>1, <3>3 DEF Solved, Folds
    <3> QED
      BY <2>2, <3>1, <3>4
  <2> QED
    BY <2>1, <2>2
<1>11. HoldsBytes(stack)'
  BY <1>9 DEF HoldsBytes
<1>12. (\A o \in DOMAIN instructions : TakesBytes(instructions[o]))'
  <2> SUFFICES ASSUME NEW o \in DOMAIN instructions'
               PROVE  TakesBytes(instructions'[o])
    BY DEF TakesBytes, HoldsBytes
  <2>1. CASE o # pos
    <3>1. o \in DOMAIN instructions /\ instructions'[o] = instructions[o]
      BY <1>8, <2>1 DEF Store
    <3> QED
      BY <3>1 DEF FoldingsAreSolved
  <2>2. CASE o = pos
    <3>1. PICK inst : inst = instructions'[pos] /\ inst.op = op /\ inst.operands = operands
      BY <1>8 DEF Store
    <3> QED
      BY <1>4, <2>2, <3>1 DEF TakesBytes
  <2> QED
    BY <2>1, <2>2
<1>13. (\A o \in DOMAIN instructions : Folded(instructions[o]) => Solved(instructions[o]))'
  BY <1>10 DEF Folded, Solved
<1> QED
  BY <1>11, <1>13, <1>12 DEF FoldingsAreSolved

\* An argument among the operands is not read.
LEMMA FoldsWithoutArguments ==
    ASSUME NEW op, NEW entry, NEW args, IsSequence(entry), Folds(op, Operands(op, entry, args))
    PROVE  /\ Missing(op, entry) = 0
           /\ Operands(op, entry, args) = Operands(op, entry, <<>>)
<1> DEFINE operands == Operands(op, entry, args)
           n == StackRemoved(op)
           m == Len(entry)
<1>1. n \in Nat /\ m \in Nat /\ Len(operands) = n
  BY StackRemovedType, OperandsFromStack DEF IsSequence
<1>2. \A i \in 1 .. n : ~(i <= m) => operands[i].kind = "argument"
  BY DEF Operands, Argument
<1>3. \A i \in 1 .. n : operands[i].kind = "constant"
  BY <1>1 DEF Folds, AllReadable
<1>4. \A i \in 1 .. n : i <= m
  BY <1>2, <1>3
<1>5. n <= m
  <2> HIDE DEF n, m
  <2> QED
    BY <1>1, <1>4
<1>6. Missing(op, entry) = 0
  <2>1. ~(n > m)
    <3> HIDE DEF n, m
    <3> QED
      BY <1>1, <1>5
  <2> QED
    BY <2>1 DEF Missing
<1>7. Operands(op, entry, args) = Operands(op, entry, <<>>)
  BY <1>4 DEF Operands
<1> QED
  BY <1>6, <1>7

\* Every step of the pass keeps the foldings right.
LEMMA StepSolves == IInv /\ FoldingsAreSolved /\ [Next]_fillVars => FoldingsAreSolved'
<1> SUFFICES ASSUME IInv, FoldingsAreSolved, [Next]_fillVars PROVE FoldingsAreSolved'
  OBVIOUS
<1>1. IsSequence(stack) /\ HoldsBytes(stack)
  BY DEF IInv, StackIsKnown, FoldingsAreSolved
<1>2. ASSUME NEW args, ~TrapsHere, Folds(code[pos], Operands(code[pos], stack, args))
      PROVE  ~Traps(code[pos], Values(Operands(code[pos], stack, args)))
  <2>1. /\ Missing(code[pos], stack) = 0
        /\ Operands(code[pos], stack, args) = Operands(code[pos], stack, <<>>)
    BY <1>1, <1>2, FoldsWithoutArguments
  <2> QED
    BY <1>2, <2>1 DEF TrapsHere
<1>3. CASE AtJumpDest
  <2>1. IsSequence(<<>>) /\ HoldsBytes(<<>>)
    BY DEF IsSequence, HoldsBytes
  <2>2. Decodes /\ code[pos] = 91 /\ Simulate(code[pos], <<>>, <<>>) /\ UNCHANGED code
    BY <1>3 DEF AtJumpDest, OP_JUMPDEST
  <2>3. ~IsArithmetic(91)
    BY DEF IsArithmetic, OP_ADD, OP_BYTE
  <2>4. ~Folds(code[pos], Operands(code[pos], <<>>, <<>>))
    BY <2>2, <2>3 DEF Folds
  <2> QED
    BY <2>1, <2>2, <2>4, SimulateSolves
<1>4. CASE AtInstruction
  <2>1. PICK args : Simulate(code[pos], stack, args) /\ ~TrapsHere /\ Decodes /\ UNCHANGED code
    BY <1>4 DEF AtInstruction
  <2> QED
    BY <1>1, <1>2, <2>1, SimulateSolves
<1>5. CASE AtEntryInstruction
  <2>1. PICK args : Simulate(code[pos], stack, args) /\ ~TrapsHere /\ Decodes /\ UNCHANGED code
    BY <1>5 DEF AtEntryInstruction
  <2> QED
    BY <1>1, <1>2, <2>1, SimulateSolves
<1>6. CASE UNCHANGED <<code, stack, instructions>>
  BY <1>6 DEF FoldingsAreSolved, TakesBytes, HoldsBytes, Folded, Solved
<1> QED
  BY <1>3, <1>4, <1>5, <1>6 DEF Next, Trap, Finish, fillVars

\* FoldingsAreSolved is an invariant.
LEMMA FoldingsAlwaysSolved == Spec => []FoldingsAreSolved
<1>1. Init => FoldingsAreSolved
  BY CodesAssumption DEF Init, FoldingsAreSolved, NoEntries, HoldsBytes
<1> QED
  BY <1>1, InitIInv, NextKeeps, StepSolves, PTL DEF Spec

\* What is read of a folded constant is the int64_t that was computed, for every code and
\* every width of words; and of a negative one nothing is ever read.
THEOREM FoldedIsReadBack == Spec => []ReadBack
<1>1. ASSUME FoldingsAreSolved, NEW o \in DOMAIN instructions, Folded(instructions[o])
      PROVE  LET inst == instructions[o]
                 out  == inst.outputs[1].value
             IN  /\ IsReadable(out) <=> Int64Result(inst) >= 0
                 /\ IsReadable(out) => GetInt64FromVec(out) = Int64Result(inst)
  <2>1. PICK inst : inst = instructions[o] /\ Solved(inst)
    BY <1>1 DEF FoldingsAreSolved
  <2>2. PICK out : out = inst.outputs[1].value /\ out = Result(inst.op, Values(inst.operands))
    BY <2>1 DEF Solved
  <2>3. IsInput(inst.op, Values(inst.operands))
    BY <2>1, ReadableInput DEF Solved
  <2>4. PICK u : u = Solve(inst.op, Values(inst.operands)) % Modulus
    OBVIOUS
  <2>5. /\ IsReadable(out) <=> Signed(u) >= 0
        /\ Signed(u) >= 0 => GetInt64FromVec(out) = Signed(u)
    BY <2>1, <2>2, <2>3, <2>4, ResultFacts DEF Solved
  <2>6. Int64Result(inst) = Signed(u)
    BY <2>4 DEF Int64Result
  <2> QED
    BY <2>1, <2>2, <2>5, <2>6
<1>2. FoldingsAreSolved => ReadBack
  BY <1>1 DEF ReadBack
<1> QED
  BY <1>2, FoldingsAlwaysSolved, PTL

\* A comparison with zero, or of two words for equality, is the EVM's whatever the words.
LEMMA EqualityAsEVM ==
    ASSUME NEW inst, Solved(inst), inst.op \in {OP_ISZERO, OP_EQ}
    PROVE  /\ Solve(inst.op, Values(inst.operands)) \in 0 .. 1
           /\ Solve(inst.op, Values(inst.operands)) = EVMResult(inst.op, WordsOf(inst.operands))
<1> DEFINE in == Values(inst.operands)
           words == WordsOf(inst.operands)
<1>1. Len(inst.operands) = IF inst.op \in {OP_ISZERO, OP_NOT} THEN 1 ELSE 2
  BY LogicRemoves DEF Solved
<1>2. \A k \in 1 .. Len(inst.operands) :
         words[k] \in Nat /\ words[k] < Modulus /\ in[k] = Signed(words[k])
  BY ValuesAreNumbers DEF Solved
<1> HIDE DEF in, words
<1>3. PICK u \in Nat : u = words[1] /\ u < Modulus /\ in[1] = Signed(u)
  BY <1>1, <1>2
<1>4. CASE inst.op = OP_ISZERO
  <2>1. Solve(inst.op, in) = Truth(in[1] = 0)
    BY <1>4, SolveArms, Zenon
  <2>2. EVMResult(inst.op, words) = Truth(words[1] = 0)
    BY <1>4, EVMArms, Zenon
  <2>3. in[1] = 0 <=> words[1] = 0
    <3>1. Signed(0) = 0 /\ 0 < Modulus
      BY ModulusFacts DEF Signed
    <3> QED
      BY <1>3, <3>1, SignedInjective
  <2> QED
    BY <2>1, <2>2, <2>3 DEF Truth, in, words
<1>5. CASE inst.op = OP_EQ
  <2>1. Solve(inst.op, in) = Truth(in[1] = in[2])
    BY <1>5, SolveArms, Zenon
  <2>2. EVMResult(inst.op, words) = Truth(~(words[1] < words[2] \/ words[2] < words[1]))
    BY <1>5, EVMArms, Zenon
  <2>3. PICK w \in Nat : w = words[2] /\ w < Modulus /\ in[2] = Signed(w)
    <3>1. 2 \in 1 .. Len(inst.operands)
      BY <1>1, <1>5 DEF OP_EQ, OP_ISZERO, OP_NOT
    <3> QED
      BY <1>2, <3>1
  <2>4. in[1] = in[2] <=> u = w
    BY <1>3, <2>3, SignedInjective
  <2>5. ~(u < w \/ w < u) <=> u = w
    OBVIOUS
  <2>6. ~(words[1] < words[2] \/ words[2] < words[1]) <=> u = w
    BY <1>3, <2>3, <2>5
  <2> QED
    BY <2>1, <2>2, <2>4, <2>6 DEF Truth, in, words
<1> QED
  BY <1>4, <1>5

\* EVMResult looks at no more of its inputs than the opcode takes.
LEMMA SameInputs ==
    ASSUME NEW op \in HasLogic \ {OP_LT}, NEW in, NEW words, in[1] = words[1],
           op \notin {OP_ISZERO, OP_NOT} => in[2] = words[2]
    PROVE  EVMResult(op, in) = EVMResult(op, words)
<1>1. CASE op \in {OP_ISZERO, OP_NOT}
  <2>1. CASE op = OP_ISZERO
    <3>1. EVMResult(op, in) = Truth(in[1] = 0)
      BY <2>1, EVMArms, Zenon
    <3>2. EVMResult(op, words) = Truth(words[1] = 0)
      BY <2>1, EVMArms, Zenon
    <3> QED
      BY <3>1, <3>2, Zenon
  <2>2. CASE op = OP_NOT
    <3>1. EVMResult(op, in) = EvmModulus - 1 - in[1]
      BY <2>2, EVMArms, Zenon
    <3>2. EVMResult(op, words) = EvmModulus - 1 - words[1]
      BY <2>2, EVMArms, Zenon
    <3> QED
      BY <3>1, <3>2, Zenon
  <2> QED
    BY <1>1, <2>1, <2>2
<1>2. CASE op \notin {OP_ISZERO, OP_NOT}
  <2>1. in[2] = words[2]
    BY <1>2
  <2>2. CASE op = OP_ADD
    <3>1. EVMResult(op, in) = in[1] + in[2]
      BY <2>2, EVMArms, Zenon
    <3>2. EVMResult(op, words) = words[1] + words[2]
      BY <2>2, EVMArms, Zenon
    <3> QED
      BY <2>1, <3>1, <3>2, Zenon
  <2>3. CASE op = OP_MUL
    <3>1. EVMResult(op, in) = in[1] * in[2]
      BY <2>3, EVMArms, Zenon
    <3>2. EVMResult(op, words) = words[1] * words[2]
      BY <2>3, EVMArms, Zenon
    <3> QED
      BY <2>1, <3>1, <3>2, Zenon
  <2>4. CASE op = OP_SUB
    <3>1. EVMResult(op, in) = (in[1] - in[2]) % EvmModulus
      BY <2>4, EVMArms, Zenon
    <3>2. EVMResult(op, words) = (words[1] - words[2]) % EvmModulus
      BY <2>4, EVMArms, Zenon
    <3> QED
      BY <2>1, <3>1, <3>2, Zenon
  <2>5. CASE op \in {OP_DIV, OP_SDIV}
    <3> DEFINE Ratio(a, b) == IF b = 0 THEN 0
                           ELSE CHOOSE q \in 0 .. a : q * b <= a /\ a - q * b < b
    <3>1. EVMResult(op, in) = Ratio(in[1], in[2])
      BY <2>5, EVMArms, Zenon
    <3>2. EVMResult(op, words) = Ratio(words[1], words[2])
      BY <2>5, EVMArms, Zenon
    <3> HIDE DEF Ratio
    <3> QED
      BY <2>1, <3>1, <3>2, Zenon
  <2>6. CASE op = OP_MOD
    <3> DEFINE Remainder(a, b) == IF b = 0 THEN 0
                               ELSE CHOOSE r \in 0 .. (b - 1) : \E q \in 0 .. a : q * b + r = a
    <3>1. EVMResult(op, in) = Remainder(in[1], in[2])
      BY <2>6, EVMArms, Zenon
    <3>2. EVMResult(op, words) = Remainder(words[1], words[2])
      BY <2>6, EVMArms, Zenon
    <3> HIDE DEF Remainder
    <3> QED
      BY <2>1, <3>1, <3>2, Zenon
  <2>7. CASE op = OP_GT
    <3>1. EVMResult(op, in) = Truth(in[2] < in[1])
      BY <2>7, EVMArms, Zenon
    <3>2. EVMResult(op, words) = Truth(words[2] < words[1])
      BY <2>7, EVMArms, Zenon
    <3> QED
      BY <2>1, <3>1, <3>2, Zenon
  <2>8. CASE op = OP_EQ
    <3>1. EVMResult(op, in) = Truth(~(in[1] < in[2] \/ in[2] < in[1]))
      BY <2>8, EVMArms, Zenon
    <3>2. EVMResult(op, words) = Truth(~(words[1] < words[2] \/ words[2] < words[1]))
      BY <2>8, EVMArms, Zenon
    <3> QED
      BY <2>1, <3>1, <3>2, Zenon
  <2>9. CASE op = OP_AND
    <3>1. EVMResult(op, in) = WithBits(BitsOf(in[1]) \cap BitsOf(in[2]))
      BY <2>9, EVMArms, Zenon
    <3>2. EVMResult(op, words) = WithBits(BitsOf(words[1]) \cap BitsOf(words[2]))
      BY <2>9, EVMArms, Zenon
    <3> QED
      BY <2>1, <3>1, <3>2, Zenon
  <2>10. CASE op = OP_XOR
    <3>1. EVMResult(op, in) = WithBits((BitsOf(in[1]) \cup BitsOf(in[2])) \ (BitsOf(in[1]) \cap BitsOf(in[2])))
      BY <2>10, EVMArms, Zenon
    <3>2. EVMResult(op, words) = WithBits((BitsOf(words[1]) \cup BitsOf(words[2])) \ (BitsOf(words[1]) \cap BitsOf(words[2])))
      BY <2>10, EVMArms, Zenon
    <3> QED
      BY <2>1, <3>1, <3>2, Zenon
  <2> QED
    BY <1>2, <2>2, <2>3, <2>4, <2>5, <2>6, <2>7, <2>8, <2>9, <2>10 DEF HasLogic
<1> QED
  BY <1>1, <1>2

\* A folded constant is the word the EVM computes as long as everything stays below 2^63,
\* and of ISZERO and EQ always, for every code and every width of words.
THEOREM FoldingsAreTheEVMs == Spec => []FoldedAsEVM
<1>1. ASSUME FoldingsAreSolved, NEW o \in DOMAIN instructions,
             Folded(instructions[o]), instructions[o].op # OP_LT,
             instructions[o].op \in {OP_ISZERO, OP_EQ} \/ StaysBelowSign(instructions[o])
      PROVE  FoldedRight(instructions[o])
  <2>1. PICK inst : inst = instructions[o] /\ Solved(inst)
    BY <1>1 DEF FoldingsAreSolved
  <2>2. PICK in : in = Values(inst.operands)
    OBVIOUS
  <2>3. PICK words : words = WordsOf(inst.operands)
    OBVIOUS
  <2>4. PICK e : e = EVMResult(inst.op, words)
    OBVIOUS
  <2>5. IsInput(inst.op, in)
    BY <2>1, <2>2, ReadableInput DEF Solved
  <2>6. e \in Nat /\ Solve(inst.op, in) = e /\ 2 * e < Modulus
    <3>1. CASE inst.op \in {OP_ISZERO, OP_EQ}
      <4>1. e \in 0 .. 1 /\ Solve(inst.op, in) = e
        BY <2>1, <2>2, <2>3, <2>4, <3>1, EqualityAsEVM
      <4>2. PICK p \in Nat \ {0} : Modulus = 256 * p
        BY ModulusFacts
      <4> QED
        BY <4>1, <4>2
    <3>2. CASE inst.op \notin {OP_ISZERO, OP_EQ}
      <4>1. /\ \A i \in 1 .. Len(inst.operands) : 2 * words[i] < Modulus
            /\ 2 * e < Modulus
        BY <1>1, <2>1, <2>3, <2>4, <3>2 DEF StaysBelowSign
      <4>2. /\ Len(inst.operands) = IF inst.op \in {OP_ISZERO, OP_NOT} THEN 1 ELSE 2
            /\ inst.op \in HasLogic \ {OP_LT}
            /\ ~Traps(inst.op, in)
        BY <1>1, <2>1, <2>2, LogicRemoves DEF Solved
      <4>3. ASSUME NEW k \in 1 .. Len(inst.operands)
            PROVE  words[k] \in Nat /\ in[k] = words[k] /\ 2 * words[k] < Modulus
        <5>1. /\ words[k] \in Nat /\ in[k] = Signed(words[k])
          BY <2>1, <2>2, <2>3, ValuesAreNumbers DEF Solved
        <5> QED
          BY <4>1, <5>1 DEF Signed
      <4>4. in[1] = words[1] /\ words[1] \in Nat /\ 2 * words[1] < Modulus
        BY <4>2, <4>3
      <4>5. inst.op \notin {OP_ISZERO, OP_NOT} =>
                in[2] = words[2] /\ words[2] \in Nat /\ 2 * words[2] < Modulus
        BY <4>2, <4>3
      <4>6. EVMResult(inst.op, in) = e
        BY <2>4, <4>2, <4>4, <4>5, SameInputs
      <4> QED
        BY <4>1, <4>2, <4>4, <4>5, <4>6, SolveIsEVM
    <3> QED
      BY <3>1, <3>2
  <2>7. PICK m \in Nat \ {0} : m = Modulus
    BY ModulusFacts
  <2>8. e % m = e
    <3>1. e = m * 0 + e /\ e \in 0 .. (m - 1) /\ e \in Int /\ 0 \in Int
      BY <2>6, <2>7
    <3> QED
      BY <3>1, DivisionIs
  <2>9. Signed(e) = e
    BY <2>6 DEF Signed
  <2>10. WordOf(Result(inst.op, in)) = e
    <3>1. Signed(Solve(inst.op, in) % Modulus) = e /\ Solve(inst.op, in) % Modulus = e /\ e >= 0
      BY <2>6, <2>7, <2>8, <2>9
    <3>2. inst.op \in HasLogic /\ ~Traps(inst.op, in)
      BY <2>1, <2>2 DEF Solved
    <3> QED
      BY <2>5, <3>1, <3>2, ResultFacts
  <2> QED
    BY <2>1, <2>2, <2>3, <2>4, <2>10 DEF FoldedRight, Solved
<1>2. FoldingsAreSolved => FoldedAsEVM
  BY <1>1 DEF FoldedAsEVM
<1> QED
  BY <1>2, FoldingsAlwaysSolved, PTL

=============================================================================
