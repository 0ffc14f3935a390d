------------------------- MODULE RustProgramProofs -------------------------
(***************************************************************************)
(* Proofs about RustProgram and RustReport, for every set of codes, well   *)
(* formed or not.                                                          *)
(***************************************************************************)
EXTENDS RustReport, FiniteSetTheorems, FunctionTheorems, SequenceTheorems,
        WellFoundedInduction, TLAPS

-----------------------------------------------------------------------------
(***************************************************************************)
(* Running a block                                                         *)
(***************************************************************************)

\* Iterate and RunFrom as functions of the instructions.
IterateOver(ins, run, o) ==
    LET inst   == ins[o]
        inputs == Inputs(inst.op, run.stack, 0)
    IN  IF run.cause # "none" THEN run
        ELSE IF Missing(inst.op, run.stack) > 0
             THEN [run EXCEPT !.cause = "floating value"]
        ELSE IF Panics(inst.op, inputs)
             THEN [run EXCEPT !.cause = "arithmetic"]
        ELSE IF ExitsPanic(inst.op, inputs)
             THEN [run EXCEPT !.cause = "dynamic target"]
        ELSE [cause |-> "none",
              stack |-> Pushed(Rest(inst.op, run.stack),
                               Outputs(inst.op, o, inst.data, inputs)),
              exits |-> Exits(inst.op, o, inputs)]

Started(entry) == [cause |-> "none", stack |-> entry, exits |-> <<>>]

RunOver(ins, entry, offsets) ==
    MapThenFoldSet(LAMBDA o, run : IterateOver(ins, run, o), Started(entry),
                   LAMBDA o : o, LAMBDA O : Max(O), offsets)

LEMMA RunIsOver ==
    ASSUME NEW entry, NEW offsets
    PROVE  RunFrom(entry, offsets) = RunOver(instructions, entry, offsets)
  BY DEF RunFrom, RunOver, Iterate, IterateOver, Started

LEMMA Smallest ==
    ASSUME NEW S \in SUBSET Nat, S # {}
    PROVE  \E n \in S : \A m \in S : n <= m
<1> DEFINE less == OpToRel(<, Nat)
<1>1. IsWellFoundedOn(less, Nat)
  BY NatLessThanWellFounded
<1>2. less = {ss \in Nat \X Nat : ss[1] < ss[2]}
  BY DEF OpToRel
<1>3. \A m, n \in Nat : m < n => <<m, n>> \in less
  BY <1>2
<1> HIDE DEF less
<1>4. PICK n \in S : \A m \in S : ~(<<m, n>> \in less)
  BY <1>1, WFMin
<1>5. \A m \in S : ~(m < n)
  BY <1>3, <1>4
<1> QED
  BY <1>5

\* A set of offsets has a last one.
LEMMA MaxIsLast ==
    ASSUME NEW n \in Nat, NEW O \in SUBSET (0 .. (n - 1)), O # {}
    PROVE  /\ Max(O) \in O /\ \A x \in O : x <= Max(O)
           /\ Max(O) \in Nat /\ Max(O) < n
           /\ O \ {Max(O)} \in SUBSET (0 .. (Max(O) - 1))
<1> DEFINE above == {k \in Nat : \A x \in O : x <= k}
<1>1. above \in SUBSET Nat /\ n \in above
  OBVIOUS
<1>2. PICK k \in above : \A j \in above : k <= j
  <2> HIDE DEF above
  <2> QED
    BY <1>1, Smallest
<1>3. k \in O
  <2> SUFFICES ASSUME k \notin O PROVE FALSE
    OBVIOUS
  <2>1. PICK x \in O : TRUE
    OBVIOUS
  <2>2. k - 1 \in Nat /\ \A y \in O : y <= k - 1
    BY <2>1
  <2> QED
    BY <1>2, <2>2
<1>4. \E x \in O : \A y \in O : x >= y
  BY <1>2, <1>3
<1>5. Max(O) \in O /\ \A y \in O : Max(O) >= y
  BY <1>4 DEF Max
<1> HIDE DEF above
<1>6. Max(O) \in 0 .. (n - 1) /\ \A x \in O : x \in 0 .. (n - 1)
  BY <1>5
<1>7. \A x \in O : x <= Max(O)
  BY <1>5, <1>6
<1>8. O \ {Max(O)} \in SUBSET (0 .. (Max(O) - 1))
  <2>1. \A x \in O \ {Max(O)} : x \in 0 .. (Max(O) - 1)
    BY <1>6, <1>7
  <2> QED
    BY <2>1, Zenon
<1>9. Max(O) \in Nat /\ Max(O) < n
  BY <1>6
<1> QED
  BY <1>5, <1>7, <1>8, <1>9

\* f gives the run of each set of offsets out of O.
Runs(ins, entry, f, O) ==
    f = [s \in SUBSET O |->
            IF s = {} THEN Started(entry)
            ELSE IterateOver(ins, f[s \ {Max(s)}], Max(s))]

LEMMA RunsOver ==
    ASSUME NEW ins, NEW entry, NEW O
    PROVE  RunOver(ins, entry, O) = (CHOOSE f : Runs(ins, entry, f, O))[O]
  BY DEF RunOver, Runs, MapThenFoldSet

\* P are some of the offsets O.
Among(P, O) == \E n \in Nat : O \in SUBSET (0 .. (n - 1)) /\ P \in SUBSET O

LEMMA RunsAgree ==
    ASSUME NEW ins, NEW entry, NEW f, NEW g, NEW O, NEW P, Among(P, O),
           Runs(ins, entry, f, O), Runs(ins, entry, g, P)
    PROVE  f[P] = g[P]
<1>1. PICK n \in Nat : O \in SUBSET (0 .. (n - 1)) /\ P \in SUBSET O
  BY DEF Among
<1> DEFINE bad == {k \in Nat : \E t \in SUBSET P : t \subseteq 0 .. (k - 1) /\ f[t] # g[t]}
<1>2. bad \in SUBSET Nat
  OBVIOUS
<1>3. ASSUME bad # {} PROVE FALSE
  <2>1. PICK k \in bad : \A j \in bad : k <= j
    <3> HIDE DEF bad
    <3> QED
      BY <1>2, <1>3, Smallest
  <2>2. PICK t \in SUBSET P : t \subseteq 0 .. (k - 1) /\ f[t] # g[t]
    BY <2>1
  <2>3. t \in SUBSET O /\ k \in Nat
    BY <1>1, <2>1
  <2>4. /\ f[t] = IF t = {} THEN Started(entry)
                  ELSE IterateOver(ins, f[t \ {Max(t)}], Max(t))
        /\ g[t] = IF t = {} THEN Started(entry)
                  ELSE IterateOver(ins, g[t \ {Max(t)}], Max(t))
    BY <2>3 DEF Runs
  <2>5. t # {}
    BY <2>2, <2>4
  <2>6. /\ Max(t) \in Nat /\ Max(t) < k
        /\ t \ {Max(t)} \in SUBSET (0 .. (Max(t) - 1))
    BY <2>2, <2>3, <2>5, MaxIsLast
  <2>7. f[t \ {Max(t)}] # g[t \ {Max(t)}]
    BY <2>2, <2>4, <2>5
  <2>8. Max(t) \in bad
    BY <2>6, <2>7
  <2> HIDE DEF bad
  <2> QED
    BY <2>1, <2>3, <2>6, <2>8
<1>4. \A k \in Nat : \A t \in SUBSET P : t \subseteq 0 .. (k - 1) => f[t] = g[t]
  BY <1>3
<1> QED
  BY <1>1, <1>4

LEMMA RunsExist ==
    ASSUME NEW ins, NEW entry, NEW n \in Nat, NEW O \in SUBSET (0 .. (n - 1))
    PROVE  \E f : Runs(ins, entry, f, O)
<1> DEFINE bad == {k \in Nat : \E P \in SUBSET (0 .. (k - 1)) : ~\E f : Runs(ins, entry, f, P)}
<1>1. bad \in SUBSET Nat
  OBVIOUS
<1>2. ASSUME bad # {} PROVE FALSE
  <2>1. PICK k \in bad : \A j \in bad : k <= j
    <3> HIDE DEF bad
    <3> QED
      BY <1>1, <1>2, Smallest
  <2>2. PICK P \in SUBSET (0 .. (k - 1)) : ~\E f : Runs(ins, entry, f, P)
    BY <2>1
  <2>3. k \in Nat
    BY <2>1
  <2> DEFINE value(s) == (CHOOSE f : Runs(ins, entry, f, s))[s]
             g == [s \in SUBSET P |->
                      IF s = {} THEN Started(entry)
                      ELSE IterateOver(ins, value(s \ {Max(s)}), Max(s))]
  <2>4. ASSUME NEW j \in Nat, j < k, NEW s \in SUBSET (0 .. (j - 1))
        PROVE  \E f : Runs(ins, entry, f, s)
    <3>1. j \notin bad
      <4> HIDE DEF bad
      <4> QED
        BY <2>1, <2>3, <2>4
    <3> QED
      BY <3>1
  <2>5. ASSUME NEW j \in Nat, j < k, NEW s \in SUBSET (0 .. (j - 1)), s \in SUBSET P
        PROVE  value(s) = g[s]
    <3> DEFINE f == CHOOSE f : Runs(ins, entry, f, s)
    <3>1. Runs(ins, entry, f, s)
      BY <2>4, <2>5
    <3> HIDE DEF f
    <3>2. f[s] = IF s = {} THEN Started(entry)
                 ELSE IterateOver(ins, f[s \ {Max(s)}], Max(s))
      BY <3>1 DEF Runs
    <3>3. CASE s = {}
      BY <3>2, <3>3 DEF f
    <3>4. CASE s # {}
      <4>1. /\ Max(s) \in Nat /\ Max(s) < j
            /\ s \ {Max(s)} \in SUBSET (0 .. (Max(s) - 1))
        BY <2>5, <3>4, MaxIsLast
      <4> DEFINE h == CHOOSE h : Runs(ins, entry, h, s \ {Max(s)})
      <4>2. Runs(ins, entry, h, s \ {Max(s)})
        <5>1. Max(s) < k
          BY <2>3, <2>5, <4>1
        <5> QED
          BY <2>4, <4>1, <5>1
      <4> HIDE DEF h
      <4>3. f[s \ {Max(s)}] = h[s \ {Max(s)}]
        <5> DEFINE rest == s \ {Max(s)}
        <5>1. Among(rest, s)
          BY <2>5 DEF Among
        <5>2. Runs(ins, entry, h, rest)
          BY <4>2
        <5> HIDE DEF bad, value, g, rest
        <5>3. f[rest] = h[rest]
          BY <3>1, <5>1, <5>2, RunsAgree
        <5> QED
          BY <5>3 DEF rest
      <4> QED
        BY <2>5, <3>2, <3>4, <4>3 DEF f, h
    <3> QED
      BY <3>3, <3>4
  <2>6. ASSUME NEW s \in SUBSET P, s # {}
        PROVE  value(s \ {Max(s)}) = g[s \ {Max(s)}]
    <3>1. /\ Max(s) \in Nat /\ Max(s) < k
          /\ s \ {Max(s)} \in SUBSET (0 .. (Max(s) - 1))
      BY <2>2, <2>3, <2>6, MaxIsLast
    <3> HIDE DEF value, g
    <3> QED
      BY <2>5, <2>6, <3>1
  <2>7. Runs(ins, entry, g, P)
    <3>1. g = [s \in SUBSET P |->
                  IF s = {} THEN Started(entry)
                  ELSE IterateOver(ins, g[s \ {Max(s)}], Max(s))]
      <4>1. \A s \in SUBSET P :
                (IF s = {} THEN Started(entry)
                 ELSE IterateOver(ins, value(s \ {Max(s)}), Max(s)))
                = (IF s = {} THEN Started(entry)
                   ELSE IterateOver(ins, g[s \ {Max(s)}], Max(s)))
        <5> HIDE DEF value, g
        <5> QED
          BY <2>6
      <4>2. \A s \in SUBSET P :
                g[s] = IF s = {} THEN Started(entry)
                       ELSE IterateOver(ins, value(s \ {Max(s)}), Max(s))
        OBVIOUS
      <4>3. g = [s \in SUBSET P |-> g[s]]
        OBVIOUS
      <4> HIDE DEF value, g
      <4> QED
        BY <4>1, <4>2, <4>3
    <3> HIDE DEF g
    <3> QED
      BY <3>1 DEF Runs
  <2> QED
    BY <2>2, <2>7
<1>3. n \notin bad
  BY <1>2
<1> QED
  BY <1>3

\* Nothing runs from the entry; the last of some instructions runs on what the
\* others leave.
LEMMA RunStep ==
    ASSUME NEW ins, NEW entry, NEW n \in Nat, NEW O \in SUBSET (0 .. (n - 1))
    PROVE  RunOver(ins, entry, O) =
               IF O = {} THEN Started(entry)
               ELSE IterateOver(ins, RunOver(ins, entry, O \ {Max(O)}), Max(O))
<1> DEFINE f == CHOOSE f : Runs(ins, entry, f, O)
           P == O \ {Max(O)}
           g == CHOOSE g : Runs(ins, entry, g, P)
<1>1. Runs(ins, entry, f, O) /\ RunOver(ins, entry, O) = f[O]
  BY RunsExist, RunsOver
<1>2. Runs(ins, entry, g, P) /\ RunOver(ins, entry, P) = g[P]
  <2>1. P \in SUBSET (0 .. (n - 1))
    OBVIOUS
  <2> HIDE DEF P
  <2> QED
    BY <2>1, RunsExist, RunsOver
<1>3. Among(P, O)
  BY DEF Among
<1> HIDE DEF f, g, P
<1>4. f[P] = g[P]
  BY <1>1, <1>2, <1>3, RunsAgree
<1>5. f[O] = IF O = {} THEN Started(entry) ELSE IterateOver(ins, f[P], Max(O))
  BY <1>1 DEF Runs, P
<1> QED
  BY <1>1, <1>2, <1>4, <1>5 DEF P

-----------------------------------------------------------------------------
(***************************************************************************)
(* One instruction on a stack                                              *)
(***************************************************************************)

IsSequence(s) == \E S : s \in Seq(S)

\* Counted from the top, which is last.
Top(s, j) == s[Len(s) - j + 1]

LEMMA ArgsType == ASSUME NEW op PROVE Args(op) \in Nat
<1>1. IsDup(op) => op - DUP1 + 1 \in Nat
  BY DEF IsDup, DUP1
<1>2. IsSwap(op) => op - SWAP1 + 2 \in Nat
  BY DEF IsSwap, SWAP1
<1> QED
  BY <1>1, <1>2 DEF Args

LEMMA RetType == ASSUME NEW op PROVE Ret(op) \in {0, 1}
  BY DEF Ret

LEMMA MissingType ==
    ASSUME NEW op, NEW stk, IsSequence(stk)
    PROVE  Missing(op, stk) \in Nat
<1>1. Len(stk) \in Nat
  BY DEF IsSequence
<1> QED
  BY <1>1, ArgsType DEF Missing

\* A function on 1 .. n is a sequence of length n.
LEMMA IsSequenceOf ==
    ASSUME NEW n \in Nat, NEW f, f = [i \in 1 .. n |-> f[i]]
    PROVE  IsSequence(f) /\ Len(f) = n
<1>1. f \in [1 .. n -> {f[i] : i \in 1 .. n}]
  OBVIOUS
<1>2. f \in Seq({f[i] : i \in 1 .. n})
  BY <1>1
<1>3. Len(f) \in Nat /\ 1 .. Len(f) = 1 .. n
  BY <1>1, <1>2, LenProperties
<1>4. Len(f) = n
  BY <1>3
<1>5. IsSequence(f)
  BY <1>2 DEF IsSequence
<1> QED
  BY <1>4, <1>5

\* An instruction's inputs are what is on top of the stack, and then arguments.
LEMMA InputsAre ==
    ASSUME NEW op, NEW stk, NEW count, IsSequence(stk),
           NEW inputs, inputs = Inputs(op, stk, count)
    PROVE  /\ IsSequence(inputs) /\ Len(inputs) = Args(op)
           /\ \A i \in 1 .. Args(op) :
                 inputs[i] = IF i <= Len(stk) THEN Top(stk, i)
                             ELSE Argument(count + i - Len(stk) - 1)
<1>1. inputs = [i \in 1 .. Args(op) |-> inputs[i]]
  BY DEF Inputs
<1>2. IsSequence(inputs) /\ Len(inputs) = Args(op)
  BY <1>1, ArgsType, IsSequenceOf
<1> QED
  BY <1>2 DEF Inputs, Top

\* What an instruction leaves: its outputs, the first one on top, and below them what
\* it did not take.
LEMMA PushedIs ==
    ASSUME NEW op, NEW stk, NEW outputs, IsSequence(stk), IsSequence(outputs),
           NEW after, after = Pushed(Rest(op, stk), outputs)
    PROVE  /\ IsSequence(after)
           /\ Len(after) = Len(outputs)
                  + (IF Args(op) > Len(stk) THEN 0 ELSE Len(stk) - Args(op))
           /\ \A j \in 1 .. Len(outputs) : Top(after, j) = outputs[j]
           /\ \A k \in 1 .. Len(after) - Len(outputs) : after[k] = stk[k]
<1> DEFINE n == Len(outputs)
           top == [i \in 1 .. n |-> outputs[n - i + 1]]
           m == Len(stk) - Args(op)
           rest == Rest(op, stk)
<1>1. PICK S : stk \in Seq(S)
  BY DEF IsSequence
<1>2. n \in Nat /\ Len(stk) \in Nat /\ Args(op) \in Nat
  BY <1>1, ArgsType DEF IsSequence
<1>3. IsSequence(top) /\ Len(top) = n
  <2>1. top = [i \in 1 .. n |-> top[i]]
    OBVIOUS
  <2> HIDE DEF top, n
  <2> QED
    BY <1>2, <2>1, IsSequenceOf
<1>4. PICK T : top \in Seq(T)
  BY <1>3 DEF IsSequence
<1>5. /\ rest \in Seq(S) /\ Len(rest) = IF m >= 1 THEN m ELSE 0
      /\ \A k \in 1 .. Len(rest) : rest[k] = stk[k]
  <2>1. m \in Int /\ m <= Len(stk)
    BY <1>2
  <2>2. rest = SubSeq(stk, 1, m)
    BY DEF Rest
  <2> HIDE DEF m, rest
  <2> QED
    BY <1>1, <1>2, <2>1, <2>2
<1>6. after = rest \o top
  BY DEF Pushed
<1>7. /\ after \in Seq(S \cup T) /\ Len(after) = Len(rest) + n
      /\ \A k \in 1 .. Len(after) :
            after[k] = IF k <= Len(rest) THEN rest[k] ELSE top[k - Len(rest)]
  <2> HIDE DEF top, rest, n, m
  <2>1. rest \in Seq(S \cup T) /\ top \in Seq(S \cup T)
    BY <1>4, <1>5
  <2>2. /\ after \in Seq(S \cup T) /\ Len(after) = Len(rest) + Len(top)
        /\ \A k \in 1 .. Len(rest) + Len(top) :
              after[k] = IF k <= Len(rest) THEN rest[k] ELSE top[k - Len(rest)]
    BY <1>6, <2>1, ConcatProperties
  <2> QED
    BY <1>3, <2>2
<1>8. Len(rest) \in Nat /\ Len(rest) = IF Args(op) > Len(stk) THEN 0 ELSE m
  BY <1>2, <1>5
<1>9. ASSUME NEW j \in 1 .. n
      PROVE  Top(after, j) = outputs[j]
  <2>1. /\ Len(after) - j + 1 \in 1 .. Len(after) /\ Len(after) - j + 1 > Len(rest)
        /\ Len(after) - j + 1 - Len(rest) = n - j + 1 /\ n - j + 1 \in 1 .. n
    BY <1>2, <1>7, <1>8
  <2>2. after[Len(after) - j + 1] = top[n - j + 1]
    <3> HIDE DEF top, rest, n
    <3> QED
      BY <1>7, <1>8, <2>1
  <2>3. top[n - j + 1] = outputs[n - (n - j + 1) + 1] /\ n - (n - j + 1) + 1 = j
    BY <1>2, <2>1
  <2> QED
    BY <2>2, <2>3 DEF Top
<1>10. ASSUME NEW k \in 1 .. Len(after) - n
       PROVE  after[k] = stk[k]
  <2>1. k \in 1 .. Len(rest) /\ k \in 1 .. Len(after)
    BY <1>2, <1>7, <1>8
  <2> HIDE DEF top, rest, n
  <2> QED
    BY <1>5, <1>7, <2>1
<1>11. IsSequence(after)
  BY <1>7 DEF IsSequence
<1> QED
  BY <1>7, <1>8, <1>9, <1>10, <1>11

\* The cases of solve_outputs_for_inputs exclude each other.
LEMMA OpKinds ==
    ASSUME NEW op, NEW inputs
    PROVE  /\ IsPush(op) => ~IsSwap(op) /\ ~IsDup(op) /\ ~Folds(op, inputs)
           /\ IsSwap(op) => ~IsPush(op) /\ ~IsDup(op) /\ ~Folds(op, inputs) /\ Args(op) > 1
           /\ IsDup(op) => ~IsPush(op) /\ ~IsSwap(op) /\ ~Folds(op, inputs) /\ Args(op) > 0
           /\ Folds(op, inputs) => ~IsPush(op) /\ ~IsSwap(op) /\ ~IsDup(op) /\ Ret(op) = 1
<1> USE DEF IsPush, IsSwap, IsDup, PUSH1, SWAP1, DUP1
<1>1. IsSwap(op) => ~IsPush(op)
  OBVIOUS
<1>2. IsDup(op) => ~IsPush(op) /\ ~IsSwap(op)
  OBVIOUS
<1>3. IsDup(op) => Args(op) > 0
  BY DEF Args
<1>4. IsSwap(op) => Args(op) > 1
  BY <1>2 DEF Args
<1>5. Folds(op, inputs) => ~IsPush(op) /\ ~IsSwap(op) /\ ~IsDup(op) /\ Ret(op) = 1
  BY DEF Folds, IsArithmetic, EXP, DIV, NOT, ISZERO, SUB, OR, AND, ADD, GT, LT, XOR, MUL, MOD, EQ,
         SDIV, Ret
<1> HIDE DEF IsPush, IsSwap, IsDup
<1> QED
  BY <1>1, <1>2, <1>3, <1>4, <1>5

\* The outputs: those of a PUSH ...
LEMMA PushOutputs ==
    ASSUME NEW op, NEW o, NEW data, NEW inputs, IsPush(op)
    PROVE  Outputs(op, o, data, inputs) = <<Constant(data)>>
<1>1. ~IsSwap(op) /\ ~IsDup(op) /\ ~Folds(op, inputs)
  BY OpKinds
<1> QED
  BY <1>1 DEF Outputs

\* ... of a SWAP ...
LEMMA SwapOutputs ==
    ASSUME NEW op, NEW o, NEW data, NEW inputs, IsSwap(op), IsSequence(inputs),
           NEW outputs, outputs = Outputs(op, o, data, inputs)
    PROVE  /\ IsSequence(outputs) /\ Len(outputs) = Len(inputs)
           /\ \A i \in 1 .. Len(inputs) :
                 outputs[i] = inputs[IF i = 1 THEN Len(inputs)
                                     ELSE IF i = Len(inputs) THEN 1 ELSE i]
<1>1. outputs = Swapped(inputs)
  <2>1. ~IsPush(op) /\ ~IsDup(op) /\ ~Folds(op, inputs)
    BY OpKinds
  <2> QED
    BY <2>1 DEF Outputs
<1>2. Len(inputs) \in Nat
  BY DEF IsSequence
<1>3. outputs = [i \in 1 .. Len(inputs) |-> outputs[i]]
  BY <1>1 DEF Swapped
<1>4. IsSequence(outputs) /\ Len(outputs) = Len(inputs)
  BY <1>2, <1>3, IsSequenceOf
<1> QED
  BY <1>1, <1>4 DEF Swapped

\* ... of a DUP ...
LEMMA DupOutputs ==
    ASSUME NEW op, NEW o, NEW data, NEW inputs, IsDup(op), IsSequence(inputs),
           NEW outputs, outputs = Outputs(op, o, data, inputs)
    PROVE  /\ IsSequence(outputs) /\ Len(outputs) = 1 + Len(inputs)
           /\ outputs[1] = inputs[Len(inputs)]
           /\ \A i \in 2 .. 1 + Len(inputs) : outputs[i] = inputs[i - 1]
<1>1. outputs = <<inputs[Len(inputs)]>> \o inputs
  <2>1. ~IsPush(op) /\ ~IsSwap(op) /\ ~Folds(op, inputs)
    BY OpKinds
  <2> QED
    BY <2>1 DEF Outputs
<1>2. PICK S : inputs \in Seq(S)
  BY DEF IsSequence
<1> DEFINE S1 == S \cup {inputs[Len(inputs)]}
<1>3. inputs \in Seq(S1) /\ <<inputs[Len(inputs)]>> \in Seq(S1)
  BY <1>2
<1> HIDE DEF S1
<1>4. /\ outputs \in Seq(S1) /\ Len(outputs) = 1 + Len(inputs)
      /\ \A i \in 1 .. 1 + Len(inputs) :
            outputs[i] = IF i <= 1 THEN <<inputs[Len(inputs)]>>[i] ELSE inputs[i - 1]
  BY <1>1, <1>3, ConcatProperties
<1>5. Len(inputs) \in Nat
  BY <1>2
<1> QED
  BY <1>4, <1>5 DEF IsSequence

\* ... and of anything else.
LEMMA OtherOutputs ==
    ASSUME NEW op, NEW o, NEW data, NEW inputs, ~IsPush(op), ~IsSwap(op), ~IsDup(op),
           NEW outputs, outputs = Outputs(op, o, data, inputs)
    PROVE  /\ IsSequence(outputs) /\ Len(outputs) = Ret(op)
           /\ Ret(op) = 1 => outputs[1] = IF Folds(op, inputs)
                                          THEN Constant(Solve(op, Values(inputs)))
                                          ELSE ResultOf(o)
<1>1. CASE Folds(op, inputs)
  <2>1. outputs = <<Constant(Solve(op, Values(inputs)))>>
    BY <1>1 DEF Outputs
  <2>2. Ret(op) = 1
    BY <1>1, OpKinds
  <2> DEFINE c == Constant(Solve(op, Values(inputs)))
  <2> HIDE DEF c
  <2>3. outputs = <<c>>
    BY <2>1 DEF c
  <2>4. outputs \in Seq({c}) /\ Len(outputs) = 1 /\ outputs[1] = c
    BY <2>3
  <2> QED
    BY <1>1, <2>2, <2>4 DEF IsSequence, c
<1>2. CASE ~Folds(op, inputs)
  <2>1. outputs = [i \in 1 .. Ret(op) |-> ResultOf(o)]
    BY <1>2 DEF Outputs
  <2>2. IsSequence(outputs) /\ Len(outputs) = Ret(op)
    <3>1. outputs = [i \in 1 .. Ret(op) |-> outputs[i]]
      BY <2>1
    <3> QED
      BY <3>1, RetType, IsSequenceOf
  <2>3. Ret(op) = 1 => outputs[1] = ResultOf(o)
    BY <2>1
  <2> QED
    BY <1>2, <2>2, <2>3
<1> QED
  BY <1>1, <1>2

\* An output is a number, the result of the instruction or one of its inputs.
LEMMA OutputsFrom ==
    ASSUME NEW op, NEW o, NEW data, NEW inputs, IsSequence(inputs), Len(inputs) = Args(op),
           NEW outputs, outputs = Outputs(op, o, data, inputs)
    PROVE  /\ IsSequence(outputs)
           /\ \A j \in 1 .. Len(outputs) :
                 \/ \E v : outputs[j] = Constant(v)
                 \/ outputs[j] = ResultOf(o)
                 \/ \E i \in 1 .. Len(inputs) : outputs[j] = inputs[i]
<1>1. Args(op) \in Nat
  BY ArgsType
<1>2. CASE IsPush(op)
  <2>1. outputs = <<Constant(data)>>
    BY <1>2, PushOutputs
  <2>2. outputs \in Seq({Constant(data)}) /\ Len(outputs) = 1 /\ outputs[1] = Constant(data)
    BY <2>1
  <2> QED
    BY <2>2 DEF IsSequence
<1>3. CASE IsSwap(op)
  <2>1. /\ IsSequence(outputs) /\ Len(outputs) = Len(inputs)
        /\ \A i \in 1 .. Len(inputs) :
              outputs[i] = inputs[IF i = 1 THEN Len(inputs)
                                  ELSE IF i = Len(inputs) THEN 1 ELSE i]
    BY <1>3, SwapOutputs
  <2>2. Args(op) > 1
    BY <1>3, OpKinds
  <2>3. \A i \in 1 .. Len(inputs) :
            (IF i = 1 THEN Len(inputs) ELSE IF i = Len(inputs) THEN 1 ELSE i) \in 1 .. Len(inputs)
    BY <1>1, <2>2
  <2> QED
    BY <2>1, <2>3
<1>4. CASE IsDup(op)
  <2>1. /\ IsSequence(outputs) /\ Len(outputs) = 1 + Len(inputs)
        /\ outputs[1] = inputs[Len(inputs)]
        /\ \A i \in 2 .. 1 + Len(inputs) : outputs[i] = inputs[i - 1]
    BY <1>4, DupOutputs
  <2>2. Len(inputs) \in 1 .. Len(inputs)
    BY <1>1, <1>4, OpKinds
  <2>3. ASSUME NEW j \in 1 .. Len(outputs), j # 1
        PROVE  \E i \in 1 .. Len(inputs) : outputs[j] = inputs[i]
    <3>1. j \in 2 .. 1 + Len(inputs) /\ j - 1 \in 1 .. Len(inputs)
      BY <1>1, <2>1, <2>3
    <3> QED
      BY <2>1, <3>1
  <2> QED
    BY <2>1, <2>2, <2>3
<1>5. CASE ~IsPush(op) /\ ~IsSwap(op) /\ ~IsDup(op)
  <2>1. /\ IsSequence(outputs) /\ Len(outputs) = Ret(op)
        /\ Ret(op) = 1 => outputs[1] = IF Folds(op, inputs)
                                       THEN Constant(Solve(op, Values(inputs)))
                                       ELSE ResultOf(o)
    BY <1>5, OtherOutputs
  <2>2. \A j \in 1 .. Ret(op) : Ret(op) = 1 /\ j = 1
    BY RetType
  <2> QED
    BY <2>1, <2>2
<1> QED
  BY <1>2, <1>3, <1>4, <1>5

\* What can come out of running some instructions: a stack, exits, two at most, and
\* one of the causes of a panic.
RunType(run) ==
    /\ run = [cause |-> run.cause, stack |-> run.stack, exits |-> run.exits]
    /\ run.cause \in {"none", "floating value", "arithmetic", "dynamic target"}
    /\ IsSequence(run.stack)
    /\ IsSequence(run.exits) /\ Len(run.exits) \in 0 .. 2

LEMMA RunTypeOf ==
    ASSUME NEW why \in {"none", "floating value", "arithmetic", "dynamic target"},
           NEW stk, IsSequence(stk), NEW exits, IsSequence(exits), Len(exits) \in 0 .. 2,
           NEW run, run = [cause |-> why, stack |-> stk, exits |-> exits]
    PROVE  RunType(run)
<1>1. run.cause = why /\ run.stack = stk /\ run.exits = exits
  OBVIOUS
<1> QED
  BY <1>1 DEF RunType

LEMMA ExitsType ==
    ASSUME NEW op, NEW o, NEW inputs
    PROVE  IsSequence(Exits(op, o, inputs)) /\ Len(Exits(op, o, inputs)) \in 0 .. 2
<1>1. \A x : IsSequence(<<x>>) /\ Len(<<x>>) = 1
  <2> TAKE x
  <2>1. <<x>> \in Seq({x}) /\ Len(<<x>>) = 1
    OBVIOUS
  <2> QED
    BY <2>1 DEF IsSequence
<1>2. IsSequence(<<>>) /\ Len(<<>>) = 0
  <2>1. <<>> \in Seq({})
    OBVIOUS
  <2> QED
    BY <2>1 DEF IsSequence
<1>3. \A x, y : IsSequence(<<x, y>>) /\ Len(<<x, y>>) = 2
  <2> TAKE x, y
  <2>1. <<x, y>> \in Seq({x, y}) /\ Len(<<x, y>>) = 2
    OBVIOUS
  <2> QED
    BY <2>1 DEF IsSequence
<1> DEFINE exits == Exits(op, o, inputs)
<1>4. IsJump(op) => ~IsStop(op) /\ op \in {JUMP, JUMPI} /\ JUMP # JUMPI
  BY DEF IsJump, IsStop, JUMP, JUMPI, STOP, RETURN
<1>5. \/ exits = <<>>
      \/ \E x : exits = <<x>>
      \/ \E x, y : exits = <<x, y>>
  <2>1. CASE IsStop(op)
    <3>1. ~IsJump(op) /\ op \notin {JUMP, JUMPI}
      BY <1>4, <2>1 DEF IsJump
    <3> QED
      BY <2>1, <3>1 DEF Exits
  <2>2. CASE ~IsStop(op) /\ ~IsJump(op)
    <3>1. op # JUMP /\ op # JUMPI
      BY <2>2 DEF IsJump
    <3> QED
      BY <2>2, <3>1 DEF Exits
  <2>3. CASE ~IsStop(op) /\ IsJump(op)
    BY <1>4, <2>3 DEF Exits
  <2> QED
    BY <2>1, <2>2, <2>3
<1> QED
  BY <1>1, <1>2, <1>3, <1>5

LEMMA IterateType ==
    ASSUME NEW ins, NEW run, NEW o, RunType(run)
    PROVE  RunType(IterateOver(ins, run, o))
<1> DEFINE op == ins[o].op
           inputs == Inputs(op, run.stack, 0)
           outputs == Outputs(op, o, ins[o].data, inputs)
           after == Pushed(Rest(op, run.stack), outputs)
           next == IterateOver(ins, run, o)
<1>1. IsSequence(after)
  <2>1. IsSequence(run.stack)
    BY DEF RunType
  <2>2. IsSequence(inputs) /\ Len(inputs) = Args(op)
    BY <2>1, InputsAre
  <2>3. IsSequence(outputs)
    <3> HIDE DEF inputs, op
    <3> QED
      BY <2>2, OutputsFrom
  <2> HIDE DEF outputs
  <2> QED
    BY <2>1, <2>3, PushedIs
<1>2. IsSequence(Exits(op, o, inputs)) /\ Len(Exits(op, o, inputs)) \in 0 .. 2
  BY ExitsType
<1>3. \/ next = run
      \/ \E why \in {"floating value", "arithmetic", "dynamic target"} :
             next = [run EXCEPT !.cause = why]
      \/ next = [cause |-> "none", stack |-> after, exits |-> Exits(op, o, inputs)]
  BY DEF IterateOver
<1> HIDE DEF next, after, inputs, op
<1>4. ASSUME next = run PROVE RunType(next)
  BY <1>4
<1>5. ASSUME NEW why \in {"floating value", "arithmetic", "dynamic target"},
             next = [run EXCEPT !.cause = why]
      PROVE  RunType(next)
  <2>1. next = [cause |-> why, stack |-> run.stack, exits |-> run.exits]
    BY <1>5 DEF RunType
  <2> QED
    BY <2>1 DEF RunType
<1>6. ASSUME next = [cause |-> "none", stack |-> after, exits |-> Exits(op, o, inputs)]
      PROVE  RunType(next)
  BY <1>1, <1>2, <1>6, RunTypeOf
<1> QED
  BY <1>3, <1>4, <1>5, <1>6 DEF next

LEMMA RunHasType ==
    ASSUME NEW ins, NEW entry, IsSequence(entry), NEW n \in Nat, NEW O \in SUBSET (0 .. (n - 1))
    PROVE  RunType(RunOver(ins, entry, O))
<1> DEFINE bad == {k \in Nat : \E P \in SUBSET (0 .. (k - 1)) : ~RunType(RunOver(ins, entry, P))}
<1>1. bad \in SUBSET Nat
  OBVIOUS
<1>2. ASSUME bad # {} PROVE FALSE
  <2>1. PICK k \in bad : \A j \in bad : k <= j
    <3> HIDE DEF bad
    <3> QED
      BY <1>1, <1>2, Smallest
  <2>2. PICK P \in SUBSET (0 .. (k - 1)) : ~RunType(RunOver(ins, entry, P))
    BY <2>1
  <2>3. k \in Nat
    BY <2>1
  <2>4. RunType(Started(entry))
    <3> DEFINE none == <<>>
    <3>1. none \in Seq({}) /\ Len(none) \in 0 .. 2
      OBVIOUS
    <3>2. Started(entry) = [cause |-> "none", stack |-> entry, exits |-> none]
      BY DEF Started
    <3> HIDE DEF none, bad
    <3> QED
      BY <3>1, <3>2, RunTypeOf DEF IsSequence
  <2>5. P # {}
    BY <2>2, <2>3, <2>4, RunStep
  <2>6. /\ Max(P) \in Nat /\ Max(P) < k
        /\ P \ {Max(P)} \in SUBSET (0 .. (Max(P) - 1))
    BY <2>2, <2>3, <2>5, MaxIsLast
  <2>7. Max(P) \notin bad
    <3> HIDE DEF bad
    <3> QED
      BY <2>1, <2>3, <2>6
  <2>8. RunType(RunOver(ins, entry, P \ {Max(P)}))
    BY <2>6, <2>7
  <2>9. RunOver(ins, entry, P) = IterateOver(ins, RunOver(ins, entry, P \ {Max(P)}), Max(P))
    BY <2>2, <2>3, <2>5, RunStep
  <2> QED
    BY <2>2, <2>8, <2>9, IterateType
<1> QED
  BY <1>2

\* An expression of the static pass: a constant has nothing but its value, a result is
\* that of an instruction among them.
Symbolic(e, them) ==
    /\ IsConstant(e) => e = Constant(e.value)
    /\ e.kind = "result" => e.value \in them

SymbolicStack(s, them) == IsSequence(s) /\ \A j \in 1 .. Len(s) : Symbolic(s[j], them)

LEMMA SymbolicInputs ==
    ASSUME NEW op, NEW stk, NEW count, NEW them, SymbolicStack(stk, them),
           NEW inputs, inputs = Inputs(op, stk, count)
    PROVE  SymbolicStack(inputs, them)
<1>1. IsSequence(stk) /\ Len(stk) \in Nat
  BY DEF SymbolicStack, IsSequence
<1>2. /\ IsSequence(inputs) /\ Len(inputs) = Args(op)
      /\ \A i \in 1 .. Args(op) :
            inputs[i] = IF i <= Len(stk) THEN Top(stk, i)
                        ELSE Argument(count + i - Len(stk) - 1)
  BY <1>1, InputsAre
<1>3. ASSUME NEW i \in 1 .. Args(op), i <= Len(stk)
      PROVE  Symbolic(inputs[i], them)
  <2>1. Len(stk) - i + 1 \in 1 .. Len(stk)
    BY <1>1, <1>3, ArgsType
  <2>2. inputs[i] = stk[Len(stk) - i + 1]
    BY <1>2, <1>3 DEF Top
  <2> QED
    BY <2>1, <2>2 DEF SymbolicStack
<1>4. ASSUME NEW i \in 1 .. Args(op), ~(i <= Len(stk))
      PROVE  Symbolic(inputs[i], them)
  BY <1>2, <1>4 DEF Symbolic, Argument, IsConstant
<1> QED
  BY <1>2, <1>3, <1>4 DEF SymbolicStack

\* An instruction leaves only such expressions behind it.
LEMMA SymbolicAfter ==
    ASSUME NEW op, NEW o, NEW data, NEW stk, NEW count, NEW them, SymbolicStack(stk, them),
           NEW others, o \in others, them \subseteq others,
           NEW after,
           after = Pushed(Rest(op, stk), Outputs(op, o, data, Inputs(op, stk, count)))
    PROVE  SymbolicStack(after, others)
<1> DEFINE inputs == Inputs(op, stk, count)
           outputs == Outputs(op, o, data, inputs)
<1>1. IsSequence(stk) /\ Len(stk) \in Nat
  BY DEF SymbolicStack, IsSequence
<1>2. SymbolicStack(inputs, them) /\ IsSequence(inputs) /\ Len(inputs) = Args(op)
  BY <1>1, SymbolicInputs, InputsAre
<1>3. /\ IsSequence(outputs)
      /\ \A j \in 1 .. Len(outputs) :
            \/ \E v : outputs[j] = Constant(v)
            \/ outputs[j] = ResultOf(o)
            \/ \E i \in 1 .. Len(inputs) : outputs[j] = inputs[i]
  <2> HIDE DEF inputs
  <2> QED
    BY <1>2, OutputsFrom
<1>4. after = Pushed(Rest(op, stk), outputs)
  OBVIOUS
<1> HIDE DEF inputs, outputs
<1>5. ASSUME NEW j \in 1 .. Len(outputs)
      PROVE  Symbolic(outputs[j], others)
  <2>1. CASE \E v : outputs[j] = Constant(v)
    BY <2>1 DEF Symbolic, Constant, IsConstant
  <2>2. CASE outputs[j] = ResultOf(o)
    BY <2>2 DEF Symbolic, ResultOf, IsConstant
  <2>3. CASE \E i \in 1 .. Len(inputs) : outputs[j] = inputs[i]
    BY <1>2, <2>3 DEF Symbolic, SymbolicStack
  <2> QED
    BY <1>3, <1>5, <2>1, <2>2, <2>3
<1>6. /\ IsSequence(after)
      /\ Len(after) = Len(outputs)
             + (IF Args(op) > Len(stk) THEN 0 ELSE Len(stk) - Args(op))
      /\ \A j \in 1 .. Len(outputs) : Top(after, j) = outputs[j]
      /\ \A k \in 1 .. Len(after) - Len(outputs) : after[k] = stk[k]
  BY <1>1, <1>3, <1>4, PushedIs
<1>7. Len(outputs) \in Nat /\ Len(after) \in Nat /\ Args(op) \in Nat
  BY <1>3, <1>6, ArgsType DEF IsSequence
<1>8. ASSUME NEW k \in 1 .. Len(after)
      PROVE  Symbolic(after[k], others)
  <2>1. CASE k <= Len(after) - Len(outputs)
    <3>1. k \in 1 .. Len(after) - Len(outputs) /\ k \in 1 .. Len(stk)
      BY <1>1, <1>6, <1>7, <2>1
    <3>2. after[k] = stk[k]
      BY <1>6, <3>1
    <3> QED
      BY <3>1, <3>2 DEF Symbolic, SymbolicStack
  <2>2. CASE ~(k <= Len(after) - Len(outputs))
    <3> DEFINE j == Len(after) - k + 1
    <3>1. j \in 1 .. Len(outputs) /\ Len(after) - j + 1 = k
      BY <1>7, <1>8, <2>2
    <3> HIDE DEF j
    <3>2. after[k] = outputs[j]
      BY <1>6, <3>1 DEF Top
    <3> QED
      BY <1>5, <3>1, <3>2
  <2> QED
    BY <2>1, <2>2
<1> QED
  BY <1>6, <1>8 DEF SymbolicStack

-----------------------------------------------------------------------------
(***************************************************************************)
(* The inductive invariant.  The open block is [start, offset): this_end,  *)
(* when it is not Nothing, is where fill_instructions stands, and nothing  *)
(* has been put into the open block when it is.                            *)
(***************************************************************************)
Position ==
    /\ offset \in Nat /\ start \in Nat /\ start <= offset
    /\ this_end = offset \/ (this_end = Nothing /\ start = offset)
    /\ DOMAIN instructions \subseteq 0 .. (offset - 1)

\* Filed blocks are records, and end in front of the next one and of the open one.
InRow ==
    /\ \A s \in DOMAIN blocks : "end" \in DOMAIN blocks[s]
    /\ \A s \in DOMAIN blocks :
          s \in Nat /\ blocks[s].end \in Nat /\ s <= blocks[s].end /\ blocks[s].end <= start
    /\ \A s, t \in DOMAIN blocks : s < t => blocks[s].end <= t

\* They hold everything in front of the open one.
FiledUpToStart ==
    \A o \in DOMAIN instructions :
        o < start => \E s \in DOMAIN blocks : s <= o /\ o < blocks[s].end

\* In the open block nothing ends a block and only the first instruction may be a
\* JUMPDEST ...
NoEndBehindStart ==
    \A o \in DOMAIN instructions :
        start <= o => ~EndsBlock(instructions[o].op) /\ (instructions[o].op = JUMPDEST => o = start)

\* ... and what ended the block before is a JUMPDEST at start, or in front of it the
\* last instruction there.
StartHasCause ==
    \/ start = 0
    \/ start \in DOMAIN instructions /\ instructions[start].op = JUMPDEST
    \/ \E p \in DOMAIN instructions :
          /\ EndsBlock(instructions[p].op)
          /\ \A o \in DOMAIN instructions : o < start => o <= p

Filing == Position /\ InRow /\ FiledUpToStart /\ NoEndBehindStart /\ StartHasCause

\* The instructions decoded so far follow each other up to offset without a gap.
Positions == DOMAIN instructions \cup {offset}

BehindOf(o) == o + 1 + PushBytes(instructions[o].op)

Contiguous ==
    /\ 0 \in Positions
    /\ \A o \in DOMAIN instructions :
          /\ BehindOf(o) \in Positions
          /\ \A p \in Positions : o < p => BehindOf(o) <= p

\* Blocks start at an instruction and end where one starts, and only their first one
\* may be a JUMPDEST.  An empty one is there only as long as the open block starts at
\* a JUMPDEST at 0: it gives way to that one when it is filed.
BlocksInCode ==
    /\ start \in Positions
    /\ this_end # Nothing /\ start = offset => offset = 0
    /\ \A s \in DOMAIN blocks :
          /\ s \in DOMAIN instructions /\ blocks[s].end \in Positions
          /\ s = blocks[s].end => s = 0 /\ start = 0 /\ instructions[0].op = JUMPDEST
          /\ \A o \in DOMAIN instructions :
                s < o /\ o < blocks[s].end => instructions[o].op # JUMPDEST

Static == Filing /\ Contiguous /\ BlocksInCode

\* T gives the symbolic stack in front of each instruction and at offset: it is empty
\* at 0 and behind a JUMPDEST.
Earlier(o) == {p \in DOMAIN instructions : p < o}

Carried(inst, o, t) ==
    IF inst.op = JUMPDEST THEN [stack |-> <<>>, args |-> 0]
    ELSE [stack |-> Pushed(Rest(inst.op, t.stack),
                           Outputs(inst.op, o, inst.data, inst.inputs)),
          args  |-> t.args + Missing(inst.op, t.stack)]

Traced(T) ==
    /\ T[0] = [stack |-> <<>>, args |-> 0]
    /\ T[offset] = [stack |-> stack, args |-> arg_count]
    /\ \A o \in Positions : SymbolicStack(T[o].stack, Earlier(o)) /\ T[o].args \in Nat
    /\ \A o \in DOMAIN instructions :
          /\ instructions[o].inputs = Inputs(instructions[o].op, T[o].stack, T[o].args)
          /\ T[BehindOf(o)] = Carried(instructions[o], o, T[o])

-----------------------------------------------------------------------------

\* A PUSH has a number of bytes behind it, anything else none.
LEMMA BehindIsBehind == offset \in Nat => Behind \in Nat /\ offset < Behind
  BY DEF Behind, PushBytes, IsPush, PUSH1

LEMMA JumpDestEndsNothing == ~EndsBlock(JUMPDEST)
  BY DEF EndsBlock, IsJump, IsStop, JUMPDEST, JUMP, JUMPI, STOP, RETURN

LEMMA InitStatic == Init => Static
  BY DEF Init, Static, Filing, Position, InRow, FiledUpToStart, NoEndBehindStart, StartHasCause,
         Contiguous, Positions, BlocksInCode

\* What a round of fill_instructions does to the instructions.
LEMMA DecodesOne ==
    ASSUME Filing, FillInstruction
    PROVE  /\ DOMAIN instructions' = DOMAIN instructions \cup {offset}
           /\ instructions'[offset].op = Op
           /\ \A o \in DOMAIN instructions :
                 o \in Nat /\ o < offset /\ instructions'[o] = instructions[o]
           /\ offset' = Behind /\ Behind \in Nat /\ offset < Behind
           /\ offset \in Nat /\ start \in Nat /\ start <= offset
           /\ this_end' = IF EndsBlock(Op) THEN Nothing ELSE Behind
           /\ start' = StartAfter
<1>1. /\ offset \in Nat /\ start \in Nat /\ start <= offset
      /\ \A o \in DOMAIN instructions : o \in Nat /\ o < offset
  BY DEF Filing, Position
<1>2. offset \notin DOMAIN instructions
  BY <1>1
<1>3. /\ instructions' = Store(instructions, offset, NewInstruction)
      /\ offset' = Behind /\ start' = StartAfter
      /\ this_end' = IF EndsBlock(Op) THEN Nothing ELSE Behind
  BY DEF FillInstruction
<1>4. instructions'[offset].op = Op
  BY <1>3 DEF Store, NewInstruction
<1>5. /\ DOMAIN instructions' = DOMAIN instructions \cup {offset}
      /\ \A o \in DOMAIN instructions : instructions'[o] = instructions[o]
  BY <1>2, <1>3 DEF Store
<1> QED
  BY <1>1, <1>3, <1>4, <1>5, BehindIsBehind

\* Where a block is filed it is the open one up to its end; if there was one under
\* its key, that one is replaced.
LEMMA FilesOne ==
    ASSUME FillInstruction, NEW end, Filed = {end}
    PROVE  /\ DOMAIN blocks' = DOMAIN blocks \cup {start}
           /\ "end" \in DOMAIN blocks'[start] /\ blocks'[start].end = end
           /\ \A s \in DOMAIN blocks : s # start => blocks'[s] = blocks[s]
<1>1. (CHOOSE e \in Filed : TRUE) = end
  OBVIOUS
<1>2. DOMAIN blocks \cup {start : e \in Filed} = DOMAIN blocks \cup {start}
  OBVIOUS
<1>3. blocks' = [s \in DOMAIN blocks \cup {start} |->
                    IF s = start THEN NewBlock(start, end) ELSE blocks[s]]
  BY <1>1, <1>2 DEF FillInstruction
<1>4. "end" \in DOMAIN NewBlock(start, end) /\ NewBlock(start, end).end = end
  BY DEF NewBlock
<1> QED
  BY <1>3, <1>4

LEMMA FilesNone ==
    ASSUME FillInstruction, Filed = {}
    PROVE  /\ DOMAIN blocks' = DOMAIN blocks
           /\ \A s \in DOMAIN blocks : blocks'[s] = blocks[s]
  BY DEF FillInstruction

\* A filed block stands in the row, and the new open block starts where it ends.
LEMMA FilingKeepsRow ==
    ASSUME Filing, FillInstruction, NEW end, Filed = {end},
           end \in Nat, start <= end, start' = end
    PROVE  InRow'
<1>1. /\ DOMAIN blocks' = DOMAIN blocks \cup {start}
      /\ "end" \in DOMAIN blocks'[start] /\ blocks'[start].end = end
      /\ \A s \in DOMAIN blocks : s # start => blocks'[s] = blocks[s]
  BY FilesOne
<1>2. \A s \in DOMAIN blocks :
          s \in Nat /\ blocks[s].end \in Nat /\ s <= blocks[s].end /\ blocks[s].end <= start
  BY DEF Filing, InRow
<1>3. start \in Nat
  BY DEF Filing, Position
<1>4. \A s \in DOMAIN blocks' :
          s \in Nat /\ blocks'[s].end \in Nat /\ s <= blocks'[s].end /\ blocks'[s].end <= start'
  BY <1>1, <1>2, <1>3
<1>5. ASSUME NEW s \in DOMAIN blocks', NEW t \in DOMAIN blocks', s < t
      PROVE  blocks'[s].end <= t
  <2>1. s # start
    BY <1>1, <1>2, <1>3, <1>5
  <2>2. s \in DOMAIN blocks /\ blocks'[s].end = blocks[s].end
    BY <1>1, <2>1
  <2>3. CASE t = start
    BY <1>2, <2>2, <2>3
  <2>4. CASE t # start
    BY <1>1, <1>5, <2>2, <2>4 DEF Filing, InRow
  <2> QED
    BY <2>3, <2>4
<1>6. \A s \in DOMAIN blocks' : "end" \in DOMAIN blocks'[s]
  BY <1>1 DEF Filing, InRow
<1> QED
  BY <1>4, <1>5, <1>6 DEF InRow

\* A block filed that reaches over all instructions in front of the new start.
LEMMA FilingCovers ==
    ASSUME Filing, FillInstruction, NEW end, Filed = {end},
           \A o \in DOMAIN instructions' : o < start' => o < end
    PROVE  FiledUpToStart'
<1> SUFFICES ASSUME NEW o \in DOMAIN instructions', o < start'
             PROVE  \E s \in DOMAIN blocks' : s <= o /\ o < blocks'[s].end
  BY DEF FiledUpToStart
<1>1. /\ DOMAIN blocks' = DOMAIN blocks \cup {start}
      /\ blocks'[start].end = end
      /\ \A s \in DOMAIN blocks : s # start => blocks'[s] = blocks[s]
  BY FilesOne
<1>2. o \in Nat /\ start \in Nat /\ (o \in DOMAIN instructions \/ o = offset) /\ start <= offset
  BY DecodesOne
<1>3. CASE start <= o
  BY <1>1, <1>3
<1>4. CASE o < start
  <2>1. o \in DOMAIN instructions
    BY <1>2, <1>4, DecodesOne
  <2>2. PICK s \in DOMAIN blocks : s <= o /\ o < blocks[s].end
    BY <1>4, <2>1 DEF Filing, FiledUpToStart
  <2>3. s # start
    BY <1>2, <1>4, <2>2 DEF Filing, InRow
  <2> QED
    BY <1>1, <2>2, <2>3
<1> QED
  BY <1>2, <1>3, <1>4

-----------------------------------------------------------------------------

LEMMA FillKeeps ==
    ASSUME Filing, FillInstruction
    PROVE  Filing'
<1>1. /\ DOMAIN instructions' = DOMAIN instructions \cup {offset}
      /\ instructions'[offset].op = Op
      /\ \A o \in DOMAIN instructions :
            o \in Nat /\ o < offset /\ instructions'[o] = instructions[o]
      /\ offset' = Behind /\ Behind \in Nat /\ offset < Behind
      /\ offset \in Nat /\ start \in Nat /\ start <= offset
      /\ this_end' = IF EndsBlock(Op) THEN Nothing ELSE Behind
      /\ start' = StartAfter
  BY DecodesOne
<1>2. this_end = offset \/ (this_end = Nothing /\ start = offset)
  BY DEF Filing, Position
<1>3. Position'
  <2>1. start' \in Nat /\ start' <= offset'
    BY <1>1 DEF StartAfter
  <2>2. this_end' = offset' \/ (this_end' = Nothing /\ start' = offset')
    BY <1>1, JumpDestEndsNothing DEF StartAfter
  <2>3. DOMAIN instructions' \subseteq 0 .. (offset' - 1)
    BY <1>1
  <2> QED
    BY <1>1, <2>1, <2>2, <2>3 DEF Position
<1>4. CASE Op = JUMPDEST
  <2>1. start' = offset
    BY <1>1, <1>4 DEF StartAfter
  <2>2. NoEndBehindStart'
    BY <1>1, <1>4, <2>1, JumpDestEndsNothing DEF NoEndBehindStart
  <2>3. StartHasCause'
    BY <1>1, <1>4, <2>1 DEF StartHasCause
  <2>4. CASE this_end = Nothing
    <3>1. Filed = {} /\ start = offset
      BY <1>1, <1>2, <1>4, <2>4, JumpDestEndsNothing DEF Filed, Nothing
    <3>2. InRow'
      BY <2>1, <3>1, FilesNone DEF Filing, InRow
    <3>3. FiledUpToStart'
      <4>1. \A o \in DOMAIN instructions' : o < start' => o \in DOMAIN instructions /\ o < start
        BY <1>1, <2>1, <3>1
      <4> QED
        BY <3>1, <4>1, FilesNone DEF Filing, FiledUpToStart
    <3> QED
      BY <1>3, <2>2, <2>3, <3>2, <3>3 DEF Filing
  <2>5. CASE this_end # Nothing
    <3>1. Filed = {offset}
      BY <1>2, <1>4, <2>5 DEF Filed
    <3>2. InRow'
      BY <1>1, <2>1, <3>1, FilingKeepsRow
    <3>3. FiledUpToStart'
      BY <2>1, <3>1, FilingCovers
    <3> QED
      BY <1>3, <2>2, <2>3, <3>2, <3>3 DEF Filing
  <2> QED
    BY <2>4, <2>5
<1>5. CASE Op # JUMPDEST /\ EndsBlock(Op)
  <2>1. start' = Behind /\ Filed = {Behind}
    BY <1>1, <1>5 DEF StartAfter, Filed
  <2>2. InRow'
    BY <1>1, <2>1, FilingKeepsRow
  <2>3. FiledUpToStart'
    BY <2>1, FilingCovers
  <2>4. NoEndBehindStart'
    BY <1>1, <2>1 DEF NoEndBehindStart
  <2>5. StartHasCause'
    <3>1. EndsBlock(instructions'[offset].op) /\ offset \in DOMAIN instructions'
      BY <1>1, <1>5
    <3>2. \A o \in DOMAIN instructions' : o <= offset
      BY <1>1
    <3> QED
      BY <3>1, <3>2 DEF StartHasCause
  <2> QED
    BY <1>3, <2>2, <2>3, <2>4, <2>5 DEF Filing
<1>6. CASE Op # JUMPDEST /\ ~EndsBlock(Op)
  <2>1. start' = start /\ Filed = {}
    BY <1>1, <1>6 DEF StartAfter, Filed
  <2>2. InRow'
    BY <2>1, FilesNone DEF Filing, InRow
  <2>3. FiledUpToStart'
    <3>1. \A o \in DOMAIN instructions' : o < start' => o \in DOMAIN instructions /\ o < start
      BY <1>1, <2>1
    <3> QED
      BY <2>1, <3>1, FilesNone DEF Filing, FiledUpToStart
  <2>4. NoEndBehindStart'
    BY <1>1, <1>6, <2>1 DEF Filing, NoEndBehindStart
  <2>5. StartHasCause'
    <3>1. CASE start = 0
      BY <2>1, <3>1 DEF StartHasCause
    <3>2. CASE start \in DOMAIN instructions /\ instructions[start].op = JUMPDEST
      BY <1>1, <2>1, <3>2 DEF StartHasCause
    <3>3. ASSUME NEW p \in DOMAIN instructions, EndsBlock(instructions[p].op),
                 \A o \in DOMAIN instructions : o < start => o <= p
          PROVE  StartHasCause'
      <4>1. p \in DOMAIN instructions' /\ EndsBlock(instructions'[p].op)
        BY <1>1, <3>3
      <4>2. \A o \in DOMAIN instructions' : o < start' => o <= p
        BY <1>1, <2>1, <3>3
      <4> QED
        BY <4>1, <4>2 DEF StartHasCause
    <3> QED
      BY <3>1, <3>2, <3>3 DEF Filing, StartHasCause
  <2> QED
    BY <1>3, <2>2, <2>3, <2>4, <2>5 DEF Filing
<1> QED
  BY <1>4, <1>5, <1>6

LEMMA FillKeepsContiguous ==
    ASSUME Filing, Contiguous, FillInstruction
    PROVE  Contiguous' /\ Positions' = Positions \cup {Behind}
<1>1. /\ DOMAIN instructions' = DOMAIN instructions \cup {offset}
      /\ instructions'[offset].op = Op
      /\ \A o \in DOMAIN instructions :
            o \in Nat /\ o < offset /\ instructions'[o] = instructions[o]
      /\ offset' = Behind /\ Behind \in Nat /\ offset < Behind
      /\ offset \in Nat
  BY DecodesOne
<1>2. Positions' = Positions \cup {Behind}
  BY <1>1 DEF Positions
<1>3. /\ \A o \in DOMAIN instructions : o + 1 + PushBytes(instructions'[o].op) = BehindOf(o)
      /\ offset + 1 + PushBytes(instructions'[offset].op) = Behind
  BY <1>1 DEF BehindOf, Behind
<1>4. ASSUME NEW o \in DOMAIN instructions'
      PROVE  /\ o + 1 + PushBytes(instructions'[o].op) \in Positions'
             /\ \A p \in Positions' : o < p => o + 1 + PushBytes(instructions'[o].op) <= p
  <2>1. CASE o = offset
    <3>1. \A p \in Positions' : o < p => p = Behind
      BY <1>1, <1>2, <2>1 DEF Positions
    <3> QED
      BY <1>1, <1>2, <1>3, <2>1, <3>1
  <2>2. CASE o \in DOMAIN instructions
    <3>1. /\ BehindOf(o) \in Positions
          /\ \A p \in Positions : o < p => BehindOf(o) <= p
      BY <2>2 DEF Contiguous
    <3>2. BehindOf(o) <= offset
      BY <1>1, <2>2, <3>1 DEF Positions
    <3>3. BehindOf(o) \in Nat
      BY <1>1, <3>1 DEF Positions
    <3>4. BehindOf(o) <= Behind
      BY <1>1, <3>2, <3>3
    <3> QED
      BY <1>2, <1>3, <2>2, <3>1, <3>4
  <2> QED
    BY <1>1, <2>1, <2>2
<1>5. 0 \in Positions'
  BY <1>2 DEF Contiguous
<1> QED
  BY <1>2, <1>4, <1>5 DEF Contiguous, BehindOf

LEMMA FillKeepsBlocksInCode ==
    ASSUME Filing, Contiguous, BlocksInCode, FillInstruction
    PROVE  BlocksInCode'
<1>1. /\ DOMAIN instructions' = DOMAIN instructions \cup {offset}
      /\ instructions'[offset].op = Op
      /\ \A o \in DOMAIN instructions :
            o \in Nat /\ o < offset /\ instructions'[o] = instructions[o]
      /\ offset' = Behind /\ Behind \in Nat /\ offset < Behind
      /\ offset \in Nat /\ start \in Nat /\ start <= offset
      /\ this_end' = IF EndsBlock(Op) THEN Nothing ELSE Behind
      /\ start' = StartAfter
  BY DecodesOne
<1>2. Positions' = Positions \cup {Behind} /\ offset \in Positions
  BY FillKeepsContiguous DEF Positions
<1>3. start' \in Positions'
  BY <1>1, <1>2 DEF StartAfter, BlocksInCode
<1>4. this_end' # Nothing => start' # offset'
  BY <1>1 DEF StartAfter
<1>5. /\ this_end = offset \/ (this_end = Nothing /\ start = offset)
      /\ \A s \in DOMAIN blocks :
            s \in Nat /\ blocks[s].end \in Nat /\ s <= blocks[s].end /\ blocks[s].end <= start
  BY DEF Filing, Position, InRow
\* What holds of a block that is not replaced goes on holding.
<1>6. ASSUME NEW s \in DOMAIN blocks, s \in DOMAIN blocks', blocks'[s] = blocks[s],
             s = 0 => start' = start
      PROVE  /\ s \in DOMAIN instructions' /\ blocks'[s].end \in Positions'
             /\ s = blocks'[s].end => s = 0 /\ start' = 0 /\ instructions'[0].op = JUMPDEST
             /\ \A o \in DOMAIN instructions' :
                   s < o /\ o < blocks'[s].end => instructions'[o].op # JUMPDEST
  <2>1. s \in DOMAIN instructions' /\ blocks'[s].end \in Positions'
    BY <1>1, <1>2, <1>6 DEF BlocksInCode
  <2>2. s = blocks'[s].end => s = 0 /\ start' = 0 /\ instructions'[0].op = JUMPDEST
    BY <1>1, <1>6 DEF BlocksInCode
  <2>3. ASSUME NEW o \in DOMAIN instructions', s < o, o < blocks'[s].end
        PROVE  instructions'[o].op # JUMPDEST
    <3>1. o \in DOMAIN instructions
      BY <1>1, <1>5, <1>6, <2>3
    <3> QED
      BY <1>1, <1>6, <2>3, <3>1 DEF BlocksInCode
  <2> QED
    BY <2>1, <2>2, <2>3
<1>7. ASSUME NEW end, Filed = {end}, end \in {offset, Behind}, end = offset => Op = JUMPDEST,
             end = Behind => EndsBlock(Op), end = offset => this_end # Nothing
      PROVE  BlocksInCode'
  <2>1. /\ DOMAIN blocks' = DOMAIN blocks \cup {start}
        /\ blocks'[start].end = end
        /\ \A s \in DOMAIN blocks : s # start => blocks'[s] = blocks[s]
    BY <1>7, FilesOne
  <2>2. \A s \in DOMAIN blocks : s # start /\ s = 0 => blocks[s].end # 0
    BY DEF BlocksInCode
  <2>3. ASSUME NEW s \in DOMAIN blocks', s # start
        PROVE  /\ s \in DOMAIN instructions' /\ blocks'[s].end \in Positions'
               /\ s = blocks'[s].end => s = 0 /\ start' = 0 /\ instructions'[0].op = JUMPDEST
               /\ \A o \in DOMAIN instructions' :
                     s < o /\ o < blocks'[s].end => instructions'[o].op # JUMPDEST
    <3>1. s \in DOMAIN blocks /\ blocks'[s] = blocks[s]
      BY <2>1, <2>3
    <3>2. s \in DOMAIN instructions' /\ blocks'[s].end \in Positions'
      BY <1>1, <1>2, <3>1 DEF BlocksInCode
    <3>3. s # blocks'[s].end
      BY <2>2, <2>3, <3>1 DEF BlocksInCode
    <3>4. ASSUME NEW o \in DOMAIN instructions', s < o, o < blocks'[s].end
          PROVE  instructions'[o].op # JUMPDEST
      <4>1. o \in DOMAIN instructions
        BY <1>1, <1>5, <3>1, <3>4
      <4> QED
        BY <1>1, <3>1, <3>4, <4>1 DEF BlocksInCode
    <3> QED
      BY <3>2, <3>3, <3>4
  <2>4. start \in DOMAIN instructions' /\ end \in Positions'
    BY <1>1, <1>2, <1>7 DEF BlocksInCode, Positions
  <2>5. start = end => start = 0 /\ start' = 0 /\ instructions'[0].op = JUMPDEST
    <3> SUFFICES ASSUME start = end PROVE start = 0 /\ start' = 0 /\ instructions'[0].op = JUMPDEST
      OBVIOUS
    <3>1. end = offset
      BY <1>1, <1>7
    <3>2. offset = 0
      BY <1>7, <3>1 DEF BlocksInCode
    <3> QED
      BY <1>1, <1>7, <3>1, <3>2 DEF StartAfter
  <2>6. ASSUME NEW o \in DOMAIN instructions', start < o, o < end
        PROVE  instructions'[o].op # JUMPDEST
    <3>1. CASE o = offset
      <4>1. EndsBlock(Op)
        BY <1>1, <1>7, <2>6, <3>1
      <4> QED
        BY <1>1, <3>1, <4>1, JumpDestEndsNothing
    <3>2. CASE o \in DOMAIN instructions
      <4>1. o \in Nat /\ instructions'[o] = instructions[o]
        BY <1>1, <3>2
      <4>2. start <= o /\ o # start
        BY <1>1, <2>6, <4>1
      <4> QED
        BY <3>2, <4>1, <4>2 DEF Filing, NoEndBehindStart
    <3> QED
      BY <1>1, <3>1, <3>2
  <2>7. ASSUME NEW s \in DOMAIN blocks'
        PROVE  /\ s \in DOMAIN instructions' /\ blocks'[s].end \in Positions'
               /\ s = blocks'[s].end => s = 0 /\ start' = 0 /\ instructions'[0].op = JUMPDEST
               /\ \A o \in DOMAIN instructions' :
                     s < o /\ o < blocks'[s].end => instructions'[o].op # JUMPDEST
    BY <2>1, <2>3, <2>4, <2>5, <2>6
  <2> QED
    BY <1>3, <1>4, <2>7 DEF BlocksInCode
<1>8. CASE Filed = {}
  <2>1. /\ DOMAIN blocks' = DOMAIN blocks
        /\ \A s \in DOMAIN blocks : blocks'[s] = blocks[s]
    BY <1>8, FilesNone
  <2>2. start' = start
    <3>1. Op = JUMPDEST => start = offset
      BY <1>1, <1>5, <1>8 DEF Filed, Nothing
    <3>2. Op # JUMPDEST => ~EndsBlock(Op)
      BY <1>8 DEF Filed
    <3> QED
      BY <1>1, <3>1, <3>2 DEF StartAfter
  <2>3. \A s \in DOMAIN blocks' :
            /\ s \in DOMAIN instructions' /\ blocks'[s].end \in Positions'
            /\ s = blocks'[s].end => s = 0 /\ start' = 0 /\ instructions'[0].op = JUMPDEST
            /\ \A o \in DOMAIN instructions' :
                  s < o /\ o < blocks'[s].end => instructions'[o].op # JUMPDEST
    BY <1>6, <2>1, <2>2
  <2> QED
    BY <1>3, <1>4, <2>3 DEF BlocksInCode
<1>9. CASE Op = JUMPDEST /\ this_end # Nothing
  <2>1. Filed = {offset} /\ offset # Behind
    BY <1>1, <1>5, <1>9 DEF Filed
  <2> QED
    BY <1>7, <1>9, <2>1
<1>10. CASE Op # JUMPDEST /\ EndsBlock(Op)
  <2>1. Filed = {Behind} /\ offset # Behind
    BY <1>1, <1>10 DEF Filed
  <2> QED
    BY <1>7, <1>10, <2>1
<1> QED
  BY <1>8, <1>9, <1>10, JumpDestEndsNothing DEF Filed

\* The passes behind fill_instructions leave its instructions and the ends of its
\* blocks alone.
LEMMA StaticStays ==
    ASSUME Static, UNCHANGED <<filling, instructions>>, DOMAIN blocks' = DOMAIN blocks,
           \A b \in DOMAIN blocks : "end" \in DOMAIN blocks'[b] /\ blocks'[b].end = blocks[b].end
    PROVE  Static'
<1>1. UNCHANGED <<offset, start, this_end, instructions>>
  BY DEF filling
<1>2. Position' /\ NoEndBehindStart' /\ StartHasCause'
  BY <1>1 DEF Static, Filing, Position, NoEndBehindStart, StartHasCause
<1>3. InRow'
  BY <1>1 DEF Static, Filing, InRow
<1>4. FiledUpToStart'
  BY <1>1 DEF Static, Filing, FiledUpToStart
<1>5. Contiguous'
  BY <1>1 DEF Static, Contiguous, Positions, BehindOf
<1>6. BlocksInCode'
  BY <1>1 DEF Static, BlocksInCode, Positions
<1> QED
  BY <1>2, <1>3, <1>4, <1>5, <1>6 DEF Static, Filing

\* Drawing edges changes no end, and marking a block as reachable does not either.
LEMMA LinkedStays ==
    ASSUME Static, NEW s, blocks' = Linked(s)
    PROVE  /\ DOMAIN blocks' = DOMAIN blocks
           /\ \A b \in DOMAIN blocks :
                 "end" \in DOMAIN blocks'[b] /\ blocks'[b].end = blocks[b].end
  BY DEF Linked, Static, Filing, InRow

LEMMA ReachedStays ==
    ASSUME Static, NEW s, blocks' = [blocks EXCEPT ![s].reachable = TRUE]
    PROVE  /\ DOMAIN blocks' = DOMAIN blocks
           /\ \A b \in DOMAIN blocks :
                 "end" \in DOMAIN blocks'[b] /\ blocks'[b].end = blocks[b].end
  BY DEF Static, Filing, InRow

LEMMA NextStatic == Static /\ [Next]_vars => Static'
<1> SUFFICES ASSUME Static, [Next]_vars
             PROVE  Static'
  OBVIOUS
<1>1. \A b \in DOMAIN blocks : "end" \in DOMAIN blocks[b]
  BY DEF Static, Filing, InRow
<1>2. ASSUME UNCHANGED <<filling, instructions, blocks>>
      PROVE  Static'
  BY <1>1, <1>2, StaticStays
<1>3. CASE FillInstruction
  BY <1>3, FillKeeps, FillKeepsContiguous, FillKeepsBlocksInCode DEF Static
<1>4. ASSUME NEW why, Panic(why)
      PROVE  Static'
  BY <1>2, <1>4 DEF Panic
<1>5. CASE Fill
  BY <1>2, <1>3, <1>4, <1>5 DEF Fill, FillPanics, FillReturns
<1>6. CASE Link
  <2>1. ASSUME NEW s, LinkBlock(s)
        PROVE  Static'
    <3>1. Panic("empty block") \/ (blocks' = Linked(s) /\ UNCHANGED <<filling, instructions>>)
      BY <2>1 DEF LinkBlock
    <3> QED
      BY <1>4, <3>1, LinkedStays, StaticStays
  <2>2. CASE LinkReturns
    BY <1>2, <1>4, <2>2 DEF LinkReturns
  <2> QED
    BY <1>6, <2>1, <2>2 DEF Link
<1>7. CASE Solve_dynamics
  <2>1. CASE SolveReturns
    BY <1>2, <2>1 DEF SolveReturns
  <2>2. CASE SolveState
    <3>1. \/ \E why : Panic(why)
          \/ /\ \E s : blocks' = [blocks EXCEPT ![s].reachable = TRUE]
             /\ UNCHANGED <<filling, instructions>>
      BY <2>2 DEF SolveState
    <3> QED
      BY <1>4, <3>1, ReachedStays, StaticStays
  <2> QED
    BY <1>7, <2>1, <2>2 DEF Solve_dynamics
<1>8. CASE UNCHANGED vars
  BY <1>2, <1>8 DEF vars
<1> QED
  BY <1>5, <1>6, <1>7, <1>8 DEF Next

-----------------------------------------------------------------------------

\* The instructions no jump, stop or JUMPDEST closes a block behind are those of
\* the open block.
LEMMA TailIsOpenBlock ==
    ASSUME Filing, NEW o \in DOMAIN instructions
    PROVE  InTail(o) <=> start <= o
<1>1. /\ start \in Nat
      /\ \A p \in DOMAIN instructions : p \in Nat
  BY DEF Filing, Position
<1>2. ASSUME start <= o PROVE InTail(o)
  <2>1. \A p \in DOMAIN instructions :
            start <= p => ~EndsBlock(instructions[p].op)
                          /\ (instructions[p].op = JUMPDEST => p = start)
    BY DEF Filing, NoEndBehindStart
  <2> QED
    BY <1>1, <1>2, <2>1 DEF InTail
<1>3. ASSUME o < start PROVE ~InTail(o)
  <2>1. start # 0
    BY <1>1, <1>3
  <2>2. CASE start \in DOMAIN instructions /\ instructions[start].op = JUMPDEST
    BY <1>1, <1>3, <2>2 DEF InTail
  <2>3. ASSUME NEW p \in DOMAIN instructions, EndsBlock(instructions[p].op),
               \A q \in DOMAIN instructions : q < start => q <= p
        PROVE  ~InTail(o)
    BY <1>1, <1>3, <2>3 DEF InTail
  <2> QED
    BY <2>1, <2>2, <2>3 DEF Filing, StartHasCause
<1> QED
  BY <1>1, <1>2, <1>3

\* For every code, fill_instructions puts each instruction into exactly one block,
\* but for those behind the last one that ends a block: they are in none.
THEOREM BlocksPartitionTheCode == Spec => []BlocksArePartition
<1>1. ASSUME Static PROVE BlocksArePartition
  <2> SUFFICES ASSUME phase = "linking", NEW o \in DOMAIN instructions
               PROVE  Cardinality({s \in DOMAIN blocks : o \in InstructionsOf(s)})
                          = IF InTail(o) THEN 0 ELSE 1
    BY DEF BlocksArePartition
  <2> DEFINE holders == {s \in DOMAIN blocks : o \in InstructionsOf(s)}
  <2>1. Filing
    BY <1>1 DEF Static
  <2>2. /\ start \in Nat /\ o \in Nat
        /\ \A s \in DOMAIN blocks :
              s \in Nat /\ blocks[s].end \in Nat /\ blocks[s].end <= start
        /\ \A s, t \in DOMAIN blocks : s < t => blocks[s].end <= t
    BY <2>1 DEF Filing, Position, InRow
  <2>3. \A s : s \in holders <=> s \in DOMAIN blocks /\ s <= o /\ o < blocks[s].end
    BY DEF InstructionsOf
  <2>4. InTail(o) <=> start <= o
    BY <2>1, TailIsOpenBlock
  <2> HIDE DEF holders
  <2>5. CASE start <= o
    <3>1. holders = {}
      BY <2>2, <2>3, <2>5
    <3> QED
      BY <2>4, <2>5, <3>1, FS_EmptySet DEF holders
  <2>6. CASE o < start
    <3>1. PICK s \in DOMAIN blocks : s <= o /\ o < blocks[s].end
      BY <2>1, <2>6 DEF Filing, FiledUpToStart
    <3>2. ASSUME NEW t \in DOMAIN blocks, t <= o, o < blocks[t].end
          PROVE  t = s
      BY <2>2, <3>1, <3>2
    <3>3. holders = {s}
      BY <2>3, <3>1, <3>2
    <3>4. Cardinality(holders) = 1
      BY <3>3, FS_Singleton
    <3> QED
      BY <2>2, <2>4, <2>6, <3>4 DEF holders
  <2> QED
    BY <2>2, <2>5, <2>6
<1> QED
  BY <1>1, InitStatic, NextStatic, PTL DEF Spec

-----------------------------------------------------------------------------
(***************************************************************************)
(* What the symbolic stack names                                           *)
(***************************************************************************)

LEMMA EmptyIsSymbolic == ASSUME NEW them PROVE SymbolicStack(<<>>, them)
<1>1. <<>> \in Seq({}) /\ Len(<<>>) = 0
  OBVIOUS
<1> QED
  BY <1>1 DEF SymbolicStack, IsSequence

LEMMA InitTraced == Init => \E T : Traced(T)
<1> SUFFICES ASSUME Init PROVE \E T : Traced(T)
  OBVIOUS
<1> DEFINE none == [stack |-> <<>>, args |-> 0]
           T == [o \in {0} |-> none]
<1>1. T[0] = none /\ offset = 0 /\ stack = <<>> /\ arg_count = 0 /\ DOMAIN instructions = {}
  BY DEF Init
<1>2. Positions = {0}
  BY <1>1 DEF Positions
<1>3. SymbolicStack(none.stack, Earlier(0)) /\ none.args \in Nat
  BY EmptyIsSymbolic
<1> HIDE DEF T
<1>4. Traced(T)
  BY <1>1, <1>2, <1>3 DEF Traced
<1> QED
  BY <1>4

LEMMA FillKeepsTraced ==
    ASSUME Static, FillInstruction, NEW T, Traced(T)
    PROVE  \E U : Traced(U)'
<1>1. /\ DOMAIN instructions' = DOMAIN instructions \cup {offset}
      /\ instructions'[offset].op = Op
      /\ \A o \in DOMAIN instructions :
            o \in Nat /\ o < offset /\ instructions'[o] = instructions[o]
      /\ offset' = Behind /\ Behind \in Nat /\ offset < Behind
      /\ offset \in Nat
  BY DecodesOne DEF Static
<1>2. Positions' = Positions \cup {Behind} /\ Contiguous'
  BY FillKeepsContiguous DEF Static
<1> DEFINE now == [stack |-> stack', args |-> arg_count']
<1>3. PICK U : U = [o \in Positions' |-> IF o = Behind THEN now ELSE T[o]]
  OBVIOUS
<1>4. \A o \in Positions : o \in Nat /\ o <= offset /\ o # Behind /\ U[o] = T[o]
  BY <1>1, <1>2, <1>3 DEF Positions
<1>5. U[Behind] = now
  BY <1>2, <1>3
<1>6. U[0] = [stack |-> <<>>, args |-> 0]
  BY <1>4 DEF Traced, Static, Contiguous
<1>7. instructions'[offset] = NewInstruction
  BY <1>1 DEF FillInstruction, Store
<1>8. T[offset] = [stack |-> stack, args |-> arg_count] /\ offset \in Positions
  BY DEF Traced, Positions
<1>9. now = Carried(NewInstruction, offset, T[offset])
  <2>1. /\ stack' = StackAfter
        /\ arg_count' = IF Op = JUMPDEST THEN 0 ELSE arg_count + Missing(Op, stack)
    BY DEF FillInstruction
  <2> QED
    BY <1>8, <2>1 DEF Carried, NewInstruction, StackAfter
<1>10. NewInstruction.inputs = Inputs(NewInstruction.op, T[offset].stack, T[offset].args)
  BY <1>8 DEF NewInstruction, OpInputs
<1>11. SymbolicStack(now.stack, Earlier(offset) \cup {offset}) /\ now.args \in Nat
  <2>1. SymbolicStack(stack, Earlier(offset)) /\ arg_count \in Nat
    BY <1>8 DEF Traced
  <2>2. CASE Op = JUMPDEST
    BY <2>2, EmptyIsSymbolic DEF FillInstruction, StackAfter
  <2>3. CASE Op # JUMPDEST
    <3>1. /\ stack' = Pushed(Rest(Op, stack), Outputs(Op, offset, Data, Inputs(Op, stack, arg_count)))
          /\ arg_count' = arg_count + Missing(Op, stack)
      BY <2>3 DEF FillInstruction, StackAfter, OpInputs
    <3>2. Missing(Op, stack) \in Nat
      BY <2>1, MissingType DEF SymbolicStack
    <3>3. SymbolicStack(stack', Earlier(offset) \cup {offset})
      BY <2>1, <3>1, SymbolicAfter
    <3> QED
      BY <2>1, <3>1, <3>2, <3>3
  <2> QED
    BY <2>2, <2>3
<1>12. \A o \in Positions : {p \in DOMAIN instructions' : p < o} = Earlier(o)
  BY <1>1, <1>4 DEF Earlier
<1>13. \A o \in Positions' :
          SymbolicStack(U[o].stack, {p \in DOMAIN instructions' : p < o}) /\ U[o].args \in Nat
  <2>1. \A o \in Positions : SymbolicStack(T[o].stack, Earlier(o)) /\ T[o].args \in Nat
    BY DEF Traced
  <2>2. {p \in DOMAIN instructions' : p < Behind} = Earlier(offset) \cup {offset}
    BY <1>1 DEF Earlier
  <2> HIDE DEF now
  <2> QED
    BY <1>2, <1>4, <1>5, <1>11, <1>12, <2>1, <2>2
<1>14. ASSUME NEW o \in DOMAIN instructions'
       PROVE  /\ instructions'[o].inputs = Inputs(instructions'[o].op, U[o].stack, U[o].args)
              /\ U[o + 1 + PushBytes(instructions'[o].op)] = Carried(instructions'[o], o, U[o])
  <2>1. CASE o = offset
    <3>1. o + 1 + PushBytes(instructions'[o].op) = Behind
      BY <1>1, <2>1 DEF Behind
    <3>2. U[o] = T[o]
      BY <1>4, <1>8, <2>1
    <3> QED
      BY <1>5, <1>7, <1>9, <1>10, <2>1, <3>1, <3>2
  <2>2. CASE o \in DOMAIN instructions
    <3>1. instructions'[o] = instructions[o] /\ o \in Positions
      BY <1>1, <2>2 DEF Positions
    <3>2. BehindOf(o) \in Positions
      BY <2>2 DEF Static, Contiguous
    <3>3. o + 1 + PushBytes(instructions'[o].op) = BehindOf(o)
      BY <3>1 DEF BehindOf
    <3>4. U[o] = T[o] /\ U[BehindOf(o)] = T[BehindOf(o)]
      BY <1>4, <3>1, <3>2
    <3>5. /\ instructions[o].inputs = Inputs(instructions[o].op, T[o].stack, T[o].args)
          /\ T[BehindOf(o)] = Carried(instructions[o], o, T[o])
      BY <2>2 DEF Traced
    <3> QED
      BY <3>1, <3>3, <3>4, <3>5
  <2> QED
    BY <1>1, <2>1, <2>2
<1>15. U[offset'] = [stack |-> stack', args |-> arg_count']
  BY <1>1, <1>5
<1>16. Traced(U)'
  BY <1>6, <1>13, <1>14, <1>15 DEF Traced, Earlier, BehindOf
<1> QED
  BY <1>16

LEMMA TracedStays ==
    ASSUME NEW T, Traced(T), UNCHANGED <<filling, instructions>>
    PROVE  Traced(T)'
  BY DEF filling, Traced, Positions, Earlier, BehindOf

-----------------------------------------------------------------------------
(***************************************************************************)
(* The queue of solve_dynamics                                             *)
(***************************************************************************)

\* The loop over at most two exits, accepted being the places of those it keeps.
Loop(e, accepted, n, f) ==
    f = [i \in 0 .. n |-> IF i = 0 THEN <<>>
                          ELSE IF i \in accepted THEN Append(f[i - 1], e[i])
                          ELSE f[i - 1]]

LEMMA LoopExists ==
    ASSUME NEW e, NEW accepted, NEW n \in 0 .. 2
    PROVE  \E f : Loop(e, accepted, n, f)
<1>1. PICK one : one = IF 1 \in accepted THEN Append(<<>>, e[1]) ELSE <<>>
  OBVIOUS
<1>2. PICK two : two = IF 2 \in accepted THEN Append(one, e[2]) ELSE one
  OBVIOUS
<1>3. PICK none : none = <<>>
  OBVIOUS
<1>4. PICK g : g = [i \in 0 .. n |-> IF i = 0 THEN none ELSE IF i = 1 THEN one ELSE two]
  OBVIOUS
<1>5. g[0] = none /\ (n > 0 => g[1] = one) /\ (n > 1 => g[2] = two)
  BY <1>4
<1>6. ASSUME NEW i \in 0 .. n
      PROVE  g[i] = IF i = 0 THEN <<>>
                    ELSE IF i \in accepted THEN Append(g[i - 1], e[i])
                    ELSE g[i - 1]
  <2>1. i = 0 \/ (i = 1 /\ n > 0) \/ (i = 2 /\ n > 1)
    OBVIOUS
  <2>2. CASE i = 0
    BY <1>3, <1>5, <2>2
  <2>3. CASE i = 1 /\ n > 0
    <3>1. i - 1 = 0
      BY <2>3
    <3> QED
      BY <1>1, <1>3, <1>5, <2>3, <3>1
  <2>4. CASE i = 2 /\ n > 1
    <3>1. i - 1 = 1 /\ n > 0
      BY <2>4
    <3> QED
      BY <1>2, <1>5, <2>4, <3>1
  <2> QED
    BY <2>1, <2>2, <2>3, <2>4
<1>7. g = [i \in 0 .. n |-> g[i]]
  BY <1>4
<1>8. g = [i \in 0 .. n |-> IF i = 0 THEN <<>>
                            ELSE IF i \in accepted THEN Append(g[i - 1], e[i])
                            ELSE g[i - 1]]
  BY <1>6, <1>7
<1> QED
  BY <1>8 DEF Loop

Keeps(e, accepted, n, kept) ==
    /\ IsSequence(kept)
    /\ \A x : x \in Range(kept) <=> \E i \in accepted \cap 1 .. n : x = e[i]

\* What it ends with.
LEMMA LoopKeeps ==
    ASSUME NEW e, NEW accepted, NEW n \in 0 .. 2, NEW f, Loop(e, accepted, n, f),
           IsSequence(e), Len(e) = n
    PROVE  Keeps(e, accepted, n, f[n])
<1> USE DEF Keeps
<1>1. ASSUME NEW i \in 0 .. n
      PROVE  f[i] = IF i = 0 THEN <<>>
                    ELSE IF i \in accepted THEN Append(f[i - 1], e[i])
                    ELSE f[i - 1]
  BY Zenon DEF Loop
<1>2. f[0] = <<>>
  BY <1>1
<1>3. n > 0 => f[1] = IF 1 \in accepted THEN Append(<<>>, e[1]) ELSE <<>>
  <2>1. n > 0 => 1 \in 0 .. n /\ 1 - 1 = 0
    OBVIOUS
  <2>2. n > 0 => f[1] = IF 1 \in accepted THEN Append(f[1 - 1], e[1]) ELSE f[1 - 1]
    BY <1>1, <2>1
  <2> QED
    BY <1>2, <2>1, <2>2
<1>4. n > 1 => f[2] = IF 2 \in accepted THEN Append(f[1], e[2]) ELSE f[1]
  <2>1. n > 1 => 2 \in 0 .. n /\ 2 - 1 = 1
    OBVIOUS
  <2>2. n > 1 => f[2] = IF 2 \in accepted THEN Append(f[2 - 1], e[2]) ELSE f[2 - 1]
    BY <1>1, <2>1
  <2> QED
    BY <2>1, <2>2
<1>5. ASSUME NEW x
      PROVE  /\ Append(<<>>, x) = <<x>>
             /\ IsSequence(<<>>) /\ Range(<<>>) = {}
             /\ IsSequence(<<x>>) /\ Range(<<x>>) = {x}
  <2>1. <<>> \in Seq({}) /\ <<x>> \in Seq({x})
    OBVIOUS
  <2>2. Range(<<>>) = {} /\ Range(<<x>>) = {x}
    BY DEF Range
  <2>3. Append(<<>>, x) = <<x>>
    OBVIOUS
  <2> QED
    BY <2>1, <2>2, <2>3 DEF IsSequence
<1>6. ASSUME NEW x, NEW y
      PROVE  /\ Append(<<x>>, y) = <<x, y>>
             /\ IsSequence(<<x, y>>) /\ Range(<<x, y>>) = {x, y}
  <2>1. <<x, y>> \in Seq({x, y})
    OBVIOUS
  <2>2. Range(<<x, y>>) = {x, y}
    BY DEF Range
  <2>3. Append(<<x>>, y) = <<x, y>>
    <3>1. PICK a : a = <<x>>
      OBVIOUS
    <3>2. PICK b : b = <<x, y>>
      OBVIOUS
    <3>3. /\ a \in Seq({x, y}) /\ Len(a) = 1 /\ a[1] = x
          /\ b \in Seq({x, y}) /\ Len(b) = 2 /\ b[1] = x /\ b[2] = y
      BY <3>1, <3>2
    <3>4. PICK S : S = {x, y}
      OBVIOUS
    <3>5. a \in Seq(S) /\ b \in Seq(S) /\ y \in S
      BY <3>3, <3>4
    <3>6. /\ Append(a, y) \in Seq(S)
          /\ Len(Append(a, y)) = Len(a) + 1
          /\ \A i \in 1 .. Len(a) : Append(a, y)[i] = a[i]
          /\ Append(a, y)[Len(a) + 1] = y
      BY <3>5, AppendProperties
    <3>7. /\ Len(Append(a, y)) = 2 /\ Append(a, y)[1] = x /\ Append(a, y)[2] = y
      BY <3>3, <3>6
    <3>8. Append(a, y) = b
      BY <3>3, <3>5, <3>6, <3>7, SeqEqual
    <3> QED
      BY <3>1, <3>2, <3>8
  <2> QED
    BY <2>1, <2>2, <2>3 DEF IsSequence
<1>7. CASE n = 0
  <2>1. \A x : ~\E i \in accepted \cap 1 .. n : x = e[i]
    BY <1>7
  <2>2. \A x : x \notin Range(f[n])
    BY <1>2, <1>5, <1>7
  <2>3. IsSequence(f[n])
    BY <1>2, <1>5, <1>7
  <2> QED
    BY <2>1, <2>2, <2>3
<1>8. CASE n = 1
  <2>1. \A x : (\E i \in accepted \cap 1 .. n : x = e[i]) <=> 1 \in accepted /\ x = e[1]
    BY <1>8
  <2>2. f[n] = IF 1 \in accepted THEN <<e[1]>> ELSE <<>>
    BY <1>3, <1>5, <1>8
  <2>3. IsSequence(f[n])
    BY <1>5, <2>2
  <2>4. \A x : x \in Range(f[n]) <=> 1 \in accepted /\ x = e[1]
    BY <1>5, <2>2
  <2> QED
    BY <2>1, <2>3, <2>4
<1>9. CASE n = 2
  <2>1. \A x : (\E i \in accepted \cap 1 .. n : x = e[i])
                   <=> \/ 1 \in accepted /\ x = e[1]
                       \/ 2 \in accepted /\ x = e[2]
    BY <1>9
  <2>2. f[1] = IF 1 \in accepted THEN <<e[1]>> ELSE <<>>
    BY <1>3, <1>5, <1>9
  <2>3. f[n] = IF 2 \in accepted THEN Append(f[1], e[2]) ELSE f[1]
    BY <1>4, <1>9
  <2>4. CASE 1 \in accepted /\ 2 \in accepted
    <3>1. f[n] = <<e[1], e[2]>>
      BY <1>6, <2>2, <2>3, <2>4
    <3>2. IsSequence(f[n]) /\ Range(f[n]) = {e[1], e[2]}
      BY <1>6, <3>1
    <3> QED
      BY <2>1, <2>4, <3>2
  <2>5. CASE 1 \in accepted /\ 2 \notin accepted
    <3>1. f[n] = <<e[1]>>
      BY <2>2, <2>3, <2>5
    <3> QED
      BY <1>5, <2>1, <2>5, <3>1
  <2>6. CASE 1 \notin accepted /\ 2 \in accepted
    <3>1. f[n] = <<e[2]>>
      BY <1>5, <2>2, <2>3, <2>6
    <3> QED
      BY <1>5, <2>1, <2>6, <3>1
  <2>7. CASE 1 \notin accepted /\ 2 \notin accepted
    <3>1. f[n] = <<>>
      BY <2>2, <2>3, <2>7
    <3> QED
      BY <1>5, <2>1, <2>7, <3>1
  <2> QED
    BY <2>4, <2>5, <2>6, <2>7
<1> QED
  BY <1>7, <1>8, <1>9

\* The exits taken are those accepted.
LEMMA TakenIs ==
    ASSUME NEW s, NEW run, RunType(run)
    PROVE  /\ IsSequence(Taken(s, run))
           /\ \A x : x \in Range(Taken(s, run)) <=> x \in Range(run.exits) /\ Accepted(s, x)
<1>1. PICK e : e = run.exits
  OBVIOUS
<1>2. PICK n : n = Len(e)
  OBVIOUS
<1>3. IsSequence(e) /\ n \in 0 .. 2
  BY <1>1, <1>2 DEF RunType
<1> DEFINE accepted == {i \in 1 .. n : Accepted(s, e[i])}
           Upto(f) == f = [i \in 0 .. n |-> IF i = 0 THEN <<>>
                                            ELSE IF Accepted(s, e[i]) THEN Append(f[i - 1], e[i])
                                            ELSE f[i - 1]]
<1>4. Taken(s, run) = (CHOOSE f : Upto(f))[n]
  BY <1>1, <1>2 DEF Taken
<1>5. \A f : Upto(f) <=> Loop(e, accepted, n, f)
  <2> TAKE f
  <2>1. ASSUME NEW i \in 0 .. n, i # 0
        PROVE  i \in accepted <=> Accepted(s, e[i])
    BY <1>3, <2>1
  <2>2. [i \in 0 .. n |-> IF i = 0 THEN <<>>
                          ELSE IF Accepted(s, e[i]) THEN Append(f[i - 1], e[i])
                          ELSE f[i - 1]]
        = [i \in 0 .. n |-> IF i = 0 THEN <<>>
                            ELSE IF i \in accepted THEN Append(f[i - 1], e[i])
                            ELSE f[i - 1]]
    <3> HIDE DEF accepted
    <3> QED
      BY <2>1
  <2> QED
    BY <2>2 DEF Loop
<1> DEFINE f == CHOOSE f : Upto(f)
<1> HIDE DEF Upto, accepted
<1>6. \E g : Upto(g)
  BY <1>3, <1>5, LoopExists
<1>7. Upto(f)
  BY <1>6
<1> HIDE DEF f
<1>8. Loop(e, accepted, n, f)
  BY <1>5, <1>7
<1>9. Keeps(e, accepted, n, f[n])
  BY <1>2, <1>3, <1>8, LoopKeeps
<1>10. Taken(s, run) = f[n]
  BY <1>4 DEF f
<1>11. ASSUME NEW x
       PROVE  (\E i \in accepted \cap 1 .. n : x = e[i]) <=> x \in Range(e) /\ Accepted(s, x)
  <2>1. PICK S : e \in Seq(S)
    BY <1>3 DEF IsSequence
  <2>2. DOMAIN e = 1 .. n
    BY <1>2, <2>1, LenProperties
  <2> QED
    BY <2>2 DEF accepted, Range
<1> QED
  BY <1>1, <1>9, <1>10, <1>11 DEF Keeps

\* more, a list of n, has been put behind the queue, the first of which was taken off.
Listed(more, n) == more = [i \in 1 .. n |-> more[i]]

Follows(after, queue, more, n) ==
    /\ IsSequence(after)
    /\ 1 \in 1 .. Len(queue) /\ Head(queue) = queue[1]
    /\ \A i \in 1 .. Len(after) :
          \/ \E j \in 1 .. Len(queue) : after[i] = queue[j]
          \/ \E j \in 1 .. n : after[i] = more[j]

LEMMA QueueIs ==
    ASSUME NEW queue, IsSequence(queue), queue # <<>>, NEW n \in Nat, NEW more, Listed(more, n)
    PROVE  Follows(Tail(queue) \o more, queue, more, n)
<1>1. PICK S : queue \in Seq(S)
  BY DEF IsSequence
<1>2. IsSequence(more) /\ Len(more) = n
  BY IsSequenceOf DEF Listed
<1>3. PICK T : more \in Seq(T)
  BY <1>2 DEF IsSequence
<1>4. /\ Tail(queue) \in Seq(S) /\ Len(Tail(queue)) = Len(queue) - 1
      /\ \A i \in 1 .. Len(Tail(queue)) : Tail(queue)[i] = queue[i + 1]
  BY <1>1, HeadTailProperties
<1>5. Len(queue) \in Nat /\ Len(queue) > 0 /\ Head(queue) = queue[1]
  BY <1>1
<1> DEFINE tail == Tail(queue)
<1> HIDE DEF tail
<1>6. tail \in Seq(S \cup T) /\ more \in Seq(S \cup T)
  BY <1>3, <1>4 DEF tail
<1>7. /\ tail \o more \in Seq(S \cup T) /\ Len(tail \o more) = Len(tail) + n
      /\ \A i \in 1 .. Len(tail) + n :
            (tail \o more)[i] = IF i <= Len(tail) THEN tail[i] ELSE more[i - Len(tail)]
  BY <1>2, <1>6, ConcatProperties
<1> DEFINE both == tail \o more
<1> HIDE DEF both
<1>8. ASSUME NEW i \in 1 .. Len(both)
      PROVE  \/ \E j \in 1 .. Len(queue) : both[i] = queue[j]
             \/ \E j \in 1 .. n : both[i] = more[j]
  <2>1. i \in 1 .. Len(tail) + n /\ Len(tail) = Len(queue) - 1 /\ Len(tail) \in Nat
    BY <1>4, <1>5, <1>7 DEF both, tail
  <2>2. CASE i <= Len(tail)
    <3>1. i \in 1 .. Len(tail) /\ i + 1 \in 1 .. Len(queue)
      BY <1>5, <2>1, <2>2
    <3>2. both[i] = tail[i] /\ tail[i] = queue[i + 1]
      BY <1>4, <1>7, <2>1, <2>2, <3>1 DEF both, tail
    <3> QED
      BY <3>1, <3>2
  <2>3. CASE ~(i <= Len(tail))
    <3>1. i - Len(tail) \in 1 .. n
      BY <2>1, <2>3
    <3>2. both[i] = more[i - Len(tail)]
      BY <1>7, <2>1, <2>3 DEF both
    <3> QED
      BY <3>1, <3>2
  <2> QED
    BY <2>2, <2>3
<1>9. IsSequence(both)
  BY <1>7 DEF both, IsSequence
<1>10. 1 \in 1 .. Len(queue)
  BY <1>5
<1> QED
  BY <1>5, <1>8, <1>9, <1>10 DEF both, tail, Follows

-----------------------------------------------------------------------------
(***************************************************************************)
(* What the passes leave to each other                                     *)
(***************************************************************************)

\* Each state waits at a block, with a stack.
Waiting(queue, B) ==
    /\ IsSequence(queue)
    /\ \A i \in 1 .. Len(queue) : queue[i].block \in B /\ IsSequence(queue[i].stack)

Queue == Waiting(states, DOMAIN blocks)

Passes ==
    /\ Queue
    /\ phase # "panicked" => cause = "none"
    /\ phase \in {"filling", "linking"} => states = <<>> /\ moves = {} /\ refused = {}
    /\ phase = "linking" => to_visit \subseteq DOMAIN blocks

\* The first state of the queue, and running its block.
LEMMA HeadRuns ==
    ASSUME Static, Queue, states # <<>>,
           NEW s, s = Head(states).block, NEW entry, entry = Head(states).stack,
           NEW run, run = SolveStack(s, entry)
    PROVE  /\ s \in DOMAIN blocks /\ IsSequence(entry) /\ offset \in Nat
           /\ InstructionsOf(s) \in SUBSET (0 .. (offset - 1))
           /\ run = RunOver(instructions, entry, InstructionsOf(s)) /\ RunType(run)
           /\ IsSequence(Taken(s, run))
           /\ \A x : x \in Range(Taken(s, run)) <=> x \in Range(run.exits) /\ Accepted(s, x)
<1>1. 1 \in 1 .. Len(states) /\ Head(states) = states[1]
  <2>1. PICK S : states \in Seq(S)
    BY DEF Queue, Waiting, IsSequence
  <2> QED
    BY <2>1
<1>2. s \in DOMAIN blocks /\ IsSequence(entry)
  BY <1>1 DEF Queue, Waiting
<1>3. offset \in Nat /\ InstructionsOf(s) \in SUBSET (0 .. (offset - 1))
  BY DEF Static, Filing, Position, InstructionsOf
<1>4. run = RunOver(instructions, entry, InstructionsOf(s))
  BY RunIsOver DEF SolveStack
<1>5. RunType(run)
  <2> DEFINE O == InstructionsOf(s)
  <2> HIDE DEF O
  <2>1. O \in SUBSET (0 .. (offset - 1)) /\ run = RunOver(instructions, entry, O)
    BY <1>3, <1>4 DEF O
  <2> QED
    BY <1>2, <1>3, <2>1, RunHasType
<1> QED
  BY <1>2, <1>3, <1>4, <1>5, TakenIs

\* Where a step of solve_dynamics does not panic, the block has run to its end and
\* every exit taken has a block.
LEMMA SolveCauseIs ==
    ASSUME NEW s, NEW gas, NEW run, RunType(run), NEW why, why = SolveCause(s, gas, run)
    PROVE  /\ why \in {"none", "floating value", "arithmetic", "dynamic target", "out of gas",
                       "no block"}
           /\ why \in {"none", "no block"} => run.cause = "none"
           /\ why = "none" => \A n \in Range(Taken(s, run)) : n \in DOMAIN blocks
           /\ why = "no block" => \E n \in Range(Taken(s, run)) : n \notin DOMAIN blocks
<1>1. run.cause \in {"none", "floating value", "arithmetic", "dynamic target"}
  BY DEF RunType
<1>2. CASE run.cause # "none"
  <2>1. why = run.cause
    BY <1>2 DEF SolveCause
  <2> QED
    BY <1>1, <1>2, <2>1
<1>3. CASE run.cause = "none"
  BY <1>3 DEF SolveCause, MissingBlock
<1> QED
  BY <1>2, <1>3

LEMMA QueueStays ==
    ASSUME Queue, DOMAIN blocks' = DOMAIN blocks, states' = states
    PROVE  Queue'
  BY DEF Queue

LEMMA NoneWaiting == ASSUME NEW B PROVE Waiting(<<>>, B)
<1>1. <<>> \in Seq({}) /\ Len(<<>>) = 0
  OBVIOUS
<1> QED
  BY <1>1 DEF Waiting, IsSequence

LEMMA InitPasses == Init => Passes
  BY NoneWaiting DEF Init, Passes, Queue

\* A step of solve_dynamics puts states of the blocks it takes, all with one stack,
\* behind the others.
Adds(after, queue, taken, stk) ==
    /\ IsSequence(after)
    /\ \A i \in 1 .. Len(after) :
          \/ \E j \in 1 .. Len(queue) : after[i] = queue[j]
          \/ after[i].block \in Range(taken) /\ after[i].stack = stk

LEMMA AddsBehind ==
    ASSUME NEW queue, IsSequence(queue), queue # <<>>, NEW taken, IsSequence(taken),
           NEW left, NEW stk,
           NEW more, more = [i \in 1 .. Len(taken) |->
                                [gas |-> left, block |-> taken[i], stack |-> stk]]
    PROVE  Adds(Tail(queue) \o more, queue, taken, stk)
<1>1. PICK S : taken \in Seq(S)
  BY DEF IsSequence
<1>2. Len(taken) \in Nat /\ DOMAIN taken = 1 .. Len(taken)
  BY <1>1, LenProperties
<1>3. \A i \in 1 .. Len(taken) : more[i].block \in Range(taken) /\ more[i].stack = stk
  BY <1>2 DEF Range
<1>4. PICK n \in Nat : n = Len(taken)
  BY <1>2
<1>5. Listed(more, n)
  BY <1>4 DEF Listed
<1>6. Follows(Tail(queue) \o more, queue, more, n)
  BY <1>5, QueueIs, Zenon
<1>7. PICK after : after = Tail(queue) \o more
  OBVIOUS
<1>8. Follows(after, queue, more, n)
  BY <1>6, <1>7
<1>9. Adds(after, queue, taken, stk)
  BY <1>3, <1>4, <1>8 DEF Adds, Follows
<1> QED
  BY <1>7, <1>9

LEMMA WaitingFirst ==
    ASSUME NEW first, NEW B, first.block \in B, IsSequence(first.stack)
    PROVE  Waiting(<<first>>, B)
<1>1. PICK queue : queue = <<first>>
  OBVIOUS
<1>2. queue \in Seq({first}) /\ Len(queue) = 1 /\ queue[1] = first
  BY <1>1
<1>3. IsSequence(queue)
  BY <1>2 DEF IsSequence
<1>4. Waiting(queue, B)
  BY <1>2, <1>3 DEF Waiting
<1> QED
  BY <1>1, <1>4

LEMMA SolveAdds ==
    ASSUME Static, Queue, states # <<>>,
           NEW s, s = Head(states).block, NEW gas, NEW run,
           run = SolveStack(s, Head(states).stack),
           states' = Tail(states) \o
                 [i \in 1 .. Len(Taken(s, run)) |->
                     [gas |-> GasLeft(s, gas), block |-> Taken(s, run)[i], stack |-> run.stack]]
    PROVE  Adds(states', states, Taken(s, run), run.stack)
<1>1. IsSequence(Taken(s, run)) /\ IsSequence(states)
  BY HeadRuns DEF Queue, Waiting
<1> DEFINE more == [i \in 1 .. Len(Taken(s, run)) |->
                       [gas |-> GasLeft(s, gas), block |-> Taken(s, run)[i], stack |-> run.stack]]
<1>2. Adds(Tail(states) \o more, states, Taken(s, run), run.stack)
  <2>1. PICK taken, left : taken = Taken(s, run) /\ left = GasLeft(s, gas)
    OBVIOUS
  <2>2. more = [i \in 1 .. Len(taken) |->
                   [gas |-> left, block |-> taken[i], stack |-> run.stack]]
    BY <2>1
  <2> HIDE DEF more
  <2>3. IsSequence(taken)
    BY <1>1, <2>1
  <2>4. Adds(Tail(states) \o more, states, taken, run.stack)
    BY <1>1, <2>2, <2>3, AddsBehind, Zenon
  <2> QED
    BY <2>1, <2>4
<1> QED
  BY <1>2

LEMMA SolveKeepsQueue ==
    ASSUME Queue, DOMAIN blocks' = DOMAIN blocks,
           NEW taken, \A n \in Range(taken) : n \in DOMAIN blocks,
           NEW stk, IsSequence(stk), Adds(states', states, taken, stk)
    PROVE  Queue'
  BY DEF Queue, Waiting, Adds

LEMMA NextPasses == Static /\ Passes /\ [Next]_vars => Passes'
<1> SUFFICES ASSUME Static, Passes, [Next]_vars
             PROVE  Passes'
  OBVIOUS
<1>1. Queue
  BY DEF Passes
<1>2. ASSUME NEW why, Panic(why)
      PROVE  Passes'
  BY <1>2, QueueStays DEF Passes, Panic
<1>3. CASE Fill
  <2>1. CASE FillPanics
    BY <1>2, <2>1 DEF FillPanics
  <2>2. CASE FillInstruction
    <3>1. states = <<>> /\ phase = "filling"
      BY <1>3 DEF Fill, Passes
    <3>2. UNCHANGED <<states, phase, cause, moves, refused>>
      BY <2>2 DEF FillInstruction
    <3>3. Queue'
      BY <3>1, <3>2, NoneWaiting DEF Queue
    <3> QED
      BY <3>1, <3>2, <3>3 DEF Passes
  <2>3. CASE FillReturns
    BY <1>3, <2>3, QueueStays DEF Fill, FillReturns, Passes
  <2> QED
    BY <1>3, <2>1, <2>2, <2>3 DEF Fill
<1>4. CASE Link
  <2>1. phase = "linking" /\ cause = "none" /\ states = <<>> /\ to_visit \subseteq DOMAIN blocks
    BY <1>4 DEF Link, Passes
  <2>2. ASSUME NEW s, LinkBlock(s)
        PROVE  Passes'
    <3>1. CASE Panic("empty block")
      BY <1>2, <3>1
    <3>2. CASE blocks' = Linked(s) /\ LinkBlock(s) /\ ~Panic("empty block")
      <4>1. UNCHANGED <<states, phase, cause, moves, refused>> /\ to_visit' = to_visit \ {s}
        BY <3>2 DEF LinkBlock
      <4>2. DOMAIN blocks' = DOMAIN blocks
        BY <3>2, LinkedStays
      <4>3. Queue'
        BY <1>1, <4>1, <4>2, QueueStays
      <4> QED
        BY <2>1, <4>1, <4>2, <4>3 DEF Passes
    <3> QED
      BY <2>2, <3>1, <3>2 DEF LinkBlock
  <2>3. CASE LinkReturns
    <3>1. CASE Panic("no entry")
      BY <1>2, <3>1
    <3>2. CASE ~Panic("no entry")
      <4>1. PICK first : first = [gas |-> GasLimit, block |-> 0, stack |-> <<>>]
        OBVIOUS
      <4>2. /\ phase' = "solving" /\ cause' = cause /\ DOMAIN blocks' = DOMAIN blocks
            /\ 0 \in DOMAIN blocks /\ states' = <<first>>
        BY <2>3, <3>2, <4>1 DEF LinkReturns
      <4>3. first.block = 0 /\ IsSequence(first.stack)
        BY <4>1, NoneWaiting DEF Waiting
      <4>4. Queue'
        BY <4>2, <4>3, WaitingFirst DEF Queue
      <4> QED
        BY <2>1, <4>2, <4>4 DEF Passes
    <3> QED
      BY <3>1, <3>2
  <2> QED
    BY <1>4, <2>2, <2>3 DEF Link
<1>5. CASE Solve_dynamics
  <2>1. phase = "solving" /\ cause = "none"
    BY <1>5 DEF Solve_dynamics, Passes
  <2>2. CASE SolveReturns
    BY <1>1, <2>1, <2>2, QueueStays DEF SolveReturns, Passes
  <2>3. CASE SolveState /\ states # <<>>
    <3> DEFINE s == Head(states).block
               gas == Head(states).gas
               run == SolveStack(s, Head(states).stack)
               more == [i \in 1 .. Len(Taken(s, run)) |->
                           [gas |-> GasLeft(s, gas), block |-> Taken(s, run)[i],
                            stack |-> run.stack]]
    <3>1. \/ Panic(SolveCause(s, gas, run))
          \/ /\ SolveCause(s, gas, run) = "none"
             /\ blocks' = [blocks EXCEPT ![s].reachable = TRUE]
             /\ states' = Tail(states) \o more
             /\ UNCHANGED <<phase, cause>>
      BY <2>3 DEF SolveState
    <3>2. CASE Panic(SolveCause(s, gas, run))
      BY <1>2, <3>2
    <3>3. CASE /\ SolveCause(s, gas, run) = "none"
               /\ blocks' = [blocks EXCEPT ![s].reachable = TRUE]
               /\ states' = Tail(states) \o more
               /\ UNCHANGED <<phase, cause>>
      <4>1. DOMAIN blocks' = DOMAIN blocks
        BY <3>3
      <4>2. Queue'
        <5>1. RunType(run) /\ SolveCause(s, gas, run) = "none"
          BY <1>1, <2>3, <3>3, HeadRuns
        <5>2. Adds(states', states, Taken(s, run), run.stack)
          BY <1>1, <2>3, <3>3, SolveAdds
        <5> HIDE DEF run, s, gas, more
        <5>3. \A n \in Range(Taken(s, run)) : n \in DOMAIN blocks
          BY <5>1, SolveCauseIs
        <5>4. IsSequence(run.stack)
          BY <5>1 DEF RunType
        <5> QED
          BY <1>1, <4>1, <5>2, <5>3, <5>4, SolveKeepsQueue
      <4> QED
        BY <2>1, <3>3, <4>2 DEF Passes
    <3> QED
      BY <3>1, <3>2, <3>3
  <2> QED
    BY <1>5, <2>2, <2>3 DEF Solve_dynamics
<1>6. CASE UNCHANGED vars
  BY <1>1, <1>6, QueueStays DEF vars, Passes
<1> QED
  BY <1>3, <1>4, <1>5, <1>6 DEF Next

-----------------------------------------------------------------------------
(***************************************************************************)
(* Lookups: why the passes may panic                                       *)
(***************************************************************************)

ExplainedBy(why) ==
    /\ why # "op tree"
    /\ why = "empty block" => IsValidJumpDest(0) /\ InTail(0)
    /\ why = "no entry"    => \A o \in DOMAIN instructions : InTail(o)
    /\ why = "no block"    =>
          \E n \in Range(RunOver(instructions, Head(states).stack,
                                InstructionsOf(Head(states).block)).exits) :
              Accepted(Head(states).block, n) /\ (n \in DOMAIN instructions => InTail(n))

\* What a result on the symbolic stack, or among an instruction's inputs, names is in
\* the map.
LEMMA NamedAreEarlier ==
    ASSUME NEW them, NEW list, SymbolicStack(list, them)
    PROVE  NamedIn(list) \subseteq them
<1>1. PICK S : list \in Seq(S)
  BY DEF SymbolicStack, IsSequence
<1>2. DOMAIN list = 1 .. Len(list)
  BY <1>1, LenProperties
<1> QED
  BY <1>2 DEF SymbolicStack, Symbolic, NamedIn

LEMMA StackNamesEarlier ==
    ASSUME NEW T, Traced(T)
    PROVE  /\ NamedIn(stack) \subseteq DOMAIN instructions
           /\ NamedIn(OpInputs) \subseteq DOMAIN instructions
<1>1. SymbolicStack(stack, Earlier(offset))
  BY DEF Traced, Positions
<1>2. SymbolicStack(OpInputs, Earlier(offset))
  BY <1>1, SymbolicInputs DEF OpInputs
<1>3. Earlier(offset) \subseteq DOMAIN instructions
  BY DEF Earlier
<1> QED
  BY <1>1, <1>2, <1>3, NamedAreEarlier

\* An accepted exit leads to a block, but for the tail.
LEMMA MissingIsTail ==
    ASSUME Static, NEW s \in DOMAIN blocks, NEW n, Accepted(s, n),
           n \notin DOMAIN blocks, n \in DOMAIN instructions
    PROVE  InTail(n)
<1>1. Filing
  BY DEF Static
<1>2. n \in Nat /\ start \in Nat
  BY <1>1 DEF Filing, Position
<1>3. ASSUME n < start
      PROVE  FALSE
  <2>1. PICK t \in DOMAIN blocks : t <= n /\ n < blocks[t].end
    BY <1>1, <1>3 DEF Filing, FiledUpToStart
  <2>2. /\ t \in Nat /\ blocks[t].end \in Nat /\ s \in Nat /\ blocks[s].end \in Nat
        /\ s <= blocks[s].end
        /\ s < t => blocks[s].end <= t
        /\ t < s => blocks[t].end <= s
    BY <1>1, <2>1 DEF Filing, InRow
  <2>3. t < n
    BY <1>2, <2>1, <2>2
  <2>4. instructions[n].op # JUMPDEST
    BY <2>1, <2>3 DEF Static, BlocksInCode
  <2>5. blocks[s].end = n
    BY <2>4 DEF Accepted, IsValidJumpDest
  <2>6. s # t
    BY <1>2, <2>1, <2>5
  <2> QED
    BY <1>2, <2>1, <2>2, <2>3, <2>5, <2>6
<1> QED
  BY <1>1, <1>2, <1>3, TailIsOpenBlock

LEMMA FillExplained ==
    ASSUME NEW T, Traced(T)
    PROVE  ExplainedBy(FillCause)
<1>1. FillCause \in {"data", "arithmetic", "gas price", "none"}
  <2>1. NamedIn(OpInputs) \subseteq DOMAIN instructions
    BY StackNamesEarlier
  <2>2. CASE Behind > Size
    BY <2>2 DEF FillCause
  <2>3. CASE ~(Behind > Size) /\ Behind <= Size /\ Panics(Op, OpInputs)
    BY <2>3 DEF FillCause
  <2>4. CASE ~(Behind > Size) /\ ~(Behind <= Size /\ Panics(Op, OpInputs))
    BY <2>1, <2>4 DEF FillCause
  <2> QED
    BY <2>2, <2>3, <2>4
<1> QED
  BY <1>1 DEF ExplainedBy

\* An empty block is the one at 0 that waits for the open block to replace it.
LEMMA EmptyExplained ==
    ASSUME Static, NEW s \in DOMAIN blocks, InstructionsOf(s) = {}
    PROVE  ExplainedBy("empty block")
<1>1. /\ s \in DOMAIN instructions
      /\ s = blocks[s].end => s = 0 /\ start = 0 /\ instructions[0].op = JUMPDEST
  BY DEF Static, BlocksInCode
<1>2. s \in Nat /\ blocks[s].end \in Nat /\ s <= blocks[s].end
  BY DEF Static, Filing, InRow
<1>3. ~(s < blocks[s].end)
  BY <1>1, <1>2 DEF InstructionsOf
<1>4. s = 0 /\ start = 0 /\ instructions[0].op = JUMPDEST
  BY <1>1, <1>2, <1>3
<1>5. IsValidJumpDest(0) /\ InTail(0)
  BY <1>1, <1>4, TailIsOpenBlock DEF IsValidJumpDest, Static
<1> QED
  BY <1>5 DEF ExplainedBy

LEMMA NoEntryExplained ==
    ASSUME Static, 0 \notin DOMAIN blocks
    PROVE  ExplainedBy("no entry")
<1>1. ASSUME NEW o \in DOMAIN instructions
      PROVE  InTail(o)
  <2>1. /\ o \in Nat /\ start \in Nat /\ offset \in Nat /\ o < offset
    BY DEF Static, Filing, Position
  <2>2. 0 \in DOMAIN instructions
    BY <2>1 DEF Static, Contiguous, Positions
  <2>3. start = 0
    <3> SUFFICES ASSUME 0 < start PROVE FALSE
      BY <2>1
    <3>1. PICK s \in DOMAIN blocks : s <= 0
      BY <2>2 DEF Static, Filing, FiledUpToStart
    <3>2. s \in Nat
      BY DEF Static, Filing, InRow
    <3> QED
      BY <3>1, <3>2
  <2> QED
    BY <2>1, <2>3, TailIsOpenBlock DEF Static
<1> QED
  BY <1>1 DEF ExplainedBy

LEMMA SolveExplained ==
    ASSUME Static, Queue, states # <<>>, NEW s, s = Head(states).block, NEW gas,
           NEW run, run = SolveStack(s, Head(states).stack)
    PROVE  ExplainedBy(SolveCause(s, gas, run))
<1>1. /\ s \in DOMAIN blocks /\ RunType(run)
      /\ run = RunOver(instructions, Head(states).stack, InstructionsOf(s))
      /\ \A x : x \in Range(Taken(s, run)) <=> x \in Range(run.exits) /\ Accepted(s, x)
  BY HeadRuns
<1>2. PICK why : why = SolveCause(s, gas, run)
  OBVIOUS
<1>3. /\ why \in {"none", "floating value", "arithmetic", "dynamic target", "out of gas",
                  "no block"}
      /\ why = "no block" => \E n \in Range(Taken(s, run)) : n \notin DOMAIN blocks
  BY <1>1, <1>2, SolveCauseIs
<1>4. ASSUME why = "no block"
      PROVE  \E n \in Range(run.exits) :
                 Accepted(s, n) /\ (n \in DOMAIN instructions => InTail(n))
  <2>1. PICK n \in Range(Taken(s, run)) : n \notin DOMAIN blocks
    BY <1>3, <1>4
  <2>2. n \in Range(run.exits) /\ Accepted(s, n)
    BY <1>1, <2>1
  <2> QED
    BY <1>1, <2>1, <2>2, MissingIsTail
<1>5. ExplainedBy(why)
  BY <1>1, <1>3, <1>4 DEF ExplainedBy
<1> QED
  BY <1>2, <1>5

Explained == ExplainedBy(cause)

LEMMA ExplainedStays ==
    ASSUME NEW why, ExplainedBy(why), Panic(why)
    PROVE  Explained'
BY DEF Panic, Explained, ExplainedBy, IsValidJumpDest, InTail, Accepted, InstructionsOf

LEMMA NextExplained ==
    Static /\ (\E T : Traced(T)) /\ Passes /\ Explained /\ [Next]_vars => Explained'
<1> SUFFICES ASSUME Static, \E T : Traced(T), Passes, Explained, [Next]_vars
             PROVE  Explained'
  OBVIOUS
<1>1. Queue
  BY DEF Passes
<1>2. ASSUME cause' = "none"
      PROVE  Explained'
  BY <1>2 DEF Explained, ExplainedBy
<1>3. CASE Fill
  <2>1. phase = "filling" /\ cause = "none"
    BY <1>3 DEF Fill, Passes
  <2>2. FillPanics \/ cause' = cause
    BY <1>3 DEF Fill, FillInstruction, FillReturns
  <2>3. FillPanics => Panic(FillCause)
    BY DEF FillPanics
  <2> QED
    BY <1>2, <2>1, <2>2, <2>3, FillExplained, ExplainedStays
<1>4. CASE Link
  <2>1. phase = "linking" /\ cause = "none" /\ to_visit \subseteq DOMAIN blocks
    BY <1>4 DEF Link, Passes
  <2>2. ASSUME NEW s \in to_visit, LinkBlock(s)
        PROVE  Explained'
    <3>1. \/ InstructionsOf(s) = {} /\ Panic("empty block")
          \/ cause' = cause
      BY <2>2 DEF LinkBlock
    <3> QED
      BY <1>2, <2>1, <3>1, EmptyExplained, ExplainedStays
  <2>3. CASE LinkReturns
    <3>1. \/ 0 \notin DOMAIN blocks /\ Panic("no entry")
          \/ cause' = cause
      BY <2>3 DEF LinkReturns
    <3> QED
      BY <1>2, <2>1, <3>1, NoEntryExplained, ExplainedStays
  <2> QED
    BY <1>4, <2>2, <2>3 DEF Link
<1>5. CASE Solve_dynamics
  <2>1. phase = "solving" /\ cause = "none"
    BY <1>5 DEF Solve_dynamics, Passes
  <2>2. CASE SolveReturns
    BY <1>2, <2>1, <2>2 DEF SolveReturns
  <2>3. CASE SolveState /\ states # <<>>
    <3> DEFINE s == Head(states).block
               gas == Head(states).gas
               run == SolveStack(s, Head(states).stack)
    <3>1. Panic(SolveCause(s, gas, run)) \/ cause' = cause
      BY <2>3 DEF SolveState
    <3>2. ExplainedBy(SolveCause(s, gas, run))
      BY <1>1, <2>3, SolveExplained
    <3> QED
      BY <1>2, <2>1, <3>1, <3>2, ExplainedStays
  <2> QED
    BY <1>5, <2>2, <2>3 DEF Solve_dynamics
<1>6. CASE UNCHANGED vars
  BY <1>6 DEF vars, Explained, ExplainedBy, IsValidJumpDest, InTail, Accepted,
              InstructionsOf
<1> QED
  BY <1>3, <1>4, <1>5, <1>6 DEF Next

\* The symbolic stacks of the instructions decoded so far are there in every state.
HasTrace == \E T : Traced(T)

LEMMA NextTraced == Static /\ HasTrace /\ [Next]_vars => HasTrace'
<1> SUFFICES ASSUME Static, NEW T, Traced(T), [Next]_vars
             PROVE  HasTrace'
  BY DEF HasTrace
<1>1. ASSUME UNCHANGED <<filling, instructions>>
      PROVE  HasTrace'
  BY <1>1, TracedStays DEF HasTrace
<1>2. CASE FillInstruction
  BY <1>2, FillKeepsTraced DEF HasTrace
<1>3. FillInstruction \/ UNCHANGED <<filling, instructions>>
  BY DEF Next, Fill, FillPanics, FillReturns, Link, LinkBlock, LinkReturns, Solve_dynamics,
         SolveReturns, SolveState, Panic, vars
<1> QED
  BY <1>1, <1>2, <1>3

\* What all the theorems below rest on.
Sound == Static /\ HasTrace /\ Passes

LEMMA InitSound == Init => Sound
  BY InitStatic, InitTraced, InitPasses DEF Sound, HasTrace

LEMMA NextSound == Sound /\ [Next]_vars => Sound'
  BY NextStatic, NextTraced, NextPasses DEF Sound

\* For every code, no pass looks up in vain what another one has filed, but where the
\* code in question is behind the last jump, stop or JUMPDEST.
THEOREM LookupsFailInTailOnly == Spec => []LookupsSucceedButInTail
<1>1. Init => Explained
  BY DEF Init, Explained, ExplainedBy
<1>2. Sound /\ Explained /\ [Next]_vars => Explained'
  BY NextExplained DEF Sound, HasTrace
<1>3. ASSUME Sound, Explained PROVE LookupsSucceedButInTail
  <2>1. MissingBlocksAreTail
    BY <1>3, RunIsOver DEF Explained, ExplainedBy, MissingBlocksAreTail, SolveStack
  <2>2. NamedIn(stack) \subseteq DOMAIN instructions
    BY <1>3, StackNamesEarlier DEF Sound, HasTrace
  <2>3. cause # "op tree"
    BY <1>3 DEF Explained, ExplainedBy
  <2> QED
    BY <2>1, <2>2, <2>3 DEF LookupsSucceedButInTail, TreesAreBuilt
<1> QED
  BY <1>1, <1>2, <1>3, InitSound, NextSound, PTL DEF Spec

-----------------------------------------------------------------------------
(***************************************************************************)
(* Exits                                                                   *)
(***************************************************************************)

\* A block ends behind its last instruction.
LEMMA LastIs ==
    ASSUME Static, NEW s \in DOMAIN blocks, InstructionsOf(s) # {}
    PROVE  /\ LastOf(s) \in InstructionsOf(s) /\ LastOf(s) \in DOMAIN instructions
           /\ \A p \in InstructionsOf(s) : p <= LastOf(s)
           /\ LastOf(s) = Max(InstructionsOf(s))
           /\ BehindOf(LastOf(s)) = blocks[s].end
<1>1. offset \in Nat /\ InstructionsOf(s) \in SUBSET (0 .. (offset - 1))
  BY DEF Static, Filing, Position, InstructionsOf
<1> DEFINE m == Max(InstructionsOf(s))
           O == InstructionsOf(s)
<1> HIDE DEF O
<1>2. m \in O /\ m \in Nat /\ \A p \in O : p \in Nat /\ p <= m
  <2>1. O \in SUBSET (0 .. (offset - 1)) /\ O # {}
    BY <1>1 DEF O
  <2>2. Max(O) \in O /\ \A p \in O : p <= Max(O)
    BY <1>1, <2>1, MaxIsLast
  <2> QED
    BY <1>1, <2>1, <2>2 DEF O
<1> HIDE DEF m
<1>3. LastOf(s) = m
  <2>1. \E o \in O : \A p \in O : p <= o
    BY <1>2
  <2>2. LastOf(s) = CHOOSE o \in O : \A p \in O : p <= o
    BY DEF LastOf, O
  <2>3. LastOf(s) \in O /\ \A p \in O : p <= LastOf(s)
    BY <2>1, <2>2
  <2>4. m <= LastOf(s) /\ LastOf(s) <= m /\ LastOf(s) \in Nat
    BY <1>2, <2>3
  <2> QED
    BY <1>2, <2>4
<1>4. m \in DOMAIN instructions /\ s <= m /\ m < blocks[s].end
  BY <1>2 DEF O, InstructionsOf
<1>5. /\ blocks[s].end \in Positions /\ blocks[s].end <= offset /\ blocks[s].end \in Nat
      /\ s \in Nat
  BY DEF Static, BlocksInCode, Filing, Position, InRow
<1>6. BehindOf(m) \in Positions /\ BehindOf(m) <= blocks[s].end /\ m < BehindOf(m)
  <2>1. BehindOf(m) \in Positions /\ BehindOf(m) <= blocks[s].end
    BY <1>4, <1>5 DEF Static, Contiguous
  <2>2. PushBytes(instructions[m].op) \in Nat
    BY DEF PushBytes, IsPush, PUSH1
  <2>3. m < BehindOf(m)
    BY <1>2, <2>2 DEF BehindOf
  <2> QED
    BY <2>1, <2>3
<1>7. ASSUME BehindOf(m) < blocks[s].end
      PROVE  FALSE
  <2>1. BehindOf(m) \in Nat
    <3>1. \A p \in Positions : p \in Nat
      BY <1>1 DEF Static, Filing, Position, Positions
    <3> QED
      BY <1>6, <3>1
  <2>2. BehindOf(m) \in DOMAIN instructions
    BY <1>1, <1>5, <1>6, <1>7, <2>1 DEF Positions
  <2>3. BehindOf(m) \in O
    BY <1>2, <1>4, <1>5, <1>6, <1>7, <2>1, <2>2 DEF O, InstructionsOf
  <2> QED
    BY <1>2, <1>6, <2>1, <2>3
<1>8. BehindOf(m) = blocks[s].end
  <2>1. BehindOf(m) \in Nat
    <3>1. \A p \in Positions : p \in Nat
      BY <1>1 DEF Static, Filing, Position, Positions
    <3> QED
      BY <1>6, <3>1
  <2> QED
    BY <1>5, <1>6, <1>7, <2>1
<1> QED
  BY <1>2, <1>3, <1>4, <1>8 DEF O, m

\* An exit leads one byte behind the instruction, or where it jumps.
LEMMA ExitsAre ==
    ASSUME NEW op, NEW o, NEW inputs, NEW n \in Range(Exits(op, o, inputs))
    PROVE  \/ n = o + 1 /\ ~IsStop(op) /\ op # JUMP
           \/ IsJump(op) /\ n = inputs[1].value
<1>1. Range(<<>>) = {}
  BY DEF Range
<1>2. \A x : Range(<<x>>) = {x}
  BY DEF Range
<1>3. \A x, y : Range(<<x, y>>) = {x, y}
  BY DEF Range
<1>4. PICK exits, x, y : exits = Exits(op, o, inputs) /\ x = inputs[1].value /\ y = o + 1
  OBVIOUS
<1>5. \/ exits = <<>>
      \/ ~IsStop(op) /\ op # JUMP /\ exits = <<y>>
      \/ IsJump(op) /\ exits = <<x>>
      \/ IsJump(op) /\ ~IsStop(op) /\ op # JUMP /\ exits = <<x, y>>
  <2>1. ~IsJump(op) => op # JUMP
    BY DEF IsJump
  <2> QED
    BY <1>4, <2>1 DEF Exits
<1>6. n \in Range(exits)
  BY <1>4
<1>7. (n = y /\ ~IsStop(op) /\ op # JUMP) \/ (IsJump(op) /\ n = x)
  BY <1>1, <1>2, <1>3, <1>5, <1>6
<1> QED
  BY <1>4, <1>7

\* An instruction that does not panic runs on what one that did not panic left.
LEMMA IterateIs ==
    ASSUME NEW ins, NEW o, NEW run, RunType(run),
           NEW next, next = IterateOver(ins, run, o), next.cause = "none",
           NEW inputs, inputs = Inputs(ins[o].op, run.stack, 0)
    PROVE  /\ run.cause = "none"
           /\ Missing(ins[o].op, run.stack) <= 0
           /\ ~ExitsPanic(ins[o].op, inputs)
           /\ next.stack = Pushed(Rest(ins[o].op, run.stack),
                                  Outputs(ins[o].op, o, ins[o].data, inputs))
           /\ next.exits = Exits(ins[o].op, o, inputs)
<1> DEFINE op == ins[o].op
<1>1. Missing(op, run.stack) \in Nat
  BY MissingType DEF RunType
<1>2. next = IF run.cause # "none" THEN run
             ELSE IF Missing(op, run.stack) > 0
                  THEN [run EXCEPT !.cause = "floating value"]
             ELSE IF Panics(op, inputs)
                  THEN [run EXCEPT !.cause = "arithmetic"]
             ELSE IF ExitsPanic(op, inputs)
                  THEN [run EXCEPT !.cause = "dynamic target"]
             ELSE [cause |-> "none",
                   stack |-> Pushed(Rest(op, run.stack), Outputs(op, o, ins[o].data, inputs)),
                   exits |-> Exits(op, o, inputs)]
  BY DEF IterateOver
<1>3. \A why : [run EXCEPT !.cause = why].cause = why
  <2>1. run = [cause |-> run.cause, stack |-> run.stack, exits |-> run.exits]
    BY DEF RunType
  <2> QED
    BY <2>1
<1> HIDE DEF op
<1>4. run.cause = "none"
  BY <1>2
<1>5. ~(Missing(op, run.stack) > 0)
  BY <1>2, <1>3, <1>4
<1>6. ~Panics(op, inputs)
  BY <1>2, <1>3, <1>4, <1>5
<1>7. ~ExitsPanic(op, inputs)
  BY <1>2, <1>3, <1>4, <1>5, <1>6
<1>8. next = [cause |-> "none",
              stack |-> Pushed(Rest(op, run.stack), Outputs(op, o, ins[o].data, inputs)),
              exits |-> Exits(op, o, inputs)]
  BY <1>2, <1>4, <1>5, <1>6, <1>7
<1> QED
  BY <1>1, <1>4, <1>5, <1>7, <1>8 DEF op

\* Where running a block gives an exit, it is that of the last instruction.
LEMMA LastRuns ==
    ASSUME Static, NEW s \in DOMAIN blocks, NEW entry, IsSequence(entry), NEW run,
           run = RunOver(instructions, entry, InstructionsOf(s)), run.cause = "none",
           NEW n \in Range(run.exits),
           NEW o, o = LastOf(s),
           NEW before, before = RunOver(instructions, entry, InstructionsOf(s) \ {o}),
           NEW inputs, inputs = Inputs(instructions[o].op, before.stack, 0)
    PROVE  /\ InstructionsOf(s) # {}
           /\ RunType(before) /\ before.cause = "none"
           /\ Missing(instructions[o].op, before.stack) <= 0
           /\ ~ExitsPanic(instructions[o].op, inputs)
           /\ n \in Range(Exits(instructions[o].op, o, inputs))
<1>1. offset \in Nat /\ InstructionsOf(s) \in SUBSET (0 .. (offset - 1))
  BY DEF Static, Filing, Position, InstructionsOf
<1>2. InstructionsOf(s) # {}
  <2>1. ASSUME InstructionsOf(s) = {} PROVE FALSE
    <3>1. run = Started(entry)
      <4> DEFINE O == InstructionsOf(s)
      <4> HIDE DEF O
      <4>1. O \in SUBSET (0 .. (offset - 1)) /\ O = {} /\ run = RunOver(instructions, entry, O)
        BY <1>1, <2>1 DEF O
      <4> QED
        BY <1>1, <4>1, RunStep
    <3>2. run.exits = <<>>
      BY <3>1 DEF Started
    <3>3. Range(<<>>) = {}
      BY DEF Range
    <3> QED
      BY <3>2, <3>3
  <2> QED
    BY <2>1
<1>3. o = Max(InstructionsOf(s))
  BY <1>2, LastIs
<1>4. RunType(before) /\ run = IterateOver(instructions, before, o)
  <2> DEFINE O == InstructionsOf(s)
  <2> HIDE DEF O
  <2>1. /\ O \in SUBSET (0 .. (offset - 1)) /\ O # {} /\ run = RunOver(instructions, entry, O)
        /\ o = Max(O) /\ before = RunOver(instructions, entry, O \ {o})
    BY <1>1, <1>2, <1>3 DEF O
  <2>2. RunOver(instructions, entry, O)
            = IterateOver(instructions, RunOver(instructions, entry, O \ {Max(O)}), Max(O))
    BY <1>1, <2>1, RunStep
  <2>3. run = IterateOver(instructions, before, o)
    BY <2>1, <2>2
  <2>4. O \ {o} \in SUBSET (0 .. (offset - 1))
    BY <2>1
  <2>5. RunType(before)
    BY <1>1, <2>1, <2>4, RunHasType
  <2> QED
    BY <2>3, <2>5
<1> QED
  BY <1>2, <1>4, IterateIs

-----------------------------------------------------------------------------

\* Behind fill_instructions the code and the ends of the blocks stay.
EndsStay ==
    /\ UNCHANGED <<filling, instructions>> /\ DOMAIN blocks' = DOMAIN blocks
    /\ \A b \in DOMAIN blocks : blocks'[b].end = blocks[b].end

LEMMA LaterStays ==
    ASSUME Static, phase # "filling", [Next]_vars
    PROVE  EndsStay
<1>1. CASE UNCHANGED <<filling, instructions, blocks>>
  BY <1>1 DEF EndsStay
<1>2. ASSUME UNCHANGED <<filling, instructions>>, NEW s, blocks' = Linked(s)
      PROVE  EndsStay
  BY <1>2, LinkedStays DEF EndsStay
<1>3. ASSUME UNCHANGED <<filling, instructions>>, NEW s,
             blocks' = [blocks EXCEPT ![s].reachable = TRUE]
      PROVE  EndsStay
  BY <1>3, ReachedStays DEF EndsStay
<1>4. CASE Link
  BY <1>1, <1>2, <1>4 DEF Link, LinkBlock, LinkReturns, Panic
<1>5. CASE Solve_dynamics
  BY <1>1, <1>3, <1>5 DEF Solve_dynamics, SolveReturns, SolveState, Panic
<1>6. CASE UNCHANGED vars
  BY <1>1, <1>6 DEF vars
<1> QED
  BY <1>4, <1>5, <1>6 DEF Next, Fill

LEMMA LastStays ==
    ASSUME EndsStay, NEW s \in DOMAIN blocks
    PROVE  /\ s \in DOMAIN blocks' /\ blocks'[s].end = blocks[s].end
           /\ InstructionsOf(s)' = InstructionsOf(s) /\ LastOf(s)' = LastOf(s)
<1>1. InstructionsOf(s)' = InstructionsOf(s)
  BY DEF EndsStay, InstructionsOf
<1>2. LastOf(s)' = LastOf(s)
  BY <1>1 DEF LastOf
<1> QED
  BY <1>1, <1>2 DEF EndsStay

\* The step into solve_dynamics, and one of its own that does not panic.
Enters ==
    /\ phase = "linking" /\ 0 \in DOMAIN blocks
    /\ states' = << [gas |-> GasLimit, block |-> 0, stack |-> <<>>] >>
    /\ UNCHANGED <<moves, refused>>

Solves(s, entry, run) ==
    /\ phase = "solving" /\ states # <<>>
    /\ s = Head(states).block /\ entry = Head(states).stack
    /\ run = SolveStack(s, entry)
    /\ run.cause = "none"
    /\ \A n \in Range(Taken(s, run)) : n \in DOMAIN blocks
    /\ blocks' = [blocks EXCEPT ![s].reachable = TRUE]
    /\ Adds(states', states, Taken(s, run), run.stack)
    /\ moves' = moves \cup {<<s, n>> : n \in Range(Taken(s, run))}
    /\ refused' = refused \cup {<<s, n>> : n \in {m \in Range(run.exits) : ~Accepted(s, m)}}

LEMMA SolveSteps ==
    ASSUME Static, Passes, SolveState, phase = "solving", states # <<>>
    PROVE  \/ UNCHANGED <<blocks, states, moves, refused>>
           \/ \E s, entry, run : Solves(s, entry, run)
<1> DEFINE s == Head(states).block
           entry == Head(states).stack
           gas == Head(states).gas
           run == SolveStack(s, entry)
<1>1. \/ Panic(SolveCause(s, gas, run))
      \/ /\ SolveCause(s, gas, run) = "none"
         /\ blocks' = [blocks EXCEPT ![s].reachable = TRUE]
         /\ moves' = moves \cup {<<s, n>> : n \in Range(Taken(s, run))}
         /\ states' = Tail(states) \o
               [i \in 1 .. Len(Taken(s, run)) |->
                   [gas |-> GasLeft(s, gas), block |-> Taken(s, run)[i], stack |-> run.stack]]
         /\ refused' = refused \cup
               {<<s, n>> : n \in {m \in Range(run.exits) : ~Accepted(s, m)}}
  BY DEF SolveState
<1>2. RunType(run)
  BY HeadRuns DEF Passes
<1>3. CASE Panic(SolveCause(s, gas, run))
  BY <1>3 DEF Panic
<1>4. CASE ~Panic(SolveCause(s, gas, run))
  <2>1. Adds(states', states, Taken(s, run), run.stack)
    BY <1>1, <1>4, SolveAdds DEF Passes
  <2> HIDE DEF run, s, gas, entry
  <2>2. run.cause = "none" /\ \A n \in Range(Taken(s, run)) : n \in DOMAIN blocks
    BY <1>1, <1>2, <1>4, SolveCauseIs
  <2>3. run = SolveStack(s, entry) /\ s = Head(states).block /\ entry = Head(states).stack
    BY DEF run, s, entry
  <2>4. /\ blocks' = [blocks EXCEPT ![s].reachable = TRUE]
        /\ moves' = moves \cup {<<s, n>> : n \in Range(Taken(s, run))}
        /\ refused' = refused \cup
              {<<s, n>> : n \in {m \in Range(run.exits) : ~Accepted(s, m)}}
    BY <1>1, <1>4
  <2>5. Solves(s, entry, run)
    BY <2>1, <2>2, <2>3, <2>4 DEF Solves
  <2> QED
    BY <2>5
<1> QED
  BY <1>3, <1>4

LEMMA QueueSteps ==
    ASSUME Static, Passes, [Next]_vars
    PROVE  \/ UNCHANGED <<states, moves, refused>>
           \/ Enters
           \/ \E s, entry, run : Solves(s, entry, run)
<1>1. ASSUME SolveState, phase = "solving", states # <<>>
      PROVE  \/ UNCHANGED <<states, moves, refused>>
             \/ \E s, entry, run : Solves(s, entry, run)
  BY <1>1, SolveSteps
<1>2. CASE Solve_dynamics
  BY <1>1, <1>2 DEF Solve_dynamics, SolveReturns
<1>3. CASE Fill
  BY <1>3 DEF Fill, FillPanics, FillInstruction, FillReturns, Panic
<1>4. CASE Link
  BY <1>4 DEF Link, LinkBlock, LinkReturns, Panic, Enters
<1> QED
  BY <1>2, <1>3, <1>4 DEF Next, vars

-----------------------------------------------------------------------------
(***************************************************************************)
(* Refused exits                                                           *)
(***************************************************************************)

Refusal(s, n) ==
    \/ /\ IsJump(instructions[LastOf(s)].op)
       /\ ~IsValidJumpDest(n)
       /\ n # blocks[s].end
    \/ IsPush(instructions[LastOf(s)].op) /\ n = LastOf(s) + 1

Refusals == \A r \in refused : r[1] \in DOMAIN blocks /\ Refusal(r[1], r[2])

LEMMA RefusedIs ==
    ASSUME Static, Queue, NEW s, NEW entry, NEW run, Solves(s, entry, run),
           NEW n \in Range(run.exits), ~Accepted(s, n)
    PROVE  s \in DOMAIN blocks /\ Refusal(s, n)
<1>1. /\ s \in DOMAIN blocks /\ IsSequence(entry)
      /\ run = RunOver(instructions, entry, InstructionsOf(s)) /\ run.cause = "none"
  BY HeadRuns DEF Solves
<1> DEFINE o == LastOf(s)
           op == instructions[o].op
           before == RunOver(instructions, entry, InstructionsOf(s) \ {o})
           inputs == Inputs(op, before.stack, 0)
<1>2. InstructionsOf(s) # {} /\ n \in Range(Exits(op, o, inputs))
  BY <1>1, LastRuns
<1>3. (n = o + 1 /\ ~IsStop(op) /\ op # JUMP) \/ IsJump(op)
  <2> HIDE DEF op, inputs, o
  <2> QED
    BY <1>2, ExitsAre
<1>4. o + 1 + PushBytes(op) = blocks[s].end /\ o \in Nat
  BY <1>1, <1>2, LastIs DEF BehindOf, Static, Filing, Position
<1>5. n # blocks[s].end /\ ~IsValidJumpDest(n)
  BY DEF Accepted
<1>6. CASE n = o + 1 /\ ~IsJump(op)
  <2>1. IsPush(op)
    BY <1>4, <1>5, <1>6 DEF PushBytes
  <2> QED
    BY <1>1, <1>6, <2>1 DEF Refusal
<1>7. CASE IsJump(op)
  BY <1>1, <1>5, <1>7 DEF Refusal
<1> QED
  BY <1>3, <1>6, <1>7

LEMMA RefusalStays ==
    ASSUME EndsStay, NEW s \in DOMAIN blocks, NEW n, Refusal(s, n)
    PROVE  Refusal(s, n)'
<1>1. LastOf(s)' = LastOf(s) /\ blocks'[s].end = blocks[s].end
  BY LastStays
<1>2. instructions' = instructions
  BY DEF EndsStay
<1> QED
  BY <1>1, <1>2 DEF Refusal, IsValidJumpDest

LEMMA NextRefusals == Sound /\ Refusals /\ [Next]_vars => Refusals'
<1> SUFFICES ASSUME Sound, Refusals, [Next]_vars
             PROVE  Refusals'
  OBVIOUS
<1>1. Static /\ Passes /\ Queue
  BY DEF Sound, Passes
<1>2. CASE phase = "filling"
  <2>1. refused = {}
    BY <1>1, <1>2 DEF Passes
  <2>2. UNCHANGED <<moves, refused>>
    BY <1>1, <1>2, QueueSteps DEF Solves, Enters
  <2> QED
    BY <2>1, <2>2 DEF Refusals
<1>3. CASE phase # "filling"
  <2>1. EndsStay
    BY <1>1, <1>3, LaterStays
  <2>2. \A r \in refused : r[1] \in DOMAIN blocks' /\ Refusal(r[1], r[2])'
    BY <2>1, RefusalStays, LastStays DEF Refusals
  <2>3. CASE UNCHANGED <<moves, refused>>
    BY <2>2, <2>3 DEF Refusals
  <2>4. ASSUME NEW s, NEW entry, NEW run, Solves(s, entry, run)
        PROVE  Refusals'
    <3>1. ASSUME NEW n \in Range(run.exits), ~Accepted(s, n)
          PROVE  s \in DOMAIN blocks' /\ Refusal(s, n)'
      <4>1. s \in DOMAIN blocks /\ Refusal(s, n)
        BY <1>1, <2>4, <3>1, RefusedIs
      <4> QED
        BY <2>1, <4>1, RefusalStays, LastStays
    <3>2. refused' = refused \cup {<<s, n>> : n \in {m \in Range(run.exits) : ~Accepted(s, m)}}
      BY <2>4 DEF Solves
    <3> QED
      BY <2>2, <3>1, <3>2 DEF Refusals
  <2> QED
    BY <1>1, <2>3, <2>4, QueueSteps DEF Enters
<1> QED
  BY <1>2, <1>3

\* For every code, each exit solve_dynamics refuses is a jump that leads neither to a
\* JUMPDEST nor just behind its block, or one byte behind the PUSH its block ends in.
THEOREM RefusalsHaveReasons == Spec => []RefusedAreExplained
<1>1. Init => Refusals
  BY DEF Init, Refusals
<1>2. Refusals => RefusedAreExplained
  BY DEF Refusals, Refusal, RefusedAreExplained
<1> QED
  BY <1>1, <1>2, NextRefusals, InitSound, NextSound, PTL DEF Spec

-----------------------------------------------------------------------------
(***************************************************************************)
(* What the symbolic stack says of a stack of an execution.  A way is how  *)
(* execution comes through a block: own are the block's instructions, put  *)
(* what each of them puts out first, entry the stack it is entered with,   *)
(* and jumped whether jumps lead to it.                                    *)
(***************************************************************************)
Meets(e, d, way) ==
    /\ IsConstant(e) => d = e
    /\ e.kind = "result" /\ e.value \in way.own => d = way.put[e.value]
    /\ e.kind = "argument" /\ way.jumped /\ e.value < Len(way.entry) =>
           d = way.entry[Len(way.entry) - e.value]

Tracks(t, D, way) ==
    /\ IsSequence(t.stack) /\ IsSequence(D) /\ IsSequence(way.entry) /\ t.args \in Nat
    /\ Len(t.stack) <= Len(D)
    /\ \A j \in 1 .. Len(t.stack) : Meets(Top(t.stack, j), Top(D, j), way)
    /\ way.jumped =>
          /\ Len(D) = Len(way.entry) - t.args + Len(t.stack)
          /\ \A k \in 1 .. (Len(way.entry) - t.args) : D[k] = way.entry[k]

LEMMA LengthType == ASSUME NEW s, IsSequence(s) PROVE Len(s) \in Nat
  BY DEF IsSequence

\* Below the outputs the stack is what it was below the inputs.
LEMMA BelowOutputs ==
    ASSUME NEW op, NEW stk, NEW outputs, IsSequence(stk), IsSequence(outputs),
           NEW after, after = Pushed(Rest(op, stk), outputs),
           NEW j \in 1 .. Len(after), Len(outputs) < j
    PROVE  /\ j - Len(outputs) + Args(op) \in 1 .. Len(stk)
           /\ Top(after, j) = Top(stk, j - Len(outputs) + Args(op))
<1>1. /\ Len(stk) \in Nat /\ Len(outputs) \in Nat /\ Args(op) \in Nat
      /\ IsSequence(after)
      /\ Len(after) = Len(outputs)
             + (IF Args(op) > Len(stk) THEN 0 ELSE Len(stk) - Args(op))
      /\ \A k \in 1 .. Len(after) - Len(outputs) : after[k] = stk[k]
  BY PushedIs, LengthType, ArgsType
<1>2. Len(after) = Len(outputs) + Len(stk) - Args(op) /\ Args(op) <= Len(stk)
  BY <1>1
<1> DEFINE k == Len(after) - j + 1
<1>3. /\ k \in 1 .. Len(after) - Len(outputs)
      /\ k = Len(stk) - (j - Len(outputs) + Args(op)) + 1
      /\ j - Len(outputs) + Args(op) \in 1 .. Len(stk)
  BY <1>1, <1>2
<1>4. after[k] = stk[k]
  BY <1>1, <1>3
<1> HIDE DEF k
<1>5. Top(stk, j - Len(outputs) + Args(op)) = stk[k]
  BY <1>3 DEF Top
<1>6. Top(after, j) = after[k]
  BY DEF Top, k
<1> QED
  BY <1>3, <1>4, <1>5, <1>6

\* The inputs an execution finds are those the static pass has found.
LEMMA InputsMeet ==
    ASSUME NEW t, NEW D, NEW way, Tracks(t, D, way), NEW op,
           NEW found, found = Inputs(op, t.stack, t.args),
           NEW inputs, inputs = Inputs(op, D, 0),
           NEW i \in 1 .. Args(op)
    PROVE  Meets(found[i], inputs[i], way)
<1>1. /\ IsSequence(t.stack) /\ IsSequence(D) /\ IsSequence(way.entry) /\ t.args \in Nat
      /\ Len(t.stack) \in Nat /\ Len(D) \in Nat /\ Len(way.entry) \in Nat /\ Args(op) \in Nat
      /\ Len(t.stack) <= Len(D)
  BY LengthType, ArgsType DEF Tracks
<1>2. /\ found[i] = IF i <= Len(t.stack) THEN Top(t.stack, i)
                    ELSE Argument(t.args + i - Len(t.stack) - 1)
      /\ inputs[i] = IF i <= Len(D) THEN Top(D, i) ELSE Argument(0 + i - Len(D) - 1)
  BY <1>1, InputsAre
<1>3. CASE i <= Len(t.stack)
  <2>1. i \in 1 .. Len(t.stack) /\ i <= Len(D)
    BY <1>1, <1>3
  <2>2. found[i] = Top(t.stack, i) /\ inputs[i] = Top(D, i)
    BY <1>2, <1>3, <2>1
  <2> QED
    BY <2>1, <2>2 DEF Tracks
<1>4. CASE ~(i <= Len(t.stack))
  <2> DEFINE v == t.args + i - Len(t.stack) - 1
  <2>1. found[i] = Argument(v)
    BY <1>2, <1>4
  <2>2. Argument(v).kind = "argument" /\ Argument(v).value = v /\ ~IsConstant(Argument(v))
    BY DEF Argument, IsConstant
  <2>3. ASSUME way.jumped, v < Len(way.entry)
        PROVE  inputs[i] = way.entry[Len(way.entry) - v]
    <3>1. /\ Len(D) = Len(way.entry) - t.args + Len(t.stack)
          /\ \A k \in 1 .. (Len(way.entry) - t.args) : D[k] = way.entry[k]
      BY <2>3 DEF Tracks
    <3> DEFINE k == Len(way.entry) - v
    <3>2. i <= Len(D) /\ k = Len(D) - i + 1 /\ k \in 1 .. (Len(way.entry) - t.args)
      <4>1. PICK n \in Nat, a \in Nat, e \in Nat, d \in Nat :
                n = Len(way.entry) /\ a = t.args /\ e = Len(t.stack) /\ d = Len(D)
        BY <1>1
      <4>2. d = n - a + e /\ i \in Nat /\ i > e /\ a + i - e - 1 < n
        BY <1>1, <1>4, <2>3, <3>1, <4>1
      <4>3. i <= d /\ n - (a + i - e - 1) = d - i + 1 /\ n - (a + i - e - 1) \in 1 .. (n - a)
        BY <4>2
      <4> QED
        BY <4>1, <4>3
    <3> HIDE DEF k
    <3>3. inputs[i] = D[k]
      BY <1>2, <3>2 DEF Top
    <3> QED
      BY <3>1, <3>2, <3>3 DEF k
  <2> HIDE DEF v
  <2> QED
    BY <2>1, <2>2, <2>3 DEF Meets
<1> QED
  BY <1>3, <1>4

\* And so are what it puts out.
PutsOut(way, o, outputs) == o \in way.own => way.put[o] = outputs[1]

AllMeet(found, inputs, way) == \A i \in 1 .. Len(found) : Meets(found[i], inputs[i], way)

LEMMA OutputsMeet ==
    ASSUME NEW op, NEW o, NEW data, NEW way,
           NEW found, IsSequence(found), Len(found) = Args(op),
           NEW inputs, IsSequence(inputs), Len(inputs) = Args(op),
           Listed(found, Args(op)), Listed(inputs, Args(op)), AllMeet(found, inputs, way),
           NEW said, said = Outputs(op, o, data, found),
           NEW outputs, outputs = Outputs(op, o, data, inputs),
           PutsOut(way, o, outputs)
    PROVE  /\ IsSequence(said) /\ IsSequence(outputs) /\ Len(said) = Len(outputs)
           /\ AllMeet(said, outputs, way)
<1>1. \A i \in 1 .. Args(op) : Meets(found[i], inputs[i], way)
  BY DEF AllMeet
<1>2. CASE IsPush(op)
  <2>1. PICK c : c = Constant(data)
    OBVIOUS
  <2>2. said = <<c>> /\ outputs = <<c>>
    BY <1>2, <2>1, PushOutputs
  <2>3. said \in Seq({c}) /\ Len(said) = 1 /\ said[1] = c /\ outputs = said
    BY <2>2
  <2>4. Meets(c, c, way)
    BY <2>1 DEF Meets, Constant, IsConstant
  <2> QED
    BY <2>3, <2>4 DEF IsSequence, AllMeet
<1>3. CASE IsSwap(op)
  <2>1. /\ IsSequence(said) /\ Len(said) = Args(op)
        /\ \A i \in 1 .. Args(op) :
              said[i] = found[IF i = 1 THEN Args(op) ELSE IF i = Args(op) THEN 1 ELSE i]
    BY <1>3, SwapOutputs
  <2>2. /\ IsSequence(outputs) /\ Len(outputs) = Args(op)
        /\ \A i \in 1 .. Args(op) :
              outputs[i] = inputs[IF i = 1 THEN Args(op) ELSE IF i = Args(op) THEN 1 ELSE i]
    BY <1>3, SwapOutputs
  <2>3. ASSUME NEW j \in 1 .. Args(op)
        PROVE  Meets(said[j], outputs[j], way)
    <3>1. PICK k : k = IF j = 1 THEN Args(op) ELSE IF j = Args(op) THEN 1 ELSE j
      OBVIOUS
    <3>2. k \in 1 .. Args(op)
      BY <3>1, ArgsType
    <3>3. said[j] = found[k] /\ outputs[j] = inputs[k]
      BY <2>1, <2>2, <3>1
    <3> QED
      BY <1>1, <3>2, <3>3
  <2> QED
    BY <2>1, <2>2, <2>3 DEF AllMeet
<1>4. CASE IsDup(op)
  <2>1. /\ IsSequence(said) /\ Len(said) = 1 + Args(op) /\ said[1] = found[Args(op)]
        /\ \A i \in 2 .. 1 + Args(op) : said[i] = found[i - 1]
    BY <1>4, DupOutputs
  <2>2. /\ IsSequence(outputs) /\ Len(outputs) = 1 + Args(op) /\ outputs[1] = inputs[Args(op)]
        /\ \A i \in 2 .. 1 + Args(op) : outputs[i] = inputs[i - 1]
    BY <1>4, DupOutputs
  <2>3. Args(op) \in Nat /\ Args(op) > 0
    BY <1>4, OpKinds, ArgsType
  <2>4. ASSUME NEW j \in 1 .. 1 + Args(op)
        PROVE  Meets(said[j], outputs[j], way)
    <3>1. CASE j = 1
      <4>1. Args(op) \in 1 .. Args(op)
        BY <2>3
      <4> QED
        BY <1>1, <2>1, <2>2, <3>1, <4>1
    <3>2. CASE j # 1
      <4>1. j - 1 \in 1 .. Args(op) /\ j \in 2 .. 1 + Args(op)
        BY <2>3, <3>2
      <4> QED
        BY <1>1, <2>1, <2>2, <4>1
    <3> QED
      BY <3>1, <3>2
  <2> QED
    BY <2>1, <2>2, <2>4 DEF AllMeet
<1>5. CASE ~IsPush(op) /\ ~IsSwap(op) /\ ~IsDup(op)
  <2>1. /\ IsSequence(said) /\ Len(said) = Ret(op)
        /\ Ret(op) = 1 => said[1] = IF Folds(op, found)
                                    THEN Constant(Solve(op, Values(found)))
                                    ELSE ResultOf(o)
    BY <1>5, OtherOutputs
  <2>2. IsSequence(outputs) /\ Len(outputs) = Ret(op)
    BY <1>5, OtherOutputs
  <2>3. ASSUME Ret(op) = 1
        PROVE  Meets(said[1], outputs[1], way)
    <3>1. CASE Folds(op, found)
      <4>1. \A i \in 1 .. Args(op) : inputs[i] = found[i]
        BY <1>1, <3>1 DEF Folds, Meets
      <4>2. inputs = found
        BY <4>1 DEF Listed
      <4>3. outputs = said
        BY <4>2
      <4>4. said[1] = Constant(Solve(op, Values(found)))
        BY <2>1, <2>3, <3>1
      <4>5. IsConstant(said[1]) /\ said[1].kind = "constant"
        BY <4>4 DEF Constant, IsConstant
      <4> QED
        BY <4>3, <4>5 DEF Meets
    <3>2. CASE ~Folds(op, found)
      <4>1. said[1] = ResultOf(o)
        BY <2>1, <2>3, <3>2
      <4>2. said[1].kind = "result" /\ said[1].value = o /\ ~IsConstant(said[1])
        BY <4>1 DEF ResultOf, IsConstant
      <4> QED
        BY <4>2 DEF Meets, PutsOut
    <3> QED
      BY <3>1, <3>2
  <2>4. ASSUME NEW j \in 1 .. Ret(op)
        PROVE  Meets(said[j], outputs[j], way)
    <3>1. j = 1 /\ Ret(op) = 1
      BY RetType
    <3> QED
      BY <2>3, <3>1
  <2> QED
    BY <2>1, <2>2, <2>4 DEF AllMeet
<1> QED
  BY <1>2, <1>3, <1>4, <1>5

\* One instruction further.
LEMMA TracksOn ==
    ASSUME NEW t, NEW D, NEW way, Tracks(t, D, way), NEW op, Missing(op, D) <= 0,
           NEW said, IsSequence(said), NEW outputs, IsSequence(outputs),
           Len(said) = Len(outputs), AllMeet(said, outputs, way),
           NEW next, next.stack = Pushed(Rest(op, t.stack), said),
           next.args = t.args + Missing(op, t.stack),
           NEW after, after = Pushed(Rest(op, D), outputs)
    PROVE  Tracks(next, after, way)
<1>1. /\ IsSequence(t.stack) /\ IsSequence(D) /\ IsSequence(way.entry) /\ t.args \in Nat
      /\ Len(t.stack) <= Len(D)
  BY DEF Tracks
<1>2. PICK e \in Nat, d \in Nat, a \in Nat, n \in Nat, args \in Nat, m \in Nat :
          /\ e = Len(t.stack) /\ d = Len(D) /\ a = Args(op) /\ n = Len(said)
          /\ args = t.args /\ m = Len(way.entry)
  BY <1>1, LengthType, ArgsType
<1>3. a <= d /\ e <= d
  BY <1>1, <1>2 DEF Missing
<1>4. /\ IsSequence(next.stack)
      /\ Len(next.stack) = n + (IF a > e THEN 0 ELSE e - a)
      /\ \A j \in 1 .. n : Top(next.stack, j) = said[j]
  BY <1>1, <1>2, PushedIs
<1>5. /\ IsSequence(after)
      /\ Len(after) = n + d - a
      /\ \A j \in 1 .. n : Top(after, j) = outputs[j]
      /\ \A k \in 1 .. d - a : after[k] = D[k]
  <2>1. /\ IsSequence(after)
        /\ Len(after) = n + (IF a > d THEN 0 ELSE d - a)
        /\ \A j \in 1 .. n : Top(after, j) = outputs[j]
        /\ \A k \in 1 .. Len(after) - n : after[k] = D[k]
    BY <1>1, <1>2, PushedIs
  <2>2. Len(after) = n + d - a /\ Len(after) - n = d - a
    BY <1>3, <2>1
  <2> QED
    BY <2>1, <2>2
<1>6. Len(next.stack) <= Len(after)
  BY <1>3, <1>4, <1>5
<1>7. ASSUME NEW j \in 1 .. Len(next.stack)
      PROVE  Meets(Top(next.stack, j), Top(after, j), way)
  <2>1. CASE j <= n
    <3>1. j \in 1 .. n
      BY <2>1
    <3> QED
      BY <1>2, <1>4, <1>5, <3>1 DEF AllMeet
  <2>2. CASE ~(j <= n)
    <3>1. j \in 1 .. Len(after) /\ n < j
      BY <1>4, <1>5, <1>6, <2>2
    <3>2. j - n + a \in 1 .. e /\ Top(next.stack, j) = Top(t.stack, j - n + a)
      BY <1>1, <1>2, <3>1, BelowOutputs
    <3>3. Top(after, j) = Top(D, j - n + a)
      BY <1>1, <1>2, <3>1, BelowOutputs
    <3> QED
      BY <1>2, <3>2, <3>3 DEF Tracks
  <2> QED
    BY <2>1, <2>2
<1>8. PICK args1 \in Nat : args1 = next.args /\ args1 = args + (IF a > e THEN a - e ELSE 0)
  BY <1>2 DEF Missing
<1>9. ASSUME way.jumped
      PROVE  /\ Len(after) = m - args1 + Len(next.stack)
             /\ \A k \in 1 .. (m - args1) : after[k] = way.entry[k]
  <2>1. d = m - args + e /\ \A k \in 1 .. (m - args) : D[k] = way.entry[k]
    BY <1>2, <1>9 DEF Tracks
  <2>2. Len(after) = m - args1 + Len(next.stack)
    BY <1>3, <1>4, <1>5, <1>8, <2>1
  <2>3. ASSUME NEW k \in 1 .. (m - args1)
        PROVE  after[k] = way.entry[k]
    <3>1. k \in 1 .. (m - args) /\ k \in 1 .. d - a
      BY <1>3, <1>8, <2>1
    <3> QED
      BY <1>5, <2>1, <3>1
  <2> QED
    BY <2>2, <2>3
<1> QED
  BY <1>1, <1>2, <1>4, <1>5, <1>6, <1>7, <1>8, <1>9 DEF Tracks

\* Behind a JUMPDEST nothing is known of the stack but that it is the one the block was
\* entered with.
LEMMA TracksFromJump ==
    ASSUME NEW o, NEW data, NEW way, NEW entry, IsSequence(entry), way.entry = entry,
           NEW inputs, inputs = Inputs(JUMPDEST, entry, 0),
           NEW t, t = [stack |-> <<>>, args |-> 0],
           NEW after, after = Pushed(Rest(JUMPDEST, entry), Outputs(JUMPDEST, o, data, inputs))
    PROVE  Tracks(t, after, way)
<1>1. PICK none : none = <<>>
  OBVIOUS
<1>2. IsSequence(none) /\ Len(none) = 0 /\ t.stack = none /\ t.args = 0
  BY <1>1, EmptyIsSymbolic DEF SymbolicStack
<1>3. Args(JUMPDEST) = 0 /\ Ret(JUMPDEST) = 0
  BY DEF Args, Ret, JUMPDEST, IsDup, IsSwap, DUP1, SWAP1
<1>4. ~IsPush(JUMPDEST) /\ ~IsSwap(JUMPDEST) /\ ~IsDup(JUMPDEST)
  BY DEF JUMPDEST, IsPush, IsDup, IsSwap, PUSH1, DUP1, SWAP1
<1>5. PICK outputs : outputs = Outputs(JUMPDEST, o, data, inputs)
  OBVIOUS
<1>6. IsSequence(outputs) /\ Len(outputs) = 0
  BY <1>3, <1>4, <1>5, OtherOutputs
<1>7. /\ IsSequence(after) /\ Len(after) = Len(entry) /\ Len(entry) \in Nat
      /\ \A k \in 1 .. Len(entry) : after[k] = entry[k]
  <2>1. /\ IsSequence(after)
        /\ Len(after) = Len(outputs) + (IF Args(JUMPDEST) > Len(entry) THEN 0
                                        ELSE Len(entry) - Args(JUMPDEST))
        /\ \A k \in 1 .. Len(after) - Len(outputs) : after[k] = entry[k]
    BY <1>5, <1>6, PushedIs
  <2>2. Len(entry) \in Nat
    BY LengthType
  <2>3. Len(after) = Len(entry) /\ Len(after) - Len(outputs) = Len(entry)
    BY <1>3, <1>6, <2>1, <2>2
  <2> QED
    BY <2>1, <2>2, <2>3
<1> HIDE DEF JUMPDEST
<1> QED
  BY <1>2, <1>7 DEF Tracks

\* A block no jump leads to is entered with what the symbolic stack says.
Agrees(E, D) ==
    Len(E) <= Len(D) /\ \A j \in 1 .. Len(E) : IsConstant(Top(E, j)) => Top(D, j) = Top(E, j)

LEMMA TracksFromEntry ==
    ASSUME NEW t, NEW them, SymbolicStack(t.stack, them), t.args \in Nat,
           NEW entry, IsSequence(entry), Agrees(t.stack, entry),
           NEW way, way.entry = entry, ~way.jumped, \A v \in them : v \notin way.own
    PROVE  Tracks(t, entry, way)
<1>1. IsSequence(t.stack) /\ Len(t.stack) \in Nat
  BY LengthType DEF SymbolicStack
<1>2. ASSUME NEW j \in 1 .. Len(t.stack)
      PROVE  Meets(Top(t.stack, j), Top(entry, j), way)
  <2>1. Len(t.stack) - j + 1 \in 1 .. Len(t.stack)
    BY <1>1
  <2>2. Symbolic(Top(t.stack, j), them)
    BY <2>1 DEF Top, SymbolicStack
  <2>3. IsConstant(Top(t.stack, j)) => Top(entry, j) = Top(t.stack, j)
    BY DEF Agrees
  <2> QED
    BY <2>2, <2>3 DEF Meets, Symbolic
<1> QED
  BY <1>1, <1>2 DEF Tracks, Agrees

-----------------------------------------------------------------------------
(***************************************************************************)
(* Through a block                                                         *)
(***************************************************************************)

Preceding(s, o) == {p \in InstructionsOf(s) : p < o}

\* An offset in the block, or its end, but not its start, is just behind an instruction.
LEMMA PrecedingIs ==
    ASSUME Static, NEW s \in DOMAIN blocks, NEW o \in Positions, s < o, o <= blocks[s].end
    PROVE  \E q \in InstructionsOf(s) :
               /\ q < o /\ BehindOf(q) = o
               /\ Preceding(s, o) # {} /\ Max(Preceding(s, o)) = q
               /\ Preceding(s, o) \ {q} = Preceding(s, q)
<1>1. /\ offset \in Nat /\ o \in Nat /\ s \in Nat /\ blocks[s].end \in Nat
      /\ blocks[s].end <= offset /\ s \in DOMAIN instructions
      /\ \A p \in Positions : p \in Nat
      /\ \A p \in DOMAIN instructions : p \in Nat /\ p < offset
  BY DEF Static, Filing, Position, InRow, BlocksInCode, Positions
<1> DEFINE P == Preceding(s, o)
           q == Max(P)
<1>2. s \in P
  BY <1>1 DEF Preceding, InstructionsOf
<1>3. P \in SUBSET (0 .. (offset - 1))
  BY <1>1 DEF Preceding, InstructionsOf
<1> HIDE DEF P
<1>4. q \in P /\ \A x \in P : x <= q
  BY <1>1, <1>2, <1>3, MaxIsLast
<1> HIDE DEF q
<1>5. q \in InstructionsOf(s) /\ q < o /\ q \in DOMAIN instructions /\ q \in Nat /\ s <= q
  BY <1>1, <1>4 DEF P, Preceding, InstructionsOf
<1>6. BehindOf(q) \in Positions /\ BehindOf(q) <= o /\ BehindOf(q) \in Nat /\ q < BehindOf(q)
  <2>1. BehindOf(q) \in Positions /\ BehindOf(q) <= o
    BY <1>5 DEF Static, Contiguous
  <2>2. PushBytes(instructions[q].op) \in Nat
    BY DEF PushBytes, IsPush, PUSH1
  <2>3. q < BehindOf(q)
    BY <1>5, <2>2 DEF BehindOf
  <2> QED
    BY <1>1, <2>1, <2>3
<1>7. ASSUME BehindOf(q) < o
      PROVE  FALSE
  <2>1. BehindOf(q) \in DOMAIN instructions
    BY <1>1, <1>6, <1>7 DEF Positions
  <2>2. BehindOf(q) \in P
    BY <1>1, <1>5, <1>6, <1>7, <2>1 DEF P, Preceding, InstructionsOf
  <2> QED
    BY <1>4, <1>5, <1>6, <2>2
<1>8. BehindOf(q) = o
  BY <1>1, <1>6, <1>7
<1>9. Preceding(s, o) \ {q} = Preceding(s, q)
  <2>1. \A p \in InstructionsOf(s) : p \in Nat
    BY <1>1 DEF InstructionsOf
  <2>2. \A p \in InstructionsOf(s) : p < o /\ p # q <=> p < q
    <3> TAKE p \in InstructionsOf(s)
    <3>1. p < o => p <= q
      BY <1>4 DEF P, Preceding
    <3> QED
      BY <1>1, <1>5, <2>1, <3>1
  <2> QED
    BY <2>2 DEF Preceding
<1> QED
  BY <1>2, <1>5, <1>8, <1>9 DEF P, q

\* What an execution that enters block s with a stack has done in front of o.
BeforeIn(s, entry, o) == RunOver(instructions, entry, Preceding(s, o))

InputsIn(s, entry, o) == Inputs(instructions[o].op, BeforeIn(s, entry, o).stack, 0)

PutOutIn(s, entry, o) ==
    Outputs(instructions[o].op, o, instructions[o].data, InputsIn(s, entry, o))

WayOf(s, entry) ==
    [own |-> InstructionsOf(s), put |-> [v \in InstructionsOf(s) |-> PutOutIn(s, entry, v)[1]],
     entry |-> entry, jumped |-> instructions[s].op = JUMPDEST]

LEMMA BeforeIs ==
    ASSUME Static, NEW s \in DOMAIN blocks, NEW entry, IsSequence(entry), NEW o
    PROVE  /\ RunType(BeforeIn(s, entry, o))
           /\ Preceding(s, o) = {} => BeforeIn(s, entry, o) = Started(entry)
           /\ Preceding(s, o) # {} =>
                 BeforeIn(s, entry, o)
                     = IterateOver(instructions,
                                   RunOver(instructions, entry,
                                           Preceding(s, o) \ {Max(Preceding(s, o))}),
                                   Max(Preceding(s, o)))
<1>1. PICK P : P = Preceding(s, o)
  OBVIOUS
<1>2. offset \in Nat /\ P \in SUBSET (0 .. (offset - 1))
  BY <1>1 DEF Static, Filing, Position, Preceding, InstructionsOf
<1>3. RunType(RunOver(instructions, entry, P))
  BY <1>2, RunHasType
<1>4. RunOver(instructions, entry, P) =
          IF P = {} THEN Started(entry)
          ELSE IterateOver(instructions, RunOver(instructions, entry, P \ {Max(P)}), Max(P))
  BY <1>2, RunStep
<1> QED
  BY <1>1, <1>3, <1>4 DEF BeforeIn

LEMMA StartedAt ==
    ASSUME Static, NEW s \in DOMAIN blocks, NEW entry, IsSequence(entry)
    PROVE  BeforeIn(s, entry, s).stack = entry
<1>1. s \in Nat /\ \A p \in InstructionsOf(s) : p \in Nat /\ s <= p
  BY DEF InstructionsOf, Static, Filing, Position, InRow
<1>2. Preceding(s, s) = {}
  BY <1>1 DEF Preceding
<1>3. BeforeIn(s, entry, s) = Started(entry)
  BY <1>2, BeforeIs
<1> QED
  BY <1>3 DEF Started

LEMMA TracksInstruction ==
    ASSUME NEW ins, NEW q, NEW run, RunType(run),
           NEW next, next = IterateOver(ins, run, q), next.cause = "none",
           NEW inst, inst = ins[q], inst.op # JUMPDEST,
           NEW t, NEW way, Tracks(t, run.stack, way),
           inst.inputs = Inputs(inst.op, t.stack, t.args),
           NEW inputs, inputs = Inputs(inst.op, run.stack, 0),
           PutsOut(way, q, Outputs(inst.op, q, inst.data, inputs))
    PROVE  Tracks(Carried(inst, q, t), next.stack, way)
<1>1. /\ Missing(inst.op, run.stack) <= 0
      /\ next.stack = Pushed(Rest(inst.op, run.stack), Outputs(inst.op, q, inst.data, inputs))
  BY IterateIs
<1>2. PICK found : found = inst.inputs
  OBVIOUS
<1>3. \A i \in 1 .. Args(inst.op) : Meets(found[i], inputs[i], way)
  BY <1>2, InputsMeet
<1>4. PICK said, outputs : /\ said = Outputs(inst.op, q, inst.data, found)
                           /\ outputs = Outputs(inst.op, q, inst.data, inputs)
  OBVIOUS
<1>5. IsSequence(run.stack) /\ IsSequence(t.stack)
  BY DEF RunType, Tracks
<1>6. IsSequence(inputs) /\ Len(inputs) = Args(inst.op)
  BY <1>5, InputsAre
<1>7. IsSequence(found) /\ Len(found) = Args(inst.op)
  BY <1>2, <1>5, InputsAre
<1>8. Listed(found, Args(inst.op)) /\ Listed(inputs, Args(inst.op))
  BY <1>2 DEF Listed, Inputs
<1>9. PutsOut(way, q, outputs)
  BY <1>4
<1>10. /\ IsSequence(said) /\ IsSequence(outputs) /\ Len(said) = Len(outputs)
       /\ AllMeet(said, outputs, way)
  <2>1. PICK op, data : op = inst.op /\ data = inst.data
    OBVIOUS
  <2>2. said = Outputs(op, q, data, found) /\ outputs = Outputs(op, q, data, inputs)
    BY <1>4, <2>1
  <2>3. /\ IsSequence(found) /\ Len(found) = Args(op) /\ Listed(found, Args(op))
        /\ IsSequence(inputs) /\ Len(inputs) = Args(op) /\ Listed(inputs, Args(op))
        /\ AllMeet(found, inputs, way)
    BY <1>3, <1>6, <1>7, <1>8, <2>1 DEF AllMeet
  <2> QED
    BY <1>9, <2>2, <2>3, OutputsMeet
<1>11. PICK carried : carried = Carried(inst, q, t)
  OBVIOUS
<1>12. /\ carried.stack = Pushed(Rest(inst.op, t.stack), said)
       /\ carried.args = t.args + Missing(inst.op, t.stack)
  BY <1>2, <1>4, <1>11 DEF Carried
<1>13. next.stack = Pushed(Rest(inst.op, run.stack), outputs)
  BY <1>1, <1>4
<1>14. Tracks(carried, next.stack, way)
  BY <1>1, <1>10, <1>12, <1>13, TracksOn
<1> QED
  BY <1>11, <1>14

\* Where the block can be entered as the symbolic stack says, an execution finds what it
\* says in front of every instruction but a JUMPDEST, and at the end.
Followed(T, s, entry) == instructions[s].op # JUMPDEST => Agrees(T[s].stack, entry)

TracksAt(T, s, entry, o) ==
    BeforeIn(s, entry, o).cause = "none" /\ (o = s => instructions[s].op # JUMPDEST) =>
        Tracks(T[o], BeforeIn(s, entry, o).stack, WayOf(s, entry))

LEMMA TracksNext ==
    ASSUME Static, NEW T, Traced(T), NEW s \in DOMAIN blocks, NEW entry, IsSequence(entry),
           NEW o \in Positions, NEW q \in InstructionsOf(s), BehindOf(q) = o,
           Preceding(s, o) # {}, Max(Preceding(s, o)) = q,
           Preceding(s, o) \ {q} = Preceding(s, q),
           TracksAt(T, s, entry, q)
    PROVE  TracksAt(T, s, entry, o)
<1> SUFFICES ASSUME BeforeIn(s, entry, o).cause = "none"
             PROVE  Tracks(T[o], BeforeIn(s, entry, o).stack, WayOf(s, entry))
  BY DEF TracksAt
<1>1. PICK before, run, way, inst :
          /\ before = BeforeIn(s, entry, q) /\ run = BeforeIn(s, entry, o)
          /\ way = WayOf(s, entry) /\ inst = instructions[q]
  OBVIOUS
<1>2. RunType(before) /\ run = IterateOver(instructions, before, q) /\ run.cause = "none"
  BY <1>1, BeforeIs DEF BeforeIn
<1>3. before.cause = "none"
  BY <1>1, <1>2, IterateIs
<1>4. /\ inst.inputs = Inputs(inst.op, T[q].stack, T[q].args)
      /\ T[o] = Carried(inst, q, T[q])
  BY <1>1 DEF Traced, InstructionsOf
<1>5. way.entry = entry /\ PutsOut(way, q, PutOutIn(s, entry, q))
  BY <1>1 DEF WayOf, PutsOut
<1>6. CASE inst.op = JUMPDEST
  <2>1. q = s
    BY <1>1, <1>6 DEF Static, BlocksInCode, Filing, Position, InRow, InstructionsOf
  <2>2. before.stack = entry
    BY <1>1, <2>1, StartedAt
  <2>3. T[o] = [stack |-> <<>>, args |-> 0]
    BY <1>4, <1>6 DEF Carried
  <2>4. run.stack = Pushed(Rest(JUMPDEST, entry), Outputs(JUMPDEST, q, inst.data,
                                                          Inputs(JUMPDEST, entry, 0)))
    BY <1>1, <1>2, <1>6, <2>2, IterateIs
  <2> QED
    BY <1>1, <1>5, <2>3, <2>4, TracksFromJump
<1>7. CASE inst.op # JUMPDEST
  <2>1. Tracks(T[q], before.stack, way)
    BY <1>1, <1>3, <1>7 DEF TracksAt
  <2>2. PutsOut(way, q, Outputs(inst.op, q, inst.data, Inputs(inst.op, before.stack, 0)))
    BY <1>1, <1>5 DEF PutOutIn, InputsIn
  <2>3. Tracks(Carried(inst, q, T[q]), run.stack, way)
    BY <1>1, <1>2, <1>4, <1>7, <2>1, <2>2, TracksInstruction
  <2> QED
    BY <1>1, <1>4, <2>3
<1> QED
  BY <1>6, <1>7

LEMMA BlockTracks ==
    ASSUME Static, NEW T, Traced(T), NEW s \in DOMAIN blocks, NEW entry, IsSequence(entry),
           Followed(T, s, entry),
           NEW o \in Positions, s <= o, o <= blocks[s].end
    PROVE  TracksAt(T, s, entry, o)
<1> DEFINE bad == {p \in Positions : s <= p /\ p <= blocks[s].end /\ ~TracksAt(T, s, entry, p)}
<1>1. \A p \in Positions : p \in Nat
  BY DEF Static, Filing, Position, Positions
<1>2. ASSUME bad # {} PROVE FALSE
  <2>1. bad \in SUBSET Nat
    BY <1>1
  <2> HIDE DEF bad
  <2>2. PICK b \in bad : \A p \in bad : b <= p
    BY <1>2, <2>1, Smallest
  <2>3. /\ b \in Positions /\ b \in Nat /\ s <= b /\ b <= blocks[s].end
        /\ ~TracksAt(T, s, entry, b)
    BY <1>1, <2>2 DEF bad
  <2>4. s \in Nat /\ s \in DOMAIN instructions
    BY DEF Static, Filing, InRow, BlocksInCode
  <2>5. CASE b = s
    <3>1. SymbolicStack(T[s].stack, Earlier(s)) /\ T[s].args \in Nat
      BY <2>4 DEF Traced, Positions
    <3>2. BeforeIn(s, entry, s).stack = entry
      BY StartedAt
    <3>3. ASSUME instructions[s].op # JUMPDEST
          PROVE  Tracks(T[s], entry, WayOf(s, entry))
      <4>1. PICK way : way = WayOf(s, entry)
        OBVIOUS
      <4>2. way.entry = entry /\ ~way.jumped /\ way.own = InstructionsOf(s)
        BY <3>3, <4>1 DEF WayOf
      <4>3. \A v \in Earlier(s) : v \notin way.own
        BY <1>1, <2>4, <4>2 DEF Earlier, InstructionsOf, Positions
      <4>4. Agrees(T[s].stack, entry)
        BY <3>3 DEF Followed
      <4> QED
        BY <3>1, <4>1, <4>2, <4>3, <4>4, TracksFromEntry
    <3> QED
      BY <2>3, <2>5, <3>2, <3>3 DEF TracksAt
  <2>6. CASE b # s
    <3>1. s < b
      BY <2>3, <2>4, <2>6
    <3>2. PICK q \in InstructionsOf(s) :
              /\ q < b /\ BehindOf(q) = b
              /\ Preceding(s, b) # {} /\ Max(Preceding(s, b)) = q
              /\ Preceding(s, b) \ {q} = Preceding(s, q)
      BY <2>3, <3>1, PrecedingIs
    <3>3. q \in Positions /\ s <= q /\ q <= blocks[s].end /\ q \in Nat
      BY <1>1, <2>3, <3>2 DEF InstructionsOf, Positions, Static, Filing, InRow
    <3>4. TracksAt(T, s, entry, q)
      BY <2>2, <2>3, <3>2, <3>3 DEF bad
    <3> QED
      BY <2>3, <3>2, <3>4, TracksNext
  <2> QED
    BY <2>5, <2>6
<1> QED
  BY <1>2

-----------------------------------------------------------------------------
(***************************************************************************)
(* Every execution enters a block as the symbolic stack says               *)
(***************************************************************************)

Entered(T, queue) ==
    \A i \in 1 .. Len(queue) : Followed(T, queue[i].block, queue[i].stack)

FollowedTrace == \E T : Traced(T) /\ Entered(T, states)

\* At the end of a block the whole of it has been run.
LEMMA RunIsBefore ==
    ASSUME NEW s, NEW entry
    PROVE  BeforeIn(s, entry, blocks[s].end) = RunOver(instructions, entry, InstructionsOf(s))
<1>1. Preceding(s, blocks[s].end) = InstructionsOf(s)
  BY DEF Preceding, InstructionsOf
<1> QED
  BY <1>1 DEF BeforeIn

LEMMA ExitIsFollowed ==
    ASSUME Static, NEW T, Traced(T), NEW s \in DOMAIN blocks, NEW entry, IsSequence(entry),
           Followed(T, s, entry),
           NEW run, run = RunOver(instructions, entry, InstructionsOf(s)), run.cause = "none",
           NEW n \in Range(run.exits), Accepted(s, n)
    PROVE  Followed(T, n, run.stack)
<1> SUFFICES ASSUME instructions[n].op # JUMPDEST
             PROVE  Agrees(T[n].stack, run.stack)
  BY DEF Followed
<1>1. n = blocks[s].end
  BY DEF Accepted, IsValidJumpDest
<1>2. PICK o : o \in InstructionsOf(s)
  <2> DEFINE o == LastOf(s)
             before == RunOver(instructions, entry, InstructionsOf(s) \ {o})
             inputs == Inputs(instructions[o].op, before.stack, 0)
  <2>1. InstructionsOf(s) # {}
    BY LastRuns
  <2> QED
    BY <2>1
<1>3. n \in Positions /\ s <= n
  BY <1>1 DEF Static, BlocksInCode, Filing, InRow
<1>4. n # s
  BY <1>1, <1>2 DEF InstructionsOf, Static, Filing, Position, InRow
<1>5. TracksAt(T, s, entry, n)
  BY <1>1, <1>3, BlockTracks DEF Static, Filing, InRow
<1>6. Tracks(T[n], run.stack, WayOf(s, entry))
  BY <1>1, <1>4, <1>5, RunIsBefore DEF TracksAt
<1> QED
  BY <1>6 DEF Tracks, Agrees, Meets

LEMMA InitFollowed == Init => FollowedTrace
<1> SUFFICES ASSUME Init
             PROVE  FollowedTrace
  OBVIOUS
<1>1. PICK T : Traced(T)
  BY InitTraced
<1>2. states = <<>>
  BY DEF Init
<1>3. Entered(T, states)
  BY <1>2 DEF Entered
<1> QED
  BY <1>1, <1>3 DEF FollowedTrace

LEMMA SolvesFollowed ==
    ASSUME Static, Queue, NEW T, Traced(T), Entered(T, states),
           NEW s, NEW entry, NEW run, Solves(s, entry, run)
    PROVE  /\ s \in DOMAIN blocks /\ IsSequence(entry) /\ Followed(T, s, entry)
           /\ run = RunOver(instructions, entry, InstructionsOf(s)) /\ run.cause = "none"
           /\ \A n \in Range(Taken(s, run)) : n \in Range(run.exits) /\ Accepted(s, n)
<1>1. /\ s \in DOMAIN blocks /\ IsSequence(entry)
      /\ run = RunOver(instructions, entry, InstructionsOf(s)) /\ run.cause = "none"
      /\ \A n \in Range(Taken(s, run)) : n \in Range(run.exits) /\ Accepted(s, n)
  BY HeadRuns DEF Solves
<1>2. 1 \in 1 .. Len(states) /\ Head(states) = states[1]
  <2>1. PICK S : states \in Seq(S)
    BY DEF Queue, Waiting, IsSequence
  <2>2. states # <<>>
    BY DEF Solves
  <2> QED
    BY <2>1, <2>2
<1>3. Followed(T, s, entry)
  BY <1>2 DEF Entered, Solves
<1> QED
  BY <1>1, <1>3

LEMMA NextFollowed == Sound /\ FollowedTrace /\ [Next]_vars => FollowedTrace'
<1> SUFFICES ASSUME Sound, FollowedTrace, [Next]_vars
             PROVE  FollowedTrace'
  OBVIOUS
<1>1. Static /\ Passes /\ Queue /\ HasTrace
  BY DEF Sound, Passes
<1>2. CASE phase = "filling"
  <2>1. states = <<>>
    BY <1>1, <1>2 DEF Passes
  <2>2. states' = states
    BY <1>1, <1>2, QueueSteps DEF Solves, Enters
  <2>3. PICK T : Traced(T)'
    BY <1>1, NextTraced DEF HasTrace
  <2>4. Entered(T, states)'
    BY <2>1, <2>2 DEF Entered
  <2> QED
    BY <2>3, <2>4 DEF FollowedTrace
<1>3. CASE phase # "filling"
  <2>1. EndsStay
    BY <1>1, <1>3, LaterStays
  <2>2. PICK T : Traced(T) /\ Entered(T, states)
    BY DEF FollowedTrace
  <2>3. Traced(T)'
    BY <2>1, <2>2, TracedStays DEF EndsStay
  <2>4. \A b, e : Followed(T, b, e) => Followed(T, b, e)'
    BY <2>1 DEF EndsStay, Followed
  <2>5. CASE UNCHANGED states
    BY <2>2, <2>3, <2>4, <2>5 DEF FollowedTrace, Entered
  <2>6. CASE Enters
    <3>1. PICK first : first = [gas |-> GasLimit, block |-> 0, stack |-> <<>>]
      OBVIOUS
    <3>2. states' = <<first>> /\ first.block = 0 /\ first.stack = <<>>
      BY <2>6, <3>1 DEF Enters
    <3>3. \A i \in 1 .. Len(states') : states'[i] = first
      BY <3>2
    <3>4. T[0].stack = <<>>
      BY <2>2 DEF Traced
    <3>5. Followed(T, 0, <<>>)'
      BY <3>4 DEF Followed, Agrees
    <3> QED
      BY <2>3, <3>2, <3>3, <3>5 DEF FollowedTrace, Entered
  <2>7. ASSUME NEW s, NEW entry, NEW run, Solves(s, entry, run)
        PROVE  FollowedTrace'
    <3>1. \A n \in Range(Taken(s, run)) : Followed(T, n, run.stack)
      BY <1>1, <2>2, <2>7, SolvesFollowed, ExitIsFollowed
    <3>2. Adds(states', states, Taken(s, run), run.stack)
      BY <2>7 DEF Solves
    <3>3. \A i \in 1 .. Len(states') : Followed(T, states'[i].block, states'[i].stack)
      BY <2>2, <3>1, <3>2 DEF Adds, Entered
    <3> QED
      BY <2>3, <2>4, <3>3 DEF FollowedTrace, Entered
  <2> QED
    BY <1>1, <2>5, <2>6, <2>7, QueueSteps
<1> QED
  BY <1>2, <1>3

\* What an execution finds as the inputs of an instruction of its block.
LEMMA StaticInputsOf ==
    ASSUME Static, NEW T, Traced(T), NEW s \in DOMAIN blocks, NEW entry, IsSequence(entry),
           Followed(T, s, entry),
           NEW o \in InstructionsOf(s), BeforeIn(s, entry, o).cause = "none",
           NEW i \in 1 .. Args(instructions[o].op)
    PROVE  Meets(instructions[o].inputs[i], InputsIn(s, entry, o)[i], WayOf(s, entry))
<1>1. o \in DOMAIN instructions /\ o \in Positions /\ s <= o /\ o <= blocks[s].end
  BY DEF InstructionsOf, Positions, Static, Filing, Position, InRow
<1>2. instructions[o].op # JUMPDEST
  BY DEF Args, JUMPDEST, IsDup, IsSwap, DUP1, SWAP1
<1>3. TracksAt(T, s, entry, o)
  BY <1>1, BlockTracks
<1>4. PICK t, D, way, op, found, inputs :
          /\ t = T[o] /\ D = BeforeIn(s, entry, o).stack /\ way = WayOf(s, entry)
          /\ op = instructions[o].op /\ found = instructions[o].inputs
          /\ inputs = InputsIn(s, entry, o)
  OBVIOUS
<1>5. Tracks(t, D, way)
  BY <1>2, <1>3, <1>4 DEF TracksAt
<1>6. found = Inputs(op, t.stack, t.args) /\ inputs = Inputs(op, D, 0)
  BY <1>1, <1>4 DEF Traced, InputsIn
<1>7. i \in 1 .. Args(op)
  BY <1>4
<1>8. Meets(found[i], inputs[i], way)
  BY <1>5, <1>6, <1>7, InputsMeet
<1> QED
  BY <1>4, <1>8

\* For every code, what the report prints as an instruction's inputs is what every
\* execution finds there.
THEOREM StaticInputsAreMet == Spec => []StaticInputsHold
<1>1. ASSUME Sound, FollowedTrace PROVE StaticInputsHold
  <2> DEFINE first == Head(states)
             Before(o) == RunFrom(first.stack, {p \in InstructionsOf(first.block) : p < o})
             Entering(o) == Inputs(instructions[o].op, Before(o).stack, 0)
             PutOut(o) == Outputs(instructions[o].op, o, instructions[o].data, Entering(o))
  <2> SUFFICES ASSUME phase = "solving", states # <<>>,
                      NEW o \in InstructionsOf(first.block), Before(o).cause = "none",
                      NEW i \in 1 .. Len(Entering(o)),
                      NEW said, said = instructions[o].inputs[i]
               PROVE  /\ IsConstant(said) => Entering(o)[i] = said
                      /\ said.kind = "result" /\ said.value \in InstructionsOf(first.block) =>
                            Entering(o)[i] = PutOut(said.value)[1]
                      /\ said.kind = "argument" /\ instructions[first.block].op = JUMPDEST
                            /\ said.value < Len(first.stack) =>
                            Entering(o)[i] = first.stack[Len(first.stack) - said.value]
    BY Zenon DEF StaticInputsHold
  <2>1. PICK s, entry : s = first.block /\ entry = first.stack
    OBVIOUS
  <2>2. \A p : Before(p) = BeforeIn(s, entry, p)
    BY <2>1, RunIsOver, Zenon DEF BeforeIn, Preceding
  <2> HIDE DEF Before
  <2>3. \A p : Entering(p) = InputsIn(s, entry, p)
    BY <2>2, Zenon DEF InputsIn
  <2> HIDE DEF Entering
  <2>4. \A p : PutOut(p) = PutOutIn(s, entry, p)
    BY <2>3, Zenon DEF PutOutIn
  <2>5. Static /\ Queue
    BY <1>1 DEF Sound, Passes
  <2>6. PICK T : Traced(T) /\ Entered(T, states)
    BY <1>1 DEF FollowedTrace
  <2>7. s \in DOMAIN blocks /\ IsSequence(entry) /\ Followed(T, s, entry)
    <3>1. s \in DOMAIN blocks /\ IsSequence(entry)
      BY <2>1, <2>5, HeadRuns
    <3>2. 1 \in 1 .. Len(states) /\ first = states[1]
      <4>1. PICK S : states \in Seq(S)
        BY <2>5 DEF Queue, Waiting, IsSequence
      <4> QED
        BY <4>1
    <3> QED
      BY <2>1, <2>6, <3>1, <3>2 DEF Entered
  <2> HIDE DEF first, PutOut
  <2>8. Len(Entering(o)) = Args(instructions[o].op)
    <3>1. IsSequence(BeforeIn(s, entry, o).stack)
      BY <2>5, <2>7, BeforeIs DEF RunType
    <3> QED
      BY <2>3, <3>1, InputsAre DEF InputsIn
  <2>9. Meets(said, InputsIn(s, entry, o)[i], WayOf(s, entry))
    BY <2>1, <2>2, <2>5, <2>6, <2>7, <2>8, StaticInputsOf
  <2> QED
    BY <2>1, <2>3, <2>4, <2>9 DEF Meets, WayOf
<1> QED
  BY <1>1, InitFollowed, NextFollowed, InitSound, NextSound, PTL DEF Spec

-----------------------------------------------------------------------------
(***************************************************************************)
(* Edges and moves                                                         *)
(***************************************************************************)

\* A set of one element at most, as a list.
LEMMA ListsAll ==
    ASSUME NEW S, \A x, y \in S : x = y,
           NEW list, list = SetToSeq(S)
    PROVE  IsSequence(list) /\ \A x \in S : x \in Range(list)
<1>1. CASE S = {}
  <2>1. Cardinality(S) = 0
    BY <1>1, FS_EmptySet
  <2>2. PICK f : f = [i \in 1 .. 0 |-> i]
    OBVIOUS
  <2>3. f \in [1 .. Cardinality(S) -> S] /\ IsInjective(f)
    BY <1>1, <2>1, <2>2 DEF IsInjective
  <2>4. list \in [1 .. Cardinality(S) -> S]
    BY <2>3 DEF SetToSeq
  <2>5. list = [i \in 1 .. 0 |-> list[i]]
    BY <2>1, <2>4
  <2>6. IsSequence(list)
    BY <2>5, IsSequenceOf
  <2> QED
    BY <1>1, <2>6
<1>2. ASSUME NEW x, S = {x}
      PROVE  IsSequence(list) /\ x \in Range(list)
  <2>1. Cardinality(S) = 1
    BY <1>2, FS_Singleton
  <2>2. PICK f : f = [i \in 1 .. 1 |-> x]
    OBVIOUS
  <2>3. f \in [1 .. Cardinality(S) -> S] /\ IsInjective(f)
    <3>1. DOMAIN f = {1}
      BY <2>2
    <3> QED
      BY <1>2, <2>1, <2>2, <3>1 DEF IsInjective
  <2>4. list \in [1 .. Cardinality(S) -> S]
    BY <2>3 DEF SetToSeq
  <2>5. list = [i \in 1 .. 1 |-> list[i]] /\ DOMAIN list = 1 .. 1 /\ list[1] = x
    BY <1>2, <2>1, <2>4
  <2>6. IsSequence(list)
    BY <2>5, IsSequenceOf
  <2>7. x \in Range(list)
    BY <2>5 DEF Range
  <2> QED
    BY <2>6, <2>7
<1> QED
  BY <1>1, <1>2

LEMMA JoinedIs ==
    ASSUME NEW a, IsSequence(a), NEW b, IsSequence(b), NEW c, c = a \o b
    PROVE  /\ IsSequence(c)
           /\ \A x : x \in Range(a) \/ x \in Range(b) => x \in Range(c)
<1>1. PICK S, T : a \in Seq(S) /\ b \in Seq(T)
  BY DEF IsSequence
<1>2. a \in Seq(S \cup T) /\ b \in Seq(S \cup T)
  BY <1>1
<1>3. /\ c \in Seq(S \cup T) /\ Len(c) = Len(a) + Len(b)
      /\ \A i \in 1 .. Len(a) + Len(b) : c[i] = IF i <= Len(a) THEN a[i] ELSE b[i - Len(a)]
  BY <1>2, ConcatProperties
<1>4. /\ Len(a) \in Nat /\ Len(b) \in Nat
      /\ DOMAIN a = 1 .. Len(a) /\ DOMAIN b = 1 .. Len(b) /\ DOMAIN c = 1 .. Len(c)
  BY <1>2, <1>3, LenProperties
<1>5. ASSUME NEW i \in 1 .. Len(a)
      PROVE  a[i] \in Range(c)
  <2>1. i \in DOMAIN c /\ c[i] = a[i]
    BY <1>3, <1>4
  <2> QED
    BY <2>1 DEF Range
<1>6. ASSUME NEW i \in 1 .. Len(b)
      PROVE  b[i] \in Range(c)
  <2>1. Len(a) + i \in DOMAIN c /\ c[Len(a) + i] = b[i]
    BY <1>3, <1>4
  <2> QED
    BY <2>1 DEF Range
<1>7. IsSequence(c)
  BY <1>3 DEF IsSequence
<1> QED
  BY <1>4, <1>5, <1>6, <1>7 DEF Range

Shaped(b) == "exits" \in DOMAIN b /\ "dynamic_jump" \in DOMAIN b /\ IsSequence(b.exits)

\* fill_block_references has been through block s.
EdgesDrawn(s) ==
    /\ \A n : n \in JumpEdges(s) \/ n \in FallEdges(s) => n \in Range(blocks[s].exits)
    /\ IsJump(instructions[LastOf(s)].op) /\ ~IsConstant(instructions[LastOf(s)].inputs[1]) =>
          blocks[s].dynamic_jump

Drawn ==
    /\ \A s \in DOMAIN blocks : Shaped(blocks[s])
    /\ phase = "linking" => \A s \in DOMAIN blocks \ to_visit : EdgesDrawn(s)
    /\ phase = "solving" => \A s \in DOMAIN blocks : EdgesDrawn(s)

\* Blocks only gain edges.
Gains(old, new) ==
    /\ Shaped(new)
    /\ \A x : x \in Range(old.exits) => x \in Range(new.exits)
    /\ old.dynamic_jump => new.dynamic_jump

EdgesStay == \A b \in DOMAIN blocks : Gains(blocks[b], blocks'[b])

\* The block linked has its edges, and the others keep theirs.
LEMMA LinkedIs ==
    ASSUME \A b \in DOMAIN blocks : Shaped(blocks[b]), NEW s, blocks' = Linked(s),
           NEW jumps, jumps = SetToSeq(JumpEdges(s)), IsSequence(jumps),
           NEW falls, falls = SetToSeq(FallEdges(s)), IsSequence(falls)
    PROVE  /\ EdgesStay
           /\ s \in DOMAIN blocks =>
                 /\ \A x : x \in Range(jumps) \/ x \in Range(falls) => x \in Range(blocks'[s].exits)
                 /\ IsJump(instructions[LastOf(s)].op)
                       /\ ~IsConstant(instructions[LastOf(s)].inputs[1]) =>
                       blocks'[s].dynamic_jump
<1>1. PICK added : added = jumps \o falls
  OBVIOUS
<1>2. /\ IsSequence(added)
      /\ \A x : x \in Range(jumps) \/ x \in Range(falls) => x \in Range(added)
  BY <1>1, JoinedIs
<1>3. PICK dynamic \in BOOLEAN :
          dynamic <=> IsJump(instructions[LastOf(s)].op)
                         /\ ~IsConstant(instructions[LastOf(s)].inputs[1])
  OBVIOUS
<1>4. ASSUME NEW b \in DOMAIN blocks
      PROVE  /\ "exits" \in DOMAIN blocks'[b] /\ "dynamic_jump" \in DOMAIN blocks'[b]
             /\ blocks'[b].exits = IF b = s THEN blocks[b].exits \o added ELSE blocks[b].exits
             /\ blocks'[b].dynamic_jump <=> blocks[b].dynamic_jump \/ (b = s /\ dynamic)
  BY <1>1, <1>3, <1>4 DEF Linked, Shaped
<1>5. ASSUME NEW b \in DOMAIN blocks
      PROVE  Gains(blocks[b], blocks'[b])
  <2>1. PICK old, new : old = blocks[b].exits /\ new = blocks'[b].exits
    OBVIOUS
  <2>2. IsSequence(old)
    BY <2>1 DEF Shaped
  <2>3. IsSequence(new) /\ \A x : x \in Range(old) => x \in Range(new)
    <3>1. new = old \/ new = old \o added
      BY <1>4, <2>1
    <3>2. CASE new = old \o added
      BY <1>2, <2>2, <3>2, JoinedIs
    <3> QED
      BY <2>2, <3>1, <3>2
  <2> QED
    BY <1>4, <2>1, <2>3 DEF Gains, Shaped
<1>6. ASSUME s \in DOMAIN blocks, NEW x, x \in Range(added)
      PROVE  x \in Range(blocks'[s].exits)
  <2>1. PICK old, new : old = blocks[s].exits /\ new = blocks'[s].exits
    OBVIOUS
  <2>2. IsSequence(old) /\ new = old \o added
    BY <1>4, <1>6, <2>1 DEF Shaped
  <2>3. x \in Range(new)
    BY <1>2, <1>6, <2>2, JoinedIs
  <2> QED
    BY <2>1, <2>3
<1> QED
  BY <1>2, <1>3, <1>4, <1>5, <1>6 DEF EdgesStay

LEMMA AtMostOneEdge ==
    ASSUME NEW s
    PROVE  /\ \A x, y \in JumpEdges(s) : x = y
           /\ \A x, y \in FallEdges(s) : x = y
<1>1. \A x, y : Constant(x) = Constant(y) => x = y
  BY DEF Constant
<1> QED
  BY <1>1 DEF JumpEdges, FallEdges

LEMMA SameEdges ==
    ASSUME EndsStay, NEW s \in DOMAIN blocks
    PROVE  JumpEdges(s)' = JumpEdges(s) /\ FallEdges(s)' = FallEdges(s)
<1>1. /\ instructions' = instructions /\ DOMAIN blocks' = DOMAIN blocks
      /\ LastOf(s)' = LastOf(s) /\ blocks'[s].end = blocks[s].end
  BY LastStays DEF EndsStay
<1>2. \A t : IsValidJumpDest(t)' <=> IsValidJumpDest(t)
  BY <1>1 DEF IsValidJumpDest
<1>3. JumpEdges(s)' = JumpEdges(s)
  BY <1>1, <1>2 DEF JumpEdges
<1>4. FallEdges(s)' = FallEdges(s)
  BY <1>1 DEF FallEdges
<1> QED
  BY <1>3, <1>4

LEMMA DrawnStays ==
    ASSUME EndsStay, EdgesStay, NEW s \in DOMAIN blocks, EdgesDrawn(s)
    PROVE  EdgesDrawn(s)'
<1>1. JumpEdges(s)' = JumpEdges(s) /\ FallEdges(s)' = FallEdges(s)
  BY SameEdges
<1>2. LastOf(s)' = LastOf(s) /\ instructions' = instructions
  BY LastStays DEF EndsStay
<1>3. Gains(blocks[s], blocks'[s])
  BY DEF EdgesStay
<1> QED
  BY <1>1, <1>2, <1>3 DEF EdgesDrawn, Gains

LEMMA LinkedDrawn ==
    ASSUME EndsStay, \A b \in DOMAIN blocks : Shaped(blocks[b]), NEW s, blocks' = Linked(s)
    PROVE  EdgesStay /\ (s \in DOMAIN blocks => EdgesDrawn(s)')
<1>1. PICK jumps, falls : jumps = SetToSeq(JumpEdges(s)) /\ falls = SetToSeq(FallEdges(s))
  OBVIOUS
<1>2. IsSequence(jumps) /\ \A x \in JumpEdges(s) : x \in Range(jumps)
  BY <1>1, AtMostOneEdge, ListsAll
<1>3. IsSequence(falls) /\ \A x \in FallEdges(s) : x \in Range(falls)
  BY <1>1, AtMostOneEdge, ListsAll
<1>4. /\ EdgesStay
      /\ s \in DOMAIN blocks =>
            /\ \A x : x \in Range(jumps) \/ x \in Range(falls) => x \in Range(blocks'[s].exits)
            /\ IsJump(instructions[LastOf(s)].op)
                  /\ ~IsConstant(instructions[LastOf(s)].inputs[1]) =>
                  blocks'[s].dynamic_jump
  BY <1>1, <1>2, <1>3, LinkedIs
<1>5. ASSUME s \in DOMAIN blocks
      PROVE  EdgesDrawn(s)'
  <2>1. JumpEdges(s)' = JumpEdges(s) /\ FallEdges(s)' = FallEdges(s)
    BY <1>5, SameEdges
  <2>2. LastOf(s)' = LastOf(s) /\ instructions' = instructions
    BY <1>5, LastStays DEF EndsStay
  <2> QED
    BY <1>2, <1>3, <1>4, <1>5, <2>1, <2>2 DEF EdgesDrawn
<1> QED
  BY <1>4, <1>5

LEMMA EdgesAreKept ==
    ASSUME Static, \A b \in DOMAIN blocks : Shaped(blocks[b]), phase # "filling", [Next]_vars
    PROVE  EdgesStay /\ EndsStay
<1>1. EndsStay
  BY LaterStays
<1>2. ASSUME UNCHANGED blocks
      PROVE  EdgesStay
  BY <1>2 DEF EdgesStay, Gains
<1>3. ASSUME NEW s, blocks' = Linked(s)
      PROVE  EdgesStay
  BY <1>1, <1>3, LinkedDrawn
<1>4. ASSUME NEW s, blocks' = [blocks EXCEPT ![s].reachable = TRUE]
      PROVE  EdgesStay
  <2>1. ASSUME NEW b \in DOMAIN blocks
        PROVE  Gains(blocks[b], blocks'[b])
    <3>1. Shaped(blocks[b])
      OBVIOUS
    <3>2. /\ DOMAIN blocks'[b] = DOMAIN blocks[b]
          /\ blocks'[b].exits = blocks[b].exits
          /\ blocks'[b].dynamic_jump = blocks[b].dynamic_jump
      BY <1>4, <3>1 DEF Shaped
    <3> QED
      BY <3>1, <3>2 DEF Gains, Shaped
  <2> QED
    BY <2>1 DEF EdgesStay
<1>5. UNCHANGED blocks \/ (\E s : blocks' = Linked(s))
         \/ \E s : blocks' = [blocks EXCEPT ![s].reachable = TRUE]
  BY DEF Next, Fill, Link, LinkBlock, LinkReturns, Solve_dynamics, SolveReturns, SolveState,
         Panic, vars
<1> QED
  BY <1>1, <1>2, <1>3, <1>4, <1>5

LEMMA FillShapes ==
    ASSUME \A b \in DOMAIN blocks : Shaped(blocks[b]), FillInstruction
    PROVE  \A b \in DOMAIN blocks' : Shaped(blocks'[b])
<1>1. \A end : Shaped(NewBlock(start, end))
  <2>1. IsSequence(<<>>)
    BY NoneWaiting DEF Waiting
  <2> QED
    BY <2>1 DEF NewBlock, Shaped
<1>2. PICK filed : filed = Filed
  OBVIOUS
<1>3. blocks' = [s \in DOMAIN blocks \cup {start : end \in filed} |->
                    IF s = start /\ filed # {}
                    THEN NewBlock(start, CHOOSE end \in filed : TRUE)
                    ELSE blocks[s]]
  BY <1>2 DEF FillInstruction
<1>4. ASSUME NEW b \in DOMAIN blocks'
      PROVE  Shaped(blocks'[b])
  <2>1. CASE b = start /\ filed # {}
    BY <1>1, <1>3, <2>1
  <2>2. CASE ~(b = start /\ filed # {})
    BY <1>3, <2>2
  <2> QED
    BY <2>1, <2>2
<1> QED
  BY <1>4

LEMMA NextDrawn == Static /\ Passes /\ Drawn /\ [Next]_vars => Drawn'
<1> SUFFICES ASSUME Static, Passes, Drawn, [Next]_vars
             PROVE  Drawn'
  OBVIOUS
<1>1. \A b \in DOMAIN blocks : Shaped(blocks[b])
  BY DEF Drawn
<1>2. CASE phase = "filling"
  <2>1. CASE FillInstruction
    <3>1. phase' = phase
      BY <2>1 DEF FillInstruction
    <3> QED
      BY <1>1, <1>2, <2>1, <3>1, FillShapes DEF Drawn
  <2>2. CASE FillReturns
    <3>1. phase' = "linking" /\ blocks' = blocks /\ to_visit' = DOMAIN blocks
      BY <2>2 DEF FillReturns
    <3> QED
      BY <1>1, <3>1 DEF Drawn
  <2>3. CASE FillPanics
    <3>1. phase' = "panicked" /\ blocks' = blocks
      BY <2>3 DEF FillPanics, Panic
    <3> QED
      BY <1>1, <3>1 DEF Drawn
  <2>4. CASE UNCHANGED vars
    BY <1>1, <1>2, <2>4 DEF Drawn, vars
  <2> QED
    BY <1>2, <2>1, <2>2, <2>3, <2>4 DEF Next, Fill, Link, Solve_dynamics
<1>3. CASE phase # "filling"
  <2>1. EdgesStay /\ EndsStay
    BY <1>1, <1>3, EdgesAreKept
  <2>2. DOMAIN blocks' = DOMAIN blocks /\ \A b \in DOMAIN blocks' : Shaped(blocks'[b])
    BY <2>1 DEF EdgesStay, EndsStay, Gains
  <2>3. \A s \in DOMAIN blocks : EdgesDrawn(s) => EdgesDrawn(s)'
    BY <2>1, DrawnStays
  <2>4. ASSUME phase' = "solving"
        PROVE  \A s \in DOMAIN blocks : EdgesDrawn(s)
    <3>1. phase = "solving" \/ (phase = "linking" /\ to_visit = {})
      BY <2>4, <1>3 DEF Next, Fill, Link, LinkBlock, LinkReturns, Solve_dynamics, SolveReturns,
                        SolveState, Panic, vars
    <3> QED
      BY <3>1 DEF Drawn
  <2>5. ASSUME phase' = "linking", NEW s \in DOMAIN blocks, s \notin to_visit'
        PROVE  EdgesDrawn(s)'
    <3>1. phase = "linking" /\ (UNCHANGED to_visit \/ \E b : LinkBlock(b) /\ b \in to_visit
                                   /\ blocks' = Linked(b) /\ to_visit' = to_visit \ {b})
      BY <2>5, <1>3 DEF Next, Fill, Link, LinkBlock, LinkReturns, Solve_dynamics, SolveReturns,
                        SolveState, Panic, vars
    <3>2. CASE s \notin to_visit
      BY <2>3, <2>5, <3>1, <3>2 DEF Drawn
    <3>3. CASE s \in to_visit
      <4>1. blocks' = Linked(s)
        BY <2>5, <3>1, <3>3
      <4> QED
        BY <1>1, <2>1, <2>5, <4>1, LinkedDrawn
    <3> QED
      BY <3>2, <3>3
  <2> QED
    BY <2>2, <2>3, <2>4, <2>5 DEF Drawn
<1> QED
  BY <1>2, <1>3

Justified(s, n) ==
    \/ n \in Range(blocks[s].exits)
    \/ blocks[s].dynamic_jump
    \/ /\ n = blocks[s].end
       /\ ~IsValidJumpDest(n)
       /\ LastOf(s) \in InstructionsOf(s) /\ IsJump(instructions[LastOf(s)].op)
       /\ instructions[LastOf(s)].inputs[1] = Constant(n)

Moves == \A m \in moves : m[1] \in DOMAIN blocks /\ Justified(m[1], m[2])

LEMMA JustifiedStays ==
    ASSUME EndsStay, EdgesStay, NEW s \in DOMAIN blocks, NEW n, Justified(s, n)
    PROVE  s \in DOMAIN blocks' /\ Justified(s, n)'
<1>1. /\ instructions' = instructions /\ s \in DOMAIN blocks'
      /\ LastOf(s)' = LastOf(s) /\ blocks'[s].end = blocks[s].end
      /\ InstructionsOf(s)' = InstructionsOf(s)
  BY LastStays DEF EndsStay
<1>2. Gains(blocks[s], blocks'[s])
  BY DEF EdgesStay
<1> QED
  BY <1>1, <1>2 DEF Justified, Gains, IsValidJumpDest

\* Where the last instruction jumps to is what the symbolic stack says, if that says it.
LEMMA JumpsWhereSaid ==
    ASSUME Static, NEW T, Traced(T), NEW s \in DOMAIN blocks, NEW entry, IsSequence(entry),
           Followed(T, s, entry), InstructionsOf(s) # {},
           NEW o, o = LastOf(s), IsJump(instructions[o].op),
           NEW before, before = RunOver(instructions, entry, InstructionsOf(s) \ {o}),
           before.cause = "none",
           NEW inputs, inputs = Inputs(instructions[o].op, before.stack, 0),
           NEW said, said = instructions[o].inputs[1], IsConstant(said)
    PROVE  inputs[1] = said /\ said = Constant(said.value)
<1>1. /\ o \in InstructionsOf(s) /\ o \in DOMAIN instructions
      /\ \A p \in InstructionsOf(s) : p <= o
  BY LastIs
<1>2. Preceding(s, o) = InstructionsOf(s) \ {o}
  <2>1. \A p \in InstructionsOf(s) : p \in Nat
    BY DEF InstructionsOf, Static, Filing, Position
  <2>2. \A p \in InstructionsOf(s) : p < o <=> p # o
    BY <1>1, <2>1
  <2> QED
    BY <2>2 DEF Preceding
<1>3. BeforeIn(s, entry, o) = before
  BY <1>2, Zenon DEF BeforeIn
<1>4. InputsIn(s, entry, o) = inputs
  BY <1>3, Zenon DEF InputsIn
<1>5. 1 \in 1 .. Args(instructions[o].op)
  BY DEF IsJump, Args, IsDup, IsSwap, JUMP, JUMPI, DUP1, SWAP1
<1>6. Meets(said, inputs[1], WayOf(s, entry))
  BY <1>1, <1>3, <1>4, <1>5, StaticInputsOf
<1>7. said = Constant(said.value)
  <2>1. PICK found, t : found = instructions[o].inputs /\ t = T[o]
    OBVIOUS
  <2>2. found = Inputs(instructions[o].op, t.stack, t.args) /\ SymbolicStack(t.stack, Earlier(o))
    BY <1>1, <2>1 DEF Traced, Positions
  <2>3. SymbolicStack(found, Earlier(o))
    BY <2>2, SymbolicInputs
  <2>4. IsSequence(t.stack)
    BY <2>2 DEF SymbolicStack
  <2>5. Len(found) = Args(instructions[o].op)
    BY <2>2, <2>4, InputsAre
  <2>6. Symbolic(said, Earlier(o))
    BY <1>5, <2>1, <2>3, <2>5 DEF SymbolicStack
  <2> QED
    BY <2>6 DEF Symbolic
<1> QED
  BY <1>6, <1>7 DEF Meets

LEMMA MoveIsJustified ==
    ASSUME Static, NEW T, Traced(T), NEW s \in DOMAIN blocks, NEW entry, IsSequence(entry),
           Followed(T, s, entry), EdgesDrawn(s),
           NEW run, run = RunOver(instructions, entry, InstructionsOf(s)), run.cause = "none",
           NEW n \in Range(run.exits), Accepted(s, n), n \in DOMAIN blocks
    PROVE  Justified(s, n)
<1>1. PICK o, before, inputs, op :
          /\ o = LastOf(s) /\ before = RunOver(instructions, entry, InstructionsOf(s) \ {o})
          /\ inputs = Inputs(instructions[o].op, before.stack, 0) /\ op = instructions[o].op
  OBVIOUS
<1>2. /\ InstructionsOf(s) # {} /\ before.cause = "none" /\ ~ExitsPanic(op, inputs)
      /\ n \in Range(Exits(op, o, inputs))
  BY <1>1, LastRuns
<1>3. (n = o + 1 /\ ~IsStop(op) /\ op # JUMP) \/ (IsJump(op) /\ n = inputs[1].value)
  BY <1>2, ExitsAre
<1>4. /\ o \in DOMAIN instructions /\ o \in Nat /\ BehindOf(o) = blocks[s].end
      /\ o \in InstructionsOf(s)
  BY <1>1, <1>2, LastIs DEF Static, Filing, Position
<1>5. n \in DOMAIN instructions /\ n \in Nat
  BY DEF Static, BlocksInCode, Filing, InRow
<1>6. CASE n = o + 1 /\ ~IsStop(op) /\ op # JUMP
  <2>1. PushBytes(op) \in Nat
    BY DEF PushBytes, IsPush, PUSH1
  <2>2. blocks[s].end = o + 1 + PushBytes(op)
    BY <1>1, <1>4 DEF BehindOf
  <2>3. ASSUME IsValidJumpDest(n)
        PROVE  blocks[s].end = n
    <3>1. BehindOf(o) <= n
      <4>1. n \in Positions /\ o < n
        BY <1>4, <1>5, <1>6 DEF Positions
      <4> QED
        BY <1>4, <4>1 DEF Static, Contiguous
    <3> QED
      BY <1>4, <1>5, <1>6, <2>1, <2>2, <3>1
  <2>4. blocks[s].end = n
    BY <2>3 DEF Accepted
  <2>5. n \in FallEdges(s)
    BY <1>1, <1>5, <1>6, <2>4 DEF FallEdges
  <2> QED
    BY <2>5 DEF EdgesDrawn, Justified
<1>7. CASE IsJump(op) /\ n = inputs[1].value
  <2>1. PICK said : said = instructions[o].inputs[1]
    OBVIOUS
  <2>2. CASE ~IsConstant(said)
    BY <1>1, <1>7, <2>1, <2>2 DEF EdgesDrawn, Justified
  <2>3. CASE IsConstant(said)
    <3>1. inputs[1] = said /\ said = Constant(said.value)
      BY <1>1, <1>2, <1>7, <2>1, <2>3, JumpsWhereSaid
    <3>2. said = Constant(n)
      BY <1>7, <3>1
    <3>3. CASE IsValidJumpDest(n)
      <4>1. n \in JumpEdges(s)
        BY <1>1, <1>7, <2>1, <3>2, <3>3 DEF JumpEdges
      <4> QED
        BY <4>1 DEF EdgesDrawn, Justified
    <3>4. CASE ~IsValidJumpDest(n)
      BY <1>1, <1>4, <1>7, <2>1, <3>2, <3>4 DEF Accepted, Justified
    <3> QED
      BY <3>3, <3>4
  <2> QED
    BY <2>2, <2>3
<1> QED
  BY <1>3, <1>6, <1>7

LEMMA NextMoves == Sound /\ FollowedTrace /\ Drawn /\ Moves /\ [Next]_vars => Moves'
<1> SUFFICES ASSUME Sound, FollowedTrace, Drawn, Moves, [Next]_vars
             PROVE  Moves'
  OBVIOUS
<1>1. Static /\ Passes /\ Queue
  BY DEF Sound, Passes
<1>2. CASE phase = "filling"
  <2>1. moves = {}
    BY <1>1, <1>2 DEF Passes
  <2>2. UNCHANGED moves
    BY <1>1, <1>2, QueueSteps DEF Solves, Enters
  <2> QED
    BY <2>1, <2>2 DEF Moves
<1>3. CASE phase # "filling"
  <2>1. EndsStay /\ EdgesStay
    BY <1>1, <1>3, EdgesAreKept DEF Drawn
  <2>2. \A m \in moves : m[1] \in DOMAIN blocks' /\ Justified(m[1], m[2])'
    BY <2>1, JustifiedStays DEF Moves
  <2>3. CASE UNCHANGED moves
    BY <2>2, <2>3 DEF Moves
  <2>4. ASSUME NEW s, NEW entry, NEW run, Solves(s, entry, run)
        PROVE  Moves'
    <3>1. PICK T : Traced(T) /\ Entered(T, states)
      BY DEF FollowedTrace
    <3>2. /\ s \in DOMAIN blocks /\ IsSequence(entry) /\ Followed(T, s, entry)
          /\ run = RunOver(instructions, entry, InstructionsOf(s)) /\ run.cause = "none"
          /\ \A n \in Range(Taken(s, run)) : n \in Range(run.exits) /\ Accepted(s, n)
      BY <1>1, <2>4, <3>1, SolvesFollowed
    <3>3. EdgesDrawn(s)
      BY <2>4, <3>2 DEF Solves, Drawn
    <3>4. ASSUME NEW n \in Range(Taken(s, run))
          PROVE  s \in DOMAIN blocks' /\ Justified(s, n)'
      <4>1. n \in DOMAIN blocks
        BY <2>4, <3>4 DEF Solves
      <4>2. Justified(s, n)
        BY <1>1, <3>1, <3>2, <3>3, <3>4, <4>1, MoveIsJustified
      <4> QED
        BY <2>1, <3>2, <4>2, JustifiedStays
    <3>5. moves' = moves \cup {<<s, n>> : n \in Range(Taken(s, run))}
      BY <2>4 DEF Solves
    <3> QED
      BY <2>2, <3>4, <3>5 DEF Moves
  <2> QED
    BY <1>1, <2>3, <2>4, QueueSteps DEF Enters
<1> QED
  BY <1>2, <1>3

\* For every code, each exit solve_dynamics takes is one fill_block_references drew an
\* edge for, or belongs to a block marked as having a dynamic jump, or is a jump with a
\* constant target to the end of its own block where no JUMPDEST stands.
THEOREM MovesFollowEdges == Spec => []MovesAreEdges
<1>1. Init => Drawn /\ Moves
  BY DEF Init, Drawn, Moves
<1>2. Sound /\ Drawn /\ [Next]_vars => Drawn'
  BY NextDrawn DEF Sound
<1>3. Moves => MovesAreEdges
  BY DEF Moves, Justified, MovesAreEdges
<1> QED
  BY <1>1, <1>2, <1>3, NextMoves, InitFollowed, NextFollowed, InitSound, NextSound,
     PTL DEF Spec

-----------------------------------------------------------------------------
(***************************************************************************)
(* Entries and exits                                                       *)
(***************************************************************************)

\* Where x stands in a list.
Places(x, list) == {i \in DOMAIN list : list[i] = x}

LEMMA PlacesAreFinite ==
    ASSUME NEW x, NEW list, IsSequence(list)
    PROVE  /\ IsFiniteSet(Places(x, list)) /\ Times(x, list) = Cardinality(Places(x, list))
           /\ Times(x, list) \in Nat
<1>1. DOMAIN list = 1 .. Len(list) /\ Len(list) \in Nat
  BY LenProperties DEF IsSequence
<1>2. IsFiniteSet(1 .. Len(list))
  BY <1>1, FS_Interval
<1>3. IsFiniteSet(Places(x, list))
  BY <1>1, <1>2, FS_Subset DEF Places
<1> QED
  BY <1>3, FS_CardinalityType DEF Times, Places

\* What stands in a list of which two others are the halves.
LEMMA TimesJoined ==
    ASSUME NEW x, NEW a, IsSequence(a), NEW b, IsSequence(b), NEW c, c = a \o b
    PROVE  Times(x, c) = Times(x, a) + Times(x, b)
<1>1. PICK S, T : a \in Seq(S) /\ b \in Seq(T)
  BY DEF IsSequence
<1>2. a \in Seq(S \cup T) /\ b \in Seq(S \cup T)
  BY <1>1
<1>3. /\ c \in Seq(S \cup T) /\ Len(c) = Len(a) + Len(b)
      /\ \A i \in 1 .. Len(a) + Len(b) : c[i] = IF i <= Len(a) THEN a[i] ELSE b[i - Len(a)]
  BY <1>2, ConcatProperties
<1>4. PICK m \in Nat, n \in Nat : m = Len(a) /\ n = Len(b)
  BY <1>2
<1>5. DOMAIN a = 1 .. m /\ DOMAIN b = 1 .. n /\ DOMAIN c = 1 .. (m + n)
  BY <1>2, <1>3, <1>4, LenProperties
<1> DEFINE moved == {i \in (m + 1) .. (m + n) : b[i - m] = x}
           shift == [i \in Places(x, b) |-> m + i]
<1>6. Places(x, c) = Places(x, a) \cup moved
  <2>1. \A i \in 1 .. (m + n) :
           c[i] = x <=> (i \in 1 .. m /\ a[i] = x) \/ (i \in (m + 1) .. (m + n) /\ b[i - m] = x)
    BY <1>3, <1>4
  <2>2. \A i : i \in 1 .. m \/ i \in (m + 1) .. (m + n) => i \in 1 .. (m + n)
    OBVIOUS
  <2> QED
    BY <1>5, <2>1, <2>2 DEF Places
<1>7. Places(x, a) \cap moved = {}
  BY <1>5 DEF Places
<1>8. ExistsBijection(Places(x, b), moved)
  <2>1. \A i \in Places(x, b) : i \in 1 .. n /\ b[i] = x
    BY <1>5 DEF Places
  <2>2. shift \in [Places(x, b) -> moved]
    <3>1. ASSUME NEW i \in Places(x, b)
          PROVE  m + i \in moved
      <4>1. m + i \in (m + 1) .. (m + n) /\ m + i - m = i
        BY <2>1, <3>1
      <4> QED
        BY <2>1, <4>1
    <3> QED
      BY <3>1
  <2>3. \A i, j \in Places(x, b) : shift[i] = shift[j] => i = j
    BY <2>1
  <2>4. ASSUME NEW k \in moved
        PROVE  \E i \in Places(x, b) : shift[i] = k
    <3>1. k - m \in 1 .. n /\ m + (k - m) = k /\ b[k - m] = x
      OBVIOUS
    <3>2. k - m \in Places(x, b)
      BY <1>5, <3>1 DEF Places
    <3> QED
      BY <3>1, <3>2
  <2> HIDE DEF shift, moved
  <2>5. shift \in Bijection(Places(x, b), moved)
    BY <2>2, <2>3, <2>4, Fun_IsBij
  <2> QED
    BY <2>5, Fun_ExistsBij
<1>9. IsFiniteSet(moved) /\ Cardinality(moved) = Times(x, b)
  BY <1>8, PlacesAreFinite, FS_Bijection
<1>10. Cardinality(Places(x, a) \cap moved) = 0
  BY <1>7, FS_EmptySet
<1> HIDE DEF moved
<1>11. /\ IsFiniteSet(Places(x, a)) /\ Cardinality(Places(x, a)) = Times(x, a)
       /\ Times(x, a) \in Nat /\ Times(x, b) \in Nat
  BY PlacesAreFinite
<1>12. Cardinality(Places(x, a) \cup moved)
           = Cardinality(Places(x, a)) + Cardinality(moved) - Cardinality(Places(x, a) \cap moved)
  BY <1>9, <1>11, FS_Union
<1>13. IsSequence(c)
  BY <1>3 DEF IsSequence
<1>14. Times(x, c) = Cardinality(Places(x, c))
  BY <1>13, PlacesAreFinite
<1> QED
  BY <1>6, <1>9, <1>10, <1>11, <1>12, <1>14

LEMMA TimesRepeated ==
    ASSUME NEW n \in Nat, NEW s, NEW list, list = [i \in 1 .. n |-> s]
    PROVE  /\ IsSequence(list) /\ Times(s, list) = n
           /\ \A x : x # s => Times(x, list) = 0
<1>1. IsSequence(list)
  BY IsSequenceOf
<1>2. DOMAIN list = 1 .. n
  OBVIOUS
<1>3. Places(s, list) = 1 .. n
  BY <1>2 DEF Places
<1>4. Times(s, list) = n
  BY <1>1, <1>3, PlacesAreFinite, FS_Interval
<1>5. ASSUME NEW x, x # s
      PROVE  Times(x, list) = 0
  <2>1. Places(x, list) = {}
    BY <1>2, <1>5 DEF Places
  <2> QED
    BY <1>1, <2>1, PlacesAreFinite, FS_EmptySet
<1> QED
  BY <1>1, <1>4, <1>5

Bordered(b) ==
    /\ {"exits", "entries", "reachable"} \subseteq DOMAIN b
    /\ IsSequence(b.exits) /\ IsSequence(b.entries)

\* A block that lists another one as an exit is listed by that one as an entry, as often.
Balanced ==
    /\ \A b \in DOMAIN blocks : Bordered(blocks[b])
    /\ phase = "filling" =>
          \A b \in DOMAIN blocks :
              blocks[b].exits = <<>> /\ blocks[b].entries = <<>> /\ ~blocks[b].reachable
    /\ \A a, b \in DOMAIN blocks : Times(b, blocks[a].exits) = Times(a, blocks[b].entries)

LEMMA InitBalanced == Init => Balanced
  BY DEF Init, Balanced

LEMMA FillBalanced ==
    ASSUME Balanced, phase = "filling", FillInstruction
    PROVE  Balanced'
<1>1. \A end : LET new == NewBlock(start, end)
               IN  Bordered(new) /\ new.exits = <<>> /\ new.entries = <<>> /\ ~new.reachable
  <2>1. IsSequence(<<>>)
    BY NoneWaiting DEF Waiting
  <2> QED
    BY <2>1 DEF NewBlock, Bordered
<1>2. PICK filed : filed = Filed
  OBVIOUS
<1>3. blocks' = [s \in DOMAIN blocks \cup {start : end \in filed} |->
                    IF s = start /\ filed # {}
                    THEN NewBlock(start, CHOOSE end \in filed : TRUE)
                    ELSE blocks[s]]
  BY <1>2 DEF FillInstruction
<1>4. ASSUME NEW b \in DOMAIN blocks'
      PROVE  /\ Bordered(blocks'[b])
             /\ blocks'[b].exits = <<>> /\ blocks'[b].entries = <<>> /\ ~blocks'[b].reachable
  <2>1. CASE b = start /\ filed # {}
    BY <1>1, <1>3, <2>1
  <2>2. CASE ~(b = start /\ filed # {})
    <3>1. b \in DOMAIN blocks /\ blocks'[b] = blocks[b]
      BY <1>3, <2>2
    <3> QED
      BY <3>1 DEF Balanced
  <2> QED
    BY <2>1, <2>2
<1>5. \A x : Times(x, <<>>) = 0
  <2>1. PICK none : none = <<>>
    OBVIOUS
  <2>2. IsSequence(none) /\ DOMAIN none = {}
    BY <2>1, NoneWaiting DEF Waiting
  <2>3. \A x : Places(x, none) = {}
    BY <2>2 DEF Places
  <2> QED
    BY <2>1, <2>2, <2>3, PlacesAreFinite, FS_EmptySet
<1> QED
  BY <1>4, <1>5 DEF Balanced

LEMMA LinkBalanced ==
    ASSUME Balanced, phase' # "filling", NEW s, blocks' = Linked(s)
    PROVE  /\ Balanced'
           /\ DOMAIN blocks' = DOMAIN blocks
           /\ \A b \in DOMAIN blocks : blocks'[b].reachable = blocks[b].reachable
<1>1. PICK jumps, falls : jumps = SetToSeq(JumpEdges(s)) /\ falls = SetToSeq(FallEdges(s))
  OBVIOUS
<1>2. IsSequence(jumps) /\ IsSequence(falls)
  BY <1>1, AtMostOneEdge, ListsAll
<1>3. PICK added : added = jumps \o falls
  OBVIOUS
<1>4. IsSequence(added)
  BY <1>2, <1>3, JoinedIs
<1>5. DOMAIN blocks' = DOMAIN blocks
  BY DEF Linked
<1>6. ASSUME NEW b \in DOMAIN blocks
      PROVE  /\ DOMAIN blocks'[b] = DOMAIN blocks[b]
             /\ blocks'[b].reachable = blocks[b].reachable
             /\ blocks'[b].exits = IF b = s THEN blocks[b].exits \o added ELSE blocks[b].exits
             /\ blocks'[b].entries = blocks[b].entries \o [i \in 1 .. Times(b, added) |-> s]
  BY <1>1, <1>3, <1>6 DEF Linked, Balanced, Bordered
<1>7. ASSUME NEW a, NEW b \in DOMAIN blocks
      PROVE  /\ IsSequence(blocks'[b].entries)
             /\ Times(a, blocks'[b].entries)
                   = Times(a, blocks[b].entries) + IF a = s THEN Times(b, added) ELSE 0
  <2>1. PICK old, new, more : /\ old = blocks[b].entries /\ new = blocks'[b].entries
                              /\ more = [i \in 1 .. Times(b, added) |-> s]
    OBVIOUS
  <2>2. IsSequence(old) /\ new = old \o more
    BY <1>6, <2>1 DEF Balanced, Bordered
  <2>3. Times(b, added) \in Nat
    BY <1>4, PlacesAreFinite
  <2>4. PICK n \in Nat : n = Times(b, added) /\ more = [i \in 1 .. n |-> s]
    BY <2>1, <2>3
  <2>5. IsSequence(more) /\ Times(s, more) = n /\ \A x : x # s => Times(x, more) = 0
    BY <2>4, TimesRepeated
  <2>6. IsSequence(new) /\ Times(a, new) = Times(a, old) + Times(a, more)
    BY <2>2, <2>5, JoinedIs, TimesJoined
  <2> QED
    BY <2>1, <2>4, <2>5, <2>6
<1>8. ASSUME NEW a \in DOMAIN blocks, NEW b
      PROVE  /\ IsSequence(blocks'[a].exits)
             /\ Times(b, blocks'[a].exits)
                   = Times(b, blocks[a].exits) + IF a = s THEN Times(b, added) ELSE 0
  <2>1. PICK old, new : old = blocks[a].exits /\ new = blocks'[a].exits
    OBVIOUS
  <2>2. IsSequence(old) /\ new = IF a = s THEN old \o added ELSE old
    BY <1>6, <2>1 DEF Balanced, Bordered
  <2>3. Times(b, old) \in Nat
    BY <2>2, PlacesAreFinite
  <2>4. CASE a = s
    <3>1. IsSequence(new) /\ Times(b, new) = Times(b, old) + Times(b, added)
      BY <1>4, <2>2, <2>4, JoinedIs, TimesJoined
    <3> QED
      BY <2>1, <2>4, <3>1
  <2>5. CASE a # s
    BY <2>1, <2>2, <2>3, <2>5
  <2> QED
    BY <2>4, <2>5
<1>9. \A b \in DOMAIN blocks : Bordered(blocks'[b])
  BY <1>6, <1>7, <1>8 DEF Balanced, Bordered
<1>10. ASSUME NEW a \in DOMAIN blocks, NEW b \in DOMAIN blocks
       PROVE  Times(b, blocks'[a].exits) = Times(a, blocks'[b].entries)
  <2>1. Times(b, blocks[a].exits) = Times(a, blocks[b].entries)
    BY DEF Balanced
  <2>2. Times(a, blocks'[b].entries)
            = Times(a, blocks[b].entries) + IF a = s THEN Times(b, added) ELSE 0
    BY <1>7
  <2>3. Times(b, blocks'[a].exits)
            = Times(b, blocks[a].exits) + IF a = s THEN Times(b, added) ELSE 0
    BY <1>8
  <2> QED
    BY <2>1, <2>2, <2>3
<1> QED
  BY <1>5, <1>6, <1>9, <1>10 DEF Balanced

LEMMA ReachedBalanced ==
    ASSUME Balanced, phase' # "filling", NEW s, blocks' = [blocks EXCEPT ![s].reachable = TRUE]
    PROVE  /\ Balanced'
           /\ DOMAIN blocks' = DOMAIN blocks
           /\ \A b \in DOMAIN blocks :
                 blocks'[b].reachable = IF b = s THEN TRUE ELSE blocks[b].reachable
<1>1. ASSUME NEW b \in DOMAIN blocks
      PROVE  /\ DOMAIN blocks'[b] = DOMAIN blocks[b]
             /\ blocks'[b].exits = blocks[b].exits /\ blocks'[b].entries = blocks[b].entries
             /\ blocks'[b].reachable = IF b = s THEN TRUE ELSE blocks[b].reachable
  BY <1>1 DEF Balanced, Bordered
<1> QED
  BY <1>1 DEF Balanced, Bordered

LEMMA NextBalanced == Balanced /\ [Next]_vars => Balanced'
<1> SUFFICES ASSUME Balanced, [Next]_vars
             PROVE  Balanced'
  OBVIOUS
<1>1. ASSUME UNCHANGED blocks, phase' # "filling" \/ phase' = phase
      PROVE  Balanced'
  BY <1>1 DEF Balanced
<1>2. CASE Fill
  <2>1. CASE FillInstruction
    BY <1>2, <2>1, FillBalanced DEF Fill
  <2> QED
    BY <1>1, <1>2, <2>1 DEF Fill, FillPanics, FillReturns, Panic
<1>3. CASE Link
  <2>1. ASSUME NEW s, blocks' = Linked(s), phase' = phase
        PROVE  Balanced'
    BY <1>3, <2>1, LinkBalanced DEF Link
  <2> QED
    BY <1>1, <1>3, <2>1 DEF Link, LinkBlock, LinkReturns, Panic
<1>4. CASE Solve_dynamics
  <2>1. ASSUME NEW s, blocks' = [blocks EXCEPT ![s].reachable = TRUE], phase' = phase
        PROVE  Balanced'
    BY <1>4, <2>1, ReachedBalanced DEF Solve_dynamics
  <2> QED
    BY <1>1, <1>4, <2>1 DEF Solve_dynamics, SolveReturns, SolveState, Panic
<1>5. CASE UNCHANGED vars
  BY <1>1, <1>5 DEF vars
<1> QED
  BY <1>2, <1>3, <1>4, <1>5 DEF Next

-----------------------------------------------------------------------------
(***************************************************************************)
(* The report                                                              *)
(***************************************************************************)

IsEntered(b) == b = 0 \/ \E m \in moves : m[2] = b

\* Execution comes to a block by a move from one that it has reached.
Reaches ==
    /\ \A m \in moves : m[1] \in DOMAIN blocks /\ blocks[m[1]].reachable
    /\ \A b \in DOMAIN blocks : blocks[b].reachable => IsEntered(b)
    /\ phase = "solving" => \A i \in 1 .. Len(states) : IsEntered(states[i].block)

LEMMA InitReaches == Init => Reaches
  BY DEF Init, Reaches

LEMMA SolvesReaches ==
    ASSUME Static, Passes, Balanced, Reaches, phase' # "filling",
           NEW s, NEW entry, NEW run, Solves(s, entry, run)
    PROVE  Reaches'
<1>1. PICK taken, stk : taken = Taken(s, run) /\ stk = run.stack
  OBVIOUS
<1>2. /\ moves' = moves \cup {<<s, n>> : n \in Range(taken)}
      /\ Adds(states', states, taken, stk)
  BY <1>1 DEF Solves
<1>3. /\ DOMAIN blocks' = DOMAIN blocks
      /\ \A b \in DOMAIN blocks :
            blocks'[b].reachable = IF b = s THEN TRUE ELSE blocks[b].reachable
  BY ReachedBalanced DEF Solves
<1>4. s \in DOMAIN blocks /\ IsEntered(s)
  <2>1. 1 \in 1 .. Len(states) /\ s = states[1].block
    <3>1. PICK S : states \in Seq(S)
      BY DEF Passes, Queue, Waiting, IsSequence
    <3> QED
      BY <3>1 DEF Solves
  <2> QED
    BY <2>1 DEF Reaches, Solves, Passes, Queue, Waiting
<1>5. \A b : IsEntered(b) => IsEntered(b)'
  BY <1>2 DEF IsEntered
<1>6. \A n \in Range(taken) : IsEntered(n)'
  <2>1. ASSUME NEW n \in Range(taken)
        PROVE  IsEntered(n)'
    <3>1. <<s, n>> \in moves' /\ <<s, n>>[2] = n
      BY <1>2
    <3> QED
      BY <3>1 DEF IsEntered
  <2> QED
    BY <2>1
<1>7. ASSUME NEW m \in moves'
      PROVE  m[1] \in DOMAIN blocks' /\ blocks'[m[1]].reachable
  <2>1. m \in moves \/ m[1] = s
    BY <1>2
  <2> QED
    BY <1>3, <1>4, <2>1 DEF Reaches
<1>8. \A b \in DOMAIN blocks' : blocks'[b].reachable => IsEntered(b)'
  BY <1>3, <1>4, <1>5 DEF Reaches
<1>9. PICK queue : queue = states'
  OBVIOUS
<1>10. \A i \in 1 .. Len(states) : IsEntered(states[i].block)
  BY DEF Reaches, Solves
<1>11. ASSUME NEW i \in 1 .. Len(queue)
       PROVE  IsEntered(queue[i].block)'
  <2>1. CASE \E j \in 1 .. Len(states) : queue[i] = states[j]
    <3>1. IsEntered(queue[i].block)
      BY <1>10, <2>1
    <3> QED
      BY <1>5, <3>1
  <2>2. CASE queue[i].block \in Range(taken)
    BY <1>6, <2>2
  <2> QED
    BY <1>2, <1>9, <2>1, <2>2 DEF Adds
<1>12. \A i \in 1 .. Len(states') :
           states'[i].block = 0 \/ \E m \in moves' : m[2] = states'[i].block
  BY <1>9, <1>11 DEF IsEntered
<1>13. \A b \in DOMAIN blocks' : blocks'[b].reachable => b = 0 \/ \E m \in moves' : m[2] = b
  BY <1>8 DEF IsEntered
<1> QED
  BY <1>7, <1>12, <1>13 DEF Reaches, IsEntered

LEMMA NextReaches == Static /\ Passes /\ Balanced /\ Reaches /\ [Next]_vars => Reaches'
<1> SUFFICES ASSUME Static, Passes, Balanced, Reaches, [Next]_vars
             PROVE  Reaches'
  OBVIOUS
<1>1. Balanced'
  BY NextBalanced
<1>2. ASSUME UNCHANGED <<blocks, moves>>, phase' # "solving" \/ UNCHANGED <<phase, states>>
      PROVE  Reaches'
  BY <1>2 DEF Reaches, IsEntered
<1>3. CASE Fill
  <2>1. CASE FillInstruction
    <3>1. moves' = {} /\ phase' = "filling"
      BY <1>3, <2>1 DEF Fill, FillInstruction, Passes
    <3> QED
      BY <1>1, <3>1 DEF Balanced, Reaches
  <2> QED
    BY <1>2, <1>3, <2>1 DEF Fill, FillPanics, FillReturns, Panic
<1>4. CASE Link
  <2>1. phase = "linking" /\ moves = {}
    BY <1>4 DEF Link, Passes
  <2>2. ASSUME NEW s, LinkBlock(s), blocks' = Linked(s), UNCHANGED <<phase, moves>>
        PROVE  Reaches'
    <3>1. /\ DOMAIN blocks' = DOMAIN blocks
          /\ \A b \in DOMAIN blocks : blocks'[b].reachable = blocks[b].reachable
      BY <2>1, <2>2, LinkBalanced
    <3> QED
      BY <2>1, <2>2, <3>1 DEF Reaches, IsEntered
  <2>3. ASSUME states' = << [gas |-> GasLimit, block |-> 0, stack |-> <<>>] >>,
               UNCHANGED <<blocks, moves>>
        PROVE  Reaches'
    <3>1. \A i \in 1 .. Len(states') : states'[i].block = 0
      BY <2>3
    <3> QED
      BY <2>3, <3>1 DEF Reaches, IsEntered
  <2> QED
    BY <1>2, <1>4, <2>2, <2>3 DEF Link, LinkBlock, LinkReturns, Panic
<1>5. CASE Solve_dynamics
  <2>1. CASE states # <<>> /\ SolveState
    <3>1. phase = "solving" /\ phase' \in {"solving", "panicked"}
      BY <1>5, <2>1 DEF Solve_dynamics, SolveState, Panic
    <3>2. CASE UNCHANGED <<blocks, states, moves>>
      BY <1>2, <3>1, <3>2
    <3> QED
      BY <2>1, <3>1, <3>2, SolveSteps, SolvesReaches
  <2> QED
    BY <1>2, <1>5, <2>1 DEF Solve_dynamics, SolveReturns
<1>6. CASE UNCHANGED vars
  BY <1>2, <1>6 DEF vars
<1> QED
  BY <1>3, <1>4, <1>5, <1>6 DEF Next

Finished == phase \in {"done", "printed"}

\* The blocks reached that have been visited are what has been printed.
Reported ==
    /\ ~Finished => report = <<>>
    /\ IsSequence(report)
    /\ Finished =>
          /\ to_visit \subseteq DOMAIN blocks
          /\ \A r : r \in Range(report) <=>
                \E s \in DOMAIN blocks \ to_visit : blocks[s].reachable /\ r = Printed(s)
    /\ phase = "printed" => to_visit = {}

Explored == Moves /\ Balanced /\ Reaches

MainInv == Explored /\ Reported /\ (~Finished => Sound /\ FollowedTrace /\ Drawn)

LEMMA PrintedStays ==
    ASSUME UNCHANGED <<filling, instructions, blocks>>, NEW s
    PROVE  Printed(s)' = Printed(s)
<1>1. InstructionsOf(s)' = InstructionsOf(s)
  BY DEF InstructionsOf
<1> QED
  BY <1>1 DEF Printed

LEMMA AppendedIs ==
    ASSUME NEW list, IsSequence(list), NEW x
    PROVE  IsSequence(Append(list, x)) /\ Range(Append(list, x)) = Range(list) \cup {x}
<1>1. PICK S : list \in Seq(S)
  BY DEF IsSequence
<1>2. list \in Seq(S \cup {x})
  BY <1>1
<1>3. PICK longer : longer = Append(list, x)
  OBVIOUS
<1>4. /\ longer \in Seq(S \cup {x}) /\ Len(longer) = Len(list) + 1 /\ longer[Len(list) + 1] = x
      /\ \A i \in 1 .. Len(list) : longer[i] = list[i]
  BY <1>2, <1>3, AppendProperties
<1>5. /\ Len(list) \in Nat /\ DOMAIN list = 1 .. Len(list)
      /\ DOMAIN longer = 1 .. (Len(list) + 1)
  BY <1>2, <1>4, LenProperties
<1>6. \A i \in 1 .. (Len(list) + 1) : i \in 1 .. Len(list) \/ i = Len(list) + 1
  BY <1>5
<1>7. \A i \in 1 .. Len(list) : i \in 1 .. (Len(list) + 1)
  BY <1>5
<1>8. Len(list) + 1 \in 1 .. (Len(list) + 1)
  BY <1>5
<1>9. Range(longer) = Range(list) \cup {x}
  BY <1>4, <1>5, <1>6, <1>7, <1>8 DEF Range
<1> QED
  BY <1>3, <1>4, <1>9 DEF IsSequence

LEMMA PrintKeepsReport ==
    ASSUME Reported, phase = "done", NEW b \in to_visit, PrintBlock(b)
    PROVE  Reported'
<1>1. /\ UNCHANGED <<filling, instructions, blocks, phase>> /\ to_visit' = to_visit \ {b}
      /\ report' = IF blocks[b].reachable THEN Append(report, Printed(b)) ELSE report
  BY DEF PrintBlock, Skips
<1>2. b \in DOMAIN blocks /\ to_visit \subseteq DOMAIN blocks /\ IsSequence(report)
  BY DEF Reported, Finished
<1>3. \A s : Printed(s)' = Printed(s)
  BY <1>1, PrintedStays
<1>4. IsSequence(report')
  BY <1>1, <1>2, AppendedIs
<1>5. \A r : r \in Range(report') <=>
                r \in Range(report) \/ (blocks[b].reachable /\ r = Printed(b))
  BY <1>1, <1>2, AppendedIs
<1>6. \A r : r \in Range(report) <=>
                \E s \in DOMAIN blocks \ to_visit : blocks[s].reachable /\ r = Printed(s)
  BY DEF Reported, Finished
<1>7. \A s : s \in DOMAIN blocks' \ to_visit' <=> s \in DOMAIN blocks \ to_visit \/ s = b
  BY <1>1, <1>2
<1>8. \A r : r \in Range(report') <=>
                \E s \in DOMAIN blocks' \ to_visit' : blocks'[s].reachable /\ r = Printed(s)'
  <2>1. \A r : (\E s \in DOMAIN blocks' \ to_visit' : blocks'[s].reachable /\ r = Printed(s)')
                  <=> \/ \E s \in DOMAIN blocks \ to_visit : blocks[s].reachable /\ r = Printed(s)
                      \/ blocks[b].reachable /\ r = Printed(b)
    <3>1. \A s : blocks'[s].reachable = blocks[s].reachable
      BY <1>1
    <3> QED
      BY <1>3, <1>7, <3>1, Zenon
  <2> QED
    BY <1>5, <1>6, <2>1, Zenon
<1> QED
  BY <1>1, <1>2, <1>4, <1>8 DEF Reported, Finished

LEMMA FinishedKnows ==
    ASSUME Explored, phase = "done", Process_program
    PROVE  Explored'
<1>1. /\ UNCHANGED <<filling, instructions, blocks, moves>>
      /\ phase' \in {"done", "printed"}
  BY DEF Process_program, PrintBlock, MainReturns
<1>2. Balanced' /\ Reaches'
  BY <1>1 DEF Explored, Balanced, Reaches, IsEntered
<1>3. \A s : InstructionsOf(s)' = InstructionsOf(s)
  BY <1>1 DEF InstructionsOf
<1>4. \A s : LastOf(s)' = LastOf(s)
  BY <1>3 DEF LastOf
<1>5. \A s, n : Justified(s, n)' <=> Justified(s, n)
  BY <1>1, <1>3, <1>4 DEF Justified, IsValidJumpDest
<1>6. Moves'
  BY <1>1, <1>5 DEF Explored, Moves
<1> QED
  BY <1>2, <1>6 DEF Explored

LEMMA NextMain == MainInv /\ [MainNext]_mainVars => MainInv'
<1> SUFFICES ASSUME MainInv, [MainNext]_mainVars
             PROVE  MainInv'
  OBVIOUS
<1>1. CASE [Next]_vars /\ UNCHANGED report /\ ~Finished
  <2>1. Sound /\ FollowedTrace /\ Drawn /\ Static /\ Passes
    BY <1>1 DEF MainInv, Sound
  <2>2. Sound' /\ FollowedTrace' /\ Drawn'
    BY <1>1, <2>1, NextSound, NextFollowed, NextDrawn
  <2>3. Explored'
    BY <1>1, <2>1, NextMoves, NextBalanced, NextReaches DEF MainInv, Explored
  <2>4. report = <<>> /\ report' = <<>>
    BY <1>1 DEF MainInv, Reported
  <2>5. Range(report') = {}
    BY <2>4 DEF Range
  <2>6. phase' # "printed" /\ (phase' = "done" => to_visit' = DOMAIN blocks')
    BY <1>1 DEF Finished, Next, Fill, FillPanics, FillInstruction, FillReturns, Link, LinkBlock,
                LinkReturns, Solve_dynamics, SolveReturns, SolveState, Panic, vars
  <2>7. Reported'
    BY <2>4, <2>5, <2>6, NoneWaiting DEF Reported, Finished, Waiting
  <2> QED
    BY <2>2, <2>3, <2>7 DEF MainInv
<1>2. CASE Process_program
  <2>1. phase = "done" /\ phase' \in {"done", "printed"}
    BY <1>2 DEF Process_program, PrintBlock, MainReturns
  <2>2. Explored'
    BY <1>2, <2>1, FinishedKnows DEF MainInv
  <2>3. ASSUME MainReturns
        PROVE  Reported'
    <3>1. /\ UNCHANGED <<filling, instructions, blocks, to_visit, report>>
          /\ to_visit = {} /\ phase' = "printed"
      BY <2>3 DEF MainReturns
    <3>2. \A s : Printed(s)' = Printed(s)
      BY <3>1, PrintedStays
    <3> QED
      BY <2>1, <3>1, <3>2 DEF MainInv, Reported, Finished
  <2>4. Reported'
    BY <1>2, <2>1, <2>3, PrintKeepsReport DEF MainInv, Process_program
  <2> QED
    BY <2>1, <2>2, <2>4 DEF MainInv, Finished
<1>3. CASE UNCHANGED mainVars /\ Finished
  <2>1. UNCHANGED vars /\ UNCHANGED report /\ UNCHANGED <<filling, instructions, blocks>>
    BY <1>3 DEF mainVars, vars
  <2>2. Explored'
    <3>1. Balanced' /\ Reaches'
      BY <2>1 DEF MainInv, Explored, Balanced, Reaches, IsEntered, vars
    <3>2. \A s : InstructionsOf(s)' = InstructionsOf(s)
      BY <2>1 DEF InstructionsOf
    <3>3. \A s : LastOf(s)' = LastOf(s)
      BY <3>2 DEF LastOf
    <3>4. \A s, n : Justified(s, n)' <=> Justified(s, n)
      BY <2>1, <3>2, <3>3 DEF Justified, IsValidJumpDest
    <3>5. Moves'
      BY <2>1, <3>4 DEF MainInv, Explored, Moves, vars
    <3> QED
      BY <3>1, <3>5 DEF Explored
  <2>3. Reported'
    <3>1. \A s : Printed(s)' = Printed(s)
      BY <2>1, PrintedStays
    <3> QED
      BY <2>1, <3>1 DEF MainInv, Reported, Finished, vars
  <2>4. Finished'
    BY <1>3, <2>1 DEF Finished, vars
  <2> QED
    BY <2>2, <2>3, <2>4 DEF MainInv
<1>4. Next => ~Finished
  BY DEF Next, Fill, Link, Solve_dynamics, Finished
<1>5. UNCHANGED mainVars => UNCHANGED vars /\ UNCHANGED report
  BY DEF mainVars
<1> QED
  BY <1>1, <1>2, <1>3, <1>4, <1>5 DEF MainNext

\* A block printed can be entered from one that is, and entries and exits agree.
LEMMA MainInvConnects == MainInv => ReportIsConnected
<1> SUFFICES ASSUME MainInv, phase = "printed"
             PROVE  ReportIsConnected
  BY DEF ReportIsConnected
<1>1. /\ \A r : r \in Range(report) <=>
                \E s \in DOMAIN blocks : blocks[s].reachable /\ r = Printed(s)
      /\ Moves /\ Balanced /\ Reaches
  BY DEF MainInv, Explored, Reported, Finished
<1>2. \A s : /\ Printed(s).start = s /\ Printed(s).exits = blocks[s].exits
             /\ Printed(s).entries = blocks[s].entries
             /\ Printed(s).dynamic = blocks[s].dynamic_jump
             /\ Printed(s).lines =
                   {o \in InstructionsOf(s) : ~IsStackManipOnly(instructions[o].op)}
  BY DEF Printed
<1>3. ASSUME NEW r \in Range(report), NEW q \in Range(report)
      PROVE  Times(r.start, q.exits) = Times(q.start, r.entries)
  BY <1>1, <1>2 DEF Balanced
<1>4. ASSUME NEW r \in Range(report), r.start # 0
      PROVE  \E q \in Range(report) :
                \/ r.start \in Range(q.exits) \/ q.dynamic
                \/ \E o \in q.lines : IsJump(instructions[o].op)
                                  /\ instructions[o].inputs[1] = Constant(r.start)
  <2>1. PICK b \in DOMAIN blocks : blocks[b].reachable /\ r = Printed(b) /\ b # 0
    BY <1>1, <1>2, <1>4
  <2>2. PICK m \in moves : m[2] = b
    BY <1>1, <2>1 DEF Reaches, IsEntered
  <2>3. PICK a : a = m[1] /\ a \in DOMAIN blocks /\ blocks[a].reachable /\ Justified(a, b)
    BY <1>1, <2>2 DEF Moves, Reaches
  <2>4. PICK q : q = Printed(a)
    OBVIOUS
  <2>5. q \in Range(report)
    BY <1>1, <2>3, <2>4
  <2>6. CASE b \in Range(blocks[a].exits) \/ blocks[a].dynamic_jump
    BY <1>2, <2>1, <2>4, <2>5, <2>6
  <2>7. CASE /\ LastOf(a) \in InstructionsOf(a) /\ IsJump(instructions[LastOf(a)].op)
             /\ instructions[LastOf(a)].inputs[1] = Constant(b)
    <3>1. ~IsStackManipOnly(instructions[LastOf(a)].op)
      BY <2>7 DEF IsStackManipOnly, IsJump, IsDup, IsSwap, IsPush, JUMP, JUMPI, POP, DUP1, SWAP1,
                  PUSH1
    <3>2. LastOf(a) \in q.lines
      BY <1>2, <2>4, <2>7, <3>1
    <3> QED
      BY <1>2, <2>1, <2>5, <2>7, <3>2
  <2> QED
    BY <2>3, <2>6, <2>7 DEF Justified
<1> QED
  BY <1>3, <1>4 DEF ReportIsConnected

\* For every code, the report hangs together: a block printed, but for the one at 0, can be
\* entered from another one that is printed and says so, and two blocks agree about how
\* many ways lead from the one to the other.
THEOREM ReportsHangTogether == MainSpec => []ReportIsConnected
<1>1. MainInit => MainInv
  <2>1. MainInit => Init /\ report = <<>> /\ ~Finished
    BY DEF MainInit, Init, Finished
  <2>2. Init => Drawn /\ Moves
    BY DEF Init, Drawn, Moves
  <2>3. report = <<>> /\ ~Finished /\ phase = "filling" => Reported
    BY NoneWaiting DEF Reported, Waiting
  <2>4. Init => phase = "filling"
    BY DEF Init
  <2> QED
    BY <2>1, <2>2, <2>3, <2>4, InitSound, InitFollowed, InitBalanced, InitReaches
       DEF MainInv, Explored
<1> QED
  BY <1>1, NextMain, MainInvConnects, PTL DEF MainSpec

=============================================================================
