---------------------------- MODULE CFInstruction ----------------------------
(***************************************************************************)
(* One instruction on a symbolic stack, as Program::fillInstructions and   *)
(* Program::solveStack both run it (Program.cc): operands are popped,      *)
(* outputs are made, CFInstruction::simplify rewrites them and they are    *)
(* pushed.  A stack is a sequence of CFExpressions, its top last.          *)
(***************************************************************************)
EXTENDS ConstantFolding

\* CFExpression: a constant, an argument (labelled "argument") or a symbol.
Constant(i, v)  == [kind |-> "constant", idx |-> i, value |-> v]
Argument(i)     == [kind |-> "argument", idx |-> i, value |-> <<>>]
Symbol(i)       == [kind |-> "symbol",   idx |-> i, value |-> <<>>]

Expression == [kind : {"constant", "argument", "symbol"}, idx : Nat,
               value : Seq(Byte)]

-----------------------------------------------------------------------------
(***************************************************************************)
(* One instruction.  entry is the stack the instruction finds, args the    *)
(* idx of the arguments it takes from below it.                            *)
(***************************************************************************)

\* operands[i]: the stack from the top down, then arguments.
Operands(op, entry, args) ==
    [i \in 1 .. StackRemoved(op) |->
        IF i <= Len(entry) THEN entry[Len(entry) - i + 1]
        ELSE Argument(args[i - Len(entry)])]

Missing(op, entry) ==
    IF StackRemoved(op) > Len(entry) THEN StackRemoved(op) - Len(entry) ELSE 0

Rest(op, entry) ==
    SubSeq(entry, 1, Len(entry) - StackRemoved(op))

\* The outputs before simplify: numbered from first on, constants for
\* PUSH.
FreshOutputs(op, value, first) ==
    [i \in 1 .. StackAdded(op) |->
        IF IsPush(op) THEN Constant(first + i - 1, value)
        ELSE Symbol(first + i - 1)]

DupOutputs(operands) == <<operands[Len(operands)]>> \o operands

SwapOutputs(operands) ==
    LET n == Len(operands)
    IN  [i \in 1 .. n |-> operands[IF i = 1 THEN n ELSE IF i = n THEN 1 ELSE i]]

AllReadable(operands) ==
    \A i \in 1 .. Len(operands) :
        operands[i].kind = "constant" /\ IsReadable(operands[i].value)

Values(operands) ==
    [i \in 1 .. Len(operands) |-> GetInt64FromVec(operands[i].value)]

Folds(op, operands) == IsArithmetic(op) /\ op \in HasLogic /\ AllReadable(operands)

\* CFInstruction::simplify.
Simplified(op, operands, outputs) ==
    IF IsDup(op) THEN DupOutputs(operands)
    ELSE IF IsSwap(op) THEN SwapOutputs(operands)
    ELSE IF Folds(op, operands)
         THEN <<Constant(outputs[1].idx, Result(op, Values(operands)))>>
    ELSE outputs

PushedUpsideDown(rest, outputs) == rest \o outputs

\* outputs[0] ends on top.
Pushed(rest, outputs) ==
    rest \o [i \in 1 .. Len(outputs) |-> outputs[Len(outputs) - i + 1]]

=============================================================================
