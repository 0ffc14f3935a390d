-------------------------- MODULE RustInstruction --------------------------
(***************************************************************************)
(* One instruction of the Rust disassembler on a symbolic stack            *)
(* (instruction.rs), as fill_instructions runs it once and solve_dynamics  *)
(* once for each way into its block.  A stack is a sequence of             *)
(* Expressions, its top last.                                              *)
(***************************************************************************)
EXTENDS RustOpCodes

Constant(v) == [kind |-> "constant", value |-> v]
Argument(i) == [kind |-> "argument", value |-> i]
ResultOf(o) == [kind |-> "result",   value |-> o]

Expression == [kind : {"constant"}, value : Int]
              \cup [kind : {"argument", "result"}, value : Nat]

IsConstant(e) == e.kind = "constant"

Missing(op, stack) == IF Args(op) > Len(stack) THEN Args(op) - Len(stack) ELSE 0

\* Instruction::new: what the stack lacks are arguments.
Inputs(op, stack, argCount) ==
    [i \in 1 .. Args(op) |->
        IF i <= Len(stack) THEN stack[Len(stack) - i + 1]
        ELSE Argument(argCount + i - Len(stack) - 1)]

Rest(op, stack) == SubSeq(stack, 1, Len(stack) - Args(op))

Values(inputs) == [i \in 1 .. Len(inputs) |-> inputs[i].value]

Folds(op, inputs) ==
    IsArithmetic(op) /\ \A i \in 1 .. Len(inputs) : IsConstant(inputs[i])

Panics(op, inputs) == Folds(op, inputs) /\ SolvePanics(op, Values(inputs))

Swapped(inputs) ==
    LET n == Len(inputs)
    IN  [i \in 1 .. n |-> inputs[IF i = 1 THEN n ELSE IF i = n THEN 1 ELSE i]]

\* solve_outputs_for_inputs; data is the number behind a PUSH.
Outputs(op, offset, data, inputs) ==
    CASE IsPush(op)         -> <<Constant(data)>>
      [] IsSwap(op)         -> Swapped(inputs)
      [] IsDup(op)          -> <<inputs[Len(inputs)]>> \o inputs
      [] Folds(op, inputs)  -> <<Constant(Solve(op, Values(inputs)))>>
      [] OTHER              -> [i \in 1 .. Ret(op) |-> ResultOf(offset)]

\* outputs.iter().rev(): the first output ends on top.
Pushed(rest, outputs) ==
    rest \o [i \in 1 .. Len(outputs) |-> outputs[Len(outputs) - i + 1]]

-----------------------------------------------------------------------------
(***************************************************************************)
(* The exits iterate_stack returns for an instruction: where execution can *)
(* go on.  Conditions are left out: nobody reads them.                     *)
(***************************************************************************)

\* The target is no constant, or one that unwrapping to a usize panics on.
ExitsPanic(op, inputs) ==
    IsJump(op) /\ (~IsConstant(inputs[1]) \/ ~FitsUsize(inputs[1].value))

\* eval_as_bool.
IsTrue(e)  == IsConstant(e) /\ e.value > 0
IsFalse(e) == IsConstant(e) /\ e.value <= 0

Exits(op, offset, inputs) ==
    IF IsStop(op) THEN <<>>
    ELSE IF ~IsJump(op) THEN <<offset + 1>>
    ELSE IF op = JUMP \/ IsTrue(inputs[2]) THEN <<inputs[1].value>>
    ELSE IF IsFalse(inputs[2]) THEN <<offset + 1>>
    ELSE <<inputs[1].value, offset + 1>>

=============================================================================
