------------------------------ MODULE OpTrees ------------------------------
(***************************************************************************)
(* The trees of operations of the Rust disassembler (expression.rs): how   *)
(* an instruction and what it consumes become a tree.                      *)
(***************************************************************************)
EXTENDS RustInstruction

Operation(op, inputs) == [kind |-> "operation", op |-> op, inputs |-> inputs]

\* OpTree::create, trees being those of the instructions in the map.
Create(expr, trees) == IF expr.kind = "result" THEN trees[expr.value] ELSE expr

\* The instructions whose results are among expressions.
NamedIn(expressions) ==
    {expressions[i].value : i \in {j \in DOMAIN expressions : expressions[j].kind = "result"}}

CreateFromInstr(instr, trees) ==
    Operation(instr.op, [i \in DOMAIN instr.inputs |-> Create(instr.inputs[i], trees)])

\* The tree of every instruction; each names earlier ones only.
TreesOf(instructions) ==
    LET tree[o \in DOMAIN instructions] == CreateFromInstr(instructions[o], tree)
    IN  tree

=============================================================================
