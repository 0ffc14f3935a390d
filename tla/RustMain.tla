----------------------------- MODULE RustMain -----------------------------
(***************************************************************************)
(* The whole of the Rust program: the command of RustReport, whose         *)
(* programs can be asked for the instructions whose trees match a pattern. *)
(* A query changes nothing.                                                *)
(***************************************************************************)
EXTENDS RustReport, OpTreeQueries

CONSTANT Queries        \* the patterns a program is asked for

\* Program::query: the answer at each instruction whose tree matches.
QueryAnswers(query) ==
    [o \in {p \in DOMAIN op_trees : InQuery(op_trees[p], query)} |->
        Answer(op_trees[o], query)]

\* Whatever the pattern, every instruction whose tree is an instance of it is in
\* the answer, with trees that make the pattern that instance; and nothing else is
\* if the pattern names nothing twice.
QueriesFindInstances ==
    phase = "done" =>
        \A query \in Queries : \A o \in DOMAIN op_trees :
            LET answers == QueryAnswers(query)
            IN  /\ IsInstance(op_trees[o], query) =>
                      /\ o \in DOMAIN answers
                      /\ Instance(query, answers[o]) = op_trees[o]
                /\ IsLinear(query) /\ o \in DOMAIN answers =>
                      IsInstance(op_trees[o], query)

=============================================================================
