---------------------------- MODULE RustReport ----------------------------
(***************************************************************************)
(* The Rust command (main.rs): it makes a Program of the code and prints   *)
(* every block that execution reached, with the blocks it can exit to and  *)
(* be entered from and with its instructions.                              *)
(***************************************************************************)
EXTENDS RustProgram

VARIABLE report         \* what has been printed: one record per block

mainVars == <<vars, report>>

MainInit == Init /\ report = <<>>

IsStackManipOnly(op) == IsDup(op) \/ IsSwap(op) \/ IsPush(op) \/ op = POP

Printed(s) ==
    [start   |-> s,
     exits   |-> blocks[s].exits,
     entries |-> blocks[s].entries,
     dynamic |-> blocks[s].dynamic_jump,
     lines   |-> {o \in InstructionsOf(s) : ~IsStackManipOnly(instructions[o].op)}]

SkipsNone(s) == FALSE

Skips(s) == ~blocks[s].reachable

\* process_program: a step is one block, in the order of the map.
PrintBlock(s) ==
    /\ to_visit' = to_visit \ {s}
    /\ report' = IF Skips(s) THEN report ELSE Append(report, Printed(s))
    /\ UNCHANGED <<byte_code, filling, instructions, op_trees, blocks, states, phase,
                   cause, moves, refused>>

MainReturns ==
    /\ to_visit = {}
    /\ phase' = "printed"
    /\ UNCHANGED <<byte_code, filling, instructions, op_trees, blocks, to_visit, states,
                   cause, moves, refused, report>>

Process_program ==
    /\ phase = "done"
    /\ \/ \E s \in to_visit : (\A t \in to_visit : s <= t) /\ PrintBlock(s)
       \/ MainReturns

MainNext ==
    \/ Next /\ UNCHANGED report
    \/ Process_program

MainSpec == MainInit /\ [][MainNext]_mainVars

\* The program makes no blocking call: it runs on until it returns or panics.  This
\* is weak fairness of MainNext, which is enabled in all other phases.
MainFairSpec ==
    MainSpec /\ ([]<>(phase \in {"printed", "panicked"}) \/ []<><<TRUE>>_mainVars)

-----------------------------------------------------------------------------

\* How a reader follows the report: a block that is printed can be entered from
\* another one that is, which says so: it lists it as an exit, has dynamic jumps or
\* prints a jump to its first byte.  And where one block says it can exit to
\* another, that one says as often that it can be entered from it.
ReportIsConnected ==
    phase = "printed" =>
        \A b \in Range(report) :
            /\ \/ b.start = 0
               \/ \E a \in Range(report) :
                      \/ b.start \in Range(a.exits) \/ a.dynamic
                      \/ \E o \in a.lines : IsJump(instructions[o].op)
                                        /\ instructions[o].inputs[1] = Constant(b.start)
            /\ \A a \in Range(report) :
                   Times(b.start, a.exits) = Times(a.start, b.entries)

\* Round every loop of the code some gas is spent: the breadth-first execution
\* comes to an end, and the report is printed unless the program panics.
MainEnds == <>(phase \in {"printed", "panicked"})

=============================================================================
