---------------------------- MODULE RustProgram ----------------------------
(***************************************************************************)
(* Program::new of the Rust disassembler (program.rs): fill_instructions   *)
(* decodes the code and files blocks on the way, fill_block_references     *)
(* draws edges between them, solve_dynamics executes the blocks breadth    *)
(* first from the entry.  An assertion, an unwrap of nothing or an index   *)
(* out of bounds panics and ends the program; so does an unsigned          *)
(* subtraction below zero, which the debug build checks.                   *)
(***************************************************************************)
EXTENDS OpTrees, SequencesExt, Maps

CONSTANTS
    Codes,              \* the byte strings to analyse: functions on 0 .. n-1
    GasLimit            \* bound: 500000 in the code

ASSUME GasAssumption == GasLimit \in Nat

\* No vector is longer than a usize can count: an offset in the code always fits.
ASSUME UsizeAssumption ==
    UsizeModulus \in Nat /\ \A c \in Codes : Cardinality(DOMAIN c) < UsizeModulus

VARIABLES
    byte_code,
    offset,             \* where fill_instructions stands
    stack, arg_count,   \* its symbolic stack, and how many arguments it took
    start, this_end,    \* the block being filled; this_end may be Nothing
    instructions,       \* offset -> op, data and inputs
    op_trees,           \* offset -> tree of operations
    blocks,             \* start -> Block
    to_visit,            \* blocks the running pass has still to visit
    states,             \* executions solve_dynamics has still to continue
    phase,              \* "filling", "linking", "solving", "done", "panicked", or
                        \* "printed" (RustReport)
    cause,              \* why it panicked, or "none"
    moves,              \* <<block, target>> of each exit taken
    refused             \* <<block, target>> of each "Invalid jump to"

filling == <<offset, stack, arg_count, start, this_end>>
vars == <<byte_code, filling, instructions, op_trees, blocks, to_visit, states, phase,
          cause, moves, refused>>

Nothing == -1

Size == Cardinality(DOMAIN byte_code)

Init ==
    /\ byte_code \in Codes
    /\ offset = 0 /\ stack = <<>> /\ arg_count = 0
    /\ start = 0 /\ this_end = 0
    /\ instructions = [o \in {} |-> 0]
    /\ op_trees = [o \in {} |-> 0]
    /\ blocks = [o \in {} |-> 0]
    /\ to_visit = {}
    /\ states = <<>>
    /\ phase = "filling"
    /\ cause = "none"
    /\ moves = {} /\ refused = {}

Panic(why) ==
    /\ phase' = "panicked"
    /\ cause' = why
    /\ UNCHANGED <<byte_code, filling, instructions, op_trees, blocks, to_visit, states,
                   moves, refused>>

-----------------------------------------------------------------------------
(***************************************************************************)
(* fill_instructions: a step is one round of its loop.                     *)
(***************************************************************************)

Op == byte_code[offset]

Behind == offset + 1 + PushBytes(Op)

Data ==
    LET upTo[i \in offset .. Behind - 1] ==
            IF i = offset THEN 0 ELSE 256 * upTo[i - 1] + byte_code[i]
    IN  upTo[Behind - 1]

OpInputs == Inputs(Op, stack, arg_count)

EndsBlock(op) == IsJump(op) \/ IsStop(op)

Priced(from, to) == {o \in DOMAIN instructions : from <= o /\ o < to}

\* calc_gas_price: the instruction that ends the block is not in the map yet.
CalcGasPrice(from, to) ==
    FoldSet(LAMBDA o, sum : sum + GasPrice(instructions[o].op), 0, Priced(from, to))

NewBlock(from, to) ==
    [end |-> to, gas_price |-> CalcGasPrice(from, to), dynamic_jump |-> FALSE,
     reachable |-> FALSE, exits |-> <<>>, entries |-> <<>>]

FiledAtEndsOnly == IF EndsBlock(Op) THEN {Behind} ELSE {}

\* Where the block filed in this round ends, if one is.
Filed ==
    IF Op = JUMPDEST /\ this_end # Nothing THEN {this_end}
    ELSE IF EndsBlock(Op) THEN {Behind}
    ELSE {}

StartAfter ==
    IF Op = JUMPDEST THEN offset ELSE IF EndsBlock(Op) THEN Behind ELSE start

StackCarriedOn == Pushed(Rest(Op, stack), Outputs(Op, offset, Data, OpInputs))

StackNamesNext ==
    IF Op = JUMPDEST THEN <<>>
    ELSE Pushed(Rest(Op, stack), Outputs(Op, Behind, Data, OpInputs))

StackAfter ==
    IF Op = JUMPDEST THEN <<>>
    ELSE Pushed(Rest(Op, stack), Outputs(Op, offset, Data, OpInputs))

NewInstruction == [op |-> Op, data |-> Data, inputs |-> OpInputs]

\* Why a round panics: a PUSH whose data is cut short is read beyond the end of
\* the code, and a tree is built of the instructions already in the map.
FillCause ==
    CASE Behind > Size -> "data"
      [] Behind <= Size /\ Panics(Op, OpInputs) -> "arithmetic"
      [] OTHER ->
            IF \E end \in Filed : \E o \in Priced(start, end) : instructions[o].op \in Unpriced
            THEN "gas price"
            ELSE IF NamedIn(OpInputs) \subseteq DOMAIN instructions THEN "none"
            ELSE "op tree"

FillPanics == FillCause # "none" /\ Panic(FillCause)

FillInstruction ==
    /\ FillCause = "none"
    /\ blocks' = [s \in DOMAIN blocks \cup {start : end \in Filed} |->
                     IF s = start /\ Filed # {}
                     THEN NewBlock(start, CHOOSE end \in Filed : TRUE)
                     ELSE blocks[s]]
    /\ start' = StartAfter
    /\ stack' = StackAfter
    /\ arg_count' = IF Op = JUMPDEST THEN 0 ELSE arg_count + Missing(Op, stack)
    /\ this_end' = IF EndsBlock(Op) THEN Nothing ELSE Behind
    /\ instructions' = Store(instructions, offset, NewInstruction)
    /\ offset' = Behind
    /\ op_trees' =
          Store(op_trees, offset, CreateFromInstr(NewInstruction, TreesOf(instructions)))
    /\ UNCHANGED <<byte_code, to_visit, states, phase, cause, moves, refused>>

\* A block that no jump, stop or JUMPDEST has ended is not filed.
FillReturns ==
    /\ phase' = "linking"
    /\ to_visit' = DOMAIN blocks
    /\ UNCHANGED <<byte_code, filling, instructions, op_trees, blocks, states, cause, moves,
                   refused>>

Fill ==
    /\ phase = "filling"
    /\ \/ offset < Size /\ (FillPanics \/ FillInstruction)
       \/ offset >= Size /\ FillReturns

-----------------------------------------------------------------------------
(***************************************************************************)
(* fill_block_references: a step is one block.                             *)
(***************************************************************************)

InstructionsOf(s) == {o \in DOMAIN instructions : s <= o /\ o < blocks[s].end}

LastOf(s) == CHOOSE o \in InstructionsOf(s) : \A p \in InstructionsOf(s) : p <= o

IsValidJumpDest(o) == o \in DOMAIN instructions /\ instructions[o].op = JUMPDEST

\* add_edge: a target that is no block is reported and left out.
JumpEdges(s) ==
    LET last == instructions[LastOf(s)]
    IN  {t \in DOMAIN blocks :
            /\ IsJump(last.op)
            /\ IsValidJumpDest(t)
            /\ last.inputs[1] = Constant(t)}

FallEdgesNotJumps(s) ==
    {t \in DOMAIN blocks \cap DOMAIN instructions :
        t = blocks[s].end /\ ~EndsBlock(instructions[LastOf(s)].op)}

FallEdges(s) ==
    LET last == instructions[LastOf(s)]
    IN  {t \in DOMAIN blocks \cap DOMAIN instructions :
            t = blocks[s].end /\ ~IsStop(last.op) /\ last.op # JUMP}

Times(s, listed) == Cardinality({i \in DOMAIN listed : listed[i] = s})

\* Edges are pushed onto vectors: two edges to one block are listed twice.
Linked(s) ==
    LET added == SetToSeq(JumpEdges(s)) \o SetToSeq(FallEdges(s))
        last  == instructions[LastOf(s)]
    IN  [b \in DOMAIN blocks |->
            [blocks[b] EXCEPT
                !.exits = IF b = s THEN @ \o added ELSE @,
                !.entries = @ \o [i \in 1 .. Times(b, added) |-> s],
                !.dynamic_jump =
                    @ \/ (b = s /\ IsJump(last.op) /\ ~IsConstant(last.inputs[1]))]]

\* assert!(instructions.len() > 0)
LinkBlock(s) ==
    \/ InstructionsOf(s) = {} /\ Panic("empty block")
    \/ /\ InstructionsOf(s) # {}
       /\ blocks' = Linked(s)
       /\ to_visit' = to_visit \ {s}
       /\ UNCHANGED <<byte_code, filling, instructions, op_trees, states, phase, cause, moves,
                      refused>>

\* solve_dynamics starts at self.blocks[&0].
LinkReturns ==
    \/ 0 \notin DOMAIN blocks /\ Panic("no entry")
    \/ /\ 0 \in DOMAIN blocks
       /\ phase' = "solving"
       /\ states' = << [gas |-> GasLimit, block |-> 0, stack |-> <<>>] >>
       /\ UNCHANGED <<byte_code, filling, instructions, op_trees, blocks, to_visit, cause,
                      moves, refused>>

Link ==
    /\ phase = "linking"
    /\ \/ \E s \in to_visit : (\A t \in to_visit : s <= t) /\ LinkBlock(s)
       \/ to_visit = {} /\ LinkReturns

-----------------------------------------------------------------------------
(***************************************************************************)
(* solve_dynamics: a step is one state.  The generations of its outer loop *)
(* make one queue.  Of the blocks a state has come through the last one is *)
(* all that is read.                                                       *)
(***************************************************************************)

\* One instruction of solve_stack.
Iterate(run, o) ==
    LET inst   == instructions[o]
        inputs == Inputs(inst.op, run.stack, 0)
    IN  IF run.cause # "none" THEN run
        ELSE IF Missing(inst.op, run.stack) > 0
             THEN [run EXCEPT !.cause = "floating value"]
        ELSE IF Panics(inst.op, inputs)
             THEN [run EXCEPT !.cause = "arithmetic"]
        ELSE IF ExitsPanic(inst.op, inputs)
             THEN [run EXCEPT !.cause = "dynamic target"]
        ELSE [cause |-> "none",
              stack |-> Pushed(Rest(inst.op, run.stack),
                               Outputs(inst.op, o, inst.data, inputs)),
              exits |-> Exits(inst.op, o, inputs)]

\* The instructions at offsets, in ascending order: the last one runs on what the
\* others leave.
RunFrom(entry, offsets) ==
    MapThenFoldSet(LAMBDA o, run : Iterate(run, o),
                   [cause |-> "none", stack |-> entry, exits |-> <<>>],
                   LAMBDA o : o, LAMBDA O : Max(O), offsets)

SolveStack(s, entry) == RunFrom(entry, InstructionsOf(s))

AcceptedJumpsOnly(s, next) == IsValidJumpDest(next)

Accepted(s, next) == IsValidJumpDest(next) \/ blocks[s].end = next

MissingBlock(next) == next \notin DOMAIN blocks

GasKept(s, gas) == gas

GasLeft(s, gas) == gas - blocks[s].gas_price

\* The exits that are accepted, in their order.
Taken(s, run) ==
    LET upTo[i \in 0 .. Len(run.exits)] ==
            IF i = 0 THEN <<>>
            ELSE IF Accepted(s, run.exits[i]) THEN Append(upTo[i - 1], run.exits[i])
            ELSE upTo[i - 1]
    IN  upTo[Len(run.exits)]

\* Why the step panics: running the block comes first, then, exit by exit, the
\* lookup of the block and the subtraction of the gas.
SolveCause(s, gas, run) ==
    LET taken == Taken(s, run)
    IN  IF run.cause # "none" THEN run.cause
        ELSE IF taken # <<>> /\ ~MissingBlock(taken[1]) /\ GasLeft(s, gas) < 0
             THEN "out of gas"
        ELSE IF \E n \in Range(taken) : MissingBlock(n) THEN "no block"
        ELSE "none"

SolveState ==
    LET s     == Head(states).block
        gas   == Head(states).gas
        run   == SolveStack(s, Head(states).stack)
        taken == Taken(s, run)
        why   == SolveCause(s, gas, run)
    IN  \/ why # "none" /\ Panic(why)
        \/ /\ why = "none"
           /\ blocks' = [blocks EXCEPT ![s].reachable = TRUE]
           /\ states' = Tail(states) \o
                 [i \in 1 .. Len(taken) |->
                     [gas |-> GasLeft(s, gas), block |-> taken[i], stack |-> run.stack]]
           /\ moves' = moves \cup {<<s, n>> : n \in Range(taken)}
           /\ refused' = refused \cup
                 {<<s, n>> : n \in {m \in Range(run.exits) : ~Accepted(s, m)}}
           /\ UNCHANGED <<byte_code, filling, instructions, op_trees, to_visit, phase, cause>>

SolveReturns ==
    /\ phase' = "done"
    /\ to_visit' = DOMAIN blocks
    /\ UNCHANGED <<byte_code, filling, instructions, op_trees, blocks, states, cause,
                   moves, refused>>

Solve_dynamics ==
    /\ phase = "solving"
    /\ IF states = <<>> THEN SolveReturns ELSE SolveState

Next == Fill \/ Link \/ Solve_dynamics

Spec == Init /\ [][Next]_vars

-----------------------------------------------------------------------------

\* No jump, stop or JUMPDEST ends the block of instruction o.
InTail(o) ==
    \A p \in DOMAIN instructions :
        /\ EndsBlock(instructions[p].op) => p < o
        /\ instructions[p].op = JUMPDEST => p <= o

\* fill_instructions puts each instruction into one block, but for those behind
\* the last one that ends a block: they are in none.
BlocksArePartition ==
    phase = "linking" =>
        \A o \in DOMAIN instructions :
            Cardinality({s \in DOMAIN blocks : o \in InstructionsOf(s)})
                = IF InTail(o) THEN 0 ELSE 1

\* Where a pass finds an empty block, no entry or no block at the target of an
\* accepted exit, the code there is in the tail that was not filed.
MissingBlocksAreTail ==
    /\ cause = "empty block" => IsValidJumpDest(0) /\ InTail(0)
    /\ cause = "no entry"    => \A o \in DOMAIN instructions : InTail(o)
    /\ cause = "no block"    =>
          LET s   == Head(states).block
              run == SolveStack(s, Head(states).stack)
          IN  \E n \in Range(run.exits) :
                  Accepted(s, n) /\ (n \in DOMAIN instructions => InTail(n))

\* An exit solve_dynamics takes is an edge fill_block_references drew, or the
\* block is marked as having a dynamic jump; but for a jump to the end of its own
\* block, which is taken whatever stands there.
MovesAreEdges ==
    \A m \in moves :
        \/ m[2] \in Range(blocks[m[1]].exits)
        \/ blocks[m[1]].dynamic_jump
        \/ /\ m[2] = blocks[m[1]].end
           /\ ~IsValidJumpDest(m[2])
           /\ IsJump(instructions[LastOf(m[1])].op)
           /\ instructions[LastOf(m[1])].inputs[1] = Constant(m[2])

\* "Invalid jump to" is printed for a jump that leads neither to a JUMPDEST nor
\* just behind its block, or for going on behind a block that ends in a PUSH: its
\* exit is computed as one byte behind the PUSH.
RefusedAreExplained ==
    \A r \in refused :
        LET o == LastOf(r[1])
        IN  \/ /\ IsJump(instructions[o].op)
               /\ ~IsValidJumpDest(r[2])
               /\ r[2] # blocks[r[1]].end
            \/ IsPush(instructions[o].op) /\ r[2] = o + 1

\* What is on the symbolic stack as the result of an instruction has that
\* instruction in the map, so that the tree of whatever consumes it can be built.
TreesAreBuilt ==
    /\ cause # "op tree"
    /\ phase # "panicked" => NamedIn(stack) \subseteq DOMAIN instructions

\* No lookup of one pass in what another has filed panics, but for the code at the
\* end that is in no block.
LookupsSucceedButInTail == MissingBlocksAreTail /\ TreesAreBuilt

\* The report prints next to an instruction the inputs fill_instructions found for
\* it.  Every execution finds them there, from whichever block it comes: the same
\* constants, what the instruction named has just put out, and, as argument k of
\* a block that jumps lead to, what was k below the top on entry.
StaticInputsHold ==
    phase = "solving" /\ states # <<>> =>
        LET s     == Head(states).block
            entry == Head(states).stack
            Before(o) == RunFrom(entry, {p \in InstructionsOf(s) : p < o})
            Entering(o) == Inputs(instructions[o].op, Before(o).stack, 0)
            PutOut(o) == Outputs(instructions[o].op, o, instructions[o].data, Entering(o))
        IN  \A o \in {p \in InstructionsOf(s) : Before(p).cause = "none"} :
                LET inputs == Entering(o)
                IN  \A i \in 1 .. Len(inputs) :
                        LET said == instructions[o].inputs[i]
                        IN  /\ IsConstant(said) => inputs[i] = said
                            /\ said.kind = "result" /\ said.value \in InstructionsOf(s) =>
                                  inputs[i] = PutOut(said.value)[1]
                            /\ said.kind = "argument" /\ instructions[s].op = JUMPDEST
                                  /\ said.value < Len(entry) =>
                                  inputs[i] = entry[Len(entry) - said.value]

=============================================================================
