------------------------------ MODULE Program ------------------------------
(***************************************************************************)
(* The constructor of Program (Program.cc) and what etherdis does with the *)
(* program: fillInstructions, initGraph, startGraph, solveStack and        *)
(* findCreatedContracts one after the other on one byte string, then the   *)
(* reports and the audit, then the same for the contracts found.  Each     *)
(* pass is the Next of its own module; what the passes hand on are the     *)
(* maps instructions and nodes, the edges and the answers of IsReachable.  *)
(***************************************************************************)
EXTENDS CFInstruction, InstructionStream, EvmExecution, FiniteSets

CONSTANTS
    Codes,              \* the byte strings to analyse
    JunkIdx,            \* values an uninitialised CFExpression::idx may have
    IntBytes,           \* bytes of an int (4 in the code)
    MaxSteps            \* bound: steps of an execution the graph is compared with

VARIABLES
    code, pos, instructions, stack, globalIdx, jumpdests, jumpIdx, symbols,
    fillStatus,
    remaining, currNode, idx, nodes, built,
    todo, next, issues, startStatus,
    worklist, seen, entryStates, exitStates, solveIdx, solveStatus,
    reach, copies, copyAt, searchPos, nulls, created, findStatus,
    left, findings, outStatus,
    pending             \* contracts found that are still to be constructed

\* An offset is an int64_t that is not negative: no std::vector is longer.
IsAddressable(c) == 2 * Cardinality(DOMAIN c) <= Modulus

ASSUME CodesAssumption == \A c \in Codes : IsByteString(c) /\ IsAddressable(c)

ASSUME IntBytesAssumption == IntBytes \in Nat \ {0} /\ IntBytes <= WordBytes

ASSUME MaxStepsAssumption == MaxSteps \in Nat

filling == <<code, pos, instructions, stack, globalIdx, jumpdests, jumpIdx,
             symbols, fillStatus>>
cutting == <<remaining, currNode, idx, nodes, built>>
linking == <<todo, next, issues, startStatus>>

solving == <<worklist, seen, entryStates, exitStates, solveIdx, solveStatus>>

finding == <<copies, copyAt, searchPos, nulls, created, findStatus>>

writing == <<left, findings, outStatus>>

vars == <<filling, cutting, linking, solving, reach, finding, writing, pending>>

Opcodes == [o \in DOMAIN instructions |-> instructions[o].op]

Fill  == INSTANCE FillInstructions
Graph == INSTANCE InitGraph WITH instructions <- Opcodes, Streams <- {}
Start == INSTANCE StartGraph
Stack == INSTANCE SolveStack
Find  == INSTANCE CreatedContracts
Out   == INSTANCE Reports

Init ==
    /\ Fill!Init
    /\ remaining = {}
    /\ currNode = [start |-> 0, end |-> 0, idx |-> 0, isJumpDest |-> FALSE]
    /\ idx = 1
    /\ nodes = [k \in {} |-> currNode]
    /\ built = FALSE
    /\ todo = {}
    /\ next = {}
    /\ issues = {}
    /\ startStatus = "waiting"
    /\ worklist = <<>>
    /\ seen = {}
    /\ entryStates = [k \in {} |-> Stack!NoStates]
    /\ exitStates = [k \in {} |-> Stack!NoStates]
    /\ solveIdx = 0
    /\ solveStatus = "waiting"
    /\ reach = {}
    /\ copies = {}
    /\ copyAt = Find!NoCopy
    /\ searchPos = 0
    /\ nulls = {}
    /\ created = {}
    /\ findStatus = "waiting"
    /\ left = <<>>
    /\ findings = {}
    /\ outStatus = "waiting"
    /\ pending = {}

later == <<finding, writing, pending>>

\* The loop of initGraph goes over the instructions there are when
\* fillInstructions returns.
FillStep ==
    /\ fillStatus = "filling"
    /\ Fill!Next
    /\ remaining' = IF fillStatus' = "filled" THEN DOMAIN instructions ELSE {}
    /\ UNCHANGED <<currNode, idx, nodes, built, linking, solving, reach, later>>

GraphStep ==
    /\ fillStatus = "filled"
    /\ UNCHANGED <<filling, linking, solving, reach, later>>
    /\ Graph!Next

StartStep ==
    /\ built
    /\ Start!Next
    /\ UNCHANGED <<filling, remaining, currNode, idx, built, solving, reach, later>>

SolveStep ==
    /\ startStatus = "done"
    /\ Stack!Next
    /\ UNCHANGED <<filling, remaining, currNode, idx, built, todo, startStatus, reach, later>>

\* The members of S that edges lead to from those in start, in at most |S| steps.
Reached(S, start, edges) ==
    LET within[n \in 0 .. Cardinality(S)] ==
            IF n = 0 THEN start
            ELSE LET before == within[n - 1]
                 IN  before \cup {e[2] : e \in {f \in edges : f[1] \in before}}
    IN  within[Cardinality(S)]

ReachedFrom(S) == Reached(DOMAIN nodes, S, next)

ReachedNodes == ReachedFrom(DOMAIN nodes \cap {0})

OnCycle(k) == k \in ReachedFrom({e[2] : e \in {f \in next : f[1] = k}})

BehindCycle == ReachedFrom({k \in DOMAIN nodes : OnCycle(k)})

\* What IsReachable answers, as far as it may be relied on (Sound, Witnessed and
\* CompleteBeforeCycles of Reachability): a yes is right and has a predecessor of
\* which the answer is yes; a no may be wrong for a node behind a cycle.
Answers ==
    LET doubtful == ReachedNodes \cap BehindCycle
        sure     == ReachedNodes \ doubtful
    IN  {S \in {sure \cup T : T \in SUBSET doubtful} :
            \A k \in S \ {0} : \E p \in S : <<p, k>> \in next}

\* No edge is drawn any more: the answers do not change (VerdictsStable).
AskStep ==
    /\ solveStatus = "done"
    /\ findStatus = "waiting"
    /\ reach' \in Answers
    /\ findStatus' = "asked"
    /\ UNCHANGED <<filling, cutting, linking, solving, copies, copyAt, searchPos, nulls,
                   created, writing, pending>>

\* The constructor of a contract found runs on its own; here it is put off until
\* this program is written.
FindStep ==
    /\ Find!Next
    /\ pending' = pending \cup (created' \ created)
    /\ UNCHANGED <<filling, cutting, linking, solving, writing>>

WriteStep ==
    /\ findStatus = "done"
    /\ Out!Next
    /\ UNCHANGED <<filling, cutting, linking, solving, finding, pending>>

AsCode(s) == [i \in 0 .. (Len(s) - 1) |-> s[i + 1]]

\* The constructor of one of the contracts found.
Construct(contract) ==
    /\ code' = AsCode(contract)
    /\ pos' = 0
    /\ instructions' = Fill!NoEntries
    /\ stack' = <<>>
    /\ globalIdx' = 0
    /\ jumpdests' = Fill!NoEntries
    /\ jumpIdx' = Fill!NoJumpDest
    /\ symbols' = Fill!NoEntries
    /\ fillStatus' = "filling"
    /\ remaining' = {}
    /\ currNode' = [start |-> 0, end |-> 0, idx |-> 0, isJumpDest |-> FALSE]
    /\ idx' = 1
    /\ nodes' = [k \in {} |-> currNode]
    /\ built' = FALSE
    /\ todo' = {}
    /\ next' = {}
    /\ issues' = {}
    /\ startStatus' = "waiting"
    /\ worklist' = <<>>
    /\ seen' = {}
    /\ entryStates' = [k \in {} |-> Stack!NoStates]
    /\ exitStates' = [k \in {} |-> Stack!NoStates]
    /\ solveIdx' = 0
    /\ solveStatus' = "waiting"
    /\ reach' = {}
    /\ copies' = {}
    /\ copyAt' = Find!NoCopy
    /\ searchPos' = 0
    /\ nulls' = {}
    /\ created' = {}
    /\ findStatus' = "waiting"
    /\ left' = <<>>
    /\ findings' = {}
    /\ outStatus' = "waiting"
    /\ pending' = pending \ {contract}

NestedStep == outStatus = "done" /\ \E contract \in pending : Construct(contract)

Next ==
    \/ FillStep \/ GraphStep \/ StartStep \/ SolveStep \/ AskStep \/ FindStep
    \/ WriteStep \/ NestedStep

Spec == Init /\ [][Next]_vars

Stopped ==
    \/ fillStatus = "trapped"
    \/ startStatus = "aborted"
    \/ solveStatus \in {"aborted", "trapped"}
    \/ findStatus = "aborted"
    \/ outStatus = "aborted"
    \/ outStatus = "done" /\ pending = {}

\* The program makes no blocking call: it runs on until it returns or dies.
\* This is weak fairness of Next, which is enabled until then.
FairSpec == Spec /\ ([]<>Stopped \/ []<><<TRUE>>_vars)

-----------------------------------------------------------------------------

IsFiled(k) == k \in DOMAIN nodes /\ nodes[k] # Start!NoNode

\* A JUMPDEST that is the last instruction: initGraph leaves it without a node.
IsTrailingJumpDest(o) ==
    /\ Opcodes[o] = OP_JUMPDEST
    /\ \A p \in DOMAIN instructions : p <= o

\* Where control can be after instruction o, as far as jump targets are known
\* when the instructions have been filled in: a target of more bytes than an
\* int64_t has is known to the EVM only.
Continues(o) ==
    {p \in DOMAIN instructions :
        \/ IsFallThrough(Opcodes[o]) /\ p = EndOf(Opcodes, o)
        \/ LET target == instructions[o].operands[1]
           IN  /\ IsBranch(Opcodes[o])
               /\ target.kind = "constant"
               /\ IsReadable(target.value)
               /\ WordOf(target.value) = p
               /\ Opcodes[p] = OP_JUMPDEST}

Flow == UNION {{<<o, p>> : p \in Continues(o)} : o \in DOMAIN instructions}

ReachedInstructions == Reached(DOMAIN instructions, DOMAIN instructions \cap {0}, Flow)

InstructionsOf(k) ==
    nodes[k].start .. (nodes[k].end - 1) \cap DOMAIN instructions

\* The three passes together: the edges lead from the entry to exactly the
\* nodes that hold the instructions control can come to, but for a JUMPDEST
\* at the end of the code.
GraphMatchesCode ==
    startStatus = "done" /\ solveStatus = "waiting" =>
        {o \in ReachedInstructions : ~IsTrailingJumpDest(o)}
            = UNION {InstructionsOf(k) : k \in ReachedNodes}

\* startGraph leaves null pointers in nodes.  They stand where the code has ended,
\* or for a JUMPDEST that ends it, never in front of other code, where GetNode
\* would take the node before it for the node of that code; and no edge, no issue,
\* no answer of IsReachable and no entry of solveStack's worklist names one, as
\* solveStack asserts of the node it takes and of those it adds.
NullsAreNeverMet ==
    /\ \A k \in DOMAIN nodes :
          nodes[k] = Start!NoNode /\ k \in DOMAIN instructions => IsTrailingJumpDest(k)
    /\ \A e \in next \cup issues : IsFiled(e[1]) /\ IsFiled(e[2])
    /\ \A k \in reach \cup DOMAIN entryStates : IsFiled(k)
    /\ \A i \in 1 .. Len(worklist) :
          worklist[i] = <<0, Stack!Nowhere>> \/ <<worklist[i][2], worklist[i][1]>> \in next

\* A code that ends in a JUMPDEST right behind a branch or a stop: initGraph files an
\* empty node there and leaves it empty.
EndsInEmptyNode ==
    \E o, p \in DOMAIN instructions :
        /\ IsTrailingJumpDest(o)
        /\ EndOf(Opcodes, p) = o
        /\ IsStop(Opcodes[p]) \/ IsBranch(Opcodes[p])

\* "assert(lastInstr)" of startGraph fails for these codes and for no others: not for
\* a JUMPDEST at the end that the node before it runs into, nor for a code that is one
\* JUMPDEST, whose empty node starts where no search from its end ever stops.  A JUMPI
\* falls into the JUMPDEST, and yet the program dies.
AbortsAtTrailingJumpDest ==
    /\ startStatus = "aborted" => EndsInEmptyNode
    /\ startStatus = "done" => ~EndsInEmptyNode

\* "assert(node->idx == 0)" of solveStack: a node at 0 that starts with a JUMPDEST has
\* replaced the one initGraph labelled 0, unless there is no instruction behind it.  Then
\* the first node taken kills the program; nothing is run before, and no other code dies.
EntryAsserted ==
    LET led == /\ 0 \in DOMAIN instructions
               /\ Opcodes[0] = OP_JUMPDEST
               /\ DOMAIN instructions # {0}
    IN  /\ solveStatus = "aborted" => led
        /\ led => seen = {} /\ solveStatus # "done"

-----------------------------------------------------------------------------
(***************************************************************************)
(* What solveStack finds                                                   *)
(***************************************************************************)

NodeLabelled(i) == CHOOSE k \in DOMAIN nodes : nodes[k] # Start!NoNode /\ nodes[k].idx = i

\* The nodes of an execution path and the node it leads to.
Walk(path, k) == Append([i \in 1 .. Len(path) |-> NodeLabelled(path[i])], k)

\* Paths start at the entry and follow edges of the graph.
PathsAreWalks ==
    \A k \in DOMAIN entryStates : \A s \in DOMAIN entryStates[k] :
        \A i \in 1 .. Len(entryStates[k][s]) :
            LET walk == Walk(entryStates[k][s][i], k)
            IN  /\ walk[1] = 0
                /\ \A j \in 1 .. (Len(walk) - 1) : <<walk[j], walk[j + 1]>> \in next

\* What is known of a stack: its height and its constants.
Unknown == <<>>

Shape(s) == [i \in 1 .. Len(s) |-> IF s[i].kind = "constant" THEN s[i].value ELSE Unknown]

EntryState(s) == [stack |-> s, argumentIdx |-> 0, globalIdx |-> 0,
                  targets |-> {}, trapped |-> FALSE]

RunOf(k, s) == Stack!Run(k, EntryState(s))

\* The stack a path from the entry builds up.
StackAlong(walk) ==
    LET after[n \in 0 .. Len(walk) - 1] ==
            IF n = 0 THEN <<>> ELSE RunOf(walk[n], after[n - 1]).stack
    IN  after[Len(walk) - 1]

\* A stack has the height and the constants that running the nodes of its path one
\* after the other leaves behind.
StatesMatchPaths ==
    \A k \in DOMAIN entryStates : \A s \in DOMAIN entryStates[k] :
        \A i \in 1 .. Len(entryStates[k][s]) :
            Shape(StackAlong(Walk(entryStates[k][s][i], k))) = Shape(s)

\* The execution paths solveStack lists with the stacks a node can be entered with
\* are paths of the graph on which just these stacks arise, although a node's
\* states are handed on while others are still missing, and run again when they come.
StatesAriseOnPaths == findStatus = "waiting" => PathsAreWalks /\ StatesMatchPaths

Solved == solveStatus = "done" /\ findStatus = "waiting"

\* A contract found is a copy of the whole code.
CopiesItself == \E contract \in created : AsCode(contract) = code

\* The program comes to an end: solveStack puts all successors of a node on the
\* worklist again and adds edges on the way, the search for a stop adds the entries
\* whose number bounds it, and each contract found is constructed in turn; only a
\* contract that is a copy of the code it is found in makes this go on for ever.
ProgramEnds == <>(Stopped \/ CopiesItself)

-----------------------------------------------------------------------------
(***************************************************************************)
(* Executions of the EVM                                                   *)
(***************************************************************************)

HeldBy(S) == UNION {InstructionsOf(k) : k \in S}

\* disassembly.full.txt marks the nodes the edges do not lead to "Unreachable".  The EVM
\* comes to instruction c.pc all the same only if it has jumped before to a target the
\* program cannot read, from a node that is not so marked; or if it is a JUMPDEST that
\* is in no node.
IsAccounted(c) ==
    \/ c.pc \in HeldBy(ReachedNodes) \/ IsTrailingJumpDest(c.pc)
    \/ c.strayed \in HeldBy(ReachedNodes)

AllAccounted(blocked) ==
    \A c \in Executed(code, DOMAIN instructions, blocked, MaxSteps) : IsAccounted(c)

\* This is so of all the EVM executes.
ExecutedIsReached == Solved => AllAccounted({})

\* The last instructions of the nodes with two predecessors.
Joins ==
    LET joined == {k \in DOMAIN nodes :
                      \E e, f \in next : e[2] = k /\ f[2] = k /\ e # f}
    IN  {o \in HeldBy(joined) : \E k \in joined : EndOf(Opcodes, o) = nodes[k].end}

\* It is as long as the EVM has not left a node with two predecessors: the other nodes
\* are given all their states the first time.
ExecutedIsReachedBeforeJoins == Solved => AllAccounted(Joins)

-----------------------------------------------------------------------------
(***************************************************************************)
(* GetNode, the audit and the contracts created                            *)
(***************************************************************************)

LastOffset == CHOOSE o \in DOMAIN instructions : \A p \in DOMAIN instructions : p <= o

\* GetNode goes by the keys of nodes, those of null pointers included: it never
\* returns a node that does not hold the instruction asked for (but the node in
\* front of a trailing JUMPDEST), and finds one if the last instruction falls
\* through, for then there is a null pointer behind the last node.
LookupsFindNode ==
    findStatus = "asked" =>
        \A o \in {p \in DOMAIN instructions : ~IsTrailingJumpDest(p)} :
            LET k == Out!GetNode(o)
            IN  \/ k \in DOMAIN nodes /\ o \in InstructionsOf(k)
                \/ k = Out!Failed /\ ~IsFallThrough(Opcodes[LastOffset])

\* "assert(node != nodes.end() && ...)" at the end of GetNode.
LookupsSucceed == outStatus # "aborted"

\* The audit reports only reads of tx.origin in nodes the edges lead to; and, unless
\* the program creates contracts, all of them but those behind a cycle.  What it leaves
\* out in other nodes the EVM does not come to before it has left a node with two
\* predecessors or has jumped, in a node the edges lead to, to a target the program
\* cannot read.
OriginsReported ==
    [][outStatus = "running" /\ left = <<"audit">> /\ left' = <<>> =>
          /\ findings' \subseteq HeldBy(ReachedNodes)
          /\ created = {} =>
                LET executed == Executed(code, DOMAIN instructions, Joins, MaxSteps)
                IN  \A o \in Out!Origins \ findings' :
                       \/ o \in HeldBy(BehindCycle)
                       \/ /\ o \notin HeldBy(ReachedNodes)
                          /\ \A c \in executed :
                                c.pc = o => c.strayed \in HeldBy(ReachedNodes)
      ]_vars

\* Instructions that write to the memory of the EVM.
MemoryWriters == {55, 57, 60, 82, 83, 241, 242, 244}

\* The number of the EVM that operand i of instruction o is.
EvmOperand(o, i) == WordOf(instructions[o].operands[i].value)

IsPushed(e) == \E o \in DOMAIN instructions : IsPush(Opcodes[o]) /\ e = instructions[o].outputs[1]

\* The EVM gets from copy to ret without a jump and with nothing else written to
\* memory, has pushed the numbers both take, and all it returns there has been copied
\* from the code.
ReturnsCopy(copy, ret) ==
    /\ \E k \in ReachedNodes : {copy, ret} \subseteq InstructionsOf(k)
    /\ \A o \in {copy, ret} : \A i \in DOMAIN instructions[o].operands :
          IsPushed(instructions[o].operands[i])
    /\ \A o \in DOMAIN instructions :
          copy < o /\ o < ret => Opcodes[o] \in Known \ MemoryWriters
    /\ EvmOperand(copy, 1) <= EvmOperand(ret, 1)
    /\ EvmOperand(ret, 1) + EvmOperand(ret, 2) <= EvmOperand(copy, 1) + EvmOperand(copy, 3)

\* Byte i of what the EVM then returns; behind the code it reads zeros.
ReturnedByte(copy, ret, i) ==
    LET at == EvmOperand(copy, 2) + EvmOperand(ret, 1) - EvmOperand(copy, 1) + i - 1
    IN  IF at \in DOMAIN code THEN code[at] ELSE 0

\* contract is what the EVM returns, but for zeros read behind the code.
IsReturned(contract, copy, ret) ==
    /\ Len(contract) <= EvmOperand(ret, 2)
    /\ \A i \in 1 .. EvmOperand(ret, 2) :
          ReturnedByte(copy, ret, i) = IF i <= Len(contract) THEN contract[i] ELSE 0

\* The contract found behind a CODECOPY is what the EVM returns.
CreatedIsReturned ==
    [][\A contract \in created' \ created :
          findStatus = "running" /\ ReturnsCopy(copyAt, searchPos)
          => IsReturned(contract, copyAt, searchPos)]_vars

\* It is where memory is returned from where it was copied to, and an int can count
\* the bytes: the code subtracts from the offset in the code what the EVM adds, and
\* narrows it.
CreatedAsReturned ==
    [][\A contract \in created' \ created :
          /\ findStatus = "running" /\ ReturnsCopy(copyAt, searchPos)
          /\ EvmOperand(copyAt, 1) = EvmOperand(searchPos, 1)
          /\ 2 * (EvmOperand(copyAt, 2) + EvmOperand(searchPos, 2)) < Find!IntModulus
          => IsReturned(contract, copyAt, searchPos)]_vars

=============================================================================
