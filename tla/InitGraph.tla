----------------------------- MODULE InitGraph -----------------------------
(***************************************************************************)
(* Program::initGraph (Program.cc): one pass over the instructions in      *)
(* address order that cuts them into control-flow nodes.  The pass keeps   *)
(* the node it is filling in currNode and files it in the map nodes, under *)
(* its start address, when a branch, a stop or a JUMPDEST ends it.         *)
(***************************************************************************)
EXTENDS InstructionStream, Maps

CONSTANT Streams        \* instruction maps the pass may be given

Unset == -1             \* (size_t)-1, "no start address yet"

VARIABLES
    instructions,       \* offset of an instruction -> its opcode
    remaining,          \* offsets the loop over instructions has not visited
    currNode,           \* the CFNode being filled
    idx,                \* the label the next CFNode gets
    nodes,              \* start address -> filed CFNode
    built               \* initGraph has returned

graphVars == <<instructions, remaining, currNode, idx, nodes, built>>

ASSUME StreamsAssumption == \A s \in Streams : IsStream(s)

CFNode == [start : Nat \cup {Unset}, end : Nat \cup {Unset},
           idx : Nat, isJumpDest : BOOLEAN]

TypeOK ==
    /\ IsStream(instructions)
    /\ remaining \in SUBSET DOMAIN instructions
    /\ currNode \in CFNode
    /\ idx \in Nat
    /\ DOMAIN nodes \in SUBSET Nat
    /\ \A s \in DOMAIN nodes : nodes[s] \in CFNode
    /\ built \in BOOLEAN

-----------------------------------------------------------------------------

\* A default-constructed CFNode starts and ends at 0; only the nodes made
\* after the first one begin with the start address unset.
Init ==
    /\ instructions \in Streams
    /\ remaining = DOMAIN instructions
    /\ currNode = [start |-> 0, end |-> 0, idx |-> 0, isJumpDest |-> FALSE]
    /\ idx = 1
    /\ nodes = [s \in {} |-> currNode]
    /\ built = FALSE

\* std::map iterates its keys in ascending order.
IsNext(o) == o \in remaining /\ \A p \in remaining : o <= p

\* The first lines of the loop body: every instruction opens the node if it
\* is not open and moves its end behind itself.
ExtendedNotOpened(o) ==
    [currNode EXCEPT !.end = EndOf(instructions, o)]

Extended(o) ==
    [start      |-> IF currNode.start = Unset THEN o ELSE currNode.start,
     end        |-> EndOf(instructions, o),
     idx        |-> currNode.idx,
     isJumpDest |-> currNode.isJumpDest]

EndsNodeAtStopOnly(o) == IsStop(instructions[o])

EndsNode(o) == IsBranch(instructions[o]) \/ IsStop(instructions[o])

NextIdx == idx + 1

\* The node a branch or a stop leaves behind: not open.
FreshNodeAtZero ==
    [start |-> 0, end |-> 0, idx |-> idx, isJumpDest |-> FALSE]

FreshNode ==
    [start |-> Unset, end |-> Unset, idx |-> idx, isJumpDest |-> FALSE]

\* The node a JUMPDEST at o opens.
JumpDestNodeUnnumbered(o) ==
    [start |-> o, end |-> o, idx |-> 0, isJumpDest |-> TRUE]

JumpDestNode(o) ==
    [start |-> o, end |-> o, idx |-> idx, isJumpDest |-> TRUE]

\* The node in front of a JUMPDEST: its end is moved back over the JUMPDEST.
BeforeJumpDestInclusive(node) == node

BeforeJumpDest(node) == [node EXCEPT !.end = node.end - 1]

\* What the flush after the loop takes for a node worth filing.
IsOpenOffByOne(node) == node.start # Unset /\ node.end # node.start + 1

IsOpenIfStarted(node) == node.start # Unset

IsOpen(node) == node.start # Unset /\ node.end # node.start

\* A branch or a stop files the node and leaves none open.
CloseNode(o) ==
    LET node == Extended(o)
    IN  /\ IsNext(o)
        /\ EndsNode(o)
        /\ nodes' = Store(nodes, node.start, node)
        /\ currNode' = FreshNode
        /\ idx' = NextIdx
        /\ remaining' = remaining \ {o}
        /\ UNCHANGED <<instructions, built>>

\* A JUMPDEST files what came before it and opens a node of its own.  The end
\* has already been moved behind the JUMPDEST when the loop tests for an empty
\* node, so a node with nothing before the JUMPDEST is filed as well, empty.
SplitNode(o) ==
    LET node    == Extended(o)
        isEmpty == node.end - node.start = 0
    IN  /\ IsNext(o)
        /\ ~EndsNode(o)
        /\ instructions[o] = OP_JUMPDEST
        /\ nodes' = IF isEmpty THEN nodes
                    ELSE Store(nodes, node.start, BeforeJumpDest(node))
        /\ currNode' = IF isEmpty THEN [node EXCEPT !.isJumpDest = TRUE]
                       ELSE JumpDestNode(o)
        /\ idx' = IF isEmpty THEN idx ELSE NextIdx
        /\ remaining' = remaining \ {o}
        /\ UNCHANGED <<instructions, built>>

\* Any other instruction only extends the node.
ExtendNode(o) ==
    /\ IsNext(o)
    /\ ~EndsNode(o)
    /\ instructions[o] # OP_JUMPDEST
    /\ currNode' = Extended(o)
    /\ remaining' = remaining \ {o}
    /\ UNCHANGED <<instructions, idx, nodes, built>>

FlushNode ==
    /\ remaining = {}
    /\ ~built
    /\ nodes' = IF IsOpen(currNode)
                THEN Store(nodes, currNode.start, currNode)
                ELSE nodes
    /\ built' = TRUE
    /\ UNCHANGED <<instructions, remaining, currNode, idx>>

Visit(o) == CloseNode(o) \/ SplitNode(o) \/ ExtendNode(o)

Next == (\E o \in remaining : Visit(o)) \/ FlushNode

Spec == Init /\ [][Next]_graphVars

\* The loop is straight-line code: it keeps running until it is done.
FairSpec == Spec /\ WF_graphVars(Next)

-----------------------------------------------------------------------------

Filed(s) == nodes[s].start .. (nodes[s].end - 1)

\* No instruction belongs to two nodes, and a node filed later never reaches
\* into one filed earlier, at any moment of the pass: CFNode::Instructions
\* walks the addresses from start to end, so an overlap would make the same
\* instruction execute in two blocks.
NodesDisjoint ==
    \A s, t \in DOMAIN nodes : s < t => nodes[s].end <= t

\* When the pass returns, every instruction lies in a node, except a JUMPDEST
\* that is the last instruction of the program: its node has end = start when
\* the loop ends and the flush drops it.
Covered ==
    built =>
        \A o \in DOMAIN instructions :
            \/ \E s \in DOMAIN nodes : o \in Filed(s)
            \/ /\ instructions[o] = OP_JUMPDEST
               /\ \A p \in DOMAIN instructions : p <= o

\* Inside a node control only moves forward: nothing but its last instruction
\* branches or stops, and nothing but its first one is a jump target.
StraightLine ==
    \A s \in DOMAIN nodes : \A o \in Filed(s) \cap DOMAIN instructions :
        /\ IsBranch(instructions[o]) \/ IsStop(instructions[o]) =>
              EndOf(instructions, o) = nodes[s].end
        /\ instructions[o] = OP_JUMPDEST => o = s

\* startGraph and solveStack draw an edge to the target of a jump exactly if
\* its node is flagged: the flag must say whether the node starts with a
\* JUMPDEST, for every node that holds an instruction.
FlagMatchesCode ==
    \A s \in DOMAIN nodes :
        nodes[s].end > s =>
            (nodes[s].isJumpDest <=> instructions[s] = OP_JUMPDEST)

\* The labels "node_<idx>" the reports print name one node each.
LabelsUnique ==
    \A s, t \in DOMAIN nodes : nodes[s].idx = nodes[t].idx => s = t

\* A node that is filed stays filed, and only an empty one is ever replaced:
\* the map is keyed by start address, and the node a JUMPDEST opens has the
\* same key as the empty one filed just before it.
OnlyEmptyReplaced ==
    [][\A s \in DOMAIN nodes :
          /\ s \in DOMAIN nodes'
          /\ nodes[s].end > s => nodes'[s] = nodes[s]]_graphVars

-----------------------------------------------------------------------------
(***************************************************************************)
(* The nodes that hold an instruction are the basic blocks of the stream,  *)
(* closed in address order.                                                *)
(***************************************************************************)

Blocks == {[start |-> nodes[s].start, end |-> nodes[s].end] :
              s \in {t \in DOMAIN nodes : nodes[t].end > nodes[t].start}}

Abstract ==
    INSTANCE BasicBlocks WITH
        stream <- instructions,
        blocks <- Blocks,
        BlockEnders <- {op \in Byte : IsBranch(op) \/ IsStop(op)},
        KeepsTail <- FALSE

ImplementsBasicBlocks == Abstract!Spec

=============================================================================
