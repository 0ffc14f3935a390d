----------------------------- MODULE StartGraph -----------------------------
(***************************************************************************)
(* Program::startGraph (Program.cc): draws the edges between the nodes     *)
(* initGraph filed, from the instruction each node ends with and the jump  *)
(* targets fillInstructions found to be constant.                          *)
(***************************************************************************)
EXTENDS CFInstruction

VARIABLES
    instructions,       \* offset -> CFInstruction
    nodes,              \* start address -> CFNode, or NoNode for a null pointer
    todo,               \* start addresses still to be visited
    next,               \* the edges, pairs of start addresses
    issues,             \* <<node, target>> of each "Invalid jump"
    startStatus         \* "waiting", "running", "done", or "aborted"

startVars == <<instructions, nodes, todo, next, issues, startStatus>>

Unset == -1

\* The null pointer nodes[k] of a std::map makes when it has no key k.
NoNode == [start |-> Unset, end |-> Unset, idx |-> 0, isJumpDest |-> FALSE]

\* GetNodeExactlyAt.
IsNodeAt(k) == k \in DOMAIN nodes /\ nodes[k] # NoNode

\* CFNode::lastInstruction looks for an instruction from end - 1 downwards.  In
\* the node of a code that is a JUMPDEST alone, end is 0 and end - 1 the largest
\* size_t: nothing bounds the search from above.
Searched(node, o) == node.end = 0 \/ o < node.end

LastOffsets(node) ==
    {o \in DOMAIN instructions :
        /\ node.start <= o /\ Searched(node, o)
        /\ \A p \in DOMAIN instructions : Searched(node, p) => p <= o}

-----------------------------------------------------------------------------

\* todo is filled in ascending order and emptied from its back; nothing is
\* added later, so no node is met twice.
Begin ==
    /\ startStatus = "waiting"
    /\ startStatus' = "running"
    /\ todo' = DOMAIN nodes
    /\ UNCHANGED <<instructions, nodes, next, issues>>

IsBack(k) == k \in todo /\ \A j \in todo : j <= k

FallThroughNoBranch(node, last) ==
    IF IsFallThrough(instructions[last].op) /\ ~IsBranch(instructions[last].op)
    THEN {node.end} ELSE {}

\* The edge to what lies behind the node.  Looking for a node there puts a
\* null pointer into the map when there is none.
FallThrough(node, last) ==
    IF IsFallThrough(instructions[last].op) THEN {node.end} ELSE {}

NodesAfter(node, last) ==
    [k \in DOMAIN nodes \cup FallThrough(node, last) |->
        IF k \in DOMAIN nodes THEN nodes[k] ELSE NoNode]

\* The node a jump goes to, if its address is known and a node starts there.
JumpsTo(last) ==
    LET inst == instructions[last]
    IN  {k \in DOMAIN nodes :
            /\ IsBranch(inst.op)
            /\ IsNodeAt(k)
            /\ AllReadable(<<inst.operands[1]>>)
            /\ GetInt64FromVec(inst.operands[1].value) = k}

JumpAllowedAnyway(k) == TRUE

JumpAllowed(k) == nodes[k].isJumpDest

VisitNode(k) ==
    /\ startStatus = "running"
    /\ IsBack(k)
    /\ \E last \in LastOffsets(nodes[k]) :
        /\ next' = next
              \cup {<<k, n>> : n \in {m \in FallThrough(nodes[k], last) : IsNodeAt(m)}}
              \cup {<<k, n>> : n \in {m \in JumpsTo(last) : JumpAllowed(m)}}
        /\ issues' = issues
              \cup {<<k, n>> : n \in {m \in JumpsTo(last) : ~JumpAllowed(m)}}
        /\ nodes' = NodesAfter(nodes[k], last)
    /\ todo' = todo \ {k}
    /\ UNCHANGED <<instructions, startStatus>>

\* assert(lastInstr) fails for a node without an instruction.
Abort(k) ==
    /\ startStatus = "running"
    /\ IsBack(k)
    /\ LastOffsets(nodes[k]) = {}
    /\ startStatus' = "aborted"
    /\ UNCHANGED <<instructions, nodes, todo, next, issues>>

Return ==
    /\ startStatus = "running"
    /\ todo = {}
    /\ startStatus' = "done"
    /\ UNCHANGED <<instructions, nodes, todo, next, issues>>

Next == Begin \/ (\E k \in todo : VisitNode(k) \/ Abort(k)) \/ Return

=============================================================================
