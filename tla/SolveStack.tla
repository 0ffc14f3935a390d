----------------------------- MODULE SolveStack -----------------------------
(***************************************************************************)
(* Program::solveStack (Program.cc): runs the nodes on the stacks they can *)
(* be entered with, from the entry on, and draws the edges of the jumps    *)
(* whose target turns out to be constant on one of these stacks.           *)
(***************************************************************************)
EXTENDS CFInstruction, FiniteSets, Sequences, Functions, Maps

VARIABLES
    instructions,       \* offset -> CFInstruction
    nodes,              \* start address -> CFNode, or NoNode for a null pointer
    next,               \* the edges, pairs of start addresses
    issues,             \* <<node, target>> of each "Invalid jump"
    worklist,           \* pairs <<node, node it is entered from>>; its back last
    seen,               \* pairs that have been taken
    entryStates,        \* node -> stack -> execution paths that lead to it
    exitStates,         \* node -> stack -> execution paths
    solveIdx,           \* idx of the next output
    solveStatus         \* "waiting", "running", "done", "aborted" or "trapped"

solveVars == <<instructions, nodes, next, issues, worklist, seen, entryStates,
               exitStates, solveIdx, solveStatus>>

NoNode  == [start |-> -1, end |-> -1, idx |-> 0, isJumpDest |-> FALSE]
Nowhere == -1           \* the null pnode the entry is entered from

IsNodeAt(k) == k \in DOMAIN nodes /\ nodes[k] # NoNode

NoStates == [s \in {} |-> <<>>]

StatesOf(m, k) == IF k \in DOMAIN m THEN m[k] ELSE NoStates

PathsOf(states, s) == IF s \in DOMAIN states THEN states[s] ELSE <<>>

-----------------------------------------------------------------------------
(***************************************************************************)
(* The run of a node on one stack.                                         *)
(***************************************************************************)

CodeOf(o) == instructions[o].op

\* The immediate data of a PUSH: fillInstructions has made an output of it.
DataOf(o) == IF IsPush(CodeOf(o)) THEN instructions[o].outputs[1].value ELSE <<>>

OperandsAt(o, state) ==
    Operands(CodeOf(o), state.stack,
             [k \in 1 .. Missing(CodeOf(o), state.stack) |-> state.argumentIdx + k - 1])

\* The jump target an instruction finds on the stack.
Targets(op, operands) ==
    IF IsBranch(op) /\ AllReadable(<<operands[1]>>) THEN {Values(operands)[1]} ELSE {}

After(o, state) ==
    LET op       == CodeOf(o)
        operands == OperandsAt(o, state)
        outputs  == Simplified(op, operands, FreshOutputs(op, DataOf(o), state.globalIdx))
    IN  IF state.trapped \/ (Folds(op, operands) /\ Traps(op, Values(operands)))
        THEN [state EXCEPT !.trapped = TRUE]
        ELSE [stack       |-> Pushed(Rest(op, state.stack), outputs),
              argumentIdx |-> state.argumentIdx + Missing(op, state.stack),
              globalIdx   |-> state.globalIdx + StackAdded(op),
              targets     |-> Targets(op, operands),
              trapped     |-> FALSE]

Passed(o, state) == IF o \in DOMAIN instructions THEN After(o, state) ELSE state

\* The instructions of a node are looked for at one address after the other
\* (CFNode::Instructions), here up to end.
RunUpTo(k, end, state) ==
    LET after[n \in 0 .. (end - nodes[k].start)] ==
            IF n = 0 THEN state ELSE Passed(nodes[k].start + n - 1, after[n - 1])
    IN  after[end - nodes[k].start]

Run(k, state) == RunUpTo(k, nodes[k].end, state)

-----------------------------------------------------------------------------
(***************************************************************************)
(* The run of a node on all the stacks it can be entered with, in the      *)
(* order of std::map<CFStack, ...>; neither the numbering of the arguments *)
(* nor that of the outputs starts afresh between two of them.              *)
(***************************************************************************)

Rank(e) == CASE e.kind = "symbol" -> 0 [] e.kind = "constant" -> 1 [] OTHER -> 2

\* operator< of two std::vectors.
BytesLess(v, w) ==
    \E n \in 0 .. Len(v) :
        /\ n <= Len(w)
        /\ \A i \in 1 .. n : v[i] = w[i]
        /\ IF n = Len(v) THEN n < Len(w) ELSE n < Len(w) /\ v[n + 1] < w[n + 1]

\* CFExpression::operator<.
Less(e, f) ==
    \/ e.idx < f.idx
    \/ /\ e.idx = f.idx
       /\ \/ Rank(e) < Rank(f)
          \/ Rank(e) = Rank(f) /\ BytesLess(e.value, f.value)

Precedes(s, t) ==
    \E n \in 0 .. Len(s) :
        /\ n <= Len(t)
        /\ \A i \in 1 .. n : s[i] = t[i]
        /\ \/ n = Len(s) /\ n < Len(t)
           \/ n < Len(s) /\ n < Len(t) /\ Less(s[n + 1], t[n + 1])

InOrder(S) ==
    {q \in [1 .. Cardinality(S) -> S] :
        /\ \A s \in S : \E i \in DOMAIN q : q[i] = s
        /\ \A i, j \in DOMAIN q : i < j => Precedes(q[i], q[j])}

RunAll(k, stacks) ==
    LET runs[n \in 0 .. Len(stacks)] ==
            IF n = 0
            THEN [stack |-> <<>>, argumentIdx |-> 0, globalIdx |-> solveIdx,
                  targets |-> {}, trapped |-> FALSE]
            ELSE Run(k, [runs[n - 1] EXCEPT !.stack = stacks[n]])
    IN  runs

\* The states a node can be entered with once pnode's states have been handed
\* over: each path is longer by pnode.
HandedOver(k, p) ==
    LET old  == StatesOf(entryStates, k)
        come == IF p = Nowhere THEN [s \in {<<>>} |-> <<<<>>>>]
                ELSE [s \in DOMAIN StatesOf(exitStates, p) |->
                        [i \in 1 .. Len(exitStates[p][s]) |->
                            Append(exitStates[p][s][i], nodes[p].idx)]]
    IN  [s \in DOMAIN old \cup DOMAIN come |-> PathsOf(old, s) \o PathsOf(come, s)]

AddedExitsOfFirst(k, stacks, entries, runs) ==
    LET added[n \in 0 .. Len(stacks)] ==
            IF n = 0 THEN StatesOf(exitStates, k)
            ELSE Store(added[n - 1], runs[n].stack,
                       PathsOf(added[n - 1], runs[n].stack) \o entries[stacks[1]])
    IN  added[Len(stacks)]

\* The paths of the n-th stack are added to those of the stack it ends in.
AddedExits(k, stacks, entries, runs) ==
    LET added[n \in 0 .. Len(stacks)] ==
            IF n = 0 THEN StatesOf(exitStates, k)
            ELSE Store(added[n - 1], runs[n].stack,
                       PathsOf(added[n - 1], runs[n].stack) \o entries[stacks[n]])
    IN  added[Len(stacks)]

-----------------------------------------------------------------------------

Begin ==
    /\ solveStatus = "waiting"
    /\ solveStatus' = IF IsNodeAt(0) THEN "running" ELSE "done"
    /\ worklist' = IF IsNodeAt(0) THEN << <<0, Nowhere>> >> ELSE <<>>
    /\ UNCHANGED <<instructions, nodes, next, issues, seen, entryStates,
                   exitStates, solveIdx>>

Taken == worklist[Len(worklist)]

OthersAndTaken == <<Taken>> \o SubSeq(worklist, 1, Len(worklist) - 1)

Others == SubSeq(worklist, 1, Len(worklist) - 1)

WasSeen == Taken \in seen

Skip ==
    /\ solveStatus = "running"
    /\ worklist # <<>>
    /\ WasSeen
    /\ worklist' = Others
    /\ UNCHANGED <<instructions, nodes, next, issues, seen, entryStates,
                   exitStates, solveIdx, solveStatus>>

\* assert(node->idx == 0) of the node entered from nowhere.
AssertionFails == Taken[2] = Nowhere /\ nodes[Taken[1]].idx # 0

\* The order of a set of shared pointers is that of the heap.
SolveNode ==
    /\ solveStatus = "running"
    /\ worklist # <<>>
    /\ ~WasSeen
    /\ ~AssertionFails
    /\ LET k       == Taken[1]
           entries == HandedOver(k, Taken[2])
       IN  \E stacks \in InOrder(DOMAIN entries) :
           LET runs    == RunAll(k, stacks)
               last    == runs[Len(stacks)]
               targets == {t \in UNION {runs[i].targets : i \in 1 .. Len(stacks)} : IsNodeAt(t)}
           IN  /\ ~last.trapped
               /\ next' = next \cup {<<k, t>> : t \in {u \in targets : nodes[u].isJumpDest}}
               /\ issues' = issues
                     \cup {<<k, t>> : t \in {u \in targets : ~nodes[u].isJumpDest}}
               /\ entryStates' = Store(entryStates, k, entries)
               /\ exitStates' = Store(exitStates, k, AddedExits(k, stacks, entries, runs))
               /\ solveIdx' = last.globalIdx
               /\ LET successors == {t \in DOMAIN nodes : <<k, t>> \in next'}
                  IN  \E order \in Bijection(1 .. Cardinality(successors), successors) :
                         worklist' = Others \o [i \in 1 .. Len(order) |-> <<order[i], k>>]
    /\ seen' = seen \cup {Taken}
    /\ UNCHANGED <<instructions, nodes, solveStatus>>

\* An assertion or a division by zero ends the program.
Die ==
    /\ solveStatus = "running"
    /\ worklist # <<>>
    /\ ~WasSeen
    /\ \/ /\ AssertionFails
          /\ solveStatus' = "aborted"
       \/ /\ ~AssertionFails
          /\ \E stacks \in InOrder(DOMAIN HandedOver(Taken[1], Taken[2])) :
                RunAll(Taken[1], stacks)[Len(stacks)].trapped
          /\ solveStatus' = "trapped"
    /\ UNCHANGED <<instructions, nodes, next, issues, worklist, seen, entryStates,
                   exitStates, solveIdx>>

Return ==
    /\ solveStatus = "running"
    /\ worklist = <<>>
    /\ solveStatus' = "done"
    /\ UNCHANGED <<instructions, nodes, next, issues, worklist, seen, entryStates,
                   exitStates, solveIdx>>

Next == Begin \/ Skip \/ SolveNode \/ Die \/ Return

=============================================================================
