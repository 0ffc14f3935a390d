---------------------------- MODULE Reachability ----------------------------
(***************************************************************************)
(* CFNode::AddNext and CFNode::IsReachable (CFNode.cc): the control-flow   *)
(* graph is built edge by edge, and then asked, node by node, which nodes  *)
(* can be reached from the entry.  IsReachable is a depth-first search     *)
(* backwards over the prev sets that remembers its answers in two flags of *)
(* each node, so the answer of one call depends on the calls before it.    *)
(* The recursion is modelled call by call, with an explicit call stack.    *)
(***************************************************************************)
EXTENDS Integers, Sequences, FiniteSets

CONSTANTS
    Node,               \* the nodes, numbers in the order of their addresses
    MaxEdges,           \* bound: edges AddNext may draw
    MaxQueries          \* bound: queries after the first pass over the nodes

Entry == 0              \* the node with idx == 0

ASSUME NodeAssumption ==
    Node \in SUBSET Nat /\ Entry \in Node /\ MaxEdges \in Nat /\ MaxQueries \in Nat

NoNode == -1

VARIABLES
    prev,               \* predecessors of each node; next is the inverse
    rank,               \* heap address of each node: the order of a prev set
    isReachable,        \* CFNode::isReachable
    isReachableStale,   \* CFNode::isReachableStale
    stack,              \* active calls: a node and the prev nodes it has
                        \* still to ask
    answer,             \* value of the call that has just returned, or "none"
    asking,             \* the node the outermost call is about, or NoNode
    verdict,            \* the last answer each node's caller got, or "none"
    extraQueries        \* queries made after the first pass

reachVars ==
    <<prev, rank, isReachable, isReachableStale, stack, answer, asking,
      verdict, extraQueries>>

graph == <<prev, rank>>

Answer == {"yes", "no", "none"}

TypeOK ==
    /\ prev \in [Node -> SUBSET Node]
    /\ rank \in [Node -> Nat]
    /\ isReachable \in [Node -> BOOLEAN]
    /\ isReachableStale \in [Node -> BOOLEAN]
    /\ stack \in Seq([node : Node, left : SUBSET Node])
    /\ \A i \in 1 .. Len(stack) : stack[i].left \subseteq prev[stack[i].node]
    /\ answer \in Answer
    /\ asking \in Node \cup {NoNode}
    /\ verdict \in [Node -> Answer]
    /\ extraQueries \in Nat

-----------------------------------------------------------------------------

\* No two nodes share an address.
Rankings == {r \in [Node -> Node] : \A m, n \in Node : r[m] = r[n] => m = n}

Init ==
    /\ prev = [n \in Node |-> {}]
    /\ rank \in Rankings
    /\ isReachable = [n \in Node |-> FALSE]
    /\ isReachableStale = [n \in Node |-> TRUE]
    /\ stack = <<>>
    /\ answer = "none"
    /\ asking = NoNode
    /\ verdict = [n \in Node |-> "none"]
    /\ extraQueries = 0

Asked == {n \in Node : verdict[n] # "none"}

\* startGraph and solveStack draw every edge before the first query.  No edge
\* leads to the entry: a node labelled 0 has no JUMPDEST, and being the first
\* node nothing falls through to it.
AddNext(p, n) ==
    /\ asking = NoNode /\ Asked = {}
    /\ n # Entry
    /\ p \notin prev[n]
    /\ Cardinality({e \in Node \X Node : e[1] \in prev[e[2]]}) < MaxEdges
    /\ prev' = [prev EXCEPT ![n] = @ \cup {p}]
    /\ isReachableStale' = [isReachableStale EXCEPT ![n] = TRUE]
    /\ UNCHANGED <<rank, isReachable, stack, answer, asking, verdict, extraQueries>>

-----------------------------------------------------------------------------

IsKnownAtRoots(n) == isReachable[n] \/ prev[n] = {}

IsKnown(n) == isReachable[n] \/ n = Entry

FrameForward(n) == [node |-> n, left |-> {m \in Node : n \in prev[m]}]

Frame(n) == [node |-> n, left |-> prev[n]]

StaleAfterCallKept(n) == isReachableStale

\* The flag is cleared before the predecessors are asked, so a call that comes
\* back to a node still being answered finds it not stale and not reachable.
StaleAfterCall(n) == [isReachableStale EXCEPT ![n] = FALSE]

\* A call of IsReachable on n, with the calls in below active: answered at once
\* or put on the stack.
CallAnswered(n, below) ==
    /\ IsKnown(n) \/ ~isReachableStale[n]
    /\ answer' = IF IsKnown(n) THEN "yes" ELSE "no"
    /\ stack' = below
    /\ UNCHANGED isReachableStale

CallSearches(n, below) ==
    /\ ~IsKnown(n) /\ isReachableStale[n]
    /\ answer' = "none"
    /\ stack' = Append(below, Frame(n))
    /\ isReachableStale' = StaleAfterCall(n)

\* findCreatedContracts asks every node once, in the order of the nodes map;
\* the audit and the reports that follow ask again.
MayAsk(n) ==
    IF Asked # Node
    THEN n \notin Asked /\ \A m \in Node \ Asked : n <= m
    ELSE extraQueries < MaxQueries

Query(n) ==
    /\ asking = NoNode
    /\ MayAsk(n)
    /\ asking' = n
    /\ extraQueries' = IF Asked # Node THEN extraQueries ELSE extraQueries + 1
    /\ CallAnswered(n, <<>>) \/ CallSearches(n, <<>>)
    /\ UNCHANGED <<graph, isReachable, verdict>>

Top == stack[Len(stack)]

Below == SubSeq(stack, 1, Len(stack) - 1)

LeftAfterDropsAll(p) == {}

LeftAfterKeepsAll(p) == Top.left

LeftAfter(p) == Top.left \ {p}

\* The loop over PrevNodes asks the next predecessor, in address order.
AskPrev(p) ==
    LET frames == Append(Below, [Top EXCEPT !.left = LeftAfter(p)])
    IN  /\ stack # <<>> /\ answer # "yes"
        /\ p \in Top.left
        /\ \A q \in Top.left : rank[p] <= rank[q]
        /\ CallAnswered(p, frames) \/ CallSearches(p, frames)
        /\ UNCHANGED <<graph, isReachable, asking, verdict, extraQueries>>

MarkedOutermost == stack[1].node

Marked == Top.node

ForgottenYes == isReachable

RememberedYes == [isReachable EXCEPT ![Marked] = TRUE]

\* A predecessor is reachable: return isReachable = true.
Found ==
    /\ stack # <<>> /\ answer = "yes"
    /\ isReachable' = RememberedYes
    /\ stack' = Below
    /\ UNCHANGED <<graph, isReachableStale, answer, asking, verdict, extraQueries>>

\* No predecessor is: return false.  The "no" stays: the flag that would make the
\* next call search again is left cleared.
GiveUp ==
    /\ stack # <<>> /\ answer # "yes"
    /\ Top.left = {}
    /\ answer' = "no"
    /\ stack' = Below
    /\ UNCHANGED <<graph, isReachable, isReachableStale, asking, verdict, extraQueries>>

\* The outermost call returns to the pass that made it.
Deliver ==
    /\ stack = <<>> /\ asking # NoNode
    /\ verdict' = [verdict EXCEPT ![asking] = answer]
    /\ asking' = NoNode
    /\ answer' = "none"
    /\ UNCHANGED <<graph, isReachable, isReachableStale, stack, extraQueries>>

Search == (\E p \in Node : AskPrev(p)) \/ Found \/ GiveUp \/ Deliver

Next ==
    \/ \E p, n \in Node : AddNext(p, n)
    \/ \E n \in Node : Query(n)
    \/ Search

Spec == Init /\ [][Next]_reachVars

\* A call of IsReachable runs to its end once it is made; nothing obliges the
\* program to make another.
FairSpec == Spec /\ WF_reachVars(Search)

-----------------------------------------------------------------------------

\* S holds the entry and with a node everything an edge leads to.
ClosedFrom(S, seeds) ==
    seeds \subseteq S /\ \A n \in Node : prev[n] \cap S # {} => n \in S

\* What can be reached from the nodes in seeds.
Closure(seeds) ==
    {n \in Node : \A S \in SUBSET Node : ClosedFrom(S, seeds) => n \in S}

OnCycle(n) == n \in Closure({m \in Node : n \in prev[m]})

\* A node that is called reachable is reachable, whatever calls came before:
\* it is in every set of nodes that holds the entry and is closed under edges.
Sound ==
    \A S \in SUBSET Node :
        ClosedFrom(S, {Entry}) =>
            \A n \in Node : verdict[n] = "yes" \/ isReachable[n] => n \in S

\* A node remembered as reachable has a predecessor that is: the list "Reachable
\* from" that the report prints for it is never made of unreachable nodes only.
Witnessed ==
    \A n \in Node :
        isReachable[n] => \E p \in prev[n] : isReachable[p] \/ p = Entry

\* The recursion never enters a node it is still answering: its depth is at
\* most the number of nodes, on cyclic graphs too.
NoReentry ==
    \A i, j \in 1 .. Len(stack) : stack[i].node = stack[j].node => i = j

\* A reachable node is denied only if it can be reached from a cycle: the
\* cache is wrong for nothing else.
CompleteBeforeCycles ==
    \A n \in Node :
        verdict[n] = "no" /\ n \in Closure({Entry}) =>
            \E c \in Node : OnCycle(c) /\ (n = c \/ n \in Closure({c}))

\* The passes agree: findCreatedContracts, the audit and the reports get the
\* same answer for a node, whichever nodes were asked in between.
VerdictsStable ==
    [][\A n \in Node : verdict[n] # "none" => verdict'[n] = verdict[n]]_reachVars

\* Every query is answered.
QueriesReturn == asking # NoNode ~> asking = NoNode

\* DisassemReport labels a node "/* Unreachable*/" (Program.cc:474), and
\* findCreatedContracts and the audit skip it, when IsReachable says no.
DeniedIsUnreachable ==
    \A n \in Node : verdict[n] = "no" => n \notin Closure({Entry})

=============================================================================
