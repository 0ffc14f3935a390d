-------------------------- MODULE InitGraphProofs --------------------------
(***************************************************************************)
(* Proofs about InitGraph, for every set of instruction streams: the nodes *)
(* the pass leaves, that the pass implements BasicBlocks, and what         *)
(* startGraph may rely on at its end (Handed).                             *)
(***************************************************************************)
EXTENDS InitGraph, WellFoundedInduction, TLAPS

Visited == DOMAIN instructions \ remaining

IsOpenNow == currNode.start # Unset

(***************************************************************************)
(* The inductive invariant, in layers.  Layout: nodes are filed under      *)
(* their start, end in front of the next key, and the open node and the    *)
(* instructions still to come lie behind all of them.                      *)
(***************************************************************************)
Ordered == \A o \in Visited, p \in remaining : o < p

FiledByStart == \A s \in DOMAIN nodes : nodes[s].start = s /\ s <= nodes[s].end

OpenBehindFiled ==
    IsOpenNow /\ ~built =>
        /\ currNode.end \in Nat
        /\ currNode.start <= currNode.end
        /\ \A s \in DOMAIN nodes : s <= currNode.start /\ nodes[s].end <= currNode.start
        /\ \A p \in remaining : currNode.end <= p

RestBehindFiled ==
    ~IsOpenNow => \A s \in DOMAIN nodes, p \in remaining : nodes[s].end <= p

Layout ==
    /\ TypeOK
    /\ Ordered
    /\ FiledByStart
    /\ NodesDisjoint
    /\ OpenBehindFiled
    /\ RestBehindFiled
    /\ built => remaining = {}

-----------------------------------------------------------------------------

\* Immediate data is never negative in length, and a JUMPDEST has none.
LEMMA LengthType ==
    \A op \in Byte : Length(op) \in Nat
BY DEF Byte, Length, IsPush, OP_PUSH1, OP_PUSH32

LEMMA JumpDestLength == Length(OP_JUMPDEST) = 0
BY DEF Length, IsPush, OP_PUSH1, OP_PUSH32, OP_JUMPDEST

\* An instruction ends behind itself, at or in front of the one after it.
LEMMA EndOfBounds ==
    ASSUME NEW s, IsStream(s), NEW o \in DOMAIN s
    PROVE  /\ o \in Nat
           /\ EndOf(s, o) \in Nat
           /\ o < EndOf(s, o)
           /\ \A p \in DOMAIN s : o < p => EndOf(s, o) <= p
           /\ s[o] = OP_JUMPDEST => EndOf(s, o) = o + 1
BY LengthType, JumpDestLength DEF IsStream, EndOf

\* The instruction the loop visits lies in front of the others to come, and
\* so does its end.
LEMMA NextFacts ==
    ASSUME Layout, NEW o, IsNext(o)
    PROVE  /\ o \in DOMAIN instructions
           /\ o \in Nat
           /\ EndOf(instructions, o) \in Nat
           /\ o < EndOf(instructions, o)
           /\ instructions[o] = OP_JUMPDEST => EndOf(instructions, o) = o + 1
           /\ \A p \in remaining \ {o} : o < p /\ EndOf(instructions, o) <= p
<1>1. IsStream(instructions) /\ remaining \in SUBSET DOMAIN instructions
  BY DEF Layout, TypeOK
<1>2. o \in DOMAIN instructions /\ \A p \in remaining : o <= p
  BY <1>1 DEF IsNext
<1>3. \A p \in remaining : p \in Nat
  BY <1>1, EndOfBounds
<1>4. /\ o \in Nat
      /\ EndOf(instructions, o) \in Nat
      /\ o < EndOf(instructions, o)
      /\ \A p \in DOMAIN instructions : o < p => EndOf(instructions, o) <= p
      /\ instructions[o] = OP_JUMPDEST => EndOf(instructions, o) = o + 1
  BY <1>1, <1>2, EndOfBounds
<1>5. \A p \in remaining \ {o} : o < p
  BY <1>2, <1>3, <1>4
<1>. QED  BY <1>1, <1>2, <1>4, <1>5

\* Where the node that instruction o extends starts and ends.
LEMMA ExtendedFacts ==
    ASSUME Layout, ~built, NEW o, IsNext(o)
    PROVE  LET n == Extended(o)
           IN  /\ n \in CFNode
               /\ n.start \in Nat
               /\ n.start = IF IsOpenNow THEN currNode.start ELSE o
               /\ n.start <= o
               /\ n.end = EndOf(instructions, o)
               /\ n.idx = currNode.idx
               /\ n.isJumpDest = currNode.isJumpDest
               /\ \A s \in DOMAIN nodes : nodes[s].end <= n.start
               /\ n.start \in DOMAIN nodes => nodes[n.start].end = n.start
<1>1. /\ o \in Nat /\ EndOf(instructions, o) \in Nat /\ o \in remaining
  BY NextFacts DEF IsNext
<1>2. currNode \in CFNode
  BY DEF Layout, TypeOK
<1>3. \A s \in DOMAIN nodes :
          s \in Nat /\ nodes[s] \in CFNode /\ nodes[s].start = s /\ s <= nodes[s].end
  BY DEF Layout, TypeOK, FiledByStart
<1> DEFINE start == IF IsOpenNow THEN currNode.start ELSE o
<1>4. Extended(o) = [start |-> start, end |-> EndOf(instructions, o),
                     idx |-> currNode.idx, isJumpDest |-> currNode.isJumpDest]
  BY DEF Extended, IsOpenNow
<1>5. /\ start \in Nat /\ start <= o
      /\ \A s \in DOMAIN nodes : nodes[s].end <= start
  <2>1. CASE IsOpenNow
    BY <1>1, <1>2, <2>1 DEF Layout, OpenBehindFiled, IsOpenNow, CFNode
  <2>2. CASE ~IsOpenNow
    BY <1>1, <2>2 DEF Layout, RestBehindFiled
  <2>. QED  BY <2>1, <2>2
<1>6. start \in DOMAIN nodes => nodes[start].end = start
  <2>. SUFFICES ASSUME start \in DOMAIN nodes
                PROVE  nodes[start].end = start
    OBVIOUS
  <2>1. nodes[start].end \in Nat \cup {Unset} /\ start <= nodes[start].end
    BY <1>3, <1>5 DEF CFNode
  <2>2. nodes[start].end <= start
    BY <1>5
  <2>. QED  BY <1>5, <2>1, <2>2 DEF Unset
<1>. HIDE DEF start
<1>7. [start |-> start, end |-> EndOf(instructions, o),
       idx |-> currNode.idx, isJumpDest |-> currNode.isJumpDest] \in CFNode
  BY <1>1, <1>2, <1>5 DEF CFNode
<1>8. start = IF IsOpenNow THEN currNode.start ELSE o
  BY DEF start
<1>. QED  BY <1>4, <1>5, <1>6, <1>7, <1>8

\* Filing a node behind all others keeps the map in order.
LEMMA FilingKeepsOrder ==
    ASSUME Layout, NEW k \in Nat, NEW v \in CFNode,
           v.start = k, k <= v.end,
           \A s \in DOMAIN nodes : nodes[s].end <= k,
           nodes' = Store(nodes, k, v)
    PROVE  /\ DOMAIN nodes' \in SUBSET Nat
           /\ \A s \in DOMAIN nodes' : nodes'[s] \in CFNode
           /\ FiledByStart'
           /\ NodesDisjoint'
           /\ \A s \in DOMAIN nodes' : s <= k /\ nodes'[s].end <= v.end
<1>1. /\ DOMAIN nodes' = DOMAIN nodes \cup {k}
      /\ nodes'[k] = v
      /\ \A s \in DOMAIN nodes : s # k => nodes'[s] = nodes[s]
  BY DEF Store
<1>2. \A s \in DOMAIN nodes :
          /\ s \in Nat /\ nodes[s] \in CFNode
          /\ nodes[s].start = s /\ s <= nodes[s].end /\ nodes[s].end <= k
  BY DEF Layout, TypeOK, FiledByStart
<1>3. \A s \in DOMAIN nodes : nodes[s].end \in Nat /\ s <= k
  BY <1>2 DEF CFNode, Unset
<1>4. \A s \in DOMAIN nodes' :
          s \in Nat /\ nodes'[s] \in CFNode /\ nodes'[s].start = s /\ s <= nodes'[s].end
  BY <1>1, <1>2
<1>5. v.end \in Nat
  BY DEF CFNode, Unset
<1>6. \A s \in DOMAIN nodes' : s <= k /\ nodes'[s].end <= v.end
  BY <1>1, <1>2, <1>3, <1>5
<1>7. NodesDisjoint'
  <2>. SUFFICES ASSUME NEW s \in DOMAIN nodes', NEW t \in DOMAIN nodes', s < t
                PROVE  nodes'[s].end <= t
    BY DEF NodesDisjoint
  <2>1. s # k /\ s \in DOMAIN nodes
    BY <1>1, <1>3, <1>4
  <2>2. CASE t = k
    BY <1>1, <1>2, <2>1, <2>2
  <2>3. CASE t # k
    BY <1>1, <2>1, <2>3 DEF Layout, NodesDisjoint
  <2>. QED  BY <2>2, <2>3
<1>. QED  BY <1>1, <1>4, <1>6, <1>7 DEF FiledByStart

LEMMA LayoutInit == Init => Layout
<1>. SUFFICES ASSUME Init PROVE Layout
  OBVIOUS
<1>. USE DEF Init
<1>1. IsStream(instructions)
  BY StreamsAssumption
<1>2. \A p \in remaining : p \in Nat
  BY <1>1, EndOfBounds
<1>3. DOMAIN nodes = {} /\ currNode \in CFNode /\ Visited = {}
  BY DEF CFNode, Visited
<1>4. TypeOK
  BY <1>1, <1>3 DEF TypeOK
<1>5. OpenBehindFiled /\ RestBehindFiled
  BY <1>2, <1>3 DEF OpenBehindFiled, RestBehindFiled
<1>. QED
  BY <1>3, <1>4, <1>5 DEF Layout, Ordered, FiledByStart, NodesDisjoint

LEMMA LayoutNext == Layout /\ [Next]_graphVars => Layout'
<1>. SUFFICES ASSUME Layout, [Next]_graphVars
              PROVE  Layout'
  OBVIOUS
<1>1. /\ IsStream(instructions) /\ remaining \in SUBSET DOMAIN instructions
      /\ currNode \in CFNode /\ idx \in Nat /\ built \in BOOLEAN
      /\ built => remaining = {}
  BY DEF Layout, TypeOK
<1>2. ASSUME NEW o \in remaining, Visit(o)
      PROVE  Layout'
  <2> DEFINE node == Extended(o)
  <2>1. IsNext(o) /\ ~built /\ o \in Nat /\ o \in DOMAIN instructions
    <3>1. IsNext(o)
      BY <1>2 DEF Visit, CloseNode, SplitNode, ExtendNode
    <3>. QED  BY <1>1, <1>2, <3>1, NextFacts
  <2>2. /\ instructions' = instructions /\ built' = built
        /\ remaining' = remaining \ {o}
    BY <1>2 DEF Visit, CloseNode, SplitNode, ExtendNode
  <2>3. /\ node \in CFNode /\ node.start \in Nat /\ node.start <= o
        /\ node.end = EndOf(instructions, o) /\ node.idx = currNode.idx
        /\ \A s \in DOMAIN nodes : nodes[s].end <= node.start
    BY <2>1, ExtendedFacts
  <2>4. /\ EndOf(instructions, o) \in Nat /\ o < EndOf(instructions, o)
        /\ instructions[o] = OP_JUMPDEST => EndOf(instructions, o) = o + 1
        /\ \A p \in remaining' :
              p \in Nat /\ o < p /\ EndOf(instructions, o) <= p
    BY <1>1, <2>1, <2>2, NextFacts, EndOfBounds
  <2>5. Ordered'
    BY <2>1, <2>2, <2>4 DEF Ordered, Visited, Layout
  <2>. HIDE DEF node
  <2>6. CASE CloseNode(o)
    <3>1. nodes' = Store(nodes, node.start, node) /\ currNode' = FreshNode /\ idx' = idx + 1
      BY <2>6 DEF CloseNode, NextIdx, node
    <3>2. /\ DOMAIN nodes' \in SUBSET Nat
          /\ \A s \in DOMAIN nodes' : nodes'[s] \in CFNode
          /\ FiledByStart' /\ NodesDisjoint'
          /\ \A s \in DOMAIN nodes' : s <= node.start /\ nodes'[s].end <= node.end
      BY <2>1, <2>3, <2>4, <3>1, FilingKeepsOrder
    <3>3. currNode' \in CFNode /\ ~IsOpenNow'
      BY <1>1, <3>1 DEF FreshNode, CFNode, IsOpenNow
    <3>4. TypeOK'
      BY <1>1, <2>2, <3>1, <3>2, <3>3 DEF TypeOK
    <3>5. RestBehindFiled'
      <4>. SUFFICES ASSUME NEW s \in DOMAIN nodes', NEW p \in remaining'
                    PROVE  nodes'[s].end <= p
        BY DEF RestBehindFiled
      <4>1. nodes'[s].end \in Nat \cup {-1} /\ nodes'[s].end <= EndOf(instructions, o)
        BY <2>3, <3>2 DEF CFNode, Unset
      <4>. QED  BY <2>4, <4>1
    <3>. QED  BY <2>1, <2>2, <2>5, <3>2, <3>3, <3>4, <3>5 DEF Layout, OpenBehindFiled
  <2>7. CASE SplitNode(o)
    <3>1. instructions[o] = OP_JUMPDEST /\ node.end = o + 1 /\ node.end - node.start # 0
      BY <2>1, <2>3, <2>4, <2>7 DEF SplitNode
    <3> DEFINE before == [node EXCEPT !.end = node.end - 1]
    <3>2. /\ nodes' = Store(nodes, node.start, before)
          /\ currNode' = JumpDestNode(o) /\ idx' = idx + 1
      BY <2>7, <3>1 DEF SplitNode, BeforeJumpDest, NextIdx, node
    <3>3. before \in CFNode /\ before.start = node.start /\ before.end = o
      BY <2>1, <2>3, <3>1 DEF CFNode
    <3>. HIDE DEF before
    <3>4. /\ DOMAIN nodes' \in SUBSET Nat
          /\ \A s \in DOMAIN nodes' : nodes'[s] \in CFNode
          /\ FiledByStart' /\ NodesDisjoint'
          /\ \A s \in DOMAIN nodes' : s <= node.start /\ nodes'[s].end <= o
      BY <2>3, <3>2, <3>3, FilingKeepsOrder
    <3>5. currNode' \in CFNode /\ currNode'.start = o /\ currNode'.end = o /\ IsOpenNow'
      BY <1>1, <2>1, <3>2 DEF JumpDestNode, CFNode, IsOpenNow, Unset
    <3>6. TypeOK'
      BY <1>1, <2>2, <3>2, <3>4, <3>5 DEF TypeOK
    <3>7. \A s \in DOMAIN nodes' : s <= o
      BY <2>1, <2>3, <3>4
    <3>8. OpenBehindFiled'
      BY <2>1, <2>4, <3>4, <3>5, <3>7 DEF OpenBehindFiled
    <3>. QED  BY <2>1, <2>2, <2>5, <3>4, <3>5, <3>6, <3>8 DEF Layout, RestBehindFiled
  <2>8. CASE ExtendNode(o)
    <3>1. nodes' = nodes /\ currNode' = node /\ idx' = idx
      BY <2>8 DEF ExtendNode, node
    <3>2. TypeOK' /\ FiledByStart' /\ NodesDisjoint'
      BY <1>1, <2>2, <2>3, <3>1 DEF TypeOK, Layout, FiledByStart, NodesDisjoint
    <3>3. IsOpenNow'
      BY <2>3, <3>1 DEF IsOpenNow, Unset
    <3>4. \A s \in DOMAIN nodes : s <= node.start
      <4>1. \A s \in DOMAIN nodes : /\ s \in Nat /\ nodes[s] \in CFNode
                                    /\ s <= nodes[s].end
        BY DEF Layout, TypeOK, FiledByStart
      <4>. QED  BY <2>3, <4>1 DEF CFNode, Unset
    <3>5. OpenBehindFiled'
      BY <2>1, <2>3, <2>4, <3>1, <3>4 DEF OpenBehindFiled
    <3>. QED  BY <2>1, <2>2, <2>5, <3>2, <3>3, <3>5 DEF Layout, RestBehindFiled
  <2>. QED  BY <1>2, <2>6, <2>7, <2>8 DEF Visit
<1>3. CASE FlushNode
  <2>1. /\ remaining = {} /\ remaining' = {} /\ ~built /\ built'
        /\ instructions' = instructions /\ currNode' = currNode /\ idx' = idx
    BY <1>3 DEF FlushNode
  <2>2. CASE IsOpen(currNode)
    <3>1. nodes' = Store(nodes, currNode.start, currNode)
      BY <1>3, <2>2 DEF FlushNode
    <3>2. /\ currNode.start \in Nat /\ currNode.start <= currNode.end
          /\ \A s \in DOMAIN nodes : nodes[s].end <= currNode.start
      BY <1>1, <2>1, <2>2 DEF IsOpen, IsOpenNow, Layout, OpenBehindFiled, CFNode
    <3>3. /\ DOMAIN nodes' \in SUBSET Nat
          /\ \A s \in DOMAIN nodes' : nodes'[s] \in CFNode
          /\ FiledByStart' /\ NodesDisjoint'
      BY <1>1, <3>1, <3>2, FilingKeepsOrder
    <3>4. TypeOK'
      BY <1>1, <2>1, <3>3 DEF TypeOK
    <3>. QED
      BY <2>1, <3>3, <3>4 DEF Layout, Ordered, OpenBehindFiled, RestBehindFiled
  <2>3. CASE ~IsOpen(currNode)
    <3>1. nodes' = nodes
      BY <1>3, <2>3 DEF FlushNode
    <3>. QED
      BY <2>1, <3>1 DEF Layout, TypeOK, Ordered, FiledByStart, NodesDisjoint,
                        OpenBehindFiled, RestBehindFiled
  <2>. QED  BY <2>2, <2>3
<1>4. CASE UNCHANGED graphVars
  BY <1>4 DEF graphVars, Layout, TypeOK, Ordered, Visited, FiledByStart,
              NodesDisjoint, OpenBehindFiled, RestBehindFiled, IsOpenNow
<1>. QED  BY <1>2, <1>3, <1>4 DEF Next

-----------------------------------------------------------------------------
(***************************************************************************)
(* Second layer: what the nodes hold.  Every visited instruction is in a   *)
(* filed node or in the open one; the open node is straight-line code that *)
(* starts at a visited instruction and carries the flag of its first       *)
(* instruction; labels are given out in ascending order.                   *)
(***************************************************************************)
InFiled(o) == \E s \in DOMAIN nodes : o \in Filed(s)

VisitedInNode ==
    ~built => \A o \in Visited :
                 InFiled(o) \/ (IsOpenNow /\ currNode.start <= o)

OpenReach ==
    IsOpenNow /\ ~built =>
        IF currNode.end = currNode.start
        THEN \A o \in Visited :
                o <= currNode.start /\ instructions[currNode.start] = OP_JUMPDEST
        ELSE \A o \in Visited : o < currNode.end

OpenStraight ==
    IsOpenNow => \A o \in Visited : currNode.start <= o =>
        ~EndsNode(o) /\ (instructions[o] = OP_JUMPDEST => o = currNode.start)

OpenFlag ==
    IF IsOpenNow
    THEN \/ /\ currNode.start \in Visited
            /\ currNode.isJumpDest <=> instructions[currNode.start] = OP_JUMPDEST
         \/ /\ Visited = {} /\ currNode.start = 0 /\ currNode.end = 0
            /\ ~currNode.isJumpDest
    ELSE ~currNode.isJumpDest

LabelsAscend ==
    /\ idx = currNode.idx + 1
    /\ ~built => \A s \in DOMAIN nodes : nodes[s].idx < currNode.idx

Coverage == VisitedInNode /\ OpenReach /\ Covered
Straightness == OpenStraight /\ StraightLine
Flags == OpenFlag /\ FlagMatchesCode
Labels == LabelsAscend /\ LabelsUnique

\* A node that starts at 0 is labelled 0 unless it is a jump target, the open one
\* too, and once the node at 0 is closed none will start there again.
LabelledRight(node) == node.start = 0 => (node.idx = 0 <=> ~node.isJumpDest)

EmptyUnflagged(node) == node.end = 0 => ~node.isJumpDest

EntryNode ==
    /\ 0 \in DOMAIN nodes => LabelledRight(nodes[0]) /\ EmptyUnflagged(nodes[0])
    /\ LabelledRight(currNode)
    /\ currNode.isJumpDest => IsOpenNow /\ currNode.start \notin remaining
    /\ ~IsOpenNow => 0 \notin remaining
    /\ idx \in Nat \ {0}

-----------------------------------------------------------------------------

\* The first instruction the loop visits is the one at offset 0.
LEMMA FirstAtZero ==
    ASSUME Layout, NEW o, IsNext(o), Visited = {}
    PROVE  o = 0
<1>1. /\ IsStream(instructions) /\ remaining = DOMAIN instructions
      /\ o \in remaining /\ \A p \in remaining : o <= p
  BY DEF Layout, TypeOK, IsNext, Visited
<1>2. ASSUME NEW p \in DOMAIN instructions, EndOf(instructions, p) = o
      PROVE  FALSE
  <2>1. p \in Nat /\ o \in Nat /\ p < EndOf(instructions, p)
    BY <1>1, EndOfBounds
  <2>. QED  BY <1>1, <1>2, <2>1
<1>. QED  BY <1>1, <1>2 DEF IsStream

\* What one iteration of the loop does to the position in the program, and
\* where the visited instructions lie.
LEMMA VisitFacts ==
    ASSUME Layout, NEW o \in remaining, Visit(o)
    PROVE  /\ IsNext(o) /\ ~built /\ ~built' /\ o \in Nat
           /\ instructions' = instructions
           /\ Visited' = Visited \cup {o}
           /\ \A p \in Visited : p \in Nat /\ p < o
           /\ \A p \in DOMAIN instructions \ (Visited \cup {o}) :
                 p \in Nat /\ EndOf(instructions, o) <= p
           /\ EndOf(instructions, o) \in Nat /\ o < EndOf(instructions, o)
<1>1. IsNext(o) /\ instructions' = instructions /\ built' = built
      /\ remaining' = remaining \ {o}
  BY DEF Visit, CloseNode, SplitNode, ExtendNode
<1>2. /\ IsStream(instructions) /\ remaining \in SUBSET DOMAIN instructions
      /\ built \in BOOLEAN /\ ~built
  BY DEF Layout, TypeOK
<1>3. /\ o \in Nat /\ EndOf(instructions, o) \in Nat
      /\ o < EndOf(instructions, o)
      /\ \A p \in remaining \ {o} : EndOf(instructions, o) <= p
  BY <1>1, NextFacts
<1>4. \A p \in DOMAIN instructions : p \in Nat
  BY <1>2, EndOfBounds
<1>5. Visited' = Visited \cup {o}
  BY <1>1, <1>2 DEF Visited
<1>6. \A p \in Visited : p < o
  BY DEF Layout, Ordered
<1>. QED  BY <1>1, <1>2, <1>3, <1>4, <1>5, <1>6 DEF Visited

\* The nodes' addresses are numbers.
LEMMA FiledNumbers ==
    ASSUME Layout, NEW s \in DOMAIN nodes
    PROVE  /\ s \in Nat /\ nodes[s].start = s /\ nodes[s].end \in Nat
           /\ s <= nodes[s].end /\ nodes[s].idx \in Nat
BY DEF Layout, TypeOK, FiledByStart, CFNode, Unset

\* Filing a node leaves every instruction that is in a node in a node: a node
\* it replaces is empty.
LEMMA FilingKeepsInstructions ==
    ASSUME Layout, NEW k \in Nat, NEW v, v.start = k,
           k \in DOMAIN nodes => nodes[k].end = k,
           nodes' = Store(nodes, k, v),
           NEW o, InFiled(o)
    PROVE  InFiled(o)'
<1>1. PICK s \in DOMAIN nodes : o \in nodes[s].start .. (nodes[s].end - 1)
  BY DEF InFiled, Filed
<1>2. s # k
  BY <1>1, FiledNumbers
<1>3. s \in DOMAIN nodes' /\ nodes'[s] = nodes[s]
  BY <1>2 DEF Store
<1>. QED  BY <1>1, <1>3 DEF InFiled, Filed

LEMMA CoverageInit == Init => Coverage
BY DEF Init, Coverage, VisitedInNode, OpenReach, Covered, Visited

LEMMA CoverageNext == Layout /\ Coverage /\ [Next]_graphVars => Coverage'
<1>. SUFFICES ASSUME Layout, Coverage, [Next]_graphVars
              PROVE  Coverage'
  OBVIOUS
<1>1. ASSUME NEW o \in remaining, Visit(o)
      PROVE  Coverage'
  <2> DEFINE node == Extended(o)
  <2>1. /\ IsNext(o) /\ ~built /\ ~built' /\ o \in Nat
        /\ instructions' = instructions
        /\ Visited' = Visited \cup {o}
        /\ \A p \in Visited : p \in Nat /\ p < o
        /\ EndOf(instructions, o) \in Nat /\ o < EndOf(instructions, o)
    BY <1>1, VisitFacts
  <2>2. /\ node.start \in Nat /\ node.start <= o
        /\ node.start = IF IsOpenNow THEN currNode.start ELSE o
        /\ node.end = EndOf(instructions, o)
        /\ node.start \in DOMAIN nodes => nodes[node.start].end = node.start
    BY <2>1, ExtendedFacts
  <2>3. \A p \in Visited : InFiled(p) \/ node.start <= p
    BY <2>1, <2>2 DEF Coverage, VisitedInNode
  <2>4. Covered'
    BY <2>1 DEF Covered
  <2>. HIDE DEF node
  <2>5. CASE CloseNode(o)
    <3>1. nodes' = Store(nodes, node.start, node) /\ currNode' = FreshNode
      BY <2>5 DEF CloseNode, node
    <3>2. node.start \in DOMAIN nodes' /\ nodes'[node.start] = node
      BY <3>1 DEF Store
    <3>3. \A p \in Visited' : node.start <= p => InFiled(p)'
      <4>. SUFFICES ASSUME NEW p \in Visited', node.start <= p
                    PROVE  p \in node.start .. (node.end - 1)
        BY <3>2 DEF InFiled, Filed
      <4>. QED  BY <2>1, <2>2
    <3>4. \A p \in Visited : InFiled(p) => InFiled(p)'
      BY <2>2, <3>1, FilingKeepsInstructions
    <3>5. ~IsOpenNow'
      BY <3>1 DEF FreshNode, IsOpenNow
    <3>. QED
      BY <2>1, <2>2, <2>3, <2>4, <3>3, <3>4, <3>5
      DEF Coverage, VisitedInNode, OpenReach
  <2>6. CASE SplitNode(o)
    <3>1. /\ instructions[o] = OP_JUMPDEST /\ node.end = o + 1
          /\ node.end - node.start # 0
      BY <2>1, <2>2, <2>6, NextFacts DEF SplitNode
    <3> DEFINE before == [node EXCEPT !.end = node.end - 1]
    <3>2. nodes' = Store(nodes, node.start, before) /\ currNode' = JumpDestNode(o)
      BY <2>6, <3>1 DEF SplitNode, BeforeJumpDest, node
    <3>3. before.start = node.start /\ before.end = o
      <4>1. node \in CFNode
        BY <2>1, ExtendedFacts DEF node
      <4>. QED  BY <2>1, <3>1, <4>1 DEF CFNode
    <3>. HIDE DEF before
    <3>4. node.start \in DOMAIN nodes' /\ nodes'[node.start] = before
      BY <3>2 DEF Store
    <3>5. \A p \in Visited : node.start <= p => InFiled(p)'
      <4>. SUFFICES ASSUME NEW p \in Visited, node.start <= p
                    PROVE  p \in node.start .. (o - 1)
        BY <3>3, <3>4 DEF InFiled, Filed
      <4>. QED  BY <2>1, <2>2
    <3>6. \A p \in Visited : InFiled(p) => InFiled(p)'
      BY <2>2, <3>2, <3>3, FilingKeepsInstructions
    <3>7. IsOpenNow' /\ currNode'.start = o /\ currNode'.end = o
      BY <2>1, <3>2 DEF JumpDestNode, IsOpenNow, Unset
    <3>8. VisitedInNode'
      BY <2>1, <2>3, <3>5, <3>6, <3>7 DEF VisitedInNode
    <3>9. OpenReach'
      BY <2>1, <3>1, <3>7 DEF OpenReach
    <3>. QED  BY <2>4, <3>8, <3>9 DEF Coverage
  <2>7. CASE ExtendNode(o)
    <3>1. nodes' = nodes /\ currNode' = node
      BY <2>7 DEF ExtendNode, node
    <3>2. IsOpenNow' /\ currNode'.end # currNode'.start
      BY <2>1, <2>2, <3>1 DEF IsOpenNow, Unset
    <3>3. VisitedInNode'
      BY <2>1, <2>2, <2>3, <3>1, <3>2 DEF VisitedInNode, InFiled, Filed
    <3>4. OpenReach'
      BY <2>1, <2>2, <3>1, <3>2 DEF OpenReach
    <3>. QED  BY <2>4, <3>3, <3>4 DEF Coverage
  <2>. QED  BY <1>1, <2>5, <2>6, <2>7 DEF Visit
<1>2. CASE FlushNode
  <2>1. /\ remaining = {} /\ ~built /\ built'
        /\ instructions' = instructions /\ Visited = DOMAIN instructions
    BY <1>2 DEF FlushNode, Visited
  <2>2. currNode \in CFNode /\ \A p \in DOMAIN instructions : p \in Nat
    BY DEF Layout, TypeOK, IsStream
  <2>3. CASE IsOpen(currNode)
    <3>1. nodes' = Store(nodes, currNode.start, currNode)
      BY <1>2, <2>3 DEF FlushNode
    <3>2. /\ currNode.start \in Nat /\ currNode.end \in Nat
          /\ \A s \in DOMAIN nodes : nodes[s].end <= currNode.start
          /\ \A p \in DOMAIN instructions : p < currNode.end
      BY <2>1, <2>2, <2>3
      DEF IsOpen, IsOpenNow, Layout, OpenBehindFiled, Coverage, OpenReach, CFNode
    <3>3. currNode.start \in DOMAIN nodes => nodes[currNode.start].end = currNode.start
      BY <3>2, FiledNumbers
    <3>4. currNode.start \in DOMAIN nodes' /\ nodes'[currNode.start] = currNode
      BY <3>1 DEF Store
    <3>5. \A p \in DOMAIN instructions : currNode.start <= p => InFiled(p)'
      <4>. SUFFICES ASSUME NEW p \in DOMAIN instructions, currNode.start <= p
                    PROVE  p \in currNode.start .. (currNode.end - 1)
        BY <3>4 DEF InFiled, Filed
      <4>. QED  BY <2>2, <3>2
    <3>6. \A p \in DOMAIN instructions : InFiled(p) => InFiled(p)'
      BY <3>1, <3>2, <3>3, FilingKeepsInstructions
    <3>7. \A p \in DOMAIN instructions : InFiled(p)'
      BY <2>1, <3>5, <3>6 DEF Coverage, VisitedInNode
    <3>. QED
      BY <2>1, <3>7 DEF Coverage, VisitedInNode, OpenReach, Covered, InFiled
  <2>4. CASE ~IsOpen(currNode)
    <3>1. nodes' = nodes
      BY <1>2, <2>4 DEF FlushNode
    <3>2. ASSUME NEW p \in DOMAIN instructions, ~InFiled(p)
          PROVE  /\ instructions[p] = OP_JUMPDEST
                 /\ \A q \in DOMAIN instructions : q <= p
      <4>1. IsOpenNow /\ currNode.start <= p
        BY <2>1, <3>2 DEF Coverage, VisitedInNode
      <4>2. currNode.end = currNode.start
        BY <2>4, <4>1 DEF IsOpen, IsOpenNow
      <4>3. /\ \A q \in DOMAIN instructions : q <= currNode.start
            /\ instructions[currNode.start] = OP_JUMPDEST
        BY <2>1, <4>1, <4>2 DEF Coverage, OpenReach
      <4>4. p = currNode.start
        BY <2>2, <4>1, <4>3 DEF CFNode, IsOpenNow
      <4>. QED  BY <4>3, <4>4
    <3>. QED
      BY <2>1, <3>1, <3>2
      DEF Coverage, VisitedInNode, OpenReach, Covered, InFiled, Filed
  <2>. QED  BY <2>3, <2>4
<1>3. CASE UNCHANGED graphVars
  BY <1>3 DEF graphVars, Coverage, VisitedInNode, OpenReach, Covered, Visited,
              InFiled, Filed, IsOpenNow
<1>. QED  BY <1>1, <1>2, <1>3 DEF Next

-----------------------------------------------------------------------------

\* Filing a straight-line node keeps every filed node straight-line.
LEMMA FilingKeepsStraight ==
    ASSUME Layout, StraightLine, NEW k \in Nat, NEW v,
           v.start = k, instructions' = instructions,
           nodes' = Store(nodes, k, v),
           \A o \in DOMAIN instructions : o \in k .. (v.end - 1) =>
               /\ EndsNode(o) => EndOf(instructions, o) = v.end
               /\ instructions[o] = OP_JUMPDEST => o = k
    PROVE  StraightLine'
<1>. SUFFICES ASSUME NEW s \in DOMAIN nodes',
                     NEW o \in DOMAIN instructions, o \in Filed(s)'
              PROVE  /\ EndsNode(o) => EndOf(instructions, o) = nodes'[s].end
                     /\ instructions[o] = OP_JUMPDEST => o = s
  BY DEF StraightLine, EndsNode
<1>1. CASE s = k
  BY <1>1 DEF Store, Filed
<1>2. CASE s # k
  <2>1. s \in DOMAIN nodes /\ nodes'[s] = nodes[s]
    BY <1>2 DEF Store
  <2>. QED  BY <2>1 DEF StraightLine, EndsNode, Filed
<1>. QED  BY <1>1, <1>2

LEMMA StraightnessInit == Init => Straightness
BY DEF Init, Straightness, OpenStraight, StraightLine, Visited

LEMMA StraightnessNext == Layout /\ Straightness /\ [Next]_graphVars => Straightness'
<1>. SUFFICES ASSUME Layout, Straightness, [Next]_graphVars
              PROVE  Straightness'
  OBVIOUS
<1>0. /\ IsStream(instructions) /\ currNode \in CFNode
      /\ \A p \in DOMAIN instructions : p \in Nat
  BY EndOfBounds DEF Layout, TypeOK
<1>1. ASSUME NEW o \in remaining, Visit(o)
      PROVE  Straightness'
  <2> DEFINE node == Extended(o)
  <2>1. /\ IsNext(o) /\ o \in Nat
        /\ ~built
        /\ instructions' = instructions
        /\ Visited' = Visited \cup {o}
        /\ \A p \in Visited : p \in Nat /\ p < o
        /\ \A p \in DOMAIN instructions \ (Visited \cup {o}) :
              p \in Nat /\ EndOf(instructions, o) <= p
        /\ EndOf(instructions, o) \in Nat /\ o < EndOf(instructions, o)
    BY <1>1, VisitFacts
  <2>2. /\ node \in CFNode /\ node.start \in Nat /\ node.start <= o
        /\ node.start = IF IsOpenNow THEN currNode.start ELSE o
        /\ node.end = EndOf(instructions, o)
    BY <2>1, ExtendedFacts
  <2>3. \A p \in Visited : node.start <= p =>
            ~EndsNode(p) /\ (instructions[p] = OP_JUMPDEST => p = node.start)
    BY <2>1, <2>2 DEF Straightness, OpenStraight
  <2>4. instructions[o] = OP_JUMPDEST => ~EndsNode(o)
    BY DEF EndsNode, IsBranch, IsStop, OP_JUMPDEST, OP_JUMP, OP_JUMPI,
           OP_STOP, OP_RETURN, OP_INVALID, OP_SUICIDE
  <2>. HIDE DEF node
  <2>5. CASE CloseNode(o)
    <3>1. nodes' = Store(nodes, node.start, node) /\ currNode' = FreshNode /\ EndsNode(o)
      BY <2>5 DEF CloseNode, node
    <3>2. ASSUME NEW p \in DOMAIN instructions, p \in node.start .. (node.end - 1)
          PROVE  /\ EndsNode(p) => EndOf(instructions, p) = node.end
                 /\ instructions[p] = OP_JUMPDEST => p = node.start
      <4>1. p \in Visited \/ p = o
        BY <1>0, <2>1, <2>2, <3>2
      <4>. QED  BY <2>2, <2>3, <2>4, <3>1, <3>2, <4>1
    <3>3. StraightLine'
      BY <2>1, <2>2, <3>1, <3>2, FilingKeepsStraight DEF Straightness
    <3>. QED  BY <3>1, <3>3 DEF Straightness, OpenStraight, FreshNode, IsOpenNow
  <2>6. CASE SplitNode(o)
    <3>1. /\ instructions[o] = OP_JUMPDEST /\ node.end = o + 1
          /\ node.end - node.start # 0
      BY <2>1, <2>2, <2>6, NextFacts DEF SplitNode
    <3> DEFINE before == [node EXCEPT !.end = node.end - 1]
    <3>2. nodes' = Store(nodes, node.start, before) /\ currNode' = JumpDestNode(o)
      BY <2>6, <3>1 DEF SplitNode, BeforeJumpDest, node
    <3>3. before.start = node.start /\ before.end = o
      BY <2>1, <2>2, <3>1 DEF CFNode
    <3>. HIDE DEF before
    <3>4. ASSUME NEW p \in DOMAIN instructions, p \in node.start .. (o - 1)
          PROVE  /\ ~EndsNode(p)
                 /\ instructions[p] = OP_JUMPDEST => p = node.start
      <4>1. p \in Visited
        BY <1>0, <2>1, <2>2, <3>4
      <4>. QED  BY <2>2, <2>3, <3>4, <4>1
    <3>5. StraightLine'
      BY <2>1, <2>2, <3>2, <3>3, <3>4, FilingKeepsStraight DEF Straightness
    <3>6. OpenStraight'
      BY <2>1, <2>4, <3>1, <3>2 DEF OpenStraight, JumpDestNode, EndsNode
    <3>. QED  BY <3>5, <3>6 DEF Straightness
  <2>7. CASE ExtendNode(o)
    <3>1. /\ nodes' = nodes /\ currNode' = node
          /\ ~EndsNode(o) /\ instructions[o] # OP_JUMPDEST
      BY <2>7 DEF ExtendNode, node
    <3>2. OpenStraight'
      BY <2>1, <2>3, <3>1 DEF OpenStraight, EndsNode
    <3>. QED  BY <2>1, <3>1, <3>2 DEF Straightness, StraightLine, Filed
  <2>. QED  BY <1>1, <2>5, <2>6, <2>7 DEF Visit
<1>2. CASE FlushNode
  <2>1. /\ remaining = {} /\ ~built /\ Visited = DOMAIN instructions
        /\ instructions' = instructions /\ currNode' = currNode
        /\ Visited' = Visited
    BY <1>2 DEF FlushNode, Visited
  <2>2. OpenStraight'
    BY <2>1 DEF Straightness, OpenStraight, IsOpenNow, EndsNode
  <2>3. CASE IsOpen(currNode)
    <3>1. nodes' = Store(nodes, currNode.start, currNode)
      BY <1>2, <2>3 DEF FlushNode
    <3>2. currNode.start \in Nat
      BY <1>0, <2>3 DEF IsOpen, CFNode
    <3>3. ASSUME NEW p \in DOMAIN instructions,
                 p \in currNode.start .. (currNode.end - 1)
          PROVE  /\ ~EndsNode(p)
                 /\ instructions[p] = OP_JUMPDEST => p = currNode.start
      <4>1. currNode.end \in Nat
        BY <1>0, <2>1, <2>3 DEF Layout, OpenBehindFiled, IsOpen, IsOpenNow
      <4>. QED
        BY <1>0, <2>1, <2>3, <3>2, <3>3, <4>1
        DEF Straightness, OpenStraight, IsOpen, IsOpenNow
    <3>4. StraightLine'
      BY <2>1, <3>1, <3>2, <3>3, FilingKeepsStraight DEF Straightness
    <3>. QED  BY <2>2, <3>4 DEF Straightness
  <2>4. CASE ~IsOpen(currNode)
    <3>1. nodes' = nodes
      BY <1>2, <2>4 DEF FlushNode
    <3>. QED  BY <2>1, <2>2, <3>1 DEF Straightness, StraightLine, Filed
  <2>. QED  BY <2>3, <2>4
<1>3. CASE UNCHANGED graphVars
  BY <1>3 DEF graphVars, Straightness, OpenStraight, StraightLine, Visited,
              Filed, IsOpenNow, EndsNode
<1>. QED  BY <1>1, <1>2, <1>3 DEF Next

-----------------------------------------------------------------------------

LEMMA FlagsInit == Init => Flags
BY DEF Init, Flags, OpenFlag, FlagMatchesCode, IsOpenNow, Visited, Unset

LEMMA FlagsNext == Layout /\ Flags /\ [Next]_graphVars => Flags'
<1>. SUFFICES ASSUME Layout, Flags, [Next]_graphVars
              PROVE  Flags'
  OBVIOUS
<1>0. IsStream(instructions) /\ currNode \in CFNode
  BY DEF Layout, TypeOK
<1>1. ASSUME NEW k \in Nat, NEW v, nodes' = Store(nodes, k, v),
             instructions' = instructions,
             v.end > k => (v.isJumpDest <=> instructions[k] = OP_JUMPDEST)
      PROVE  FlagMatchesCode'
  BY <1>1 DEF Flags, FlagMatchesCode, Store
<1>2. ASSUME NEW o \in remaining, Visit(o)
      PROVE  Flags'
  <2> DEFINE node == Extended(o)
  <2>1. /\ IsNext(o) /\ o \in Nat /\ ~built
        /\ instructions' = instructions
        /\ Visited' = Visited \cup {o}
    BY <1>2, VisitFacts
  <2>2. /\ node \in CFNode /\ node.start \in Nat /\ node.start <= o
        /\ node.start = IF IsOpenNow THEN currNode.start ELSE o
        /\ node.end = EndOf(instructions, o)
        /\ node.isJumpDest = currNode.isJumpDest
    BY <2>1, ExtendedFacts
  <2>3. instructions[o] = OP_JUMPDEST => ~EndsNode(o)
    BY DEF EndsNode, IsBranch, IsStop, OP_JUMPDEST, OP_JUMP, OP_JUMPI,
           OP_STOP, OP_RETURN, OP_INVALID, OP_SUICIDE
  <2>4. \* unless o starts the node, its flag is that of a visited instruction
        \/ /\ node.start = o /\ ~node.isJumpDest
        \/ /\ node.start \in Visited
           /\ node.isJumpDest <=> instructions[node.start] = OP_JUMPDEST
    <3>1. CASE ~IsOpenNow
      BY <2>2, <3>1 DEF Flags, OpenFlag
    <3>2. CASE IsOpenNow /\ Visited = {}
      <4>1. o = 0
        BY <2>1, <3>2, FirstAtZero
      <4>. QED  BY <2>2, <3>2, <4>1 DEF Flags, OpenFlag
    <3>3. CASE IsOpenNow /\ Visited # {}
      BY <2>2, <3>3 DEF Flags, OpenFlag
    <3>. QED  BY <3>1, <3>2, <3>3
  <2>. HIDE DEF node
  <2>5. CASE CloseNode(o)
    <3>1. nodes' = Store(nodes, node.start, node) /\ currNode' = FreshNode /\ EndsNode(o)
      BY <2>5 DEF CloseNode, node
    <3>2. node.isJumpDest <=> instructions[node.start] = OP_JUMPDEST
      BY <2>3, <2>4, <3>1
    <3>3. FlagMatchesCode'
      BY <1>1, <2>1, <2>2, <3>1, <3>2
    <3>. QED  BY <3>1, <3>3 DEF Flags, OpenFlag, IsOpenNow, FreshNode
  <2>6. CASE SplitNode(o)
    <3>1. /\ instructions[o] = OP_JUMPDEST /\ node.end = o + 1
          /\ node.end - node.start # 0
      BY <2>1, <2>2, <2>6, NextFacts DEF SplitNode
    <3> DEFINE before == [node EXCEPT !.end = node.end - 1]
    <3>2. nodes' = Store(nodes, node.start, before) /\ currNode' = JumpDestNode(o)
      BY <2>6, <3>1 DEF SplitNode, BeforeJumpDest, node
    <3>3. before.end = o /\ before.isJumpDest = node.isJumpDest
      BY <2>1, <2>2, <3>1 DEF CFNode
    <3>. HIDE DEF before
    <3>4. before.end > node.start =>
             (before.isJumpDest <=> instructions[node.start] = OP_JUMPDEST)
      BY <2>1, <2>2, <2>4, <3>3
    <3>5. FlagMatchesCode'
      BY <1>1, <2>1, <2>2, <3>2, <3>4
    <3>6. OpenFlag'
      BY <2>1, <3>1, <3>2 DEF OpenFlag, IsOpenNow, JumpDestNode, Unset
    <3>. QED  BY <3>5, <3>6 DEF Flags
  <2>7. CASE ExtendNode(o)
    <3>1. nodes' = nodes /\ currNode' = node /\ instructions[o] # OP_JUMPDEST
      BY <2>7 DEF ExtendNode, node
    <3>2. IsOpenNow'
      BY <2>2, <3>1 DEF IsOpenNow, Unset
    <3>3. OpenFlag'
      BY <2>1, <2>4, <3>1, <3>2 DEF OpenFlag
    <3>. QED  BY <2>1, <3>1, <3>3 DEF Flags, FlagMatchesCode
  <2>. QED  BY <1>2, <2>5, <2>6, <2>7 DEF Visit
<1>3. CASE FlushNode
  <2>1. /\ instructions' = instructions /\ currNode' = currNode
        /\ Visited' = Visited
    BY <1>3 DEF FlushNode, Visited
  <2>2. OpenFlag'
    BY <2>1 DEF Flags, OpenFlag, IsOpenNow
  <2>3. CASE IsOpen(currNode)
    <3>1. nodes' = Store(nodes, currNode.start, currNode)
      BY <1>3, <2>3 DEF FlushNode
    <3>2. /\ currNode.start \in Nat
          /\ currNode.isJumpDest <=> instructions[currNode.start] = OP_JUMPDEST
      BY <1>0, <2>3 DEF IsOpen, CFNode, Flags, OpenFlag, IsOpenNow
    <3>3. FlagMatchesCode'
      BY <1>1, <2>1, <3>1, <3>2
    <3>. QED  BY <2>2, <3>3 DEF Flags
  <2>4. CASE ~IsOpen(currNode)
    BY <1>3, <2>1, <2>2, <2>4 DEF FlushNode, Flags, FlagMatchesCode
  <2>. QED  BY <2>3, <2>4
<1>4. CASE UNCHANGED graphVars
  BY <1>4 DEF graphVars, Flags, OpenFlag, FlagMatchesCode, Visited, IsOpenNow
<1>. QED  BY <1>2, <1>3, <1>4 DEF Next

-----------------------------------------------------------------------------

LEMMA LabelsInit == Init => Labels
BY DEF Init, Labels, LabelsAscend, LabelsUnique

LEMMA LabelsNext == Layout /\ Labels /\ [Next]_graphVars => Labels'
<1>. SUFFICES ASSUME Layout, Labels, [Next]_graphVars
              PROVE  Labels'
  OBVIOUS
<1>1. /\ currNode \in CFNode /\ currNode.idx \in Nat /\ idx = currNode.idx + 1
      /\ \A s \in DOMAIN nodes : nodes[s].idx \in Nat
  BY FiledNumbers DEF Layout, TypeOK, Labels, LabelsAscend, CFNode
<1>2. ASSUME NEW k, NEW v, nodes' = Store(nodes, k, v), v.idx = currNode.idx,
             ~built
      PROVE  /\ LabelsUnique'
             /\ \A s \in DOMAIN nodes' : nodes'[s].idx <= currNode.idx
  <2>1. \A s \in DOMAIN nodes' :
            \/ s = k /\ nodes'[s].idx = currNode.idx
            \/ /\ s \in DOMAIN nodes /\ nodes'[s] = nodes[s]
               /\ nodes[s].idx < currNode.idx
    BY <1>2 DEF Store, Labels, LabelsAscend
  <2>2. LabelsUnique'
    BY <1>1, <2>1 DEF Labels, LabelsUnique
  <2>. QED  BY <1>1, <2>1, <2>2
<1>3. ASSUME NEW o \in remaining, Visit(o)
      PROVE  Labels'
  <2> DEFINE node == Extended(o)
  <2>1. IsNext(o) /\ ~built
    BY <1>3, VisitFacts
  <2>2. node \in CFNode /\ node.idx = currNode.idx /\ node.start \in Nat
    BY <2>1, ExtendedFacts
  <2>. HIDE DEF node
  <2>3. CASE CloseNode(o)
    <3>1. /\ nodes' = Store(nodes, node.start, node)
          /\ currNode' = FreshNode /\ idx' = idx + 1
      BY <2>3 DEF CloseNode, node, NextIdx
    <3>2. LabelsUnique' /\ \A s \in DOMAIN nodes' : nodes'[s].idx <= currNode.idx
      BY <1>2, <2>1, <2>2, <3>1
    <3>3. \A s \in DOMAIN nodes' : nodes'[s].idx \in Nat
      BY <1>1, <2>2, <3>1 DEF Store
    <3>4. LabelsAscend'
      BY <1>1, <3>1, <3>2, <3>3 DEF LabelsAscend, FreshNode
    <3>. QED  BY <3>2, <3>4 DEF Labels
  <2>4. CASE SplitNode(o)
    <3>1. node.end - node.start # 0
      <4>1. /\ node.start <= o /\ node.end = o + 1 /\ o \in Nat
        BY <2>1, <2>4, NextFacts, ExtendedFacts DEF SplitNode, node
      <4>. QED  BY <2>2, <4>1
    <3> DEFINE before == [node EXCEPT !.end = node.end - 1]
    <3>2. /\ nodes' = Store(nodes, node.start, before)
          /\ currNode' = JumpDestNode(o) /\ idx' = idx + 1
      BY <2>4, <3>1 DEF SplitNode, BeforeJumpDest, node, NextIdx
    <3>3. before.idx = currNode.idx
      BY <2>2 DEF CFNode
    <3>. HIDE DEF before
    <3>4. LabelsUnique' /\ \A s \in DOMAIN nodes' : nodes'[s].idx <= currNode.idx
      BY <1>2, <2>1, <3>2, <3>3
    <3>5. \A s \in DOMAIN nodes' : nodes'[s].idx \in Nat
      BY <1>1, <3>2, <3>3 DEF Store
    <3>6. LabelsAscend'
      BY <1>1, <3>2, <3>4, <3>5 DEF LabelsAscend, JumpDestNode
    <3>. QED  BY <3>4, <3>6 DEF Labels
  <2>5. CASE ExtendNode(o)
    <3>1. nodes' = nodes /\ currNode' = node /\ idx' = idx /\ built' = built
      BY <2>5 DEF ExtendNode, node
    <3>. QED  BY <2>2, <3>1 DEF Labels, LabelsAscend, LabelsUnique
  <2>. QED  BY <1>3, <2>3, <2>4, <2>5 DEF Visit
<1>4. CASE FlushNode
  <2>1. ~built /\ built' /\ currNode' = currNode /\ idx' = idx
    BY <1>4 DEF FlushNode
  <2>2. LabelsAscend'
    BY <2>1 DEF Labels, LabelsAscend
  <2>3. CASE IsOpen(currNode)
    <3>1. nodes' = Store(nodes, currNode.start, currNode)
      BY <1>4, <2>3 DEF FlushNode
    <3>. QED  BY <1>2, <2>1, <2>2, <3>1 DEF Labels
  <2>4. CASE ~IsOpen(currNode)
    BY <1>4, <2>2, <2>4 DEF FlushNode, Labels, LabelsUnique
  <2>. QED  BY <2>3, <2>4
<1>5. CASE UNCHANGED graphVars
  BY <1>5 DEF graphVars, Labels, LabelsAscend, LabelsUnique
<1>. QED  BY <1>3, <1>4, <1>5 DEF Next

-----------------------------------------------------------------------------

LEMMA EntryInit == Init => EntryNode
BY DEF Init, EntryNode, LabelledRight, EmptyUnflagged, IsOpenNow, Unset

LEMMA EntryNext == Layout /\ EntryNode /\ [Next]_graphVars => EntryNode'
<1>. SUFFICES ASSUME Layout, EntryNode, [Next]_graphVars
              PROVE  EntryNode'
  OBVIOUS
<1>1. FiledByStart /\ remaining \in SUBSET DOMAIN instructions
  BY DEF Layout, TypeOK
<1>2. ASSUME NEW k, NEW v, nodes' = Store(nodes, k, v), v.start = k, LabelledRight(v),
             k = 0 => EmptyUnflagged(v)
      PROVE  0 \in DOMAIN nodes' => LabelledRight(nodes'[0]) /\ EmptyUnflagged(nodes'[0])
  BY <1>2 DEF Store, EntryNode
<1>3. ASSUME NEW o \in remaining, Visit(o)
      PROVE  EntryNode'
  <2> DEFINE node == Extended(o)
  <2>1. IsNext(o) /\ ~built
    BY <1>3, VisitFacts
  <2>2. /\ node \in CFNode /\ node.start \in Nat /\ node.start <= o /\ o \in Nat
        /\ node.idx = currNode.idx /\ node.isJumpDest = currNode.isJumpDest
        /\ node.start = IF IsOpenNow THEN currNode.start ELSE o
    BY <2>1, ExtendedFacts, NextFacts
  <2>3. LabelledRight(node)
    <3>1. CASE IsOpenNow
      BY <2>2, <3>1 DEF LabelledRight, EntryNode
    <3>2. CASE ~IsOpenNow
      BY <1>3, <2>2, <3>2 DEF LabelledRight, EntryNode
    <3>. QED  BY <3>1, <3>2
  <2>4. 0 \notin remaining \ {o}
    BY <2>1, <2>2, NextFacts
  <2>8. node.isJumpDest => node.start # o
    BY <2>2 DEF EntryNode
  <2>9. node.end \in Nat /\ o < node.end
    BY <2>1, NextFacts DEF node, Extended
  <2>. HIDE DEF node
  <2>5. CASE CloseNode(o)
    <3>1. /\ nodes' = Store(nodes, node.start, node) /\ remaining' = remaining \ {o}
          /\ currNode' = FreshNode /\ idx' = idx + 1
      BY <2>5 DEF CloseNode, node, NextIdx
    <3>2. 0 \in DOMAIN nodes' => LabelledRight(nodes'[0]) /\ EmptyUnflagged(nodes'[0])
      BY <1>2, <2>2, <2>3, <2>9, <3>1 DEF EmptyUnflagged
    <3>3. LabelledRight(FreshNode) /\ ~FreshNode.isJumpDest
      BY DEF LabelledRight, FreshNode, Unset
    <3>4. idx' \in Nat \ {0}
      BY <3>1 DEF EntryNode
    <3>. QED  BY <2>4, <3>1, <3>2, <3>3, <3>4 DEF EntryNode, LabelledRight, IsOpenNow
  <2>6. CASE SplitNode(o)
    <3>1. node.end - node.start # 0
      <4>1. node.end = o + 1
        BY <2>1, <2>6, NextFacts, ExtendedFacts DEF SplitNode, node
      <4>. QED  BY <2>2, <4>1
    <3> DEFINE before == [node EXCEPT !.end = node.end - 1]
    <3>2. /\ nodes' = Store(nodes, node.start, before) /\ remaining' = remaining \ {o}
          /\ currNode' = JumpDestNode(o) /\ idx' = idx + 1
      BY <2>6, <3>1 DEF SplitNode, BeforeJumpDest, node, NextIdx
    <3>3. /\ before.start = node.start /\ before.idx = node.idx
          /\ before.isJumpDest = node.isJumpDest
      BY <2>2 DEF CFNode
    <3>. HIDE DEF before
    <3>4. LabelledRight(before)
      BY <2>3, <3>3 DEF LabelledRight
    <3>8. EmptyUnflagged(before)
      <4>1. node.end = o + 1
        BY <2>1, <2>6, NextFacts, ExtendedFacts DEF SplitNode, node
      <4>2. before.end = o
        BY <2>2, <4>1 DEF before, CFNode
      <4>. QED  BY <2>2, <2>8, <3>3, <4>2 DEF EmptyUnflagged
    <3>5. 0 \in DOMAIN nodes' => LabelledRight(nodes'[0]) /\ EmptyUnflagged(nodes'[0])
      BY <1>2, <3>2, <3>3, <3>4, <3>8
    <3>6. LabelledRight(JumpDestNode(o)) /\ JumpDestNode(o).start = o
      BY DEF LabelledRight, JumpDestNode, EntryNode
    <3>7. idx' \in Nat \ {0}
      BY <3>2 DEF EntryNode
    <3>. QED  BY <2>2, <2>4, <3>2, <3>5, <3>6, <3>7 DEF EntryNode, LabelledRight, IsOpenNow, Unset
  <2>7. CASE ExtendNode(o)
    <3>1. /\ nodes' = nodes /\ currNode' = node /\ idx' = idx
          /\ remaining' = remaining \ {o}
      BY <2>7 DEF ExtendNode, node
    <3>2. node.isJumpDest => IsOpenNow' /\ node.start \notin remaining'
      BY <2>2, <3>1 DEF EntryNode, IsOpenNow, Unset
    <3>. QED  BY <2>3, <2>4, <3>1, <3>2 DEF EntryNode, LabelledRight
  <2>. QED  BY <1>3, <2>5, <2>6, <2>7 DEF Visit
<1>4. CASE FlushNode
  <2>1. currNode' = currNode /\ idx' = idx /\ remaining' = remaining
    BY <1>4 DEF FlushNode
  <2>2. 0 \in DOMAIN nodes' => LabelledRight(nodes'[0]) /\ EmptyUnflagged(nodes'[0])
    <3>1. CASE IsOpen(currNode)
      BY <1>2, <1>4, <3>1 DEF FlushNode, EntryNode, EmptyUnflagged, IsOpen
    <3>2. CASE ~IsOpen(currNode)
      BY <1>4, <3>2 DEF FlushNode, EntryNode
    <3>. QED  BY <3>1, <3>2
  <2>. QED  BY <2>1, <2>2 DEF EntryNode, LabelledRight, IsOpenNow
<1>5. CASE UNCHANGED graphVars
  BY <1>5 DEF graphVars, EntryNode, LabelledRight, IsOpenNow
<1>. QED  BY <1>3, <1>4, <1>5 DEF Next

-----------------------------------------------------------------------------

LEMMA OnlyEmptyReplacedStep ==
    Layout /\ [Next]_graphVars =>
        \A s \in DOMAIN nodes :
           /\ s \in DOMAIN nodes'
           /\ nodes[s].end > s => nodes'[s] = nodes[s]
<1>. SUFFICES ASSUME Layout, [Next]_graphVars, NEW s \in DOMAIN nodes
              PROVE  /\ s \in DOMAIN nodes'
                     /\ nodes[s].end > s => nodes'[s] = nodes[s]
  OBVIOUS
<1>0. s \in Nat /\ nodes[s].end \in Nat
  BY FiledNumbers
<1>1. ASSUME NEW k, NEW v, nodes' = Store(nodes, k, v),
             k \in DOMAIN nodes => nodes[k].end = k
      PROVE  /\ s \in DOMAIN nodes'
             /\ nodes[s].end > s => nodes'[s] = nodes[s]
  BY <1>0, <1>1 DEF Store
<1>2. ASSUME NEW o \in remaining, Visit(o)
      PROVE  /\ s \in DOMAIN nodes'
             /\ nodes[s].end > s => nodes'[s] = nodes[s]
  <2>1. \/ nodes' = nodes
        \/ \E v : nodes' = Store(nodes, Extended(o).start, v)
    BY <1>2 DEF Visit, CloseNode, SplitNode, ExtendNode
  <2>2. Extended(o).start \in DOMAIN nodes =>
            nodes[Extended(o).start].end = Extended(o).start
    BY <1>2, VisitFacts, ExtendedFacts
  <2>. QED  BY <1>1, <2>1, <2>2
<1>3. CASE FlushNode
  <2>1. CASE IsOpen(currNode)
    <3>1. nodes' = Store(nodes, currNode.start, currNode)
      BY <1>3, <2>1 DEF FlushNode
    <3>2. currNode.start \in DOMAIN nodes => nodes[currNode.start].end = currNode.start
      BY <1>3, <2>1, FiledNumbers
      DEF FlushNode, Layout, OpenBehindFiled, IsOpen, IsOpenNow
    <3>. QED  BY <1>1, <3>1, <3>2
  <2>2. CASE ~IsOpen(currNode)
    BY <1>3, <2>2 DEF FlushNode
  <2>. QED  BY <2>1, <2>2
<1>4. CASE UNCHANGED graphVars
  BY <1>4 DEF graphVars
<1>. QED  BY <1>2, <1>3, <1>4 DEF Next

-----------------------------------------------------------------------------
(***************************************************************************)
(* The theorems.                                                           *)
(***************************************************************************)

\* Every node, filed or open, has the shape the code's types give it, and the
\* loop's position is part of the program.
THEOREM TypeCorrect == Spec => []TypeOK
<1>1. Spec => []Layout
  BY LayoutInit, LayoutNext, PTL DEF Spec
<1>2. Layout => TypeOK
  BY DEF Layout
<1>. QED  BY <1>1, <1>2, PTL

\* For every instruction stream, no instruction ever belongs to two nodes.
THEOREM NodesNeverOverlap == Spec => []NodesDisjoint
<1>1. Spec => []Layout
  BY LayoutInit, LayoutNext, PTL DEF Spec
<1>2. Layout => NodesDisjoint
  BY DEF Layout
<1>. QED  BY <1>1, <1>2, PTL

\* For every instruction stream, the pass leaves no instruction outside the
\* nodes but a JUMPDEST that ends the program.
THEOREM NothingLost == Spec => []Covered
<1>1. Layout /\ Coverage /\ [Next]_graphVars => (Layout /\ Coverage)'
  BY LayoutNext, CoverageNext
<1>2. Spec => [](Layout /\ Coverage)
  BY LayoutInit, CoverageInit, <1>1, PTL DEF Spec
<1>3. Layout /\ Coverage => Covered
  BY DEF Coverage
<1>. QED  BY <1>2, <1>3, PTL

\* For every instruction stream, a filed node branches or stops only at its
\* end and is a jump target only at its start.
THEOREM NodesAreStraightLine == Spec => []StraightLine
<1>1. Layout /\ Straightness /\ [Next]_graphVars => (Layout /\ Straightness)'
  BY LayoutNext, StraightnessNext
<1>2. Spec => [](Layout /\ Straightness)
  BY LayoutInit, StraightnessInit, <1>1, PTL DEF Spec
<1>3. Layout /\ Straightness => StraightLine
  BY DEF Straightness
<1>. QED  BY <1>2, <1>3, PTL

\* For every instruction stream, a node is flagged as a jump target exactly if
\* it starts with a JUMPDEST.
THEOREM FlagsAreRight == Spec => []FlagMatchesCode
<1>1. Layout /\ Flags /\ [Next]_graphVars => (Layout /\ Flags)'
  BY LayoutNext, FlagsNext
<1>2. Spec => [](Layout /\ Flags)
  BY LayoutInit, FlagsInit, <1>1, PTL DEF Spec
<1>3. Layout /\ Flags => FlagMatchesCode
  BY DEF Flags
<1>. QED  BY <1>2, <1>3, PTL

\* For every instruction stream, no two filed nodes share a label.
THEOREM LabelsNameOneNode == Spec => []LabelsUnique
<1>1. Layout /\ Labels /\ [Next]_graphVars => (Layout /\ Labels)'
  BY LayoutNext, LabelsNext
<1>2. Spec => [](Layout /\ Labels)
  BY LayoutInit, LabelsInit, <1>1, PTL DEF Spec
<1>3. Layout /\ Labels => LabelsUnique
  BY DEF Labels
<1>. QED  BY <1>2, <1>3, PTL

\* For every instruction stream, filing a node never discards one that holds
\* an instruction.
THEOREM FilingDiscardsOnlyEmpty == Spec => OnlyEmptyReplaced
<1>1. Spec => []Layout
  BY LayoutInit, LayoutNext, PTL DEF Spec
<1>. QED  BY <1>1, OnlyEmptyReplacedStep, PTL DEF Spec, OnlyEmptyReplaced

-----------------------------------------------------------------------------
(***************************************************************************)
(* The refinement: a step of the pass closes the next block or, if it only *)
(* extends the open node or files an empty one, closes none; and when the  *)
(* pass returns, no block is owed any more.                                *)
(***************************************************************************)

Leaders == Abstract!Leaders(instructions)

\* Where closed blocks start.
Closed == {s \in DOMAIN nodes : nodes[s].end > s}

(***************************************************************************)
(* The invariant, on top of the layers above.  Nodes that                  *)
(* hold instructions start at leaders; so does the open one, which reaches *)
(* to the last instruction visited, but for a JUMPDEST that has just       *)
(* opened it; and if none is open, the last instruction ended one.         *)
(***************************************************************************)
LastVisited(q) == q \in Visited /\ \A p \in Visited : p <= q

StartsAtLeaders == Closed \subseteq Leaders

OpenRun ==
    IF IsOpenNow
    THEN \/ Visited = {} /\ currNode.start = 0 /\ currNode.end = 0
         \/ /\ currNode.start \in Leaders \cap Visited
            /\ \E q : /\ LastVisited(q)
                      /\ currNode.end = IF q = currNode.start /\ instructions[q] = OP_JUMPDEST
                                        THEN q
                                        ELSE EndOf(instructions, q)
    ELSE \E q : LastVisited(q) /\ EndsNode(q)

NothingOwed == built => Abstract!Owed(instructions) \subseteq Closed

Runs == StartsAtLeaders /\ OpenRun /\ NothingOwed

Layers == Layout /\ Coverage /\ Straightness /\ Runs

-----------------------------------------------------------------------------

LEMMA SameEndOf == \A s, o : Abstract!EndOf(s, o) = EndOf(s, o)
  BY DEF Abstract!EndOf, EndOf, Abstract!Length, Length, Abstract!IsPush, IsPush,
         Abstract!OP_PUSH1, Abstract!OP_PUSH32, OP_PUSH1, OP_PUSH32

LEMMA LeaderFacts ==
    ASSUME Layout, NEW o
    PROVE  o \in Leaders <=>
              /\ o \in DOMAIN instructions
              /\ \/ \A p \in DOMAIN instructions : o <= p
                 \/ instructions[o] = OP_JUMPDEST
                 \/ \E p \in DOMAIN instructions :
                       EndOf(instructions, p) = o /\ EndsNode(p)
<1>1. \A p \in DOMAIN instructions :
         instructions[p] \in {op \in Byte : IsBranch(op) \/ IsStop(op)} <=> EndsNode(p)
  BY DEF EndsNode, Layout, TypeOK, IsStream
<1>. QED
  BY <1>1, SameEndOf DEF Leaders, Abstract!Leaders, Abstract!OP_JUMPDEST, OP_JUMPDEST

LEMMA ClosedIsAbstract == ASSUME Layout PROVE Abstract!Closed = Closed
<1>1. \A s \in DOMAIN nodes : nodes[s].start = s
  BY DEF Layout, FiledByStart
<1>2. Blocks = {[start |-> nodes[s].start, end |-> nodes[s].end] : s \in Closed}
  BY <1>1 DEF Blocks, Closed
<1>3. \A b \in Blocks : b.start \in Closed
  BY <1>1, <1>2 DEF Closed
<1>4. ASSUME NEW s \in Closed PROVE \E b \in Blocks : b.start = s
  <2>1. [start |-> nodes[s].start, end |-> nodes[s].end] \in Blocks
    BY <1>2
  <2>2. [start |-> nodes[s].start, end |-> nodes[s].end].start = s
    BY <1>1 DEF Closed
  <2>. QED  BY <2>1, <2>2
<1>. QED
  BY <1>3, <1>4 DEF Abstract!Closed

LEMMA Smallest ==
    ASSUME NEW S \in SUBSET Nat, S # {}
    PROVE  \E n \in S : \A m \in S : n <= m
<1> DEFINE less == OpToRel(<, Nat)
<1>1. IsWellFoundedOn(less, Nat)
  BY NatLessThanWellFounded
<1>2. less = {ss \in Nat \X Nat : ss[1] < ss[2]}
  BY DEF OpToRel
<1>3. \A m, n \in Nat : m < n => <<m, n>> \in less
  BY <1>2
<1>. HIDE DEF less
<1>4. PICK n \in S : \A m \in S : ~(<<m, n>> \in less)
  BY <1>1, WFMin
<1>5. \A m \in S : ~(m < n)
  BY <1>3, <1>4
<1>6. \A m \in S : n <= m
  BY <1>5
<1>. QED
  BY <1>6

\* Behind an instruction that ends a node the next one is a leader.
LEMMA NextLeader ==
    ASSUME Layout, NEW z \in DOMAIN instructions, EndsNode(z),
           NEW p \in DOMAIN instructions, z < p
    PROVE  \E k \in Leaders : z < k /\ k <= p
<1> DEFINE behind == {q \in DOMAIN instructions : z < q}
<1>1. IsStream(instructions) /\ \A q \in DOMAIN instructions : q \in Nat
  BY EndOfBounds DEF Layout, TypeOK
<1>2. PICK k \in behind : \A q \in behind : k <= q
  <2>1. behind \in SUBSET Nat /\ behind # {}
    BY <1>1
  <2>. HIDE DEF behind
  <2>. QED  BY <2>1, Smallest
<1>3. /\ k \in DOMAIN instructions /\ z < k /\ k \in Nat /\ z \in Nat /\ k <= p
      /\ \A q \in DOMAIN instructions : z < q => k <= q
  BY <1>1, <1>2
<1>4. PICK q \in DOMAIN instructions : EndOf(instructions, q) = k
  BY <1>1, <1>3 DEF IsStream
<1>5. q \in Nat /\ q < k /\ \A r \in DOMAIN instructions : q < r => k <= r
  BY <1>1, <1>4, EndOfBounds
<1>6. q = z
  BY <1>3, <1>5
<1>. QED
  BY <1>3, <1>4, <1>6, LeaderFacts

\* A run of instructions without an end but its last and without a JUMPDEST but its
\* first holds no leader but its first.
LEMMA NoLeaderInside ==
    ASSUME Layout, NEW a \in DOMAIN instructions, NEW z \in DOMAIN instructions,
           \A p \in DOMAIN instructions : a <= p /\ p < z => ~EndsNode(p),
           \A p \in DOMAIN instructions :
               a < p /\ p <= z => instructions[p] # OP_JUMPDEST,
           NEW k \in Leaders
    PROVE  k <= a \/ z < k
<1>. SUFFICES ASSUME a < k, k <= z PROVE FALSE
  <2>1. a \in Nat /\ z \in Nat /\ k \in Nat
    BY EndOfBounds, LeaderFacts DEF Layout, TypeOK
  <2>. QED  BY <2>1
<1>1. /\ k \in DOMAIN instructions /\ a \in Nat /\ k \in Nat /\ z \in Nat
  BY EndOfBounds, LeaderFacts DEF Layout, TypeOK
<1>2. ~(k <= a) /\ instructions[k] # OP_JUMPDEST
  BY <1>1
<1>3. PICK p \in DOMAIN instructions : EndOf(instructions, p) = k /\ EndsNode(p)
  BY <1>2, LeaderFacts
<1>4. p \in Nat /\ p < k /\ (p < a => k <= a)
  BY <1>3, EndOfBounds DEF Layout, TypeOK
<1>. QED
  BY <1>1, <1>2, <1>3, <1>4

\* Such a run, if nothing behind it comes before the next leader, is a block.
LEMMA RunIsBlock ==
    ASSUME Layout, NEW a \in DOMAIN instructions, NEW z \in DOMAIN instructions, a <= z,
           \A k \in Leaders : k <= a \/ z < k,
           \A p \in DOMAIN instructions : z < p => \E k \in Leaders : a < k /\ k <= p
    PROVE  Abstract!BlockOf(instructions, a) = [start |-> a, end |-> EndOf(instructions, z)]
<1> DEFINE Ends(o) ==
              /\ a <= o
              /\ \A k \in Leaders : k <= a \/ o < k
              /\ \A p \in DOMAIN instructions : o < p => \E k \in Leaders : a < k /\ k <= p
<1>1. \A o \in DOMAIN instructions : o \in Nat
  BY EndOfBounds DEF Layout, TypeOK
<1>2. \A k \in Leaders : k \in Nat
  BY <1>1, LeaderFacts
<1>3. Ends(z)
  OBVIOUS
<1>4. ASSUME NEW o \in DOMAIN instructions, Ends(o) PROVE o = z
  BY <1>1, <1>2, <1>4
<1>5. (CHOOSE o \in DOMAIN instructions : Ends(o)) = z
  <2>. HIDE DEF Ends
  <2>. QED  BY <1>3, <1>4
<1>. QED
  BY <1>5, SameEndOf DEF Abstract!BlockOf, Leaders

-----------------------------------------------------------------------------

\* Every leader visited whose node is not the open one is closed.
LEMMA LeadersAreClosed ==
    ASSUME Layers, ~built, NEW l \in Leaders \cap Visited,
           IsOpenNow => l < currNode.start
    PROVE  l \in Closed
<1>1. /\ l \in DOMAIN instructions
      /\ \A o \in DOMAIN instructions : o \in Nat
  BY EndOfBounds, LeaderFacts DEF Layers, Layout, TypeOK
<1>2. InFiled(l)
  <2>1. IsOpenNow => currNode.start \in Nat
    BY DEF IsOpenNow, Layers, Layout, TypeOK, CFNode
  <2>2. InFiled(l) \/ (IsOpenNow /\ currNode.start <= l)
    BY DEF Layers, Coverage, VisitedInNode
  <2>. QED  BY <1>1, <2>1, <2>2
<1>3. PICK s \in DOMAIN nodes : l \in nodes[s].start .. (nodes[s].end - 1)
  BY <1>2 DEF InFiled, Filed
<1>4. s \in Nat /\ nodes[s].start = s /\ nodes[s].end \in Nat /\ s <= l /\ l < nodes[s].end
  BY <1>3, FiledNumbers DEF Layers
<1>5. s \in Closed /\ s \in DOMAIN instructions
  BY <1>1, <1>4, LeaderFacts DEF Closed, Layers, Runs, StartsAtLeaders
<1>6. \A o \in DOMAIN instructions : s <= o /\ o < nodes[s].end =>
          /\ EndsNode(o) => EndOf(instructions, o) = nodes[s].end
          /\ instructions[o] = OP_JUMPDEST => o = s
  <2>. SUFFICES ASSUME NEW o \in DOMAIN instructions, s <= o, o < nodes[s].end
                PROVE  /\ EndsNode(o) => EndOf(instructions, o) = nodes[s].end
                       /\ instructions[o] = OP_JUMPDEST => o = s
    OBVIOUS
  <2>1. o \in Filed(s)
    BY <1>1, <1>4 DEF Filed
  <2>. QED  BY <2>1 DEF Layers, Straightness, StraightLine, EndsNode
<1>7. \A p \in DOMAIN instructions : s <= p /\ p < l => ~EndsNode(p)
  <2>. SUFFICES ASSUME NEW p \in DOMAIN instructions, s <= p, p < l, EndsNode(p) PROVE FALSE
    OBVIOUS
  <2>1. p < nodes[s].end
    BY <1>1, <1>4
  <2>2. EndOf(instructions, p) <= l
    BY EndOfBounds, <1>1 DEF Layers, Layout, TypeOK
  <2>. QED  BY <1>1, <1>4, <1>6, <2>1, <2>2
<1>8. \A p \in DOMAIN instructions : s < p /\ p <= l => instructions[p] # OP_JUMPDEST
  BY <1>1, <1>4, <1>6
<1>9. l <= s \/ l < l
  BY <1>1, <1>5, <1>7, <1>8, NoLeaderInside DEF Layers
<1>. QED
  BY <1>1, <1>4, <1>5, <1>9

\* The node the visited instruction is taken into starts at a leader.
LEMMA NodeStartsAtLeader ==
    ASSUME Layers, ~built, NEW o, IsNext(o)
    PROVE  /\ Extended(o).start \in Leaders
           /\ Extended(o).start \in Visited \cup {o}
<1>1. /\ Extended(o).start = IF IsOpenNow THEN currNode.start ELSE o
  BY ExtendedFacts DEF Layers
<1>2. /\ o \in DOMAIN instructions
      /\ \A p \in DOMAIN instructions : p \in Nat
      /\ IsStream(instructions)
  BY NextFacts, EndOfBounds DEF Layers, Layout, TypeOK
<1>3. CASE IsOpenNow /\ Visited = {}
  <2>1. o = 0 /\ currNode.start = 0
    <3>1. o = 0
      BY <1>3, FirstAtZero DEF Layers
    <3>2. currNode.start = 0
      BY <1>3 DEF Layers, Runs, OpenRun
    <3>. QED  BY <3>1, <3>2
  <2>2. o \in Leaders
    BY <1>2, <2>1, LeaderFacts DEF Layers
  <2>. QED  BY <1>1, <1>3, <2>1, <2>2
<1>4. CASE IsOpenNow /\ Visited # {}
  BY <1>1, <1>4 DEF Layers, Runs, OpenRun
<1>5. CASE ~IsOpenNow
  <2>1. PICK q : LastVisited(q) /\ EndsNode(q)
    BY <1>5 DEF Layers, Runs, OpenRun
  <2>2. CASE o = 0
    BY <1>1, <1>2, <1>5, <2>2, LeaderFacts DEF Layers
  <2>3. CASE o # 0
    <3>1. PICK p \in DOMAIN instructions : EndOf(instructions, p) = o
      BY <1>2, <2>3 DEF IsStream
    <3>2. p < o /\ q \in DOMAIN instructions /\ (p < q => o <= q)
      BY <1>2, <2>1, <3>1, EndOfBounds DEF LastVisited, Visited
    <3>3. p \in Visited /\ q < o
      BY <1>2, <2>1, <3>2 DEF IsNext, Visited, LastVisited, Layers, Layout, Ordered
    <3>4. p = q
      BY <1>2, <2>1, <3>2, <3>3 DEF LastVisited
    <3>5. o \in Leaders
      BY <1>2, <2>1, <3>1, <3>4, LeaderFacts DEF Layers
    <3>. QED  BY <1>1, <1>5, <3>5
  <2>. QED  BY <2>2, <2>3
<1>. QED
  BY <1>3, <1>4, <1>5

-----------------------------------------------------------------------------

\* Filing a node that holds instructions adds its block, whatever is filed under its
\* start holding none.
LEMMA FilingAddsBlock ==
    ASSUME Layout, NEW k, NEW v, v.start = k, v.end > k,
           k \in DOMAIN nodes => ~(nodes[k].end > k),
           nodes' = Store(nodes, k, v)
    PROVE  /\ Blocks' = Blocks \cup {[start |-> k, end |-> v.end]}
           /\ Closed' = Closed \cup {k}
<1>1. /\ DOMAIN nodes' = DOMAIN nodes \cup {k}
      /\ nodes'[k] = v
      /\ \A s \in DOMAIN nodes : s # k => nodes'[s] = nodes[s]
  BY DEF Store
<1>2. \A s \in DOMAIN nodes : nodes[s].start = s
  BY DEF Layout, FiledByStart
<1>3. Closed' = Closed \cup {k}
  BY <1>1 DEF Closed
<1>4. Blocks = {[start |-> nodes[s].start, end |-> nodes[s].end] : s \in Closed}
  BY <1>2 DEF Blocks, Closed
<1>5. Blocks' = {[start |-> nodes'[s].start, end |-> nodes'[s].end] : s \in Closed'}
  BY <1>1, <1>2 DEF Blocks, Closed
<1>6. k \notin Closed /\ \A s \in Closed : nodes'[s] = nodes[s]
  BY <1>1 DEF Closed
<1>7. Blocks' = Blocks \cup {[start |-> k, end |-> v.end]}
  BY <1>1, <1>3, <1>4, <1>5, <1>6
<1>. QED
  BY <1>3, <1>7

\* Filing an empty node in place of none or of an empty one changes no block.
LEMMA FilingEmptyStutters ==
    ASSUME Layout, NEW k, NEW v, v.start = k, ~(v.end > k),
           k \in DOMAIN nodes => ~(nodes[k].end > k),
           nodes' = Store(nodes, k, v)
    PROVE  Blocks' = Blocks /\ Closed' = Closed
<1>1. /\ DOMAIN nodes' = DOMAIN nodes \cup {k}
      /\ nodes'[k] = v
      /\ \A s \in DOMAIN nodes : s # k => nodes'[s] = nodes[s]
  BY DEF Store
<1>2. \A s \in DOMAIN nodes : nodes[s].start = s
  BY DEF Layout, FiledByStart
<1>3. Closed' = Closed
  BY <1>1 DEF Closed
<1>4. Blocks = {[start |-> nodes[s].start, end |-> nodes[s].end] : s \in Closed}
  BY <1>2 DEF Blocks, Closed
<1>5. Blocks' = {[start |-> nodes'[s].start, end |-> nodes'[s].end] : s \in Closed'}
  BY <1>1, <1>2 DEF Blocks, Closed
<1>6. k \notin Closed /\ \A s \in Closed : nodes'[s] = nodes[s]
  BY <1>1 DEF Closed
<1>. QED
  BY <1>3, <1>4, <1>5, <1>6

\* Filing the run of instructions from leader k to z, every leader in front of it being
\* closed, is a step of BasicBlocks.
LEMMA FilingCloses ==
    ASSUME Layout, NEW k \in Leaders, NEW z \in DOMAIN instructions, k <= z, NEW v,
           v.start = k, v.end = EndOf(instructions, z),
           k \in DOMAIN nodes => ~(nodes[k].end > k),
           nodes' = Store(nodes, k, v), instructions' = instructions,
           \A l \in Leaders : l < k => l \in Closed,
           \A l \in Leaders : l <= k \/ z < l,
           \A p \in DOMAIN instructions : z < p => \E l \in Leaders : k < l /\ l <= p,
           ~(instructions[k] = OP_JUMPDEST /\ \A p \in DOMAIN instructions : p <= k)
    PROVE  /\ Abstract!Next
           /\ Closed' = Closed \cup {k}
<1>1. /\ k \in DOMAIN instructions
      /\ \A o \in DOMAIN instructions : o \in Nat
      /\ EndOf(instructions, z) \in Nat /\ z < EndOf(instructions, z)
  BY EndOfBounds, LeaderFacts DEF Layout, TypeOK
<1>2. \A l \in Leaders : l \in Nat
  BY <1>1, LeaderFacts
<1>3. v.end > k
  BY <1>1
<1>4. /\ Blocks' = Blocks \cup {[start |-> k, end |-> EndOf(instructions, z)]}
      /\ Closed' = Closed \cup {k}
  BY <1>3, FilingAddsBlock
<1>5. Abstract!BlockOf(instructions, k) = [start |-> k, end |-> EndOf(instructions, z)]
  BY <1>1, RunIsBlock
<1>6. Abstract!Closed = Closed
  BY ClosedIsAbstract
<1>7. k \in Abstract!Owed(instructions) \ Closed
  BY DEF Abstract!Owed, Abstract!IsLoneTail, Abstract!OP_JUMPDEST, OP_JUMPDEST, Leaders, Closed
<1>8. Abstract!Close(k)
  <2>1. \A l \in Abstract!Leaders(instructions) \ Abstract!Closed : k <= l
    BY <1>1, <1>2, <1>6 DEF Leaders
  <2>. QED
    BY <1>4, <1>5, <2>1 DEF Abstract!Close
<1>9. Abstract!Next
  BY <1>6, <1>7, <1>8 DEF Abstract!Next
<1>. QED
  BY <1>4, <1>9

-----------------------------------------------------------------------------

Refines == Abstract!Next \/ UNCHANGED <<instructions, Blocks>>

LEMMA LeadersKept == instructions' = instructions => Leaders' = Leaders
  BY DEF Leaders, Abstract!Leaders, Abstract!EndOf, Abstract!Length, Abstract!IsPush

\* What lies in front of the node the visited instruction is taken into, and what is in
\* it already.
LEMMA NodeFacts ==
    ASSUME Layers, NEW o \in remaining, Visit(o), NEW k, k = Extended(o).start
    PROVE  /\ ~built /\ IsNext(o) /\ o \in DOMAIN instructions /\ o \in Nat
           /\ k \in Leaders /\ k \in DOMAIN instructions /\ k \in Nat /\ k <= o
           /\ k \in Visited \cup {o}
           /\ k \in DOMAIN nodes => ~(nodes[k].end > k)
           /\ \A l \in Leaders : l < k => l \in Closed
           /\ \A p \in DOMAIN instructions : k <= p /\ p < o => ~EndsNode(p)
           /\ \A p \in DOMAIN instructions : k < p /\ p < o => instructions[p] # OP_JUMPDEST
<1>1. /\ IsNext(o) /\ ~built /\ o \in Nat /\ o \in DOMAIN instructions
      /\ \A p \in DOMAIN instructions \ Visited : o <= p
      /\ \A p \in DOMAIN instructions : p \in Nat
  BY VisitFacts, NextFacts, EndOfBounds DEF Layers, Layout, TypeOK, IsNext, Visited
<1>2. /\ k \in Nat /\ k <= o
      /\ k = IF IsOpenNow THEN currNode.start ELSE o
      /\ k \in DOMAIN nodes => nodes[k].end = k
  BY <1>1, ExtendedFacts DEF Layers
<1>3. k \in Leaders /\ k \in Visited \cup {o}
  BY <1>1, NodeStartsAtLeader
<1>4. k \in DOMAIN instructions
  BY <1>3, LeaderFacts DEF Layers
<1>5. ASSUME NEW l \in Leaders, l < k PROVE l \in Closed
  <2>1. l \in DOMAIN instructions
    BY LeaderFacts DEF Layers
  <2>2. l \in Visited
    BY <1>1, <1>2, <1>5, <2>1
  <2>. QED  BY <1>1, <1>2, <1>5, <2>2, LeadersAreClosed
<1>6. ASSUME NEW p \in DOMAIN instructions, k <= p, p < o
      PROVE  ~EndsNode(p) /\ (instructions[p] = OP_JUMPDEST => p = k)
  <2>1. p \in Visited
    BY <1>1, <1>6
  <2>2. IsOpenNow /\ currNode.start = k
    BY <1>1, <1>2, <1>6
  <2>. QED  BY <1>6, <2>1, <2>2 DEF Layers, Straightness, OpenStraight
<1>7. \A p \in DOMAIN instructions : k < p /\ p < o => instructions[p] # OP_JUMPDEST
  BY <1>1, <1>2, <1>6
<1>8. k \in DOMAIN nodes => ~(nodes[k].end > k)
  BY <1>2
<1>9. \A p \in DOMAIN instructions : k <= p /\ p < o => ~EndsNode(p)
  BY <1>6
<1>. QED
  BY <1>1, <1>2, <1>3, <1>4, <1>5, <1>7, <1>8, <1>9

\* A branch or a stop closes a block.
LEMMA CloseRefines ==
    ASSUME Layers, NEW o \in remaining, CloseNode(o)
    PROVE  Refines /\ Runs'
<1> DEFINE node == Extended(o)
           k == node.start
<1>1. Visit(o)
  BY DEF Visit
<1>2. /\ ~built /\ IsNext(o) /\ o \in DOMAIN instructions /\ o \in Nat
      /\ k \in Leaders /\ k \in DOMAIN instructions /\ k \in Nat /\ k <= o
      /\ k \in DOMAIN nodes => ~(nodes[k].end > k)
      /\ \A l \in Leaders : l < k => l \in Closed
      /\ \A p \in DOMAIN instructions : k <= p /\ p < o => ~EndsNode(p)
      /\ \A p \in DOMAIN instructions : k < p /\ p < o => instructions[p] # OP_JUMPDEST
  BY <1>1, NodeFacts
<1>3. /\ EndsNode(o) /\ instructions' = instructions /\ built' = built
      /\ nodes' = Store(nodes, k, node) /\ currNode' = FreshNode
  BY DEF CloseNode
<1>4. node.end = EndOf(instructions, o)
  BY <1>2, ExtendedFacts DEF Layers
<1>5. instructions[o] # OP_JUMPDEST
  BY <1>3 DEF EndsNode, IsBranch, IsStop, OP_JUMPDEST, OP_JUMP, OP_JUMPI, OP_STOP, OP_RETURN,
              OP_INVALID, OP_SUICIDE
<1>6. \A p \in DOMAIN instructions : p \in Nat
  BY EndOfBounds DEF Layers, Layout, TypeOK
<1>. HIDE DEF node
<1>7. \A l \in Leaders : l <= k \/ o < l
  <2>1. \A p \in DOMAIN instructions : k < p /\ p <= o => instructions[p] # OP_JUMPDEST
    BY <1>2, <1>5, <1>6
  <2>. QED  BY <1>2, <2>1, NoLeaderInside DEF Layers
<1>8. \A p \in DOMAIN instructions : o < p => \E l \in Leaders : k < l /\ l <= p
  <2>. SUFFICES ASSUME NEW p \in DOMAIN instructions, o < p
                PROVE  \E l \in Leaders : k < l /\ l <= p
    OBVIOUS
  <2>1. PICK l \in Leaders : o < l /\ l <= p
    BY <1>2, <1>3, NextLeader DEF Layers
  <2>2. l \in Nat
    BY <1>6, LeaderFacts DEF Layers
  <2>. QED  BY <1>2, <2>1, <2>2
<1>9. ~(instructions[k] = OP_JUMPDEST /\ \A p \in DOMAIN instructions : p <= k)
  BY <1>2, <1>5
<1>10. Abstract!Next /\ Closed' = Closed \cup {k}
  BY <1>2, <1>3, <1>4, <1>7, <1>8, <1>9, FilingCloses DEF Layers
<1>11. Leaders' = Leaders
  BY <1>3, LeadersKept
<1>12. StartsAtLeaders'
  BY <1>2, <1>10, <1>11 DEF Layers, Runs, StartsAtLeaders
<1>13. OpenRun'
  <2>1. ~IsOpenNow'
    BY <1>3 DEF IsOpenNow, FreshNode
  <2>2. Visited' = Visited \cup {o} /\ \A p \in Visited : p < o
    BY <1>1, VisitFacts DEF Layers
  <2>3. LastVisited(o)'
    BY <1>2, <2>2, <1>6 DEF LastVisited, Visited
  <2>4. EndsNode(o)'
    BY <1>3 DEF EndsNode
  <2>. QED  BY <2>1, <2>3, <2>4 DEF OpenRun
<1>14. NothingOwed'
  BY <1>2, <1>3 DEF NothingOwed
<1>. QED
  BY <1>10, <1>12, <1>13, <1>14 DEF Refines, Runs

\* A JUMPDEST closes the block in front of it, if there is one, and opens a node.
LEMMA SplitRefines ==
    ASSUME Layers, NEW o \in remaining, SplitNode(o)
    PROVE  Refines /\ Runs'
<1> DEFINE node == Extended(o)
           k == node.start
           before == BeforeJumpDest(node)
<1>1. Visit(o)
  BY DEF Visit
<1>2. /\ ~built /\ IsNext(o) /\ o \in DOMAIN instructions /\ o \in Nat
      /\ k \in Leaders /\ k \in DOMAIN instructions /\ k \in Nat /\ k <= o
      /\ k \in DOMAIN nodes => ~(nodes[k].end > k)
      /\ \A l \in Leaders : l < k => l \in Closed
      /\ \A p \in DOMAIN instructions : k <= p /\ p < o => ~EndsNode(p)
      /\ \A p \in DOMAIN instructions : k < p /\ p < o => instructions[p] # OP_JUMPDEST
  BY <1>1, NodeFacts
<1>3. /\ node \in CFNode /\ node.end = EndOf(instructions, o)
      /\ EndOf(instructions, o) = o + 1
  BY <1>2, ExtendedFacts, NextFacts DEF Layers, SplitNode
<1>4. before.start = k /\ before.end = o
  BY <1>2, <1>3 DEF BeforeJumpDest, CFNode
<1>5. /\ instructions[o] = OP_JUMPDEST /\ instructions' = instructions /\ built' = built
      /\ nodes' = Store(nodes, k, before) /\ currNode' = JumpDestNode(o)
  <2>1. ~(node.end - node.start = 0)
    BY <1>2, <1>3
  <2>. QED  BY <2>1 DEF SplitNode
<1>6. /\ \A p \in DOMAIN instructions : p \in Nat
      /\ IsStream(instructions)
  BY EndOfBounds DEF Layers, Layout, TypeOK
<1>. HIDE DEF node, before
<1>7. o \in Leaders
  BY <1>2, <1>5, LeaderFacts DEF Layers
<1>8. Refines /\ Closed' \subseteq Closed \cup {k}
  <2>1. CASE k = o
    <3>1. ~(before.end > k)
      BY <1>2, <1>4, <2>1
    <3>2. Blocks' = Blocks /\ Closed' = Closed
      BY <1>2, <1>4, <1>5, <3>1, FilingEmptyStutters DEF Layers
    <3>. QED  BY <1>5, <3>2 DEF Refines
  <2>2. CASE k # o
    <3>1. PICK z \in DOMAIN instructions : EndOf(instructions, z) = o
      BY <1>2, <1>6, <2>2 DEF IsStream
    <3>2. /\ z \in Nat /\ z < o /\ k <= z
          /\ \A p \in DOMAIN instructions : z < p => o <= p
      <4>1. z \in Nat /\ z < o /\ \A p \in DOMAIN instructions : z < p => o <= p
        BY <1>6, <3>1, EndOfBounds
      <4>. QED  BY <1>2, <2>2, <4>1
    <3>3. \A l \in Leaders : l <= k \/ z < l
      <4>1. /\ \A p \in DOMAIN instructions : k <= p /\ p < z => ~EndsNode(p)
            /\ \A p \in DOMAIN instructions : k < p /\ p <= z => instructions[p] # OP_JUMPDEST
        BY <1>2, <1>6, <3>2
      <4>. QED  BY <1>2, <4>1, NoLeaderInside DEF Layers
    <3>4. \A p \in DOMAIN instructions : z < p => \E l \in Leaders : k < l /\ l <= p
      <4>1. k < o
        BY <1>2, <2>2
      <4>. QED  BY <1>7, <3>2, <4>1
    <3>5. ~(instructions[k] = OP_JUMPDEST /\ \A p \in DOMAIN instructions : p <= k)
      BY <1>2, <2>2
    <3>6. Abstract!Next /\ Closed' = Closed \cup {k}
      BY <1>2, <1>4, <1>5, <3>1, <3>2, <3>3, <3>4, <3>5, FilingCloses DEF Layers
    <3>. QED  BY <3>6 DEF Refines
  <2>. QED  BY <2>1, <2>2
<1>9. Leaders' = Leaders
  BY <1>5, LeadersKept
<1>10. StartsAtLeaders'
  BY <1>2, <1>8, <1>9 DEF Layers, Runs, StartsAtLeaders
<1>11. OpenRun'
  <2>1. IsOpenNow' /\ currNode'.start = o /\ currNode'.end = o
    BY <1>2, <1>5 DEF IsOpenNow, JumpDestNode, Unset
  <2>2. Visited' = Visited \cup {o} /\ \A p \in Visited : p < o
    BY <1>1, VisitFacts DEF Layers
  <2>3. LastVisited(o)'
    BY <1>2, <2>2, <1>6 DEF LastVisited, Visited
  <2>. QED  BY <1>5, <1>7, <1>9, <2>1, <2>2, <2>3 DEF OpenRun
<1>12. NothingOwed'
  BY <1>2, <1>5 DEF NothingOwed
<1>. QED
  BY <1>8, <1>10, <1>11, <1>12 DEF Runs

\* Any other instruction closes nothing.
LEMMA ExtendRefines ==
    ASSUME Layers, NEW o \in remaining, ExtendNode(o)
    PROVE  Refines /\ Runs'
<1> DEFINE node == Extended(o)
           k == node.start
<1>1. Visit(o)
  BY DEF Visit
<1>2. /\ ~built /\ IsNext(o) /\ o \in DOMAIN instructions /\ o \in Nat
      /\ k \in Leaders /\ k \in Nat /\ k \in Visited \cup {o}
  BY <1>1, NodeFacts
<1>3. node.end = EndOf(instructions, o)
  BY <1>2, ExtendedFacts DEF Layers
<1>4. /\ instructions[o] # OP_JUMPDEST /\ instructions' = instructions /\ built' = built
      /\ nodes' = nodes /\ currNode' = node
  BY DEF ExtendNode
<1>. HIDE DEF node
<1>5. \A p \in DOMAIN instructions : p \in Nat
  BY EndOfBounds DEF Layers, Layout, TypeOK
<1>6. Blocks' = Blocks /\ Closed' = Closed
  BY <1>4 DEF Blocks, Closed
<1>7. Leaders' = Leaders
  BY <1>4, LeadersKept
<1>8. StartsAtLeaders'
  BY <1>6, <1>7 DEF Layers, Runs, StartsAtLeaders
<1>9. OpenRun'
  <2>1. IsOpenNow' /\ currNode'.start = k /\ currNode'.end = EndOf(instructions, o)
    BY <1>2, <1>3, <1>4 DEF IsOpenNow, Unset
  <2>2. Visited' = Visited \cup {o} /\ \A p \in Visited : p < o
    BY <1>1, VisitFacts DEF Layers
  <2>3. LastVisited(o)'
    BY <1>2, <2>2, <1>5 DEF LastVisited, Visited
  <2>4. EndOf(instructions, o)' = EndOf(instructions, o)
    BY <1>4 DEF EndOf
  <2>. QED  BY <1>2, <1>4, <1>7, <2>1, <2>2, <2>3, <2>4 DEF OpenRun
<1>10. NothingOwed'
  BY <1>2, <1>4 DEF NothingOwed
<1>. QED
  BY <1>4, <1>6, <1>8, <1>9, <1>10 DEF Refines, Runs

\* The flush closes the last block, unless it is a lone JUMPDEST, and all are closed.
LEMMA FlushRefines ==
    ASSUME Layers, FlushNode
    PROVE  Refines /\ Runs'
<1> DEFINE k == currNode.start
<1>1. /\ remaining = {} /\ ~built /\ built' /\ currNode' = currNode
      /\ instructions' = instructions /\ remaining' = remaining
      /\ Visited = DOMAIN instructions /\ Visited' = Visited
  BY DEF FlushNode, Visited
<1>2. /\ \A p \in DOMAIN instructions : p \in Nat
      /\ \A l \in Leaders : l \in DOMAIN instructions
  BY EndOfBounds, LeaderFacts DEF Layers, Layout, TypeOK
<1>3. Leaders' = Leaders
  BY <1>1, LeadersKept
<1>4. OpenRun'
  <2>1. OpenRun /\ IsOpenNow' = IsOpenNow
    BY <1>1 DEF Layers, Runs, IsOpenNow
  <2>2. \A q : /\ LastVisited(q)' <=> LastVisited(q)
               /\ EndsNode(q)' <=> EndsNode(q)
               /\ EndOf(instructions, q)' = EndOf(instructions, q)
    BY <1>1 DEF LastVisited, EndsNode, EndOf
  <2>. QED  BY <1>1, <1>3, <2>1, <2>2 DEF OpenRun
<1>5. Abstract!Owed(instructions)' = Abstract!Owed(instructions)
  BY <1>1 DEF Abstract!Owed, Abstract!IsLoneTail, Abstract!Leaders
<1>6. \A l \in Abstract!Owed(instructions) :
         /\ l \in Leaders
         /\ ~(instructions[l] = OP_JUMPDEST /\ \A p \in DOMAIN instructions : p <= l)
  BY DEF Abstract!Owed, Abstract!IsLoneTail, Abstract!OP_JUMPDEST, OP_JUMPDEST, Leaders
<1>7. CASE ~IsOpenNow
  <2>1. nodes' = nodes
    BY <1>7 DEF FlushNode, IsOpen, IsOpenNow
  <2>2. Blocks' = Blocks /\ Closed' = Closed
    BY <2>1 DEF Blocks, Closed
  <2>3. \A l \in Leaders : l \in Closed
    BY <1>1, <1>2, <1>7, LeadersAreClosed
  <2>. QED
    BY <1>1, <1>3, <1>4, <1>5, <1>6, <2>2, <2>3
    DEF Refines, Layers, Runs, StartsAtLeaders, NothingOwed
<1>8. CASE IsOpenNow /\ DOMAIN instructions = {}
  <2>1. ~IsOpen(currNode)
    BY <1>1, <1>8 DEF Layers, Runs, OpenRun, IsOpen
  <2>2. nodes' = nodes
    BY <2>1 DEF FlushNode
  <2>3. Blocks' = Blocks /\ Closed' = Closed
    BY <2>2 DEF Blocks, Closed
  <2>4. \A l \in Leaders : l \in Closed
    BY <1>2, <1>8
  <2>. QED
    BY <1>1, <1>3, <1>4, <1>5, <1>6, <2>3, <2>4
    DEF Refines, Layers, Runs, StartsAtLeaders, NothingOwed
<1>9. CASE IsOpenNow /\ DOMAIN instructions # {}
  <2>1. /\ k \in Leaders /\ k \in DOMAIN instructions /\ k \in Nat
    BY <1>1, <1>2, <1>9 DEF Layers, Runs, OpenRun
  <2>2. PICK q : /\ LastVisited(q)
                 /\ currNode.end = IF q = k /\ instructions[q] = OP_JUMPDEST
                                   THEN q ELSE EndOf(instructions, q)
    BY <1>1, <1>9 DEF Layers, Runs, OpenRun
  <2>3. /\ q \in DOMAIN instructions /\ q \in Nat /\ k <= q
        /\ \A p \in DOMAIN instructions : p <= q
        /\ q < EndOf(instructions, q) /\ EndOf(instructions, q) \in Nat
    BY <1>1, <1>2, <2>1, <2>2, EndOfBounds DEF LastVisited, Layers, Layout, TypeOK
  <2>4. \A l \in Leaders : l < k => l \in Closed
    BY <1>1, <1>2, <1>9, LeadersAreClosed
  <2>5. \A l \in Leaders : l <= k \/ q < l
    <3>1. \A p \in DOMAIN instructions : k <= p =>
             ~EndsNode(p) /\ (instructions[p] = OP_JUMPDEST => p = k)
      BY <1>1, <1>9 DEF Layers, Straightness, OpenStraight
    <3>2. \A p \in DOMAIN instructions : k < p => instructions[p] # OP_JUMPDEST
      BY <1>2, <2>1, <3>1
    <3>. QED
      BY <2>1, <2>3, <3>1, <3>2, NoLeaderInside DEF Layers
  <2>6. \A l \in Leaders : l = k \/ l \in Closed
    BY <1>2, <2>1, <2>3, <2>4, <2>5
  <2>7. CASE q = k /\ instructions[q] = OP_JUMPDEST
    <3>1. ~IsOpen(currNode)
      BY <2>2, <2>7 DEF IsOpen
    <3>2. nodes' = nodes
      BY <3>1 DEF FlushNode
    <3>3. Blocks' = Blocks /\ Closed' = Closed
      BY <3>2 DEF Blocks, Closed
    <3>4. Abstract!Owed(instructions) \subseteq Closed
      BY <1>6, <2>3, <2>6, <2>7
    <3>. QED
      BY <1>1, <1>3, <1>4, <1>5, <3>3, <3>4
      DEF Refines, Layers, Runs, StartsAtLeaders, NothingOwed
  <2>8. CASE ~(q = k /\ instructions[q] = OP_JUMPDEST)
    <3>1. currNode.end = EndOf(instructions, q)
      BY <2>2, <2>8
    <3>2. IsOpen(currNode)
      BY <1>9, <2>1, <2>3, <3>1 DEF IsOpen, IsOpenNow
    <3>3. nodes' = Store(nodes, k, currNode)
      BY <3>2 DEF FlushNode
    <3>4. k \in DOMAIN nodes => ~(nodes[k].end > k)
      <4>1. \A s \in DOMAIN nodes : nodes[s].end <= k
        BY <1>1, <1>9 DEF Layers, Layout, OpenBehindFiled
      <4>. QED  BY <2>1, <4>1, FiledNumbers DEF Layers
    <3>5. ~(instructions[k] = OP_JUMPDEST /\ \A p \in DOMAIN instructions : p <= k)
      BY <2>1, <2>3, <2>8
    <3>6. \A p \in DOMAIN instructions : q < p => \E l \in Leaders : k < l /\ l <= p
      BY <1>2, <2>3
    <3>7. Abstract!Next /\ Closed' = Closed \cup {k}
      BY <1>1, <2>1, <2>3, <2>4, <2>5, <3>1, <3>3, <3>4, <3>5, <3>6, FilingCloses DEF Layers
    <3>8. StartsAtLeaders'
      BY <1>3, <2>1, <3>7 DEF Layers, Runs, StartsAtLeaders
    <3>9. NothingOwed'
      BY <1>5, <1>6, <2>6, <3>7 DEF NothingOwed
    <3>. QED
      BY <1>4, <3>7, <3>8, <3>9 DEF Refines, Runs
  <2>. QED  BY <2>7, <2>8
<1>. QED
  BY <1>7, <1>8, <1>9

-----------------------------------------------------------------------------

LEMMA InitRefines == Init => Abstract!Init /\ Runs
<1>. SUFFICES ASSUME Init PROVE Abstract!Init /\ Runs
  OBVIOUS
<1>1. /\ Layout /\ DOMAIN nodes = {} /\ Visited = {} /\ ~built
      /\ currNode.start = 0 /\ currNode.end = 0 /\ IsOpenNow
  BY LayoutInit DEF Init, Visited, IsOpenNow, Unset
<1>2. Blocks = {} /\ Closed = {}
  BY <1>1 DEF Blocks, Closed
<1>3. Abstract!IsStream(instructions)
  BY <1>1, SameEndOf DEF Layout, TypeOK, IsStream, Abstract!IsStream, Abstract!Byte, Byte
<1>. QED
  BY <1>1, <1>2, <1>3 DEF Abstract!Init, Runs, StartsAtLeaders, OpenRun, NothingOwed

LEMMA StepRefines == Layers /\ [Next]_graphVars => Refines /\ Runs'
<1>. SUFFICES ASSUME Layers, [Next]_graphVars PROVE Refines /\ Runs'
  OBVIOUS
<1>1. ASSUME NEW o \in remaining, Visit(o) PROVE Refines /\ Runs'
  BY <1>1, CloseRefines, SplitRefines, ExtendRefines DEF Visit
<1>2. CASE UNCHANGED graphVars
  <2>1. Refines
    BY <1>2 DEF graphVars, Refines, Blocks
  <2>2. Leaders' = Leaders /\ Closed' = Closed
    BY <1>2, LeadersKept DEF graphVars, Closed
  <2>3. OpenRun'
    <3>1. OpenRun /\ IsOpenNow' = IsOpenNow /\ Visited' = Visited
      BY <1>2 DEF Layers, Runs, IsOpenNow, Visited, graphVars
    <3>2. \A q : /\ LastVisited(q)' <=> LastVisited(q)
                 /\ EndsNode(q)' <=> EndsNode(q)
                 /\ EndOf(instructions, q)' = EndOf(instructions, q)
      BY <1>2 DEF LastVisited, Visited, EndsNode, EndOf, graphVars
    <3>. QED  BY <1>2, <2>2, <3>1, <3>2 DEF OpenRun, graphVars
  <2>4. StartsAtLeaders' /\ NothingOwed'
    <3>1. Abstract!Owed(instructions)' = Abstract!Owed(instructions)
      BY <1>2 DEF graphVars, Abstract!Owed, Abstract!IsLoneTail, Abstract!Leaders
    <3>. QED
      BY <1>2, <2>2, <3>1 DEF graphVars, Layers, Runs, StartsAtLeaders, NothingOwed
  <2>. QED  BY <2>1, <2>3, <2>4 DEF Runs
<1>. QED
  BY <1>1, <1>2, FlushRefines DEF Next

LEMMA LayersInit == Init => Layers
  BY LayoutInit, CoverageInit, StraightnessInit, InitRefines DEF Layers

LEMMA LayersNext == Layers /\ [Next]_graphVars => Layers'
  BY LayoutNext, CoverageNext, StraightnessNext, StepRefines DEF Layers

LEMMA LayersHold == Spec => []Layers
  BY LayersInit, LayersNext, PTL DEF Spec

-----------------------------------------------------------------------------
(***************************************************************************)
(* What the pass hands on to startGraph: a node that holds instructions    *)
(* ends behind one of them, an empty one was filed for a JUMPDEST that     *)
(* nothing falls into and is replaced unless that ends the code; each such *)
(* JUMPDEST has a key in the map; flags are right, and no node that holds  *)
(* instructions starts at a JUMPDEST that ends the code.                   *)
(***************************************************************************)

\* A JUMPDEST behind a branch or a stop, or at the start of the code.
Apart(o) ==
    /\ instructions[o] = OP_JUMPDEST
    /\ \A p \in DOMAIN instructions : EndOf(instructions, p) = o => EndsNode(p)

EndsBehind(s) ==
    /\ nodes[s].end > s
    /\ \E q \in DOMAIN instructions : s <= q /\ EndOf(instructions, q) = nodes[s].end

IsEmptyAt(s) ==
    /\ nodes[s].end = s
    /\ s \in Visited /\ Apart(s)
    /\ IF built THEN \A p \in DOMAIN instructions : p <= s ELSE currNode.start = s

NodeEnds == \A s \in DOMAIN nodes : EndsBehind(s) \/ IsEmptyAt(s)

JumpDestsFiled == \A o \in Visited : Apart(o) => o \in DOMAIN nodes

TailLeftOut == Closed \subseteq Abstract!Owed(instructions)

Handed == Layers /\ NodeEnds /\ JumpDestsFiled /\ Flags /\ TailLeftOut

\* Only blocks that are owed are closed.
LEMMA TailStaysOut == Layers /\ TailLeftOut /\ [Next]_graphVars => TailLeftOut'
<1>. SUFFICES ASSUME Layers, TailLeftOut, [Next]_graphVars PROVE TailLeftOut'
  OBVIOUS
<1>1. Layers' /\ Refines
  BY LayersNext, StepRefines
<1>2. Abstract!Closed = Closed
  BY ClosedIsAbstract DEF Layers
<1>3. Abstract!Closed' = Closed'
  <2>1. (Layout => Abstract!Closed = Closed)'
    BY ClosedIsAbstract, PTL
  <2>. QED
    BY <1>1, <2>1 DEF Layers
<1>4. CASE Abstract!Next
  <2>1. PICK l \in Abstract!Owed(instructions) : Abstract!Close(l)
    BY <1>4 DEF Abstract!Next
  <2>2. /\ Blocks' = Blocks \cup {Abstract!BlockOf(instructions, l)}
        /\ instructions' = instructions
    BY <2>1 DEF Abstract!Close
  <2>3. Abstract!BlockOf(instructions, l).start = l
    BY DEF Abstract!BlockOf
  <2>4. Abstract!Closed' = Abstract!Closed \cup {l}
    BY <2>2, <2>3 DEF Abstract!Closed
  <2>5. Abstract!Owed(instructions)' = Abstract!Owed(instructions)
    BY <2>2
  <2>. QED
    BY <1>2, <1>3, <2>4, <2>5 DEF TailLeftOut
<1>5. CASE UNCHANGED <<instructions, Blocks>>
  <2>1. Abstract!Closed' = Abstract!Closed
    BY <1>5 DEF Abstract!Closed
  <2>2. Abstract!Owed(instructions)' = Abstract!Owed(instructions)
    BY <1>5
  <2>. QED
    BY <1>2, <1>3, <2>1, <2>2 DEF TailLeftOut
<1>. QED  BY <1>1, <1>4, <1>5 DEF Refines

LEMMA HandedInit == Init => Handed
<1>. SUFFICES ASSUME Init PROVE Handed
  OBVIOUS
<1>1. Layers
  BY LayersInit
<1>2. DOMAIN nodes = {} /\ Visited = {}
  BY DEF Init, Visited
<1>. QED
  BY <1>1, <1>2, FlagsInit DEF Handed, NodeEnds, JumpDestsFiled, TailLeftOut, Closed

\* Filing a node that ends behind an instruction, in place of whatever was empty.
LEMMA FilingKeepsEnds ==
    ASSUME NodeEnds, NEW k, NEW v, v.end > k, NEW q \in DOMAIN instructions,
           k <= q, EndOf(instructions, q) = v.end,
           nodes' = Store(nodes, k, v), instructions' = instructions,
           \A s \in DOMAIN nodes : IsEmptyAt(s) => s = k
    PROVE  NodeEnds'
<1>1. /\ DOMAIN nodes' = DOMAIN nodes \cup {k}
      /\ nodes'[k] = v
      /\ \A s \in DOMAIN nodes : s # k => nodes'[s] = nodes[s]
  BY DEF Store
<1>2. EndsBehind(k)'
  BY <1>1 DEF EndsBehind, EndOf
<1>3. ASSUME NEW s \in DOMAIN nodes, s # k PROVE EndsBehind(s)'
  <2>1. EndsBehind(s)
    BY <1>3 DEF NodeEnds
  <2>. QED  BY <1>1, <1>3, <2>1 DEF EndsBehind, EndOf
<1>. QED  BY <1>1, <1>2, <1>3 DEF NodeEnds

\* What is filed for a JUMPDEST: nothing before it makes the node an empty one.
LEMMA SplitHands ==
    ASSUME Handed, NEW o \in remaining, SplitNode(o)
    PROVE  NodeEnds' /\ JumpDestsFiled'
<1> DEFINE node == Extended(o)
           k == node.start
           before == BeforeJumpDest(node)
<1>1. Visit(o) /\ Layers
  BY DEF Visit, Handed
<1>2. /\ ~built /\ IsNext(o) /\ o \in DOMAIN instructions /\ o \in Nat
      /\ k \in Nat /\ k <= o
      /\ \A p \in DOMAIN instructions : k <= p /\ p < o => ~EndsNode(p)
  BY <1>1, NodeFacts
<1>3. /\ node \in CFNode /\ node.end = EndOf(instructions, o)
      /\ EndOf(instructions, o) = o + 1
      /\ k = IF IsOpenNow THEN currNode.start ELSE o
  BY <1>1, <1>2, ExtendedFacts, NextFacts DEF Layers, SplitNode
<1>4. before.start = k /\ before.end = o
  BY <1>2, <1>3 DEF BeforeJumpDest, CFNode
<1>5. /\ instructions[o] = OP_JUMPDEST /\ instructions' = instructions /\ built' = built
      /\ nodes' = Store(nodes, k, before) /\ currNode' = JumpDestNode(o)
  <2>1. ~(node.end - node.start = 0)
    BY <1>2, <1>3
  <2>. QED  BY <2>1 DEF SplitNode
<1>6. /\ IsStream(instructions)
      /\ \A p \in DOMAIN instructions : p \in Nat
      /\ Visited' = Visited \cup {o} /\ \A p \in Visited : p < o
  BY <1>1, EndOfBounds, VisitFacts DEF Layers, Layout, TypeOK
<1>. HIDE DEF node, before
<1>7. \A s \in DOMAIN nodes : IsEmptyAt(s) => s = k
  BY <1>2, <1>3, <1>6 DEF IsEmptyAt, IsOpenNow, Unset, Visited
<1>8. \A s : Apart(s)' <=> Apart(s)
  BY <1>5 DEF Apart, EndsNode, EndOf
<1>9. CASE k = o
  <2>1. ~IsOpenNow \/ Visited = {}
    BY <1>1, <1>2, <1>3, <1>6, <1>9 DEF Layers, Runs, OpenRun
  <2>2. Apart(o)
    <3>. SUFFICES ASSUME NEW p \in DOMAIN instructions, EndOf(instructions, p) = o
                  PROVE  EndsNode(p)
      BY <1>5 DEF Apart
    <3>1. p < o /\ p \in Nat
      BY <1>6, EndOfBounds
    <3>2. p \in Visited
      BY <1>2, <1>6, <3>1 DEF Visited, IsNext
    <3>3. PICK q : LastVisited(q) /\ EndsNode(q)
      BY <1>1, <2>1, <3>2 DEF Layers, Runs, OpenRun
    <3>4. q \in DOMAIN instructions /\ p <= q /\ q < o /\ q \in Nat
      BY <1>6, <3>2, <3>3 DEF LastVisited, Visited
    <3>5. p < q => EndOf(instructions, p) <= q
      BY <1>6, <3>4, EndOfBounds
    <3>6. p = q
      BY <1>2, <3>1, <3>4, <3>5
    <3>. QED  BY <3>3, <3>6
  <2>3. /\ DOMAIN nodes' = DOMAIN nodes \cup {o}
        /\ nodes'[o] = before
        /\ \A s \in DOMAIN nodes : s # o => nodes'[s] = nodes[s]
    BY <1>5, <1>9 DEF Store
  <2>4. IsEmptyAt(o)'
    BY <1>2, <1>4, <1>5, <1>6, <1>8, <2>2, <2>3 DEF IsEmptyAt, JumpDestNode
  <2>5. ASSUME NEW s \in DOMAIN nodes, s # o PROVE EndsBehind(s)'
    <3>1. EndsBehind(s)
      BY <1>7, <1>9, <2>5 DEF Handed, NodeEnds
    <3>. QED  BY <1>5, <2>3, <2>5, <3>1 DEF EndsBehind, EndOf
  <2>6. NodeEnds'
    BY <2>3, <2>4, <2>5 DEF NodeEnds
  <2>7. JumpDestsFiled'
    BY <1>6, <1>8, <2>3 DEF Handed, JumpDestsFiled
  <2>. QED  BY <2>6, <2>7
<1>10. CASE k # o
  <2>1. PICK q \in DOMAIN instructions : EndOf(instructions, q) = o
    BY <1>2, <1>6, <1>10 DEF IsStream
  <2>2. /\ q \in Nat /\ q < o /\ k < o
        /\ k \in DOMAIN instructions
    BY <1>1, <1>2, <1>6, <1>10, <2>1, EndOfBounds, NodeFacts DEF node
  <2>3. k <= q
    <3>1. q < k => EndOf(instructions, q) <= k
      BY <1>6, <2>2, EndOfBounds
    <3>. QED  BY <1>2, <2>1, <2>2, <3>1
  <2>4. NodeEnds'
    BY <1>4, <1>5, <1>7, <2>1, <2>2, <2>3, FilingKeepsEnds DEF Handed
  <2>5. ~Apart(o)
    BY <1>2, <2>1, <2>2, <2>3 DEF Apart
  <2>6. DOMAIN nodes \subseteq DOMAIN nodes'
    BY <1>5 DEF Store
  <2>7. JumpDestsFiled'
    BY <1>6, <1>8, <2>5, <2>6 DEF Handed, JumpDestsFiled
  <2>. QED  BY <2>4, <2>7
<1>. QED  BY <1>9, <1>10

LEMMA CloseHands ==
    ASSUME Handed, NEW o \in remaining, CloseNode(o)
    PROVE  NodeEnds' /\ JumpDestsFiled'
<1> DEFINE node == Extended(o)
           k == node.start
<1>1. Visit(o) /\ Layers
  BY DEF Visit, Handed
<1>2. /\ ~built /\ IsNext(o) /\ o \in DOMAIN instructions /\ o \in Nat
      /\ k \in Nat /\ k <= o
  BY <1>1, NodeFacts
<1>3. /\ EndsNode(o) /\ instructions' = instructions
      /\ nodes' = Store(nodes, k, node)
  BY DEF CloseNode
<1>4. /\ node.end = EndOf(instructions, o) /\ node.end > k
      /\ k = IF IsOpenNow THEN currNode.start ELSE o
  BY <1>1, <1>2, ExtendedFacts, NextFacts DEF Layers
<1>5. ~Apart(o)
  BY <1>3 DEF Apart, EndsNode, IsBranch, IsStop, OP_JUMPDEST, OP_JUMP, OP_JUMPI, OP_STOP,
              OP_RETURN, OP_INVALID, OP_SUICIDE
<1>6. /\ \A p \in DOMAIN instructions : p \in Nat
      /\ Visited' = Visited \cup {o}
  BY <1>1, EndOfBounds, VisitFacts DEF Layers, Layout, TypeOK
<1>. HIDE DEF node
<1>7. \A s \in DOMAIN nodes : IsEmptyAt(s) => s = k
  BY <1>2, <1>4, <1>6 DEF IsEmptyAt, IsOpenNow, Unset, Visited
<1>8. \A s : Apart(s)' <=> Apart(s)
  BY <1>3 DEF Apart, EndsNode, EndOf
<1>9. NodeEnds'
  BY <1>2, <1>3, <1>4, <1>7, FilingKeepsEnds DEF Handed
<1>10. DOMAIN nodes \subseteq DOMAIN nodes'
  BY <1>3 DEF Store
<1>11. JumpDestsFiled'
  BY <1>5, <1>6, <1>8, <1>10 DEF Handed, JumpDestsFiled
<1>. QED  BY <1>9, <1>11

LEMMA ExtendHands ==
    ASSUME Handed, NEW o \in remaining, ExtendNode(o)
    PROVE  NodeEnds' /\ JumpDestsFiled'
<1> DEFINE node == Extended(o)
           k == node.start
<1>1. Visit(o) /\ Layers
  BY DEF Visit, Handed
<1>2. ~built /\ IsNext(o)
  BY <1>1, NodeFacts
<1>3. /\ instructions' = instructions /\ nodes' = nodes /\ built' = built
      /\ currNode' = node /\ instructions[o] # OP_JUMPDEST
  BY DEF ExtendNode
<1>4. k = IF IsOpenNow THEN currNode.start ELSE o
  BY <1>1, <1>2, ExtendedFacts DEF Layers
<1>5. /\ \A p \in DOMAIN instructions : p \in Nat
      /\ Visited' = Visited \cup {o}
  BY <1>1, EndOfBounds, VisitFacts DEF Layers, Layout, TypeOK
<1>. HIDE DEF node
<1>6. \A s : Apart(s)' <=> Apart(s)
  BY <1>3 DEF Apart, EndsNode, EndOf
<1>7. ASSUME NEW s \in DOMAIN nodes, IsEmptyAt(s) PROVE IsEmptyAt(s)'
  <2>1. s \in Nat /\ currNode.start = s
    BY <1>2, <1>5, <1>7 DEF IsEmptyAt, Visited
  <2>2. currNode'.start = s
    BY <1>3, <1>4, <2>1 DEF IsOpenNow, Unset
  <2>. QED  BY <1>2, <1>3, <1>5, <1>6, <1>7, <2>2 DEF IsEmptyAt
<1>8. ASSUME NEW s \in DOMAIN nodes, EndsBehind(s) PROVE EndsBehind(s)'
  BY <1>3, <1>8 DEF EndsBehind, EndOf
<1>9. NodeEnds'
  BY <1>3, <1>7, <1>8 DEF Handed, NodeEnds
<1>10. JumpDestsFiled'
  BY <1>3, <1>5, <1>6 DEF Handed, JumpDestsFiled, Apart
<1>. QED  BY <1>9, <1>10

LEMMA FlushHands ==
    ASSUME Handed, FlushNode
    PROVE  NodeEnds' /\ JumpDestsFiled'
<1> DEFINE k == currNode.start
<1>1. /\ remaining = {} /\ ~built /\ built' /\ Layers
      /\ instructions' = instructions /\ Visited = DOMAIN instructions /\ Visited' = Visited
  BY DEF FlushNode, Visited, Handed
<1>2. \A p \in DOMAIN instructions : p \in Nat /\ EndOf(instructions, p) \in Nat
                                        /\ p < EndOf(instructions, p)
  BY <1>1, EndOfBounds DEF Layers, Layout, TypeOK
<1>3. \A s : Apart(s)' <=> Apart(s)
  BY <1>1 DEF Apart, EndsNode, EndOf
<1>4. \A s \in DOMAIN nodes : IsEmptyAt(s) => s = k /\ IsOpenNow /\ Visited # {}
  BY <1>1, <1>2 DEF IsEmptyAt, IsOpenNow, Unset
<1>5. DOMAIN nodes \subseteq DOMAIN nodes'
  BY DEF FlushNode, Store
<1>6. JumpDestsFiled'
  BY <1>1, <1>3, <1>5 DEF Handed, JumpDestsFiled
<1>7. CASE IsOpen(currNode)
  <2>1. nodes' = Store(nodes, k, currNode)
    BY <1>7 DEF FlushNode
  <2>2. IsOpenNow /\ currNode.end # k
    BY <1>7 DEF IsOpen, IsOpenNow
  <2>3. PICK q : /\ LastVisited(q) /\ k \in Visited
                 /\ currNode.end = EndOf(instructions, q)
    BY <1>1, <2>2 DEF Layers, Runs, OpenRun
  <2>4. q \in DOMAIN instructions /\ k <= q /\ currNode.end > k
    BY <1>1, <1>2, <2>3 DEF LastVisited
  <2>5. NodeEnds'
    BY <1>1, <1>4, <2>1, <2>3, <2>4, FilingKeepsEnds DEF Handed
  <2>. QED  BY <1>6, <2>5
<1>8. CASE ~IsOpen(currNode)
  <2>1. nodes' = nodes
    BY <1>8 DEF FlushNode
  <2>2. ASSUME NEW s \in DOMAIN nodes, IsEmptyAt(s) PROVE IsEmptyAt(s)'
    <3>1. s = k /\ IsOpenNow /\ Visited # {} /\ currNode.end = k
      BY <1>4, <1>8, <2>2 DEF IsOpen, IsOpenNow
    <3>2. PICK q : /\ LastVisited(q) /\ k \in Visited
                   /\ currNode.end = IF q = k /\ instructions[q] = OP_JUMPDEST
                                     THEN q ELSE EndOf(instructions, q)
      BY <1>1, <3>1 DEF Layers, Runs, OpenRun
    <3>3. q = k
      BY <1>1, <1>2, <3>1, <3>2 DEF LastVisited
    <3>4. \A p \in DOMAIN instructions : p <= s
      BY <1>1, <3>1, <3>2, <3>3 DEF LastVisited
    <3>. QED  BY <1>1, <1>3, <2>1, <2>2, <3>4 DEF IsEmptyAt
  <2>3. ASSUME NEW s \in DOMAIN nodes, EndsBehind(s) PROVE EndsBehind(s)'
    BY <1>1, <2>1, <2>3 DEF EndsBehind, EndOf
  <2>4. NodeEnds'
    BY <2>1, <2>2, <2>3 DEF Handed, NodeEnds
  <2>. QED  BY <1>6, <2>4
<1>. QED  BY <1>7, <1>8

LEMMA HandedNext == Handed /\ [Next]_graphVars => Handed'
<1>. SUFFICES ASSUME Handed, [Next]_graphVars PROVE Handed'
  OBVIOUS
<1>1. Layers'
  BY LayersNext DEF Handed
<1>2. ASSUME NEW o \in remaining, Visit(o) PROVE NodeEnds' /\ JumpDestsFiled'
  BY <1>2, CloseHands, SplitHands, ExtendHands DEF Visit
<1>3. ASSUME FlushNode PROVE NodeEnds' /\ JumpDestsFiled'
  BY <1>3, FlushHands
<1>4. ASSUME UNCHANGED graphVars PROVE NodeEnds' /\ JumpDestsFiled'
  <2>1. \A s : (Apart(s)' <=> Apart(s)) /\ Visited' = Visited
    BY <1>4 DEF graphVars, Apart, EndsNode, EndOf, Visited
  <2>2. \A s : (EndsBehind(s)' <=> EndsBehind(s)) /\ (IsEmptyAt(s)' <=> IsEmptyAt(s))
    BY <1>4, <2>1 DEF graphVars, EndsBehind, IsEmptyAt, EndOf
  <2>. QED  BY <1>4, <2>1, <2>2 DEF graphVars, Handed, NodeEnds, JumpDestsFiled
<1>5. NodeEnds' /\ JumpDestsFiled'
  BY <1>2, <1>3, <1>4 DEF Next
<1>6. Flags' /\ TailLeftOut'
  BY FlagsNext, TailStaysOut DEF Handed, Layers
<1>. QED  BY <1>1, <1>5, <1>6 DEF Handed

-----------------------------------------------------------------------------
(***************************************************************************)
(* The theorems.                                                           *)
(***************************************************************************)

\* For every instruction stream, each step of the pass closes the next basic block or
\* none.
THEOREM StepsCloseBlocks == Spec => Abstract!Init /\ [][Abstract!Next]_<<instructions, Blocks>>
<1>1. Layers /\ [Next]_graphVars => [Abstract!Next]_<<instructions, Blocks>>
  BY StepRefines DEF Refines
<1>2. Init => Abstract!Init
  BY InitRefines
<1>. QED
  BY <1>1, <1>2, LayersHold, PTL DEF Spec

\* For every instruction stream, when the pass returns each basic block has its node,
\* but for that of a lone JUMPDEST at the end.
THEOREM NoBlockIsOwed == Spec => [](built => Abstract!Owed(instructions) \subseteq Abstract!Closed)
<1>1. Layers => (built => Abstract!Owed(instructions) \subseteq Abstract!Closed)
  BY ClosedIsAbstract DEF Layers, Runs, NothingOwed
<1>. QED
  BY <1>1, LayersHold, PTL

\* A pass that returns implements BasicBlocks, for every instruction stream.
THEOREM ReturningPassImplements == Spec /\ <>built => ImplementsBasicBlocks
<1>1. [](built => Abstract!Owed(instructions) \subseteq Abstract!Closed) /\ <>built
          => <>(Abstract!Owed(instructions) \subseteq Abstract!Closed)
  BY PTL
<1>. QED
  BY <1>1, StepsCloseBlocks, NoBlockIsOwed
  DEF ImplementsBasicBlocks, Abstract!Spec, Abstract!AllClosed

=============================================================================
