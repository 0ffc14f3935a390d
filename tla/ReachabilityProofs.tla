------------------------- MODULE ReachabilityProofs -------------------------
(***************************************************************************)
(* Proofs about Reachability, for every set of nodes, every graph and      *)
(* every order of the prev sets.                                           *)
(***************************************************************************)
EXTENDS Reachability, SequenceTheorems, TLAPS

FrameType == [node : Node, left : SUBSET Node]

(***************************************************************************)
(* The inductive invariant.  The active calls are about distinct nodes,    *)
(* each a predecessor of the one below it; none of them is stale or        *)
(* remembered as reachable while its call is active.                       *)
(***************************************************************************)
Typed(s) ==
    /\ s \in Seq(FrameType)
    /\ \A i \in 1 .. Len(s) : s[i].left \subseteq prev[s[i].node]

Searching(s) ==
    \A i \in 1 .. Len(s) :
        /\ s[i].node # Entry
        /\ ~isReachable[s[i].node]
        /\ ~isReachableStale[s[i].node]

Distinct(s) == \A i, j \in 1 .. Len(s) : s[i].node = s[j].node => i = j

Chained(s) ==
    /\ \A i \in 1 .. Len(s) - 1 : s[i + 1].node \in prev[s[i].node]
    /\ s # <<>> => s[1].node = asking

StackOK(s) == Typed(s) /\ Searching(s) /\ Distinct(s) /\ Chained(s)

\* A "yes" is on its way to a node it is true of: the node asked about, or a
\* node with a predecessor that is known.
AnswerTrue ==
    IF stack = <<>>
    THEN asking # NoNode =>
            /\ answer \in {"yes", "no"}
            /\ answer = "yes" <=> IsKnown(asking)
    ELSE answer = "yes" => \E p \in prev[Top.node] : IsKnown(p)

\* Between two queries nothing is in progress, and before the first one
\* nothing is remembered.
Quiet ==
    asking = NoNode =>
        /\ stack = <<>> /\ answer = "none"
        /\ Asked = {} => \A n \in Node : ~isReachable[n]

\* What has been answered is settled.
Settled ==
    /\ \A n \in Node : isReachable[n] => ~isReachableStale[n]
    /\ asking # NoNode => asking = Entry \/ ~isReachableStale[asking]
    /\ \A n \in Node : verdict[n] # "none" =>
          /\ n = Entry \/ ~isReachableStale[n]
          /\ \A i \in 1 .. Len(stack) : stack[i].node # n
          /\ verdict[n] = "yes" <=> IsKnown(n)

Marks == \A S \in SUBSET Node :
            ClosedFrom(S, {Entry}) => \A n \in Node : isReachable[n] => n \in S

Inv ==
    /\ TypeOK
    /\ StackOK(stack)
    /\ AnswerTrue
    /\ Quiet
    /\ Settled
    /\ Marks
    /\ Witnessed

-----------------------------------------------------------------------------

\* The calls below the top one.
LEMMA BelowFacts ==
    ASSUME stack \in Seq(FrameType), stack # <<>>
    PROVE  /\ Len(stack) \in Nat \ {0}
           /\ Top \in FrameType /\ Top = stack[Len(stack)]
           /\ Below \in Seq(FrameType) /\ Len(Below) = Len(stack) - 1
           /\ \A i \in 1 .. Len(stack) - 1 : Below[i] = stack[i]
<1>1. Len(stack) \in Nat \ {0} /\ \A i \in 1 .. Len(stack) : stack[i] \in FrameType
  BY EmptySeq, LenProperties
<1>2. \A i \in 1 .. Len(stack) - 1 : stack[i] \in FrameType
  BY <1>1
<1>3. /\ Below \in Seq(FrameType)
      /\ Len(Below) = IF 1 <= Len(stack) - 1 THEN (Len(stack) - 1) - 1 + 1 ELSE 0
      /\ \A i \in 1 .. (Len(stack) - 1) - 1 + 1 : Below[i] = stack[1 + i - 1]
  BY <1>1, <1>2, SubSeqProperties DEF Below
<1>4. Len(Below) = Len(stack) - 1
  <2>1. \A k \in Nat \ {0} : (IF 1 <= k - 1 THEN (k - 1) - 1 + 1 ELSE 0) = k - 1
    OBVIOUS
  <2>. QED  BY <1>1, <1>3, <2>1, Zenon
<1>5. ASSUME NEW i \in 1 .. Len(stack) - 1 PROVE Below[i] = stack[i]
  <2>1. i \in 1 .. (Len(stack) - 1) - 1 + 1 /\ 1 + i - 1 = i
    BY <1>1
  <2>. QED  BY <1>3, <2>1
<1>6. Len(stack) \in 1 .. Len(stack)
  BY <1>1
<1>7. Top \in FrameType /\ Top = stack[Len(stack)]
  BY <1>1, <1>6 DEF Top
<1>. QED  BY <1>1, <1>3, <1>4, <1>5, <1>7

\* The stack AskPrev leaves under the call it makes: the same calls, the top
\* one with a predecessor less to ask.
LEMMA AskedFrames ==
    ASSUME Inv, stack # <<>>, NEW p \in Top.left
    PROVE  LET frames == Append(Below, [Top EXCEPT !.left = LeftAfter(p)])
           IN  /\ frames \in Seq(FrameType) /\ frames # <<>>
               /\ Len(frames) = Len(stack)
               /\ \A i \in 1 .. Len(frames) : frames[i].node = stack[i].node
               /\ \A i \in 1 .. Len(frames) : frames[i].left \subseteq stack[i].left
<1>1. stack \in Seq(FrameType)
  BY DEF Inv, StackOK, Typed
<1>2. /\ Len(stack) \in Nat \ {0}
      /\ Top \in FrameType /\ Top = stack[Len(stack)]
      /\ Below \in Seq(FrameType) /\ Len(Below) = Len(stack) - 1
      /\ \A i \in 1 .. Len(stack) - 1 : Below[i] = stack[i]
  BY <1>1, BelowFacts
<1> DEFINE f == [Top EXCEPT !.left = LeftAfter(p)]
<1>3. f \in FrameType /\ f.node = Top.node /\ f.left \subseteq Top.left
  BY <1>2 DEF FrameType, LeftAfter
<1>. HIDE DEF f
<1>4. /\ Append(Below, f) \in Seq(FrameType)
      /\ Len(Append(Below, f)) = Len(stack)
      /\ \A i \in 1 .. Len(stack) - 1 : Append(Below, f)[i] = stack[i]
      /\ Append(Below, f)[Len(stack)] = f
  BY <1>2, <1>3
<1>5. \A i \in 1 .. Len(stack) : i \in 1 .. Len(stack) - 1 \/ i = Len(stack)
  BY <1>2
<1>6. Append(Below, f) # <<>>
  BY <1>2, <1>4
<1>7. \A i \in 1 .. Len(stack) :
          /\ Append(Below, f)[i].node = stack[i].node
          /\ Append(Below, f)[i].left \subseteq stack[i].left
  BY <1>2, <1>3, <1>4, <1>5
<1>. QED  BY <1>4, <1>6, <1>7 DEF f

LEMMA InitInv == Init => Inv
<1>. SUFFICES ASSUME Init PROVE Inv
  OBVIOUS
<1>. USE NodeAssumption DEF Init
<1>1. rank \in [Node -> Nat]
  BY DEF Rankings
<1>2. stack \in Seq([node : Node, left : SUBSET Node]) /\ Len(stack) = 0
  OBVIOUS
<1>3. TypeOK
  BY <1>1, <1>2 DEF TypeOK, Answer, NoNode
<1>4. StackOK(stack)
  BY <1>2 DEF StackOK, Typed, Searching, Distinct, Chained, FrameType
<1>5. AnswerTrue /\ Quiet /\ Settled /\ Marks /\ Witnessed
  BY <1>2 DEF AnswerTrue, Quiet, Settled, Marks, Witnessed
<1>. QED  BY <1>3, <1>4, <1>5 DEF Inv

\* A call of IsReachable puts at most one call on the stack, about a node that
\* no active call is about: an active call's node is not stale.
LEMMA CallKeepsStack ==
    ASSUME TypeOK, NEW n \in Node, NEW below,
           Typed(below), Searching(below), Distinct(below),
           IF below = <<>> THEN asking' = n
           ELSE /\ Chained(below) /\ asking' = asking
                /\ n \in prev[below[Len(below)].node],
           prev' = prev, isReachable' = isReachable,
           CallAnswered(n, below) \/ CallSearches(n, below)
    PROVE  /\ StackOK(stack)'
           /\ isReachableStale' \in [Node -> BOOLEAN]
           /\ \A m \in Node : isReachableStale'[m] => isReachableStale[m]
           /\ IsKnown(n) \/ ~isReachableStale'[n]
           /\ \A i \in 1 .. Len(stack') : \/ i \in 1 .. Len(below) /\ stack'[i] = below[i]
                                          \/ stack'[i].node = n /\ isReachableStale[n]
           /\ \/ stack' = below /\ answer' \in {"yes", "no"} /\ (answer' = "yes" <=> IsKnown(n))
              \/ stack' # <<>> /\ answer' = "none"
<1>1. below \in Seq(FrameType) /\ Len(below) \in Nat
  BY LenProperties DEF Typed
<1>2. CASE CallAnswered(n, below)
  <2>1. /\ stack' = below /\ isReachableStale' = isReachableStale
        /\ answer' = IF IsKnown(n) THEN "yes" ELSE "no"
        /\ IsKnown(n) \/ ~isReachableStale[n]
    BY <1>2 DEF CallAnswered
  <2>2. StackOK(stack)'
    <3>1. Typed(stack)' /\ Searching(stack)' /\ Distinct(stack)'
      BY <2>1 DEF Typed, Searching, Distinct
    <3>2. CASE below = <<>>
      BY <2>1, <3>1, <3>2, EmptySeq DEF StackOK, Chained
    <3>3. CASE below # <<>>
      BY <2>1, <3>1, <3>3 DEF StackOK, Chained
    <3>. QED  BY <3>2, <3>3
  <2>. QED  BY <1>1, <2>1, <2>2 DEF TypeOK
<1>3. CASE CallSearches(n, below)
  <2>1. /\ ~IsKnown(n) /\ isReachableStale[n] /\ answer' = "none"
        /\ stack' = Append(below, Frame(n))
        /\ isReachableStale' = [isReachableStale EXCEPT ![n] = FALSE]
    BY <1>3 DEF CallSearches, StaleAfterCall
  <2>2. Frame(n) \in FrameType /\ Frame(n).node = n /\ Frame(n).left = prev[n]
    BY DEF Frame, FrameType, TypeOK
  <2>3. /\ stack' \in Seq(FrameType) /\ Len(stack') = Len(below) + 1
        /\ \A i \in 1 .. Len(below) : stack'[i] = below[i]
        /\ stack'[Len(below) + 1] = Frame(n)
        /\ stack' # <<>>
    BY <1>1, <2>1, <2>2, AppendProperties
  <2>4. \A i \in 1 .. Len(stack') : i \in 1 .. Len(below) \/ i = Len(below) + 1
    BY <1>1, <2>3
  <2>5. /\ isReachableStale' \in [Node -> BOOLEAN] /\ ~isReachableStale'[n]
        /\ \A m \in Node : isReachableStale'[m] => isReachableStale[m]
    BY <2>1 DEF TypeOK
  <2>6. \A i \in 1 .. Len(below) : below[i].node \in Node /\ below[i].node # n
    <3>. SUFFICES ASSUME NEW i \in 1 .. Len(below)
                  PROVE  below[i].node \in Node /\ below[i].node # n
      OBVIOUS
    <3>1. below[i] \in FrameType
      BY <1>1, LenProperties
    <3>2. ~isReachableStale[below[i].node]
      BY DEF Searching
    <3>. QED  BY <2>1, <3>1, <3>2 DEF FrameType
  <2>7. Typed(stack)'
    BY <2>2, <2>3, <2>4 DEF Typed
  <2>8. Searching(stack)'
    BY <2>1, <2>2, <2>3, <2>4, <2>5, <2>6 DEF Searching, IsKnown
  <2>9. Distinct(stack)'
    BY <2>2, <2>3, <2>4, <2>6 DEF Distinct
  <2>10. Chained(stack)'
    <3>1. CASE below = <<>>
      <4>1. Len(below) = 0
        BY <3>1, EmptySeq
      <4>. QED  BY <2>2, <2>3, <3>1, <4>1 DEF Chained
    <3>2. CASE below # <<>>
      <4>1. Len(below) \in Nat \ {0}
        BY <1>1, <3>2, EmptySeq
      <4>2. \A i \in 1 .. Len(stack') - 1 :
               i \in 1 .. Len(below) /\ (i \in 1 .. Len(below) - 1 \/ i = Len(below))
        BY <2>3, <4>1
      <4>3. \A i \in 1 .. Len(below) - 1 : i + 1 \in 1 .. Len(below)
        BY <4>1
      <4>4. \A i \in 1 .. Len(stack') - 1 : stack'[i + 1].node \in prev'[stack'[i].node]
        BY <2>2, <2>3, <3>2, <4>1, <4>2, <4>3 DEF Chained
      <4>5. 1 \in 1 .. Len(below)
        BY <4>1
      <4>. QED  BY <2>3, <3>2, <4>4, <4>5 DEF Chained
    <3>. QED  BY <3>1, <3>2
  <2>11. \A i \in 1 .. Len(stack') : \/ i \in 1 .. Len(below) /\ stack'[i] = below[i]
                                     \/ stack'[i].node = n /\ isReachableStale[n]
    BY <2>1, <2>2, <2>3, <2>4
  <2>. QED
    BY <2>1, <2>3, <2>5, <2>7, <2>8, <2>9, <2>10, <2>11 DEF StackOK
<1>. QED  BY <1>2, <1>3

-----------------------------------------------------------------------------

LEMMA AddNextInv ==
    ASSUME Inv, NEW p \in Node, NEW n \in Node, AddNext(p, n)
    PROVE  Inv'
<1>1. /\ stack = <<>> /\ stack' = <<>> /\ answer = "none" /\ asking = NoNode
      /\ \A m \in Node : ~isReachable[m] /\ verdict[m] = "none"
      /\ prev' = [prev EXCEPT ![n] = @ \cup {p}]
      /\ isReachableStale' = [isReachableStale EXCEPT ![n] = TRUE]
      /\ UNCHANGED <<rank, isReachable, answer, asking, verdict, extraQueries>>
  BY DEF AddNext, Inv, Quiet, Asked
<1>2. Len(stack') = 0 /\ stack' \in Seq(FrameType)
  BY <1>1
<1>3. TypeOK'
  BY <1>1, <1>2 DEF Inv, TypeOK, FrameType
<1>4. StackOK(stack)'
  BY <1>1, <1>2 DEF StackOK, Typed, Searching, Distinct, Chained
<1>5. AnswerTrue' /\ Quiet' /\ Settled' /\ Marks' /\ Witnessed'
  BY <1>1, <1>2 DEF AnswerTrue, Quiet, Settled, Marks, Witnessed
<1>. QED  BY <1>3, <1>4, <1>5 DEF Inv

\* What a call leaves settled.
LEMMA CallKeepsSettled ==
    ASSUME Inv, NEW n \in Node,
           UNCHANGED <<prev, isReachable, verdict>>,
           asking' = n \/ (asking' = asking /\ asking # NoNode),
           StackOK(stack)',
           \A m \in Node : isReachableStale'[m] => isReachableStale[m],
           IsKnown(n) \/ ~isReachableStale'[n],
           \A i \in 1 .. Len(stack') :
               \/ \E j \in 1 .. Len(stack) : stack'[i].node = stack[j].node
               \/ stack'[i].node = n /\ isReachableStale[n]
    PROVE  Settled'
<1>1. \A m \in Node : isReachable'[m] => ~isReachableStale'[m]
  BY DEF Inv, Settled
<1>2. asking' # NoNode => asking' = Entry \/ ~isReachableStale'[asking']
  BY <1>1 DEF Inv, Settled, IsKnown, TypeOK
<1>3. ASSUME NEW m \in Node, verdict'[m] # "none"
      PROVE  /\ m = Entry \/ ~isReachableStale'[m]
             /\ \A i \in 1 .. Len(stack') : stack'[i].node # m
             /\ verdict'[m] = "yes" <=> IsKnown(m)'
  <2>1. /\ m = Entry \/ ~isReachableStale[m]
        /\ \A j \in 1 .. Len(stack) : stack[j].node # m
        /\ verdict[m] = "yes" <=> IsKnown(m)
    BY <1>3 DEF Inv, Settled
  <2>2. \A i \in 1 .. Len(stack') : stack'[i].node # m
    BY <2>1 DEF StackOK, Searching
  <2>. QED  BY <2>1, <2>2 DEF IsKnown
<1>. QED  BY <1>1, <1>2, <1>3 DEF Settled

LEMMA QueryInv ==
    ASSUME Inv, NEW n \in Node, Query(n)
    PROVE  Inv'
<1>1. /\ asking = NoNode /\ asking' = n /\ stack = <<>>
      /\ CallAnswered(n, <<>>) \/ CallSearches(n, <<>>)
      /\ UNCHANGED <<prev, rank, isReachable, verdict>>
      /\ extraQueries' \in Nat
  BY DEF Query, Inv, Quiet, graph, TypeOK
<1>2. Typed(<<>>) /\ Searching(<<>>) /\ Distinct(<<>>)
  BY <1>1 DEF Inv, StackOK
<1>3. TypeOK
  BY DEF Inv
<1>4. /\ StackOK(stack)'
      /\ isReachableStale' \in [Node -> BOOLEAN]
      /\ \A m \in Node : isReachableStale'[m] => isReachableStale[m]
      /\ IsKnown(n) \/ ~isReachableStale'[n]
      /\ \A i \in 1 .. Len(stack') : \/ i \in 1 .. Len(<<>>)
                                     \/ stack'[i].node = n /\ isReachableStale[n]
      /\ \/ stack' = <<>> /\ answer' \in {"yes", "no"} /\ (answer' = "yes" <=> IsKnown(n))
         \/ stack' # <<>> /\ answer' = "none"
  BY <1>1, <1>2, <1>3, CallKeepsStack
<1>5. n # NoNode
  BY NodeAssumption DEF NoNode
<1>6. TypeOK'
  BY <1>1, <1>3, <1>4 DEF TypeOK, StackOK, Typed, FrameType, Answer
<1>7. AnswerTrue' /\ Quiet'
  BY <1>1, <1>4, <1>5 DEF AnswerTrue, Quiet, IsKnown
<1>8. \A i \in 1 .. Len(stack') :
          \/ \E j \in 1 .. Len(stack) : stack'[i].node = stack[j].node
          \/ stack'[i].node = n /\ isReachableStale[n]
  BY <1>4, EmptySeq
<1>9. Settled'
  BY <1>1, <1>4, <1>8, CallKeepsSettled
<1>10. Marks' /\ Witnessed'
  BY <1>1 DEF Inv, Marks, Witnessed, ClosedFrom
<1>. QED  BY <1>4, <1>6, <1>7, <1>9, <1>10 DEF Inv

LEMMA AskPrevInv ==
    ASSUME Inv, NEW p \in Node, AskPrev(p)
    PROVE  Inv'
<1> DEFINE frames == Append(Below, [Top EXCEPT !.left = LeftAfter(p)])
<1>1. /\ stack # <<>> /\ p \in Top.left
      /\ CallAnswered(p, frames) \/ CallSearches(p, frames)
      /\ UNCHANGED <<prev, rank, isReachable, asking, verdict, extraQueries>>
  BY DEF AskPrev, graph
<1>2. /\ frames \in Seq(FrameType) /\ frames # <<>>
      /\ Len(frames) = Len(stack)
      /\ \A i \in 1 .. Len(frames) : frames[i].node = stack[i].node
      /\ \A i \in 1 .. Len(frames) : frames[i].left \subseteq stack[i].left
  BY <1>1, AskedFrames
<1>3. TypeOK /\ StackOK(stack) /\ stack \in Seq(FrameType)
  BY DEF Inv, StackOK, Typed
<1>4. Len(stack) \in Nat \ {0} /\ Top = stack[Len(stack)]
  BY <1>1, <1>3, BelowFacts
<1>5. Typed(frames) /\ Searching(frames) /\ Distinct(frames)
  BY <1>2, <1>3 DEF StackOK, Typed, Searching, Distinct
<1>6. Chained(frames)
  <2>1. /\ \A i \in 1 .. Len(stack) - 1 : i \in 1 .. Len(stack) /\ i + 1 \in 1 .. Len(stack)
        /\ 1 \in 1 .. Len(stack)
    BY <1>4
  <2>. QED  BY <1>1, <1>2, <1>3, <2>1 DEF StackOK, Chained
<1>7. p \in prev[frames[Len(frames)].node]
  BY <1>1, <1>2, <1>3, <1>4 DEF StackOK, Typed
<1>. HIDE DEF frames
<1>8. /\ StackOK(stack)'
      /\ isReachableStale' \in [Node -> BOOLEAN]
      /\ \A m \in Node : isReachableStale'[m] => isReachableStale[m]
      /\ IsKnown(p) \/ ~isReachableStale'[p]
      /\ \A i \in 1 .. Len(stack') : \/ i \in 1 .. Len(frames) /\ stack'[i] = frames[i]
                                     \/ stack'[i].node = p /\ isReachableStale[p]
      /\ \/ stack' = frames /\ answer' \in {"yes", "no"} /\ (answer' = "yes" <=> IsKnown(p))
         \/ stack' # <<>> /\ answer' = "none"
  BY <1>1, <1>2, <1>3, <1>5, <1>6, <1>7, CallKeepsStack
<1>9. TypeOK'
  BY <1>1, <1>3, <1>8 DEF TypeOK, StackOK, Typed, FrameType, Answer
<1>10. asking # NoNode
  BY <1>1 DEF Inv, Quiet
<1>11. AnswerTrue' /\ Quiet'
  BY <1>1, <1>2, <1>7, <1>8, <1>10 DEF AnswerTrue, Quiet, IsKnown, Top
<1>12. \A i \in 1 .. Len(stack') :
          \/ \E j \in 1 .. Len(stack) : stack'[i].node = stack[j].node
          \/ stack'[i].node = p /\ isReachableStale[p]
  BY <1>2, <1>8
<1>13. Settled'
  BY <1>1, <1>8, <1>10, <1>12, CallKeepsSettled
<1>14. Marks' /\ Witnessed'
  BY <1>1 DEF Inv, Marks, Witnessed, ClosedFrom
<1>. QED  BY <1>8, <1>9, <1>11, <1>13, <1>14 DEF Inv

\* Taking the top call off the stack.
LEMMA PopKeepsStack ==
    ASSUME Inv, stack # <<>>,
           stack' = Below, prev' = prev, asking' = asking,
           isReachableStale' = isReachableStale,
           \A m \in Node : m # Top.node => isReachable'[m] = isReachable[m]
    PROVE  /\ StackOK(stack)' /\ Top.node \in Node
           /\ asking # NoNode
           /\ ~isReachable[Top.node] /\ Top.node # Entry /\ ~isReachableStale[Top.node]
           /\ IF stack' = <<>> THEN asking = Top.node
              ELSE /\ Len(stack') \in Nat \ {0}
                   /\ stack'[Len(stack')].node \in Node
                   /\ Top.node \in prev[stack'[Len(stack')].node]
           /\ \A i \in 1 .. Len(stack') : \E j \in 1 .. Len(stack) : stack'[i].node = stack[j].node
<1>1. StackOK(stack) /\ stack \in Seq(FrameType) /\ asking # NoNode
  BY DEF Inv, StackOK, Typed, Quiet
<1>2. /\ Len(stack) \in Nat \ {0}
      /\ Top \in FrameType /\ Top = stack[Len(stack)]
      /\ Below \in Seq(FrameType) /\ Len(Below) = Len(stack) - 1
      /\ \A i \in 1 .. Len(stack) - 1 : Below[i] = stack[i]
  BY <1>1, BelowFacts
<1>3. \A i \in 1 .. Len(Below) :
          /\ i \in 1 .. Len(stack) /\ i # Len(stack)
          /\ Below[i] = stack[i] /\ stack[i] \in FrameType
  BY <1>1, <1>2, LenProperties
<1>4. Len(stack) \in 1 .. Len(stack)
  BY <1>2
<1>5. Top.node \in Node /\ \A i \in 1 .. Len(Below) : Below[i].node \in Node
  BY <1>2, <1>3 DEF FrameType
<1>6. \A i \in 1 .. Len(Below) : Below[i].node # Top.node
  BY <1>1, <1>2, <1>3, <1>4 DEF StackOK, Distinct
<1>7. Typed(stack)' /\ Distinct(stack)'
  <2>1. \A i \in 1 .. Len(Below) : Below[i].left \subseteq prev[Below[i].node]
    BY <1>1, <1>3 DEF StackOK, Typed
  <2>2. \A i, j \in 1 .. Len(Below) : Below[i].node = Below[j].node => i = j
    BY <1>1, <1>3 DEF StackOK, Distinct
  <2>. QED  BY <1>2, <2>1, <2>2 DEF Typed, Distinct
<1>8. Searching(stack)'
  BY <1>1, <1>3, <1>5, <1>6 DEF StackOK, Searching
<1>9. Chained(stack)'
  <2>1. \A i \in 1 .. Len(Below) - 1 :
           i \in 1 .. Len(stack) - 1 /\ i \in 1 .. Len(Below) /\ i + 1 \in 1 .. Len(Below)
    BY <1>2
  <2>2. \A i \in 1 .. Len(stack') - 1 : stack'[i + 1].node \in prev'[stack'[i].node]
    BY <1>1, <1>3, <2>1 DEF StackOK, Chained
  <2>3. stack' # <<>> => 1 \in 1 .. Len(Below)
    BY <1>2, EmptySeq
  <2>. QED  BY <1>1, <1>3, <2>2, <2>3 DEF StackOK, Chained
<1>10. ~isReachable[Top.node] /\ Top.node # Entry /\ ~isReachableStale[Top.node]
  BY <1>1, <1>2, <1>4 DEF StackOK, Searching
<1>11. CASE stack' = <<>>
  <2>1. Len(stack) = 1
    BY <1>2, <1>11, EmptySeq
  <2>. QED
    BY <1>1, <1>2, <1>3, <1>5, <1>7, <1>8, <1>9, <1>10, <1>11, <2>1
    DEF StackOK, Chained
<1>12. CASE stack' # <<>>
  <2>1. Len(Below) \in Nat \ {0}
    BY <1>2, <1>12, EmptySeq
  <2>2. /\ Len(Below) \in 1 .. Len(Below) /\ Len(Below) \in 1 .. Len(stack) - 1
        /\ Len(Below) + 1 = Len(stack)
    BY <1>2, <2>1
  <2>3. Top.node \in prev[stack[Len(Below)].node]
    BY <1>1, <1>2, <2>2 DEF StackOK, Chained
  <2>4. stack[Len(Below)] = Below[Len(Below)]
    BY <1>3, <2>2
  <2>. QED
    BY <1>1, <1>3, <1>5, <1>7, <1>8, <1>9, <1>10, <1>12, <2>1, <2>2, <2>3, <2>4
    DEF StackOK
<1>. QED  BY <1>11, <1>12

LEMMA FoundInv ==
    ASSUME Inv, Found
    PROVE  Inv'
<1>1. /\ stack # <<>> /\ answer = "yes" /\ answer' = "yes"
      /\ isReachable' = [isReachable EXCEPT ![Top.node] = TRUE]
      /\ stack' = Below
      /\ UNCHANGED <<prev, rank, isReachableStale, asking, verdict, extraQueries>>
  BY DEF Found, graph, RememberedYes, Marked
<1>2. TypeOK
  BY DEF Inv
<1>3. /\ isReachable' \in [Node -> BOOLEAN]
      /\ \A m \in Node : m # Top.node => isReachable'[m] = isReachable[m]
  BY <1>1, <1>2 DEF TypeOK
<1>4. /\ StackOK(stack)' /\ Top.node \in Node /\ asking # NoNode
      /\ ~isReachable[Top.node] /\ Top.node # Entry /\ ~isReachableStale[Top.node]
      /\ IF stack' = <<>> THEN asking = Top.node
         ELSE /\ Len(stack') \in Nat \ {0}
              /\ stack'[Len(stack')].node \in Node
              /\ Top.node \in prev[stack'[Len(stack')].node]
      /\ \A i \in 1 .. Len(stack') : \E j \in 1 .. Len(stack) : stack'[i].node = stack[j].node
  BY <1>1, <1>3, PopKeepsStack
<1>5. isReachable'[Top.node] /\ \A m \in Node : isReachable[m] => isReachable'[m]
  BY <1>1, <1>2, <1>4 DEF TypeOK
<1>6. PICK p \in prev[Top.node] : IsKnown(p)
  BY <1>1 DEF Inv, AnswerTrue
<1>7. p \in Node
  BY <1>2, <1>4, <1>6 DEF TypeOK
<1>8. TypeOK'
  BY <1>1, <1>2, <1>3, <1>4 DEF TypeOK, StackOK, Typed, FrameType
<1>9. AnswerTrue' /\ Quiet'
  BY <1>1, <1>4, <1>5 DEF AnswerTrue, Quiet, IsKnown, Top
<1>10. Settled'
  <2>1. \A m \in Node : isReachable'[m] => ~isReachableStale'[m]
    BY <1>1, <1>3, <1>4 DEF Inv, Settled
  <2>2. Len(stack) \in 1 .. Len(stack) /\ Top = stack[Len(stack)]
    BY <1>1, BelowFacts DEF Inv, StackOK, Typed
  <2>3. \A m \in Node : verdict[m] # "none" => m # Top.node
    BY <2>2 DEF Inv, Settled
  <2>. QED  BY <1>1, <1>3, <1>4, <2>1, <2>3 DEF Inv, Settled, IsKnown
<1>11. Marks'
  <2>. SUFFICES ASSUME NEW S \in SUBSET Node, ClosedFrom(S, {Entry})
                PROVE  Top.node \in S
    BY <1>1, <1>3 DEF Inv, Marks, ClosedFrom
  <2>1. p \in S
    BY <1>6, <1>7 DEF Inv, Marks, ClosedFrom, IsKnown
  <2>. QED  BY <1>4, <1>6, <2>1 DEF ClosedFrom
<1>12. Witnessed'
  <2>. SUFFICES ASSUME NEW n \in Node, isReachable'[n]
                PROVE  \E q \in prev[n] : isReachable'[q] \/ q = Entry
    BY <1>1 DEF Witnessed
  <2>1. CASE n = Top.node
    BY <1>5, <1>6, <1>7, <2>1 DEF IsKnown
  <2>2. CASE n # Top.node
    <3>1. PICK q \in prev[n] : isReachable[q] \/ q = Entry
      BY <1>3, <2>2 DEF Inv, Witnessed
    <3>2. q \in Node
      BY <1>2, <3>1 DEF TypeOK
    <3>. QED  BY <1>5, <3>1, <3>2
  <2>. QED  BY <2>1, <2>2
<1>. QED  BY <1>4, <1>8, <1>9, <1>10, <1>11, <1>12 DEF Inv

LEMMA GiveUpInv ==
    ASSUME Inv, GiveUp
    PROVE  Inv'
<1>1. /\ stack # <<>> /\ answer' = "no" /\ stack' = Below
      /\ UNCHANGED <<prev, rank, isReachable, isReachableStale, asking, verdict, extraQueries>>
  BY DEF GiveUp, graph
<1>2. /\ StackOK(stack)' /\ Top.node \in Node /\ asking # NoNode
      /\ ~isReachable[Top.node] /\ Top.node # Entry /\ ~isReachableStale[Top.node]
      /\ stack' = <<>> => asking = Top.node
      /\ \A i \in 1 .. Len(stack') : \E j \in 1 .. Len(stack) : stack'[i].node = stack[j].node
  BY <1>1, PopKeepsStack
<1>3. TypeOK'
  BY <1>1, <1>2 DEF Inv, TypeOK, StackOK, Typed, FrameType, Answer
<1>4. AnswerTrue' /\ Quiet'
  BY <1>1, <1>2 DEF AnswerTrue, Quiet, IsKnown
<1>5. Settled'
  BY <1>1, <1>2 DEF Inv, Settled, IsKnown
<1>6. Marks' /\ Witnessed'
  BY <1>1 DEF Inv, Marks, Witnessed, ClosedFrom
<1>. QED  BY <1>2, <1>3, <1>4, <1>5, <1>6 DEF Inv

LEMMA DeliverInv ==
    ASSUME Inv, Deliver
    PROVE  /\ Inv'
           /\ answer \in {"yes", "no"} /\ asking \in Node
           /\ answer = "yes" <=> IsKnown(asking)
           /\ verdict' = [verdict EXCEPT ![asking] = answer]
<1>1. /\ stack = <<>> /\ asking # NoNode
      /\ verdict' = [verdict EXCEPT ![asking] = answer]
      /\ asking' = NoNode /\ answer' = "none"
      /\ UNCHANGED <<prev, rank, isReachable, isReachableStale, stack, extraQueries>>
  BY DEF Deliver, graph
<1>2. TypeOK /\ asking \in Node
  BY <1>1 DEF Inv, TypeOK
<1>3. answer \in {"yes", "no"} /\ (answer = "yes" <=> IsKnown(asking))
  BY <1>1 DEF Inv, AnswerTrue
<1>4. verdict'[asking] = answer /\ \A m \in Node : m # asking => verdict'[m] = verdict[m]
  BY <1>1, <1>2 DEF TypeOK
<1>5. TypeOK'
  BY <1>1, <1>2 DEF TypeOK, Answer
<1>6. StackOK(stack)'
  BY <1>1, EmptySeq DEF Inv, StackOK, Typed, Searching, Distinct, Chained
<1>7. asking \in Asked'
  BY <1>2, <1>3, <1>4 DEF Asked
<1>8. AnswerTrue' /\ Quiet'
  BY <1>1, <1>7 DEF AnswerTrue, Quiet
<1>9. Settled'
  BY <1>1, <1>2, <1>3, <1>4, EmptySeq DEF Inv, Settled, IsKnown
<1>10. Marks' /\ Witnessed'
  BY <1>1 DEF Inv, Marks, Witnessed, ClosedFrom
<1>. QED  BY <1>1, <1>2, <1>3, <1>5, <1>6, <1>8, <1>9, <1>10 DEF Inv

LEMMA NextInv == Inv /\ [Next]_reachVars => Inv'
<1>. SUFFICES ASSUME Inv, [Next]_reachVars PROVE Inv'
  OBVIOUS
<1>1. ASSUME NEW p \in Node, NEW n \in Node, AddNext(p, n) PROVE Inv'
  BY <1>1, AddNextInv
<1>2. ASSUME NEW n \in Node, Query(n) PROVE Inv'
  BY <1>2, QueryInv
<1>3. ASSUME NEW p \in Node, AskPrev(p) PROVE Inv'
  BY <1>3, AskPrevInv
<1>4. CASE Found
  BY <1>4, FoundInv
<1>5. CASE GiveUp
  BY <1>5, GiveUpInv
<1>6. CASE Deliver
  BY <1>6, DeliverInv
<1>7. CASE UNCHANGED reachVars
  BY <1>7 DEF reachVars, Inv, TypeOK, StackOK, Typed, Searching, Distinct, Chained,
              AnswerTrue, Quiet, Settled, Marks, Witnessed, ClosedFrom, IsKnown,
              Asked, Top
<1>. QED  BY <1>1, <1>2, <1>3, <1>4, <1>5, <1>6, <1>7 DEF Next, Search

LEMMA VerdictsStableStep ==
    Inv /\ [Next]_reachVars =>
        \A n \in Node : verdict[n] # "none" => verdict'[n] = verdict[n]
<1>. SUFFICES ASSUME Inv, [Next]_reachVars, NEW n \in Node, verdict[n] # "none"
              PROVE  verdict'[n] = verdict[n]
  OBVIOUS
<1>1. CASE Deliver
  <2>1. /\ answer \in {"yes", "no"} /\ asking \in Node
        /\ answer = "yes" <=> IsKnown(asking)
        /\ verdict' = [verdict EXCEPT ![asking] = answer]
    BY <1>1, DeliverInv
  <2>2. verdict \in [Node -> Answer] /\ (verdict[n] = "yes" <=> IsKnown(n))
    BY DEF Inv, TypeOK, Settled
  <2>. QED  BY <2>1, <2>2 DEF Answer
<1>2. CASE ~Deliver
  BY <1>2 DEF Next, Search, AddNext, Query, AskPrev, Found, GiveUp, reachVars
<1>. QED  BY <1>1, <1>2

-----------------------------------------------------------------------------
(***************************************************************************)
(* What the cached search misses.  A node whose answer is no, or not yet   *)
(* known: its stale flag is cleared and it is not marked.                  *)
(***************************************************************************)
Denied(n) == n # Entry /\ ~isReachable[n] /\ ~isReachableStale[n]

OnStack(n) == \E i \in 1 .. Len(stack) : stack[i].node = n

Sources(n) == {m \in Node : n \in prev[m]}

\* What an active call still does about the predecessor p of its node: it has it
\* left to ask, is asking it, or has been told that a predecessor is reachable.
Handles(i, p) ==
    \/ p \in stack[i].left
    \/ i < Len(stack) /\ stack[i + 1].node = p
    \/ i = Len(stack) /\ answer = "yes"

\* A denied node lies on a cycle, or its predecessors have been denied for good, or
\* its call is active and not through with them.
Excused(m, p) ==
    \/ OnCycle(m)
    \/ Denied(p) /\ ~OnStack(p)
    \/ \E i \in 1 .. Len(stack) : stack[i].node = m /\ Handles(i, p)

DenialsExcused == \A m \in Node : Denied(m) => \A p \in prev[m] : Excused(m, p)

\* Each active call's node can be reached from those of the calls above it.
Nested ==
    \A i, j \in 1 .. Len(stack) : i <= j => stack[i].node \in Closure({stack[j].node})

\* Before the first query nothing is denied.
Untouched == asking = NoNode /\ Asked = {} => \A n \in Node : isReachableStale[n]

Complete == DenialsExcused /\ Nested /\ Untouched

\* A node is in its own closure, and the closure of a member lies within it.
LEMMA ClosureHolds == ASSUME NEW n \in Node PROVE n \in Closure({n})
  BY DEF Closure, ClosedFrom

LEMMA ClosureFollows ==
    ASSUME NEW seeds, NEW p \in Node, NEW n \in Node, p \in Closure(seeds), p \in prev[n]
    PROVE  n \in Closure(seeds)
<1> SUFFICES ASSUME NEW S \in SUBSET Node, ClosedFrom(S, seeds)
             PROVE  n \in S
  BY DEF Closure
<1> QED
  BY DEF Closure, ClosedFrom

LEMMA ClosureWithin ==
    ASSUME NEW seeds, NEW n \in Closure(seeds), NEW m \in Closure({n})
    PROVE  m \in Closure(seeds)
<1> SUFFICES ASSUME NEW S \in SUBSET Node, ClosedFrom(S, seeds)
             PROVE  m \in S
  BY DEF Closure
<1>1. n \in S
  BY DEF Closure
<1>2. ClosedFrom(S, {n})
  BY <1>1 DEF ClosedFrom
<1> QED
  BY <1>2 DEF Closure

\* A node that a node it leads to leads back to lies on a cycle.
LEMMA CycleCloses ==
    ASSUME NEW m \in Node, NEW p \in Node, p \in prev[m], p \in Closure({m}),
           prev \in [Node -> SUBSET Node]
    PROVE  OnCycle(m)
<1> SUFFICES ASSUME NEW S \in SUBSET Node, ClosedFrom(S, Sources(m))
             PROVE  m \in S
  BY DEF OnCycle, Closure, Sources
<1> DEFINE T == S \cup {m}
<1>1. ClosedFrom(T, {m})
  BY DEF ClosedFrom, Sources
<1>2. p \in T
  BY <1>1 DEF Closure
<1>3. CASE p \in S
  BY <1>3 DEF ClosedFrom
<1>4. CASE p = m
  BY <1>4 DEF ClosedFrom, Sources
<1> QED
  BY <1>2, <1>3, <1>4

LEMMA InitComplete == Init => Complete
  BY EmptySeq DEF Init, Complete, DenialsExcused, Denied, Nested, Untouched

LEMMA SameGraph ==
    ASSUME prev' = prev
    PROVE  /\ \A m : OnCycle(m)' <=> OnCycle(m)
           /\ \A m, n : m \in Closure({n})' <=> m \in Closure({n})
  BY DEF OnCycle, Closure, ClosedFrom

\* A call that has been made leaves everything excused if it is answered at once and
\* something excuses the caller, or if it goes on the stack.
LEMMA QueryComplete ==
    ASSUME Inv, Complete, NEW n \in Node, Query(n)
    PROVE  Complete'
<1>1. /\ stack = <<>> /\ asking' = n /\ n # NoNode
      /\ UNCHANGED <<prev, isReachable>>
      /\ CallAnswered(n, <<>>) \/ CallSearches(n, <<>>)
  BY NodeAssumption DEF Query, Inv, Quiet, graph, NoNode
<1>2. TypeOK /\ Len(stack) = 0
  BY <1>1 DEF Inv
<1>3. Untouched'
  BY <1>1 DEF Untouched
<1>4. CASE CallAnswered(n, <<>>)
  <2>1. stack' = stack /\ isReachableStale' = isReachableStale
    BY <1>1, <1>4 DEF CallAnswered
  <2>2. DenialsExcused'
    <3> SUFFICES ASSUME NEW m \in Node, Denied(m), NEW p \in prev[m]
                 PROVE  Excused(m, p)'
      BY <1>1, <2>1 DEF DenialsExcused, Denied
    <3>1. OnCycle(m) \/ (Denied(p) /\ ~OnStack(p))
      BY <1>2 DEF Complete, DenialsExcused, Excused
    <3> QED
      BY <1>1, <2>1, <3>1, SameGraph DEF Excused, Denied, OnStack
  <2>3. Nested'
    BY <1>2, <2>1 DEF Nested
  <2> QED
    BY <1>3, <2>2, <2>3 DEF Complete
<1>5. CASE CallSearches(n, <<>>)
  <2>1. /\ ~IsKnown(n) /\ isReachableStale[n]
        /\ stack' = <<Frame(n)>>
        /\ isReachableStale' = [isReachableStale EXCEPT ![n] = FALSE]
    BY <1>5 DEF CallSearches, StaleAfterCall
  <2>2. /\ Len(stack') = 1 /\ stack'[1].node = n /\ stack'[1].left = prev[n]
        /\ \A i \in 1 .. Len(stack') : i = 1
    BY <2>1 DEF Frame
  <2>3. \A m \in Node : Denied(m)' => m = n \/ Denied(m)
    BY <1>1, <1>2, <2>1 DEF Denied, TypeOK
  <2>4. \A m \in Node : Denied(m) => m # n /\ Denied(m)'
    BY <1>1, <1>2, <2>1 DEF Denied, TypeOK
  <2>5. DenialsExcused'
    <3> SUFFICES ASSUME NEW m \in Node, Denied(m)', NEW p \in prev[m]
                 PROVE  Excused(m, p)'
      BY <1>1 DEF DenialsExcused
    <3>1. CASE m = n
      <4>1. Handles(1, p)' /\ 1 \in 1 .. Len(stack') /\ stack'[1].node = m
        BY <2>2, <3>1 DEF Handles
      <4> QED
        BY <4>1 DEF Excused
    <3>2. CASE m # n
      <4>1. OnCycle(m) \/ Denied(p)
        BY <1>2, <2>3, <3>2 DEF Complete, DenialsExcused, Excused
      <4>2. p \in Node
        BY <1>2 DEF TypeOK
      <4>3. Denied(p) => Denied(p)' /\ ~OnStack(p)'
        BY <2>2, <2>4, <4>2 DEF OnStack
      <4> QED
        BY <1>1, <4>1, <4>3, SameGraph DEF Excused
    <3> QED
      BY <3>1, <3>2
  <2>6. Nested'
    BY <1>1, <2>2, ClosureHolds, SameGraph DEF Nested
  <2> QED
    BY <1>3, <2>5, <2>6 DEF Complete
<1> QED
  BY <1>1, <1>4, <1>5

\* What AskPrev leaves of the stack under the call it makes, frame by frame.
LEMMA AskedLefts ==
    ASSUME Inv, stack # <<>>, NEW p \in Top.left
    PROVE  LET frames == Append(Below, [Top EXCEPT !.left = LeftAfter(p)])
           IN  /\ \A i \in 1 .. Len(stack) - 1 : frames[i] = stack[i]
               /\ frames[Len(stack)].left = Top.left \ {p}
<1>1. stack \in Seq(FrameType)
  BY DEF Inv, StackOK, Typed
<1>2. /\ Len(stack) \in Nat \ {0} /\ Top \in FrameType
      /\ Below \in Seq(FrameType) /\ Len(Below) = Len(stack) - 1
      /\ \A i \in 1 .. Len(stack) - 1 : Below[i] = stack[i]
  BY <1>1, BelowFacts
<1> DEFINE f == [Top EXCEPT !.left = LeftAfter(p)]
<1>3. f \in FrameType /\ f.left = Top.left \ {p}
  BY <1>2 DEF FrameType, LeftAfter
<1> HIDE DEF f
<1>4. /\ \A i \in 1 .. Len(stack) - 1 : Append(Below, f)[i] = stack[i]
      /\ Append(Below, f)[Len(stack)] = f
  BY <1>2, <1>3
<1> QED
  BY <1>3, <1>4 DEF f

LEMMA AskPrevComplete ==
    ASSUME Inv, Complete, NEW p \in Node, AskPrev(p)
    PROVE  Complete'
<1> DEFINE frames == Append(Below, [Top EXCEPT !.left = LeftAfter(p)])
           n == Len(stack)
<1>1. /\ stack # <<>> /\ p \in Top.left /\ answer # "yes"
      /\ CallAnswered(p, frames) \/ CallSearches(p, frames)
      /\ UNCHANGED <<prev, isReachable, asking>>
  BY DEF AskPrev, graph
<1>2. /\ frames \in Seq(FrameType) /\ Len(frames) = n
      /\ \A i \in 1 .. n : frames[i].node = stack[i].node
  BY <1>1, AskedFrames
<1>3. /\ \A i \in 1 .. n - 1 : frames[i] = stack[i]
      /\ frames[n].left = Top.left \ {p}
  BY <1>1, AskedLefts
<1> HIDE DEF frames
<1>4. TypeOK /\ StackOK(stack) /\ stack \in Seq(FrameType) /\ asking # NoNode
  BY <1>1 DEF Inv, StackOK, Typed, Quiet
<1>5. n \in Nat \ {0} /\ Top = stack[n]
  BY <1>1, <1>4, BelowFacts
<1>6. \A i \in 1 .. n : stack[i].node \in Node
  <2>1. \A i \in 1 .. n : stack[i] \in FrameType
    BY <1>4, LenProperties
  <2> QED
    BY <2>1 DEF FrameType
<1>7. p \in prev[stack[n].node] /\ stack[n].node \in Node
  BY <1>1, <1>4, <1>5, <1>6 DEF StackOK, Typed
<1>8. Untouched'
  BY <1>1, <1>4 DEF Untouched
<1>9. \A i \in 1 .. n : stack[i].node \in Closure({stack[n].node})
  BY <1>5 DEF Complete, Nested
<1>10. \A i \in 1 .. n : stack[i].node \in Closure({p})
  BY <1>6, <1>7, <1>9, ClosureHolds, ClosureFollows, ClosureWithin
<1>11. CASE CallAnswered(p, frames)
  <2>1. /\ stack' = frames /\ isReachableStale' = isReachableStale
        /\ answer' = IF IsKnown(p) THEN "yes" ELSE "no"
        /\ IsKnown(p) \/ ~isReachableStale[p]
    BY <1>11 DEF CallAnswered
  <2>2. \A m : Denied(m)' <=> Denied(m)
    BY <1>1, <2>1 DEF Denied
  <2>3. \A m : OnStack(m)' <=> OnStack(m)
    BY <1>2, <2>1 DEF OnStack
  <2>4. DenialsExcused'
    <3> SUFFICES ASSUME NEW m \in Node, Denied(m), NEW q \in prev[m]
                 PROVE  Excused(m, q)'
      BY <1>1, <2>2 DEF DenialsExcused
    <3>1. Excused(m, q)
      BY DEF Complete, DenialsExcused
    <3>2. CASE OnCycle(m) \/ (Denied(q) /\ ~OnStack(q))
      BY <1>1, <2>2, <2>3, <3>2, SameGraph DEF Excused
    <3>3. ASSUME NEW i \in 1 .. n, stack[i].node = m, Handles(i, q)
          PROVE  Excused(m, q)'
      <4>1. CASE i < n
        <5>1. i \in 1 .. n - 1 /\ i + 1 \in 1 .. n
          BY <1>5, <4>1
        <5>2. Handles(i, q)'
          BY <1>2, <1>3, <2>1, <3>3, <4>1, <5>1 DEF Handles
        <5> QED
          BY <1>2, <2>1, <3>3, <5>2 DEF Excused
      <4>2. CASE i = n
        <5>1. q \in Top.left
          BY <1>1, <1>5, <3>3, <4>2 DEF Handles
        <5>2. CASE q # p \/ answer' = "yes"
          <6>1. Handles(i, q)'
            BY <1>2, <1>3, <2>1, <4>2, <5>1, <5>2 DEF Handles
          <6> QED
            BY <1>2, <2>1, <3>3, <6>1 DEF Excused
        <5>3. CASE q = p /\ answer' # "yes"
          <6>1. ~IsKnown(p) /\ Denied(p)
            BY <2>1, <5>3 DEF Denied, IsKnown
          <6>2. CASE ~OnStack(p)
            BY <2>2, <2>3, <5>3, <6>1, <6>2 DEF Excused
          <6>3. CASE OnStack(p)
            <7>1. p \in Closure({m}) /\ p \in prev[m]
              BY <1>7, <1>9, <3>3, <4>2, <6>3 DEF OnStack
            <7>2. OnCycle(m)
              BY <1>4, <7>1, CycleCloses DEF TypeOK
            <7> QED
              BY <1>1, <7>2, SameGraph DEF Excused
          <6> QED
            BY <6>2, <6>3
        <5> QED
          BY <5>2, <5>3
      <4> QED
        BY <1>5, <4>1, <4>2
    <3> QED
      BY <3>1, <3>2, <3>3 DEF Excused
  <2>5. Nested'
    BY <1>1, <1>2, <2>1, SameGraph DEF Complete, Nested
  <2> QED
    BY <1>8, <2>4, <2>5 DEF Complete
<1>12. CASE CallSearches(p, frames)
  <2>1. /\ ~IsKnown(p) /\ isReachableStale[p]
        /\ stack' = Append(frames, Frame(p))
        /\ isReachableStale' = [isReachableStale EXCEPT ![p] = FALSE]
    BY <1>12 DEF CallSearches, StaleAfterCall
  <2>2. Frame(p) \in FrameType /\ Frame(p).node = p /\ Frame(p).left = prev[p]
    BY <1>4 DEF Frame, FrameType, TypeOK
  <2>3. /\ Len(stack') = n + 1 /\ stack'[n + 1] = Frame(p)
        /\ \A i \in 1 .. n : stack'[i] = frames[i]
    BY <1>2, <2>1, <2>2, AppendProperties
  <2>4. /\ \A i \in 1 .. Len(stack') : i \in 1 .. n \/ i = n + 1
        /\ \A i \in 1 .. n : i \in 1 .. Len(stack') /\ i < Len(stack')
        /\ n + 1 \in 1 .. Len(stack')
    BY <1>5, <2>3
  <2>5. /\ \A m \in Node : Denied(m)' => m = p \/ Denied(m)
        /\ \A m \in Node : Denied(m) => m # p /\ Denied(m)'
    BY <1>1, <1>4, <2>1 DEF Denied, TypeOK
  <2>6. \A m : OnStack(m)' <=> OnStack(m) \/ m = p
    BY <1>2, <2>2, <2>3, <2>4 DEF OnStack
  <2>7. DenialsExcused'
    <3> SUFFICES ASSUME NEW m \in Node, Denied(m)', NEW q \in prev[m]
                 PROVE  Excused(m, q)'
      BY <1>1 DEF DenialsExcused
    <3>1. q \in Node
      BY <1>4 DEF TypeOK
    <3>2. CASE m = p
      <4>1. q \in stack'[n + 1].left /\ stack'[n + 1].node = m
        BY <1>1, <2>2, <2>3, <3>2
      <4> QED
        BY <2>4, <4>1 DEF Excused, Handles
    <3>3. CASE m # p
      <4>1. Excused(m, q)
        BY <2>5, <3>3 DEF Complete, DenialsExcused
      <4>2. CASE OnCycle(m) \/ (Denied(q) /\ ~OnStack(q))
        BY <1>1, <2>5, <2>6, <3>1, <4>2, SameGraph DEF Excused
      <4>3. ASSUME NEW i \in 1 .. n, stack[i].node = m, Handles(i, q)
            PROVE  Excused(m, q)'
        <5>1. stack'[i].node = m /\ i \in 1 .. Len(stack') /\ i < Len(stack')
          BY <1>2, <2>3, <2>4, <4>3
        <5>2. Handles(i, q)'
          <6>1. CASE i < n
            <7>1. i \in 1 .. n - 1 /\ i + 1 \in 1 .. n
              BY <1>5, <6>1
            <7> QED
              BY <1>2, <1>3, <2>3, <4>3, <5>1, <6>1, <7>1 DEF Handles
          <6>2. CASE i = n
            <7>1. q \in Top.left
              BY <1>1, <1>5, <4>3, <6>2 DEF Handles
            <7> QED
              BY <1>3, <2>2, <2>3, <5>1, <6>2, <7>1 DEF Handles
          <6> QED
            BY <1>5, <6>1, <6>2
        <5> QED
          BY <5>1, <5>2 DEF Excused
      <4> QED
        BY <4>1, <4>2, <4>3 DEF Excused
    <3> QED
      BY <3>2, <3>3
  <2>8. Nested'
    <3> SUFFICES ASSUME NEW i \in 1 .. Len(stack'), NEW j \in 1 .. Len(stack'), i <= j
                 PROVE  stack'[i].node \in Closure({stack'[j].node})
      BY <1>1, SameGraph DEF Nested
    <3>1. CASE j \in 1 .. n
      <4>1. i \in 1 .. n
        BY <1>5, <3>1
      <4> QED
        BY <1>2, <2>3, <3>1, <4>1 DEF Complete, Nested
    <3>2. CASE j = n + 1
      BY <1>2, <1>10, <2>2, <2>3, <2>4, <3>2, ClosureHolds
    <3> QED
      BY <2>4, <3>1, <3>2
  <2> QED
    BY <1>8, <2>7, <2>8 DEF Complete
<1> QED
  BY <1>1, <1>11, <1>12

\* Taking the top call off the stack.
LEMMA PopFacts ==
    ASSUME Inv, stack # <<>>, stack' = Below
    PROVE  /\ Len(stack) \in Nat \ {0} /\ Top = stack[Len(stack)]
           /\ Len(stack') = Len(stack) - 1
           /\ \A i \in 1 .. Len(stack') : i \in 1 .. Len(stack) - 1 /\ stack'[i] = stack[i]
           /\ \A i \in 1 .. Len(stack) : i \in 1 .. Len(stack') \/ i = Len(stack)
           /\ Top.node \in Node /\ Denied(Top.node)
           /\ \A m : OnStack(m) <=> OnStack(m)' \/ m = Top.node
           /\ \A m : m = Top.node => ~OnStack(m)'
<1>1. StackOK(stack) /\ stack \in Seq(FrameType)
  BY DEF Inv, StackOK, Typed
<1>2. /\ Len(stack) \in Nat \ {0} /\ Top = stack[Len(stack)] /\ Top \in FrameType
      /\ Len(stack') = Len(stack) - 1
      /\ \A i \in 1 .. Len(stack) - 1 : stack'[i] = stack[i]
  BY <1>1, BelowFacts
<1>3. /\ \A i \in 1 .. Len(stack') : i \in 1 .. Len(stack) - 1 /\ i \in 1 .. Len(stack)
                                      /\ i # Len(stack)
      /\ \A i \in 1 .. Len(stack) : i \in 1 .. Len(stack') \/ i = Len(stack)
      /\ Len(stack) \in 1 .. Len(stack)
  BY <1>2
<1>4. Denied(Top.node)
  BY <1>1, <1>2, <1>3 DEF StackOK, Searching, Denied
<1>5. \A m : OnStack(m) <=> OnStack(m)' \/ m = Top.node
  BY <1>2, <1>3 DEF OnStack
<1>6. \A m : m = Top.node => ~OnStack(m)'
  BY <1>1, <1>2, <1>3 DEF StackOK, Distinct, OnStack
<1> QED
  BY <1>2, <1>3, <1>4, <1>5, <1>6 DEF FrameType

LEMMA PopNested ==
    ASSUME Inv, Nested, stack # <<>>, stack' = Below, prev' = prev
    PROVE  Nested'
<1>1. \A i \in 1 .. Len(stack') : i \in 1 .. Len(stack) /\ stack'[i] = stack[i]
  BY PopFacts
<1> QED
  BY <1>1, SameGraph DEF Nested

LEMMA FoundComplete ==
    ASSUME Inv, Complete, Found
    PROVE  Complete'
<1>1. /\ stack # <<>> /\ stack' = Below /\ answer' = "yes"
      /\ isReachable' = [isReachable EXCEPT ![Top.node] = TRUE]
      /\ UNCHANGED <<prev, isReachableStale, asking>>
  BY DEF Found, graph, RememberedYes, Marked
<1>2. /\ Len(stack) \in Nat \ {0} /\ Top = stack[Len(stack)]
      /\ Len(stack') = Len(stack) - 1
      /\ \A i \in 1 .. Len(stack') : i \in 1 .. Len(stack) - 1 /\ stack'[i] = stack[i]
      /\ \A i \in 1 .. Len(stack) : i \in 1 .. Len(stack') \/ i = Len(stack)
      /\ Top.node \in Node /\ Denied(Top.node)
      /\ \A m : OnStack(m) <=> OnStack(m)' \/ m = Top.node
  BY <1>1, PopFacts
<1>3. TypeOK /\ asking # NoNode
  BY <1>1 DEF Inv, Quiet
<1>4. \A m \in Node : Denied(m)' <=> Denied(m) /\ m # Top.node
  BY <1>1, <1>2, <1>3 DEF Denied, TypeOK
<1>5. DenialsExcused'
  <2> SUFFICES ASSUME NEW m \in Node, Denied(m), m # Top.node, NEW q \in prev[m]
               PROVE  Excused(m, q)'
    BY <1>1, <1>4 DEF DenialsExcused
  <2>1. q \in Node
    BY <1>3 DEF TypeOK
  <2>2. Excused(m, q)
    BY DEF Complete, DenialsExcused
  <2>3. CASE OnCycle(m) \/ (Denied(q) /\ ~OnStack(q))
    BY <1>1, <1>2, <1>4, <2>1, <2>3, SameGraph DEF Excused
  <2>4. ASSUME NEW i \in 1 .. Len(stack), stack[i].node = m, Handles(i, q)
        PROVE  Excused(m, q)'
    <3>1. i \in 1 .. Len(stack') /\ stack'[i] = stack[i]
      BY <1>2, <2>4
    <3>2. Handles(i, q)'
      <4>1. CASE i = Len(stack')
        BY <1>1, <4>1 DEF Handles
      <4>2. CASE i # Len(stack')
        <5>1. i < Len(stack') /\ i < Len(stack) /\ i # Len(stack) /\ i + 1 \in 1 .. Len(stack')
          BY <1>2, <3>1, <4>2
        <5> QED
          BY <1>2, <2>4, <3>1, <5>1 DEF Handles
      <4> QED
        BY <4>1, <4>2
    <3> QED
      BY <2>4, <3>1, <3>2 DEF Excused
  <2> QED
    BY <2>2, <2>3, <2>4 DEF Excused
<1>6. Untouched'
  BY <1>1, <1>3 DEF Untouched
<1> QED
  BY <1>1, <1>5, <1>6, PopNested DEF Complete

LEMMA GiveUpComplete ==
    ASSUME Inv, Complete, GiveUp
    PROVE  Complete'
<1>1. /\ stack # <<>> /\ stack' = Below /\ answer # "yes" /\ answer' = "no" /\ Top.left = {}
      /\ UNCHANGED <<prev, isReachable, isReachableStale, asking>>
  BY DEF GiveUp, graph
<1>2. /\ Len(stack) \in Nat \ {0} /\ Top = stack[Len(stack)]
      /\ Len(stack') = Len(stack) - 1
      /\ \A i \in 1 .. Len(stack') : i \in 1 .. Len(stack) - 1 /\ stack'[i] = stack[i]
      /\ \A i \in 1 .. Len(stack) : i \in 1 .. Len(stack') \/ i = Len(stack)
      /\ Top.node \in Node /\ Denied(Top.node)
      /\ \A m : OnStack(m) <=> OnStack(m)' \/ m = Top.node
      /\ \A m : m = Top.node => ~OnStack(m)'
  BY <1>1, PopFacts
<1>3. TypeOK /\ asking # NoNode
  BY <1>1 DEF Inv, Quiet
<1>4. \A m : Denied(m)' <=> Denied(m)
  BY <1>1 DEF Denied
<1>5. DenialsExcused'
  <2> SUFFICES ASSUME NEW m \in Node, Denied(m), NEW q \in prev[m]
               PROVE  Excused(m, q)'
    BY <1>1, <1>4 DEF DenialsExcused
  <2>1. Excused(m, q)
    BY DEF Complete, DenialsExcused
  <2>2. CASE OnCycle(m) \/ (Denied(q) /\ ~OnStack(q))
    BY <1>1, <1>2, <1>4, <2>2, SameGraph DEF Excused
  <2>3. ASSUME NEW i \in 1 .. Len(stack), stack[i].node = m, Handles(i, q)
        PROVE  Excused(m, q)'
    <3>1. i # Len(stack)
      BY <1>1, <1>2, <2>3 DEF Handles
    <3>2. i \in 1 .. Len(stack') /\ stack'[i] = stack[i]
      BY <1>2, <3>1
    <3>3. q \in stack[i].left \/ stack[i + 1].node = q
      BY <2>3, <3>1 DEF Handles
    <3>4. CASE q \in stack[i].left \/ i < Len(stack')
      <4>1. i < Len(stack') => i + 1 \in 1 .. Len(stack')
        BY <1>2, <3>2
      <4>2. Handles(i, q)'
        BY <1>2, <3>2, <3>3, <3>4, <4>1 DEF Handles
      <4> QED
        BY <2>3, <3>2, <4>2 DEF Excused
    <3>5. CASE i = Len(stack') /\ stack[i + 1].node = q
      <4>1. q = Top.node
        BY <1>2, <3>5
      <4> QED
        BY <1>2, <1>4, <4>1 DEF Excused
    <3>6. i = Len(stack') \/ i < Len(stack')
      BY <1>2, <3>2
    <3> QED
      BY <3>3, <3>4, <3>5, <3>6
  <2> QED
    BY <2>1, <2>2, <2>3 DEF Excused
<1>6. Untouched'
  BY <1>1, <1>3 DEF Untouched
<1> QED
  BY <1>1, <1>5, <1>6, PopNested DEF Complete

LEMMA DeliverComplete ==
    ASSUME Inv, Complete, Deliver
    PROVE  Complete'
<1>1. /\ stack = <<>> /\ stack' = stack
      /\ UNCHANGED <<prev, isReachable, isReachableStale>>
  BY DEF Deliver, graph
<1>2. asking \in Asked'
  BY DeliverInv DEF Asked, Inv, TypeOK
<1>3. DenialsExcused'
  <2>1. /\ Len(stack) = 0
        /\ \A m : (Denied(m)' <=> Denied(m)) /\ (OnStack(m)' <=> OnStack(m))
    BY <1>1 DEF Denied, OnStack
  <2> QED
    BY <1>1, <2>1, SameGraph DEF Complete, DenialsExcused, Excused
<1> QED
  BY <1>1, <1>2, <1>3 DEF Complete, Nested, Untouched

LEMMA AddNextComplete ==
    ASSUME Inv, Complete, NEW p \in Node, NEW n \in Node, AddNext(p, n)
    PROVE  Complete'
<1>1. /\ stack' = <<>> /\ asking = NoNode /\ Asked = {}
      /\ isReachableStale' = [isReachableStale EXCEPT ![n] = TRUE]
  BY DEF AddNext, Inv, Quiet
<1>2. \A m \in Node : isReachableStale'[m]
  BY <1>1 DEF Inv, TypeOK, Complete, Untouched
<1> QED
  BY <1>1, <1>2 DEF Complete, DenialsExcused, Denied, Nested, Untouched

LEMMA NextComplete == Inv /\ Complete /\ [Next]_reachVars => Complete'
<1> SUFFICES ASSUME Inv, Complete, [Next]_reachVars PROVE Complete'
  OBVIOUS
<1>1. CASE UNCHANGED reachVars
  BY <1>1 DEF reachVars, Complete, DenialsExcused, Denied, Excused, Handles, OnStack, Nested,
              Untouched, Asked, OnCycle, Closure, ClosedFrom
<1> QED
  BY <1>1, AddNextComplete, QueryComplete, AskPrevComplete, FoundComplete, GiveUpComplete,
     DeliverComplete DEF Next, Search

-----------------------------------------------------------------------------
(***************************************************************************)
(* The theorems.                                                           *)
(***************************************************************************)

LEMMA Invariance == Spec => []Inv
BY InitInv, NextInv, PTL DEF Spec

\* The flags, the call stack and the answers keep their types: an active call
\* only has predecessors of its own node left to ask.
THEOREM TypeCorrect == Spec => []TypeOK
<1>1. Inv => TypeOK
  BY DEF Inv
<1>. QED  BY <1>1, Invariance, PTL

\* Whatever the graph and whatever was asked before, a node called reachable
\* is in every set that holds the entry and is closed under edges.
THEOREM YesIsReachable == Spec => []Sound
<1>1. Inv => Sound
  <2>. SUFFICES ASSUME Inv, NEW S \in SUBSET Node, ClosedFrom(S, {Entry}),
                       NEW n \in Node, verdict[n] = "yes" \/ isReachable[n]
                PROVE  n \in S
    BY DEF Sound
  <2>1. IsKnown(n)
    BY DEF Inv, Settled, IsKnown
  <2>. QED  BY <2>1 DEF Inv, Marks, IsKnown, ClosedFrom
<1>. QED  BY <1>1, Invariance, PTL

\* Whatever the graph, a node remembered as reachable has a predecessor that
\* is.
THEOREM ReachableHasReachablePrev == Spec => []Witnessed
<1>1. Inv => Witnessed
  BY DEF Inv
<1>. QED  BY <1>1, Invariance, PTL

\* Whatever the graph, the recursion never enters a node twice at a time.
THEOREM RecursionIsBounded == Spec => []NoReentry
<1>1. Inv => NoReentry
  BY DEF Inv, StackOK, Distinct, NoReentry
<1>. QED  BY <1>1, Invariance, PTL

\* Whatever the graph and the queries in between, a second query of a node
\* gets the answer of the first.
THEOREM AnswersAgree == Spec => VerdictsStable
BY Invariance, VerdictsStableStep, PTL DEF Spec, VerdictsStable

\* Whatever the graph and the order of the queries, a reachable node is called
\* unreachable only if it lies on a cycle or behind one: the set of the nodes that
\* are not denied for good, or excused by a cycle, is closed under edges.
THEOREM WrongOnlyBehindCycles == Spec => []CompleteBeforeCycles
<1>1. ASSUME Inv, Complete PROVE CompleteBeforeCycles
  <2> SUFFICES ASSUME NEW n \in Node, verdict[n] = "no", n \in Closure({Entry}),
                      ~\E c \in Node : OnCycle(c) /\ (n = c \/ n \in Closure({c}))
               PROVE  FALSE
    BY DEF CompleteBeforeCycles
  <2> DEFINE Behind(m) == \E c \in Node : OnCycle(c) /\ m \in Closure({c})
             S == {m \in Node : Denied(m) /\ ~OnStack(m) => Behind(m)}
  <2>1. Denied(n) /\ ~OnStack(n) /\ ~Behind(n)
    BY <1>1 DEF Inv, Settled, Denied, OnStack, IsKnown
  <2>2. ASSUME NEW m \in Node, NEW p \in prev[m], p \in S
        PROVE  m \in S
    <3> SUFFICES ASSUME Denied(m), ~OnStack(m) PROVE Behind(m)
      OBVIOUS
    <3>1. p \in Node
      BY <1>1 DEF Inv, TypeOK
    <3>2. CASE OnCycle(m)
      BY <3>2, ClosureHolds
    <3>3. CASE Behind(p)
      BY <3>1, <3>3, ClosureFollows
    <3>4. Excused(m, p)
      BY <1>1 DEF Complete, DenialsExcused
    <3> QED
      BY <2>2, <3>2, <3>3, <3>4 DEF Excused, OnStack
  <2>3. Entry \in S
    BY NodeAssumption DEF Denied
  <2>4. S \in SUBSET Node
    OBVIOUS
  <2> HIDE DEF S
  <2>5. ClosedFrom(S, {Entry})
    BY <2>2, <2>3 DEF ClosedFrom
  <2>6. n \in S
    BY <2>4, <2>5 DEF Closure
  <2> QED
    BY <2>1, <2>6 DEF S
<1>2. Spec => []Complete
  BY InitComplete, NextComplete, Invariance, PTL DEF Spec
<1> QED
  BY <1>1, <1>2, Invariance, PTL

Yes == {n \in Node : verdict[n] = "yes"}

Behind(n) == \E c \in Node : OnCycle(c) /\ (n = c \/ n \in Closure({c}))

\* What Program takes the answers for once every node has been asked: all that is
\* reachable and not behind a cycle, nothing that is not reachable, and with every node
\* but the entry a predecessor of it.
AnswersAsReliedOn ==
    Asked = Node =>
        /\ {n \in Closure({Entry}) : ~Behind(n)} \subseteq Yes
        /\ Yes \subseteq Closure({Entry})
        /\ \A n \in Yes \ {Entry} : \E p \in Yes : p \in prev[n]

\* Whatever the graph, the order of the prev sets and the order of the queries, the nodes
\* IsReachable has said yes of are a set that the reports and the audit of Program may be
\* given (Answers of Program): they need not know how the cache works.
THEOREM AnswersAreAsReliedOn == Spec => []AnswersAsReliedOn
<1>1. ASSUME Inv, Sound, CompleteBeforeCycles PROVE AnswersAsReliedOn
  <2> SUFFICES ASSUME Asked = Node
               PROVE  /\ {n \in Closure({Entry}) : ~Behind(n)} \subseteq Yes
                      /\ Yes \subseteq Closure({Entry})
                      /\ \A n \in Yes \ {Entry} : \E p \in Yes : p \in prev[n]
    BY DEF AnswersAsReliedOn
  <2>1. \A n \in Node : verdict[n] \in {"yes", "no"}
    BY <1>1 DEF Inv, TypeOK, Answer, Asked
  <2>2. ASSUME NEW n \in Closure({Entry}), ~Behind(n) PROVE n \in Yes
    <3>1. n \in Node
      BY DEF Closure
    <3>2. verdict[n] # "no"
      BY <1>1, <2>2, <3>1 DEF CompleteBeforeCycles, Behind
    <3> QED
      BY <2>1, <3>1, <3>2 DEF Yes
  <2>3. ASSUME NEW n \in Yes PROVE n \in Closure({Entry})
    <3>1. n \in Node /\ verdict[n] = "yes"
      BY DEF Yes
    <3>2. \A S \in SUBSET Node : ClosedFrom(S, {Entry}) => n \in S
      BY <1>1, <3>1 DEF Sound
    <3> QED
      BY <3>1, <3>2 DEF Closure
  <2>4. ASSUME NEW n \in Yes, n # Entry PROVE \E p \in Yes : p \in prev[n]
    <3>1. n \in Node /\ isReachable[n]
      BY <1>1, <2>4 DEF Yes, Inv, Settled, IsKnown
    <3>2. PICK p \in prev[n] : IsKnown(p)
      BY <1>1, <3>1 DEF Inv, Witnessed, IsKnown
    <3>3. p \in Node
      BY <1>1, <3>1 DEF Inv, TypeOK
    <3>4. verdict[p] = "yes"
      BY <1>1, <2>1, <3>2, <3>3 DEF Inv, Settled
    <3> QED
      BY <3>2, <3>3, <3>4 DEF Yes
  <2> QED
    BY <2>2, <2>3, <2>4
<1> QED
  BY <1>1, Invariance, YesIsReachable, WrongOnlyBehindCycles, PTL

=============================================================================
