--------------------------- MODULE ProgramProofs ---------------------------
(***************************************************************************)
(* Proofs about Program, for every set of byte strings and all that the    *)
(* contracts found in them lead to: what fillInstructions makes of a code  *)
(* is a stream, initGraph cuts it as InitGraphProofs says, the edges       *)
(* startGraph draws lead where control can come to, nothing that           *)
(* startGraph, solveStack, IsReachable or GetNode then meets is one of the *)
(* null pointers startGraph leaves in the map of the nodes, the states     *)
(* solveStack lists arise on the paths it lists with them, and where no    *)
(* node has two predecessors all that executions come to is reached.       *)
(***************************************************************************)
EXTENDS Program, CFInstructionProofs, FiniteSetTheorems, SequenceTheorems, TLAPS

(***************************************************************************)
(* The invariant, pass by pass.  fillInstructions has decoded the code up  *)
(* to pos.                                                                 *)
(***************************************************************************)
Decoded ==
    /\ IsByteString(code) /\ IsAddressable(code)
    /\ pos \in Nat /\ pos <= Cardinality(DOMAIN code)
    /\ DOMAIN instructions \subseteq DOMAIN code
    /\ IsStream(Opcodes)
    /\ \A o \in DOMAIN instructions : EndOf(Opcodes, o) <= pos
    /\ pos = 0 \/ \E o \in DOMAIN instructions : EndOf(Opcodes, o) = pos

(***************************************************************************)
(* What then holds of the nodes in the map that are no null pointers.      *)
(***************************************************************************)
FiledByStart ==
    \A k : IsFiled(k) =>
        k \in Nat /\ nodes[k].start = k /\ nodes[k].end \in Nat /\ k <= nodes[k].end

FiledDisjoint == \A k, m : IsFiled(k) /\ IsFiled(m) /\ k < m => nodes[k].end <= m

Holds(k, o) == IsFiled(k) /\ k <= o /\ o < nodes[k].end

FiledCover ==
    \A o \in DOMAIN instructions : IsTrailingJumpDest(o) \/ \E k : Holds(k, o)

\* A JUMPDEST that nothing falls into.
Apart(o) ==
    /\ Opcodes[o] = OP_JUMPDEST
    /\ \A p \in DOMAIN instructions :
          EndOf(Opcodes, p) = o => IsStop(Opcodes[p]) \/ IsBranch(Opcodes[p])

EndsWith(k, q) == k <= q /\ EndOf(Opcodes, q) = nodes[k].end

EndsBehind(k) == k < nodes[k].end /\ \E q \in DOMAIN instructions : EndsWith(k, q)

IsEmptyAt(k) ==
    nodes[k].end = k /\ k \in DOMAIN instructions /\ IsTrailingJumpDest(k) /\ Apart(k)

FiledEnds == \A k : IsFiled(k) => EndsBehind(k) \/ IsEmptyAt(k)

ApartAreFiled == \A o \in DOMAIN instructions : Apart(o) => IsFiled(o)

FiledStraight ==
    \A o \in DOMAIN instructions : \A k : Holds(k, o) =>
        /\ IsBranch(Opcodes[o]) \/ IsStop(Opcodes[o]) => EndOf(Opcodes, o) = nodes[k].end
        /\ Opcodes[o] = OP_JUMPDEST => o = k

\* A node that holds instructions begins with one, which is not the JUMPDEST at the end,
\* and is flagged if it is a JUMPDEST.
FiledStarts ==
    \A k : IsFiled(k) /\ k < nodes[k].end =>
        /\ k \in DOMAIN instructions /\ ~IsTrailingJumpDest(k)
        /\ nodes[k].isJumpDest <=> Opcodes[k] = OP_JUMPDEST

Cut ==
    /\ FiledByStart /\ FiledDisjoint /\ FiledCover /\ FiledEnds /\ ApartAreFiled
    /\ FiledStraight /\ FiledStarts

AllFiled == \A k \in DOMAIN nodes : IsFiled(k)

(***************************************************************************)
(* startGraph adds null pointers behind nodes only, and once a node has    *)
(* been visited there is a key where control leaves it.                    *)
(***************************************************************************)
NullsBehind ==
    \A k \in DOMAIN nodes : ~IsFiled(k) =>
        k \in Nat \ {0} /\ \E m : IsFiled(m) /\ m < k /\ nodes[m].end = k

FallsLinked ==
    \A k : IsFiled(k) /\ k \notin todo =>
        \A q \in DOMAIN instructions :
            EndsWith(k, q) /\ IsFallThrough(Opcodes[q]) => nodes[k].end \in DOMAIN nodes

AbortsEmpty == startStatus = "aborted" => EndsInEmptyNode

EdgesFiled == \A e \in next \cup issues : IsFiled(e[1]) /\ IsFiled(e[2])

BeingLinked ==
    /\ ~built => startStatus = "waiting"
    /\ startStatus = "waiting" => todo = {} /\ next = {} /\ issues = {}
    /\ built /\ startStatus = "waiting" => AllFiled
    /\ built => Cut /\ NullsBehind
    /\ \A k \in todo : IsFiled(k)
    /\ EdgesFiled
    /\ startStatus # "waiting" => FallsLinked
    /\ startStatus = "done" => todo = {}
    /\ AbortsEmpty

(***************************************************************************)
(* Until solveStack adds others, the edges of a node that has been visited *)
(* are those its last instruction q calls for.                             *)
(***************************************************************************)
Leads(k, q, m) ==
    \/ IsFallThrough(Opcodes[q]) /\ m = nodes[k].end /\ IsFiled(m)
    \/ m \in Start!JumpsTo(q) /\ Start!JumpAllowed(m)

OnlyVisitedLead ==
    \A e \in next :
        /\ e = <<e[1], e[2]>>
        /\ e[1] \notin todo
        /\ EndsBehind(e[1]) \/ e[1] = 0

VisitedLead ==
    \A k : IsFiled(k) /\ k \notin todo =>
        \A q \in DOMAIN instructions :
            EndsWith(k, q) => \A m : <<k, m>> \in next <=> Leads(k, q, m)

Drawn == OnlyVisitedLead /\ VisitedLead

BeingDrawn == startStatus # "waiting" /\ solveStatus = "waiting" => Drawn

(***************************************************************************)
(* solveStack takes nodes from its worklist that it has put there with an  *)
(* edge to them.                                                           *)
(***************************************************************************)
WorkListed ==
    /\ \E S : worklist \in Seq(S)
    /\ \A i \in 1 .. Len(worklist) :
          \/ worklist[i] = <<0, Stack!Nowhere>> /\ IsFiled(0)
          \/ <<worklist[i][2], worklist[i][1]>> \in next

BeingSolved ==
    /\ startStatus # "done" => solveStatus = "waiting"
    /\ solveStatus = "waiting" => worklist = <<>> /\ DOMAIN entryStates = {}
    /\ WorkListed
    /\ \A k \in DOMAIN entryStates : IsFiled(k)

PendingAreBytes == \A c \in pending : IsByteString(AsCode(c)) /\ IsAddressable(AsCode(c))

BeingAnswered ==
    /\ findStatus # "waiting" => solveStatus = "done"
    /\ findStatus = "waiting" => reach = {}
    /\ \A k \in reach : IsFiled(k)

-----------------------------------------------------------------------------
(***************************************************************************)
(* fillInstructions decodes a stream                                       *)
(***************************************************************************)

LEMMA SameInFill == \A op : Fill!Length(op) = Length(op)
  BY DEF Fill!Length, Length, Fill!IsPush, IsPush, Fill!OP_PUSH1, OP_PUSH1,
         Fill!OP_PUSH32, OP_PUSH32

\* The offsets of a byte string.
LEMMA ByteStringFacts ==
    ASSUME NEW c, IsByteString(c)
    PROVE  /\ Cardinality(DOMAIN c) \in Nat
           /\ DOMAIN c = 0 .. (Cardinality(DOMAIN c) - 1)
           /\ \A i \in DOMAIN c : c[i] \in Byte
  BY FS_CardinalityType DEF IsByteString

LEMMA DecodedInit ==
    ASSUME IsByteString(code), IsAddressable(code), pos = 0, DOMAIN instructions = {}
    PROVE  Decoded
  BY ByteStringFacts DEF Decoded, IsStream, Opcodes

\* An instruction is added behind all others.
LEMMA DecodeOne ==
    ASSUME Decoded, NEW entry, entry.op = code[pos],
           pos \in DOMAIN code, pos + Length(code[pos]) + 1 <= Cardinality(DOMAIN code),
           instructions' = Fill!Store(instructions, pos, entry),
           pos' = pos + Length(code[pos]) + 1, code' = code
    PROVE  Decoded'
<1>1. /\ Cardinality(DOMAIN code) \in Nat /\ code[pos] \in Byte
      /\ Length(code[pos]) \in Nat /\ pos \in Nat
  BY ByteStringFacts, LengthType DEF Decoded
<1>2. \A o \in DOMAIN instructions :
         /\ o \in Nat /\ EndOf(Opcodes, o) \in Nat /\ o < EndOf(Opcodes, o)
         /\ EndOf(Opcodes, o) <= pos
  BY LengthType DEF Decoded, IsStream, EndOf, Opcodes
<1>3. /\ DOMAIN Opcodes = DOMAIN instructions
      /\ DOMAIN Opcodes' = DOMAIN instructions \cup {pos}
      /\ DOMAIN instructions' = DOMAIN instructions \cup {pos}
      /\ Opcodes'[pos] = code[pos]
      /\ \A o \in DOMAIN instructions : Opcodes'[o] = Opcodes[o]
  <2>1. pos \notin DOMAIN instructions
    BY <1>1, <1>2
  <2> QED
    BY <2>1 DEF Opcodes, Fill!Store
<1>4. /\ EndOf(Opcodes', pos) = pos'
      /\ \A o \in DOMAIN instructions : EndOf(Opcodes', o) = EndOf(Opcodes, o)
  BY <1>1, <1>3 DEF EndOf
<1>5. IsStream(Opcodes')
  <2>1. DOMAIN Opcodes' \in SUBSET Nat /\ \A o \in DOMAIN Opcodes' : Opcodes'[o] \in Byte
    BY <1>1, <1>3 DEF Decoded, IsStream
  <2>2. ASSUME NEW o \in DOMAIN Opcodes', NEW p \in DOMAIN Opcodes', o < p
        PROVE  EndOf(Opcodes', o) <= p
    <3>1. o \in DOMAIN instructions
      BY <1>1, <1>2, <1>3, <2>2
    <3>2. CASE p = pos
      BY <1>2, <1>4, <3>1, <3>2
    <3>3. CASE p # pos
      BY <1>3, <1>4, <2>2, <3>1, <3>3 DEF Decoded, IsStream
    <3> QED
      BY <3>2, <3>3
  <2>3. ASSUME NEW o \in DOMAIN Opcodes', o # 0
        PROVE  \E p \in DOMAIN Opcodes' : EndOf(Opcodes', p) = o
    <3>1. CASE o = pos
      BY <1>3, <1>4, <2>3, <3>1 DEF Decoded
    <3>2. CASE o # pos
      BY <1>3, <1>4, <2>3, <3>2 DEF Decoded, IsStream
    <3> QED
      BY <3>1, <3>2
  <2> QED
    BY <2>1, <2>2, <2>3 DEF IsStream
<1>6. pos' \in Nat /\ pos' <= Cardinality(DOMAIN code)
  BY <1>1
<1>7. \A o \in DOMAIN instructions' : EndOf(Opcodes', o) <= pos'
  BY <1>1, <1>2, <1>3, <1>4
<1>8. \E o \in DOMAIN instructions' : EndOf(Opcodes', o) = pos'
  BY <1>3, <1>4
<1>9. DOMAIN instructions' \subseteq DOMAIN code
  BY <1>3 DEF Decoded
<1> QED
  BY <1>5, <1>6, <1>7, <1>8, <1>9 DEF Decoded

LEMMA SimulateDecodes ==
    ASSUME Decoded, Fill!Decodes, Fill!Advance, UNCHANGED code,
           NEW entry, NEW args, Fill!Simulate(code[pos], entry, args)
    PROVE  Decoded'
<1>1. /\ Cardinality(DOMAIN code) \in Nat /\ pos \in Nat
      /\ DOMAIN code = 0 .. (Cardinality(DOMAIN code) - 1)
      /\ Fill!Length(code[pos]) = Length(code[pos]) /\ Length(code[pos]) \in Nat
  BY ByteStringFacts, SameInFill, LengthType DEF Decoded
<1>2. pos + Length(code[pos]) < Cardinality(DOMAIN code) /\ pos < Cardinality(DOMAIN code)
  BY <1>1 DEF Fill!Decodes, Fill!Size, Fill!Cardinality, Cardinality
<1>3. pos \in DOMAIN code /\ pos + Length(code[pos]) + 1 <= Cardinality(DOMAIN code)
  BY <1>1, <1>2
<1>4. pos' = pos + Length(code[pos]) + 1
  BY <1>1 DEF Fill!Advance
<1>5. PICK inst : inst.op = code[pos] /\ instructions' = Fill!Store(instructions, pos, inst)
  BY DEF Fill!Simulate
<1> QED
  BY <1>3, <1>4, <1>5, DecodeOne

LEMMA FillDecodes ==
    ASSUME Decoded, Fill!Next
    PROVE  /\ Decoded'
           /\ fillStatus = "filling"
           /\ fillStatus' \in {"filling", "filled", "trapped"}
           /\ fillStatus' = "filled" => instructions' = instructions
<1>1. CASE Fill!AtJumpDest
  BY <1>1, SimulateDecodes DEF Fill!AtJumpDest, Fill!Decodes
<1>2. CASE Fill!AtInstruction
  BY <1>2, SimulateDecodes DEF Fill!AtInstruction, Fill!Decodes
<1>3. CASE Fill!AtEntryInstruction
  BY <1>3, SimulateDecodes DEF Fill!AtEntryInstruction, Fill!Decodes
<1>4. CASE Fill!Trap
  BY <1>4 DEF Fill!Trap, Fill!Decodes, Decoded, Opcodes
<1>5. CASE Fill!Finish
  BY <1>5 DEF Fill!Finish, Decoded, Opcodes
<1> QED
  BY <1>1, <1>2, <1>3, <1>4, <1>5 DEF Fill!Next

LEMMA DecodedKept ==
    ASSUME Decoded, UNCHANGED filling
    PROVE  Decoded'
  BY DEF filling, Decoded, Opcodes

-----------------------------------------------------------------------------
(***************************************************************************)
(* startGraph links the nodes                                              *)
(***************************************************************************)

\* Whatever else is done to the map, the nodes in it stay.
FiledStay ==
    /\ DOMAIN nodes \subseteq DOMAIN nodes'
    /\ \A k : (IsFiled(k)' <=> IsFiled(k)) /\ (IsFiled(k) => nodes'[k] = nodes[k])

LEMMA CutStays ==
    ASSUME Cut, FiledStay, instructions' = instructions
    PROVE  Cut'
<1>1. Opcodes' = Opcodes
  BY DEF Opcodes
<1>2. FiledByStart' /\ FiledDisjoint'
  BY DEF Cut, FiledByStart, FiledDisjoint, FiledStay
<1>3. \A o : (IsTrailingJumpDest(o)' <=> IsTrailingJumpDest(o)) /\ (Apart(o)' <=> Apart(o))
  BY <1>1 DEF IsTrailingJumpDest, Apart
<1>4. \A k, o : Holds(k, o) => Holds(k, o)'
  BY DEF Holds, FiledStay
<1>5. FiledCover'
  BY <1>3, <1>4 DEF Cut, FiledCover
<1>6. FiledEnds'
  <2>1. \A k : IsFiled(k) => (EndsBehind(k) => EndsBehind(k)')
    BY <1>1 DEF EndsBehind, EndsWith, FiledStay
  <2>2. \A k : IsFiled(k) => (IsEmptyAt(k) => IsEmptyAt(k)')
    BY <1>3 DEF IsEmptyAt, FiledStay
  <2> QED
    BY <2>1, <2>2 DEF Cut, FiledEnds, FiledStay
<1>7. ApartAreFiled'
  BY <1>3 DEF Cut, ApartAreFiled, FiledStay
<1>8. FiledStraight'
  <2>1. \A k, o : Holds(k, o)' => Holds(k, o) /\ nodes'[k] = nodes[k]
    BY DEF Holds, FiledStay
  <2> QED
    BY <1>1, <2>1 DEF Cut, FiledStraight
<1>9. FiledStarts'
  BY <1>1, <1>3 DEF Cut, FiledStarts, FiledStay
<1> QED
  BY <1>2, <1>5, <1>6, <1>7, <1>8, <1>9 DEF Cut

LEMMA SameInStart ==
    /\ \A k : Start!IsNodeAt(k) <=> IsFiled(k)
    /\ \A op : Start!IsFallThrough(op) <=> IsFallThrough(op)
<1>1. \A k : Start!IsNodeAt(k) <=> IsFiled(k)
  BY DEF Start!IsNodeAt, IsFiled
<1>2. \A op : Start!IsFallThrough(op) <=> IsFallThrough(op)
  BY DEF Start!IsFallThrough, IsFallThrough, Start!IsStop, IsStop, Start!OP_JUMP, OP_JUMP,
         Start!OP_STOP, OP_STOP, Start!OP_RETURN, OP_RETURN, Start!OP_INVALID, OP_INVALID,
         Start!OP_SUICIDE, OP_SUICIDE
<1> QED
  BY <1>1, <1>2

\* The instruction a node ends with is the one lastInstruction finds, and the only one
\* it may find.
LEMMA LastOfNode ==
    ASSUME Decoded, Cut, NEW k, IsFiled(k), NEW q \in DOMAIN instructions, EndsWith(k, q)
    PROVE  Start!LastOffsets(nodes[k]) = {q}
<1>1. /\ k \in Nat /\ nodes[k].start = k /\ nodes[k].end \in Nat
  BY DEF Cut, FiledByStart
<1>2. \A p \in DOMAIN instructions :
         /\ p \in Nat /\ EndOf(Opcodes, p) \in Nat /\ p < EndOf(Opcodes, p)
         /\ \A r \in DOMAIN instructions : p < r => EndOf(Opcodes, p) <= r
  BY LengthType DEF Decoded, IsStream, EndOf, Opcodes
<1>3. k <= q /\ q < nodes[k].end /\ nodes[k].end # 0
  BY <1>1, <1>2 DEF EndsWith
<1>4. \A p \in DOMAIN instructions : p < nodes[k].end => p <= q
  BY <1>1, <1>2 DEF EndsWith
<1>5. \A p : Start!Searched(nodes[k], p) <=> p < nodes[k].end
  BY <1>3 DEF Start!Searched
<1>6. q \in Start!LastOffsets(nodes[k])
  BY <1>1, <1>3, <1>4, <1>5 DEF Start!LastOffsets
<1>7. \A p \in Start!LastOffsets(nodes[k]) : p = q
  BY <1>2, <1>3, <1>4, <1>5 DEF Start!LastOffsets
<1> QED
  BY <1>6, <1>7

LEMMA VisitKeeps ==
    ASSUME Decoded, BeingLinked, built, NEW k \in todo, Start!VisitNode(k), UNCHANGED built
    PROVE  BeingLinked' /\ FiledStay
<1>1. /\ Cut /\ NullsBehind /\ EdgesFiled /\ FallsLinked /\ IsFiled(k)
      /\ \A j \in todo : IsFiled(j)
  BY DEF BeingLinked, Start!VisitNode
<1>2. PICK last \in Start!LastOffsets(nodes[k]) :
         /\ next' = next
               \cup {<<k, n>> : n \in {m \in Start!FallThrough(nodes[k], last) : Start!IsNodeAt(m)}}
               \cup {<<k, n>> : n \in {m \in Start!JumpsTo(last) : Start!JumpAllowed(m)}}
         /\ issues' = issues
               \cup {<<k, n>> : n \in {m \in Start!JumpsTo(last) : ~Start!JumpAllowed(m)}}
         /\ nodes' = Start!NodesAfter(nodes[k], last)
  BY DEF Start!VisitNode
<1>3. /\ todo' = todo \ {k} /\ instructions' = instructions /\ built' = built
      /\ startStatus = "running" /\ startStatus' = "running"
  BY DEF Start!VisitNode
<1>4. /\ k \in Nat /\ nodes[k].end \in Nat /\ k <= nodes[k].end
  BY <1>1 DEF Cut, FiledByStart
<1>5. FiledStay
  BY <1>2 DEF FiledStay, Start!NodesAfter, IsFiled
<1>6. Cut'
  BY <1>1, <1>3, <1>5, CutStays
<1>7. NullsBehind'
  <2> SUFFICES ASSUME NEW j \in DOMAIN nodes', ~IsFiled(j)'
               PROVE  j \in Nat \ {0} /\ \E m : IsFiled(m)' /\ m < j /\ nodes'[m].end = j
    BY DEF NullsBehind
  <2>1. CASE j \in DOMAIN nodes
    <3>1. PICK m : IsFiled(m) /\ m < j /\ nodes[m].end = j /\ j \in Nat \ {0}
      BY <1>1, <1>5, <2>1 DEF NullsBehind, FiledStay
    <3> QED
      BY <1>5, <3>1 DEF FiledStay
  <2>2. CASE j \notin DOMAIN nodes
    <3>1. j = nodes[k].end
      BY <1>2, <2>2 DEF Start!NodesAfter, Start!FallThrough
    <3>2. k < j /\ j \in Nat \ {0}
      BY <1>1, <1>4, <2>2, <3>1 DEF IsFiled
    <3> QED
      BY <1>1, <1>5, <3>1, <3>2 DEF FiledStay
  <2> QED
    BY <2>1, <2>2
<1>8. \A j \in todo' : IsFiled(j)'
  BY <1>1, <1>3, <1>5 DEF FiledStay
<1>9. EdgesFiled'
  <2>1. \A n \in Start!JumpsTo(last) : IsFiled(n)
    BY SameInStart DEF Start!JumpsTo
  <2>2. \A e \in next' \cup issues' : IsFiled(e[1]) /\ IsFiled(e[2])
    BY <1>1, <1>2, <2>1, SameInStart DEF EdgesFiled
  <2> QED
    BY <1>5, <2>2 DEF EdgesFiled, FiledStay
<1>10. FallsLinked'
  <2> SUFFICES ASSUME NEW j, IsFiled(j)', j \notin todo', NEW q \in DOMAIN instructions',
                      EndsWith(j, q)', IsFallThrough(Opcodes'[q])
               PROVE  nodes'[j].end \in DOMAIN nodes'
    BY DEF FallsLinked
  <2>1. /\ IsFiled(j) /\ nodes'[j] = nodes[j] /\ q \in DOMAIN instructions
        /\ EndsWith(j, q) /\ IsFallThrough(Opcodes[q])
    BY <1>3, <1>5 DEF FiledStay, EndsWith, Opcodes
  <2>2. CASE j = k
    <3>1. last = q
      BY <1>1, <1>2, <2>1, <2>2, LastOfNode
    <3>2. Start!FallThrough(nodes[k], last) = {nodes[k].end}
      BY <2>1, <3>1, SameInStart DEF Start!FallThrough, Opcodes
    <3> QED
      BY <1>2, <2>1, <2>2, <3>2 DEF Start!NodesAfter
  <2>3. CASE j # k
    BY <1>1, <1>3, <1>5, <2>1, <2>3 DEF FallsLinked, FiledStay
  <2> QED
    BY <2>2, <2>3
<1>11. AbortsEmpty'
  BY <1>3 DEF AbortsEmpty
<1> QED
  BY <1>3, <1>5, <1>6, <1>7, <1>8, <1>9, <1>10, <1>11 DEF BeingLinked

\* lastInstruction finds nothing only in an empty node.
LEMMA AbortKeeps ==
    ASSUME Decoded, BeingLinked, built, NEW k \in todo, Start!Abort(k), UNCHANGED built
    PROVE  BeingLinked'
<1>1. /\ Cut /\ NullsBehind /\ EdgesFiled /\ FallsLinked /\ IsFiled(k)
      /\ \A j \in todo : IsFiled(j)
  BY DEF BeingLinked, Start!Abort
<1>2. /\ instructions' = instructions /\ nodes' = nodes /\ todo' = todo /\ next' = next
      /\ issues' = issues /\ startStatus' = "aborted" /\ Start!LastOffsets(nodes[k]) = {}
  BY DEF Start!Abort
<1>3. ~EndsBehind(k)
  BY <1>1, <1>2, LastOfNode DEF EndsBehind
<1>4. IsEmptyAt(k)
  BY <1>1, <1>3 DEF Cut, FiledEnds
<1>5. AbortsEmpty'
  <2>1. /\ nodes[k].end = k /\ k \in DOMAIN instructions /\ IsTrailingJumpDest(k) /\ Apart(k)
        /\ nodes[k].start = k
    BY <1>1, <1>4 DEF IsEmptyAt, Cut, FiledByStart
  <2>2. \A p \in DOMAIN instructions : p \in Nat
    BY DEF Decoded, IsStream, Opcodes
  <2>3. k # 0
    <3>1. k = 0 => k \in Start!LastOffsets(nodes[k])
      BY <2>1, <2>2 DEF Start!LastOffsets, Start!Searched, IsTrailingJumpDest
    <3> QED
      BY <1>2, <3>1
  <2>4. PICK p \in DOMAIN instructions : EndOf(Opcodes, p) = k
    BY <2>1, <2>3 DEF Decoded, IsStream, Opcodes, EndOf
  <2>5. EndsInEmptyNode
    BY <2>1, <2>4 DEF EndsInEmptyNode, Apart
  <2> QED
    BY <1>2, <2>5 DEF AbortsEmpty, EndsInEmptyNode, IsTrailingJumpDest, Opcodes
<1>6. FiledStay
  BY <1>2 DEF FiledStay, IsFiled
<1>7. Cut'
  BY <1>1, <1>2, <1>6, CutStays
<1>8. NullsBehind' /\ EdgesFiled' /\ FallsLinked'
  BY <1>1, <1>2 DEF NullsBehind, EdgesFiled, FallsLinked, EndsWith, Opcodes, IsFiled
<1> QED
  BY <1>1, <1>2, <1>5, <1>6, <1>7, <1>8 DEF BeingLinked, FiledStay

LEMMA StartKeeps ==
    ASSUME Decoded, BeingLinked, built, Start!Next, UNCHANGED built
    PROVE  BeingLinked' /\ FiledStay
<1>1. ASSUME NEW k \in todo, Start!VisitNode(k) PROVE BeingLinked' /\ FiledStay
  BY <1>1, VisitKeeps
<1>2. ASSUME NEW k \in todo, Start!Abort(k) PROVE BeingLinked' /\ FiledStay
  BY <1>2, AbortKeeps DEF Start!Abort, FiledStay, IsFiled
<1>3. ASSUME Start!Begin PROVE BeingLinked' /\ FiledStay
  <2>1. /\ instructions' = instructions /\ nodes' = nodes /\ next' = next
        /\ issues' = issues /\ startStatus = "waiting" /\ startStatus' = "running"
        /\ todo' = DOMAIN nodes
    BY <1>3 DEF Start!Begin
  <2>2. Cut /\ NullsBehind /\ EdgesFiled /\ AllFiled
    BY <2>1 DEF BeingLinked
  <2>3. FiledStay
    BY <2>1 DEF FiledStay, IsFiled
  <2>4. Cut'
    BY <2>1, <2>2, <2>3, CutStays
  <2>5. NullsBehind' /\ EdgesFiled'
    BY <2>1, <2>2 DEF NullsBehind, EdgesFiled, IsFiled
  <2>6. FallsLinked' /\ \A k \in todo' : IsFiled(k)'
    BY <2>1, <2>2 DEF FallsLinked, AllFiled, IsFiled
  <2> QED
    BY <2>1, <2>3, <2>4, <2>5, <2>6 DEF BeingLinked, AbortsEmpty
<1>4. ASSUME Start!Return PROVE BeingLinked' /\ FiledStay
  <2>1. /\ instructions' = instructions /\ nodes' = nodes /\ next' = next
        /\ issues' = issues /\ startStatus = "running" /\ startStatus' = "done"
        /\ todo = {} /\ todo' = todo
    BY <1>4 DEF Start!Return
  <2>2. Cut /\ NullsBehind /\ EdgesFiled /\ FallsLinked
    BY <2>1 DEF BeingLinked
  <2>3. FiledStay
    BY <2>1 DEF FiledStay, IsFiled
  <2>4. Cut'
    BY <2>1, <2>2, <2>3, CutStays
  <2>5. NullsBehind' /\ EdgesFiled' /\ FallsLinked'
    BY <2>1, <2>2 DEF NullsBehind, EdgesFiled, FallsLinked, EndsWith, Opcodes, IsFiled
  <2> QED
    BY <2>1, <2>3, <2>4, <2>5 DEF BeingLinked, AbortsEmpty
<1> QED
  BY <1>1, <1>2, <1>3, <1>4 DEF Start!Next

\* Where an instruction leads to does not change while the nodes stay.
LEMMA LeadsStay ==
    ASSUME FiledStay, instructions' = instructions, NEW k, IsFiled(k), NEW q, NEW m
    PROVE  Leads(k, q, m)' <=> Leads(k, q, m)
<1>1. nodes'[k] = nodes[k] /\ (IsFiled(m)' <=> IsFiled(m))
  BY DEF FiledStay
<1>2. m \in Start!JumpsTo(q) => IsFiled(m)
  BY SameInStart DEF Start!JumpsTo
<1>3. m \in Start!JumpsTo(q)' => IsFiled(m)
  BY <1>1, SameInStart DEF Start!JumpsTo, Start!IsNodeAt, IsFiled
<1>4. IsFiled(m) => (m \in Start!JumpsTo(q)' <=> m \in Start!JumpsTo(q))
  BY <1>1 DEF Start!JumpsTo, Start!IsNodeAt, IsFiled
<1>5. IsFiled(m) => (Start!JumpAllowed(m)' <=> Start!JumpAllowed(m))
  BY DEF Start!JumpAllowed, FiledStay
<1>6. Opcodes' = Opcodes
  BY DEF Opcodes
<1> QED
  BY <1>1, <1>2, <1>3, <1>4, <1>5, <1>6 DEF Leads

LEMMA DrawnKept ==
    ASSUME Drawn, EdgesFiled, FiledStay, UNCHANGED <<instructions, todo, next>>
    PROVE  Drawn'
<1>1. Opcodes' = Opcodes
  BY DEF Opcodes
<1>2. \A k : IsFiled(k) => /\ EndsBehind(k) => EndsBehind(k)'
                          /\ \A q : EndsWith(k, q)' <=> EndsWith(k, q)
  BY <1>1 DEF EndsBehind, EndsWith, FiledStay
<1>3. VisitedLead'
  BY <1>2, LeadsStay DEF Drawn, VisitedLead, FiledStay
<1>4. OnlyVisitedLead'
  BY <1>2 DEF Drawn, OnlyVisitedLead, EdgesFiled
<1> QED
  BY <1>3, <1>4 DEF Drawn

\* A node that is visited gets the edges it has no others before.
LEMMA VisitDraws ==
    ASSUME Decoded, BeingLinked, built, Drawn, NEW k \in todo, Start!VisitNode(k),
           UNCHANGED built
    PROVE  Drawn'
<1>1. /\ Cut /\ EdgesFiled /\ IsFiled(k)
  BY DEF BeingLinked, Start!VisitNode
<1>2. FiledStay
  BY VisitKeeps
<1>3. PICK last \in Start!LastOffsets(nodes[k]) :
         next' = next
            \cup {<<k, n>> : n \in {m \in Start!FallThrough(nodes[k], last) : Start!IsNodeAt(m)}}
            \cup {<<k, n>> : n \in {m \in Start!JumpsTo(last) : Start!JumpAllowed(m)}}
  BY DEF Start!VisitNode
<1>4. todo' = todo \ {k} /\ instructions' = instructions
  BY DEF Start!VisitNode
<1>5. Opcodes' = Opcodes
  BY <1>4 DEF Opcodes
<1>6. \A j : IsFiled(j) => /\ EndsBehind(j) => EndsBehind(j)'
                          /\ \A q : EndsWith(j, q)' <=> EndsWith(j, q)
  BY <1>2, <1>4, <1>5 DEF EndsBehind, EndsWith, FiledStay
<1>7. EndsBehind(k) \/ k = 0
  <2>1. CASE IsEmptyAt(k)
    <3>1. k \in Nat /\ nodes[k].start = k /\ nodes[k].end = k
      BY <1>1, <2>1 DEF IsEmptyAt, Cut, FiledByStart
    <3>2. last \in Nat /\ k <= last /\ (k = 0 \/ last < k)
      BY <3>1 DEF Start!LastOffsets, Start!Searched, Decoded, IsStream, Opcodes
    <3> QED
      BY <3>1, <3>2
  <2> QED
    BY <1>1, <2>1 DEF Cut, FiledEnds
<1>8. OnlyVisitedLead'
  <2> SUFFICES ASSUME NEW e \in next'
               PROVE  e = <<e[1], e[2]>> /\ e[1] \notin todo' /\ (EndsBehind(e[1])' \/ e[1] = 0)
    BY DEF OnlyVisitedLead
  <2>1. CASE e \in next
    BY <1>1, <1>4, <1>6, <2>1 DEF Drawn, OnlyVisitedLead, EdgesFiled
  <2>2. CASE e \notin next
    <3>1. PICK n : e = <<k, n>>
      BY <1>3, <2>2
    <3> QED
      BY <1>1, <1>4, <1>6, <1>7, <3>1
  <2> QED
    BY <2>1, <2>2
<1>9. VisitedLead'
  <2> SUFFICES ASSUME NEW j, IsFiled(j)', j \notin todo', NEW q \in DOMAIN instructions,
                      EndsWith(j, q)', NEW m
               PROVE  <<j, m>> \in next' <=> Leads(j, q, m)'
    BY <1>4 DEF VisitedLead
  <2>1. IsFiled(j) /\ EndsWith(j, q)
    BY <1>2, <1>6 DEF FiledStay
  <2>2. Leads(j, q, m)' <=> Leads(j, q, m)
    BY <1>2, <1>4, <2>1, LeadsStay
  <2>3. CASE j # k
    <3>1. <<j, m>> \in next' <=> <<j, m>> \in next
      BY <1>3, <2>3
    <3> QED
      BY <1>4, <2>1, <2>2, <2>3, <3>1 DEF Drawn, VisitedLead
  <2>4. CASE j = k
    <3>1. last = q
      BY <1>1, <2>1, <2>4, LastOfNode
    <3>2. <<k, m>> \notin next
      BY DEF Drawn, OnlyVisitedLead
    <3>3. <<k, m>> \in next' <=> \/ m \in Start!FallThrough(nodes[k], q) /\ Start!IsNodeAt(m)
                                 \/ m \in Start!JumpsTo(q) /\ Start!JumpAllowed(m)
      BY <1>3, <3>1, <3>2
    <3>4. m \in Start!FallThrough(nodes[k], q)
             <=> IsFallThrough(Opcodes[q]) /\ m = nodes[k].end
      BY SameInStart DEF Start!FallThrough, Opcodes
    <3> QED
      BY <2>2, <2>4, <3>3, <3>4, SameInStart DEF Leads
  <2> QED
    BY <2>3, <2>4
<1> QED
  BY <1>8, <1>9 DEF Drawn

LEMMA StartDraws ==
    ASSUME Decoded, BeingLinked, built, startStatus # "waiting" => Drawn, Start!Next,
           UNCHANGED built
    PROVE  Drawn'
<1>1. ASSUME NEW k \in todo, Start!VisitNode(k) PROVE Drawn'
  BY <1>1, VisitDraws DEF Start!VisitNode
<1>2. CASE Start!Begin
  <2>1. next' = {} /\ todo' = DOMAIN nodes /\ nodes' = nodes
    BY <1>2 DEF Start!Begin, BeingLinked
  <2> QED
    BY <2>1 DEF Drawn, OnlyVisitedLead, VisitedLead, IsFiled
<1>3. CASE Start!Return \/ \E k \in todo : Start!Abort(k)
  <2>1. UNCHANGED <<instructions, nodes, todo, next>> /\ startStatus = "running"
    BY <1>3 DEF Start!Return, Start!Abort
  <2>2. FiledStay
    BY <2>1 DEF FiledStay, IsFiled
  <2> QED
    BY <2>1, <2>2, DrawnKept DEF BeingLinked
<1> QED
  BY <1>1, <1>2, <1>3 DEF Start!Next

-----------------------------------------------------------------------------
(***************************************************************************)
(* solveStack draws edges between nodes                                    *)
(***************************************************************************)

\* Null pointers included, the keys of the map are offsets of the code or the end of it.
LEMMA KeysAreOffsets ==
    ASSUME Decoded, Cut, NullsBehind
    PROVE  /\ \A k \in DOMAIN nodes : k \in Nat /\ k <= Cardinality(DOMAIN code)
           /\ IsFiniteSet(DOMAIN nodes)
           /\ Cardinality(DOMAIN nodes) \in Nat
<1>1. /\ Cardinality(DOMAIN code) \in Nat /\ pos \in Nat /\ pos <= Cardinality(DOMAIN code)
      /\ \A o \in DOMAIN instructions :
            /\ o \in Nat /\ EndOf(Opcodes, o) \in Nat /\ o < EndOf(Opcodes, o)
            /\ EndOf(Opcodes, o) <= pos
  BY ByteStringFacts, LengthType DEF Decoded, IsStream, EndOf, Opcodes
<1>2. \A k : IsFiled(k) => /\ k \in Nat /\ nodes[k].end \in Nat /\ k <= nodes[k].end
                           /\ nodes[k].end <= pos
  <2> TAKE k
  <2> HAVE IsFiled(k)
  <2>1. k \in Nat /\ nodes[k].end \in Nat /\ k <= nodes[k].end
    BY DEF Cut, FiledByStart
  <2>2. CASE EndsBehind(k)
    BY <1>1, <2>1, <2>2 DEF EndsBehind, EndsWith
  <2>3. CASE IsEmptyAt(k)
    BY <1>1, <2>1, <2>3 DEF IsEmptyAt
  <2> QED
    BY <2>1, <2>2, <2>3 DEF Cut, FiledEnds
<1>3. \A k \in DOMAIN nodes : k \in Nat /\ k <= Cardinality(DOMAIN code)
  <2> TAKE k \in DOMAIN nodes
  <2>1. CASE IsFiled(k)
    BY <1>1, <1>2, <2>1
  <2>2. CASE ~IsFiled(k)
    <3>1. PICK m : IsFiled(m) /\ nodes[m].end = k
      BY <2>2 DEF NullsBehind
    <3> QED
      BY <1>1, <1>2, <3>1
  <2> QED
    BY <2>1, <2>2
<1>4. IsFiniteSet(DOMAIN nodes)
  BY <1>1, <1>3, FS_BoundedSetOfNaturals
<1> QED
  BY <1>3, <1>4, FS_CardinalityType

LEMMA SameInStack ==
    /\ \A k : Stack!IsNodeAt(k) <=> IsFiled(k)
    /\ \A S : Stack!Cardinality(S) = Cardinality(S)
<1>1. \A k : Stack!IsNodeAt(k) <=> IsFiled(k)
  BY DEF Stack!IsNodeAt, IsFiled, Stack!NoNode, Start!NoNode, Start!Unset
<1>2. \A S : Stack!Cardinality(S) = Cardinality(S)
  BY DEF Stack!Cardinality, Cardinality
<1> QED
  BY <1>1, <1>2

\* A worklist with pairs added behind.
LEMMA WorkAdded ==
    ASSUME NEW W, NEW w \in Seq(W), NEW V, NEW n \in Nat, NEW extra \in [1 .. n -> V]
    PROVE  /\ w \o extra \in Seq(W \cup V)
           /\ \A i \in 1 .. Len(w \o extra) :
                 \/ i \in 1 .. Len(w) /\ (w \o extra)[i] = w[i]
                 \/ (w \o extra)[i] \in V
<1>1. extra \in Seq(V) /\ Len(extra) = n
  <2>1. extra \in Seq(V)
    OBVIOUS
  <2>2. Len(extra) \in Nat /\ DOMAIN extra = 1 .. Len(extra) /\ DOMAIN extra = 1 .. n
    BY <2>1, LenProperties
  <2> QED
    BY <2>1, <2>2
<1> DEFINE X == W \cup V
<1>2. w \in Seq(X) /\ extra \in Seq(X)
  BY <1>1, SeqMonotonic
<1> HIDE DEF X
<1>3. /\ w \o extra \in Seq(X)
      /\ Len(w \o extra) = Len(w) + n
      /\ \A i \in 1 .. Len(w) + n :
            (w \o extra)[i] = IF i <= Len(w) THEN w[i] ELSE extra[i - Len(w)]
  BY <1>1, <1>2, ConcatProperties
<1>4. ASSUME NEW i \in 1 .. Len(w \o extra)
      PROVE  \/ i \in 1 .. Len(w) /\ (w \o extra)[i] = w[i]
             \/ (w \o extra)[i] \in V
  <2>1. Len(w) \in Nat /\ i \in 1 .. Len(w) + n
    BY <1>3
  <2>2. CASE i <= Len(w)
    BY <1>3, <2>1, <2>2
  <2>3. CASE ~(i <= Len(w))
    <3>1. i - Len(w) \in 1 .. n /\ (w \o extra)[i] = extra[i - Len(w)]
      BY <1>3, <2>1, <2>3
    <3> QED
      BY <3>1
  <2> QED
    BY <2>2, <2>3
<1> QED
  BY <1>3, <1>4 DEF X

\* Taking the back of the worklist.
LEMMA WorkTaken ==
    ASSUME WorkListed, worklist # <<>>
    PROVE  /\ \E S : Stack!Others \in Seq(S)
           /\ \A i \in 1 .. Len(Stack!Others) : i \in 1 .. Len(worklist) /\ Stack!Others[i] = worklist[i]
           /\ \E i \in 1 .. Len(worklist) : Stack!Taken = worklist[i]
<1>1. PICK S : worklist \in Seq(S)
  BY DEF WorkListed
<1>2. Len(worklist) \in Nat /\ Len(worklist) # 0
  BY <1>1, EmptySeq
<1> DEFINE n == Len(worklist)
<1>3. /\ SubSeq(worklist, 1, n - 1) \in Seq(S)
      /\ Len(SubSeq(worklist, 1, n - 1)) = n - 1
      /\ \A i \in 1 .. n - 1 : SubSeq(worklist, 1, n - 1)[i] = worklist[i]
  <2>1. n \in Nat \ {0} /\ \A i \in 1 .. n : worklist[i] \in S
    BY <1>1, <1>2, ElementOfSeq
  <2> HIDE DEF n
  <2>2. 1 \in Int /\ n - 1 \in Int /\ \A i \in 1 .. n - 1 : worklist[i] \in S
    BY <2>1
  <2>3. /\ SubSeq(worklist, 1, n - 1) \in Seq(S)
        /\ Len(SubSeq(worklist, 1, n - 1)) = IF 1 <= n - 1 THEN n - 1 - 1 + 1 ELSE 0
        /\ \A i \in 1 .. n - 1 - 1 + 1 :
              SubSeq(worklist, 1, n - 1)[i] = worklist[1 + i - 1]
    BY <2>2, SubSeqProperties
  <2> QED
    BY <2>1, <2>3
<1>4. Stack!Others = SubSeq(worklist, 1, n - 1) /\ Stack!Taken = worklist[n]
  BY DEF Stack!Others, Stack!Taken
<1> QED
  BY <1>2, <1>3, <1>4

\* The nodes of a pair on the worklist.
LEMMA ListedAreFiled ==
    ASSUME WorkListed, EdgesFiled, NEW i \in 1 .. Len(worklist)
    PROVE  IsFiled(worklist[i][1])
<1>1. CASE worklist[i] = <<0, Stack!Nowhere>> /\ IsFiled(0)
  BY <1>1
<1>2. CASE <<worklist[i][2], worklist[i][1]>> \in next
  BY <1>2 DEF EdgesFiled
<1> QED
  BY <1>1, <1>2 DEF WorkListed

LEMMA SolveNodeKeeps ==
    ASSUME Decoded, Cut, NullsBehind, EdgesFiled, WorkListed, Stack!SolveNode,
           \A k \in DOMAIN entryStates : IsFiled(k)
    PROVE  /\ EdgesFiled' /\ WorkListed'
           /\ \A k \in DOMAIN entryStates' : IsFiled(k)'
<1> DEFINE k == Stack!Taken[1]
<1>1. /\ worklist # <<>> /\ nodes' = nodes
      /\ DOMAIN entryStates' = DOMAIN entryStates \cup {k}
  BY DEF Stack!SolveNode, Stack!Store
<1> DEFINE T == {t \in DOMAIN nodes : <<k, t>> \in next'}
<1>2. PICK order \in Stack!Bijection(1 .. Stack!Cardinality(T), T) :
         worklist' = Stack!Others \o [i \in 1 .. Len(order) |-> <<order[i], k>>]
  BY DEF Stack!SolveNode
<1>3. /\ next \subseteq next'
      /\ \A e \in (next' \cup issues') \ (next \cup issues) :
            e[1] = k /\ Stack!IsNodeAt(e[2])
  BY DEF Stack!SolveNode
<1>4. T \subseteq DOMAIN nodes /\ \A t \in T : <<k, t>> \in next'
  OBVIOUS
<1> HIDE DEF k, T
<1>5. IsFiled(k)
  BY <1>1, WorkTaken, ListedAreFiled DEF k
<1>6. EdgesFiled'
  <2>1. \A e \in next' \cup issues' : IsFiled(e[1]) /\ IsFiled(e[2])
    BY <1>3, <1>5, SameInStack DEF EdgesFiled
  <2> QED
    BY <1>1, <2>1 DEF EdgesFiled, IsFiled
<1>7. \A j \in DOMAIN entryStates' : IsFiled(j)'
  BY <1>1, <1>5 DEF IsFiled
<1>8. WorkListed'
  <2>1. PICK S : Stack!Others \in Seq(S)
    BY <1>1, WorkTaken
  <2>2. IsFiniteSet(T)
    BY <1>4, KeysAreOffsets, FS_Subset
  <2>3. /\ worklist' \in Seq(S \cup T \X {k})
        /\ \A i \in 1 .. Len(worklist') :
              \/ i \in 1 .. Len(Stack!Others) /\ worklist'[i] = Stack!Others[i]
              \/ worklist'[i] \in T \X {k}
    <3> DEFINE n     == Cardinality(T)
               extra == [i \in 1 .. Len(order) |-> <<order[i], k>>]
    <3>1. n \in Nat /\ order \in [1 .. n -> T] /\ worklist' = Stack!Others \o extra
      BY <1>2, <2>2, SameInStack, FS_CardinalityType DEF Stack!Bijection, Stack!Injection
    <3> HIDE DEF n
    <3>2. Len(order) = n
      BY <3>1, LengthOfRow
    <3>3. extra \in [1 .. n -> T \X {k}]
      BY <3>1, <3>2
    <3> HIDE DEF extra
    <3> QED
      BY <2>1, <3>1, <3>3, WorkAdded
  <2>4. ASSUME NEW i \in 1 .. Len(worklist')
        PROVE  \/ worklist'[i] = <<0, Stack!Nowhere>> /\ IsFiled(0)'
               \/ <<worklist'[i][2], worklist'[i][1]>> \in next'
    <3>1. CASE worklist'[i] \in T \X {k}
      BY <1>4, <3>1
    <3>2. CASE i \in 1 .. Len(Stack!Others) /\ worklist'[i] = Stack!Others[i]
      <4>1. i \in 1 .. Len(worklist) /\ worklist'[i] = worklist[i]
        BY <1>1, <3>2, WorkTaken
      <4> QED
        BY <1>1, <1>3, <4>1 DEF WorkListed, IsFiled
    <3> QED
      BY <2>3, <3>1, <3>2
  <2> QED
    BY <2>3, <2>4 DEF WorkListed
<1> QED
  BY <1>6, <1>7, <1>8

LEMMA SolveKeeps ==
    ASSUME Decoded, BeingLinked, BeingSolved, built, startStatus = "done", Stack!Next,
           UNCHANGED <<built, todo, startStatus>>
    PROVE  BeingLinked' /\ BeingSolved'
<1>1. /\ Cut /\ NullsBehind /\ EdgesFiled /\ FallsLinked /\ todo = {}
      /\ WorkListed /\ \A k \in DOMAIN entryStates : IsFiled(k)
  BY DEF BeingLinked, BeingSolved
<1>2. instructions' = instructions /\ nodes' = nodes
  BY DEF Stack!Next, Stack!Begin, Stack!Skip, Stack!SolveNode, Stack!Die, Stack!Return
<1>3. EdgesFiled' /\ WorkListed' /\ \A k \in DOMAIN entryStates' : IsFiled(k)'
  <2>1. CASE Stack!SolveNode
    BY <1>1, <2>1, SolveNodeKeeps
  <2>2. CASE Stack!Begin
    <3>1. /\ next' = next /\ issues' = issues /\ entryStates' = entryStates
          /\ worklist' = IF Stack!IsNodeAt(0) THEN << <<0, Stack!Nowhere>> >> ELSE <<>>
      BY <2>2 DEF Stack!Begin
    <3>2. WorkListed'
      BY <1>2, <3>1, SameInStack DEF WorkListed, IsFiled
    <3> QED
      BY <1>1, <1>2, <3>1, <3>2 DEF EdgesFiled, IsFiled
  <2>3. CASE Stack!Skip
    <3>1. /\ next' = next /\ issues' = issues /\ entryStates' = entryStates
          /\ worklist' = Stack!Others /\ worklist # <<>>
      BY <2>3 DEF Stack!Skip
    <3>2. WorkListed'
      BY <1>1, <1>2, <3>1, WorkTaken DEF WorkListed, IsFiled
    <3> QED
      BY <1>1, <1>2, <3>1, <3>2 DEF EdgesFiled, IsFiled
  <2>4. CASE Stack!Die \/ Stack!Return
    <3>1. /\ next' = next /\ issues' = issues /\ entryStates' = entryStates
          /\ worklist' = worklist
      BY <2>4 DEF Stack!Die, Stack!Return
    <3> QED
      BY <1>1, <1>2, <3>1 DEF EdgesFiled, WorkListed, IsFiled
  <2> QED
    BY <2>1, <2>2, <2>3, <2>4 DEF Stack!Next
<1>4. Cut' /\ NullsBehind' /\ FallsLinked'
  <2>1. FiledStay
    BY <1>2 DEF FiledStay, IsFiled
  <2>2. Cut'
    BY <1>1, <1>2, <2>1, CutStays
  <2> QED
    BY <1>1, <1>2, <2>2 DEF NullsBehind, FallsLinked, EndsWith, Opcodes, IsFiled
<1>5. AbortsEmpty'
  BY DEF AbortsEmpty
<1>6. solveStatus' # "waiting"
  BY DEF Stack!Next, Stack!Begin, Stack!Skip, Stack!SolveNode, Stack!Die, Stack!Return
<1> QED
  BY <1>1, <1>3, <1>4, <1>5, <1>6 DEF BeingLinked, BeingSolved

-----------------------------------------------------------------------------
(***************************************************************************)
(* IsReachable is asked of the nodes the edges lead to                     *)
(***************************************************************************)

\* Within a finite set, what edges lead to is the least set that holds the members one
\* starts from and that no edge leaves: each step of the recursion adds a member or is
\* the last one that could.
LEMMA ReachedIsLeast ==
    ASSUME NEW S, IsFiniteSet(S), NEW start \in SUBSET S, NEW edges,
           \A e \in edges : e[1] \in S => e[2] \in S
    PROVE  /\ Reached(S, start, edges) \in SUBSET S
           /\ start \subseteq Reached(S, start, edges)
           /\ \A e \in edges : e[1] \in Reached(S, start, edges)
                               => e[2] \in Reached(S, start, edges)
           /\ \A T : start \subseteq T /\ (\A e \in edges : e[1] \in T => e[2] \in T)
                       => Reached(S, start, edges) \subseteq T
<1> DEFINE N == Cardinality(S)
           V == SUBSET S
           Further(A) == A \cup {e[2] : e \in {f \in edges : f[1] \in A}}
           IsWithin(w) == w = [n \in 0 .. N |-> IF n = 0 THEN start ELSE Further(w[n - 1])]
           within == CHOOSE w : IsWithin(w)
<1>1. N \in Nat
  BY FS_CardinalityType
<1>2. start \in V /\ \A A \in V : Further(A) \in V /\ A \subseteq Further(A)
  OBVIOUS
<1>3. Reached(S, start, edges) = within[N]
  BY DEF Reached
<1>4. \A A, T : A \subseteq T /\ (\A e \in edges : e[1] \in T => e[2] \in T)
                 => Further(A) \subseteq T
  OBVIOUS
<1>5. \A A : Further(A) \subseteq A => \A e \in edges : e[1] \in A => e[2] \in A
  OBVIOUS
<1> HIDE DEF N, V, Further
<1>6. \E w : IsWithin(w)
  <2> DEFINE step == [x \in Nat \X V |-> Further(x[2])]
  <2>1. step \in [Nat \X V -> V]
    BY <1>2
  <2>2. \A i \in Nat, A \in V : step[<<i, A>>] = Further(A)
    OBVIOUS
  <2> HIDE DEF step
  <2>3. PICK f : IsRecursion(f, 0 .. N, V, start, step)
    BY <1>1, <1>2, <2>1, RunsOfRecursion
  <2>4. /\ f \in [0 .. N -> V]
        /\ \A i \in 0 .. N : f[i] = IF i = 0 THEN start ELSE step[<<i, f[i - 1]>>]
    BY <2>3 DEF IsRecursion
  <2>5. \A i \in 0 .. N : f[i] = IF i = 0 THEN start ELSE Further(f[i - 1])
    <3> TAKE i \in 0 .. N
    <3>1. i # 0 => i - 1 \in 0 .. N /\ i \in Nat
      BY <1>1
    <3>2. i # 0 => step[<<i, f[i - 1]>>] = Further(f[i - 1])
      BY <2>2, <2>4, <3>1
    <3> QED
      BY <2>4, <3>2
  <2>6. IsWithin(f)
    BY <2>4, <2>5
  <2> QED
    BY <2>6
<1>7. IsWithin(within)
  BY <1>6
<1> HIDE DEF within
<1>8. /\ within[0] = start
      /\ \A n \in 0 .. (N - 1) : within[n + 1] = Further(within[n])
  <2>1. \A n \in 0 .. N : within[n] = IF n = 0 THEN start ELSE Further(within[n - 1])
    BY <1>7
  <2>2. 0 \in 0 .. N
    BY <1>1
  <2>3. \A n \in 0 .. (N - 1) : n + 1 \in 0 .. N /\ n + 1 # 0 /\ n + 1 - 1 = n
    BY <1>1
  <2> QED
    BY <2>1, <2>2, <2>3
<1> HIDE DEF IsWithin
<1>9. \A n \in 0 .. N : within[n] \in V /\ start \subseteq within[n]
  <2> DEFINE Q == {n \in 0 .. N : within[n] \in V /\ start \subseteq within[n]}
  <2>1. 0 \in Q
    BY <1>1, <1>2, <1>8
  <2>2. \A n \in 0 .. (N - 1) : n \in Q => n + 1 \in Q
    BY <1>1, <1>2, <1>8
  <2>3. \A n \in 0 .. N : n \in Q
    <3> HIDE DEF Q
    <3> QED
      BY <1>1, <2>1, <2>2, Upwards
  <2> QED
    BY <2>3
<1>10. N \in 0 .. N
  BY <1>1
<1>11. ASSUME NEW T, start \subseteq T, \A e \in edges : e[1] \in T => e[2] \in T
       PROVE  within[N] \subseteq T
  <2> DEFINE Q == {n \in 0 .. N : within[n] \subseteq T}
  <2>1. 0 \in Q
    BY <1>1, <1>8, <1>11
  <2>2. \A n \in 0 .. (N - 1) : n \in Q => n + 1 \in Q
    BY <1>1, <1>4, <1>8, <1>11
  <2>3. \A n \in 0 .. N : n \in Q
    <3> HIDE DEF Q
    <3> QED
      BY <1>1, <2>1, <2>2, Upwards
  <2> QED
    BY <1>10, <2>3
<1>12. Further(within[N]) \subseteq within[N]
  <2> DEFINE Closes(n) == Further(within[n]) = within[n]
             Q == {n \in 0 .. N : Closes(n) \/ Cardinality(within[n]) >= n}
  <2>1. \A n \in 0 .. N : IsFiniteSet(within[n]) /\ Cardinality(within[n]) \in Nat
    BY <1>9, FS_Subset, FS_CardinalityType DEF V
  <2>2. 0 \in Q
    BY <1>1, <2>1
  <2>3. ASSUME NEW n \in 0 .. (N - 1), n \in Q PROVE n + 1 \in Q
    <3>1. n \in 0 .. N /\ n + 1 \in 0 .. N /\ within[n + 1] = Further(within[n])
      BY <1>1, <1>8
    <3>2. CASE Closes(n)
      BY <3>1, <3>2
    <3>3. CASE ~Closes(n)
      <4>1. Cardinality(within[n]) >= n
        BY <2>3, <3>3
      <4>2. within[n] \subseteq within[n + 1] /\ within[n] # within[n + 1]
        BY <1>2, <1>9, <3>1, <3>3
      <4>3. Cardinality(within[n]) < Cardinality(within[n + 1])
        <5>1. /\ Cardinality(within[n]) <= Cardinality(within[n + 1])
              /\ Cardinality(within[n + 1]) # Cardinality(within[n])
          BY <2>1, <3>1, <4>2, FS_Subset
        <5> QED
          BY <2>1, <3>1, <5>1
      <4>4. Cardinality(within[n + 1]) >= n + 1
        BY <2>1, <3>1, <4>1, <4>3
      <4> QED
        BY <3>1, <4>4
    <3> QED
      BY <3>2, <3>3
  <2>4. N \in Q
    <3>1. \A n \in 0 .. N : n \in Q
      <4> HIDE DEF Q
      <4> QED
        BY <1>1, <2>2, <2>3, Upwards
    <3> QED
      BY <1>10, <3>1
  <2>5. CASE Closes(N)
    BY <2>5
  <2>6. CASE Cardinality(within[N]) >= N
    <3>1. within[N] \in SUBSET S
      BY <1>9, <1>10 DEF V
    <3>2. Cardinality(within[N]) <= N
      BY <3>1, FS_Subset DEF N
    <3>3. Cardinality(within[N]) = N
      BY <1>1, <1>10, <2>1, <2>6, <3>2
    <3>4. within[N] = S
      BY <3>1, <3>3, FS_Subset DEF N
    <3>5. Further(within[N]) \in V
      BY <1>2, <1>9, <1>10
    <3> QED
      BY <3>4, <3>5 DEF V
  <2> QED
    BY <2>4, <2>5, <2>6
<1>13. \A e \in edges : e[1] \in within[N] => e[2] \in within[N]
  BY <1>5, <1>12
<1>14. within[N] \in SUBSET S /\ start \subseteq within[N]
  BY <1>9, <1>10 DEF V
<1> QED
  BY <1>3, <1>11, <1>13, <1>14

\* It is within any other.
LEMMA ReachedWithin ==
    ASSUME NEW S, IsFiniteSet(S), NEW start \in SUBSET S, NEW edges,
           \A e \in edges : e[1] \in S => e[2] \in S,
           NEW T, start \subseteq T, \A e \in edges : e[1] \in T => e[2] \in T
    PROVE  Reached(S, start, edges) \subseteq T
<1>1. \A U : start \subseteq U /\ (\A e \in edges : e[1] \in U => e[2] \in U)
                 => Reached(S, start, edges) \subseteq U
  BY ReachedIsLeast
<1> QED
  BY <1>1, Zenon

\* Edges lead from nodes to nodes only.
LEMMA ReachedAreFiled ==
    ASSUME EdgesFiled, IsFiniteSet(DOMAIN nodes), NEW S, \A k \in S : IsFiled(k)
    PROVE  \A k \in ReachedFrom(S) : IsFiled(k)
<1> DEFINE V == {k \in DOMAIN nodes : IsFiled(k)}
<1>1. S \in SUBSET DOMAIN nodes /\ S \subseteq V
  BY DEF IsFiled
<1>2. \A e \in next : e[2] \in DOMAIN nodes /\ e[2] \in V
  BY DEF EdgesFiled, IsFiled
<1>3. Reached(DOMAIN nodes, S, next) \subseteq V
  <2> HIDE DEF V
  <2> QED
    BY <1>1, <1>2, ReachedIsLeast
<1> QED
  BY <1>3 DEF ReachedFrom

\* What IsReachable says yes of.
LEMMA AnswersAreFiled ==
    ASSUME Decoded, BeingLinked, built, NEW A \in Answers
    PROVE  \A k \in A : IsFiled(k)
<1>1. /\ Cut /\ NullsBehind /\ EdgesFiled
  BY DEF BeingLinked
<1>2. A \subseteq ReachedNodes
  BY DEF Answers
<1>3. \A k \in DOMAIN nodes \cap {0} : IsFiled(k)
  BY <1>1 DEF NullsBehind
<1>4. \A k \in ReachedNodes : IsFiled(k)
  BY <1>1, <1>3, KeysAreOffsets, ReachedAreFiled DEF ReachedNodes
<1> QED
  BY <1>2, <1>4

-----------------------------------------------------------------------------
(***************************************************************************)
(* findCreatedContracts hands byte strings to the constructor              *)
(***************************************************************************)

LEMMA BytesAsCode ==
    ASSUME NEW n \in Nat, NEW s \in [1 .. n -> Byte]
    PROVE  IsByteString(AsCode(s)) /\ Cardinality(DOMAIN AsCode(s)) = n
<1>1. s \in Seq(Byte)
  OBVIOUS
<1>2. Len(s) = n
  <2>1. Len(s) \in Nat /\ DOMAIN s = 1 .. Len(s) /\ DOMAIN s = 1 .. n
    BY <1>1, LenProperties
  <2> QED
    BY <2>1
<1>3. AsCode(s) = [i \in 0 .. (n - 1) |-> s[i + 1]]
  BY <1>2 DEF AsCode
<1>4. \A i \in 0 .. (n - 1) : s[i + 1] \in Byte
  OBVIOUS
<1>5. DOMAIN AsCode(s) = 0 .. (n - 1) /\ AsCode(s) \in [0 .. (n - 1) -> Byte]
  BY <1>3, <1>4
<1>6. IsFiniteSet(0 .. (n - 1)) /\ Cardinality(0 .. (n - 1)) = n
  <2>1. 0 \in Int /\ n - 1 \in Int
    OBVIOUS
  <2> QED
    BY <2>1, FS_Interval
<1> QED
  BY <1>5, <1>6 DEF IsByteString

\* A contract found is no longer than the code it is found in.
LEMMA NewCodeIsBytes ==
    ASSUME IsByteString(code), IsAddressable(code), NEW copy, NEW ret
    PROVE  LET contract == AsCode(Find!NewCode(copy, ret))
           IN  IsByteString(contract) /\ IsAddressable(contract)
<1> DEFINE returned == {i \in DOMAIN code :
                           /\ Find!FirstByte(copy, ret) <= i
                           /\ i < Find!EndByte(copy, ret)}
           len      == Cardinality(DOMAIN code)
           n        == Cardinality(returned)
           contract == Find!NewCode(copy, ret)
<1>1. /\ len \in Nat /\ DOMAIN code = 0 .. (len - 1)
      /\ \A i \in DOMAIN code : code[i] \in Byte
  BY ByteStringFacts
<1>2. returned \in SUBSET (0 .. (len - 1))
  BY <1>1
<1>3. contract = [i \in 1 .. n |-> code[Find!Min(returned) + i - 1]]
  BY DEF Find!NewCode, Find!Cardinality, Cardinality
<1> HIDE DEF len, returned, contract
<1>4. IsFiniteSet(returned) /\ n \in Nat
  <2>1. IsFiniteSet(0 .. (len - 1))
    BY <1>1, FS_Interval
  <2>2. IsFiniteSet(returned)
    BY <1>2, <2>1, FS_Subset
  <2> QED
    BY <2>2, FS_CardinalityType
<1>5. ASSUME NEW c, Cardinality(DOMAIN c) = n, n <= len PROVE IsAddressable(c)
  <2>1. 2 * len <= Modulus /\ Modulus \in Nat
    BY ModulusFacts DEF IsAddressable, len
  <2> HIDE DEF n
  <2>2. 2 * n <= Modulus
    BY <1>1, <1>4, <1>5, <2>1
  <2> QED
    BY <1>5, <2>2 DEF IsAddressable
<1>6. CASE returned # {}
  <2>1. PICK m \in returned : \A j \in returned : m <= j
    BY <1>2, <1>6, Smallest
  <2>2. /\ Find!Min(returned) \in returned
        /\ \A j \in returned : Find!Min(returned) <= j
    BY <2>1 DEF Find!Min
  <2> DEFINE first == Find!Min(returned)
  <2>3. first \in 0 .. (len - 1) /\ returned \in SUBSET (first .. (len - 1))
    <3> HIDE DEF first
    <3>1. first \in returned /\ \A j \in returned : first <= j
      BY <2>2 DEF first
    <3> QED
      BY <1>1, <1>2, <3>1
  <2> HIDE DEF first
  <2>4. n <= len - first
    <3>1. first \in Int /\ len - 1 \in Int /\ first <= len - 1
      BY <1>1, <2>3
    <3>2. IsFiniteSet(first .. (len - 1)) /\ Cardinality(first .. (len - 1)) = len - 1 - first + 1
      BY <3>1, FS_Interval
    <3>3. n <= Cardinality(first .. (len - 1))
      BY <2>3, <3>2, FS_Subset
    <3> QED
      BY <1>1, <2>3, <3>2, <3>3
  <2>5. \A i \in 1 .. n : first + i - 1 \in DOMAIN code
    <3> HIDE DEF n
    <3> QED
      BY <1>1, <1>4, <2>3, <2>4
  <2>6. \A i \in 1 .. n : code[first + i - 1] \in Byte
    BY <1>1, <2>5
  <2>7. contract = [i \in 1 .. n |-> code[first + i - 1]]
    BY <1>3 DEF first
  <2> HIDE DEF n
  <2>8. IsByteString(AsCode(contract)) /\ Cardinality(DOMAIN AsCode(contract)) = n
    BY <1>4, <2>6, <2>7, BytesAsCode
  <2>9. n <= len
    BY <1>1, <1>4, <2>3, <2>4
  <2> QED
    BY <1>5, <2>8, <2>9 DEF contract
<1>7. CASE returned = {}
  <2>1. n = 0
    BY <1>7, FS_EmptySet
  <2>2. \A i \in 1 .. n : code[Find!Min(returned) + i - 1] \in Byte
    BY <2>1
  <2> HIDE DEF n
  <2>3. IsByteString(AsCode(contract)) /\ Cardinality(DOMAIN AsCode(contract)) = n
    BY <1>3, <1>4, <2>2, BytesAsCode
  <2>4. n <= len
    BY <1>1, <2>1
  <2> QED
    BY <1>5, <2>3, <2>4 DEF contract
<1> QED
  BY <1>6, <1>7

\* The contracts found are byte strings.
LEMMA FindKeeps ==
    ASSUME IsByteString(code), IsAddressable(code), PendingAreBytes, FindStep
    PROVE  PendingAreBytes'
<1>1. \A c \in created' \ created : IsByteString(AsCode(c)) /\ IsAddressable(AsCode(c))
  <2>1. CASE Find!Stop
    BY <2>1, NewCodeIsBytes DEF Find!Stop
  <2>2. CASE ~Find!Stop
    BY <2>2 DEF FindStep, Find!Next, Find!Begin, Find!Copy, Find!Search, Find!GiveUp,
                Find!Exhaust, Find!Abort, Find!Return
  <2> QED
    BY <2>1, <2>2
<1>2. pending' = pending \cup (created' \ created)
  BY DEF FindStep
<1> QED
  BY <1>1, <1>2 DEF PendingAreBytes

-----------------------------------------------------------------------------
(***************************************************************************)
(* GetNode finds the node of an offset.                                    *)
(***************************************************************************)

\* Instructions have numbers for offsets and do not overlap.
LEMMA InstructionsApart ==
    ASSUME Decoded
    PROVE  \A p \in DOMAIN instructions :
              /\ p \in Nat /\ EndOf(Opcodes, p) \in Nat /\ p < EndOf(Opcodes, p)
              /\ \A r \in DOMAIN instructions : p < r => EndOf(Opcodes, p) <= r
  BY LengthType DEF Decoded, IsStream, EndOf, Opcodes

\* Once startGraph is done there is a key behind the last node, and behind a node in
\* front of a JUMPDEST without one, if control can leave it there.
LEMMA KeyBehind ==
    ASSUME Decoded, Cut, FallsLinked, todo = {}, NEW last \in DOMAIN instructions,
           \A p \in DOMAIN instructions : p <= last, IsFallThrough(Opcodes[last])
    PROVE  \E k \in DOMAIN nodes : last <= k
<1>1. ASSUME NEW p \in DOMAIN instructions, NEW s, Holds(s, p), ~Holds(s, last) \/ p = last,
             EndOf(Opcodes, p) = last \/ p = last, IsFallThrough(Opcodes[p])
      PROVE  \E k \in DOMAIN nodes : last <= k
  <2>1. /\ IsFiled(s) /\ s \in Nat /\ nodes[s].end \in Nat /\ s <= p /\ p < nodes[s].end
    BY <1>1 DEF Holds, Cut, FiledByStart
  <2>2. PICK q \in DOMAIN instructions : s <= q /\ EndOf(Opcodes, q) = nodes[s].end
    <3>1. ~IsEmptyAt(s)
      BY <1>1, <2>1, InstructionsApart DEF IsEmptyAt
    <3> QED
      BY <2>1, <3>1 DEF Cut, FiledEnds, EndsBehind, EndsWith
  <2>3. q = p
    <3>1. CASE q < p
      BY <2>1, <2>2, <3>1, InstructionsApart
    <3>2. CASE p < q
      <4>1. EndOf(Opcodes, p) = last /\ q <= last /\ last <= q
        BY <1>1, <2>2, <3>2, InstructionsApart
      <4>2. q = last
        BY <4>1, InstructionsApart
      <4>3. last < nodes[s].end /\ s <= last
        BY <2>2, <4>2, InstructionsApart
      <4> QED
        BY <1>1, <2>1, <3>2, <4>2, <4>3, InstructionsApart DEF Holds
    <3> QED
      BY <3>1, <3>2, InstructionsApart
  <2>4. nodes[s].end \in DOMAIN nodes
    BY <1>1, <2>1, <2>2, <2>3 DEF FallsLinked, EndsWith
  <2>5. last <= nodes[s].end
    BY <1>1, <2>2, <2>3, InstructionsApart
  <2> QED
    BY <2>4, <2>5
<1>2. CASE \E s : Holds(s, last)
  BY <1>1, <1>2
<1>3. CASE ~\E s : Holds(s, last)
  <2>1. IsTrailingJumpDest(last)
    BY <1>3 DEF Cut, FiledCover
  <2>2. CASE Apart(last)
    BY <2>2, InstructionsApart DEF Cut, ApartAreFiled, IsFiled
  <2>3. CASE ~Apart(last)
    <3>1. PICK p \in DOMAIN instructions :
             EndOf(Opcodes, p) = last /\ ~IsStop(Opcodes[p]) /\ ~IsBranch(Opcodes[p])
      BY <2>1, <2>3 DEF Apart, IsTrailingJumpDest
    <3>2. IsFallThrough(Opcodes[p])
      BY <3>1 DEF IsFallThrough, IsBranch
    <3>3. ~IsTrailingJumpDest(p)
      BY <3>1, InstructionsApart DEF IsTrailingJumpDest
    <3>4. PICK s : Holds(s, p)
      BY <3>3 DEF Cut, FiledCover
    <3> QED
      BY <1>1, <1>3, <3>1, <3>2, <3>4
  <2> QED
    BY <2>2, <2>3
<1> QED
  BY <1>2, <1>3

\* From the first key behind it, GetNode comes back to the node that holds it.
LEMMA GetNodeFinds ==
    ASSUME Decoded, Cut, NullsBehind, NEW o \in DOMAIN instructions, NEW s, Holds(s, o),
           \E k \in DOMAIN nodes : o <= k
    PROVE  Out!GetNode(o) = s
<1> DEFINE behind == {k \in DOMAIN nodes : k >= o}
           before == {k \in Out!Filed : k <= Out!Smallest(behind) /\ Out!StartsBefore(k, o)}
<1>1. /\ o \in Nat /\ o \in DOMAIN code
      /\ \A k \in DOMAIN nodes : k \in Nat
  BY InstructionsApart, KeysAreOffsets DEF Decoded
<1>2. /\ s \in Nat /\ nodes[s].end \in Nat /\ s <= o /\ o < nodes[s].end
      /\ \A k : IsFiled(k) => k \in Nat /\ nodes[k].start = k /\ nodes[k].end \in Nat
  BY DEF Holds, Cut, FiledByStart
<1>3. \A k : k \in Out!Filed <=> IsFiled(k)
  BY DEF Out!Filed, IsFiled, Out!NoNode, Start!NoNode, Start!Unset
<1>4. behind \in SUBSET Nat /\ behind # {}
  BY <1>1
<1>5. Out!Smallest(behind) \in behind
  <2> HIDE DEF behind
  <2>1. \E k \in behind : \A j \in behind : k <= j
    BY <1>4, Smallest
  <2> QED
    BY <2>1 DEF Out!Smallest
<1>6. o <= Out!Smallest(behind) /\ Out!Smallest(behind) \in Nat
  <2> DEFINE first == Out!Smallest(behind)
  <2>1. first >= o /\ first \in Nat
    BY <1>1, <1>5
  <2> HIDE DEF first
  <2> QED
    BY <1>1, <2>1 DEF first
<1>7. s \in before
  <2> HIDE DEF behind
  <2>1. s <= Out!Smallest(behind)
    BY <1>1, <1>2, <1>6
  <2>2. IsFiled(s) /\ nodes[s].start <= o
    BY <1>2 DEF Holds
  <2> QED
    BY <1>3, <2>1, <2>2 DEF Out!StartsBefore
<1>8. \A k \in before : k <= s /\ k \in Nat
  <2> TAKE k \in before
  <2>1. IsFiled(k) /\ k \in Nat /\ k <= o
    BY <1>2, <1>3 DEF Out!StartsBefore
  <2>2. ~(s < k)
    <3> SUFFICES ASSUME s < k PROVE FALSE
      OBVIOUS
    <3>1. nodes[s].end <= k
      BY <2>1 DEF Cut, FiledDisjoint, Holds
    <3> QED
      BY <1>1, <1>2, <2>1, <3>1
  <2> QED
    BY <1>2, <2>1, <2>2
<1> HIDE DEF before
<1>9. Out!Largest(before) = s
  <2>1. \A k \in before : k \in Nat
    BY <1>8
  <2>2. /\ Out!Largest(before) \in before
        /\ \A j \in before : j <= Out!Largest(before)
    BY <1>7, <1>8 DEF Out!Largest
  <2>3. s <= Out!Largest(before) /\ Out!Largest(before) <= s /\ Out!Largest(before) \in Nat
    BY <1>7, <1>8, <2>2
  <2> QED
    BY <1>2, <2>3
<1>10. nodes[s].end >= o
  BY <1>1, <1>2
<1> QED
  BY <1>1, <1>4, <1>7, <1>9, <1>10 DEF Out!GetNode, before

-----------------------------------------------------------------------------
(***************************************************************************)
(* The graph and the code                                                  *)
(***************************************************************************)

LEMMA OffsetFacts ==
    ASSUME Decoded
    PROVE  /\ IsFiniteSet(DOMAIN instructions)
           /\ \A p \in DOMAIN instructions :
                 /\ p \in Nat /\ EndOf(Opcodes, p) \in Nat /\ p < EndOf(Opcodes, p)
                 /\ \A r \in DOMAIN instructions : p < r => EndOf(Opcodes, p) <= r
                 /\ p = 0 \/ \E r \in DOMAIN instructions : EndOf(Opcodes, r) = p
                 /\ Opcodes[p] = instructions[p].op
<1>1. IsFiniteSet(DOMAIN instructions)
  BY FS_Subset DEF Decoded, IsByteString
<1>2. DOMAIN Opcodes = DOMAIN instructions
      /\ \A p \in DOMAIN instructions : Opcodes[p] = instructions[p].op
  BY DEF Opcodes
<1>3. \A p \in DOMAIN instructions : EndOf(Opcodes, p) = p + 1 + Length(Opcodes[p])
  BY DEF EndOf
<1> QED
  BY <1>1, <1>2, <1>3, LengthType DEF Decoded, IsStream

\* Of two instructions of which one leads to the other there is an edge of Flow.
LEMMA FlowIs ==
    /\ \A o \in DOMAIN instructions : \A p \in Continues(o) : <<o, p>> \in Flow
    /\ \A e \in Flow : /\ e[1] \in DOMAIN instructions /\ e[2] \in DOMAIN instructions
                       /\ e[2] \in Continues(e[1])
  BY DEF Flow, Continues

\* The JUMPDEST at the end of the code is in no node.
LEMMA HeldNotTrailing ==
    ASSUME Decoded, Cut, NEW k, NEW o \in DOMAIN instructions, Holds(k, o)
    PROVE  ~IsTrailingJumpDest(o)
<1>1. IsTrailingJumpDest(o) => o = k
  BY DEF Cut, FiledStraight, IsTrailingJumpDest
<1>2. IsFiled(k) /\ k < nodes[k].end
  BY OffsetFacts DEF Holds, Cut, FiledByStart
<1> QED
  BY <1>1, <1>2 DEF Cut, FiledStarts

\* Control passes through a node from its first instruction on.
LEMMA NodeFlows ==
    ASSUME Decoded, Cut, NEW I, \A e \in Flow : e[1] \in I => e[2] \in I,
           NEW k \in I, NEW o \in DOMAIN instructions, Holds(k, o)
    PROVE  o \in I
<1> DEFINE out == {p \in DOMAIN instructions : Holds(k, p) /\ p \notin I}
<1>1. IsFiled(k) /\ k \in Nat /\ nodes[k].end \in Nat
  BY DEF Holds, Cut, FiledByStart
<1>2. out \in SUBSET Nat
  BY OffsetFacts
<1> SUFFICES out = {}
  OBVIOUS
<1>3. ASSUME out # {} PROVE FALSE
  <2>1. PICK p \in out : \A r \in out : p <= r
    BY <1>2, <1>3, Smallest
  <2>2. p \in DOMAIN instructions /\ Holds(k, p) /\ p \notin I /\ p # k
    BY <2>1
  <2>3. p \in Nat /\ k < p /\ p < nodes[k].end
    BY <1>1, <2>2, OffsetFacts DEF Holds
  <2>4. PICK r \in DOMAIN instructions : EndOf(Opcodes, r) = p
    BY <1>1, <2>2, <2>3, OffsetFacts
  <2>5. r \in Nat /\ r < p
    BY <2>4, OffsetFacts
  <2>6. k <= r
    <3>1. k < nodes[k].end
      BY <1>1, <2>3
    <3>2. k \in DOMAIN instructions
      BY <1>1, <3>1 DEF Cut, FiledStarts
    <3>3. r < k => p <= k
      BY <2>4, <3>2, OffsetFacts
    <3> QED
      BY <1>1, <2>3, <2>5, <3>3
  <2>7. Holds(k, r)
    BY <1>1, <2>3, <2>5, <2>6 DEF Holds
  <2>8. r \in I
    BY <2>1, <2>3, <2>5, <2>7
  <2>9. IsFallThrough(Opcodes[r])
    <3>1. EndOf(Opcodes, r) # nodes[k].end
      BY <1>1, <2>3, <2>4
    <3>2. ~IsBranch(Opcodes[r]) /\ ~IsStop(Opcodes[r])
      BY <2>7, <3>1 DEF Cut, FiledStraight
    <3> QED
      BY <3>2 DEF IsFallThrough, IsBranch
  <2>10. p \in Continues(r)
    BY <2>2, <2>4, <2>9 DEF Continues
  <2> QED
    BY <2>2, <2>8, <2>10, FlowIs
<1> QED
  BY <1>3

\* A node that holds an instruction ends with one.
LEMMA EndHeld ==
    ASSUME Decoded, Cut, NEW k, IsFiled(k), EndsBehind(k)
    PROVE  \E q \in DOMAIN instructions : EndsWith(k, q) /\ Holds(k, q)
<1>1. PICK q \in DOMAIN instructions : EndsWith(k, q)
  BY DEF EndsBehind
<1>2. Holds(k, q)
  BY <1>1, OffsetFacts DEF EndsWith, Holds
<1> QED
  BY <1>1, <1>2

LEMMA HoldersEnd ==
    ASSUME Decoded, Cut, NEW k, NEW o \in DOMAIN instructions, Holds(k, o)
    PROVE  /\ EndsBehind(k)
           /\ EndOf(Opcodes, o) <= nodes[k].end
<1>1. IsFiled(k) /\ k \in Nat /\ nodes[k].end \in Nat /\ k <= o /\ o < nodes[k].end
  BY DEF Holds, Cut, FiledByStart
<1>2. EndsBehind(k)
  BY <1>1, OffsetFacts DEF Cut, FiledEnds, IsEmptyAt
<1>3. PICK q \in DOMAIN instructions : EndsWith(k, q) /\ Holds(k, q)
  BY <1>1, <1>2, EndHeld
<1>4. EndOf(Opcodes, q) = nodes[k].end /\ q < nodes[k].end
  BY <1>3 DEF EndsWith, Holds
<1>5. EndOf(Opcodes, o) <= nodes[k].end
  <2>1. /\ o \in Nat /\ q \in Nat /\ EndOf(Opcodes, o) \in Nat
        /\ o < q => EndOf(Opcodes, o) <= q
        /\ q < o => EndOf(Opcodes, q) <= o
    BY OffsetFacts
  <2> QED
    BY <1>1, <1>4, <2>1
<1> QED
  BY <1>2, <1>5

\* An address is less than half of what an int64_t can tell apart.
LEMMA StartsAreReadable ==
    ASSUME Decoded, Cut, NEW m, IsFiled(m)
    PROVE  m \in Nat /\ 2 * m < Modulus
<1>1. /\ Cardinality(DOMAIN code) \in Nat
      /\ DOMAIN code = 0 .. (Cardinality(DOMAIN code) - 1)
  BY ByteStringFacts DEF Decoded
<1>2. 2 * Cardinality(DOMAIN code) <= Modulus /\ Modulus \in Nat
  BY ModulusFacts DEF Decoded, IsAddressable
<1>3. m \in Nat /\ nodes[m].end \in Nat
  BY DEF Cut, FiledByStart
<1>4. m < Cardinality(DOMAIN code)
  <2>1. CASE EndsBehind(m)
    <3>1. PICK q \in DOMAIN instructions : EndsWith(m, q) /\ Holds(m, q)
      BY <2>1, EndHeld
    <3>2. m <= q /\ q \in DOMAIN code
      BY <3>1 DEF Holds, Decoded
    <3> QED
      BY <1>1, <1>3, <3>2
  <2>2. CASE IsEmptyAt(m)
    BY <1>1, <2>2 DEF IsEmptyAt, Decoded
  <2> QED
    BY <2>1, <2>2 DEF Cut, FiledEnds
<1> HIDE DEF Modulus
<1> QED
  BY <1>1, <1>2, <1>3, <1>4

LEMMA SameReading ==
    /\ \A op : Start!IsBranch(op) <=> IsBranch(op)
    /\ \A v : Start!IsReadable(v) <=> IsReadable(v)
    /\ \A v : Start!GetInt64FromVec(v) = Signed(WordOf(v))
<1>1. \A op : Start!IsBranch(op) <=> IsBranch(op)
  BY DEF Start!IsBranch, IsBranch, Start!OP_JUMP, OP_JUMP, Start!OP_JUMPI, OP_JUMPI
<1>2. \A v : Start!IsReadable(v) <=> IsReadable(v)
  BY DEF Start!IsReadable, IsReadable
<1>3. \A v : Start!GetInt64FromVec(v) = Signed(WordOf(v))
  BY Zenon DEF Start!GetInt64FromVec, Start!Signed, Signed, Start!WordOf, WordOf,
         Start!Modulus, Modulus, Start!PowerOf256, PowerOf256
<1> QED
  BY <1>1, <1>2, <1>3

\* The target of a branch.
Target(q) == instructions[q].operands[1]

\* Nothing follows the JUMPDEST at the end of the code.
LEMMA TrailingEnds ==
    ASSUME Decoded, NEW o \in DOMAIN instructions, IsTrailingJumpDest(o)
    PROVE  Continues(o) = {}
<1>1. ~IsBranch(Opcodes[o])
  BY DEF IsTrailingJumpDest, IsBranch, OP_JUMPDEST, OP_JUMP, OP_JUMPI
<1>2. EndOf(Opcodes, o) \notin DOMAIN instructions
  BY OffsetFacts DEF IsTrailingJumpDest
<1> QED
  BY <1>1, <1>2 DEF Continues

LEMMA ReachedClosed ==
    ASSUME Decoded, Cut, NullsBehind, EdgesFiled
    PROVE  /\ \A k \in ReachedNodes : IsFiled(k)
           /\ DOMAIN nodes \cap {0} \subseteq ReachedNodes
           /\ \A e \in next : e[1] \in ReachedNodes => e[2] \in ReachedNodes
           /\ \A T : /\ DOMAIN nodes \cap {0} \subseteq T
                     /\ \A e \in next : e[1] \in T => e[2] \in T
                     => ReachedNodes \subseteq T
<1>1. EdgesFiled /\ IsFiniteSet(DOMAIN nodes) /\ DOMAIN nodes \cap {0} \in SUBSET DOMAIN nodes
  BY KeysAreOffsets
<1>2. \A e \in next : e[1] \in DOMAIN nodes => e[2] \in DOMAIN nodes
  BY <1>1 DEF EdgesFiled, IsFiled
<1>3. \A k \in DOMAIN nodes \cap {0} : IsFiled(k)
  BY DEF NullsBehind
<1>4. ReachedNodes = Reached(DOMAIN nodes, DOMAIN nodes \cap {0}, next)
  BY DEF ReachedNodes, ReachedFrom
<1>5. \A k \in ReachedNodes : IsFiled(k)
  BY <1>1, <1>3, ReachedAreFiled DEF ReachedNodes
<1> HIDE DEF ReachedNodes
<1>6. /\ DOMAIN nodes \cap {0} \subseteq ReachedNodes
      /\ \A e \in next : e[1] \in ReachedNodes => e[2] \in ReachedNodes
  BY <1>1, <1>2, <1>4, ReachedIsLeast
<1>7. ASSUME NEW T, DOMAIN nodes \cap {0} \subseteq T, \A e \in next : e[1] \in T => e[2] \in T
      PROVE  ReachedNodes \subseteq T
  BY <1>1, <1>2, <1>4, <1>7, ReachedWithin
<1> QED
  BY <1>5, <1>6, <1>7

-----------------------------------------------------------------------------
(***************************************************************************)
(* The byte string of a contract.                                          *)
(***************************************************************************)

\* contract is the code from first on, size bytes of it or as many as there are.
IsStretch(contract, first, size) ==
    \E n \in Nat :
        /\ Len(contract) = n /\ n <= size
        /\ \A i \in 1 .. size : first + i - 1 \in DOMAIN code <=> i <= n
        /\ \A i \in 1 .. n : contract[i] = code[first + i - 1]

LEMMA NewCodeIs ==
    ASSUME IsByteString(code), NEW copy, NEW ret, Find!NewCode(copy, ret) # <<>>,
           NEW first \in Nat, Find!FirstByte(copy, ret) = first,
           NEW size \in Int, Find!EndByte(copy, ret) = first + size
    PROVE  IsStretch(Find!NewCode(copy, ret), first, size)
<1> DEFINE returned == {i \in DOMAIN code : first <= i /\ i < first + size}
           len      == Cardinality(DOMAIN code)
           n        == Cardinality(returned)
           contract == Find!NewCode(copy, ret)
<1>1. len \in Nat /\ DOMAIN code = 0 .. (len - 1)
  BY ByteStringFacts
<1>2. contract = [i \in 1 .. n |-> code[Find!Min(returned) + i - 1]]
  BY DEF Find!NewCode, Find!Cardinality, Cardinality
<1> HIDE DEF len, contract
<1>3. returned # {}
  <2> SUFFICES ASSUME returned = {} PROVE contract = <<>>
    BY DEF contract
  <2>1. n = 0
    BY FS_EmptySet
  <2> HIDE DEF n
  <2> QED
    BY <1>2, <2>1
<1>4. first \in returned /\ \A j \in returned : first <= j
  BY <1>1, <1>3
<1>5. Find!Min(returned) = first
  <2> HIDE DEF returned
  <2>1. returned \in SUBSET Nat
    BY <1>1 DEF returned
  <2>2. /\ Find!Min(returned) \in returned
        /\ \A j \in returned : Find!Min(returned) <= j
    BY <1>4 DEF Find!Min
  <2> DEFINE least == Find!Min(returned)
  <2>3. least \in Nat /\ least <= first /\ first <= least
    BY <1>4, <2>1, <2>2
  <2> HIDE DEF least
  <2>4. least = first
    BY <2>3
  <2> QED
    BY <2>4 DEF least
<1> DEFINE behind == IF first + size <= len THEN first + size ELSE len
<1>6. behind \in Nat /\ first < behind /\ behind <= len /\ behind <= first + size
  BY <1>1, <1>4
<1>7. returned = first .. (behind - 1)
  BY <1>1, <1>6
<1>8. n = behind - first
  <2>1. first \in Int /\ behind - 1 \in Int /\ first <= behind - 1
    BY <1>6
  <2>2. Cardinality(first .. (behind - 1)) = behind - 1 - first + 1
    BY <2>1, FS_Interval
  <2> HIDE DEF behind, returned
  <2> QED
    BY <1>6, <1>7, <2>2
<1>9. \A i \in 1 .. size : first + i - 1 \in DOMAIN code <=> i <= behind - first
  BY <1>1, <1>6
<1> HIDE DEF behind, returned, n
<1>10. n \in Nat /\ n <= size
  BY <1>6, <1>8
<1>11. contract = [i \in 1 .. n |-> code[first + i - 1]]
  BY <1>2, <1>5
<1>12. Len(contract) = n
  BY <1>10, <1>11
<1>13. IsStretch(contract, first, size)
  BY <1>8, <1>9, <1>10, <1>11, <1>12 DEF IsStretch
<1> QED
  BY <1>13 DEF contract

-----------------------------------------------------------------------------
(***************************************************************************)
(* What the audit reports                                                  *)
(***************************************************************************)

\* A read of tx.origin is in a node, and GetNode, unless it fails, finds this node.
LEMMA OriginsAreFound ==
    ASSUME Decoded, Cut, NullsBehind, NEW o \in Out!Origins, Out!GetNode(o) # Out!Failed
    PROVE  Holds(Out!GetNode(o), o)
<1>1. o \in DOMAIN instructions /\ Opcodes[o] # OP_JUMPDEST
  BY DEF Out!Origins, Out!OP_ORIGIN, Opcodes, OP_JUMPDEST
<1>2. PICK s : Holds(s, o)
  BY <1>1 DEF Cut, FiledCover, IsTrailingJumpDest
<1>3. \E k \in DOMAIN nodes : o <= k
  <2> SUFFICES ASSUME ~\E k \in DOMAIN nodes : o <= k PROVE FALSE
    OBVIOUS
  <2>1. /\ o \in Nat /\ o \in DOMAIN code
        /\ \A k \in DOMAIN nodes : k \in Nat
    BY <1>1, InstructionsApart, KeysAreOffsets DEF Decoded
  <2>2. {k \in DOMAIN nodes : k >= o} = {}
    BY <2>1
  <2> QED
    BY <2>1, <2>2 DEF Out!GetNode
<1>4. Out!GetNode(o) = s
  BY <1>1, <1>2, <1>3, GetNodeFinds
<1> QED
  BY <1>2, <1>4

\* What a node that is filed holds.
LEMMA HeldIs ==
    ASSUME Decoded, Cut, NEW S, \A k \in S : IsFiled(k), NEW o \in DOMAIN instructions
    PROVE  o \in HeldBy(S) <=> \E k \in S : Holds(k, o)
<1>1. /\ o \in Nat
      /\ \A k \in S : /\ k \in Nat /\ nodes[k].start = k /\ nodes[k].end \in Nat
  BY InstructionsApart DEF Cut, FiledByStart
<1>2. ASSUME NEW k \in S PROVE o \in InstructionsOf(k) <=> Holds(k, o)
  <2>1. o \in nodes[k].start .. (nodes[k].end - 1) <=> k <= o /\ o < nodes[k].end
    BY <1>1, <1>2
  <2> QED
    BY <1>2, <2>1 DEF InstructionsOf, Holds
<1> QED
  BY <1>2 DEF HeldBy

-----------------------------------------------------------------------------
(***************************************************************************)
(* What an instruction sees of a stack is its Shape.                       *)
(***************************************************************************)

\* Shape is what Alike compares.
LEMMA ShapeIsView ==
    ASSUME NEW s \in Stacks, NEW t \in Stacks
    PROVE  Shape(s) = Shape(t) <=> Alike(s, t)
<1>1. /\ Len(s) \in Nat /\ Len(t) \in Nat
  BY StackFacts
<1>2. /\ Shape(s) = [i \in 1 .. Len(s) |-> View(s[i])]
      /\ Shape(t) = [i \in 1 .. Len(t) |-> View(t[i])]
  BY DEF Shape, View, Unknown, Unvalued
<1>3. ASSUME Shape(s) = Shape(t) PROVE Alike(s, t)
  <2>1. 1 .. Len(s) = 1 .. Len(t)
    BY <1>2, <1>3
  <2>2. Len(s) = Len(t)
    BY <1>1, <2>1
  <2>3. \A i \in 1 .. Len(s) : View(s[i]) = View(t[i])
    BY <1>2, <1>3, <2>1
  <2> QED
    BY <2>2, <2>3 DEF Alike
<1>4. ASSUME Alike(s, t) PROVE Shape(s) = Shape(t)
  BY <1>2, <1>4 DEF Alike
<1> QED
  BY <1>3, <1>4

-----------------------------------------------------------------------------
(***************************************************************************)
(* solveStack runs an instruction as CFInstruction does.                   *)
(***************************************************************************)

\* They take as many values ...
LEMMA SolverStackRemoved == \A op : Stack!StackRemoved(op) = StackRemoved(op)
  BY Zenon DEF Stack!StackRemoved, StackRemoved, Stack!IsDup, IsDup,
         Stack!OP_DUP1, OP_DUP1, Stack!OP_DUP16, OP_DUP16, Stack!IsSwap,
         IsSwap, Stack!OP_SWAP1, OP_SWAP1, Stack!OP_SWAP16, OP_SWAP16

\* ... and leave as many.
LEMMA SolverStackAdded == \A op : Stack!StackAdded(op) = StackAdded(op)
  BY Zenon DEF Stack!StackAdded, StackAdded, Stack!IsDup, IsDup, Stack!OP_DUP1,
         OP_DUP1, Stack!OP_DUP16, OP_DUP16, Stack!IsSwap, IsSwap,
         Stack!OP_SWAP1, OP_SWAP1, Stack!OP_SWAP16, OP_SWAP16, Stack!IsPush,
         IsPush, Stack!OP_PUSH1, OP_PUSH1, Stack!OP_PUSH32, OP_PUSH32

\* Solve computes the same,
LEMMA SolverSolve == \A op, in : Stack!Solve(op, in) = Solve(op, in)
  BY ZenonT(40) DEF Stack!Solve, Solve, Stack!OP_ADD, OP_ADD, Stack!OP_MUL,
         OP_MUL, Stack!OP_SUB, OP_SUB, Stack!OP_DIV, OP_DIV, Stack!OP_SDIV,
         OP_SDIV, Stack!OP_MOD, OP_MOD, Stack!OP_LT, OP_LT, Stack!OP_GT,
         OP_GT, Stack!OP_EQ, OP_EQ, Stack!OP_ISZERO, OP_ISZERO,
         Stack!OP_AND, OP_AND, Stack!OP_XOR, OP_XOR, Stack!OP_NOT, OP_NOT,
         Stack!Quotient, Quotient, Stack!Truth, Truth, Stack!Modulus,
         Modulus, Stack!PowerOf256, PowerOf256, Stack!Bits!BitwiseSum,
         Bits!BitwiseSum, Stack!Bits!PowerOf2, Bits!PowerOf2, Stack!Bits!AndBits,
         Bits!AndBits, Stack!Bits!XorBits, Bits!XorBits

\* A result is written the same,
LEMMA SolverGetVecFromInt64 == \A i : Stack!GetVecFromInt64(i) = GetVecFromInt64(i)
  BY Zenon DEF Stack!GetVecFromInt64, GetVecFromInt64, Stack!LowBytes, LowBytes,
         Stack!Modulus, Modulus, Stack!PowerOf256, PowerOf256

\* of the same int64_t,
LEMMA SolverSigned == \A i : Stack!Signed(i) = Signed(i) /\ Stack!Modulus = Modulus
  BY Zenon DEF Stack!Signed, Signed, Stack!Modulus, Modulus, Stack!PowerOf256,
         PowerOf256

\* and so a folding has the same output.
LEMMA SolverResult == \A op, in : Stack!Result(op, in) = Result(op, in)
<1> TAKE op, in
<1>1. Stack!Result(op, in)
        = Stack!GetVecFromInt64(Stack!Signed(Stack!Solve(op, in) % Stack!Modulus))
  BY DEF Stack!Result
<1>2. Result(op, in)
        = GetVecFromInt64(Signed(Solve(op, in) % Modulus))
  BY DEF Result
<1> QED
  BY <1>1, <1>2, SolverSolve, SolverGetVecFromInt64, SolverSigned, Zenon

\* It kills the program on the same operands.
LEMMA SolverTraps == \A op, in : Stack!Traps(op, in) <=> Traps(op, in)
  BY Zenon DEF Stack!Traps, Traps, Stack!MinInt64, MinInt64, Stack!OP_MOD,
         OP_MOD, Stack!OP_DIV, OP_DIV, Stack!OP_SDIV, OP_SDIV, Stack!Signed,
         Signed, Stack!Modulus, Modulus, Stack!PowerOf256, PowerOf256

\* Operands are popped alike,
LEMMA SolverOperands ==
    \A op, entry, args : Stack!Operands(op, entry, args) = Operands(op, entry, args)
  BY SolverStackRemoved DEF Stack!Operands, Operands, Stack!Argument, Argument

\* as many of them are missing and the same is left below them.
LEMMA SolverMissing ==
    \A op, entry :
    /\ Stack!Missing(op, entry) = Missing(op, entry)
    /\ Stack!Rest(op, entry) = Rest(op, entry)
  BY SolverStackRemoved DEF Stack!Missing, Missing, Stack!Rest, Rest

\* Outputs are made alike.
LEMMA SolverFreshOutputs ==
    \A op, value, first : Stack!FreshOutputs(op, value, first)
        = FreshOutputs(op, value, first)
  BY ZenonT(40) DEF Stack!FreshOutputs, FreshOutputs, Stack!Constant, Constant,
         Stack!Symbol, Symbol, Stack!StackAdded, StackAdded, Stack!IsDup,
         IsDup, Stack!OP_DUP1, OP_DUP1, Stack!OP_DUP16, OP_DUP16,
         Stack!IsSwap, IsSwap, Stack!OP_SWAP1, OP_SWAP1, Stack!OP_SWAP16,
         OP_SWAP16, Stack!IsPush, IsPush, Stack!OP_PUSH1, OP_PUSH1,
         Stack!OP_PUSH32, OP_PUSH32

\* The same instructions are folded,
LEMMA SolverFolds == \A op, operands : Stack!Folds(op, operands) <=> Folds(op, operands)
  BY Zenon DEF Stack!Folds, Folds, Stack!IsArithmetic, IsArithmetic,
         Stack!IsUnknown, IsUnknown, Stack!Known, Known, Stack!OP_EXP,
         OP_EXP, Stack!OP_SIGNEXTEND, OP_SIGNEXTEND, Stack!OP_ADD, OP_ADD,
         Stack!OP_BYTE, OP_BYTE, Stack!HasLogic, HasLogic, Stack!OP_MUL,
         OP_MUL, Stack!OP_SUB, OP_SUB, Stack!OP_DIV, OP_DIV, Stack!OP_SDIV,
         OP_SDIV, Stack!OP_MOD, OP_MOD, Stack!OP_LT, OP_LT, Stack!OP_GT,
         OP_GT, Stack!OP_EQ, OP_EQ, Stack!OP_ISZERO, OP_ISZERO,
         Stack!OP_AND, OP_AND, Stack!OP_XOR, OP_XOR, Stack!OP_NOT, OP_NOT,
         Stack!AllReadable, AllReadable, Stack!IsReadable, IsReadable

\* and of the same values.
LEMMA SolverValues == \A operands : Stack!Values(operands) = Values(operands)
  BY Zenon DEF Stack!Values, Values, Stack!GetInt64FromVec, GetInt64FromVec,
         Stack!Signed, Signed, Stack!WordOf, WordOf, Stack!Modulus, Modulus,
         Stack!PowerOf256, PowerOf256

\* Outputs are pushed alike.
LEMMA SolverPushed ==
    \A rest, outputs : Stack!Pushed(rest, outputs) = Pushed(rest, outputs)
  BY Zenon DEF Stack!Pushed, Pushed

\* DUP and SWAP rewrite their operands alike,
LEMMA SolverDupOutputs ==
    \A operands :
    /\ Stack!DupOutputs(operands) = DupOutputs(operands)
    /\ Stack!SwapOutputs(operands) = SwapOutputs(operands)
  BY Zenon DEF Stack!DupOutputs, DupOutputs, Stack!SwapOutputs, SwapOutputs

\* and they are the same opcodes.
LEMMA SolverManipulators ==
    \A op : (Stack!IsDup(op) <=> IsDup(op)) /\ (Stack!IsSwap(op) <=> IsSwap(op))
  BY Zenon DEF Stack!IsDup, IsDup, Stack!OP_DUP1, OP_DUP1, Stack!OP_DUP16,
         OP_DUP16, Stack!IsSwap, IsSwap, Stack!OP_SWAP1, OP_SWAP1,
         Stack!OP_SWAP16, OP_SWAP16

\* simplify does the same.
LEMMA SolverSimplified ==
    \A op, operands, outputs : Stack!Simplified(op, operands, outputs)
        = Simplified(op, operands, outputs)
<1> TAKE op, operands, outputs
<1>1. Stack!Constant(outputs[1].idx, Stack!Result(op, Stack!Values(operands)))
        = Constant(outputs[1].idx, Result(op, Values(operands)))
  BY SolverResult, SolverValues DEF Stack!Constant, Constant
<1> QED
  BY <1>1, SolverFolds, SolverDupOutputs, SolverManipulators, Zenon
     DEF Stack!Simplified, Simplified

\* solveStack takes the same opcodes for jumps and pushes.
LEMMA SolverKinds ==
    \A op : (Stack!IsBranch(op) <=> IsBranch(op)) /\ (Stack!IsPush(op) <=> IsPush(op))
  BY Zenon DEF Stack!IsBranch, IsBranch, Stack!OP_JUMP, OP_JUMP, Stack!OP_JUMPI, OP_JUMPI,
         Stack!IsPush, IsPush, Stack!OP_PUSH1, OP_PUSH1, Stack!OP_PUSH32, OP_PUSH32

\* It reads the target of a jump as it is read elsewhere.
LEMMA SolverReadable == \A operands : Stack!AllReadable(operands) <=> AllReadable(operands)
  BY Zenon DEF Stack!AllReadable, AllReadable, Stack!IsReadable, IsReadable

-----------------------------------------------------------------------------
(***************************************************************************)
(* The states solveStack runs an instruction on.                           *)
(***************************************************************************)
States == [stack : Stacks, argumentIdx : Nat, globalIdx : Nat, targets : SUBSET Int,
           trapped : BOOLEAN]

\* Two of them that differ in numbers only; the second may still hold targets of a node
\* run before.
StatesAlike(a, b) ==
    /\ Alike(a.stack, b.stack)
    /\ a.trapped = b.trapped
    /\ a.targets \subseteq b.targets

\* What fillInstructions leaves of the data of a PUSH.
PushesHaveData ==
    \A o \in DOMAIN instructions :
        IsPush(instructions[o].op) => instructions[o].outputs[1].value \in Seq(Byte) \ {<<>>}

Popped(o, a) ==
    Operands(instructions[o].op, a.stack,
             [k \in 1 .. Missing(instructions[o].op, a.stack) |-> a.argumentIdx + k - 1])

Made(o, a) ==
    Simplified(instructions[o].op, Popped(o, a),
               FreshOutputs(instructions[o].op, Stack!DataOf(o), a.globalIdx))

Trapped(o, a) ==
    Folds(instructions[o].op, Popped(o, a)) /\ Traps(instructions[o].op, Values(Popped(o, a)))

\* An instruction run by solveStack.
LEMMA AfterIs ==
    ASSUME NEW o, NEW a
    PROVE  /\ Stack!OperandsAt(o, a) = Popped(o, a)
           /\ Stack!After(o, a) =
                IF a.trapped \/ Trapped(o, a)
                THEN [a EXCEPT !.trapped = TRUE]
                ELSE [stack       |-> Pushed(Rest(instructions[o].op, a.stack), Made(o, a)),
                      argumentIdx |-> a.argumentIdx + Missing(instructions[o].op, a.stack),
                      globalIdx   |-> a.globalIdx + StackAdded(instructions[o].op),
                      targets     |-> IF /\ IsBranch(instructions[o].op)
                                         /\ AllReadable(<<Popped(o, a)[1]>>)
                                      THEN {Values(Popped(o, a))[1]} ELSE {},
                      trapped     |-> FALSE]
<1> DEFINE op == instructions[o].op
<1>1. Stack!OperandsAt(o, a) = Popped(o, a)
  BY SolverOperands, SolverMissing, Zenon DEF Stack!OperandsAt, Popped, Stack!CodeOf
<1>2. Stack!Simplified(op, Stack!OperandsAt(o, a),
                       Stack!FreshOutputs(op, Stack!DataOf(o), a.globalIdx)) = Made(o, a)
  BY <1>1, SolverSimplified, SolverFreshOutputs, Zenon DEF Made
<1>3. (Stack!Folds(op, Stack!OperandsAt(o, a)) /\ Stack!Traps(op, Stack!Values(Stack!OperandsAt(o, a))))
         <=> Trapped(o, a)
  BY <1>1, SolverFolds, SolverTraps, SolverValues, Zenon DEF Trapped
<1>4. Stack!Targets(op, Stack!OperandsAt(o, a))
        = IF IsBranch(op) /\ AllReadable(<<Popped(o, a)[1]>>) THEN {Values(Popped(o, a))[1]} ELSE {}
  BY <1>1, SolverKinds, SolverReadable, SolverValues, Zenon DEF Stack!Targets
<1>5. /\ \A s, t : Stack!Pushed(s, t) = Pushed(s, t)
      /\ \A s : Stack!Rest(op, s) = Rest(op, s) /\ Stack!Missing(op, s) = Missing(op, s)
      /\ Stack!StackAdded(op) = StackAdded(op)
  BY SolverPushed, SolverMissing, SolverStackAdded
<1>6. Stack!After(o, a) =
        IF a.trapped \/ (Stack!Folds(op, Stack!OperandsAt(o, a))
                           /\ Stack!Traps(op, Stack!Values(Stack!OperandsAt(o, a))))
        THEN [a EXCEPT !.trapped = TRUE]
        ELSE [stack       |-> Stack!Pushed(Stack!Rest(op, a.stack),
                                 Stack!Simplified(op, Stack!OperandsAt(o, a),
                                    Stack!FreshOutputs(op, Stack!DataOf(o), a.globalIdx))),
              argumentIdx |-> a.argumentIdx + Stack!Missing(op, a.stack),
              globalIdx   |-> a.globalIdx + Stack!StackAdded(op),
              targets     |-> Stack!Targets(op, Stack!OperandsAt(o, a)),
              trapped     |-> FALSE]
  BY DEF Stack!After, Stack!CodeOf
<1> QED
  BY <1>1, <1>2, <1>3, <1>4, <1>5, <1>6, Zenon

\* What an instruction finds and makes.
LEMMA PoppedFacts ==
    ASSUME PushesHaveData, NEW o \in DOMAIN instructions, NEW a \in States
    PROVE  /\ Popped(o, a) \in Stacks
           /\ Len(Popped(o, a)) = StackRemoved(instructions[o].op)
           /\ Missing(instructions[o].op, a.stack) \in Nat
           /\ \A b \in States : Alike(a.stack, b.stack) => Alike(Popped(o, a), Popped(o, b))
           /\ ~Trapped(o, a) => Made(o, a) \in Stacks
           /\ \A b \in States : ~Trapped(o, a) /\ Alike(a.stack, b.stack)
                 => Alike(Made(o, a), Made(o, b))
<1> DEFINE op == instructions[o].op
           args(b) == [k \in 1 .. Missing(op, b.stack) |-> b.argumentIdx + k - 1]
<1>1. \A b \in States : /\ b.stack \in Stacks /\ b.argumentIdx \in Nat /\ b.globalIdx \in Int
                       /\ Missing(op, b.stack) \in Nat
  <2> TAKE b \in States
  <2>1. b.stack \in Stacks /\ b.argumentIdx \in Nat /\ b.globalIdx \in Int
    BY DEF States
  <2>2. Len(b.stack) \in Nat /\ StackRemoved(op) \in Nat
    BY <2>1, StackFacts, StackCounts
  <2> QED
    BY <2>1, <2>2 DEF Missing
<1>2. \A b \in States : args(b) \in [1 .. Missing(op, b.stack) -> Int]
  BY <1>1
<1>3. \A b : Popped(o, b) = Operands(op, b.stack, args(b))
  BY DEF Popped
<1> HIDE DEF args, op
<1>4. /\ Popped(o, a) \in Stacks /\ Len(Popped(o, a)) = StackRemoved(op)
      /\ \A b \in States : Alike(a.stack, b.stack) => Alike(Popped(o, a), Popped(o, b))
  BY <1>1, <1>2, <1>3, OperandsAlike
<1>5. \A b \in States : Popped(o, b) \in Stacks
  BY <1>1, <1>2, <1>3, OperandsAlike
<1>6. IsPush(op) => Stack!DataOf(o) \in Seq(Byte) \ {<<>>}
  BY SolverKinds DEF Stack!DataOf, Stack!CodeOf, PushesHaveData, op
<1>7. \A b : Made(o, b) = Simplified(op, Popped(o, b), FreshOutputs(op, Stack!DataOf(o), b.globalIdx))
  BY DEF Made, op
<1>8. ASSUME ~Trapped(o, a)
      PROVE  /\ Made(o, a) \in Stacks
             /\ \A b \in States : Alike(a.stack, b.stack) => Alike(Made(o, a), Made(o, b))
  <2>1. Folds(op, Popped(o, a)) => ~Traps(op, Values(Popped(o, a)))
    BY <1>8 DEF Trapped, op
  <2> QED
    BY <1>1, <1>4, <1>5, <1>6, <1>7, <2>1, SimplifiedAlike
<1> QED
  BY <1>1, <1>4, <1>8 DEF op

\* The first operand of a jump.
LEMMA TargetsAlike ==
    ASSUME NEW s \in Stacks, NEW t \in Stacks, Alike(s, t), Len(s) >= 1
    PROVE  /\ AllReadable(<<s[1]>>) => Values(s)[1] \in Int
           /\ AllReadable(<<s[1]>>) <=> AllReadable(<<t[1]>>)
           /\ AllReadable(<<s[1]>>) => Values(s)[1] = Values(t)[1]
<1>1. PICK e \in Valued, f \in Valued : e = s[1] /\ f = t[1] /\ View(e) = View(f)
  BY StackFacts DEF Alike
<1>2. \A x : Len(<<x>>) = 1 /\ <<x>>[1] = x
  OBVIOUS
<1>3. \A x : AllReadable(<<x>>) <=> x.kind = "constant" /\ IsReadable(x.value)
  BY <1>2 DEF AllReadable
<1>4. /\ e.kind = "constant" <=> f.kind = "constant"
      /\ e.kind = "constant" => e.value = f.value
  BY <1>1, ViewFacts
<1>5. Values(s)[1] = GetInt64FromVec(e.value) /\ Values(t)[1] = GetInt64FromVec(f.value)
  BY <1>1, StackFacts DEF Values, Alike
<1>6. IsReadable(e.value) => GetInt64FromVec(e.value) \in Int
  <2>1. PICK v \in Seq(Byte) : v = e.value
    BY DEF Valued
  <2> QED
    BY <2>1, ReadableWord, SignedFacts DEF GetInt64FromVec
<1> QED
  BY <1>1, <1>3, <1>4, <1>5, <1>6

LEMMA AfterAlike ==
    ASSUME PushesHaveData, NEW o \in DOMAIN instructions, NEW a \in States
    PROVE  /\ Stack!After(o, a) \in States
           /\ Stack!After(o, a).trapped = FALSE => a.trapped = FALSE
           /\ \A b \in States : StatesAlike(a, b)
                 => StatesAlike(Stack!After(o, a), Stack!After(o, b))
<1> DEFINE op == instructions[o].op
           Jump(b) == IF IsBranch(op) /\ AllReadable(<<Popped(o, b)[1]>>)
                      THEN {Values(Popped(o, b))[1]} ELSE {}
           Run(b) == [stack       |-> Pushed(Rest(op, b.stack), Made(o, b)),
                      argumentIdx |-> b.argumentIdx + Missing(op, b.stack),
                      globalIdx   |-> b.globalIdx + StackAdded(op),
                      targets     |-> Jump(b),
                      trapped     |-> FALSE]
<1>1. \A b : Stack!After(o, b) = IF b.trapped \/ Trapped(o, b) THEN [b EXCEPT !.trapped = TRUE]
                                 ELSE Run(b)
  BY AfterIs
<1>2. \A b \in States : ~Trapped(o, b) => Run(b) \in States
  <2> SUFFICES ASSUME NEW b \in States, ~Trapped(o, b) PROVE Run(b) \in States
    OBVIOUS
  <2>1. /\ b.stack \in Stacks /\ b.argumentIdx \in Nat /\ b.globalIdx \in Nat
        /\ Missing(op, b.stack) \in Nat /\ Made(o, b) \in Stacks /\ StackAdded(op) \in Nat
    BY PoppedFacts, StackCounts DEF States
  <2>2. Pushed(Rest(op, b.stack), Made(o, b)) \in Stacks
    BY <2>1, RestAlike, PushedAlike
  <2>3. Jump(b) \in SUBSET Int
    <3>1. IsBranch(op) => Len(Popped(o, b)) >= 1
      BY PoppedFacts, ManipulatorsTake
    <3>2. Popped(o, b) \in Stacks /\ Alike(Popped(o, b), Popped(o, b))
      BY PoppedFacts, AlikeIsEquivalence
    <3> QED
      BY <3>1, <3>2, TargetsAlike
  <2> HIDE DEF Jump, op
  <2> QED
    BY <2>1, <2>2, <2>3 DEF States
<1>3. ASSUME NEW b \in States, StatesAlike(a, b)
      PROVE  StatesAlike(Stack!After(o, a), Stack!After(o, b))
  <2>1. /\ Alike(a.stack, b.stack) /\ a.trapped = b.trapped /\ a.targets \subseteq b.targets
        /\ a.stack \in Stacks /\ b.stack \in Stacks
    BY <1>3 DEF StatesAlike, States
  <2>2. Popped(o, a) \in Stacks /\ Popped(o, b) \in Stacks /\ Alike(Popped(o, a), Popped(o, b))
    BY <2>1, PoppedFacts
  <2>3. Trapped(o, a) <=> Trapped(o, b)
    BY <2>2, ReadAlike DEF Trapped, Folds
  <2>4. CASE a.trapped \/ Trapped(o, a)
    <3>1. /\ Stack!After(o, a) = [a EXCEPT !.trapped = TRUE]
          /\ Stack!After(o, b) = [b EXCEPT !.trapped = TRUE]
      BY <1>1, <2>1, <2>3, <2>4
    <3> QED
      BY <2>1, <3>1 DEF StatesAlike, States
  <2>5. CASE ~(a.trapped \/ Trapped(o, a))
    <3>1. Stack!After(o, a) = Run(a) /\ Stack!After(o, b) = Run(b)
      BY <1>1, <2>1, <2>3, <2>5
    <3>2. Alike(Made(o, a), Made(o, b)) /\ Made(o, a) \in Stacks /\ Made(o, b) \in Stacks
      BY <2>1, <2>3, <2>5, PoppedFacts
    <3>3. Alike(Pushed(Rest(op, a.stack), Made(o, a)), Pushed(Rest(op, b.stack), Made(o, b)))
      BY <2>1, <3>2, RestAlike, PushedAlike
    <3>4. Jump(a) = Jump(b)
      <4>1. IsBranch(op) => Len(Popped(o, a)) >= 1
        BY PoppedFacts, ManipulatorsTake
      <4> QED
        BY <2>2, <4>1, TargetsAlike
    <3> HIDE DEF Jump, op
    <3> QED
      BY <3>1, <3>3, <3>4 DEF StatesAlike
  <2> QED
    BY <2>4, <2>5
<1>4. Stack!After(o, a) \in States /\ (Stack!After(o, a).trapped = FALSE => a.trapped = FALSE)
  <2>1. CASE a.trapped \/ Trapped(o, a)
    BY <1>1, <2>1 DEF States
  <2>2. CASE ~(a.trapped \/ Trapped(o, a))
    <3>1. Stack!After(o, a) = Run(a) /\ Run(a) \in States
      BY <1>1, <1>2, <2>2
    <3> QED
      BY <2>2, <3>1 DEF States
  <2> QED
    BY <2>1, <2>2
<1> QED
  BY <1>3, <1>4

\* An address without an instruction is passed over.
LEMMA PassedAlike ==
    ASSUME PushesHaveData, NEW o, NEW a \in States
    PROVE  /\ Stack!Passed(o, a) \in States
           /\ Stack!Passed(o, a).trapped = FALSE => a.trapped = FALSE
           /\ \A b \in States : StatesAlike(a, b)
                 => StatesAlike(Stack!Passed(o, a), Stack!Passed(o, b))
<1>1. CASE o \in DOMAIN instructions
  <2>1. \A b : Stack!Passed(o, b) = Stack!After(o, b)
    BY <1>1 DEF Stack!Passed
  <2> QED
    BY <1>1, <2>1, AfterAlike
<1>2. CASE o \notin DOMAIN instructions
  BY <1>2 DEF Stack!Passed
<1> QED
  BY <1>1, <1>2

\* The run of a node goes from address to address.
IsRun(f, k, a) ==
    LET n == nodes[k].end - nodes[k].start
    IN  /\ f \in [0 .. n -> States]
        /\ f[0] = a
        /\ \A i \in 0 .. (n - 1) : f[i + 1] = Stack!Passed(nodes[k].start + i, f[i])

LEMMA RunSteps ==
    ASSUME PushesHaveData, NEW k, nodes[k].start \in Nat, nodes[k].end \in Nat,
           nodes[k].start <= nodes[k].end, NEW a \in States
    PROVE  \E f : IsRun(f, k, a) /\ Stack!Run(k, a) = f[nodes[k].end - nodes[k].start]
<1>1. PICK m \in Nat, n \in Nat : m = nodes[k].start /\ n = nodes[k].end - nodes[k].start
  OBVIOUS
<1> DEFINE IsAfter(w) == w = [i \in 0 .. n |-> IF i = 0 THEN a
                                               ELSE Stack!Passed(m + i - 1, w[i - 1])]
           after == CHOOSE w : IsAfter(w)
           step == [x \in Nat \X States |-> Stack!Passed(m + x[1] - 1, x[2])]
<1>2. Stack!Run(k, a) = after[n]
  BY <1>1 DEF Stack!Run, Stack!RunUpTo
<1>3. step \in [Nat \X States -> States]
  BY PassedAlike
<1>4. \A i \in Nat, b \in States : step[<<i, b>>] = Stack!Passed(m + i - 1, b)
  OBVIOUS
<1> HIDE DEF step
<1>5. PICK f : IsRecursion(f, 0 .. n, States, a, step)
  BY <1>1, <1>3, RunsOfRecursion
<1>6. /\ f \in [0 .. n -> States]
      /\ \A i \in 0 .. n : f[i] = IF i = 0 THEN a ELSE step[<<i, f[i - 1]>>]
  BY <1>5 DEF IsRecursion
<1>7. \A i \in 0 .. n : f[i] = IF i = 0 THEN a ELSE Stack!Passed(m + i - 1, f[i - 1])
  <2> TAKE i \in 0 .. n
  <2>1. i # 0 => i - 1 \in 0 .. n /\ i \in Nat
    BY <1>1
  <2>2. i # 0 => step[<<i, f[i - 1]>>] = Stack!Passed(m + i - 1, f[i - 1])
    BY <1>4, <1>6, <2>1
  <2> QED
    BY <1>6, <2>2
<1>8. IsAfter(f)
  BY <1>6, <1>7
<1>9. IsAfter(after)
  BY <1>8
<1>10. after = f
  <2>1. \A i \in 0 .. n : after[i] = f[i]
    <3> DEFINE Q == {i \in 0 .. n : after[i] = f[i]}
    <3>1. \A i \in 0 .. n : after[i] = IF i = 0 THEN a ELSE Stack!Passed(m + i - 1, after[i - 1])
      BY <1>9
    <3> HIDE DEF after
    <3>2. 0 \in Q
      BY <1>1, <1>7, <3>1
    <3>3. \A i \in 0 .. (n - 1) : i \in Q => i + 1 \in Q
      <4> TAKE i \in 0 .. (n - 1)
      <4>1. i + 1 \in 0 .. n /\ i + 1 # 0 /\ i + 1 - 1 = i
        BY <1>1
      <4>2. /\ after[i + 1] = Stack!Passed(m + (i + 1) - 1, after[i])
            /\ f[i + 1] = Stack!Passed(m + (i + 1) - 1, f[i])
        BY <1>7, <3>1, <4>1
      <4> QED
        BY <4>1, <4>2
    <3>4. \A i \in 0 .. n : i \in Q
      <4> HIDE DEF Q
      <4> QED
        BY <1>1, <3>2, <3>3, Upwards
    <3> QED
      BY <3>4
  <2>2. after = [i \in 0 .. n |-> after[i]] /\ f = [i \in 0 .. n |-> f[i]]
    BY <1>6, <1>9
  <2> HIDE DEF after
  <2> QED
    BY <2>1, <2>2
<1>11. IsRun(f, k, a)
  <2>1. 0 \in 0 .. n /\ f[0] = a
    BY <1>1, <1>7
  <2>2. ASSUME NEW i \in 0 .. (n - 1) PROVE f[i + 1] = Stack!Passed(m + i, f[i])
    <3>1. i + 1 \in 0 .. n /\ i + 1 # 0 /\ i + 1 - 1 = i /\ m + (i + 1) - 1 = m + i
      BY <1>1
    <3> QED
      BY <1>7, <3>1
  <2> QED
    BY <1>1, <1>6, <2>1, <2>2 DEF IsRun
<1> QED
  BY <1>1, <1>2, <1>10, <1>11

\* So does what the node makes of alike states.
LEMMA RunAlike ==
    ASSUME PushesHaveData, NEW k, nodes[k].start \in Nat, nodes[k].end \in Nat,
           nodes[k].start <= nodes[k].end, NEW a \in States
    PROVE  /\ Stack!Run(k, a) \in States
           /\ Stack!Run(k, a).trapped = FALSE => a.trapped = FALSE
           /\ \A b \in States : StatesAlike(a, b) => StatesAlike(Stack!Run(k, a), Stack!Run(k, b))
<1>1. PICK m \in Nat, n \in Nat : m = nodes[k].start /\ n = nodes[k].end - nodes[k].start
  OBVIOUS
<1>2. PICK f : IsRun(f, k, a) /\ Stack!Run(k, a) = f[nodes[k].end - nodes[k].start]
  BY RunSteps
<1>3. /\ f \in [0 .. n -> States] /\ f[0] = a /\ Stack!Run(k, a) = f[n]
      /\ \A i \in 0 .. (n - 1) : f[i + 1] = Stack!Passed(m + i, f[i])
  BY <1>1, <1>2 DEF IsRun
<1>4. n \in 0 .. n /\ \A i \in 0 .. (n - 1) : i \in 0 .. n /\ i + 1 \in 0 .. n
  BY <1>1
<1>5. f[n] \in States /\ (f[n].trapped = FALSE => a.trapped = FALSE)
  <2> DEFINE Q == {i \in 0 .. n : f[i].trapped = FALSE => a.trapped = FALSE}
  <2>1. 0 \in Q
    BY <1>1, <1>3
  <2>2. \A i \in 0 .. (n - 1) : i \in Q => i + 1 \in Q
    BY <1>3, <1>4, PassedAlike
  <2>3. \A i \in 0 .. n : i \in Q
    <3> HIDE DEF Q
    <3> QED
      BY <1>1, <2>1, <2>2, Upwards
  <2> QED
    BY <1>3, <1>4, <2>3
<1>6. ASSUME NEW b \in States, StatesAlike(a, b)
      PROVE  StatesAlike(Stack!Run(k, a), Stack!Run(k, b))
  <2>1. PICK g : IsRun(g, k, b) /\ Stack!Run(k, b) = g[nodes[k].end - nodes[k].start]
    BY RunSteps
  <2>2. /\ g \in [0 .. n -> States] /\ g[0] = b /\ Stack!Run(k, b) = g[n]
        /\ \A i \in 0 .. (n - 1) : g[i + 1] = Stack!Passed(m + i, g[i])
    BY <1>1, <2>1 DEF IsRun
  <2> DEFINE Q == {i \in 0 .. n : StatesAlike(f[i], g[i])}
  <2>3. 0 \in Q
    BY <1>1, <1>3, <1>6, <2>2
  <2>4. \A i \in 0 .. (n - 1) : i \in Q => i + 1 \in Q
    <3> TAKE i \in 0 .. (n - 1)
    <3>1. f[i] \in States /\ g[i] \in States /\ i + 1 \in 0 .. n
      BY <1>3, <1>4, <2>2
    <3> QED
      BY <1>3, <2>2, <3>1, PassedAlike
  <2>5. \A i \in 0 .. n : i \in Q
    <3> HIDE DEF Q
    <3> QED
      BY <1>1, <2>3, <2>4, Upwards
  <2> QED
    BY <1>3, <1>4, <2>2, <2>5
<1> QED
  BY <1>3, <1>5, <1>6

\* The state the node is run on next: the numbers go on.
Entering(a, s) == [a EXCEPT !.stack = s]

LEMMA EnteringFacts ==
    ASSUME NEW a \in States, NEW s \in Stacks
    PROVE  Entering(a, s) \in States /\ Entering(a, s).trapped = a.trapped
  BY DEF Entering, States

\* A state a node is run on alone.
LEMMA EntryStateIs ==
    ASSUME NEW s \in Stacks
    PROVE  /\ EntryState(s) \in States
           /\ \A a \in States : a.trapped = FALSE
                 => StatesAlike(EntryState(s), Entering(a, s))
<1>1. EntryState(s) \in States
  BY DEF EntryState, States
<1>2. ASSUME NEW a \in States, a.trapped = FALSE
      PROVE  StatesAlike(EntryState(s), Entering(a, s))
  BY <1>2, AlikeIsEquivalence DEF EntryState, States, StatesAlike, Entering
<1> QED
  BY <1>1, <1>2

\* The sequences a set can be put in order by.
LEMMA InOrderFacts ==
    ASSUME NEW S, IsFiniteSet(S), NEW q \in Stack!InOrder(S)
    PROVE  /\ Len(q) \in Nat /\ q \in [1 .. Len(q) -> S]
           /\ \A s \in S : \E i \in 1 .. Len(q) : q[i] = s
<1>1. PICK n \in Nat : n = Stack!Cardinality(S)
  BY SameInStack, FS_CardinalityType
<1>2. q \in [1 .. n -> S] /\ \A s \in S : \E i \in DOMAIN q : q[i] = s
  BY <1>1 DEF Stack!InOrder
<1>3. q \in Seq(S)
  BY <1>2
<1>4. Len(q) \in Nat /\ DOMAIN q = 1 .. Len(q) /\ DOMAIN q = 1 .. n
  BY <1>2, <1>3, LenProperties
<1> QED
  BY <1>2, <1>4

\* The runs of a node, one after the other.
LEMMA RunsFollow ==
    ASSUME PushesHaveData, NEW k, nodes[k].start \in Nat, nodes[k].end \in Nat,
           nodes[k].start <= nodes[k].end, solveIdx \in Nat,
           NEW n \in Nat, NEW stacks \in [1 .. n -> Stacks], Len(stacks) = n
    PROVE  /\ Stack!RunAll(k, stacks) \in [0 .. n -> States]
           /\ \A i \in 1 .. n : Stack!RunAll(k, stacks)[i]
                 = Stack!Run(k, Entering(Stack!RunAll(k, stacks)[i - 1], stacks[i]))
<1> DEFINE first == [stack |-> <<>>, argumentIdx |-> 0, globalIdx |-> solveIdx,
                     targets |-> {}, trapped |-> FALSE]
           IsRuns(w) == w = [i \in 0 .. n |-> IF i = 0 THEN first
                                ELSE Stack!Run(k, Entering(w[i - 1], stacks[i]))]
           runs == CHOOSE w : IsRuns(w)
           At(i, a) == IF i \in 1 .. n THEN Entering(a, stacks[i]) ELSE a
           step == [x \in Nat \X States |-> Stack!Run(k, At(x[1], x[2]))]
<1>1. Stack!RunAll(k, stacks) = runs
  BY DEF Stack!RunAll, Entering
<1>2. first \in States
  BY EmptySeq DEF States, Stacks
<1>3. step \in [Nat \X States -> States]
  <2>1. ASSUME NEW i \in Nat, NEW a \in States PROVE Stack!Run(k, At(i, a)) \in States
    <3>1. At(i, a) \in States
      BY EnteringFacts
    <3> HIDE DEF At
    <3> QED
      BY <3>1, RunAlike
  <2> HIDE DEF At
  <2> QED
    BY <2>1
<1>4. \A i \in Nat, a \in States : step[<<i, a>>] = Stack!Run(k, At(i, a))
  OBVIOUS
<1> HIDE DEF step, first
<1>5. PICK f : IsRecursion(f, 0 .. n, States, first, step)
  BY <1>2, <1>3, RunsOfRecursion
<1>6. /\ f \in [0 .. n -> States]
      /\ \A i \in 0 .. n : f[i] = IF i = 0 THEN first ELSE step[<<i, f[i - 1]>>]
  BY <1>5 DEF IsRecursion
<1>7. \A i \in 0 .. n : f[i] = IF i = 0 THEN first
                               ELSE Stack!Run(k, Entering(f[i - 1], stacks[i]))
  <2> TAKE i \in 0 .. n
  <2>1. i # 0 => i - 1 \in 0 .. n /\ i \in Nat /\ i \in 1 .. n
    OBVIOUS
  <2>2. i # 0 => step[<<i, f[i - 1]>>] = Stack!Run(k, At(i, f[i - 1]))
    BY <1>4, <1>6, <2>1
  <2> QED
    BY <1>6, <2>1, <2>2
<1>8. IsRuns(f)
  BY <1>6, <1>7
<1>9. IsRuns(runs)
  BY <1>8
<1>10. /\ runs = [i \in 0 .. n |-> runs[i]]
       /\ \A i \in 0 .. n : runs[i] = IF i = 0 THEN first
                                      ELSE Stack!Run(k, Entering(runs[i - 1], stacks[i]))
  BY <1>9
<1> HIDE DEF runs, IsRuns
<1>11. runs[0] = first /\ \A i \in 1 .. n : runs[i] = Stack!Run(k, Entering(runs[i - 1], stacks[i]))
  <2>1. 0 \in 0 .. n /\ \A i \in 1 .. n : i \in 0 .. n /\ i # 0
    OBVIOUS
  <2> QED
    BY <1>10, <2>1
<1>12. \A i \in 0 .. n : runs[i] \in States
  <2> DEFINE Q == {i \in 0 .. n : runs[i] \in States}
  <2>1. 0 \in Q
    BY <1>2, <1>11
  <2>2. ASSUME NEW i \in 0 .. (n - 1), i \in Q PROVE i + 1 \in Q
    <3>1. i + 1 \in 0 .. n /\ i + 1 # 0 /\ i + 1 - 1 = i /\ i + 1 \in 1 .. n
      OBVIOUS
    <3>2. runs[i + 1] = Stack!Run(k, Entering(runs[i], stacks[i + 1]))
      BY <1>11, <3>1
    <3>3. Entering(runs[i], stacks[i + 1]) \in States
      BY <2>2, <3>1, EnteringFacts
    <3>4. runs[i + 1] \in States
      BY <3>2, <3>3, RunAlike
    <3> QED
      BY <3>1, <3>4
  <2>3. \A i \in 0 .. n : i \in Q
    <3> HIDE DEF Q
    <3> QED
      BY <2>1, <2>2, Upwards
  <2> QED
    BY <2>3
<1>13. runs \in [0 .. n -> States]
  BY <1>10, <1>12
<1> QED
  BY <1>1, <1>13, <1>11

\* Unless one of them kills the program they do what they do alone.
LEMMA RunsAlone ==
    ASSUME PushesHaveData, NEW k, nodes[k].start \in Nat, nodes[k].end \in Nat,
           nodes[k].start <= nodes[k].end, solveIdx \in Nat,
           NEW n \in Nat, NEW stacks \in [1 .. n -> Stacks], Len(stacks) = n,
           ~Stack!RunAll(k, stacks)[n].trapped
    PROVE  \A i \in 1 .. n : /\ StatesAlike(RunOf(k, stacks[i]), Stack!RunAll(k, stacks)[i])
                             /\ RunOf(k, stacks[i]) \in States
                             /\ RunOf(k, stacks[i]).trapped = FALSE
<1>1. PICK runs \in [0 .. n -> States] :
         /\ runs = Stack!RunAll(k, stacks)
         /\ \A i \in 1 .. n : runs[i] = Stack!Run(k, Entering(runs[i - 1], stacks[i]))
  <2>1. PICK runs : runs = Stack!RunAll(k, stacks)
    OBVIOUS
  <2>2. /\ runs \in [0 .. n -> States]
        /\ \A i \in 1 .. n : runs[i] = Stack!Run(k, Entering(runs[i - 1], stacks[i]))
    BY <2>1, RunsFollow
  <2> QED
    BY <2>1, <2>2
<1>2. \A i \in 1 .. n : /\ i \in 0 .. n /\ i - 1 \in 0 .. n
                        /\ runs[i - 1] \in States /\ stacks[i] \in Stacks
                        /\ Entering(runs[i - 1], stacks[i]) \in States
                        /\ Entering(runs[i - 1], stacks[i]).trapped = runs[i - 1].trapped
  <2> TAKE i \in 1 .. n
  <2>1. i \in 0 .. n /\ i - 1 \in 0 .. n
    OBVIOUS
  <2> QED
    BY <2>1, EnteringFacts
<1>3. \A i \in 1 .. n : runs[i].trapped = FALSE => runs[i - 1].trapped = FALSE
  <2> TAKE i \in 1 .. n
  <2>1. PICK a \in States : a = Entering(runs[i - 1], stacks[i]) /\ a.trapped = runs[i - 1].trapped
    BY <1>2
  <2>2. runs[i] = Stack!Run(k, a)
    BY <1>1, <2>1
  <2> QED
    BY <2>1, <2>2, RunAlike
<1>4. \A i \in 0 .. n : runs[i].trapped = FALSE
  <2> DEFINE Q == {j \in 0 .. n : runs[n - j].trapped = FALSE}
  <2>1. 0 \in Q
    <3>1. n \in 0 .. n /\ n - 0 = n /\ runs[n].trapped \in BOOLEAN
      BY DEF States
    <3> QED
      BY <1>1, <3>1
  <2>2. ASSUME NEW j \in 0 .. (n - 1), j \in Q PROVE j + 1 \in Q
    <3>1. n - j \in 1 .. n /\ n - j - 1 = n - (j + 1) /\ j + 1 \in 0 .. n
      OBVIOUS
    <3> QED
      BY <1>3, <2>2, <3>1
  <2>3. \A j \in 0 .. n : j \in Q
    <3> HIDE DEF Q
    <3> QED
      BY <2>1, <2>2, Upwards
  <2>4. \A i \in 0 .. n : n - i \in 0 .. n /\ n - (n - i) = i
    OBVIOUS
  <2> QED
    BY <2>3, <2>4
<1>5. ASSUME NEW i \in 1 .. n
      PROVE  /\ StatesAlike(RunOf(k, stacks[i]), runs[i])
             /\ RunOf(k, stacks[i]) \in States /\ RunOf(k, stacks[i]).trapped = FALSE
  <2>1. PICK a \in States : a = Entering(runs[i - 1], stacks[i])
    BY <1>2
  <2>2. EntryState(stacks[i]) \in States /\ StatesAlike(EntryState(stacks[i]), a)
    BY <1>2, <1>4, <2>1, EntryStateIs
  <2>3. runs[i] = Stack!Run(k, a)
    BY <1>1, <2>1
  <2>4. StatesAlike(Stack!Run(k, EntryState(stacks[i])), runs[i])
    BY <2>2, <2>3, RunAlike
  <2>5. Stack!Run(k, EntryState(stacks[i])) \in States
    BY <2>2, RunAlike
  <2> QED
    BY <1>2, <1>4, <2>4, <2>5 DEF RunOf, StatesAlike
<1> QED
  BY <1>1, <1>5

\* Alike stacks end alike.
LEMMA RunOfAlike ==
    ASSUME PushesHaveData, NEW k, nodes[k].start \in Nat, nodes[k].end \in Nat,
           nodes[k].start <= nodes[k].end, NEW s \in Stacks, NEW t \in Stacks, Alike(s, t)
    PROVE  /\ RunOf(k, s) \in States
           /\ StatesAlike(RunOf(k, s), RunOf(k, t))
<1>1. /\ EntryState(s) \in States /\ EntryState(t) \in States
      /\ StatesAlike(EntryState(s), EntryState(t))
  BY EntryStateIs DEF StatesAlike, EntryState
<1> QED
  BY <1>1, RunAlike DEF RunOf

-----------------------------------------------------------------------------
(***************************************************************************)
(* solveStack finds the data of the PUSHes where fillInstructions has left *)
(* it.                                                                     *)
(***************************************************************************)

\* An instruction that has been decoded, whatever the stack it finds.
LEMMA SimulatePushes ==
    ASSUME Decoded, PushesHaveData, Fill!Decodes, NEW entry, NEW args,
           Fill!Simulate(code[pos], entry, args)
    PROVE  PushesHaveData'
<1> DEFINE op       == code[pos]
           operands == Fill!Operands(op, entry, args)
           fresh    == Fill!FreshOutputs(op, Fill!Data, globalIdx)
           outputs  == Fill!Simplified(op, operands, fresh)
<1>1. /\ Cardinality(DOMAIN code) \in Nat /\ pos \in Nat
      /\ DOMAIN code = 0 .. (Cardinality(DOMAIN code) - 1)
      /\ \A i \in DOMAIN code : code[i] \in Byte
      /\ Fill!Length(op) = Length(op) /\ Length(op) \in Nat
  BY ByteStringFacts, SameInFill, LengthType DEF Decoded
<1>2. pos + Length(op) < Cardinality(DOMAIN code) /\ pos < Cardinality(DOMAIN code)
  BY <1>1 DEF Fill!Decodes, Fill!Size, Fill!Cardinality, Cardinality
<1>3. instructions' = Fill!Store(instructions, pos,
                         [op |-> op, operands |-> operands, outputs |-> outputs])
  BY DEF Fill!Simulate
<1>4. ASSUME IsPush(op) PROVE outputs[1].value \in Seq(Byte) \ {<<>>}
  <2>1. op \in 96 .. 127
    BY <1>4 DEF IsPush, OP_PUSH1, OP_PUSH32
  <2>2. ~Fill!IsDup(op) /\ ~Fill!IsSwap(op) /\ ~Fill!Folds(op, operands)
    BY <2>1 DEF Fill!IsDup, Fill!IsSwap, Fill!Folds, Fill!IsArithmetic, Fill!OP_DUP1,
                Fill!OP_DUP16, Fill!OP_SWAP1, Fill!OP_SWAP16, Fill!OP_BYTE
  <2>3. outputs = fresh
    BY <2>2 DEF Fill!Simplified
  <2>4. Fill!IsPush(op) /\ Fill!StackAdded(op) = 1
    BY <2>1, <2>2 DEF Fill!StackAdded, Fill!IsPush, Fill!OP_PUSH1, Fill!OP_PUSH32
  <2>5. fresh[1] = Fill!Constant(globalIdx + 1 - 1, Fill!Data)
    BY <2>4 DEF Fill!FreshOutputs
  <2>6. outputs[1].value = Fill!Data
    BY <2>3, <2>5 DEF Fill!Constant
  <2>7. Length(op) >= 1
    BY <1>4, <2>1 DEF Length, OP_PUSH1
  <2>8. Fill!Data = [i \in 1 .. Length(op) |-> code[pos + i]]
    BY <1>1 DEF Fill!Data
  <2>9. \A i \in 1 .. Length(op) : code[pos + i] \in Byte
    <3> HIDE DEF op
    <3>1. \A i \in 1 .. Length(op) : pos + i \in DOMAIN code
      BY <1>1, <1>2
    <3> QED
      BY <1>1, <3>1
  <2>10. PICK n \in Nat : n = Length(op) /\ n >= 1
    BY <1>1, <2>7
  <2>11. Fill!Data \in [1 .. n -> Byte]
    BY <2>8, <2>9, <2>10
  <2>12. Fill!Data \in Seq(Byte) /\ Fill!Data # <<>>
    <3>1. 1 \in DOMAIN Fill!Data
      BY <2>10, <2>11
    <3> QED
      BY <2>11, <3>1
  <2> QED
    BY <2>6, <2>12
<1> HIDE DEF op, operands, outputs
<1>5. DOMAIN instructions' = DOMAIN instructions \cup {pos}
  BY <1>3 DEF Fill!Store
<1>6. ASSUME NEW o \in DOMAIN instructions', IsPush(instructions'[o].op)
      PROVE  instructions'[o].outputs[1].value \in Seq(Byte) \ {<<>>}
  <2>1. CASE o = pos
    <3>1. instructions'[o] = [op |-> op, operands |-> operands, outputs |-> outputs]
      BY <1>3, <2>1 DEF Fill!Store
    <3> QED
      BY <1>4, <1>6, <3>1
  <2>2. CASE o # pos
    <3>1. o \in DOMAIN instructions /\ instructions'[o] = instructions[o]
      BY <1>3, <1>5, <2>2 DEF Fill!Store
    <3> QED
      BY <1>6, <3>1 DEF PushesHaveData
  <2> QED
    BY <2>1, <2>2
<1> QED
  BY <1>6 DEF PushesHaveData

LEMMA PushesStay ==
    ASSUME PushesHaveData, instructions' = instructions
    PROVE  PushesHaveData'
  BY DEF PushesHaveData

-----------------------------------------------------------------------------
(***************************************************************************)
(* The labels of the nodes.                                                *)
(***************************************************************************)
LabelsApart == \A k, m : IsFiled(k) /\ IsFiled(m) /\ nodes[k].idx = nodes[m].idx => k = m

\* The node at 0 is labelled 0 unless it is a jump target.
EntryFlagged ==
    IsFiled(0) => /\ nodes[0].idx = 0 <=> ~nodes[0].isJumpDest
                  /\ nodes[0].end = 0 => ~nodes[0].isJumpDest

LEMMA LabelsStay ==
    ASSUME LabelsApart, EntryFlagged, FiledStay
    PROVE  LabelsApart' /\ EntryFlagged'
  BY DEF LabelsApart, EntryFlagged, FiledStay

-----------------------------------------------------------------------------
(***************************************************************************)
(* The stack a walk builds up, node by node.                               *)
(***************************************************************************)

LEMMA FiledRuns ==
    ASSUME PushesHaveData, Cut, NEW k, IsFiled(k), NEW s \in Stacks
    PROVE  RunOf(k, s) \in States /\ RunOf(k, s).stack \in Stacks
<1>1. nodes[k].start \in Nat /\ nodes[k].end \in Nat /\ nodes[k].start <= nodes[k].end
  BY DEF Cut, FiledByStart
<1>2. RunOf(k, s) \in States
  BY <1>1, AlikeIsEquivalence, RunOfAlike
<1> QED
  BY <1>2 DEF States

IsAlong(f, w, n) ==
    /\ f \in [0 .. n -> Stacks]
    /\ f[0] = <<>>
    /\ \A i \in 1 .. n : f[i] = RunOf(w[i], f[i - 1]).stack

LEMMA AlongIs ==
    ASSUME PushesHaveData, Cut, NEW n \in Nat, NEW w, Len(w) = n + 1,
           \A i \in 1 .. n : IsFiled(w[i])
    PROVE  \E f : IsAlong(f, w, n) /\ StackAlong(w) = f[n]
<1> DEFINE IsAfter(f) == f = [i \in 0 .. n |-> IF i = 0 THEN <<>>
                                ELSE RunOf(w[i], f[i - 1]).stack]
           after == CHOOSE f : IsAfter(f)
           step == [x \in Nat \X Stacks |-> IF x[1] \in 1 .. n THEN RunOf(w[x[1]], x[2]).stack
                                            ELSE x[2]]
<1>1. Len(w) - 1 = n
  OBVIOUS
<1>2. StackAlong(w) = after[n]
  BY <1>1 DEF StackAlong
<1>3. <<>> \in Stacks
  BY EmptySeq DEF Stacks
<1>4. step \in [Nat \X Stacks -> Stacks]
  <2>1. \A i \in 1 .. n, s \in Stacks : RunOf(w[i], s).stack \in Stacks
    BY FiledRuns
  <2> QED
    BY <2>1
<1>5. \A i \in 1 .. n, s \in Stacks : step[<<i, s>>] = RunOf(w[i], s).stack
  OBVIOUS
<1> HIDE DEF step
<1>6. PICK f : IsRecursion(f, 0 .. n, Stacks, <<>>, step)
  BY <1>3, <1>4, RunsOfRecursion
<1>7. /\ f \in [0 .. n -> Stacks]
      /\ \A i \in 0 .. n : f[i] = IF i = 0 THEN <<>> ELSE step[<<i, f[i - 1]>>]
  BY <1>6 DEF IsRecursion
<1>8. \A i \in 0 .. n : f[i] = IF i = 0 THEN <<>> ELSE RunOf(w[i], f[i - 1]).stack
  <2> TAKE i \in 0 .. n
  <2>1. i # 0 => i - 1 \in 0 .. n /\ i \in 1 .. n
    OBVIOUS
  <2> QED
    BY <1>5, <1>7, <2>1
<1>9. IsAfter(f)
  <2>1. f = [i \in 0 .. n |-> f[i]]
    BY <1>7
  <2> QED
    BY <1>8, <2>1, Zenon
<1>10. IsAfter(after)
  BY <1>9, Zenon
<1>11. /\ after = [i \in 0 .. n |-> after[i]]
       /\ \A i \in 0 .. n : after[i] = IF i = 0 THEN <<>> ELSE RunOf(w[i], after[i - 1]).stack
  BY <1>10, Zenon
<1> HIDE DEF after, IsAfter
<1>12. after[0] = <<>> /\ \A i \in 1 .. n : after[i] = RunOf(w[i], after[i - 1]).stack
  <2>1. 0 \in 0 .. n /\ \A i \in 1 .. n : i \in 0 .. n /\ i # 0
    OBVIOUS
  <2> QED
    BY <1>11, <2>1
<1>13. \A i \in 0 .. n : after[i] \in Stacks
  <2> DEFINE Q == {i \in 0 .. n : after[i] \in Stacks}
  <2>1. 0 \in Q
    BY <1>3, <1>12
  <2>2. ASSUME NEW i \in 0 .. (n - 1), i \in Q PROVE i + 1 \in Q
    <3>1. i + 1 \in 0 .. n /\ i + 1 - 1 = i /\ i + 1 \in 1 .. n
      OBVIOUS
    <3>2. after[i + 1] = RunOf(w[i + 1], after[i]).stack
      BY <1>12, <3>1
    <3>3. after[i + 1] \in Stacks
      BY <2>2, <3>1, <3>2, FiledRuns
    <3> QED
      BY <3>1, <3>3
  <2>3. \A i \in 0 .. n : i \in Q
    <3> HIDE DEF Q
    <3> QED
      BY <2>1, <2>2, Upwards
  <2> QED
    BY <2>3
<1>14. after \in [0 .. n -> Stacks]
  BY <1>11, <1>13
<1>15. IsAlong(after, w, n)
  BY <1>12, <1>14 DEF IsAlong
<1> QED
  BY <1>2, <1>15

\* A walk of one node builds up nothing, one that goes on adds what its last node does.
LEMMA AlongStep ==
    ASSUME PushesHaveData, Cut, NEW n \in Nat, NEW w, Len(w) = n + 1, NEW v,
           \A i \in 1 .. n + 1 : IsFiled(w[i]), Len(v) = n + 2,
           \A i \in 1 .. n + 1 : v[i] = w[i]
    PROVE  StackAlong(w) \in Stacks /\ StackAlong(v) = RunOf(w[n + 1], StackAlong(w)).stack
<1>1. PICK f : IsAlong(f, w, n) /\ StackAlong(w) = f[n]
  <2>1. \A i \in 1 .. n : IsFiled(w[i])
    OBVIOUS
  <2> QED
    BY <2>1, AlongIs
<1>2. PICK g : IsAlong(g, v, n + 1) /\ StackAlong(v) = g[n + 1]
  <2>1. PICK m \in Nat : m = n + 1
    OBVIOUS
  <2>2. \A i \in 1 .. m : IsFiled(v[i])
    BY <2>1
  <2>3. Len(v) = m + 1
    BY <2>1
  <2> QED
    BY <2>1, <2>2, <2>3, AlongIs
<1>3. \A i \in 0 .. n : g[i] = f[i]
  <2> DEFINE Q == {i \in 0 .. n : g[i] = f[i]}
  <2>1. 0 \in Q
    BY <1>1, <1>2 DEF IsAlong
  <2>2. ASSUME NEW i \in 0 .. (n - 1), i \in Q PROVE i + 1 \in Q
    <3>1. /\ i + 1 \in 0 .. n /\ i + 1 - 1 = i /\ i + 1 \in 1 .. n /\ i + 1 \in 1 .. n + 1
      OBVIOUS
    <3>2. f[i + 1] = RunOf(w[i + 1], f[i]).stack
      BY <1>1, <3>1 DEF IsAlong
    <3>3. g[i + 1] = RunOf(v[i + 1], g[i]).stack
      BY <1>2, <3>1 DEF IsAlong
    <3> QED
      BY <2>2, <3>1, <3>2, <3>3
  <2>3. \A i \in 0 .. n : i \in Q
    <3> HIDE DEF Q
    <3> QED
      BY <2>1, <2>2, Upwards
  <2> QED
    BY <2>3
<1>4. n \in 0 .. n /\ n + 1 \in 1 .. n + 1 /\ n + 1 - 1 = n
  OBVIOUS
<1>5. g[n + 1] = RunOf(v[n + 1], g[n]).stack
  BY <1>2, <1>4 DEF IsAlong
<1> QED
  BY <1>1, <1>2, <1>3, <1>4, <1>5 DEF IsAlong

LEMMA AlongOne ==
    ASSUME PushesHaveData, Cut, NEW w, Len(w) = 1
    PROVE  StackAlong(w) = <<>>
<1>1. PICK n \in Nat : n = 0
  OBVIOUS
<1>2. Len(w) = n + 1 /\ \A i \in 1 .. n : IsFiled(w[i])
  BY <1>1
<1>3. PICK f : IsAlong(f, w, n) /\ StackAlong(w) = f[n]
  BY <1>2, AlongIs
<1> QED
  BY <1>1, <1>3 DEF IsAlong

-----------------------------------------------------------------------------
(***************************************************************************)
(* The execution paths that go with a stack.                               *)
(***************************************************************************)
Marks == {nodes[m].idx : m \in {j \in DOMAIN nodes : IsFiled(j)}}

Leading(w) == w[1] = 0 /\ \A j \in 1 .. (Len(w) - 1) : <<w[j], w[j + 1]>> \in next

\* Node k can be entered along them with a stack like s,
EntryPaths(k, s) ==
    {q \in Seq(Marks) :
        /\ Leading(Walk(q, k))
        /\ StackAlong(Walk(q, k)) \in Stacks
        /\ Alike(StackAlong(Walk(q, k)), s)}

\* or left.
ExitPaths(k, s) ==
    {q \in Seq(Marks) :
        /\ Leading(Walk(q, k))
        /\ StackAlong(Walk(q, k)) \in Stacks
        /\ Alike(RunOf(k, StackAlong(Walk(q, k))).stack, s)}

LEMMA LabelledIs ==
    ASSUME LabelsApart
    PROVE  /\ \A i \in Marks : IsFiled(NodeLabelled(i))
           /\ \A p : IsFiled(p) => nodes[p].idx \in Marks /\ NodeLabelled(nodes[p].idx) = p
<1>1. ASSUME NEW m, IsFiled(m)
      PROVE  /\ IsFiled(NodeLabelled(nodes[m].idx))
             /\ nodes[NodeLabelled(nodes[m].idx)].idx = nodes[m].idx
  BY <1>1 DEF NodeLabelled, IsFiled
<1>2. \A i \in Marks : \E m : IsFiled(m) /\ i = nodes[m].idx
  BY DEF Marks
<1>3. \A i \in Marks : IsFiled(NodeLabelled(i))
  BY <1>1, <1>2
<1>4. \A p : IsFiled(p) => nodes[p].idx \in Marks
  BY DEF Marks, IsFiled
<1>5. \A p : IsFiled(p) => NodeLabelled(nodes[p].idx) = p
  BY <1>1 DEF LabelsApart
<1> QED
  BY <1>3, <1>4, <1>5

LEMMA WalkFacts ==
    ASSUME LabelsApart, NEW k, IsFiled(k), NEW q \in Seq(Marks)
    PROVE  /\ Len(q) \in Nat
           /\ Len(Walk(q, k)) = Len(q) + 1
           /\ \A i \in 1 .. Len(q) : Walk(q, k)[i] = NodeLabelled(q[i])
           /\ Walk(q, k)[Len(q) + 1] = k
           /\ \A i \in 1 .. Len(q) + 1 : IsFiled(Walk(q, k)[i])
<1>1. PICK n \in Nat : n = Len(q) /\ \A i \in 1 .. n : q[i] \in Marks
  BY LenProperties, ElementOfSeq
<1> DEFINE front == [i \in 1 .. n |-> NodeLabelled(q[i])]
           Filed == {j \in DOMAIN nodes : IsFiled(j)}
<1>2. front \in [1 .. n -> Filed] /\ k \in Filed
  BY <1>1, LabelledIs DEF IsFiled
<1>3. front \in Seq(Filed) /\ Len(front) = n
  <2> HIDE DEF front, Filed
  <2> QED
    BY <1>2, LengthOfRow
<1>4. Walk(q, k) = Append(front, k)
  BY <1>1 DEF Walk
<1>5. /\ Len(Append(front, k)) = n + 1
      /\ \A i \in 1 .. n : Append(front, k)[i] = front[i]
      /\ Append(front, k)[n + 1] = k
  <2> HIDE DEF front, Filed
  <2> QED
    BY <1>2, <1>3, AppendProperties
<1>6. \A i \in 1 .. n : Walk(q, k)[i] = NodeLabelled(q[i])
  BY <1>4, <1>5
<1>7. \A i \in 1 .. n + 1 : IsFiled(Walk(q, k)[i])
  <2> TAKE i \in 1 .. n + 1
  <2>1. CASE i = n + 1
    BY <1>4, <1>5, <2>1
  <2>2. CASE i # n + 1
    <3>1. i \in 1 .. n
      BY <2>2
    <3> QED
      BY <1>1, <1>6, <3>1, LabelledIs
  <2> QED
    BY <2>1, <2>2
<1> QED
  BY <1>1, <1>4, <1>5, <1>6, <1>7

\* The entry is entered along no node, with the empty stack.
LEMMA StartPath ==
    ASSUME PushesHaveData, Cut, LabelsApart, IsFiled(0)
    PROVE  <<>> \in EntryPaths(0, <<>>)
<1>1. PICK q : q = <<>>
  OBVIOUS
<1>2. q \in Seq(Marks) /\ Len(q) = 0 /\ <<>> \in Stacks
  BY <1>1, EmptySeq DEF Stacks
<1>3. Len(Walk(q, 0)) = 1 /\ Walk(q, 0)[1] = 0
  <2>1. PICK k : k = 0
    OBVIOUS
  <2>2. Len(Walk(q, k)) = Len(q) + 1 /\ Walk(q, k)[Len(q) + 1] = k
    BY <1>2, <2>1, WalkFacts
  <2> QED
    BY <1>2, <2>1, <2>2
<1>4. StackAlong(Walk(q, 0)) = <<>>
  BY <1>3, AlongOne
<1>5. Leading(Walk(q, 0))
  BY <1>3 DEF Leading
<1> QED
  BY <1>1, <1>2, <1>4, <1>5, AlikeIsEquivalence DEF EntryPaths

\* What a node is left with another is entered with, the paths longer by the first.
LEMMA HandingOver ==
    ASSUME PushesHaveData, Cut, LabelsApart, NEW p, NEW k, IsFiled(p), IsFiled(k),
           <<p, k>> \in next, NEW s \in Stacks, NEW q \in ExitPaths(p, s)
    PROVE  Append(q, nodes[p].idx) \in EntryPaths(k, s)
<1> DEFINE r == Append(q, nodes[p].idx)
           w == Walk(q, p)
           v == Walk(r, k)
<1>1. /\ q \in Seq(Marks) /\ Leading(w) /\ StackAlong(w) \in Stacks
      /\ Alike(RunOf(p, StackAlong(w)).stack, s)
  BY DEF ExitPaths
<1>2. PICK n \in Nat : n = Len(q)
  BY <1>1, LenProperties
<1>3. nodes[p].idx \in Marks /\ NodeLabelled(nodes[p].idx) = p
  BY LabelledIs
<1>4. /\ r \in Seq(Marks) /\ Len(r) = n + 1 /\ r[n + 1] = nodes[p].idx
      /\ \A i \in 1 .. n : r[i] = q[i]
  BY <1>1, <1>2, <1>3, AppendProperties
<1> HIDE DEF r
<1>5. /\ Len(w) = n + 1 /\ w[n + 1] = p
      /\ \A i \in 1 .. n : w[i] = NodeLabelled(q[i])
      /\ \A i \in 1 .. n + 1 : IsFiled(w[i])
  BY <1>1, <1>2, WalkFacts
<1>6. /\ Len(v) = n + 1 + 1 /\ v[n + 1 + 1] = k
      /\ \A i \in 1 .. n + 1 : v[i] = NodeLabelled(r[i])
  BY <1>4, WalkFacts
<1> HIDE DEF w, v
<1>7. \A i \in 1 .. n + 1 : v[i] = w[i]
  <2> TAKE i \in 1 .. n + 1
  <2>1. CASE i = n + 1
    BY <1>3, <1>4, <1>5, <1>6, <2>1
  <2>2. CASE i # n + 1
    <3>1. i \in 1 .. n
      BY <2>2
    <3> QED
      BY <1>4, <1>5, <1>6, <3>1
  <2> QED
    BY <2>1, <2>2
<1>8. StackAlong(v) = RunOf(w[n + 1], StackAlong(w)).stack
  <2>1. Len(v) = n + 2
    BY <1>6
  <2> QED
    BY <1>5, <1>7, <2>1, AlongStep
<1>9. StackAlong(v) \in Stacks /\ Alike(StackAlong(v), s)
  BY <1>1, <1>5, <1>8, FiledRuns
<1>10. Leading(v)
  <2>1. v[1] = 0
    BY <1>1, <1>7 DEF Leading
  <2>2. ASSUME NEW j \in 1 .. (Len(v) - 1) PROVE <<v[j], v[j + 1]>> \in next
    <3>1. j \in 1 .. n + 1
      BY <1>6
    <3>2. CASE j = n + 1
      BY <1>5, <1>6, <1>7, <3>1, <3>2
    <3>3. CASE j # n + 1
      <4>1. j \in 1 .. (Len(w) - 1) /\ j + 1 \in 1 .. n + 1
        BY <1>5, <3>1, <3>3
      <4> QED
        BY <1>1, <1>7, <3>1, <4>1 DEF Leading
    <3> QED
      BY <3>2, <3>3
  <2> QED
    BY <2>1, <2>2 DEF Leading
<1> QED
  BY <1>4, <1>9, <1>10 DEF EntryPaths, v, r

\* A node is left along the paths it is entered along.
LEMMA RunningOn ==
    ASSUME PushesHaveData, Cut, NEW k, IsFiled(k), NEW s \in Stacks, NEW t \in Stacks,
           Alike(RunOf(k, s).stack, t)
    PROVE  EntryPaths(k, s) \subseteq ExitPaths(k, t)
<1> SUFFICES ASSUME NEW q \in EntryPaths(k, s) PROVE q \in ExitPaths(k, t)
  OBVIOUS
<1>1. PICK u : u = StackAlong(Walk(q, k))
  OBVIOUS
<1>2. u \in Stacks /\ Alike(u, s) /\ q \in Seq(Marks) /\ Leading(Walk(q, k))
  BY <1>1 DEF EntryPaths
<1>3. nodes[k].start \in Nat /\ nodes[k].end \in Nat /\ nodes[k].start <= nodes[k].end
  BY DEF Cut, FiledByStart
<1>4. StatesAlike(RunOf(k, u), RunOf(k, s))
  BY <1>2, <1>3, RunOfAlike
<1>5. Alike(RunOf(k, u).stack, t)
  BY <1>4, AlikeIsEquivalence DEF StatesAlike
<1> QED
  BY <1>1, <1>2, <1>5 DEF ExitPaths

\* Edges that are added leave the paths there are.
LEMMA PathsStay ==
    ASSUME nodes' = nodes, instructions' = instructions, next \subseteq next', NEW k, NEW s
    PROVE  EntryPaths(k, s) \subseteq EntryPaths(k, s)' /\ ExitPaths(k, s) \subseteq ExitPaths(k, s)'
<1>1. Marks' = Marks
  BY DEF Marks, IsFiled
<1>2. \A w : Leading(w) => Leading(w)'
  BY DEF Leading
<1>3. \A q : Walk(q, k)' = Walk(q, k)
  BY DEF Walk, NodeLabelled
<1>4. \A j, t : RunOf(j, t)' = RunOf(j, t)
  BY DEF RunOf, EntryState, Stack!Run, Stack!RunUpTo, Stack!Passed, Stack!After, Stack!CodeOf,
         Stack!OperandsAt, Stack!DataOf
<1>5. \A w : StackAlong(w)' = StackAlong(w)
  BY <1>4 DEF StackAlong
<1> QED
  BY <1>1, <1>2, <1>3, <1>4, <1>5 DEF EntryPaths, ExitPaths

-----------------------------------------------------------------------------
(***************************************************************************)
(* Finite maps from stacks to the paths that P says go with them.          *)
(***************************************************************************)
IsPathMap(m, P) ==
    /\ m = [s \in DOMAIN m |-> m[s]]
    /\ DOMAIN m \subseteq DOMAIN P /\ IsFiniteSet(DOMAIN m)
    /\ \A s \in DOMAIN m : m[s] \in Seq(P[s])

PathMaps(P) ==
    {m \in UNION {[D -> Seq(UNION {P[s] : s \in DOMAIN P})] : D \in SUBSET DOMAIN P} :
        IsPathMap(m, P)}

LEMMA PathMapsHold ==
    ASSUME NEW P, NEW m, IsPathMap(m, P)
    PROVE  m \in PathMaps(P)
<1> DEFINE X == UNION {P[s] : s \in DOMAIN P}
<1>1. \A s \in DOMAIN m : m[s] \in Seq(X)
  <2> TAKE s \in DOMAIN m
  <2>1. P[s] \subseteq X /\ m[s] \in Seq(P[s])
    BY DEF IsPathMap
  <2> HIDE DEF X
  <2> QED
    BY <2>1, SeqMonotonic
<1>2. m \in [DOMAIN m -> Seq(X)]
  BY <1>1 DEF IsPathMap
<1> QED
  BY <1>2 DEF PathMaps, IsPathMap

LEMMA PathsOfMap ==
    ASSUME NEW P, NEW m, IsPathMap(m, P), NEW s
    PROVE  Stack!PathsOf(m, s) \in Seq(P[s])
  BY EmptySeq DEF Stack!PathsOf, IsPathMap

LEMMA NoPaths ==
    ASSUME NEW P
    PROVE  IsPathMap(Stack!NoStates, P)
  BY FS_EmptySet DEF IsPathMap, Stack!NoStates

\* Two such maps are joined,
LEMMA JoinedPaths ==
    ASSUME NEW P, NEW a, NEW b, IsPathMap(a, P), IsPathMap(b, P)
    PROVE  IsPathMap([s \in DOMAIN a \cup DOMAIN b |->
                         Stack!PathsOf(a, s) \o Stack!PathsOf(b, s)], P)
<1> DEFINE m == [s \in DOMAIN a \cup DOMAIN b |-> Stack!PathsOf(a, s) \o Stack!PathsOf(b, s)]
<1>1. DOMAIN m = DOMAIN a \cup DOMAIN b /\ m = [s \in DOMAIN m |-> m[s]]
  OBVIOUS
<1>2. DOMAIN m \subseteq DOMAIN P /\ IsFiniteSet(DOMAIN m)
  BY <1>1, FS_Union DEF IsPathMap
<1>3. \A s \in DOMAIN m : m[s] \in Seq(P[s])
  <2> TAKE s \in DOMAIN m
  <2>1. Stack!PathsOf(a, s) \in Seq(P[s]) /\ Stack!PathsOf(b, s) \in Seq(P[s])
    BY PathsOfMap
  <2>2. Stack!PathsOf(a, s) \o Stack!PathsOf(b, s) \in Seq(P[s])
    BY <2>1, ConcatProperties
  <2> QED
    BY <2>2
<1> HIDE DEF m
<1>4. IsPathMap(m, P)
  BY <1>1, <1>2, <1>3 DEF IsPathMap
<1> QED
  BY <1>4 DEF m

\* or one more is put into one.
StoreKeeps(P) ==
    \A m, s, u : IsPathMap(m, P) /\ s \in DOMAIN P /\ u \in Seq(P[s])
        => IsPathMap(Stack!Store(m, s, u), P) /\ DOMAIN Stack!Store(m, s, u) = DOMAIN m \cup {s}

LEMMA StoredPaths ==
    ASSUME NEW P
    PROVE  StoreKeeps(P)
<1> SUFFICES ASSUME NEW m, NEW s, NEW u, IsPathMap(m, P), s \in DOMAIN P, u \in Seq(P[s])
             PROVE  /\ IsPathMap(Stack!Store(m, s, u), P)
                    /\ DOMAIN Stack!Store(m, s, u) = DOMAIN m \cup {s}
  BY DEF StoreKeeps
<1> DEFINE r == Stack!Store(m, s, u)
<1>1. /\ DOMAIN r = DOMAIN m \cup {s} /\ r = [x \in DOMAIN r |-> r[x]]
      /\ \A x \in DOMAIN r : r[x] = IF x = s THEN u ELSE m[x]
  BY DEF Stack!Store
<1> HIDE DEF r
<1>2. DOMAIN r \subseteq DOMAIN P /\ IsFiniteSet(DOMAIN r)
  BY <1>1, FS_AddElement DEF IsPathMap
<1>3. \A x \in DOMAIN r : r[x] \in Seq(P[x])
  <2> TAKE x \in DOMAIN r
  <2>1. CASE x = s
    BY <1>1, <2>1
  <2>2. CASE x # s
    <3>1. x \in DOMAIN m /\ r[x] = m[x]
      BY <1>1, <2>2
    <3> QED
      BY <3>1 DEF IsPathMap
  <2> QED
    BY <2>1, <2>2
<1>4. IsPathMap(r, P)
  BY <1>1, <1>2, <1>3 DEF IsPathMap
<1> QED
  BY <1>1, <1>4 DEF r

\* A map may hold more paths.
LEMMA MorePaths ==
    ASSUME NEW P, NEW m, IsPathMap(m, P), NEW Q, DOMAIN Q = DOMAIN P,
           \A s \in DOMAIN P : P[s] \subseteq Q[s]
    PROVE  IsPathMap(m, Q)
<1>1. \A s \in DOMAIN m : m[s] \in Seq(Q[s])
  <2> TAKE s \in DOMAIN m
  <2>1. P[s] \subseteq Q[s] /\ m[s] \in Seq(P[s])
    BY DEF IsPathMap
  <2> QED
    BY <2>1, SeqMonotonic
<1> QED
  BY <1>1 DEF IsPathMap

-----------------------------------------------------------------------------
(***************************************************************************)
(* The stacks solveStack finds for a node arise on the paths it finds with *)
(* them.                                                                   *)
(***************************************************************************)
PathsInto(k) == [s \in Stacks |-> EntryPaths(k, s)]

PathsOutOf(k) == [s \in Stacks |-> ExitPaths(k, s)]

StatesArise ==
    /\ solveIdx \in Nat
    /\ \A k \in DOMAIN entryStates : IsPathMap(entryStates[k], PathsInto(k))
    /\ \A k \in DOMAIN exitStates : IsPathMap(exitStates[k], PathsOutOf(k))

\* What is handed over.
LEMMA HandedOverArises ==
    ASSUME PushesHaveData, Cut, LabelsApart, StatesArise, NEW k, IsFiled(k), NEW p,
           (p = Stack!Nowhere /\ k = 0) \/ (p # Stack!Nowhere /\ IsFiled(p) /\ <<p, k>> \in next)
    PROVE  IsPathMap(Stack!HandedOver(k, p), PathsInto(k))
<1> DEFINE old  == Stack!StatesOf(entryStates, k)
           exits == Stack!StatesOf(exitStates, p)
           come == IF p = Stack!Nowhere THEN [s \in {<<>>} |-> <<<<>>>>]
                   ELSE [s \in DOMAIN exits |->
                           [i \in 1 .. Len(exitStates[p][s]) |->
                               Append(exitStates[p][s][i], nodes[p].idx)]]
<1>1. IsPathMap(old, PathsInto(k))
  BY NoPaths DEF StatesArise, Stack!StatesOf
<1>2. IsPathMap(come, PathsInto(k))
  <2>1. CASE p = Stack!Nowhere
    <3>1. <<>> \in EntryPaths(k, <<>>) /\ <<>> \in Stacks
      BY <2>1, StartPath, EmptySeq DEF Stacks
    <3>2. come = [s \in {<<>>} |-> <<<<>>>>]
      BY <2>1
    <3>3. DOMAIN come = {<<>>} /\ come = [s \in DOMAIN come |-> come[s]] /\ come[<<>>] = <<<<>>>>
      BY <3>2
    <3>4. <<<<>>>> \in Seq(EntryPaths(k, <<>>))
      BY <3>1
    <3>5. DOMAIN PathsInto(k) = Stacks /\ PathsInto(k)[<<>>] = EntryPaths(k, <<>>)
      BY <3>1 DEF PathsInto
    <3>6. IsFiniteSet({<<>>})
      BY FS_Singleton
    <3> HIDE DEF come
    <3> QED
      BY <3>1, <3>3, <3>4, <3>5, <3>6 DEF IsPathMap
  <2>2. CASE p # Stack!Nowhere
    <3>1. IsPathMap(exits, PathsOutOf(p))
      BY NoPaths DEF StatesArise, Stack!StatesOf
    <3>2. /\ DOMAIN come = DOMAIN exits /\ come = [s \in DOMAIN come |-> come[s]]
          /\ \A s \in DOMAIN exits : come[s] = [i \in 1 .. Len(exitStates[p][s]) |->
                                                  Append(exitStates[p][s][i], nodes[p].idx)]
      BY <2>2
    <3>3. DOMAIN come \subseteq DOMAIN PathsInto(k) /\ IsFiniteSet(DOMAIN come)
      BY <3>1, <3>2 DEF IsPathMap, PathsInto, PathsOutOf
    <3>4. ASSUME NEW s \in DOMAIN exits PROVE come[s] \in Seq(PathsInto(k)[s])
      <4>1. exits[s] = exitStates[p][s]
        BY DEF Stack!StatesOf, Stack!NoStates
      <4>2. PICK paths : paths = exits[s]
        OBVIOUS
      <4>3. s \in Stacks /\ paths \in Seq(ExitPaths(p, s))
        BY <3>1, <4>2 DEF IsPathMap, PathsOutOf
      <4>4. Len(paths) \in Nat /\ \A i \in 1 .. Len(paths) : paths[i] \in ExitPaths(p, s)
        BY <4>3, LenProperties, ElementOfSeq
      <4>5. \A i \in 1 .. Len(paths) : Append(paths[i], nodes[p].idx) \in EntryPaths(k, s)
        BY <2>2, <4>3, <4>4, HandingOver
      <4>6. come[s] = [i \in 1 .. Len(paths) |-> Append(paths[i], nodes[p].idx)]
        BY <3>2, <4>1, <4>2
      <4> HIDE DEF come, exits
      <4>7. PICK n \in Nat : n = Len(paths)
        BY <4>4
      <4>8. come[s] \in [1 .. n -> EntryPaths(k, s)]
        BY <4>5, <4>6, <4>7
      <4>9. come[s] \in Seq(EntryPaths(k, s))
        BY <4>8
      <4> QED
        BY <4>3, <4>9 DEF PathsInto
    <3> HIDE DEF come, exits
    <3> QED
      BY <3>2, <3>3, <3>4 DEF IsPathMap
  <2> QED
    BY <2>1, <2>2
<1>3. Stack!HandedOver(k, p) = [s \in DOMAIN old \cup DOMAIN come |->
                                  Stack!PathsOf(old, s) \o Stack!PathsOf(come, s)]
  BY DEF Stack!HandedOver
<1> DEFINE Joined(a, b) == [s \in DOMAIN a \cup DOMAIN b |->
                              Stack!PathsOf(a, s) \o Stack!PathsOf(b, s)]
<1>4. \A P, a, b : IsPathMap(a, P) /\ IsPathMap(b, P) => IsPathMap(Joined(a, b), P)
  BY JoinedPaths
<1>5. Stack!HandedOver(k, p) = Joined(old, come)
  BY <1>3
<1> HIDE DEF old, come, Joined
<1> QED
  BY <1>1, <1>2, <1>4, <1>5

\* What solveStack takes from its worklist.
LEMMA TakenIs ==
    ASSUME Cut, EdgesFiled, WorkListed, worklist # <<>>
    PROVE  /\ IsFiled(Stack!Taken[1])
           /\ \/ Stack!Taken = <<0, Stack!Nowhere>>
              \/ /\ Stack!Taken[2] # Stack!Nowhere /\ IsFiled(Stack!Taken[2])
                 /\ <<Stack!Taken[2], Stack!Taken[1]>> \in next
<1>1. PICK i \in 1 .. Len(worklist) : Stack!Taken = worklist[i]
  BY WorkTaken
<1>2. CASE worklist[i] = <<0, Stack!Nowhere>> /\ IsFiled(0)
  BY <1>1, <1>2
<1>3. CASE <<worklist[i][2], worklist[i][1]>> \in next
  <2>1. IsFiled(Stack!Taken[2]) /\ IsFiled(Stack!Taken[1])
    BY <1>1, <1>3 DEF EdgesFiled
  <2>2. Stack!Taken[2] \in Nat
    BY <2>1 DEF Cut, FiledByStart
  <2> QED
    BY <1>1, <1>3, <2>1, <2>2 DEF Stack!Nowhere
<1> QED
  BY <1>1, <1>2, <1>3 DEF WorkListed

\* The runs of a node on the stacks it is entered with, in some order,
NodeRun(k, entries, stacks, runs) ==
    /\ Len(stacks) \in Nat
    /\ stacks \in [1 .. Len(stacks) -> DOMAIN entries]
    /\ \A s \in DOMAIN entries : \E i \in 1 .. Len(stacks) : stacks[i] = s
    /\ runs \in [0 .. Len(stacks) -> States]
    /\ \A i \in 1 .. Len(stacks) :
          StatesAlike(RunOf(k, stacks[i]), runs[i]) /\ RunOf(k, stacks[i]).trapped = FALSE

\* and what comes of them.
NodeWritten(k, entries, stacks, runs) ==
    /\ next' = next \cup
          {<<k, t>> : t \in {u \in UNION {runs[i].targets : i \in 1 .. Len(stacks)} :
                                IsFiled(u) /\ nodes[u].isJumpDest}}
    /\ entryStates' = Stack!Store(entryStates, k, entries)
    /\ exitStates' = Stack!Store(exitStates, k, Stack!AddedExits(k, stacks, entries, runs))
    /\ solveIdx' = runs[Len(stacks)].globalIdx

LEMMA SolveNodeIs ==
    ASSUME PushesHaveData, Cut, LabelsApart, StatesArise, EdgesFiled, WorkListed, Stack!SolveNode,
           NEW k, k = Stack!Taken[1], NEW entries, entries = Stack!HandedOver(k, Stack!Taken[2])
    PROVE  /\ IsPathMap(entries, PathsInto(k))
           /\ \E stacks, runs : /\ NodeRun(k, entries, stacks, runs)
                                /\ NodeWritten(k, entries, stacks, runs)
<1>1. PICK p : p = Stack!Taken[2]
  OBVIOUS
<1>2. /\ IsFiled(k)
      /\ (p = Stack!Nowhere /\ k = 0) \/ (p # Stack!Nowhere /\ IsFiled(p) /\ <<p, k>> \in next)
  BY <1>1, TakenIs DEF Stack!SolveNode
<1>3. IsPathMap(entries, PathsInto(k))
  BY <1>1, <1>2, HandedOverArises
<1>4. DOMAIN entries \subseteq Stacks /\ IsFiniteSet(DOMAIN entries)
  BY <1>3 DEF IsPathMap, PathsInto
<1>5. PICK stacks, runs :
         /\ stacks \in Stack!InOrder(DOMAIN entries)
         /\ runs = Stack!RunAll(k, stacks)
         /\ ~runs[Len(stacks)].trapped
         /\ next' = next \cup
               {<<k, t>> : t \in {u \in {w \in UNION {runs[i].targets : i \in 1 .. Len(stacks)} :
                                           Stack!IsNodeAt(w)} : nodes[u].isJumpDest}}
         /\ entryStates' = Stack!Store(entryStates, k, entries)
         /\ exitStates' = Stack!Store(exitStates, k, Stack!AddedExits(k, stacks, entries, runs))
         /\ solveIdx' = runs[Len(stacks)].globalIdx
  BY DEF Stack!SolveNode
<1>6. /\ Len(stacks) \in Nat /\ stacks \in [1 .. Len(stacks) -> DOMAIN entries]
      /\ \A s \in DOMAIN entries : \E i \in 1 .. Len(stacks) : stacks[i] = s
  <2>1. PICK S : S = DOMAIN entries
    OBVIOUS
  <2>2. stacks \in Stack!InOrder(S) /\ IsFiniteSet(S)
    BY <1>4, <1>5, <2>1
  <2>3. /\ Len(stacks) \in Nat /\ stacks \in [1 .. Len(stacks) -> S]
        /\ \A s \in S : \E i \in 1 .. Len(stacks) : stacks[i] = s
    <3>1. PICK q \in Stack!InOrder(S) : q = stacks
      BY <2>2
    <3>2. /\ Len(q) \in Nat /\ q \in [1 .. Len(q) -> S]
          /\ \A s \in S : \E i \in 1 .. Len(q) : q[i] = s
      BY <2>2, InOrderFacts
    <3> QED
      BY <3>1, <3>2
  <2> QED
    BY <2>1, <2>3, Zenon
<1>7. PICK n \in Nat : n = Len(stacks)
  BY <1>6
<1>8. stacks \in [1 .. n -> Stacks]
  BY <1>4, <1>6, <1>7
<1>9. nodes[k].start \in Nat /\ nodes[k].end \in Nat /\ nodes[k].start <= nodes[k].end
  BY <1>2 DEF Cut, FiledByStart
<1>10. solveIdx \in Nat
  BY DEF StatesArise
<1>11. runs \in [0 .. n -> States]
  BY <1>5, <1>7, <1>8, <1>9, <1>10, RunsFollow
<1>12. \A i \in 1 .. n :
          StatesAlike(RunOf(k, stacks[i]), runs[i]) /\ RunOf(k, stacks[i]).trapped = FALSE
  <2>1. ~Stack!RunAll(k, stacks)[n].trapped
    BY <1>5, <1>7
  <2> QED
    BY <1>5, <1>7, <1>8, <1>9, <1>10, <2>1, RunsAlone
<1>13. NodeRun(k, entries, stacks, runs)
  BY <1>6, <1>7, <1>11, <1>12 DEF NodeRun
<1>14. NodeWritten(k, entries, stacks, runs)
  BY <1>5, SameInStack DEF NodeWritten
<1> QED
  BY <1>3, <1>13, <1>14

\* The paths are added to the stacks the node is left with.
LEMMA AddedExitsArise ==
    ASSUME PushesHaveData, Cut, NEW k, IsFiled(k), NEW entries, NEW stacks, NEW runs,
           IsPathMap(entries, PathsInto(k)), NodeRun(k, entries, stacks, runs),
           IsPathMap(Stack!StatesOf(exitStates, k), PathsOutOf(k))
    PROVE  /\ IsPathMap(Stack!AddedExits(k, stacks, entries, runs), PathsOutOf(k))
           /\ \A i \in 1 .. Len(stacks) :
                 runs[i].stack \in DOMAIN Stack!AddedExits(k, stacks, entries, runs)
<1> DEFINE P == PathsOutOf(k)
           V == PathMaps(P)
           Put(m, i) == Stack!Store(m, runs[i].stack,
                           Stack!PathsOf(m, runs[i].stack) \o entries[stacks[i]])
           first == Stack!StatesOf(exitStates, k)
           IsAdded(f) == f = [i \in 0 .. Len(stacks) |-> IF i = 0 THEN first ELSE Put(f[i - 1], i)]
           added == CHOOSE f : IsAdded(f)
<1>1. PICK n \in Nat : n = Len(stacks)
  BY DEF NodeRun
<1>2. Stack!AddedExits(k, stacks, entries, runs) = added[n]
  BY <1>1 DEF Stack!AddedExits
<1>3. \A i \in 1 .. n : runs[i].stack \in DOMAIN P /\ entries[stacks[i]] \in Seq(P[runs[i].stack])
  <2> TAKE i \in 1 .. n
  <2>1. PICK s, t : s = stacks[i] /\ t = runs[i].stack
    OBVIOUS
  <2>2. s \in DOMAIN entries /\ t \in Stacks /\ Alike(RunOf(k, s).stack, t)
    BY <1>1, <2>1 DEF NodeRun, States, StatesAlike
  <2>3. s \in Stacks /\ entries[s] \in Seq(EntryPaths(k, s))
    BY <2>2 DEF IsPathMap, PathsInto
  <2>4. EntryPaths(k, s) \subseteq ExitPaths(k, t)
    BY <2>2, <2>3, RunningOn
  <2>5. entries[s] \in Seq(ExitPaths(k, t))
    BY <2>3, <2>4, SeqMonotonic
  <2> QED
    BY <2>1, <2>2, <2>5 DEF PathsOutOf
<1>4. ASSUME NEW m, IsPathMap(m, P), NEW i \in 1 .. n
      PROVE  IsPathMap(Put(m, i), P) /\ DOMAIN Put(m, i) = DOMAIN m \cup {runs[i].stack}
  <2>1. PICK Q, s, t : Q = P /\ s = runs[i].stack /\ t = entries[stacks[i]]
    OBVIOUS
  <2>2. IsPathMap(m, Q) /\ s \in DOMAIN Q /\ t \in Seq(Q[s])
    BY <1>3, <1>4, <2>1
  <2>3. PICK u : u = Stack!PathsOf(m, s) \o t
    OBVIOUS
  <2>4. u \in Seq(Q[s])
    BY <2>2, <2>3, PathsOfMap, ConcatProperties
  <2>5. IsPathMap(Stack!Store(m, s, u), Q) /\ DOMAIN Stack!Store(m, s, u) = DOMAIN m \cup {s}
    <3>1. StoreKeeps(Q)
      BY StoredPaths
    <3> QED
      BY <2>2, <2>4, <3>1, Zenon DEF StoreKeeps
  <2> QED
    BY <2>1, <2>3, <2>5
<1>5. first \in V /\ IsPathMap(first, P)
  BY PathMapsHold
<1>6. \A m \in V : IsPathMap(m, P)
  BY DEF PathMaps
<1> DEFINE step == [x \in Nat \X V |-> IF x[1] \in 1 .. n THEN Put(x[2], x[1]) ELSE x[2]]
<1> HIDE DEF Put, P, V, first
<1>7. \A m \in V, i \in 1 .. n : Put(m, i) \in V
  BY <1>4, <1>6, PathMapsHold DEF V
<1>8. step \in [Nat \X V -> V]
  BY <1>7
<1>9. \A i \in 1 .. n, m \in V : step[<<i, m>>] = Put(m, i)
  OBVIOUS
<1> HIDE DEF step
<1>10. PICK f : IsRecursion(f, 0 .. n, V, first, step)
  BY <1>5, <1>8, RunsOfRecursion
<1>11. /\ f \in [0 .. n -> V]
       /\ \A i \in 0 .. n : f[i] = IF i = 0 THEN first ELSE step[<<i, f[i - 1]>>]
  BY <1>10 DEF IsRecursion
<1>12. \A i \in 0 .. n : f[i] = IF i = 0 THEN first ELSE Put(f[i - 1], i)
  <2> TAKE i \in 0 .. n
  <2>1. i # 0 => i - 1 \in 0 .. n /\ i \in 1 .. n
    OBVIOUS
  <2> QED
    BY <1>9, <1>11, <2>1
<1>13. IsAdded(f)
  BY <1>1, <1>11, <1>12
<1>14. IsAdded(added)
  BY <1>13
<1>15. \A i \in 0 .. n : added[i] = IF i = 0 THEN first ELSE Put(added[i - 1], i)
  BY <1>1, <1>14
<1> HIDE DEF added, IsAdded
<1>16. added[0] = first /\ \A i \in 0 .. (n - 1) : added[i + 1] = Put(added[i], i + 1)
  <2>1. 0 \in 0 .. n /\ \A i \in 0 .. (n - 1) : i + 1 \in 0 .. n /\ i + 1 # 0 /\ i + 1 - 1 = i
    OBVIOUS
  <2> QED
    BY <1>15, <2>1
<1> DEFINE Right(j) == IsPathMap(added[j], P) /\ \A i \in 1 .. j : runs[i].stack \in DOMAIN added[j]
<1>17. \A j \in 0 .. n : Right(j)
  <2> DEFINE Q == {j \in 0 .. n : Right(j)}
  <2>1. 0 \in Q
    BY <1>5, <1>16
  <2>2. ASSUME NEW j \in 0 .. (n - 1), j \in Q PROVE j + 1 \in Q
    <3>1. j + 1 \in 0 .. n /\ j + 1 \in 1 .. n /\ \A i \in 1 .. j + 1 : i = j + 1 \/ i \in 1 .. j
      OBVIOUS
    <3>2. /\ IsPathMap(added[j + 1], P)
          /\ DOMAIN added[j + 1] = DOMAIN added[j] \cup {runs[j + 1].stack}
      BY <1>4, <1>16, <2>2, <3>1
    <3> QED
      BY <2>2, <3>1, <3>2
  <2>3. \A j \in 0 .. n : j \in Q
    <3> HIDE DEF Q
    <3> QED
      BY <2>1, <2>2, Upwards
  <2> QED
    BY <2>3
<1>18. Right(n)
  <2>1. n \in 0 .. n
    OBVIOUS
  <2> HIDE DEF Right
  <2> QED
    BY <1>17, <2>1, Zenon
<1>19. PICK gives : gives = Stack!AddedExits(k, stacks, entries, runs)
  OBVIOUS
<1>20. IsPathMap(gives, P) /\ \A i \in 1 .. n : runs[i].stack \in DOMAIN gives
  BY <1>2, <1>18, <1>19, Zenon
<1>21. IsPathMap(gives, PathsOutOf(k))
  BY <1>20 DEF P
<1> HIDE DEF Right
<1> QED
  BY <1>1, <1>19, <1>20, <1>21, Zenon

LEMMA MapsStay ==
    ASSUME nodes' = nodes, instructions' = instructions, next \subseteq next', NEW k, NEW m
    PROVE  /\ IsPathMap(m, PathsInto(k)) => IsPathMap(m, PathsInto(k)')
           /\ IsPathMap(m, PathsOutOf(k)) => IsPathMap(m, PathsOutOf(k)')
<1>1. /\ DOMAIN PathsInto(k) = Stacks /\ DOMAIN PathsInto(k)' = Stacks
      /\ DOMAIN PathsOutOf(k) = Stacks /\ DOMAIN PathsOutOf(k)' = Stacks
  BY DEF PathsInto, PathsOutOf
<1>2. \A s \in Stacks : /\ PathsInto(k)[s] \subseteq PathsInto(k)'[s]
                       /\ PathsOutOf(k)[s] \subseteq PathsOutOf(k)'[s]
  <2> TAKE s \in Stacks
  <2>1. EntryPaths(k, s) \subseteq EntryPaths(k, s)' /\ ExitPaths(k, s) \subseteq ExitPaths(k, s)'
    BY PathsStay
  <2>2. /\ PathsInto(k)[s] = EntryPaths(k, s) /\ PathsInto(k)'[s] = EntryPaths(k, s)'
        /\ PathsOutOf(k)[s] = ExitPaths(k, s) /\ PathsOutOf(k)'[s] = ExitPaths(k, s)'
    BY DEF PathsInto, PathsOutOf
  <2> QED
    BY <2>1, <2>2
<1>3. ASSUME IsPathMap(m, PathsInto(k)) PROVE IsPathMap(m, PathsInto(k)')
  <2>1. PICK P, Q : P = PathsInto(k) /\ Q = PathsInto(k)'
    OBVIOUS
  <2> QED
    BY <1>1, <1>2, <1>3, <2>1, MorePaths
<1>4. ASSUME IsPathMap(m, PathsOutOf(k)) PROVE IsPathMap(m, PathsOutOf(k)')
  <2>1. PICK P, Q : P = PathsOutOf(k) /\ Q = PathsOutOf(k)'
    OBVIOUS
  <2> QED
    BY <1>1, <1>2, <1>4, <2>1, MorePaths
<1> QED
  BY <1>3, <1>4

\* However the states are handed on, again and again, while edges are still drawn.
LEMMA SolveNodeArises ==
    ASSUME PushesHaveData, Cut, LabelsApart, StatesArise, EdgesFiled, WorkListed, Stack!SolveNode
    PROVE  StatesArise'
<1>1. PICK k, p, entries : /\ k = Stack!Taken[1] /\ p = Stack!Taken[2]
                           /\ entries = Stack!HandedOver(k, p)
  OBVIOUS
<1>2. IsPathMap(entries, PathsInto(k))
  BY <1>1, SolveNodeIs
<1>3. PICK stacks, runs : /\ NodeRun(k, entries, stacks, runs)
                          /\ NodeWritten(k, entries, stacks, runs)
  BY <1>1, SolveNodeIs
<1>4. PICK exits : exits = Stack!AddedExits(k, stacks, entries, runs)
  OBVIOUS
<1>5. IsFiled(k)
  BY <1>1, TakenIs DEF Stack!SolveNode
<1>6. IsPathMap(Stack!StatesOf(exitStates, k), PathsOutOf(k))
  BY NoPaths DEF StatesArise, Stack!StatesOf
<1>7. IsPathMap(exits, PathsOutOf(k))
  BY <1>2, <1>3, <1>4, <1>5, <1>6, AddedExitsArise
<1>8. nodes' = nodes /\ instructions' = instructions /\ next \subseteq next'
  BY <1>3 DEF NodeWritten, Stack!SolveNode
<1>9. solveIdx' \in Nat
  <2>1. PICK n \in Nat : n = Len(stacks)
    BY <1>3 DEF NodeRun
  <2>2. PICK r \in States : r = runs[n]
    BY <1>3, <2>1 DEF NodeRun
  <2>3. r.globalIdx \in Nat
    BY DEF States
  <2>4. solveIdx' = runs[n].globalIdx
    BY <1>3, <2>1 DEF NodeWritten
  <2> QED
    BY <2>2, <2>3, <2>4, Zenon
<1>10. ASSUME NEW j \in DOMAIN entryStates' PROVE IsPathMap(entryStates'[j], PathsInto(j)')
  <2>1. IsPathMap(entryStates'[j], PathsInto(j))
    BY <1>2, <1>3 DEF NodeWritten, StatesArise, Stack!Store
  <2> QED
    BY <1>8, <2>1, MapsStay
<1>11. ASSUME NEW j \in DOMAIN exitStates' PROVE IsPathMap(exitStates'[j], PathsOutOf(j)')
  <2>1. IsPathMap(exitStates'[j], PathsOutOf(j))
    BY <1>3, <1>4, <1>7 DEF NodeWritten, StatesArise, Stack!Store
  <2> QED
    BY <1>8, <2>1, MapsStay
<1> QED
  BY <1>9, <1>10, <1>11 DEF StatesArise, IsPathMap

LEMMA AriseStay ==
    ASSUME StatesArise, UNCHANGED <<instructions, nodes, next, entryStates, exitStates, solveIdx>>
    PROVE  StatesArise'
<1>1. ASSUME NEW j \in DOMAIN entryStates' PROVE IsPathMap(entryStates'[j], PathsInto(j)')
  BY MapsStay DEF StatesArise
<1>2. ASSUME NEW j \in DOMAIN exitStates' PROVE IsPathMap(exitStates'[j], PathsOutOf(j)')
  BY MapsStay DEF StatesArise
<1> QED
  BY <1>1, <1>2 DEF StatesArise, IsPathMap

\* Before solveStack begins there are none.
BeingWalked ==
    /\ StatesArise
    /\ solveStatus = "waiting" => DOMAIN exitStates = {} /\ seen = {}

LEMMA WalkedStay ==
    ASSUME BeingWalked, solveStatus = "waiting", DOMAIN entryStates = {}, UNCHANGED solving
    PROVE  BeingWalked'
  BY DEF BeingWalked, StatesArise, solving

-----------------------------------------------------------------------------
(***************************************************************************)
(* What startGraph leaves to solveStack: each node ends behind an          *)
(* instruction and all edges that instruction calls for are drawn, and no  *)
(* edge leads back to an entry that is no jump target.                     *)
(***************************************************************************)
VisitedEnd == \A k : IsFiled(k) /\ k \notin todo => EndsBehind(k) \/ k = 0

AllLead ==
    \A k : IsFiled(k) =>
        \A q \in DOMAIN instructions : EndsWith(k, q) => \A m : Leads(k, q, m) => <<k, m>> \in next

NoWayBack == \A e \in next : e[2] = 0 => nodes[0].isJumpDest \/ nodes[0].end = 0

BeingVisited ==
    /\ startStatus # "waiting" => VisitedEnd
    /\ startStatus = "done" => AllLead /\ NoWayBack

\* The edges startGraph has drawn when it returns.
LEMMA DrawnLeads ==
    ASSUME Cut, EdgesFiled, Drawn, todo = {}
    PROVE  AllLead /\ NoWayBack
<1>1. AllLead
  BY DEF Drawn, VisitedLead, AllLead
<1>2. ASSUME NEW e \in next, e[2] = 0
      PROVE  nodes[0].isJumpDest \/ nodes[0].end = 0
  <2>1. PICK k : k = e[1]
    OBVIOUS
  <2>2. <<k, 0>> \in next /\ IsFiled(k) /\ (EndsBehind(k) \/ k = 0)
    BY <1>2, <2>1 DEF Drawn, OnlyVisitedLead, EdgesFiled
  <2>3. k \in Nat /\ nodes[k].end \in Nat
    BY <2>2 DEF Cut, FiledByStart
  <2>4. CASE EndsBehind(k)
    <3>1. PICK q \in DOMAIN instructions : EndsWith(k, q)
      BY <2>4 DEF EndsBehind
    <3>2. Leads(k, q, 0)
      BY <2>2, <3>1 DEF Drawn, VisitedLead
    <3>3. nodes[k].end # 0
      BY <2>3, <2>4 DEF EndsBehind
    <3> QED
      BY <3>2, <3>3 DEF Leads, Start!JumpAllowed
  <2>5. CASE ~EndsBehind(k)
    BY <2>2, <2>5 DEF Cut, FiledEnds, IsEmptyAt
  <2> QED
    BY <2>4, <2>5
<1> QED
  BY <1>1, <1>2 DEF NoWayBack

LEMMA VisitedStay ==
    ASSUME VisitedEnd, FiledStay, UNCHANGED <<instructions, todo>>
    PROVE  VisitedEnd'
<1>1. Opcodes' = Opcodes
  BY DEF Opcodes
<1>2. \A j : IsFiled(j) /\ EndsBehind(j) => EndsBehind(j)'
  BY <1>1 DEF EndsBehind, EndsWith, FiledStay
<1> QED
  BY <1>2 DEF VisitedEnd, FiledStay

\* A node startGraph visits ends behind an instruction.
LEMMA VisitEnds ==
    ASSUME Decoded, BeingLinked, built, VisitedEnd, NEW k \in todo, Start!VisitNode(k),
           UNCHANGED built
    PROVE  VisitedEnd'
<1>1. Cut /\ IsFiled(k)
  BY DEF BeingLinked, Start!VisitNode
<1>2. FiledStay
  BY VisitKeeps
<1>3. PICK last : last \in Start!LastOffsets(nodes[k])
  BY DEF Start!VisitNode
<1>4. todo' = todo \ {k} /\ instructions' = instructions
  BY DEF Start!VisitNode
<1>5. Opcodes' = Opcodes
  BY <1>4 DEF Opcodes
<1>6. \A j : IsFiled(j) /\ EndsBehind(j) => EndsBehind(j)'
  BY <1>2, <1>4, <1>5 DEF EndsBehind, EndsWith, FiledStay
<1>7. EndsBehind(k) \/ k = 0
  <2>1. CASE IsEmptyAt(k)
    <3>1. k \in Nat /\ nodes[k].start = k /\ nodes[k].end = k
      BY <1>1, <2>1 DEF IsEmptyAt, Cut, FiledByStart
    <3>2. last \in Nat /\ k <= last /\ (k = 0 \/ last < k)
      BY <1>3, <3>1 DEF Start!LastOffsets, Start!Searched, Decoded, IsStream, Opcodes
    <3> QED
      BY <3>1, <3>2
  <2> QED
    BY <1>1, <2>1 DEF Cut, FiledEnds
<1> QED
  BY <1>2, <1>4, <1>6, <1>7 DEF VisitedEnd, FiledStay

LEMMA StartVisits ==
    ASSUME Decoded, BeingLinked, built, startStatus # "waiting" => VisitedEnd, Start!Next,
           UNCHANGED built
    PROVE  VisitedEnd'
<1>1. CASE Start!Begin
  BY <1>1 DEF Start!Begin, VisitedEnd, IsFiled
<1>2. ASSUME NEW k \in todo, Start!VisitNode(k) PROVE VisitedEnd'
  BY <1>2, VisitEnds DEF Start!VisitNode
<1>3. CASE Start!Return \/ \E k \in todo : Start!Abort(k)
  <2>1. startStatus = "running" /\ UNCHANGED <<instructions, nodes, todo>>
    BY <1>3 DEF Start!Return, Start!Abort
  <2>2. FiledStay
    BY <2>1 DEF FiledStay, IsFiled
  <2> QED
    BY <2>1, <2>2, VisitedStay
<1> QED
  BY <1>1, <1>2, <1>3 DEF Start!Next

\* solveStack only adds edges to jump targets.
LEMMA LeadsKept ==
    ASSUME AllLead, NoWayBack, UNCHANGED <<instructions, nodes>>, next \subseteq next',
           \A e \in next' \ next : nodes[e[2]].isJumpDest
    PROVE  AllLead' /\ NoWayBack'
<1>1. FiledStay
  BY DEF FiledStay, IsFiled
<1>2. Opcodes' = Opcodes
  BY DEF Opcodes
<1>3. AllLead'
  <2> SUFFICES ASSUME NEW k, IsFiled(k), NEW q \in DOMAIN instructions, EndsWith(k, q), NEW m,
                      Leads(k, q, m)'
               PROVE  <<k, m>> \in next'
    BY <1>1, <1>2 DEF AllLead, EndsWith, FiledStay
  <2>1. Leads(k, q, m)
    BY <1>1, LeadsStay
  <2> QED
    BY <2>1 DEF AllLead
<1>4. NoWayBack'
  BY DEF NoWayBack
<1> QED
  BY <1>3, <1>4

-----------------------------------------------------------------------------
(***************************************************************************)
(* The pairs on the worklist.                                              *)
(***************************************************************************)
Work == {worklist[i] : i \in 1 .. Len(worklist)}

IsListed(x, w) == \E i \in 1 .. Len(w) : w[i] = x

JoinsListed(w, extra, n) ==
    \A x : IsListed(x, w \o extra) <=> IsListed(x, w) \/ \E i \in 1 .. n : extra[i] = x

LEMMA ListedInConcat ==
    ASSUME NEW W, NEW w \in Seq(W), NEW V, NEW n \in Nat, NEW extra \in [1 .. n -> V]
    PROVE  JoinsListed(w, extra, n)
<1>1. extra \in Seq(V) /\ Len(extra) = n
  <2>1. extra \in Seq(V)
    OBVIOUS
  <2>2. Len(extra) \in Nat /\ DOMAIN extra = 1 .. Len(extra) /\ DOMAIN extra = 1 .. n
    BY <2>1, LenProperties
  <2> QED
    BY <2>1, <2>2
<1>2. PICK X : X = W \cup V
  OBVIOUS
<1>3. w \in Seq(X) /\ extra \in Seq(X)
  BY <1>1, <1>2, SeqMonotonic
<1>4. PICK m \in Nat : m = Len(w)
  BY <1>3
<1>5. PICK c : c = w \o extra
  OBVIOUS
<1>6. /\ Len(c) = m + n
      /\ \A i \in 1 .. m + n : c[i] = IF i <= m THEN w[i] ELSE extra[i - m]
  BY <1>1, <1>3, <1>4, <1>5, ConcatProperties
<1>7. ASSUME NEW x, NEW i \in 1 .. m + n, c[i] = x
      PROVE  (\E j \in 1 .. m : w[j] = x) \/ \E j \in 1 .. n : extra[j] = x
  <2>1. CASE i <= m
    BY <1>6, <1>7, <2>1
  <2>2. CASE ~(i <= m)
    <3>1. i - m \in 1 .. n /\ extra[i - m] = x
      BY <1>6, <1>7, <2>2
    <3> QED
      BY <3>1
  <2> QED
    BY <2>1, <2>2
<1>8. ASSUME NEW x, NEW j \in 1 .. m, w[j] = x
      PROVE  \E i \in 1 .. m + n : c[i] = x
  <2>1. j \in 1 .. m + n /\ c[j] = w[j]
    BY <1>6
  <2> QED
    BY <1>8, <2>1
<1>9. ASSUME NEW x, NEW j \in 1 .. n, extra[j] = x
      PROVE  \E i \in 1 .. m + n : c[i] = x
  <2>1. m + j \in 1 .. m + n /\ c[m + j] = extra[(m + j) - m]
    BY <1>6
  <2>2. (m + j) - m = j
    OBVIOUS
  <2> QED
    BY <1>9, <2>1, <2>2
<1> QED
  BY <1>4, <1>5, <1>6, <1>7, <1>8, <1>9 DEF JoinsListed, IsListed

\* Every member of a finite set has its place in every order of it.
LEMMA OrderHasAll ==
    ASSUME NEW T, IsFiniteSet(T), NEW order \in Stack!Bijection(1 .. Stack!Cardinality(T), T)
    PROVE  /\ Len(order) \in Nat /\ order \in [1 .. Len(order) -> T]
           /\ \A t \in T : \E i \in 1 .. Len(order) : order[i] = t
<1>1. PICK n \in Nat : n = Cardinality(T)
  BY FS_CardinalityType
<1>2. order \in [1 .. n -> T] /\ \A t \in T : \E i \in 1 .. n : order[i] = t
  BY <1>1, SameInStack DEF Stack!Bijection, Stack!Injection, Stack!Surjection
<1>3. Len(order) = n
  BY <1>2, LengthOfRow
<1> QED
  BY <1>2, <1>3

\* The back of the worklist and what is left.
LEMMA WorkParts ==
    ASSUME WorkListed, worklist # <<>>
    PROVE  /\ \E S : Stack!Others \in Seq(S)
           /\ \A x : x \in Work <=> IsListed(x, Stack!Others) \/ x = Stack!Taken
<1>1. PICK S : worklist \in Seq(S)
  BY DEF WorkListed
<1>2. PICK n \in Nat \ {0} : n = Len(worklist)
  BY <1>1, EmptySeq
<1>3. /\ SubSeq(worklist, 1, n - 1) \in Seq(S)
      /\ Len(SubSeq(worklist, 1, n - 1)) = n - 1
      /\ \A i \in 1 .. n - 1 : SubSeq(worklist, 1, n - 1)[i] = worklist[i]
  <2>1. \A i \in 1 .. n : worklist[i] \in S
    BY <1>1, <1>2, ElementOfSeq
  <2>2. 1 \in Int /\ n - 1 \in Int /\ \A i \in 1 .. n - 1 : worklist[i] \in S
    BY <2>1
  <2>3. /\ SubSeq(worklist, 1, n - 1) \in Seq(S)
        /\ Len(SubSeq(worklist, 1, n - 1)) = IF 1 <= n - 1 THEN n - 1 - 1 + 1 ELSE 0
        /\ \A i \in 1 .. n - 1 - 1 + 1 :
              SubSeq(worklist, 1, n - 1)[i] = worklist[1 + i - 1]
    BY <2>2, SubSeqProperties
  <2> QED
    BY <2>3
<1>4. PICK others : others = SubSeq(worklist, 1, n - 1)
  OBVIOUS
<1>5. Stack!Others = others /\ Stack!Taken = worklist[n]
  BY <1>2, <1>4 DEF Stack!Others, Stack!Taken
<1>6. 1 .. n = 1 .. (n - 1) \cup {n}
  OBVIOUS
<1>7. \A x : (\E i \in 1 .. n : worklist[i] = x)
                <=> (\E i \in 1 .. n - 1 : others[i] = x) \/ x = worklist[n]
  BY <1>3, <1>4, <1>6
<1>8. \A x : x \in Work <=> \E i \in 1 .. n : worklist[i] = x
  BY <1>2, Zenon DEF Work
<1>9. \A x : IsListed(x, others) <=> \E i \in 1 .. n - 1 : others[i] = x
  BY <1>3, <1>4, Zenon DEF IsListed
<1> QED
  BY <1>3, <1>4, <1>5, <1>7, <1>8, <1>9, Zenon

\* A node that has been run puts all its successors on the worklist.
LEMMA WorkOfNode ==
    ASSUME Decoded, Cut, NullsBehind, WorkListed, Stack!SolveNode, NEW k, k = Stack!Taken[1]
    PROVE  /\ \A w \in Work' : w \in Work \/ (w = <<w[1], k>> /\ <<k, w[1]>> \in next')
           /\ \A w \in Work : w \in Work' \/ w = Stack!Taken
           /\ \A t \in DOMAIN nodes : <<k, t>> \in next' => <<t, k>> \in Work'
<1>1. PICK T : T = {t \in DOMAIN nodes : <<k, t>> \in next'}
  OBVIOUS
<1>2. PICK order \in Stack!Bijection(1 .. Stack!Cardinality(T), T) :
         worklist' = Stack!Others \o [i \in 1 .. Len(order) |-> <<order[i], k>>]
  BY <1>1 DEF Stack!SolveNode
<1>3. IsFiniteSet(T)
  BY <1>1, KeysAreOffsets, FS_Subset
<1>4. PICK n \in Nat : n = Len(order)
  BY <1>3, OrderHasAll
<1>5. order \in [1 .. n -> T] /\ \A t \in T : \E i \in 1 .. n : order[i] = t
  BY <1>3, <1>4, OrderHasAll
<1>6. worklist # <<>>
  BY DEF Stack!SolveNode
<1>7. PICK S : Stack!Others \in Seq(S)
  BY <1>6, WorkParts
<1>8. PICK extra \in [1 .. n -> T \X {k}] : extra = [i \in 1 .. n |-> <<order[i], k>>]
  BY <1>5
<1>9. worklist' = Stack!Others \o extra
  BY <1>2, <1>4, <1>8
<1>10. \A x : x \in Work' <=> IsListed(x, Stack!Others) \/ \E i \in 1 .. n : extra[i] = x
  <2>1. \A x : x \in Work' <=> IsListed(x, Stack!Others \o extra)
    BY <1>9 DEF Work, IsListed
  <2>2. PICK others \in Seq(S) : others = Stack!Others
    BY <1>7
  <2>3. PICK V : V = T \X {k} /\ extra \in [1 .. n -> V]
    BY <1>8
  <2>4. JoinsListed(others, extra, n)
    BY <2>3, ListedInConcat
  <2> QED
    BY <2>1, <2>2, <2>4 DEF JoinsListed
<1>11. \A x : x \in Work <=> IsListed(x, Stack!Others) \/ x = Stack!Taken
  BY <1>6, WorkParts
<1>12. ASSUME NEW w \in Work', ~IsListed(w, Stack!Others)
       PROVE  w = <<w[1], k>> /\ <<k, w[1]>> \in next'
  <2>1. PICK i \in 1 .. n : extra[i] = w
    BY <1>10, <1>12
  <2>2. w = <<order[i], k>> /\ order[i] \in T
    BY <1>5, <1>8, <2>1
  <2> QED
    BY <1>1, <2>2
<1>13. ASSUME NEW t \in DOMAIN nodes, <<k, t>> \in next'
       PROVE  <<t, k>> \in Work'
  <2>1. PICK i \in 1 .. n : order[i] = t
    BY <1>1, <1>5, <1>13
  <2>2. extra[i] = <<t, k>>
    BY <1>8, <2>1
  <2> QED
    BY <1>10, <2>2
<1> QED
  BY <1>10, <1>11, <1>12, <1>13

-----------------------------------------------------------------------------
(***************************************************************************)
(* What solveStack hands on: every pair of a node that has been run and    *)
(* one of its successors has been taken or is on the worklist, what a run  *)
(* leaves behind and where it jumps is known for each stack listed, and    *)
(* what a node with at most one predecessor leaves behind has reached all  *)
(* the successors that have been taken with it.                            *)
(***************************************************************************)
VisitedAre == DOMAIN exitStates = DOMAIN entryStates

IsHandover(e) ==
    /\ e = <<e[1], e[2]>> /\ e[2] # Stack!Nowhere
    /\ e[2] \in DOMAIN entryStates
    /\ <<e[2], e[1]>> \in next

Entry == <<0, Stack!Nowhere>>

SeenAre ==
    \A e \in seen : /\ e[1] \in DOMAIN entryStates
                    /\ (e = Entry /\ nodes[0].idx = 0) \/ IsHandover(e)

VisitedSeen == \A k \in DOMAIN entryStates : \E e \in seen : e[1] = k

WorkAre == \A w \in Work : w = Entry \/ IsHandover(w)

EdgesFollowed ==
    \A k \in DOMAIN entryStates : \A t : <<k, t>> \in next => <<t, k>> \in seen \cup Work

EntryTaken ==
    /\ solveStatus # "waiting" /\ IsFiled(0) => Entry \in seen \cup Work
    /\ seen # {} => nodes[0].idx = 0
    /\ Entry \in seen => <<>> \in DOMAIN entryStates[0]

RunKnown(k, s) ==
    /\ \E t \in DOMAIN exitStates[k] : Alike(RunOf(k, s).stack, t)
    /\ \A u \in RunOf(k, s).targets : IsFiled(u) /\ nodes[u].isJumpDest => <<k, u>> \in next

RunsKnown == \A k \in DOMAIN entryStates : \A s \in DOMAIN entryStates[k] : RunKnown(k, s)

HasOnePrev(k) == \A e, f \in next : e[2] = k /\ f[2] = k => e = f

HandedOn ==
    nodes[0].end # 0 =>
        \A e \in seen : e[2] # Stack!Nowhere /\ HasOnePrev(e[2])
            => DOMAIN exitStates[e[2]] \subseteq DOMAIN entryStates[e[1]]

Handing ==
    /\ VisitedAre /\ SeenAre /\ VisitedSeen /\ WorkAre /\ EdgesFollowed /\ EntryTaken
    /\ RunsKnown /\ HandedOn

LEMMA HandedOverHas ==
    ASSUME NEW k, NEW p
    PROVE  /\ DOMAIN Stack!StatesOf(entryStates, k) \subseteq DOMAIN Stack!HandedOver(k, p)
           /\ p = Stack!Nowhere => <<>> \in DOMAIN Stack!HandedOver(k, p)
           /\ p # Stack!Nowhere
                 => DOMAIN Stack!StatesOf(exitStates, p) \subseteq DOMAIN Stack!HandedOver(k, p)
  BY DEF Stack!HandedOver

\* Before anything has been run there is nothing to hand on.
LEMMA IdleHands ==
    ASSUME solveStatus = "waiting", worklist = <<>>, seen = {}, DOMAIN entryStates = {},
           DOMAIN exitStates = {}
    PROVE  Handing
<1>1. Work = {}
  BY DEF Work
<1> QED
  BY <1>1 DEF Handing, VisitedAre, SeenAre, VisitedSeen, WorkAre, EdgesFollowed, EntryTaken,
              RunsKnown, HandedOn

\* A node is run for the first time when its only predecessor hands over.
LEMMA FirstTime ==
    ASSUME EdgesFiled, EntryFlagged, NoWayBack, SeenAre, VisitedSeen, nodes[0].end # 0,
           NEW w, HasOnePrev(w[1]), w \notin seen, (w = Entry /\ nodes[0].idx = 0 /\ IsFiled(0)) \/ IsHandover(w)
    PROVE  w[1] \notin DOMAIN entryStates
<1> SUFFICES ASSUME w[1] \in DOMAIN entryStates PROVE FALSE
  OBVIOUS
<1>1. PICK e \in seen : e[1] = w[1]
  BY DEF VisitedSeen
<1>2. e # w /\ ((e = Entry /\ nodes[0].idx = 0) \/ IsHandover(e))
  BY DEF SeenAre
<1>3. ~\E f \in next : f[2] = 0 /\ nodes[0].idx = 0
  <2> SUFFICES ASSUME NEW f \in next, f[2] = 0, nodes[0].idx = 0 PROVE FALSE
    OBVIOUS
  <2>1. nodes[0].isJumpDest /\ IsFiled(0)
    BY DEF NoWayBack, EdgesFiled
  <2> QED
    BY <2>1 DEF EntryFlagged
<1>4. \A x : IsHandover(x) => \E f \in next : f = <<x[2], x[1]>> /\ f[2] = x[1]
  BY DEF IsHandover
<1>5. CASE IsHandover(e) /\ IsHandover(w)
  <2>1. PICK k, p, q : e = <<k, p>> /\ w = <<k, q>> /\ <<p, k>> \in next /\ <<q, k>> \in next
    BY <1>1, <1>5 DEF IsHandover
  <2>2. PICK f \in next, g \in next : f = <<p, k>> /\ g = <<q, k>>
    BY <2>1
  <2>3. f[2] = w[1] /\ g[2] = w[1]
    BY <2>1, <2>2
  <2>4. f = g
    BY <2>3 DEF HasOnePrev
  <2>5. p = q
    BY <2>2, <2>4
  <2> QED
    BY <1>2, <2>1, <2>5
<1>6. CASE e = Entry /\ nodes[0].idx = 0 /\ IsHandover(w)
  <2>1. w[1] = 0
    BY <1>1, <1>6 DEF Entry
  <2> QED
    BY <1>3, <1>4, <1>6, <2>1
<1>7. CASE w = Entry /\ nodes[0].idx = 0 /\ IsHandover(e)
  <2>1. e[1] = 0
    BY <1>1, <1>7 DEF Entry
  <2> QED
    BY <1>3, <1>4, <1>7, <2>1
<1> QED
  BY <1>2, <1>5, <1>6, <1>7

\* The run of node k writes what it is entered and left with, and draws edges of its own.
NodeDone(k, entries, exits) ==
    /\ nodes' = nodes /\ instructions' = instructions /\ solveStatus' = solveStatus
    /\ seen' = seen \cup {Stack!Taken}
    /\ entryStates' = Stack!Store(entryStates, k, entries)
    /\ exitStates' = Stack!Store(exitStates, k, exits)
    /\ next \subseteq next' /\ \A e \in next' \ next : e[1] = k
    /\ \A s \in DOMAIN entries :
          /\ \E t \in DOMAIN exits : Alike(RunOf(k, s).stack, t)
          /\ \A u \in RunOf(k, s).targets : IsFiled(u) /\ nodes[u].isJumpDest => <<k, u>> \in next'

LEMMA SolveNodeDone ==
    ASSUME PushesHaveData, Cut, LabelsApart, StatesArise, EdgesFiled, WorkListed, Stack!SolveNode,
           NEW k, k = Stack!Taken[1], NEW entries, entries = Stack!HandedOver(k, Stack!Taken[2])
    PROVE  \E exits : NodeDone(k, entries, exits)
<1>1. IsPathMap(entries, PathsInto(k))
  BY SolveNodeIs
<1>2. PICK stacks, runs : NodeRun(k, entries, stacks, runs) /\ NodeWritten(k, entries, stacks, runs)
  BY SolveNodeIs
<1>3. PICK exits : exits = Stack!AddedExits(k, stacks, entries, runs)
  OBVIOUS
<1>4. IsFiled(k)
  BY TakenIs DEF Stack!SolveNode
<1>5. IsPathMap(Stack!StatesOf(exitStates, k), PathsOutOf(k))
  BY NoPaths DEF StatesArise, Stack!StatesOf
<1>6. \A i \in 1 .. Len(stacks) : runs[i].stack \in DOMAIN exits
  BY <1>1, <1>2, <1>3, <1>4, <1>5, AddedExitsArise
<1>7. ASSUME NEW s \in DOMAIN entries
      PROVE  /\ \E t \in DOMAIN exits : Alike(RunOf(k, s).stack, t)
             /\ \A u \in RunOf(k, s).targets :
                   IsFiled(u) /\ nodes[u].isJumpDest => <<k, u>> \in next'
  <2>1. PICK i \in 1 .. Len(stacks) : stacks[i] = s
    BY <1>2 DEF NodeRun
  <2>2. StatesAlike(RunOf(k, s), runs[i])
    BY <1>2, <2>1 DEF NodeRun
  <2>3. Alike(RunOf(k, s).stack, runs[i].stack) /\ RunOf(k, s).targets \subseteq runs[i].targets
    BY <2>2 DEF StatesAlike
  <2>4. \A u \in runs[i].targets : IsFiled(u) /\ nodes[u].isJumpDest => <<k, u>> \in next'
    BY <1>2 DEF NodeWritten
  <2> QED
    BY <1>6, <2>3, <2>4
<1>8. next \subseteq next' /\ \A e \in next' \ next : e[1] = k
  BY <1>2 DEF NodeWritten
<1> QED
  BY <1>2, <1>3, <1>7, <1>8 DEF NodeDone, NodeWritten, Stack!SolveNode

\* Running a node hands on all there is.
LEMMA SolveNodeHands ==
    ASSUME Decoded, NullsBehind, Cut, PushesHaveData, LabelsApart, EntryFlagged, StatesArise,
           EdgesFiled, WorkListed, NoWayBack, Handing, Stack!SolveNode,
           \A k \in DOMAIN entryStates : IsFiled(k)
    PROVE  Handing'
<1>1. PICK w, k, p : w = Stack!Taken /\ k = w[1] /\ p = w[2]
  OBVIOUS
<1>2. PICK entries : entries = Stack!HandedOver(k, p)
  OBVIOUS
<1>3. PICK exits : NodeDone(k, entries, exits)
  BY <1>1, <1>2, SolveNodeDone
<1>4. worklist # <<>> /\ w \notin seen /\ ~Stack!AssertionFails
  BY <1>1 DEF Stack!SolveNode, Stack!WasSeen
<1>5. /\ \A x \in Work' : x \in Work \/ (x = <<x[1], k>> /\ <<k, x[1]>> \in next')
      /\ \A x \in Work : x \in Work' \/ x = w
      /\ \A t \in DOMAIN nodes : <<k, t>> \in next' => <<t, k>> \in Work'
  BY <1>1, WorkOfNode
<1>6. w \in Work
  BY <1>1, <1>4, WorkParts
<1>7. (w = Entry /\ nodes[0].idx = 0) \/ IsHandover(w)
  <2>1. w = Entry \/ IsHandover(w)
    BY <1>6 DEF Handing, WorkAre
  <2> QED
    BY <1>1, <1>4, <2>1 DEF Stack!AssertionFails, Entry
<1>8. /\ nodes' = nodes /\ instructions' = instructions /\ solveStatus' = solveStatus
      /\ seen' = seen \cup {w} /\ next \subseteq next' /\ \A e \in next' \ next : e[1] = k
  BY <1>1, <1>3 DEF NodeDone
<1>9. /\ DOMAIN entryStates' = DOMAIN entryStates \cup {k} /\ DOMAIN exitStates' = DOMAIN entryStates'
      /\ entryStates'[k] = entries /\ exitStates'[k] = exits
      /\ \A j \in DOMAIN entryStates : j # k => /\ entryStates'[j] = entryStates[j]
                                                /\ exitStates'[j] = exitStates[j]
  BY <1>3 DEF NodeDone, Stack!Store, Handing, VisitedAre
<1>10. \A x : IsHandover(x) => IsHandover(x)'
  BY <1>8, <1>9 DEF IsHandover
<1>11. IsFiled(k) /\ k \in Nat
  BY <1>1, <1>4, TakenIs DEF Cut, FiledByStart
<1>12. \A j, t : RunOf(j, t)' = RunOf(j, t)
  BY <1>8 DEF RunOf, EntryState, Stack!Run, Stack!RunUpTo, Stack!Passed, Stack!After, Stack!CodeOf,
              Stack!OperandsAt, Stack!DataOf
<1>13. SeenAre'
  BY <1>1, <1>7, <1>8, <1>9, <1>10 DEF Handing, SeenAre, Entry
<1>14. VisitedAre' /\ VisitedSeen'
  BY <1>1, <1>8, <1>9 DEF VisitedAre, Handing, VisitedSeen
<1>15. WorkAre'
  <2> SUFFICES ASSUME NEW x \in Work', x # Entry PROVE IsHandover(x)'
    BY DEF WorkAre, Entry
  <2>1. CASE x \in Work
    BY <1>10, <2>1 DEF Handing, WorkAre
  <2>2. CASE x = <<x[1], k>> /\ <<k, x[1]>> \in next'
    BY <1>9, <1>11, <2>2 DEF IsHandover, Stack!Nowhere
  <2> QED
    BY <1>5, <2>1, <2>2
<1>16. EdgesFollowed'
  <2> SUFFICES ASSUME NEW j \in DOMAIN entryStates', NEW t, <<j, t>> \in next'
               PROVE  <<t, j>> \in seen' \cup Work'
    BY DEF EdgesFollowed
  <2>1. CASE j = k
    <3>1. IsFiled(t)
      <4>1. EdgesFiled'
        BY SolveNodeKeeps
      <4> QED
        BY <1>8, <4>1 DEF EdgesFiled, IsFiled
    <3> QED
      BY <1>5, <2>1, <3>1 DEF IsFiled
  <2>2. CASE j # k
    <3>1. <<j, t>> \in next
      BY <1>8, <2>2
    <3> QED
      BY <1>5, <1>8, <1>9, <2>2, <3>1 DEF Handing, EdgesFollowed
  <2> QED
    BY <2>1, <2>2
<1>17. EntryTaken'
  <2>1. solveStatus' # "waiting" /\ IsFiled(0)' => Entry \in seen' \cup Work'
    BY <1>5, <1>8 DEF Handing, EntryTaken, IsFiled
  <2>2. ASSUME Entry \in seen' PROVE <<>> \in DOMAIN entryStates'[0]
    <3>1. CASE Entry = w
      <4>1. k = 0 /\ p = Stack!Nowhere
        BY <1>1, <3>1 DEF Entry
      <4> QED
        BY <1>2, <1>9, <4>1, HandedOverHas
    <3>2. CASE Entry \in seen
      <4>1. <<>> \in DOMAIN entryStates[0] /\ 0 \in DOMAIN entryStates
        BY <3>2 DEF Handing, EntryTaken, SeenAre, Entry
      <4>2. CASE k = 0
        <5>1. DOMAIN entryStates[0] \subseteq DOMAIN Stack!HandedOver(k, p)
          BY <4>1, <4>2, HandedOverHas DEF Stack!StatesOf
        <5> QED
          BY <1>2, <1>9, <4>1, <4>2, <5>1
      <4> QED
        BY <1>9, <4>1, <4>2
    <3> QED
      BY <1>8, <2>2, <3>1, <3>2
  <2>3. nodes[0].idx = 0
    <3>1. CASE seen # {}
      BY <3>1 DEF Handing, EntryTaken
    <3>2. CASE seen = {}
      <4>1. DOMAIN entryStates = {}
        BY <3>2 DEF Handing, VisitedSeen
      <4> QED
        BY <1>7, <4>1 DEF IsHandover
    <3> QED
      BY <3>1, <3>2
  <2> QED
    BY <1>8, <2>1, <2>2, <2>3 DEF EntryTaken, Entry
<1>18. RunsKnown'
  <2> SUFFICES ASSUME NEW j \in DOMAIN entryStates', NEW s \in DOMAIN entryStates'[j]
               PROVE  RunKnown(j, s)'
    BY DEF RunsKnown
  <2>1. CASE j = k
    <3>1. /\ \E t \in DOMAIN exitStates'[k] : Alike(RunOf(k, s).stack, t)
          /\ \A u \in RunOf(k, s).targets :
                IsFiled(u) /\ nodes[u].isJumpDest => <<k, u>> \in next'
      BY <1>3, <1>9, <2>1 DEF NodeDone
    <3> QED
      BY <1>8, <1>12, <2>1, <3>1 DEF RunKnown, IsFiled
  <2>2. CASE j # k
    <3>1. j \in DOMAIN entryStates /\ s \in DOMAIN entryStates[j] /\ exitStates'[j] = exitStates[j]
      BY <1>9, <2>2
    <3>2. RunKnown(j, s)
      BY <3>1 DEF Handing, RunsKnown
    <3> QED
      BY <1>8, <1>12, <3>1, <3>2 DEF RunKnown, IsFiled
  <2> QED
    BY <2>1, <2>2
<1>19. HandedOn'
  <2> SUFFICES ASSUME nodes[0].end # 0, NEW e \in seen', e[2] # Stack!Nowhere, HasOnePrev(e[2])'
               PROVE  DOMAIN exitStates'[e[2]] \subseteq DOMAIN entryStates'[e[1]]
    BY <1>8 DEF HandedOn
  <2>1. HasOnePrev(e[2])
    BY <1>8 DEF HasOnePrev
  <2>2. HasOnePrev(k) => k \notin DOMAIN entryStates
    BY <1>1, <1>4, <1>7, <1>11, FirstTime DEF Handing, Entry
  <2>3. CASE e = w
    <3>1. p \in DOMAIN entryStates /\ p # Stack!Nowhere
      BY <1>1, <1>7, <2>3 DEF IsHandover, Entry
    <3>2. DOMAIN exitStates[p] \subseteq DOMAIN entries
      BY <1>2, <3>1, HandedOverHas DEF Stack!StatesOf, Handing, VisitedAre
    <3>3. p # k
      BY <1>1, <2>1, <2>2, <2>3, <3>1
    <3> QED
      BY <1>1, <1>9, <2>3, <3>1, <3>2, <3>3
  <2>4. CASE e \in seen
    <3>1. e[1] \in DOMAIN entryStates /\ e[2] \in DOMAIN entryStates
      <4>1. e[1] \in DOMAIN entryStates /\ (e = Entry \/ IsHandover(e))
        BY <2>4 DEF Handing, SeenAre
      <4>2. e # Entry
        BY DEF Entry
      <4> QED
        BY <4>1, <4>2 DEF IsHandover
    <3>2. DOMAIN exitStates[e[2]] \subseteq DOMAIN entryStates[e[1]]
      BY <2>1, <2>4 DEF Handing, HandedOn
    <3>3. e[2] # k
      BY <2>1, <2>2, <3>1
    <3>4. DOMAIN entryStates[e[1]] \subseteq DOMAIN entryStates'[e[1]]
      <4>1. CASE e[1] = k
        <5>1. DOMAIN entryStates[k] \subseteq DOMAIN Stack!HandedOver(k, p)
          BY <3>1, <4>1, HandedOverHas DEF Stack!StatesOf
        <5> QED
          BY <1>2, <1>9, <4>1, <5>1
      <4>2. CASE e[1] # k
        BY <1>9, <3>1, <4>2
      <4> QED
        BY <4>1, <4>2
    <3> QED
      BY <1>9, <3>1, <3>2, <3>3, <3>4
  <2> QED
    BY <1>8, <2>3, <2>4
<1> QED
  BY <1>13, <1>14, <1>15, <1>16, <1>17, <1>18, <1>19 DEF Handing

\* The other steps of solveStack put the entry on the worklist, or take off it what has
\* been taken before.
LEMMA OthersHand ==
    ASSUME WorkListed, Handing, Stack!Begin \/ Stack!Skip \/ Stack!Die \/ Stack!Return,
           solveStatus = "waiting" => DOMAIN entryStates = {}
    PROVE  Handing'
<1>1. UNCHANGED <<instructions, nodes, next, seen, entryStates, exitStates>>
  BY DEF Stack!Begin, Stack!Skip, Stack!Die, Stack!Return
<1>2. \A j, t : RunOf(j, t)' = RunOf(j, t)
  BY <1>1 DEF RunOf, EntryState, Stack!Run, Stack!RunUpTo, Stack!Passed, Stack!After, Stack!CodeOf,
              Stack!OperandsAt, Stack!DataOf
<1>3. /\ \A x \in Work' : x \in Work \/ x = Entry
      /\ \A x \in Work : x \in Work' \/ x \in seen \/ solveStatus = "waiting"
      /\ solveStatus # "waiting" \/ (IsFiled(0) => Entry \in Work')
  <2>1. CASE Stack!Begin
    <3>1. worklist' = IF IsFiled(0) THEN <<Entry>> ELSE <<>>
      BY <2>1, SameInStack DEF Stack!Begin, Entry
    <3>2. CASE IsFiled(0)
      BY <2>1, <3>1, <3>2 DEF Stack!Begin, Work
    <3>3. CASE ~IsFiled(0)
      BY <2>1, <3>1, <3>3 DEF Stack!Begin, Work
    <3> QED
      BY <3>2, <3>3
  <2>2. CASE Stack!Skip
    <3>1. worklist # <<>> /\ worklist' = Stack!Others /\ Stack!Taken \in seen
          /\ solveStatus # "waiting"
      BY <2>2 DEF Stack!Skip, Stack!WasSeen
    <3>2. \A x : x \in Work <=> IsListed(x, Stack!Others) \/ x = Stack!Taken
      BY <3>1, WorkParts
    <3>3. \A x : x \in Work' <=> IsListed(x, Stack!Others)
      BY <3>1 DEF Work, IsListed
    <3> QED
      BY <3>1, <3>2, <3>3
  <2>3. CASE Stack!Die \/ Stack!Return
    <3>1. worklist' = worklist /\ solveStatus # "waiting"
      BY <2>3 DEF Stack!Die, Stack!Return
    <3> QED
      BY <3>1 DEF Work
  <2> QED
    BY <2>1, <2>2, <2>3
<1>4. VisitedAre' /\ SeenAre' /\ VisitedSeen' /\ HandedOn'
  BY <1>1 DEF Handing, VisitedAre, SeenAre, VisitedSeen, HandedOn, HasOnePrev, IsHandover, Entry
<1>5. WorkAre'
  <2>1. \A x : IsHandover(x) => IsHandover(x)'
    BY <1>1 DEF IsHandover
  <2> QED
    BY <1>3, <2>1 DEF Handing, WorkAre, Entry
<1>6. EdgesFollowed'
  <2> SUFFICES ASSUME NEW k \in DOMAIN entryStates, NEW t, <<k, t>> \in next
               PROVE  <<t, k>> \in seen \cup Work'
    BY <1>1 DEF EdgesFollowed
  <2>1. solveStatus # "waiting"
    OBVIOUS
  <2> QED
    BY <1>3, <2>1 DEF Handing, EdgesFollowed
<1>7. EntryTaken'
  BY <1>1, <1>3 DEF Handing, EntryTaken, Entry, IsFiled
<1>8. RunsKnown'
  BY <1>1, <1>2 DEF Handing, RunsKnown, RunKnown, IsFiled
<1> QED
  BY <1>4, <1>5, <1>6, <1>7, <1>8 DEF Handing

BeingHanded ==
    /\ Handing
    /\ solveStatus = "done" => worklist = <<>>
    /\ solveStatus = "aborted" => IsFiled(0) /\ nodes[0].idx # 0

\* The assertion fails of the entry only: every other node is entered from one.
LEMMA EntryFails ==
    ASSUME WorkListed, Handing, EdgesFiled, worklist # <<>>, Stack!AssertionFails
    PROVE  IsFiled(0) /\ nodes[0].idx # 0
<1>1. Stack!Taken \in Work /\ Len(worklist) \in Nat \ {0}
  BY WorkParts
<1>2. Stack!Taken = Entry
  BY <1>1 DEF Handing, WorkAre, IsHandover, Stack!AssertionFails
<1>3. PICK i \in 1 .. Len(worklist) : worklist[i] = Entry
  BY <1>1, <1>2 DEF Stack!Taken
<1>4. IsFiled(0)
  <2>1. worklist[i][1] = 0
    BY <1>3 DEF Entry
  <2>2. IsFiled(0) \/ <<worklist[i][2], 0>> \in next
    BY <2>1 DEF WorkListed
  <2>3. ASSUME NEW p, <<p, 0>> \in next PROVE IsFiled(0)
    <3>1. PICK e \in next : e = <<p, 0>>
      BY <2>3
    <3> QED
      BY <3>1 DEF EdgesFiled
  <2> QED
    BY <2>2, <2>3
<1> QED
  BY <1>2, <1>4 DEF Stack!AssertionFails, Entry

LEMMA WaitingHands == BeingSolved /\ BeingWalked /\ solveStatus = "waiting" => Handing
  BY IdleHands DEF BeingSolved, BeingWalked

-----------------------------------------------------------------------------
(***************************************************************************)
(* From here on fillInstructions and initGraph are also seen as the proofs *)
(* about them see them, with the streams Program may hand to initGraph.    *)
(***************************************************************************)
AllStreams == {s \in UNION {[D -> Byte] : D \in SUBSET Nat} : IsStream(s)}

Pass  == INSTANCE InitGraphProofs WITH instructions <- Opcodes, Streams <- AllStreams
Fills == INSTANCE FillInstructionsProofs

-----------------------------------------------------------------------------
(***************************************************************************)
(* fillInstructions and initGraph are where FillInstructionsProofs and     *)
(* InitGraphProofs say.                                                    *)
(***************************************************************************)

\* The stack and the operands are as FillInstructionsProofs says.
BeingFilled == Fills!IInv /\ Fills!FoldingsAreSolved

\* initGraph begins when fillInstructions has returned, and is where InitGraphProofs
\* says until it returns itself.
BeingCut ==
    /\ fillStatus # "filled" =>
          /\ remaining = {} /\ DOMAIN nodes = {} /\ idx = 1 /\ built = FALSE
          /\ currNode = [start |-> 0, end |-> 0, idx |-> 0, isJumpDest |-> FALSE]
    /\ fillStatus = "filled" /\ ~built => Pass!Handed
    /\ built => remaining = {}

-----------------------------------------------------------------------------
(***************************************************************************)
(* One opcode table serves all passes.                                     *)
(***************************************************************************)

LEMMA SameInPass ==
    /\ \A op : Pass!Length(op) = Length(op)
    /\ \A s, o : Pass!EndOf(s, o) = EndOf(s, o)
    /\ \A s : Pass!IsStream(s) <=> IsStream(s)
    /\ \A op : (Pass!IsBranch(op) <=> IsBranch(op)) /\ (Pass!IsStop(op) <=> IsStop(op))
    /\ Pass!OP_JUMPDEST = OP_JUMPDEST
<1>1. \A op : Pass!Length(op) = Length(op)
  BY DEF Pass!Length, Length, Pass!IsPush, IsPush, Pass!OP_PUSH1, OP_PUSH1,
         Pass!OP_PUSH32, OP_PUSH32
<1>2. \A s, o : Pass!EndOf(s, o) = EndOf(s, o)
  BY <1>1 DEF Pass!EndOf, EndOf
<1>3. \A s : Pass!IsStream(s) <=> IsStream(s)
  BY <1>2 DEF Pass!IsStream, IsStream, Pass!Byte, Byte
<1>4. \A op : (Pass!IsBranch(op) <=> IsBranch(op)) /\ (Pass!IsStop(op) <=> IsStop(op))
  BY DEF Pass!IsBranch, IsBranch, Pass!IsStop, IsStop, Pass!OP_JUMP, OP_JUMP,
         Pass!OP_JUMPI, OP_JUMPI, Pass!OP_STOP, OP_STOP, Pass!OP_RETURN, OP_RETURN,
         Pass!OP_INVALID, OP_INVALID, Pass!OP_SUICIDE, OP_SUICIDE
<1>5. Pass!OP_JUMPDEST = OP_JUMPDEST
  BY DEF Pass!OP_JUMPDEST, OP_JUMPDEST
<1> QED
  BY <1>1, <1>2, <1>3, <1>4, <1>5

\* The streams the pass is given are streams.
LEMMA StreamsHold == \A s \in AllStreams : Pass!IsStream(s)
  BY SameInPass DEF AllStreams

-----------------------------------------------------------------------------
(***************************************************************************)
(* The pass Fill of Program and Fills, which FillInstructionsProofs is     *)
(* about, are instances of one module: what is defined in one is what is   *)
(* defined in the other, from the opcode table up to the steps.            *)
(***************************************************************************)

\* Instructions are as long.
LEMMA SameLength == \A op : Fill!Length(op) = Fills!Length(op)
  BY Zenon DEF Fill!Length, Fills!Length, Fill!IsPush, Fills!IsPush, Fill!OP_PUSH1,
         Fills!OP_PUSH1, Fill!OP_PUSH32, Fills!OP_PUSH32

\* They take as many values ...
LEMMA SameStackRemoved == \A op : Fill!StackRemoved(op) = Fills!StackRemoved(op)
  BY Zenon DEF Fill!StackRemoved, Fills!StackRemoved, Fill!IsDup, Fills!IsDup,
         Fill!OP_DUP1, Fills!OP_DUP1, Fill!OP_DUP16, Fills!OP_DUP16, Fill!IsSwap,
         Fills!IsSwap, Fill!OP_SWAP1, Fills!OP_SWAP1, Fill!OP_SWAP16, Fills!OP_SWAP16

\* ... and leave as many.
LEMMA SameStackAdded == \A op : Fill!StackAdded(op) = Fills!StackAdded(op)
  BY Zenon DEF Fill!StackAdded, Fills!StackAdded, Fill!IsDup, Fills!IsDup, Fill!OP_DUP1,
         Fills!OP_DUP1, Fill!OP_DUP16, Fills!OP_DUP16, Fill!IsSwap, Fills!IsSwap,
         Fill!OP_SWAP1, Fills!OP_SWAP1, Fill!OP_SWAP16, Fills!OP_SWAP16, Fill!IsPush,
         Fills!IsPush, Fill!OP_PUSH1, Fills!OP_PUSH1, Fill!OP_PUSH32, Fills!OP_PUSH32

\* Solve computes the same,
LEMMA SameSolve == \A op, in : Fill!Solve(op, in) = Fills!Solve(op, in)
  BY ZenonT(40) DEF Fill!Solve, Fills!Solve, Fill!OP_ADD, Fills!OP_ADD, Fill!OP_MUL,
         Fills!OP_MUL, Fill!OP_SUB, Fills!OP_SUB, Fill!OP_DIV, Fills!OP_DIV, Fill!OP_SDIV,
         Fills!OP_SDIV, Fill!OP_MOD, Fills!OP_MOD, Fill!OP_LT, Fills!OP_LT, Fill!OP_GT,
         Fills!OP_GT, Fill!OP_EQ, Fills!OP_EQ, Fill!OP_ISZERO, Fills!OP_ISZERO,
         Fill!OP_AND, Fills!OP_AND, Fill!OP_XOR, Fills!OP_XOR, Fill!OP_NOT, Fills!OP_NOT,
         Fill!Quotient, Fills!Quotient, Fill!Truth, Fills!Truth, Fill!Modulus,
         Fills!Modulus, Fill!PowerOf256, Fills!PowerOf256, Fill!Bits!BitwiseSum,
         Fills!Bits!BitwiseSum, Fill!Bits!PowerOf2, Fills!Bits!PowerOf2, Fill!Bits!AndBits,
         Fills!Bits!AndBits, Fill!Bits!XorBits, Fills!Bits!XorBits

\* A result is written the same,
LEMMA SameGetVecFromInt64 == \A i : Fill!GetVecFromInt64(i) = Fills!GetVecFromInt64(i)
  BY Zenon DEF Fill!GetVecFromInt64, Fills!GetVecFromInt64, Fill!LowBytes, Fills!LowBytes,
         Fill!Modulus, Fills!Modulus, Fill!PowerOf256, Fills!PowerOf256

\* of the same int64_t,
LEMMA SameSigned == \A i : Fill!Signed(i) = Fills!Signed(i) /\ Fill!Modulus = Fills!Modulus
  BY Zenon DEF Fill!Signed, Fills!Signed, Fill!Modulus, Fills!Modulus, Fill!PowerOf256,
         Fills!PowerOf256

\* and so a folding has the same output.
LEMMA SameResult == \A op, in : Fill!Result(op, in) = Fills!Result(op, in)
<1> TAKE op, in
<1>1. Fill!Result(op, in)
        = Fill!GetVecFromInt64(Fill!Signed(Fill!Solve(op, in) % Fill!Modulus))
  BY DEF Fill!Result
<1>2. Fills!Result(op, in)
        = Fills!GetVecFromInt64(Fills!Signed(Fills!Solve(op, in) % Fills!Modulus))
  BY DEF Fills!Result
<1> QED
  BY <1>1, <1>2, SameSolve, SameGetVecFromInt64, SameSigned, Zenon

\* It kills the program on the same operands.
LEMMA SameTraps == \A op, in : Fill!Traps(op, in) <=> Fills!Traps(op, in)
  BY Zenon DEF Fill!Traps, Fills!Traps, Fill!MinInt64, Fills!MinInt64, Fill!OP_MOD,
         Fills!OP_MOD, Fill!OP_DIV, Fills!OP_DIV, Fill!OP_SDIV, Fills!OP_SDIV, Fill!Signed,
         Fills!Signed, Fill!Modulus, Fills!Modulus, Fill!PowerOf256, Fills!PowerOf256

\* Operands are popped alike,
LEMMA SameOperands ==
    \A op, entry, args : Fill!Operands(op, entry, args) = Fills!Operands(op, entry, args)
  BY SameStackRemoved DEF Fill!Operands, Fills!Operands, Fill!Argument, Fills!Argument

\* as many of them are missing and the same is left below them.
LEMMA SameMissing ==
    \A op, entry :
    /\ Fill!Missing(op, entry) = Fills!Missing(op, entry)
    /\ Fill!Rest(op, entry) = Fills!Rest(op, entry)
  BY SameStackRemoved DEF Fill!Missing, Fills!Missing, Fill!Rest, Fills!Rest

\* Outputs are made alike.
LEMMA SameFreshOutputs ==
    \A op, value, first : Fill!FreshOutputs(op, value, first)
        = Fills!FreshOutputs(op, value, first)
  BY ZenonT(40) DEF Fill!FreshOutputs, Fills!FreshOutputs, Fill!Constant, Fills!Constant,
         Fill!Symbol, Fills!Symbol, Fill!StackAdded, Fills!StackAdded, Fill!IsDup,
         Fills!IsDup, Fill!OP_DUP1, Fills!OP_DUP1, Fill!OP_DUP16, Fills!OP_DUP16,
         Fill!IsSwap, Fills!IsSwap, Fill!OP_SWAP1, Fills!OP_SWAP1, Fill!OP_SWAP16,
         Fills!OP_SWAP16, Fill!IsPush, Fills!IsPush, Fill!OP_PUSH1, Fills!OP_PUSH1,
         Fill!OP_PUSH32, Fills!OP_PUSH32

\* The same instructions are folded,
LEMMA SameFolds == \A op, operands : Fill!Folds(op, operands) <=> Fills!Folds(op, operands)
  BY Zenon DEF Fill!Folds, Fills!Folds, Fill!IsArithmetic, Fills!IsArithmetic,
         Fill!IsUnknown, Fills!IsUnknown, Fill!Known, Fills!Known, Fill!OP_EXP,
         Fills!OP_EXP, Fill!OP_SIGNEXTEND, Fills!OP_SIGNEXTEND, Fill!OP_ADD, Fills!OP_ADD,
         Fill!OP_BYTE, Fills!OP_BYTE, Fill!HasLogic, Fills!HasLogic, Fill!OP_MUL,
         Fills!OP_MUL, Fill!OP_SUB, Fills!OP_SUB, Fill!OP_DIV, Fills!OP_DIV, Fill!OP_SDIV,
         Fills!OP_SDIV, Fill!OP_MOD, Fills!OP_MOD, Fill!OP_LT, Fills!OP_LT, Fill!OP_GT,
         Fills!OP_GT, Fill!OP_EQ, Fills!OP_EQ, Fill!OP_ISZERO, Fills!OP_ISZERO,
         Fill!OP_AND, Fills!OP_AND, Fill!OP_XOR, Fills!OP_XOR, Fill!OP_NOT, Fills!OP_NOT,
         Fill!AllReadable, Fills!AllReadable, Fill!IsReadable, Fills!IsReadable

\* and of the same values.
LEMMA SameValues == \A operands : Fill!Values(operands) = Fills!Values(operands)
  BY Zenon DEF Fill!Values, Fills!Values, Fill!GetInt64FromVec, Fills!GetInt64FromVec,
         Fill!Signed, Fills!Signed, Fill!WordOf, Fills!WordOf, Fill!Modulus, Fills!Modulus,
         Fill!PowerOf256, Fills!PowerOf256

\* Outputs are pushed alike.
LEMMA SamePushed ==
    \A rest, outputs : Fill!Pushed(rest, outputs) = Fills!Pushed(rest, outputs)
  BY Zenon DEF Fill!Pushed, Fills!Pushed

\* DUP and SWAP rewrite their operands alike,
LEMMA SameDupOutputs ==
    \A operands :
    /\ Fill!DupOutputs(operands) = Fills!DupOutputs(operands)
    /\ Fill!SwapOutputs(operands) = Fills!SwapOutputs(operands)
  BY Zenon DEF Fill!DupOutputs, Fills!DupOutputs, Fill!SwapOutputs, Fills!SwapOutputs

\* and they are the same opcodes.
LEMMA SameManipulators ==
    \A op : (Fill!IsDup(op) <=> Fills!IsDup(op)) /\ (Fill!IsSwap(op) <=> Fills!IsSwap(op))
  BY Zenon DEF Fill!IsDup, Fills!IsDup, Fill!OP_DUP1, Fills!OP_DUP1, Fill!OP_DUP16,
         Fills!OP_DUP16, Fill!IsSwap, Fills!IsSwap, Fill!OP_SWAP1, Fills!OP_SWAP1,
         Fill!OP_SWAP16, Fills!OP_SWAP16

\* simplify does the same.
LEMMA SameSimplified ==
    \A op, operands, outputs : Fill!Simplified(op, operands, outputs)
        = Fills!Simplified(op, operands, outputs)
<1> TAKE op, operands, outputs
<1>1. Fill!Constant(outputs[1].idx, Fill!Result(op, Fill!Values(operands)))
        = Fills!Constant(outputs[1].idx, Fills!Result(op, Fills!Values(operands)))
  BY SameResult, SameValues DEF Fill!Constant, Fills!Constant
<1> QED
  BY <1>1, SameFolds, SameDupOutputs, SameManipulators, Zenon
     DEF Fill!Simplified, Fills!Simplified

\* The program is killed at the same instruction.
LEMMA SameTrapsHere == Fill!TrapsHere <=> Fills!TrapsHere
  BY SameTraps, SameOperands, SameMissing, SameFolds, SameValues
     DEF Fill!TrapsHere, Fills!TrapsHere

\* iterate hands over the same instructions.
LEMMA SameDecodes ==
    /\ Fill!Size = Fills!Size
    /\ Fill!Decodes <=> Fills!Decodes
    /\ Fill!Advance <=> Fills!Advance
  BY SameLength DEF Fill!Size, Fills!Size, Fill!Cardinality, Fills!Cardinality,
                    Fill!Decodes, Fills!Decodes, Fill!Advance, Fills!Advance

\* Entries are put into a map alike.
LEMMA SameStore == \A m, k, v : Fill!Store(m, k, v) = Fills!Store(m, k, v)
  BY DEF Fill!Store, Fills!Store

\* The table of the symbols becomes the same.
LEMMA SameSymbolsAfter ==
    \A op, operands, outputs : Fill!SymbolsAfter(op, operands, outputs)
        = Fills!SymbolsAfter(op, operands, outputs)
  BY Zenon DEF Fill!SymbolsAfter, Fills!SymbolsAfter, Fill!Created, Fills!Created,
         Fill!Used, Fills!Used, Fill!IsStackManipulatorOnly, Fills!IsStackManipulatorOnly,
         Fill!IsDup, Fills!IsDup, Fill!OP_DUP1, Fills!OP_DUP1, Fill!OP_DUP16,
         Fills!OP_DUP16, Fill!IsSwap, Fills!IsSwap, Fill!OP_SWAP1, Fills!OP_SWAP1,
         Fill!OP_SWAP16, Fills!OP_SWAP16, Fill!IsPush, Fills!IsPush, Fill!OP_PUSH1,
         Fills!OP_PUSH1, Fill!OP_PUSH32, Fills!OP_PUSH32, Fill!OP_POP, Fills!OP_POP

\* The immediate data is the same.
LEMMA SameData == Fill!Data = Fills!Data
  BY Zenon DEF Fill!Data, Fills!Data, Fill!Length, Fills!Length, Fill!IsPush, Fills!IsPush,
         Fill!OP_PUSH1, Fills!OP_PUSH1, Fill!OP_PUSH32, Fills!OP_PUSH32

\* An instruction does the same to the stack and to the maps.
LEMMA SameSimulate ==
    \A op, entry, args : Fill!Simulate(op, entry, args) <=> Fills!Simulate(op, entry, args)
<1> TAKE op, entry, args
<1>1. Fill!Simplified(op, Fill!Operands(op, entry, args),
                      Fill!FreshOutputs(op, Fill!Data, globalIdx))
        = Fills!Simplified(op, Fills!Operands(op, entry, args),
                           Fills!FreshOutputs(op, Fills!Data, globalIdx))
  BY SameOperands, SameFreshOutputs, SameSimplified, SameData, Zenon
<1> QED
  BY <1>1, SameStackAdded, SameOperands, SameMissing, SamePushed, SameStore,
     SameSymbolsAfter, Zenon DEF Fill!Simulate, Fills!Simulate

\* A JUMPDEST is the same opcode,
LEMMA SameJumpDest ==
    Fill!OP_JUMPDEST = Fills!OP_JUMPDEST /\ Fill!NoJumpDest = Fills!NoJumpDest
  BY Zenon DEF Fill!OP_JUMPDEST, Fills!OP_JUMPDEST, Fill!NoJumpDest, Fills!NoJumpDest

\* and the step at one is the same,
LEMMA SameAtJumpDest == Fill!AtJumpDest => Fills!AtJumpDest
  BY SameDecodes, SameStore, SameSimulate, SameJumpDest, Zenon
     DEF Fill!AtJumpDest, Fills!AtJumpDest

\* as is the step behind one
LEMMA SameAtInstruction == Fill!AtInstruction => Fills!AtInstruction
  BY SameMissing, SameTrapsHere, SameDecodes, SameSimulate, SameJumpDest
     DEF Fill!AtInstruction, Fills!AtInstruction

\* and the step in front of the first.
LEMMA SameAtEntryInstruction == Fill!AtEntryInstruction => Fills!AtEntryInstruction
  BY SameMissing, SameTrapsHere, SameDecodes, SameSimulate, SameJumpDest, Zenon
     DEF Fill!AtEntryInstruction, Fills!AtEntryInstruction

\* A step of fillInstructions in Program is one that FillInstructionsProofs is about.
LEMMA FillStepIsFills == Fill!Next => Fills!Next
  BY SameTrapsHere, SameDecodes, SameAtJumpDest, SameAtInstruction, SameAtEntryInstruction
     DEF Fill!Next, Fills!Next, Fill!Trap, Fills!Trap, Fill!Finish, Fills!Finish

-----------------------------------------------------------------------------
(***************************************************************************)
(* fillInstructions begins there and stays there.                          *)
(***************************************************************************)

\* What FillInstructionsProofs says is said of the byte strings here too.
LEMMA FillsAssumed == \A c \in Codes : Fills!IsByteString(c)
  BY CodesAssumption DEF IsByteString, Fills!IsByteString, Fills!IsFiniteSet, IsFiniteSet,
                         Fills!Cardinality, Cardinality, Fills!Byte, Byte

\* Before the pass there is nothing that could be wrong,
LEMMA FilledInit ==
    ASSUME IsByteString(code), pos = 0, stack = <<>>, DOMAIN instructions = {},
           DOMAIN symbols = {}
    PROVE  BeingFilled
<1>1. Fills!SymbolsIn(stack) = {} /\ Fills!IsSequence(stack) /\ Fills!HoldsBytes(stack)
  BY DEF Fills!SymbolsIn, Fills!IsSequence, Fills!HoldsBytes
<1>2. Fills!IInv
  BY <1>1 DEF Fills!IInv, Fills!EntriesNameInstructions, Fills!InstructionsBehind,
              Fills!StackIsKnown, Fills!SymbolTableIsSound, Fills!SymbolsKnown,
              Fills!SymbolsAcyclic, Fills!UsesRecorded
<1>3. Fills!IsByteString(code)
  BY DEF IsByteString, Fills!IsByteString, Fills!IsFiniteSet, IsFiniteSet,
         Fills!Cardinality, Cardinality, Fills!Byte, Byte
<1> QED
  BY <1>1, <1>2, <1>3 DEF BeingFilled, Fills!FoldingsAreSolved

\* and the steps of the pass keep it right.
LEMMA FilledKept ==
    ASSUME BeingFilled, Fill!Next \/ UNCHANGED filling
    PROVE  BeingFilled'
<1>1. [Fills!Next]_Fills!fillVars
  BY FillStepIsFills DEF filling, Fills!fillVars
<1> QED
  BY <1>1, Fills!NextKeeps, Fills!StepSolves, FillsAssumed, WidthAssumption DEF BeingFilled

-----------------------------------------------------------------------------
(***************************************************************************)
(* initGraph cuts it                                                       *)
(***************************************************************************)

\* What initGraph hands on, in terms of Program.
LEMMA HandedIsCut == Pass!Handed /\ built => Cut /\ AllFiled
<1> SUFFICES ASSUME Pass!Handed, built PROVE Cut /\ AllFiled
  OBVIOUS
<1>1. /\ Pass!TypeOK /\ Pass!FiledByStart /\ Pass!NodesDisjoint /\ Pass!Covered
      /\ Pass!NodeEnds /\ Pass!JumpDestsFiled /\ remaining = {}
  BY DEF Pass!Handed, Pass!Layers, Pass!Layout, Pass!Coverage
<1>2. /\ DOMAIN Opcodes = DOMAIN instructions
      /\ Pass!Visited = DOMAIN instructions
  BY <1>1 DEF Opcodes, Pass!Visited
<1>3. \A k \in DOMAIN nodes :
         /\ k \in Nat /\ nodes[k].start = k /\ nodes[k].end \in Nat /\ k <= nodes[k].end
  BY <1>1 DEF Pass!TypeOK, Pass!FiledByStart, Pass!CFNode, Pass!Unset
<1>4. \A k \in DOMAIN nodes : nodes[k] # Start!NoNode
  BY <1>3 DEF Start!NoNode, Start!Unset
<1>5. AllFiled /\ \A k : IsFiled(k) <=> k \in DOMAIN nodes
  BY <1>4 DEF AllFiled, IsFiled
<1>6. FiledByStart
  BY <1>3, <1>5 DEF FiledByStart
<1>7. FiledDisjoint
  BY <1>1, <1>5 DEF FiledDisjoint, Pass!NodesDisjoint
<1>8. FiledCover
  <2> SUFFICES ASSUME NEW o \in DOMAIN instructions, ~IsTrailingJumpDest(o)
               PROVE  \E k : Holds(k, o)
    BY DEF FiledCover
  <2>1. PICK k \in DOMAIN nodes : o \in Pass!Filed(k)
    BY <1>1, <1>2, SameInPass DEF Pass!Covered, IsTrailingJumpDest
  <2> QED
    BY <1>3, <1>5, <2>1 DEF Pass!Filed, Holds
<1>9. \A o : Pass!Apart(o) <=> Apart(o)
  BY <1>2, SameInPass DEF Pass!Apart, Apart, Pass!EndsNode
<1>10. FiledEnds
  <2> SUFFICES ASSUME NEW k \in DOMAIN nodes PROVE EndsBehind(k) \/ IsEmptyAt(k)
    BY <1>5 DEF FiledEnds
  <2>1. CASE Pass!EndsBehind(k)
    BY <1>2, <1>3, <2>1, SameInPass DEF Pass!EndsBehind, EndsBehind, EndsWith
  <2>2. CASE Pass!IsEmptyAt(k)
    BY <1>2, <1>9, <2>2 DEF Pass!IsEmptyAt, IsEmptyAt, IsTrailingJumpDest, Apart
  <2> QED
    BY <1>1, <2>1, <2>2 DEF Pass!NodeEnds
<1>11. ApartAreFiled
  BY <1>1, <1>2, <1>5, <1>9 DEF ApartAreFiled, Pass!JumpDestsFiled
<1>12. FiledStraight
  <2> SUFFICES ASSUME NEW o \in DOMAIN instructions, NEW k, Holds(k, o)
               PROVE  /\ IsBranch(Opcodes[o]) \/ IsStop(Opcodes[o])
                            => EndOf(Opcodes, o) = nodes[k].end
                      /\ Opcodes[o] = OP_JUMPDEST => o = k
    BY DEF FiledStraight
  <2>1. Pass!StraightLine
    BY DEF Pass!Handed, Pass!Layers, Pass!Straightness
  <2>2. k \in DOMAIN nodes /\ o \in Pass!Filed(k) \cap DOMAIN Opcodes
    <3>1. k \in DOMAIN nodes /\ k <= o /\ o < nodes[k].end /\ o \in Nat
      BY <1>1, <1>2 DEF Holds, IsFiled, Pass!TypeOK, Pass!IsStream
    <3>2. nodes[k].start = k /\ k \in Nat /\ nodes[k].end \in Nat
      BY <1>3, <3>1
    <3>3. o \in nodes[k].start .. (nodes[k].end - 1)
      BY <3>1, <3>2
    <3> QED
      BY <1>2, <3>1, <3>3 DEF Pass!Filed
  <2>3. /\ Pass!IsBranch(Opcodes[o]) \/ Pass!IsStop(Opcodes[o])
              => Pass!EndOf(Opcodes, o) = nodes[k].end
        /\ Opcodes[o] = Pass!OP_JUMPDEST => o = k
    BY <2>1, <2>2 DEF Pass!StraightLine
  <2> QED
    BY <2>3, SameInPass
<1>13. FiledStarts
  <2> SUFFICES ASSUME NEW k \in DOMAIN nodes, k < nodes[k].end
               PROVE  /\ k \in DOMAIN instructions /\ ~IsTrailingJumpDest(k)
                      /\ nodes[k].isJumpDest <=> Opcodes[k] = OP_JUMPDEST
    BY <1>5 DEF FiledStarts
  <2>1. nodes[k].end > k
    BY <1>3
  <2>2. k \in Pass!Abstract!Owed(Opcodes)
    BY <2>1 DEF Pass!Handed, Pass!TailLeftOut, Pass!Closed
  <2>3. k \in DOMAIN Opcodes /\ ~Pass!Abstract!IsLoneTail(Opcodes, k)
    BY <2>2 DEF Pass!Abstract!Owed, Pass!Abstract!Leaders
  <2>4. ~IsTrailingJumpDest(k)
    BY <1>2, <2>3 DEF IsTrailingJumpDest, Pass!Abstract!IsLoneTail, Pass!Abstract!OP_JUMPDEST,
                      OP_JUMPDEST
  <2>5. nodes[k].isJumpDest <=> Opcodes[k] = Pass!OP_JUMPDEST
    BY <2>1 DEF Pass!Handed, Pass!Flags, Pass!FlagMatchesCode
  <2> QED
    BY <1>2, <2>3, <2>4, <2>5, SameInPass
<1> QED
  BY <1>5, <1>6, <1>7, <1>8, <1>10, <1>11, <1>12, <1>13 DEF Cut

\* A step of initGraph in Program is one of the pass.
LEMMA GraphStepIsPass == Graph!Next => Pass!Next
<1> SUFFICES ASSUME Graph!Next PROVE Pass!Next
  OBVIOUS
<1>1. /\ Graph!OP_JUMPDEST = Pass!OP_JUMPDEST
      /\ Graph!Unset = Pass!Unset
      /\ Graph!FreshNode = Pass!FreshNode
      /\ Graph!NextIdx = Pass!NextIdx
  BY DEF Graph!OP_JUMPDEST, Pass!OP_JUMPDEST, Graph!Unset, Pass!Unset, Graph!FreshNode,
         Pass!FreshNode, Graph!NextIdx, Pass!NextIdx
<1>2. \A op : Graph!Length(op) = Pass!Length(op)
  BY DEF Graph!Length, Pass!Length, Graph!IsPush, Pass!IsPush, Graph!OP_PUSH1,
         Pass!OP_PUSH1, Graph!OP_PUSH32, Pass!OP_PUSH32
<1>3. \A o : Graph!EndOf(Opcodes, o) = Pass!EndOf(Opcodes, o)
  BY <1>2 DEF Graph!EndOf, Pass!EndOf
<1>4. \A o : /\ Graph!Extended(o) = Pass!Extended(o)
             /\ Graph!JumpDestNode(o) = Pass!JumpDestNode(o)
             /\ Graph!IsNext(o) <=> Pass!IsNext(o)
  BY <1>1, <1>3 DEF Graph!Extended, Pass!Extended, Graph!JumpDestNode, Pass!JumpDestNode,
                    Graph!IsNext, Pass!IsNext
<1>5. \A o : Graph!EndsNode(o) <=> Pass!EndsNode(o)
  BY DEF Graph!EndsNode, Pass!EndsNode, Graph!IsBranch, Pass!IsBranch, Graph!IsStop,
         Pass!IsStop, Graph!OP_JUMP, Pass!OP_JUMP, Graph!OP_JUMPI, Pass!OP_JUMPI,
         Graph!OP_STOP, Pass!OP_STOP, Graph!OP_RETURN, Pass!OP_RETURN,
         Graph!OP_INVALID, Pass!OP_INVALID, Graph!OP_SUICIDE, Pass!OP_SUICIDE
<1>6. \A n : /\ Graph!BeforeJumpDest(n) = Pass!BeforeJumpDest(n)
             /\ Graph!IsOpen(n) <=> Pass!IsOpen(n)
  BY <1>1 DEF Graph!BeforeJumpDest, Pass!BeforeJumpDest, Graph!IsOpen, Pass!IsOpen
<1>7. \A m, k, v : Graph!Store(m, k, v) = Pass!Store(m, k, v)
  BY DEF Graph!Store, Pass!Store
<1>8. ASSUME NEW o, Graph!CloseNode(o) PROVE Pass!CloseNode(o)
  BY <1>1, <1>4, <1>5, <1>7, <1>8 DEF Graph!CloseNode, Pass!CloseNode
<1>9. ASSUME NEW o, Graph!SplitNode(o) PROVE Pass!SplitNode(o)
  BY <1>1, <1>4, <1>5, <1>6, <1>7, <1>9 DEF Graph!SplitNode, Pass!SplitNode
<1>10. ASSUME NEW o, Graph!ExtendNode(o) PROVE Pass!ExtendNode(o)
  BY <1>1, <1>4, <1>5, <1>10 DEF Graph!ExtendNode, Pass!ExtendNode
<1>11. ASSUME Graph!FlushNode PROVE Pass!FlushNode
  BY <1>6, <1>7, <1>11 DEF Graph!FlushNode, Pass!FlushNode
<1> QED
  BY <1>8, <1>9, <1>10, <1>11 DEF Graph!Next, Pass!Next, Graph!Visit, Pass!Visit

LEMMA PassStarts ==
    ASSUME Decoded', remaining' = DOMAIN instructions', DOMAIN nodes' = {}, idx' = 1,
           built' = FALSE,
           currNode' = [start |-> 0, end |-> 0, idx |-> 0, isJumpDest |-> FALSE]
    PROVE  Pass!Init'
<1>1. Opcodes' \in AllStreams
  <2>1. IsStream(Opcodes)'
    BY DEF Decoded
  <2>2. /\ DOMAIN Opcodes' \in SUBSET Nat
        /\ Opcodes' \in [DOMAIN Opcodes' -> Byte]
    BY <2>1 DEF IsStream, Opcodes
  <2> QED
    BY <2>1, <2>2 DEF AllStreams
<1> QED
  BY <1>1 DEF Pass!Init, Opcodes

LEMMA PassBegins ==
    ASSUME Pass!Init'
    PROVE  Pass!Handed'
<1>1. (Pass!Init => Pass!Handed)'
  BY Pass!HandedInit, StreamsHold, PTL
<1> QED
  BY <1>1

-----------------------------------------------------------------------------
(***************************************************************************)
(* The inductive invariant                                                 *)
(***************************************************************************)
Inv ==
    /\ Decoded
    /\ BeingFilled
    /\ BeingCut
    /\ BeingLinked
    /\ BeingDrawn
    /\ BeingSolved
    /\ BeingAnswered
    /\ PendingAreBytes

\* Before the first pass, of the code given as of each contract found.
Fresh ==
    /\ IsByteString(code) /\ IsAddressable(code)
    /\ pos = 0 /\ DOMAIN instructions = {} /\ stack = <<>> /\ DOMAIN symbols = {}
    /\ fillStatus = "filling"
    /\ remaining = {} /\ idx = 1 /\ DOMAIN nodes = {} /\ built = FALSE
    /\ currNode = [start |-> 0, end |-> 0, idx |-> 0, isJumpDest |-> FALSE]
    /\ todo = {} /\ next = {} /\ issues = {} /\ startStatus = "waiting"
    /\ worklist = <<>> /\ DOMAIN entryStates = {} /\ solveStatus = "waiting"
    /\ reach = {} /\ findStatus = "waiting"
    /\ PendingAreBytes

LEMMA FreshHolds == Fresh => Inv
<1> SUFFICES ASSUME Fresh PROVE Inv
  OBVIOUS
<1> USE DEF Fresh
<1>1. Decoded /\ BeingFilled
  BY DecodedInit, FilledInit
<1>2. WorkListed
  <2>1. <<>> \in Seq({}) /\ Len(<<>>) = 0
    OBVIOUS
  <2> QED
    BY <2>1 DEF WorkListed
<1>3. BeingLinked
  BY DEF BeingLinked, EdgesFiled, AbortsEmpty
<1> QED
  BY <1>1, <1>2, <1>3 DEF Inv, BeingCut, BeingDrawn, BeingSolved, BeingAnswered

LEMMA InvInit == Init => Inv
<1> SUFFICES ASSUME Init PROVE Inv
  OBVIOUS
<1>1. /\ IsByteString(code) /\ IsAddressable(code) /\ pos = 0 /\ DOMAIN instructions = {}
      /\ stack = <<>> /\ DOMAIN symbols = {} /\ fillStatus = "filling"
  BY CodesAssumption DEF Init, Fill!Init, Fill!NoEntries
<1>2. PendingAreBytes
  BY DEF Init, PendingAreBytes
<1> QED
  BY <1>1, <1>2, FreshHolds DEF Init, Fresh

\* A pass that leaves the nodes alone keeps what is known of them.
LEMMA LinkedKept ==
    ASSUME Decoded, BeingLinked, UNCHANGED <<instructions, nodes, built, linking>>
    PROVE  BeingLinked'
<1>1. FiledStay
  BY DEF FiledStay, IsFiled
<1>2. built => Cut'
  BY <1>1, CutStays DEF BeingLinked
<1>3. /\ (startStatus' = startStatus /\ todo' = todo /\ next' = next /\ issues' = issues)
      /\ \A k : IsFiled(k)' <=> IsFiled(k)
  BY DEF linking, IsFiled
<1>4. /\ AllFiled => AllFiled'
      /\ NullsBehind => NullsBehind'
      /\ EdgesFiled => EdgesFiled'
      /\ FallsLinked => FallsLinked'
  BY <1>3 DEF AllFiled, NullsBehind, EdgesFiled, FallsLinked, EndsWith, Opcodes
<1>5. AbortsEmpty => AbortsEmpty'
  BY <1>3 DEF AbortsEmpty, EndsInEmptyNode, IsTrailingJumpDest, Opcodes
<1> QED
  BY <1>2, <1>3, <1>4, <1>5 DEF BeingLinked

LEMMA SolvedKept ==
    ASSUME BeingSolved, UNCHANGED <<nodes, startStatus, next, solving>>
    PROVE  BeingSolved'
  BY DEF BeingSolved, WorkListed, IsFiled, solving

LEMMA CutKept ==
    ASSUME BeingCut, built, UNCHANGED <<fillStatus, remaining, built>>
    PROVE  BeingCut'
  BY DEF BeingCut

-----------------------------------------------------------------------------
(***************************************************************************)
(* It is kept by every step                                                *)
(***************************************************************************)

LEMMA FillStepKeeps == Inv /\ FillStep => Inv'
<1> SUFFICES ASSUME Inv, FillStep PROVE Inv'
  OBVIOUS
<1>1. /\ Decoded' /\ fillStatus = "filling"
      /\ fillStatus' \in {"filling", "filled", "trapped"}
      /\ fillStatus' = "filled" => instructions' = instructions
  BY FillDecodes DEF Inv, FillStep
<1>2. /\ remaining = {} /\ DOMAIN nodes = {} /\ idx = 1 /\ built = FALSE
      /\ currNode = [start |-> 0, end |-> 0, idx |-> 0, isJumpDest |-> FALSE]
      /\ startStatus = "waiting" /\ todo = {} /\ next = {} /\ issues = {}
  BY <1>1 DEF Inv, BeingCut, BeingLinked
<1>3. /\ UNCHANGED <<currNode, idx, nodes, built, linking, solving, reach, later>>
      /\ remaining' = IF fillStatus' = "filled" THEN DOMAIN instructions ELSE {}
  BY DEF FillStep
<1>4. BeingCut'
  <2>1. CASE fillStatus' = "filled"
    <3>1. remaining' = DOMAIN instructions'
      BY <1>1, <1>3, <2>1
    <3>2. Pass!Handed'
      BY <1>1, <1>2, <1>3, <3>1, PassStarts, PassBegins
    <3> QED
      BY <1>2, <1>3, <2>1, <3>2 DEF BeingCut
  <2>2. CASE fillStatus' # "filled"
    BY <1>2, <1>3, <2>2 DEF BeingCut
  <2> QED
    BY <2>1, <2>2
<1>5. BeingLinked'
  BY <1>2, <1>3 DEF linking, BeingLinked, EdgesFiled, AbortsEmpty
<1>6. BeingSolved'
  BY <1>3, SolvedKept DEF Inv, linking
<1>7. BeingAnswered' /\ PendingAreBytes'
  BY <1>3 DEF Inv, BeingAnswered, PendingAreBytes, IsFiled, later, finding, solving
<1>8. BeingFilled'
  BY FilledKept DEF Inv, FillStep
<1>9. BeingDrawn'
  BY <1>2, <1>3 DEF BeingDrawn, linking
<1> QED
  BY <1>1, <1>4, <1>5, <1>6, <1>7, <1>8, <1>9 DEF Inv

LEMMA GraphStepKeeps == Inv /\ GraphStep => Inv'
<1> SUFFICES ASSUME Inv, GraphStep PROVE Inv'
  OBVIOUS
<1>1. /\ fillStatus = "filled" /\ Graph!Next
      /\ UNCHANGED <<filling, linking, solving, reach, later>>
  BY DEF GraphStep
<1>2. ~built
  BY <1>1 DEF Inv, BeingCut, Graph!Next, Graph!FlushNode
<1>3. /\ Pass!Handed
      /\ startStatus = "waiting" /\ todo = {} /\ next = {} /\ issues = {}
      /\ solveStatus = "waiting" /\ worklist = <<>> /\ DOMAIN entryStates = {}
      /\ findStatus = "waiting" /\ reach = {}
  BY <1>1, <1>2 DEF Inv, BeingCut, BeingLinked, BeingSolved, BeingAnswered
<1>4. Decoded'
  BY <1>1, DecodedKept DEF Inv
<1>5. Pass!Handed'
  BY <1>1, <1>3, GraphStepIsPass, Pass!HandedNext, StreamsHold
<1>6. built' => remaining' = {}
  BY <1>1, <1>2 DEF Graph!Next, Graph!FlushNode, Graph!Visit, Graph!CloseNode,
                    Graph!SplitNode, Graph!ExtendNode
<1>7. BeingCut'
  BY <1>1, <1>5, <1>6 DEF BeingCut, filling
<1>8. built' => Cut' /\ AllFiled'
  <2>1. (Pass!Handed /\ built => Cut /\ AllFiled)'
    BY HandedIsCut, PTL
  <2> QED
    BY <1>5, <2>1
<1>9. startStatus' = "waiting" /\ todo' = {} /\ next' = {} /\ issues' = {}
  BY <1>1, <1>3 DEF linking
<1>10. BeingLinked'
  <2>1. AllFiled' => NullsBehind'
    BY DEF AllFiled, NullsBehind
  <2> QED
    BY <1>8, <1>9, <2>1 DEF BeingLinked, EdgesFiled, AbortsEmpty
<1>11. BeingSolved'
  <2>1. solveStatus' = "waiting" /\ worklist' = <<>> /\ DOMAIN entryStates' = {}
    BY <1>1, <1>3 DEF solving
  <2>2. WorkListed'
    <3>1. <<>> \in Seq({}) /\ Len(<<>>) = 0
      OBVIOUS
    <3> QED
      BY <2>1, <3>1 DEF WorkListed
  <2> QED
    BY <1>9, <2>1, <2>2 DEF BeingSolved
<1>12. BeingAnswered' /\ PendingAreBytes'
  BY <1>1, <1>3 DEF Inv, BeingAnswered, PendingAreBytes, later, finding
<1>13. BeingFilled' /\ BeingDrawn'
  BY <1>1, <1>9, FilledKept DEF Inv, BeingDrawn
<1> QED
  BY <1>4, <1>7, <1>10, <1>11, <1>12, <1>13 DEF Inv

LEMMA StartStepKeeps == Inv /\ StartStep => Inv'
<1> SUFFICES ASSUME Inv, StartStep PROVE Inv'
  OBVIOUS
<1>1. /\ built /\ Start!Next
      /\ UNCHANGED <<filling, remaining, currNode, idx, built, solving, reach, later>>
  BY DEF StartStep
<1>2. startStatus # "done"
  BY <1>1 DEF Inv, BeingLinked, Start!Next, Start!Begin, Start!VisitNode, Start!Abort,
              Start!Return
<1>3. /\ solveStatus = "waiting" /\ worklist = <<>> /\ DOMAIN entryStates = {}
      /\ findStatus = "waiting" /\ reach = {}
  BY <1>2 DEF Inv, BeingSolved, BeingAnswered
<1>4. Decoded'
  BY <1>1, DecodedKept DEF Inv
<1>5. BeingCut'
  BY <1>1, CutKept DEF Inv, filling
<1>6. BeingLinked'
  BY <1>1, StartKeeps DEF Inv
<1>7. BeingSolved'
  <2>1. solveStatus' = "waiting" /\ worklist' = <<>> /\ DOMAIN entryStates' = {}
    BY <1>1, <1>3 DEF solving
  <2>2. WorkListed'
    <3>1. <<>> \in Seq({}) /\ Len(<<>>) = 0
      OBVIOUS
    <3> QED
      BY <2>1, <3>1 DEF WorkListed
  <2> QED
    BY <2>1, <2>2 DEF BeingSolved
<1>8. BeingAnswered' /\ PendingAreBytes'
  BY <1>1, <1>3 DEF Inv, BeingAnswered, PendingAreBytes, later, finding
<1>9. BeingFilled' /\ BeingDrawn'
  <2>1. startStatus # "waiting" => Drawn
    BY <1>3 DEF Inv, BeingDrawn
  <2>2. Drawn'
    BY <1>1, <2>1, StartDraws DEF Inv
  <2> QED
    BY <1>1, <2>2, FilledKept DEF Inv, BeingDrawn
<1> QED
  BY <1>4, <1>5, <1>6, <1>7, <1>8, <1>9 DEF Inv

LEMMA SolveStepKeeps == Inv /\ SolveStep => Inv'
<1> SUFFICES ASSUME Inv, SolveStep PROVE Inv'
  OBVIOUS
<1>1. /\ startStatus = "done" /\ Stack!Next
      /\ UNCHANGED <<filling, remaining, currNode, idx, built, todo, startStatus, reach, later>>
  BY DEF SolveStep
<1>2. built /\ solveStatus # "done"
  BY <1>1 DEF Inv, BeingLinked, Stack!Next, Stack!Begin, Stack!Skip, Stack!SolveNode,
              Stack!Die, Stack!Return
<1>3. findStatus = "waiting" /\ reach = {}
  BY <1>2 DEF Inv, BeingAnswered
<1>4. Decoded'
  BY <1>1, DecodedKept DEF Inv
<1>5. BeingCut'
  BY <1>1, <1>2, CutKept DEF Inv, filling
<1>6. BeingLinked' /\ BeingSolved'
  BY <1>1, <1>2, SolveKeeps DEF Inv
<1>7. BeingAnswered' /\ PendingAreBytes'
  BY <1>1, <1>3 DEF Inv, BeingAnswered, PendingAreBytes, later, finding
<1>8. BeingFilled'
  BY <1>1, FilledKept DEF Inv
<1>9. BeingDrawn'
  BY <1>1 DEF BeingDrawn, Stack!Next, Stack!Begin, Stack!Skip, Stack!SolveNode, Stack!Die,
              Stack!Return
<1> QED
  BY <1>4, <1>5, <1>6, <1>7, <1>8, <1>9 DEF Inv

\* The later passes find the graph built,
LEMMA DoneIsBuilt == Inv /\ solveStatus = "done" => built
  BY DEF Inv, BeingSolved, BeingLinked

\* and this is what they leave alone.
analysed == <<filling, cutting, linking, solving>>

LEMMA AnalysedKept ==
    ASSUME Inv, solveStatus = "done", UNCHANGED analysed
    PROVE  Decoded' /\ BeingFilled' /\ BeingCut' /\ BeingLinked' /\ BeingDrawn' /\ BeingSolved'
<1>1. Decoded' /\ BeingFilled'
  BY DecodedKept, FilledKept DEF Inv, analysed
<1>2. BeingCut'
  BY DoneIsBuilt, CutKept DEF Inv, analysed, filling, cutting
<1>3. BeingLinked'
  BY LinkedKept DEF Inv, analysed, filling, cutting
<1>4. BeingDrawn' /\ BeingSolved'
  BY SolvedKept DEF Inv, BeingDrawn, analysed, cutting, linking, solving
<1> QED
  BY <1>1, <1>2, <1>3, <1>4

LEMMA AskStepKeeps == Inv /\ AskStep => Inv'
<1> SUFFICES ASSUME Inv, AskStep PROVE Inv'
  OBVIOUS
<1>1. /\ built /\ solveStatus = "done" /\ reach' \in Answers
      /\ findStatus' = "asked" /\ UNCHANGED analysed /\ UNCHANGED pending
  BY DoneIsBuilt DEF AskStep, analysed
<1>2. \A k \in reach' : IsFiled(k)
  BY <1>1, AnswersAreFiled DEF Inv
<1>3. BeingAnswered' /\ PendingAreBytes'
  BY <1>1, <1>2 DEF Inv, BeingAnswered, PendingAreBytes, IsFiled, analysed, cutting, solving
<1> QED
  BY <1>1, <1>3, AnalysedKept DEF Inv

LEMMA FindStepKeeps == Inv /\ FindStep => Inv'
<1> SUFFICES ASSUME Inv, FindStep PROVE Inv'
  OBVIOUS
<1>1. /\ findStatus # "waiting" /\ findStatus' # "waiting"
      /\ nodes' = nodes /\ reach' = reach /\ UNCHANGED analysed
  BY DEF FindStep, Find!Next, Find!Begin, Find!Copy, Find!Search, Find!GiveUp, Find!Stop,
         Find!Exhaust, Find!Abort, Find!Return, analysed
<1>2. built /\ solveStatus = "done"
  BY <1>1, DoneIsBuilt DEF Inv, BeingAnswered
<1>3. PendingAreBytes'
  BY FindKeeps DEF Inv, Decoded
<1>4. BeingAnswered'
  BY <1>1, <1>2 DEF Inv, BeingAnswered, IsFiled, analysed, solving
<1> QED
  BY <1>1, <1>2, <1>3, <1>4, AnalysedKept DEF Inv

LEMMA WriteStepKeeps == Inv /\ WriteStep => Inv'
<1> SUFFICES ASSUME Inv, WriteStep PROVE Inv'
  OBVIOUS
<1>1. /\ findStatus = "done" /\ nodes' = nodes /\ reach' = reach /\ UNCHANGED analysed
      /\ UNCHANGED finding /\ UNCHANGED pending
  BY DEF WriteStep, Out!Next, Out!Begin, Out!Write, Out!Abort, Out!Return, analysed
<1>2. built /\ solveStatus = "done"
  BY <1>1, DoneIsBuilt DEF Inv, BeingAnswered
<1>3. BeingAnswered' /\ PendingAreBytes'
  BY <1>1, <1>2 DEF Inv, BeingAnswered, PendingAreBytes, IsFiled, analysed, solving, finding
<1> QED
  BY <1>1, <1>2, <1>3, AnalysedKept DEF Inv

\* A contract found is analysed like the code given.
LEMMA NestedStepKeeps == Inv /\ NestedStep => Inv'
<1> SUFFICES ASSUME Inv, NEW contract \in pending, Construct(contract) PROVE Inv'
  BY DEF NestedStep
<1>1. IsByteString(code') /\ IsAddressable(code') /\ PendingAreBytes'
  BY DEF Inv, PendingAreBytes, Construct
<1>2. /\ pos' = 0 /\ DOMAIN instructions' = {} /\ fillStatus' = "filling"
      /\ stack' = <<>> /\ DOMAIN symbols' = {}
      /\ remaining' = {} /\ idx' = 1 /\ DOMAIN nodes' = {} /\ built' = FALSE
      /\ currNode' = [start |-> 0, end |-> 0, idx |-> 0, isJumpDest |-> FALSE]
      /\ todo' = {} /\ next' = {} /\ issues' = {} /\ startStatus' = "waiting"
      /\ worklist' = <<>> /\ DOMAIN entryStates' = {} /\ solveStatus' = "waiting"
      /\ reach' = {} /\ findStatus' = "waiting"
  BY DEF Construct, Fill!NoEntries
<1>3. Fresh'
  BY <1>1, <1>2 DEF Fresh
<1>4. (Fresh => Inv)'
  BY FreshHolds, PTL
<1> QED
  BY <1>3, <1>4

LEMMA StutteringKeeps == Inv /\ UNCHANGED vars => Inv'
<1> SUFFICES ASSUME Inv, UNCHANGED vars PROVE Inv'
  OBVIOUS
<1>1. /\ UNCHANGED <<filling, cutting, linking, solving, reach, finding, pending>>
      /\ UNCHANGED <<instructions, nodes, built, fillStatus, remaining, currNode, idx>>
      /\ UNCHANGED <<startStatus, next>>
  BY DEF vars, filling, cutting, linking
<1>2. Decoded' /\ BeingFilled'
  BY <1>1, DecodedKept, FilledKept DEF Inv
<1>3. BeingCut'
  <2>1. fillStatus = "filled" /\ ~built => Pass!Handed'
    <3>1. UNCHANGED Pass!graphVars
      BY <1>1 DEF Pass!graphVars, Opcodes
    <3> QED
      BY <3>1, Pass!HandedNext, StreamsHold DEF Inv, BeingCut
  <2> QED
    BY <1>1, <2>1 DEF Inv, BeingCut
<1>4. BeingLinked'
  BY <1>1, LinkedKept DEF Inv
<1>5. BeingSolved'
  BY <1>1, SolvedKept DEF Inv
<1>6. BeingAnswered' /\ PendingAreBytes'
  BY <1>1 DEF Inv, BeingAnswered, PendingAreBytes, IsFiled, solving, finding
<1>7. BeingDrawn'
  <2>1. FiledStay
    BY <1>1 DEF FiledStay, IsFiled
  <2>2. UNCHANGED <<instructions, todo, next, startStatus, solveStatus>>
    BY <1>1 DEF linking, solving
  <2> QED
    BY <2>1, <2>2, DrawnKept DEF Inv, BeingDrawn, BeingLinked
<1> QED
  BY <1>2, <1>3, <1>4, <1>5, <1>6, <1>7 DEF Inv

LEMMA InvNext == Inv /\ [Next]_vars => Inv'
  BY FillStepKeeps, GraphStepKeeps, StartStepKeeps, SolveStepKeeps, AskStepKeeps,
     FindStepKeeps, WriteStepKeeps, NestedStepKeeps, StutteringKeeps DEF Next

LEMMA InvHolds == Spec => []Inv
  BY InvInit, InvNext, PTL DEF Spec

-----------------------------------------------------------------------------
(***************************************************************************)
(* What follows from it                                                    *)
(***************************************************************************)

\* initGraph makes no null pointer.
LEMMA HandedAreFiled == Pass!Handed => AllFiled
  BY DEF Pass!Handed, Pass!Layers, Pass!Layout, Pass!TypeOK, Pass!FiledByStart,
         Pass!CFNode, Pass!Unset, AllFiled, IsFiled, Start!NoNode, Start!Unset

\* A null pointer stands behind a node, and what holds the instruction there, if
\* anything does, is neither that node nor one before or behind it.
LEMMA InvNulls == Inv => NullsAreNeverMet
<1> SUFFICES ASSUME Inv PROVE NullsAreNeverMet
  OBVIOUS
<1>1. ASSUME NEW k \in DOMAIN nodes, nodes[k] = Start!NoNode, k \in DOMAIN instructions,
             ~IsTrailingJumpDest(k)
      PROVE  FALSE
  <2>1. ~IsFiled(k)
    BY <1>1 DEF IsFiled
  <2>2. built
    BY <1>1, <2>1, HandedAreFiled DEF Inv, BeingCut, AllFiled
  <2>3. Cut /\ NullsBehind
    BY <2>2 DEF Inv, BeingLinked
  <2>4. PICK m : IsFiled(m) /\ m < k /\ nodes[m].end = k /\ k \in Nat
    BY <1>1, <2>1, <2>3 DEF NullsBehind
  <2>5. PICK s : IsFiled(s) /\ s <= k /\ k < nodes[s].end
    BY <1>1, <2>3 DEF Cut, FiledCover, Holds
  <2>6. m \in Nat /\ s \in Nat /\ nodes[s].end \in Nat
    BY <2>3, <2>4, <2>5 DEF Cut, FiledByStart
  <2>7. CASE s < m
    <3>1. nodes[s].end <= m
      BY <2>3, <2>4, <2>5, <2>7 DEF Cut, FiledDisjoint
    <3> QED
      BY <2>4, <2>5, <2>6, <3>1
  <2>8. CASE m < s
    <3>1. k <= s
      BY <2>3, <2>4, <2>5, <2>8 DEF Cut, FiledDisjoint
    <3> QED
      BY <2>1, <2>4, <2>5, <2>6, <3>1
  <2>9. CASE m = s
    BY <2>4, <2>5, <2>9
  <2> QED
    BY <2>6, <2>7, <2>8, <2>9
<1>2. \A e \in next \cup issues : IsFiled(e[1]) /\ IsFiled(e[2])
  BY DEF Inv, BeingLinked, EdgesFiled
<1>3. \A k \in reach \cup DOMAIN entryStates : IsFiled(k)
  BY DEF Inv, BeingAnswered, BeingSolved
<1>4. \A i \in 1 .. Len(worklist) :
         worklist[i] = <<0, Stack!Nowhere>> \/ <<worklist[i][2], worklist[i][1]>> \in next
  BY DEF Inv, BeingSolved, WorkListed
<1> QED
  BY <1>1, <1>2, <1>3, <1>4 DEF NullsAreNeverMet

LEMMA InvLookups == Inv => LookupsFindNode
<1> SUFFICES ASSUME Inv, findStatus = "asked", NEW o \in DOMAIN instructions,
                    ~IsTrailingJumpDest(o)
             PROVE  \/ /\ Out!GetNode(o) \in DOMAIN nodes
                       /\ o \in InstructionsOf(Out!GetNode(o))
                    \/ /\ Out!GetNode(o) = Out!Failed
                       /\ ~IsFallThrough(Opcodes[LastOffset])
  BY DEF LookupsFindNode
<1>1. /\ Decoded /\ Cut /\ NullsBehind /\ FallsLinked /\ todo = {}
  BY DEF Inv, BeingAnswered, BeingSolved, BeingLinked
<1>2. PICK s : Holds(s, o)
  BY <1>1 DEF Cut, FiledCover
<1>3. CASE \E k \in DOMAIN nodes : o <= k
  <2>1. Out!GetNode(o) = s
    BY <1>1, <1>2, <1>3, GetNodeFinds
  <2>2. /\ s \in DOMAIN nodes /\ nodes[s].start = s /\ s \in Nat /\ nodes[s].end \in Nat
        /\ s <= o /\ o < nodes[s].end /\ o \in Nat
    BY <1>1, <1>2, InstructionsApart DEF Holds, IsFiled, Cut, FiledByStart
  <2>3. o \in nodes[s].start .. (nodes[s].end - 1)
    BY <2>2
  <2> QED
    BY <2>1, <2>2, <2>3 DEF InstructionsOf
<1>4. CASE ~\E k \in DOMAIN nodes : o <= k
  <2>1. \A k \in DOMAIN nodes : k \in Nat
    BY <1>1, KeysAreOffsets
  <2>2. o \in Nat /\ o \in DOMAIN code
    BY <1>1, InstructionsApart DEF Decoded
  <2>3. Out!GetNode(o) = Out!Failed
    <3>1. {k \in DOMAIN nodes : k >= o} = {}
      BY <1>4, <2>1, <2>2
    <3> QED
      BY <2>2, <3>1 DEF Out!GetNode
  <2>4. /\ LastOffset \in DOMAIN instructions
        /\ \A p \in DOMAIN instructions : p <= LastOffset
    <3>1. /\ Cardinality(DOMAIN code) \in Nat
          /\ DOMAIN instructions \in SUBSET (0 .. (Cardinality(DOMAIN code) - 1))
      BY <1>1, ByteStringFacts DEF Decoded
    <3>2. DOMAIN instructions \in SUBSET (0 .. Cardinality(DOMAIN code))
      BY <3>1
    <3>3. \E m \in DOMAIN instructions : \A p \in DOMAIN instructions : p <= m
      BY <3>1, <3>2, Last
    <3> QED
      BY <3>3 DEF LastOffset
  <2>5. ~IsFallThrough(Opcodes[LastOffset])
    <3> SUFFICES ASSUME IsFallThrough(Opcodes[LastOffset]) PROVE FALSE
      OBVIOUS
    <3>1. PICK k \in DOMAIN nodes : LastOffset <= k
      BY <1>1, <2>4, KeyBehind
    <3>2. o <= LastOffset /\ LastOffset \in Nat
      BY <1>1, <2>4, InstructionsApart
    <3> QED
      BY <1>4, <2>1, <2>2, <3>1, <3>2
  <2> QED
    BY <2>3, <2>5
<1> QED
  BY <1>3, <1>4

-----------------------------------------------------------------------------
(***************************************************************************)
(* The graph and the code, from the end of startGraph to the beginning of  *)
(* solveStack.                                                             *)
(***************************************************************************)

\* What holds once startGraph has returned and until solveStack begins.
Linked ==
    /\ Decoded /\ Cut /\ NullsBehind /\ EdgesFiled /\ Drawn /\ todo = {}
    /\ \A o \in DOMAIN instructions : Fills!TakesBytes(instructions[o])

LEMMA TargetIsWord ==
    ASSUME Linked, NEW q \in DOMAIN instructions, IsBranch(Opcodes[q]),
           Target(q).kind = "constant", IsReadable(Target(q).value)
    PROVE  WordOf(Target(q).value) \in Nat /\ WordOf(Target(q).value) < Modulus
<1>1. Fills!StackRemoved(instructions[q].op) \in {1, 2}
  <2>1. instructions[q].op \in {86, 87}
    BY DEF IsBranch, OP_JUMP, OP_JUMPI, Opcodes
  <2>2. Fills!StackRemoved(86) = 1 /\ Fills!StackRemoved(87) = 2
    BY DEF Fills!StackRemoved, Fills!IsDup, Fills!IsSwap, Fills!OP_DUP1, Fills!OP_DUP16,
           Fills!OP_SWAP1, Fills!OP_SWAP16
  <2> QED
    BY <2>1, <2>2
<1>2. 1 \in 1 .. Len(instructions[q].operands)
  BY <1>1 DEF Linked, Fills!TakesBytes
<1>3. Target(q).value \in Seq(Byte)
  BY <1>2 DEF Linked, Target, Fills!TakesBytes, Fills!HoldsBytes, Fills!Byte, Byte
<1> QED
  BY <1>3, ReadableWord

\* The nodes startGraph takes a jump to are those at the offset pushed.
LEMMA TakenJump ==
    ASSUME Linked, NEW q \in DOMAIN instructions, NEW m
    PROVE  m \in Start!JumpsTo(q) <=>
              /\ IsBranch(Opcodes[q]) /\ IsFiled(m)
              /\ Target(q).kind = "constant" /\ IsReadable(Target(q).value)
              /\ WordOf(Target(q).value) = m
<1> DEFINE w == WordOf(Target(q).value)
<1>1. m \in Start!JumpsTo(q) <=>
         /\ IsBranch(Opcodes[q]) /\ IsFiled(m)
         /\ Target(q).kind = "constant" /\ IsReadable(Target(q).value)
         /\ Signed(w) = m
  <2>1. \A x : Start!AllReadable(<<x>>) <=> x.kind = "constant" /\ IsReadable(x.value)
    BY SameReading DEF Start!AllReadable
  <2> QED
    BY <2>1, SameReading, SameInStart DEF Start!JumpsTo, Target, Opcodes, IsFiled
<1>2. ASSUME IsBranch(Opcodes[q]), IsFiled(m), Target(q).kind = "constant",
             IsReadable(Target(q).value)
      PROVE  Signed(w) = m <=> w = m
  <2>1. w \in Nat /\ w < Modulus
    BY <1>2, TargetIsWord
  <2>2. m \in Nat /\ 2 * m < Modulus
    BY <1>2, StartsAreReadable DEF Linked
  <2> HIDE DEF w
  <2>3. /\ Signed(w) >= 0 <=> 2 * w < Modulus
        /\ Signed(w) >= 0 => Signed(w) = w
    BY <2>1, SignedFacts
  <2>4. Signed(w) = m => w = m
    BY <2>2, <2>3
  <2>5. w = m => Signed(w) = m
    <3> HAVE w = m
    <3> QED
      BY <2>2 DEF Signed
  <2> QED
    BY <2>4, <2>5
<1> HIDE DEF w
<1> QED
  BY <1>1, <1>2 DEF w

\* Where control goes on, it stays in the node or takes an edge.
LEMMA StepIsInGraph ==
    ASSUME Linked, NEW k, NEW o \in DOMAIN instructions, Holds(k, o), NEW p \in Continues(o),
           ~IsTrailingJumpDest(p)
    PROVE  \E m : Holds(m, p) /\ (m = k \/ <<k, m>> \in next)
<1>1. Decoded /\ Cut /\ VisitedLead /\ todo = {} /\ p \in DOMAIN instructions
  BY DEF Linked, Drawn, Continues
<1>2. IsFiled(k) /\ k \in Nat /\ nodes[k].end \in Nat /\ k <= o /\ o < nodes[k].end
  BY <1>1 DEF Holds, Cut, FiledByStart
<1>3. PICK m : Holds(m, p)
  BY <1>1 DEF Cut, FiledCover
<1>4. IsFiled(m) /\ m \in Nat /\ nodes[m].end \in Nat /\ m <= p /\ p < nodes[m].end
  BY <1>1, <1>3 DEF Holds, Cut, FiledByStart
<1>5. /\ o \in Nat /\ p \in Nat /\ o < EndOf(Opcodes, o) /\ EndOf(Opcodes, o) \in Nat
      /\ EndOf(Opcodes, o) <= nodes[k].end
  BY <1>1, OffsetFacts, HoldersEnd
<1>6. ASSUME EndsWith(k, o), Leads(k, o, m) PROVE <<k, m>> \in next
  BY <1>1, <1>2, <1>6 DEF VisitedLead
<1>7. CASE IsFallThrough(Opcodes[o]) /\ p = EndOf(Opcodes, o)
  <2>1. CASE p < nodes[k].end
    <3>1. Holds(k, p)
      BY <1>2, <1>5, <1>7, <2>1 DEF Holds
    <3> QED
      BY <3>1
  <2>2. CASE p = nodes[k].end
    <3>1. EndsWith(k, o)
      BY <1>2, <1>7, <2>2 DEF EndsWith
    <3>2. k < p
      BY <1>2, <1>5, <2>2
    <3>3. ~(k < m /\ m < p) /\ ~(m < k)
      <4>1. k < m => nodes[k].end <= m
        BY <1>1, <1>2, <1>4 DEF Cut, FiledDisjoint
      <4>2. m < k => nodes[m].end <= k
        BY <1>1, <1>2, <1>4 DEF Cut, FiledDisjoint
      <4> QED
        BY <1>2, <1>4, <1>5, <2>2, <3>2, <4>1, <4>2
    <3>4. m # k
      BY <1>4, <2>2
    <3>5. m = nodes[k].end
      BY <1>2, <1>4, <1>5, <2>2, <3>3, <3>4
    <3>6. Leads(k, o, m)
      BY <1>4, <1>7, <3>5 DEF Leads
    <3> QED
      BY <1>3, <1>6, <3>1, <3>6
  <2> QED
    BY <1>2, <1>5, <1>7, <2>1, <2>2
<1>8. CASE ~(IsFallThrough(Opcodes[o]) /\ p = EndOf(Opcodes, o))
  <2>1. /\ IsBranch(Opcodes[o]) /\ Target(o).kind = "constant"
        /\ IsReadable(Target(o).value) /\ WordOf(Target(o).value) = p
        /\ Opcodes[p] = OP_JUMPDEST
    BY <1>8 DEF Continues, Target
  <2>2. EndsWith(k, o)
    BY <1>1, <1>2, <2>1 DEF Cut, FiledStraight, EndsWith
  <2>3. m = p
    BY <1>1, <1>3, <2>1 DEF Cut, FiledStraight
  <2>4. m \in Start!JumpsTo(o)
    BY <1>4, <2>1, <2>3, TakenJump
  <2>5. Start!JumpAllowed(m)
    BY <1>1, <1>4, <2>1, <2>3 DEF Cut, FiledStarts, Start!JumpAllowed
  <2>6. Leads(k, o, m)
    BY <2>4, <2>5 DEF Leads
  <2> QED
    BY <1>3, <1>6, <2>2, <2>6
<1> QED
  BY <1>7, <1>8

LEMMA ReachedFacts ==
    ASSUME Linked
    PROVE  /\ \A k \in ReachedNodes : IsFiled(k)
           /\ DOMAIN nodes \cap {0} \subseteq ReachedNodes
           /\ \A e \in next : e[1] \in ReachedNodes => e[2] \in ReachedNodes
           /\ \A T : /\ DOMAIN nodes \cap {0} \subseteq T
                     /\ \A e \in next : e[1] \in T => e[2] \in T
                     => ReachedNodes \subseteq T
  BY ReachedClosed DEF Linked

LEMMA ReachedInstructionsFacts ==
    ASSUME Linked
    PROVE  /\ ReachedInstructions \in SUBSET DOMAIN instructions
           /\ DOMAIN instructions \cap {0} \subseteq ReachedInstructions
           /\ \A e \in Flow : e[1] \in ReachedInstructions => e[2] \in ReachedInstructions
           /\ \A T : /\ DOMAIN instructions \cap {0} \subseteq T
                     /\ \A e \in Flow : e[1] \in T => e[2] \in T
                     => ReachedInstructions \subseteq T
<1>1. IsFiniteSet(DOMAIN instructions)
  BY OffsetFacts DEF Linked
<1>2. DOMAIN instructions \cap {0} \in SUBSET DOMAIN instructions
  OBVIOUS
<1>3. \A e \in Flow : e[1] \in DOMAIN instructions => e[2] \in DOMAIN instructions
  BY FlowIs
<1>4. ReachedInstructions = Reached(DOMAIN instructions, DOMAIN instructions \cap {0}, Flow)
  BY DEF ReachedInstructions
<1>5. /\ ReachedInstructions \in SUBSET DOMAIN instructions
      /\ DOMAIN instructions \cap {0} \subseteq ReachedInstructions
      /\ \A e \in Flow : e[1] \in ReachedInstructions => e[2] \in ReachedInstructions
  BY <1>1, <1>2, <1>3, <1>4, ReachedIsLeast
<1>6. ASSUME NEW T, DOMAIN instructions \cap {0} \subseteq T,
             \A e \in Flow : e[1] \in T => e[2] \in T
      PROVE  ReachedInstructions \subseteq T
  BY <1>1, <1>2, <1>3, <1>4, <1>6, ReachedWithin
<1> QED
  BY <1>5, <1>6

LEMMA FlowIsFollowed ==
    ASSUME Linked, NEW q \in ReachedInstructions, NEW p \in Continues(q)
    PROVE  p \in ReachedInstructions
<1>1. q \in DOMAIN instructions
  BY ReachedInstructionsFacts
<1>2. PICK e \in Flow : e = <<q, p>>
  BY <1>1, FlowIs
<1>3. e[1] = q /\ e[2] = p
  BY <1>2
<1> QED
  BY <1>2, <1>3, ReachedInstructionsFacts

\* Control comes only to instructions in nodes the edges lead to,
LEMMA CodeIsInGraph ==
    ASSUME Linked, NEW o \in ReachedInstructions
    PROVE  IsTrailingJumpDest(o) \/ \E k \in ReachedNodes : Holds(k, o)
<1> DEFINE T == {p \in DOMAIN instructions :
                    IsTrailingJumpDest(p) \/ \E k \in ReachedNodes : Holds(k, p)}
<1>1. DOMAIN instructions \cap {0} \subseteq T
  <2> SUFFICES ASSUME 0 \in DOMAIN instructions, ~IsTrailingJumpDest(0)
               PROVE  \E k \in ReachedNodes : Holds(k, 0)
    OBVIOUS
  <2>1. PICK k : Holds(k, 0)
    BY DEF Linked, Cut, FiledCover
  <2>2. k = 0
    BY <2>1 DEF Holds, Linked, Cut, FiledByStart
  <2>3. k \in ReachedNodes
    BY <2>1, <2>2, ReachedFacts DEF Holds, IsFiled
  <2> QED
    BY <2>1, <2>3
<1>2. ASSUME NEW e \in Flow, e[1] \in T PROVE e[2] \in T
  <2>1. /\ e[1] \in DOMAIN instructions /\ e[2] \in DOMAIN instructions
        /\ e[2] \in Continues(e[1])
    BY FlowIs
  <2>2. PICK k \in ReachedNodes : Holds(k, e[1])
    BY <1>2, <2>1, TrailingEnds DEF Linked
  <2>3. CASE ~IsTrailingJumpDest(e[2])
    <3>1. PICK m : Holds(m, e[2]) /\ (m = k \/ <<k, m>> \in next)
      BY <2>1, <2>2, <2>3, StepIsInGraph
    <3>2. m \in ReachedNodes
      BY <3>1, ReachedFacts
    <3> QED
      BY <2>1, <3>1, <3>2
  <2> QED
    BY <2>1, <2>3
<1>3. ReachedInstructions \subseteq T
  <2> HIDE DEF T
  <2> QED
    BY <1>1, <1>2, ReachedInstructionsFacts
<1> QED
  BY <1>3

\* and to all of them, unless the code is a JUMPDEST alone.
LEMMA GraphIsInCode ==
    ASSUME Linked, 0 \in DOMAIN instructions => ~IsTrailingJumpDest(0),
           NEW k \in ReachedNodes, NEW o \in DOMAIN instructions, Holds(k, o)
    PROVE  o \in ReachedInstructions
<1> DEFINE W == {m \in DOMAIN nodes :
                    \A p \in DOMAIN instructions : Holds(m, p) => p \in ReachedInstructions}
<1>1. Decoded /\ Cut /\ EdgesFiled /\ Drawn /\ todo = {}
  BY DEF Linked
<1>2. ASSUME NEW m, IsFiled(m), m \in DOMAIN instructions => m \in ReachedInstructions
      PROVE  m \in W
  <2> SUFFICES ASSUME NEW p \in DOMAIN instructions, Holds(m, p)
               PROVE  p \in ReachedInstructions
    BY <1>2 DEF IsFiled
  <2>1. m < nodes[m].end
    BY <1>1, OffsetFacts DEF Holds, Cut, FiledByStart
  <2>2. m \in ReachedInstructions
    BY <1>1, <1>2, <2>1 DEF Cut, FiledStarts
  <2> QED
    BY <1>1, <2>2, NodeFlows, ReachedInstructionsFacts
<1>3. DOMAIN nodes \cap {0} \subseteq W
  BY <1>2, ReachedInstructionsFacts, ReachedFacts
<1>4. ASSUME NEW e \in next, e[1] \in W PROVE e[2] \in W
  <2>1. /\ IsFiled(e[1]) /\ IsFiled(e[2]) /\ e = <<e[1], e[2]>>
    BY <1>1 DEF EdgesFiled, Drawn, OnlyVisitedLead
  <2>2. EndsBehind(e[1])
    <3>1. IsEmptyAt(e[1]) => e[1] # 0
      BY DEF IsEmptyAt
    <3> QED
      BY <1>1, <2>1, <3>1 DEF Drawn, OnlyVisitedLead, Cut, FiledEnds
  <2>3. PICK q \in DOMAIN instructions : EndsWith(e[1], q) /\ Holds(e[1], q)
    BY <1>1, <2>1, <2>2, EndHeld
  <2>4. q \in ReachedInstructions
    BY <1>4, <2>3
  <2>5. Leads(e[1], q, e[2])
    BY <1>1, <2>1, <2>3 DEF Drawn, VisitedLead
  <2> SUFFICES ASSUME e[2] \in DOMAIN instructions PROVE e[2] \in ReachedInstructions
    BY <1>2, <2>1
  <2>6. CASE IsFallThrough(Opcodes[q]) /\ e[2] = nodes[e[1]].end
    <3>1. e[2] \in Continues(q)
      BY <2>3, <2>6 DEF EndsWith, Continues
    <3> QED
      BY <2>4, <3>1, FlowIsFollowed
  <2>7. CASE e[2] \in Start!JumpsTo(q) /\ Start!JumpAllowed(e[2])
    <3>1. /\ IsBranch(Opcodes[q]) /\ Target(q).kind = "constant"
          /\ IsReadable(Target(q).value) /\ WordOf(Target(q).value) = e[2]
      BY <2>7, TakenJump
    <3>2. CASE e[2] < nodes[e[2]].end
      <4>1. Opcodes[e[2]] = OP_JUMPDEST
        BY <1>1, <2>1, <2>7, <3>2 DEF Cut, FiledStarts, Start!JumpAllowed
      <4>2. e[2] \in Continues(q)
        BY <3>1, <4>1 DEF Continues, Target
      <4> QED
        BY <2>4, <4>2, FlowIsFollowed
    <3>3. CASE ~(e[2] < nodes[e[2]].end)
      <4>1. Opcodes[e[2]] = OP_JUMPDEST
        BY <1>1, <2>1, <3>3 DEF Cut, FiledEnds, EndsBehind, IsEmptyAt, Apart
      <4>2. e[2] \in Continues(q)
        BY <3>1, <4>1 DEF Continues, Target
      <4> QED
        BY <2>4, <4>2, FlowIsFollowed
    <3> QED
      BY <3>2, <3>3
  <2> QED
    BY <2>5, <2>6, <2>7 DEF Leads
<1>5. ReachedNodes \subseteq W
  <2> HIDE DEF W
  <2> QED
    BY <1>3, <1>4, ReachedFacts
<1> QED
  BY <1>5

\* So they are the same.
LEMMA LinkedMatches ==
    ASSUME Linked
    PROVE  {o \in ReachedInstructions : ~IsTrailingJumpDest(o)}
              = UNION {InstructionsOf(k) : k \in ReachedNodes}
<1>1. Decoded /\ Cut
  BY DEF Linked
<1>2. ASSUME NEW k \in ReachedNodes
      PROVE  InstructionsOf(k) = {o \in DOMAIN instructions : Holds(k, o)}
  <2>1. IsFiled(k)
    BY ReachedFacts
  <2>2. k \in Nat /\ nodes[k].start = k /\ nodes[k].end \in Nat
    BY <1>1, <2>1 DEF Cut, FiledByStart
  <2> QED
    BY <1>1, <2>1, <2>2, OffsetFacts DEF InstructionsOf, Holds
<1>3. UNION {InstructionsOf(k) : k \in ReachedNodes}
         = {o \in DOMAIN instructions : \E k \in ReachedNodes : Holds(k, o)}
  BY <1>2
<1>4. CASE 0 \in DOMAIN instructions => ~IsTrailingJumpDest(0)
  <2>1. ASSUME NEW o \in ReachedInstructions, ~IsTrailingJumpDest(o)
        PROVE  \E k \in ReachedNodes : Holds(k, o)
    BY <2>1, CodeIsInGraph
  <2>2. ASSUME NEW o \in DOMAIN instructions, NEW k \in ReachedNodes, Holds(k, o)
        PROVE  o \in ReachedInstructions /\ ~IsTrailingJumpDest(o)
    BY <1>1, <1>4, <2>2, GraphIsInCode, HeldNotTrailing
  <2> QED
    BY <1>3, <2>1, <2>2, ReachedInstructionsFacts
<1>5. CASE 0 \in DOMAIN instructions /\ IsTrailingJumpDest(0)
  <2>1. \A o \in DOMAIN instructions : o = 0
    BY <1>1, <1>5, OffsetFacts DEF IsTrailingJumpDest
  <2>2. \A o \in DOMAIN instructions : IsTrailingJumpDest(o) /\ \A k : ~Holds(k, o)
    BY <1>1, <1>5, <2>1, HeldNotTrailing
  <2> QED
    BY <1>3, <2>2, ReachedInstructionsFacts
<1> QED
  BY <1>4, <1>5

LEMMA InvMatches == Inv => GraphMatchesCode
<1> SUFFICES ASSUME Inv, startStatus = "done", solveStatus = "waiting" PROVE GraphMatchesCode
  BY DEF GraphMatchesCode
<1>1. built /\ Drawn /\ todo = {} /\ Decoded
  BY DEF Inv, BeingLinked, BeingDrawn
<1>2. Linked
  BY <1>1 DEF Linked, Inv, BeingLinked, BeingFilled, Fills!FoldingsAreSolved
<1> QED
  BY <1>2, LinkedMatches DEF GraphMatchesCode

-----------------------------------------------------------------------------
(***************************************************************************)
(* The contracts found                                                     *)
(***************************************************************************)
IsCopy(o) ==
    /\ o \in DOMAIN instructions /\ instructions[o].op = Find!OP_CODECOPY
    /\ Find!AllOperandsConstant(o)

\* The copies that are looked at are instructions with constant operands.
BeingFound ==
    /\ findStatus = "waiting" => copies = {} /\ copyAt = Find!NoCopy
    /\ \A o \in copies : IsCopy(o)
    /\ copyAt # Find!NoCopy => IsCopy(copyAt) /\ Find!CanRead(copyAt)

\* findCreatedContracts waits until the passes before it have returned.
LEMMA FindingWaits ==
    ASSUME Inv, FillStep \/ GraphStep \/ StartStep \/ SolveStep
    PROVE  findStatus = "waiting"
<1>1. SolveStep => solveStatus # "done"
  BY DEF SolveStep, Stack!Next, Stack!Begin, Stack!Skip, Stack!SolveNode, Stack!Die,
         Stack!Return
<1>2. StartStep => startStatus # "done"
  BY DEF StartStep, Start!Next, Start!Begin, Start!VisitNode, Start!Abort, Start!Return
<1>3. GraphStep => ~built
  BY DEF GraphStep, Graph!Next, Graph!FlushNode, Inv, BeingCut
<1>4. FillStep => fillStatus = "filling"
  BY DEF FillStep
<1> QED
  BY <1>1, <1>2, <1>3, <1>4 DEF Inv, BeingCut, BeingLinked, BeingSolved, BeingAnswered

LEMMA FoundNext == Inv /\ BeingFound /\ [Next]_vars => BeingFound'
<1> SUFFICES ASSUME Inv, BeingFound, [Next]_vars PROVE BeingFound'
  OBVIOUS
<1>1. CASE FillStep \/ GraphStep \/ StartStep \/ SolveStep
  <2>1. findStatus = "waiting"
    BY <1>1, FindingWaits
  <2>2. UNCHANGED finding
    BY <1>1 DEF FillStep, GraphStep, StartStep, SolveStep, later
  <2>3. copies' = {} /\ copyAt' = Find!NoCopy
    BY <2>1, <2>2 DEF BeingFound, finding
  <2> QED
    BY <2>3 DEF BeingFound
<1>2. CASE AskStep \/ WriteStep \/ UNCHANGED vars
  <2>1. /\ UNCHANGED <<copies, copyAt, instructions>>
        /\ findStatus' = findStatus \/ findStatus' # "waiting"
    BY <1>2 DEF AskStep, WriteStep, vars, filling, finding
  <2> QED
    BY <2>1 DEF BeingFound, IsCopy, Find!AllOperandsConstant, Find!CanRead
<1>3. CASE FindStep
  <2>1. /\ instructions' = instructions /\ findStatus # "waiting" /\ findStatus' # "waiting"
        /\ Find!Next
    BY <1>3 DEF FindStep, Find!Next, Find!Begin, Find!Copy, Find!Search, Find!GiveUp,
                Find!Stop, Find!Exhaust, Find!Abort, Find!Return
  <2>2. \A o : (IsCopy(o)' <=> IsCopy(o)) /\ (Find!CanRead(o)' <=> Find!CanRead(o))
    BY <2>1 DEF IsCopy, Find!AllOperandsConstant, Find!CanRead
  <2>3. \A o \in Find!Copies : IsCopy(o)
    BY DEF Find!Copies, Find!InstructionsOf, IsCopy
  <2>4. CASE Find!Begin
    BY <2>1, <2>2, <2>3, <2>4 DEF BeingFound, Find!Begin
  <2>5. CASE \E o \in copies : Find!Copy(o)
    BY <2>1, <2>2, <2>5 DEF BeingFound, Find!Copy, Find!Others
  <2>6. CASE \/ Find!Search \/ Find!GiveUp \/ Find!Stop \/ Find!Exhaust
             \/ Find!Abort \/ Find!Return
    <3>1. copies' = copies /\ (copyAt' = copyAt \/ copyAt' = Find!NoCopy)
      BY <2>6 DEF Find!Search, Find!GiveUp, Find!Stop, Find!Exhaust, Find!Abort, Find!Return
    <3> QED
      BY <2>1, <2>2, <3>1 DEF BeingFound
  <2> QED
    BY <2>1, <2>4, <2>5, <2>6 DEF Find!Next
<1>4. CASE NestedStep
  <2>1. copies' = {} /\ copyAt' = Find!NoCopy
    BY <1>4 DEF NestedStep, Construct
  <2> QED
    BY <2>1 DEF BeingFound
<1> QED
  BY <1>1, <1>2, <1>3, <1>4 DEF Next

\* The operands of an instruction that can be read are those of the EVM, but for the sign.
LEMMA OperandsAreWords ==
    ASSUME \A o \in DOMAIN instructions : Fills!TakesBytes(instructions[o]),
           NEW o \in DOMAIN instructions, Find!CanRead(o),
           NEW i \in 1 .. Fills!StackRemoved(instructions[o].op)
    PROVE  /\ Find!Operand(o, i) = Find!Signed(EvmOperand(o, i))
           /\ EvmOperand(o, i) \in Nat /\ EvmOperand(o, i) < Modulus
<1> DEFINE operands == instructions[o].operands
           v        == operands[i].value
<1>1. i \in 1 .. Len(operands)
  BY DEF Fills!TakesBytes
<1>2. Find!Operand(o, i) = Find!GetInt64FromVec(v)
  BY <1>1 DEF Find!Operand, Find!Values
<1>3. operands[i].kind = "constant" /\ Find!IsReadable(v)
  BY <1>1 DEF Find!CanRead, Find!AllReadable
<1>4. v \in Seq(Byte)
  BY <1>1, <1>3 DEF Fills!TakesBytes, Fills!HoldsBytes, Fills!Byte, Byte
<1>5. IsReadable(v)
  BY <1>3 DEF Find!IsReadable, IsReadable
<1>6. Find!GetInt64FromVec(v) = Find!Signed(WordOf(v))
  BY Zenon DEF Find!GetInt64FromVec, Find!WordOf, WordOf
<1>7. WordOf(v) \in Nat /\ WordOf(v) < Modulus
  BY <1>4, <1>5, ReadableWord
<1>8. EvmOperand(o, i) = WordOf(v)
  BY DEF EvmOperand
<1> HIDE DEF v
<1> QED
  BY <1>2, <1>6, <1>7, <1>8

\* Numbers that an int can hold are copied and counted as they are.
LEMMA StretchIs ==
    ASSUME NEW copy, NEW ret, NEW at, NEW first \in Nat, NEW size \in Nat,
           2 * (first + size) < Find!IntModulus,
           Find!Operand(copy, 1) = Find!Signed(at), Find!Operand(ret, 1) = Find!Signed(at),
           at \in Nat, at < Modulus,
           Find!Operand(copy, 2) = Find!Signed(first), Find!Operand(ret, 2) = Find!Signed(size)
    PROVE  Find!FirstByte(copy, ret) = first /\ Find!EndByte(copy, ret) = first + size
<1>1. Find!Modulus = Modulus /\ Find!IntModulus = PowerOf256[IntBytes]
  BY Zenon DEF Find!Modulus, Modulus, Find!PowerOf256, PowerOf256, Find!IntModulus
<1>2. PICK m \in Nat \ {0}, w \in Nat \ {0} :
         m = Find!IntModulus /\ w = Find!Modulus /\ m <= w
  <2>1. /\ PowerOf256[IntBytes] \in Nat \ {0} /\ PowerOf256[WordBytes] \in Nat \ {0}
        /\ PowerOf256[IntBytes] <= PowerOf256[WordBytes]
    BY WidthAssumption, IntBytesAssumption, PowersOf256, PowersGrow
  <2> QED
    BY <1>1, <2>1 DEF Modulus
<1>3. 2 * first < w /\ 2 * size < w /\ 2 * first < m /\ 2 * (first + size) < w
  BY <1>2
<1>4. Find!Signed(first) = first /\ Find!Signed(size) = size
  BY <1>2, <1>3 DEF Find!Signed
<1>5. Find!Operand(ret, 1) - Find!Operand(copy, 1) = 0
  <2>1. Find!Signed(at) \in Int
    BY <1>1, <1>2 DEF Find!Signed
  <2> QED
    BY <2>1
<1>6. first % m = first /\ (first + size) % w = first + size
  BY <1>2, <1>3
<1>7. Find!AsInt(first) = first
  BY <1>2, <1>3, <1>6 DEF Find!AsInt
<1>8. Find!FirstByte(copy, ret) = first
  <2>1. first - 0 = first
    OBVIOUS
  <2> QED
    BY <1>4, <1>5, <1>7, <2>1 DEF Find!FirstByte
<1>9. Find!EndByte(copy, ret) = first + size
  <2>1. Find!EndByte(copy, ret) = Find!Signed((first + size - 0) % Find!Modulus)
    BY <1>4, <1>5 DEF Find!EndByte
  <2>2. first + size - 0 = first + size
    OBVIOUS
  <2>3. Find!Signed(first + size) = first + size
    BY <1>2, <1>3 DEF Find!Signed
  <2> QED
    BY <1>2, <1>6, <2>1, <2>2, <2>3
<1> QED
  BY <1>8, <1>9

LEMMA FoundIsReturned == Inv /\ BeingFound /\ [Next]_vars =>
    \A contract \in created' \ created :
        /\ findStatus = "running" /\ ReturnsCopy(copyAt, searchPos)
        /\ EvmOperand(copyAt, 1) = EvmOperand(searchPos, 1)
        /\ 2 * (EvmOperand(copyAt, 2) + EvmOperand(searchPos, 2)) < Find!IntModulus
        => IsReturned(contract, copyAt, searchPos)
<1> SUFFICES ASSUME Inv, BeingFound, [Next]_vars, NEW contract \in created' \ created,
                    findStatus = "running", ReturnsCopy(copyAt, searchPos),
                    EvmOperand(copyAt, 1) = EvmOperand(searchPos, 1),
                    2 * (EvmOperand(copyAt, 2) + EvmOperand(searchPos, 2)) < Find!IntModulus
             PROVE  IsReturned(contract, copyAt, searchPos)
  OBVIOUS
<1>1. Find!Stop
  <2>1. CASE FindStep
    BY <2>1 DEF FindStep, Find!Next, Find!Begin, Find!Copy, Find!Search, Find!GiveUp,
                Find!Exhaust, Find!Abort, Find!Return
  <2>2. CASE NestedStep
    BY <2>2 DEF NestedStep, Construct
  <2>3. CASE FillStep \/ GraphStep \/ StartStep \/ SolveStep \/ AskStep \/ WriteStep
             \/ UNCHANGED vars
    BY <2>3 DEF FillStep, GraphStep, StartStep, SolveStep, AskStep, WriteStep, vars, later,
                finding
  <2> QED
    BY <2>1, <2>2, <2>3 DEF Next
<1>2. /\ searchPos \in DOMAIN instructions /\ Find!Returns(searchPos)
      /\ Find!CanRead(searchPos) /\ copyAt # Find!NoCopy
      /\ contract = Find!NewCode(copyAt, searchPos) /\ contract # <<>>
  BY <1>1 DEF Find!Stop, Find!Searches, Find!StopsAt
<1>3. /\ copyAt \in DOMAIN instructions /\ instructions[copyAt].op = 57
      /\ instructions[searchPos].op = 243 /\ Find!CanRead(copyAt)
  BY <1>2 DEF BeingFound, IsCopy, Find!Returns, Find!OP_CODECOPY, Find!OP_RETURN
<1>4. Fills!StackRemoved(57) = 3 /\ Fills!StackRemoved(243) = 2
  BY DEF Fills!StackRemoved, Fills!IsDup, Fills!IsSwap, Fills!OP_DUP1, Fills!OP_DUP16,
         Fills!OP_SWAP1, Fills!OP_SWAP16
<1>5. \A o \in DOMAIN instructions : Fills!TakesBytes(instructions[o])
  BY DEF Inv, BeingFilled, Fills!FoldingsAreSolved
<1> DEFINE first == EvmOperand(copyAt, 2)
           size  == EvmOperand(searchPos, 2)
           at    == EvmOperand(copyAt, 1)
<1>6. /\ Find!Operand(copyAt, 1) = Find!Signed(at) /\ at \in Nat /\ at < Modulus
      /\ Find!Operand(copyAt, 2) = Find!Signed(first) /\ first \in Nat
      /\ Find!Operand(searchPos, 1) = Find!Signed(at)
      /\ Find!Operand(searchPos, 2) = Find!Signed(size) /\ size \in Nat
  <2>1. /\ 1 \in 1 .. Fills!StackRemoved(instructions[copyAt].op)
        /\ 2 \in 1 .. Fills!StackRemoved(instructions[copyAt].op)
        /\ 1 \in 1 .. Fills!StackRemoved(instructions[searchPos].op)
        /\ 2 \in 1 .. Fills!StackRemoved(instructions[searchPos].op)
    BY <1>3, <1>4
  <2> QED
    BY <1>2, <1>3, <1>5, <2>1, OperandsAreWords
<1>7. first \in Nat
  BY <1>6
<1>8. /\ Find!FirstByte(copyAt, searchPos) = first
      /\ Find!EndByte(copyAt, searchPos) = first + size
  <2> HIDE DEF first, size, at
  <2>1. 2 * (first + size) < Find!IntModulus
    BY DEF first, size
  <2> QED
    BY <1>6, <2>1, StretchIs
<1>9. IsStretch(Find!NewCode(copyAt, searchPos), first, size)
  <2>1. IsByteString(code)
    BY DEF Inv, Decoded
  <2>2. size \in Int
    BY <1>6
  <2>3. Find!NewCode(copyAt, searchPos) # <<>>
    BY <1>2
  <2> HIDE DEF first, size
  <2> QED
    BY <1>7, <1>8, <2>1, <2>2, <2>3, NewCodeIs
<1>10. PICK n \in Nat :
         /\ Len(contract) = n /\ n <= size
         /\ \A i \in 1 .. size : first + i - 1 \in DOMAIN code <=> i <= n
         /\ \A i \in 1 .. n : contract[i] = code[first + i - 1]
  BY <1>2, <1>9 DEF IsStretch
<1>11. \A i \in 1 .. size : ReturnedByte(copyAt, searchPos, i)
          = IF first + i - 1 \in DOMAIN code THEN code[first + i - 1] ELSE 0
  <2> TAKE i \in 1 .. size
  <2>1. first + at - at + i - 1 = first + i - 1
    <3>1. at \in Int /\ first \in Int /\ i \in Int
      BY <1>6
    <3> HIDE DEF at, first
    <3> QED
      BY <3>1
  <2>2. ReturnedByte(copyAt, searchPos, i)
           = IF first + at - at + i - 1 \in DOMAIN code THEN code[first + at - at + i - 1] ELSE 0
    BY DEF ReturnedByte
  <2> QED
    BY <2>1, <2>2
<1>12. size \in Int
  BY <1>6
<1> HIDE DEF first
<1>13. \A i \in 1 .. size : ReturnedByte(copyAt, searchPos, i)
          = IF i <= n THEN contract[i] ELSE 0
  <2> TAKE i \in 1 .. size
  <2>1. CASE i <= n
    <3>1. i \in 1 .. n
      BY <1>12, <2>1
    <3> QED
      BY <1>10, <1>11, <2>1, <3>1
  <2>2. CASE ~(i <= n)
    BY <1>10, <1>11, <2>2
  <2> QED
    BY <2>1, <2>2
<1> QED
  BY <1>10, <1>13 DEF IsReturned

-----------------------------------------------------------------------------
(***************************************************************************)
(* What the audit reports, step by step.                                   *)
(***************************************************************************)

\* The audit reports just the reads of tx.origin in the nodes IsReachable says yes of,
\* and only such as edges lead to from the entry: the lookups by address on the way
\* there lose none and add none, null pointers or not.
AuditIsExact ==
    [][outStatus = "running" /\ left = <<"audit">> /\ left' = <<>> =>
          /\ findings' = Out!Audited \cap HeldBy(reach)
          /\ HeldBy(reach) \subseteq HeldBy(ReachedNodes)]_vars

\* A yes of IsReachable stays right: no pass after it draws an edge.
AnswersStayRight == reach \subseteq ReachedNodes

LEMMA AnswersStay == Inv /\ AnswersStayRight /\ [Next]_vars => AnswersStayRight'
<1> SUFFICES ASSUME Inv, AnswersStayRight, [Next]_vars PROVE AnswersStayRight'
  OBVIOUS
<1>1. Inv'
  BY InvNext
<1>2. CASE findStatus' = "waiting"
  BY <1>1, <1>2 DEF Inv, BeingAnswered, AnswersStayRight
<1>3. CASE findStatus' # "waiting"
  <2>1. ~(FillStep \/ GraphStep \/ StartStep \/ SolveStep)
    BY <1>3, FindingWaits DEF FillStep, GraphStep, StartStep, SolveStep, later, finding
  <2>2. ~NestedStep
    BY <1>3 DEF NestedStep, Construct
  <2>3. nodes' = nodes /\ next' = next
    BY <2>1, <2>2 DEF Next, AskStep, FindStep, WriteStep, vars, cutting, linking
  <2>4. reach' = reach \/ reach' \subseteq ReachedNodes
    BY <2>1, <2>2 DEF Next, AskStep, Answers, FindStep, Find!Next, Find!Begin, Find!Copy,
       Find!Search, Find!GiveUp, Find!Stop, Find!Exhaust, Find!Abort, Find!Return, WriteStep, Out!Next,
       Out!Begin, Out!Write, Out!Abort, Out!Return, vars
  <2>5. ReachedNodes' = ReachedNodes
    BY <2>3 DEF ReachedNodes, ReachedFrom
  <2> QED
    BY <2>4, <2>5 DEF AnswersStayRight
<1> QED
  BY <1>2, <1>3

LEMMA AuditStep == Inv /\ AnswersStayRight /\ [Next]_vars =>
    (outStatus = "running" /\ left = <<"audit">> /\ left' = <<>> =>
        /\ findings' = Out!Audited \cap HeldBy(reach)
        /\ HeldBy(reach) \subseteq HeldBy(ReachedNodes))
<1> SUFFICES ASSUME Inv, AnswersStayRight, [Next]_vars,
                    outStatus = "running", left = <<"audit">>, left' = <<>>
             PROVE  /\ findings' = Out!Audited \cap HeldBy(reach)
                    /\ HeldBy(reach) \subseteq HeldBy(ReachedNodes)
  OBVIOUS
<1>1. left' # left
  OBVIOUS
<1>2. WriteStep /\ Out!Write
  <2>1. WriteStep
    BY <1>1 DEF Next, FillStep, GraphStep, StartStep, SolveStep, AskStep, FindStep, NestedStep,
                vars, later, writing
  <2> QED
    BY <1>1, <2>1 DEF WriteStep, Out!Next, Out!Begin, Out!Abort, Out!Return
<1>3. Head(left) = "audit"
  OBVIOUS
<1>4. /\ findings' = {o \in Out!Audited : Out!Reported(o)}
      /\ \A o \in Out!Audited : Out!GetNode(o) # Out!Failed
  BY <1>2, <1>3 DEF Out!Write, Out!LookedUp
<1>5. Decoded /\ Cut /\ NullsBehind /\ \A k \in reach : IsFiled(k)
  BY <1>2 DEF Inv, BeingAnswered, BeingSolved, BeingLinked, WriteStep
<1>6. ASSUME NEW o \in Out!Audited PROVE Out!Reported(o) <=> o \in HeldBy(reach)
  <2>1. o \in Out!Origins /\ o \in DOMAIN instructions
    BY <1>6 DEF Out!Audited, Out!Origins
  <2>2. Holds(Out!GetNode(o), o)
    BY <1>4, <1>5, <1>6, <2>1, OriginsAreFound
  <2>3. \A k : Holds(k, o) => k = Out!GetNode(o)
    <3> TAKE k
    <3> HAVE Holds(k, o)
    <3> PICK s : s = Out!GetNode(o)
      OBVIOUS
    <3>1. /\ Holds(s, o) /\ o \in Nat
          /\ k \in Nat /\ s \in Nat /\ nodes[k].end \in Nat /\ nodes[s].end \in Nat
      BY <1>5, <2>1, <2>2, InstructionsApart DEF Holds, Cut, FiledByStart
    <3>2. (k < s => nodes[k].end <= s) /\ (s < k => nodes[s].end <= k)
      BY <1>5, <3>1 DEF Holds, Cut, FiledDisjoint
    <3>3. k <= o /\ o < nodes[k].end /\ s <= o /\ o < nodes[s].end
      BY <3>1 DEF Holds
    <3> QED
      BY <3>1, <3>2, <3>3
  <2>4. o \in HeldBy(reach) <=> \E k \in reach : Holds(k, o)
    BY <1>5, <2>1, HeldIs
  <2> QED
    BY <2>2, <2>3, <2>4 DEF Out!Reported
<1>7. HeldBy(reach) \subseteq HeldBy(ReachedNodes)
  BY DEF AnswersStayRight, HeldBy
<1> QED
  BY <1>4, <1>6, <1>7

-----------------------------------------------------------------------------
(***************************************************************************)
(* The data of the PUSHes stay where fillInstructions has left them.       *)
(***************************************************************************)

LEMMA PushesKept == Inv /\ PushesHaveData /\ [Next]_vars => PushesHaveData'
<1> SUFFICES ASSUME Inv, PushesHaveData, [Next]_vars PROVE PushesHaveData'
  OBVIOUS
<1>1. CASE FillStep
  <2>1. Decoded /\ Fill!Next
    BY <1>1 DEF Inv, FillStep
  <2>2. CASE Fill!Trap \/ Fill!Finish
    BY <2>2, PushesStay DEF Fill!Trap, Fill!Finish
  <2>3. CASE Fill!AtJumpDest
    BY <2>1, <2>3, SimulatePushes DEF Fill!AtJumpDest
  <2>4. CASE Fill!AtInstruction
    BY <2>1, <2>4, SimulatePushes DEF Fill!AtInstruction
  <2>5. CASE Fill!AtEntryInstruction
    BY <2>1, <2>5, SimulatePushes DEF Fill!AtEntryInstruction
  <2> QED
    BY <2>1, <2>2, <2>3, <2>4, <2>5 DEF Fill!Next
<1>2. CASE NestedStep
  BY <1>2 DEF NestedStep, Construct, Fill!NoEntries, PushesHaveData
<1>3. CASE \/ GraphStep \/ StartStep \/ SolveStep \/ AskStep \/ FindStep \/ WriteStep
           \/ UNCHANGED vars
  <2>1. UNCHANGED filling
    BY <1>3 DEF GraphStep, StartStep, SolveStep, AskStep, FindStep, WriteStep, vars
  <2> QED
    BY <2>1, PushesStay DEF filling
<1> QED
  BY <1>1, <1>2, <1>3 DEF Next

-----------------------------------------------------------------------------
(***************************************************************************)
(* What initGraph says of the labels holds of the nodes solveStack finds.  *)
(***************************************************************************)
BeingLabelled ==
    /\ fillStatus = "filled" /\ ~built => Pass!Labels /\ Pass!EntryNode
    /\ built => LabelsApart /\ EntryFlagged

LEMMA HandedIsLabelled ==
    Pass!Handed /\ built /\ Pass!Labels /\ Pass!EntryNode => LabelsApart /\ EntryFlagged
<1> SUFFICES ASSUME Pass!Handed, built, Pass!Labels, Pass!EntryNode
             PROVE  LabelsApart /\ EntryFlagged
  OBVIOUS
<1>1. LabelsApart
  BY DEF Pass!Labels, Pass!LabelsUnique, LabelsApart, IsFiled
<1>2. Cut
  BY HandedIsCut
<1>3. EntryFlagged
  BY <1>2 DEF Cut, FiledByStart, Pass!EntryNode, Pass!LabelledRight,
               Pass!EmptyUnflagged, EntryFlagged, IsFiled
<1> QED
  BY <1>1, <1>3

LEMMA LabelsKept == Inv /\ BeingLabelled /\ [Next]_vars => BeingLabelled'
<1> SUFFICES ASSUME Inv, BeingLabelled, [Next]_vars PROVE BeingLabelled'
  OBVIOUS
<1>1. Inv'
  BY InvNext
<1>2. CASE FillStep
  <2>1. /\ Decoded' /\ fillStatus = "filling"
        /\ fillStatus' = "filled" => instructions' = instructions
    BY <1>2, FillDecodes DEF Inv, FillStep
  <2>2. /\ remaining = {} /\ DOMAIN nodes = {} /\ idx = 1 /\ built = FALSE
        /\ currNode = [start |-> 0, end |-> 0, idx |-> 0, isJumpDest |-> FALSE]
    BY <2>1 DEF Inv, BeingCut
  <2>3. /\ UNCHANGED <<currNode, idx, nodes, built>>
        /\ remaining' = IF fillStatus' = "filled" THEN DOMAIN instructions ELSE {}
    BY <1>2 DEF FillStep
  <2>4. ASSUME fillStatus' = "filled" PROVE Pass!Labels' /\ Pass!EntryNode'
    <3>1. remaining' = DOMAIN instructions'
      BY <2>1, <2>3, <2>4
    <3>2. Pass!Init'
      BY <2>1, <2>2, <2>3, <3>1, PassStarts
    <3>3. (Pass!Init => Pass!Labels)' /\ (Pass!Init => Pass!EntryNode)'
      BY Pass!LabelsInit, Pass!EntryInit, StreamsHold, PTL
    <3> QED
      BY <3>2, <3>3
  <2> QED
    BY <2>2, <2>3, <2>4 DEF BeingLabelled
<1>3. ASSUME fillStatus = "filled", ~built, UNCHANGED filling, Graph!Next \/ UNCHANGED cutting
      PROVE  BeingLabelled'
  <2>1. Pass!Handed /\ Pass!Labels /\ Pass!EntryNode /\ Pass!Layout
    BY <1>3 DEF Inv, BeingCut, BeingLabelled, Pass!Handed, Pass!Layers
  <2>2. Pass!Next \/ UNCHANGED Pass!graphVars
    <3>1. UNCHANGED cutting => UNCHANGED Pass!graphVars
      BY <1>3 DEF cutting, filling, Pass!graphVars, Opcodes
    <3> QED
      BY <1>3, <3>1, GraphStepIsPass
  <2>3. Pass!Labels' /\ Pass!EntryNode' /\ Pass!Handed'
    BY <2>1, <2>2, StreamsHold, Pass!LabelsNext, Pass!EntryNext, Pass!HandedNext
  <2>4. (Pass!Handed /\ built /\ Pass!Labels /\ Pass!EntryNode => LabelsApart /\ EntryFlagged)'
    BY HandedIsLabelled, PTL
  <2> QED
    BY <2>3, <2>4 DEF BeingLabelled
<1>4. ASSUME built, UNCHANGED <<built, nodes>> PROVE BeingLabelled'
  <2>1. FiledStay
    BY <1>4 DEF FiledStay, IsFiled
  <2> QED
    BY <1>4, <2>1, LabelsStay DEF BeingLabelled
<1>5. CASE GraphStep
  <2>1. fillStatus = "filled" /\ Graph!Next /\ UNCHANGED filling
    BY <1>5 DEF GraphStep
  <2>2. ~built
    BY <2>1 DEF Inv, BeingCut, Graph!Next, Graph!FlushNode
  <2> QED
    BY <1>3, <2>1, <2>2
<1>6. CASE StartStep
  <2>1. built /\ Start!Next /\ built' = built
    BY <1>6 DEF StartStep
  <2>2. FiledStay
    BY <2>1, StartKeeps DEF Inv
  <2> QED
    BY <2>1, <2>2, LabelsStay DEF BeingLabelled
<1>7. CASE SolveStep
  <2>1. startStatus = "done" /\ built' = built /\ nodes' = nodes
    BY <1>7 DEF SolveStep, Stack!Next, Stack!Begin, Stack!Skip, Stack!SolveNode, Stack!Die,
                Stack!Return
  <2> QED
    BY <1>4, <2>1 DEF Inv, BeingLinked
<1>8. CASE AskStep \/ FindStep \/ WriteStep
  <2>1. UNCHANGED cutting /\ (solveStatus = "done" \/ findStatus # "waiting")
    BY <1>8 DEF AskStep, FindStep, WriteStep, Find!Next, Find!Begin, Find!Copy, Find!Search,
                Find!GiveUp, Find!Stop, Find!Exhaust, Find!Abort, Find!Return
  <2>2. built
    BY <2>1, DoneIsBuilt DEF Inv, BeingAnswered
  <2> QED
    BY <1>4, <2>1, <2>2 DEF cutting
<1>9. CASE NestedStep
  <2>1. fillStatus' = "filling" /\ built' = FALSE
    BY <1>9 DEF NestedStep, Construct
  <2> QED
    BY <2>1 DEF BeingLabelled
<1>10. CASE UNCHANGED vars
  <2>1. UNCHANGED <<filling, cutting, fillStatus, built, nodes>>
    BY <1>10 DEF vars, filling, cutting
  <2>2. CASE fillStatus = "filled" /\ ~built
    BY <1>3, <2>1, <2>2
  <2>3. CASE built
    BY <1>4, <2>1, <2>3
  <2> QED
    BY <2>1, <2>2, <2>3 DEF BeingLabelled
<1> QED
  BY <1>2, <1>5, <1>6, <1>7, <1>8, <1>9, <1>10 DEF Next

-----------------------------------------------------------------------------
(***************************************************************************)
(* As long as solveStack runs the stacks it lists for a node arise on the  *)
(* paths it lists with them.                                               *)
(***************************************************************************)

LEMMA WalkedKept == Inv /\ PushesHaveData /\ BeingLabelled /\ BeingWalked /\ [Next]_vars => BeingWalked'
<1> SUFFICES ASSUME Inv, PushesHaveData, BeingLabelled, BeingWalked, [Next]_vars PROVE BeingWalked'
  OBVIOUS
<1>1. CASE SolveStep
  <2>1. startStatus = "done" /\ Stack!Next
    BY <1>1 DEF SolveStep
  <2>2. built
    BY <2>1 DEF Inv, BeingLinked
  <2>3. Cut /\ EdgesFiled /\ WorkListed /\ LabelsApart /\ StatesArise
    BY <2>2 DEF Inv, BeingLinked, BeingSolved, BeingLabelled, BeingWalked
  <2>4. solveStatus' # "waiting"
    BY <2>1 DEF Stack!Next, Stack!Begin, Stack!Skip, Stack!SolveNode, Stack!Die, Stack!Return
  <2>5. CASE Stack!SolveNode
    BY <2>3, <2>4, <2>5, SolveNodeArises DEF BeingWalked
  <2>6. CASE Stack!Begin \/ Stack!Skip \/ Stack!Die \/ Stack!Return
    <3>1. UNCHANGED <<instructions, nodes, next, entryStates, exitStates, solveIdx>>
      BY <2>6 DEF Stack!Begin, Stack!Skip, Stack!Die, Stack!Return
    <3> QED
      BY <2>3, <2>4, <3>1, AriseStay DEF BeingWalked
  <2> QED
    BY <2>1, <2>5, <2>6 DEF Stack!Next
<1>2. CASE FillStep \/ GraphStep \/ StartStep
  <2>1. UNCHANGED solving /\ startStatus # "done"
    <3>1. CASE FillStep
      BY <3>1, FillDecodes DEF Inv, BeingCut, BeingLinked, FillStep
    <3>2. CASE GraphStep
      <4>1. ~built
        BY <3>2 DEF Inv, BeingCut, GraphStep, Graph!Next, Graph!FlushNode
      <4> QED
        BY <3>2, <4>1 DEF Inv, BeingLinked, GraphStep
    <3>3. CASE StartStep
      BY <3>3 DEF Inv, BeingLinked, StartStep, Start!Next, Start!Begin, Start!VisitNode,
                  Start!Abort, Start!Return
    <3> QED
      BY <1>2, <3>1, <3>2, <3>3
  <2>2. solveStatus = "waiting" /\ DOMAIN entryStates = {}
    BY <2>1 DEF Inv, BeingSolved
  <2> QED
    BY <2>1, <2>2, WalkedStay
<1>3. CASE AskStep \/ FindStep \/ WriteStep \/ UNCHANGED vars
  <2>1. UNCHANGED solving /\ UNCHANGED filling /\ UNCHANGED cutting /\ UNCHANGED linking
    BY <1>3 DEF AskStep, FindStep, WriteStep, vars
  <2>2. UNCHANGED <<instructions, nodes, next, entryStates, exitStates, solveIdx>>
    BY <2>1 DEF solving, filling, cutting, linking
  <2> QED
    BY <2>1, <2>2, AriseStay DEF BeingWalked, solving
<1>4. CASE NestedStep
  <2>1. /\ solveIdx' = 0 /\ DOMAIN entryStates' = {} /\ DOMAIN exitStates' = {} /\ seen' = {}
    BY <1>4 DEF NestedStep, Construct
  <2> QED
    BY <2>1 DEF BeingWalked, StatesArise
<1> QED
  BY <1>1, <1>2, <1>3, <1>4 DEF Next

LEMMA WalkedInit == Init => PushesHaveData /\ BeingLabelled /\ BeingWalked
  BY DEF Init, Fill!Init, Fill!NoEntries, PushesHaveData, BeingLabelled, BeingWalked, StatesArise

\* What the paths are that go with a stack.
LEMMA WalkedArise == Inv /\ BeingWalked => StatesAriseOnPaths
<1> SUFFICES ASSUME Inv, BeingWalked, NEW k \in DOMAIN entryStates, NEW s \in DOMAIN entryStates[k],
                    NEW i \in 1 .. Len(entryStates[k][s])
             PROVE  LET walk == Walk(entryStates[k][s][i], k)
                    IN  /\ walk[1] = 0
                        /\ \A j \in 1 .. (Len(walk) - 1) : <<walk[j], walk[j + 1]>> \in next
                        /\ Shape(StackAlong(walk)) = Shape(s)
  BY DEF StatesAriseOnPaths, PathsAreWalks, StatesMatchPaths
<1>1. IsPathMap(entryStates[k], PathsInto(k))
  BY DEF BeingWalked, StatesArise
<1>2. PICK paths, q : paths = entryStates[k][s] /\ q = paths[i]
  OBVIOUS
<1>3. s \in Stacks /\ paths \in Seq(EntryPaths(k, s))
  BY <1>1, <1>2 DEF IsPathMap, PathsInto
<1>4. q \in EntryPaths(k, s)
  BY <1>2, <1>3, ElementOfSeq
<1>5. /\ Leading(Walk(q, k)) /\ StackAlong(Walk(q, k)) \in Stacks
      /\ Alike(StackAlong(Walk(q, k)), s)
  BY <1>4 DEF EntryPaths
<1>6. Shape(StackAlong(Walk(q, k))) = Shape(s)
  BY <1>3, <1>5, ShapeIsView
<1> QED
  BY <1>2, <1>5, <1>6 DEF Leading

-----------------------------------------------------------------------------
(***************************************************************************)
(* What startGraph has done when solveStack begins.                        *)
(***************************************************************************)

LEMMA VisitedKept == Inv /\ Inv' /\ BeingVisited /\ [Next]_vars => BeingVisited'
<1> SUFFICES ASSUME Inv, Inv', BeingVisited, [Next]_vars PROVE BeingVisited'
  OBVIOUS
<1>1. startStatus' = "done" /\ solveStatus' = "waiting" => AllLead' /\ NoWayBack'
  <2>1. (Cut /\ EdgesFiled /\ Drawn /\ todo = {} => AllLead /\ NoWayBack)'
    BY DrawnLeads, PTL
  <2> QED
    BY <2>1 DEF Inv, BeingLinked, BeingDrawn
<1>2. CASE SolveStep
  <2>1. startStatus = "done" /\ Stack!Next /\ UNCHANGED <<todo, startStatus>>
    BY <1>2 DEF SolveStep
  <2>2. UNCHANGED <<instructions, nodes>>
    BY <2>1 DEF Stack!Next, Stack!Begin, Stack!Skip, Stack!SolveNode, Stack!Die, Stack!Return
  <2>3. next \subseteq next' /\ \A e \in next' \ next : nodes[e[2]].isJumpDest
    BY <2>1 DEF Stack!Next, Stack!Begin, Stack!Skip, Stack!SolveNode, Stack!Die, Stack!Return
  <2>4. FiledStay
    BY <2>2 DEF FiledStay, IsFiled
  <2> QED
    BY <2>1, <2>2, <2>3, <2>4, LeadsKept, VisitedStay DEF BeingVisited
<1>3. CASE FillStep \/ GraphStep
  <2>1. startStatus' = "waiting"
    <3>1. CASE FillStep
      BY <3>1, FillDecodes DEF Inv, BeingCut, BeingLinked, FillStep, linking
    <3>2. CASE GraphStep
      <4>1. ~built
        BY <3>2 DEF Inv, BeingCut, GraphStep, Graph!Next, Graph!FlushNode
      <4> QED
        BY <3>2, <4>1 DEF Inv, BeingLinked, GraphStep, linking
    <3> QED
      BY <1>3, <3>1, <3>2
  <2> QED
    BY <2>1 DEF BeingVisited
<1>4. CASE StartStep
  <2>1. /\ Decoded /\ BeingLinked /\ built /\ Start!Next /\ UNCHANGED built
        /\ startStatus # "waiting" => VisitedEnd
    BY <1>4 DEF Inv, StartStep, BeingVisited
  <2>2. VisitedEnd'
    BY <2>1, StartVisits
  <2>3. solveStatus' = "waiting"
    <3>1. startStatus # "done"
      BY <2>1 DEF BeingLinked, Start!Next, Start!Begin, Start!VisitNode, Start!Abort, Start!Return
    <3> QED
      BY <1>4, <3>1 DEF Inv, BeingSolved, StartStep, solving
  <2> QED
    BY <1>1, <2>2, <2>3 DEF BeingVisited
<1>5. CASE AskStep \/ FindStep \/ WriteStep \/ UNCHANGED vars
  <2>1. UNCHANGED filling /\ UNCHANGED cutting /\ UNCHANGED linking
    BY <1>5 DEF AskStep, FindStep, WriteStep, vars
  <2>2. UNCHANGED <<instructions, nodes, next, todo, startStatus>>
    BY <2>1 DEF filling, cutting, linking
  <2>3. FiledStay
    BY <2>2 DEF FiledStay, IsFiled
  <2> QED
    BY <2>2, <2>3, LeadsKept, VisitedStay DEF BeingVisited
<1>6. CASE NestedStep
  BY <1>6 DEF BeingVisited, NestedStep, Construct
<1> QED
  BY <1>2, <1>3, <1>4, <1>5, <1>6 DEF Next

-----------------------------------------------------------------------------
(***************************************************************************)
(* As long as solveStack runs it hands on what it should.                  *)
(***************************************************************************)

LEMMA HandingKept ==
    Inv /\ Inv' /\ PushesHaveData /\ BeingLabelled /\ BeingWalked /\ BeingWalked' /\ BeingVisited
        /\ BeingHanded /\ [Next]_vars => BeingHanded'
<1> SUFFICES ASSUME Inv, Inv', PushesHaveData, BeingLabelled, BeingWalked, BeingWalked',
                    BeingVisited, BeingHanded, [Next]_vars
             PROVE  BeingHanded'
  OBVIOUS
<1>1. CASE solveStatus' = "waiting"
  <2>1. (BeingSolved /\ BeingWalked /\ solveStatus = "waiting" => Handing)'
    BY WaitingHands, PTL
  <2> QED
    BY <1>1, <2>1 DEF Inv, BeingHanded
<1>2. CASE SolveStep
  <2>1. startStatus = "done" /\ Stack!Next
    BY <1>2 DEF SolveStep
  <2>2. built
    BY <2>1 DEF Inv, BeingLinked
  <2>3. /\ Decoded /\ NullsBehind /\ Cut /\ EdgesFiled /\ WorkListed /\ LabelsApart
        /\ EntryFlagged /\ StatesArise /\ NoWayBack /\ Handing
        /\ \A k \in DOMAIN entryStates : IsFiled(k)
        /\ solveStatus = "waiting" => DOMAIN entryStates = {}
    BY <2>1, <2>2 DEF Inv, BeingLinked, BeingSolved, BeingLabelled, BeingWalked, BeingVisited,
                      BeingHanded
  <2>4. Handing'
    <3>1. CASE Stack!SolveNode
      BY <2>3, <3>1, SolveNodeHands
    <3>2. CASE Stack!Begin \/ Stack!Skip \/ Stack!Die \/ Stack!Return
      BY <2>3, <3>2, OthersHand
    <3> QED
      BY <2>1, <3>1, <3>2 DEF Stack!Next
  <2>5. solveStatus' = "done" => worklist' = <<>>
    BY <2>1, SameInStack
       DEF Stack!Next, Stack!Begin, Stack!Skip, Stack!SolveNode, Stack!Die, Stack!Return
  <2>6. solveStatus' = "aborted" => IsFiled(0)' /\ nodes'[0].idx # 0
    <3>1. CASE Stack!Die
      <4>1. solveStatus' = "aborted" => Stack!AssertionFails
        BY <3>1 DEF Stack!Die
      <4> QED
        BY <2>3, <3>1, <4>1, EntryFails DEF Stack!Die, IsFiled
    <3>2. CASE ~Stack!Die
      BY <2>1, <3>2 DEF Stack!Next, Stack!Begin, Stack!Skip, Stack!SolveNode, Stack!Return
    <3> QED
      BY <3>1, <3>2
  <2> QED
    BY <2>4, <2>5, <2>6 DEF BeingHanded
<1>3. CASE FillStep \/ GraphStep \/ StartStep \/ NestedStep
  <2>1. solveStatus' = "waiting"
    <3>1. CASE NestedStep
      BY <3>1 DEF NestedStep, Construct
    <3>2. CASE FillStep
      BY <3>2, FillDecodes DEF Inv, BeingCut, BeingLinked, BeingSolved, FillStep, solving
    <3>3. CASE GraphStep
      <4>1. ~built
        BY <3>3 DEF Inv, BeingCut, GraphStep, Graph!Next, Graph!FlushNode
      <4> QED
        BY <3>3, <4>1 DEF Inv, BeingLinked, BeingSolved, GraphStep, solving
    <3>4. CASE StartStep
      BY <3>4 DEF Inv, BeingLinked, BeingSolved, StartStep, Start!Next, Start!Begin,
                  Start!VisitNode, Start!Abort, Start!Return, solving
    <3> QED
      BY <1>3, <3>1, <3>2, <3>3, <3>4
  <2> QED
    BY <1>1, <2>1
<1>4. CASE AskStep \/ FindStep \/ WriteStep \/ UNCHANGED vars
  <2>1. UNCHANGED solving /\ UNCHANGED filling /\ UNCHANGED cutting /\ UNCHANGED linking
    BY <1>4 DEF AskStep, FindStep, WriteStep, vars
  <2>2. UNCHANGED <<instructions, nodes, next, solving>>
    BY <2>1 DEF filling, cutting, linking
  <2>3. \A j, t : RunOf(j, t)' = RunOf(j, t)
    BY <2>2 DEF RunOf, EntryState, Stack!Run, Stack!RunUpTo, Stack!Passed, Stack!After,
                Stack!CodeOf, Stack!OperandsAt, Stack!DataOf
  <2>4. UNCHANGED <<worklist, seen, entryStates, exitStates, solveStatus>>
    BY <2>1 DEF solving
  <2>5. /\ UNCHANGED <<Work, Entry>>
        /\ \A k : (IsFiled(k)' <=> IsFiled(k)) /\ (HasOnePrev(k)' <=> HasOnePrev(k))
    BY <2>2, <2>4 DEF Work, HasOnePrev, Entry, IsFiled
  <2>6. \A x : IsHandover(x)' <=> IsHandover(x)
    BY <2>2, <2>4 DEF IsHandover
  <2>7. RunsKnown'
    BY <2>2, <2>3, <2>4, <2>5 DEF RunsKnown, RunKnown, BeingHanded, Handing
  <2>8. VisitedAre' /\ VisitedSeen' /\ HandedOn' /\ SeenAre' /\ WorkAre'
    BY <2>2, <2>4, <2>5, <2>6 DEF BeingHanded, Handing, VisitedAre, VisitedSeen, HandedOn, SeenAre,
                                  WorkAre
  <2>9. EdgesFollowed' /\ EntryTaken'
    BY <2>2, <2>4, <2>5 DEF BeingHanded, Handing, EdgesFollowed, EntryTaken
  <2> QED
    BY <2>2, <2>4, <2>5, <2>7, <2>8, <2>9 DEF BeingHanded, Handing
<1> QED
  BY <1>2, <1>3, <1>4 DEF Next

-----------------------------------------------------------------------------
(***************************************************************************)
(* What is known of solveStack, and what it makes of its assertions.       *)
(***************************************************************************)
HandInv == PushesHaveData /\ BeingLabelled /\ BeingWalked /\ BeingVisited /\ BeingHanded

LEMMA HandInit == Init => HandInv
<1>1. Init => BeingVisited
  BY DEF Init, BeingVisited
<1>2. Init => BeingHanded
  BY IdleHands DEF Init, BeingHanded
<1> QED
  BY <1>1, <1>2, WalkedInit DEF HandInv

LEMMA HandKept == Inv /\ HandInv /\ [Next]_vars => HandInv'
<1> SUFFICES ASSUME Inv, HandInv, [Next]_vars PROVE HandInv'
  OBVIOUS
<1>1. Inv' /\ PushesHaveData' /\ BeingLabelled'
  BY InvNext, PushesKept, LabelsKept DEF HandInv
<1>2. BeingWalked'
  BY WalkedKept DEF HandInv
<1>3. BeingVisited'
  BY <1>1, VisitedKept DEF HandInv
<1>4. BeingHanded'
  BY <1>1, <1>2, HandingKept DEF HandInv
<1> QED
  BY <1>1, <1>2, <1>3, <1>4 DEF HandInv

LEMMA HandHolds == Spec => []HandInv
  BY HandInit, HandKept, InvHolds, PTL DEF Spec

LEMMA InvAborts == Inv /\ HandInv => AbortsAtTrailingJumpDest
<1> SUFFICES ASSUME Inv, HandInv PROVE AbortsAtTrailingJumpDest
  OBVIOUS
<1>1. startStatus = "aborted" => EndsInEmptyNode
  BY DEF Inv, BeingLinked, AbortsEmpty
<1>2. ASSUME startStatus = "done", NEW o \in DOMAIN instructions, NEW p \in DOMAIN instructions,
             IsTrailingJumpDest(o), EndOf(Opcodes, p) = o, IsStop(Opcodes[p]) \/ IsBranch(Opcodes[p])
      PROVE  FALSE
  <2>1. Decoded /\ Cut /\ todo = {} /\ VisitedEnd
    BY <1>2 DEF Inv, HandInv, BeingLinked, BeingVisited
  <2>2. \A r \in DOMAIN instructions : EndOf(Opcodes, r) = o => r = p
    <3> TAKE r \in DOMAIN instructions
    <3>1. /\ p \in Nat /\ r \in Nat /\ p < EndOf(Opcodes, p) /\ r < EndOf(Opcodes, r)
          /\ p < r => EndOf(Opcodes, p) <= r
          /\ r < p => EndOf(Opcodes, r) <= p
          /\ EndOf(Opcodes, p) \in Nat /\ EndOf(Opcodes, r) \in Nat
      BY <2>1, OffsetFacts
    <3> QED
      BY <1>2, <3>1
  <2>3. Apart(o)
    BY <1>2, <2>2 DEF Apart, IsTrailingJumpDest
  <2>4. IsFiled(o) /\ o \in Nat /\ p \in Nat /\ p < o
    BY <1>2, <2>1, <2>3, OffsetFacts DEF Cut, ApartAreFiled
  <2>5. EndsBehind(o)
    BY <2>1, <2>4 DEF VisitedEnd
  <2>6. Holds(o, o)
    BY <2>4, <2>5 DEF EndsBehind, Holds
  <2> QED
    BY <1>2, <2>1, <2>6, HeldNotTrailing
<1> QED
  BY <1>1, <1>2 DEF AbortsAtTrailingJumpDest, EndsInEmptyNode

\* A code that starts with a JUMPDEST and goes on behind it.
IsLed ==
    /\ 0 \in DOMAIN instructions
    /\ Opcodes[0] = OP_JUMPDEST
    /\ DOMAIN instructions # {0}

LEMMA InvEntry == Inv /\ HandInv => EntryAsserted
<1> SUFFICES ASSUME Inv, HandInv PROVE EntryAsserted
  OBVIOUS
<1>1. solveStatus # "waiting" =>
         Decoded /\ Cut /\ EntryFlagged /\ BeingHanded /\ startStatus = "done"
  BY DEF Inv, HandInv, BeingSolved, BeingLinked, BeingLabelled
<1>2. ASSUME solveStatus = "aborted" PROVE IsLed
  <2>1. /\ Decoded /\ Cut /\ IsFiled(0)
        /\ nodes[0].isJumpDest /\ nodes[0].end # 0
    BY <1>1, <1>2 DEF BeingHanded, EntryFlagged
  <2>2. 0 < nodes[0].end
    BY <2>1 DEF Cut, FiledByStart
  <2>3. 0 \in DOMAIN instructions /\ ~IsTrailingJumpDest(0) /\ Opcodes[0] = OP_JUMPDEST
    BY <2>1, <2>2 DEF Cut, FiledStarts
  <2> QED
    BY <2>3 DEF IsLed, IsTrailingJumpDest
<1>3. ASSUME IsLed, solveStatus # "waiting"
      PROVE  IsFiled(0) /\ nodes[0].idx # 0
  <2>1. Decoded /\ Cut /\ EntryFlagged
    BY <1>1, <1>3
  <2>2. ~IsTrailingJumpDest(0)
    BY <1>3, <2>1, OffsetFacts DEF IsLed, IsTrailingJumpDest
  <2>3. PICK k : Holds(k, 0)
    BY <1>3, <2>1, <2>2 DEF IsLed, Cut, FiledCover
  <2>4. k = 0 /\ IsFiled(0) /\ 0 < nodes[0].end
    BY <2>1, <2>3 DEF Holds, Cut, FiledByStart
  <2>5. nodes[0].isJumpDest
    BY <1>3, <2>1, <2>4 DEF IsLed, Cut, FiledStarts
  <2> QED
    BY <2>1, <2>4, <2>5 DEF EntryFlagged
<1>4. ASSUME IsLed PROVE seen = {}
  <2>1. Handing /\ (seen # {} => solveStatus # "waiting")
    BY DEF Inv, HandInv, BeingHanded, BeingSolved, Handing, SeenAre
  <2> QED
    BY <1>3, <1>4, <2>1 DEF Handing, EntryTaken
<1>5. ASSUME IsLed, solveStatus = "done" PROVE FALSE
  <2>1. Handing /\ Work = {}
    BY <1>1, <1>5 DEF BeingHanded, Work
  <2> QED
    BY <1>3, <1>4, <1>5, <2>1 DEF Handing, EntryTaken
<1> QED
  BY <1>2, <1>4, <1>5 DEF EntryAsserted, IsLed

-----------------------------------------------------------------------------
(***************************************************************************)
(* The theorems                                                            *)
(***************************************************************************)

\* However long the code is and whatever contracts are found in it, startGraph's
\* assertion fails exactly if the code ends in a JUMPDEST right behind a branch or a stop.
THEOREM AbortsAreExplained == Spec => []AbortsAtTrailingJumpDest
  BY InvAborts, HandHolds, InvHolds, PTL

\* Whatever the code, solveStack's assertion fails exactly if the code starts with a
\* JUMPDEST that is not all of it: nothing is run then, and no other code dies of it.
THEOREM EntryIsAsserted == Spec => []EntryAsserted
  BY InvEntry, HandHolds, InvHolds, PTL

\* The null pointers startGraph leaves in nodes stand where no other code follows,
\* and no edge, no issue, no answer of IsReachable and no entry of solveStack's
\* worklist names one.
THEOREM NullsStayBehind == Spec => []NullsAreNeverMet
  BY InvNulls, InvHolds, PTL

\* GetNode never returns a node that does not hold the instruction asked for, and
\* fails only in a code whose last instruction does not fall through.
THEOREM LookupsAreRight == Spec => []LookupsFindNode
  BY InvLookups, InvHolds, PTL

\* Once startGraph has returned, the instructions in the nodes the edges lead to from
\* the entry are exactly those control can come to, as far as jump targets are known
\* then, but for a JUMPDEST at the end of the code, which has no node: fillInstructions,
\* initGraph and startGraph together neither lose code nor add any.
THEOREM GraphHoldsTheCode == Spec => []GraphMatchesCode
  BY InvMatches, InvHolds, PTL

\* A contract found behind a CODECOPY is what the EVM returns, byte for byte, if it returns
\* memory from where it was copied to: however long the code, wherever it begins and ends.
THEOREM FoundAsReturned == Spec => CreatedAsReturned
<1>1. Init => BeingFound
  BY DEF Init, BeingFound
<1>2. Spec => []BeingFound
  BY <1>1, FoundNext, InvHolds, PTL DEF Spec
<1> QED
  BY <1>2, FoundIsReturned, InvHolds, PTL DEF Spec, CreatedAsReturned

\* The audit reports exactly the reads of tx.origin in the nodes IsReachable says yes of,
\* and nothing in a node the edges do not lead to (the first half of OriginsReported):
\* where the code is cut and which null pointers startGraph leaves does not matter.
THEOREM AuditReportsTheReached == Spec => AuditIsExact
<1>1. Init => AnswersStayRight
  BY DEF Init, AnswersStayRight
<1>2. Spec => []AnswersStayRight
  BY <1>1, AnswersStay, InvHolds, PTL DEF Spec
<1> QED
  BY <1>2, AuditStep, InvHolds, PTL DEF Spec, AuditIsExact

\* The execution paths solveStack lists are paths of the graph on which just the stacks
\* it lists them with arise, although a node's states are handed on while others are still
\* missing and its runs are not numbered as if it ran alone.
THEOREM StatesAreReal == Spec => []StatesAriseOnPaths
<1>1. Init => Inv /\ PushesHaveData /\ BeingLabelled /\ BeingWalked
  BY InvInit, WalkedInit
<1>2. Inv /\ PushesHaveData /\ BeingLabelled /\ BeingWalked /\ [Next]_vars
         => Inv' /\ PushesHaveData' /\ BeingLabelled' /\ BeingWalked'
  BY InvNext, PushesKept, LabelsKept, WalkedKept
<1> QED
  BY <1>1, <1>2, WalkedArise, PTL DEF Spec

=============================================================================
