---------------------------- MODULE BasicBlocks ----------------------------
(***************************************************************************)
(* What splitting an instruction stream into basic blocks promises,        *)
(* whatever the loop that does it: the blocks are the maximal runs of      *)
(* instructions that start at a leader and hold no other leader, and they  *)
(* are closed one after the other from the lowest address up.              *)
(*                                                                         *)
(* A stream maps the offset of each instruction to its opcode.  A leader   *)
(* is the first instruction, a JUMPDEST, or the instruction behind one     *)
(* that ends a block.                                                      *)
(***************************************************************************)
EXTENDS InstructionStream

CONSTANTS
    BlockEnders,    \* opcodes after which control leaves the block
    KeepsTail       \* FALSE: a lone JUMPDEST at the very end may be left out

VARIABLES
    stream,         \* the stream being split
    blocks          \* the blocks closed so far: records with start and end

Leaders(s) ==
    {o \in DOMAIN s :
        \/ \A p \in DOMAIN s : o <= p
        \/ s[o] = OP_JUMPDEST
        \/ \E p \in DOMAIN s : EndOf(s, p) = o /\ s[p] \in BlockEnders}

\* The block of leader l reaches to the last instruction before the next
\* leader.
BlockOf(s, l) ==
    [start |-> l,
     end   |-> EndOf(s, CHOOSE o \in DOMAIN s :
                  /\ l <= o
                  /\ \A k \in Leaders(s) : k <= l \/ o < k
                  /\ \A p \in DOMAIN s :
                        o < p => \E k \in Leaders(s) : l < k /\ k <= p)]

\* The block of a JUMPDEST that is the last instruction of the stream.
IsLoneTail(s, l) ==
    s[l] = OP_JUMPDEST /\ \A p \in DOMAIN s : p <= l

Owed(s) == {l \in Leaders(s) : KeepsTail \/ ~IsLoneTail(s, l)}

Closed == {b.start : b \in blocks}

Init == IsStream(stream) /\ blocks = {}

Close(l) ==
    /\ \A k \in Leaders(stream) \ Closed : l <= k
    /\ blocks' = blocks \cup {BlockOf(stream, l)}
    /\ UNCHANGED stream

Next == \E l \in Owed(stream) \ Closed : Close(l)

\* Every owed block is closed in the end.
AllClosed == <>(Owed(stream) \subseteq Closed)

Spec == Init /\ [][Next]_<<stream, blocks>> /\ AllClosed

=============================================================================
