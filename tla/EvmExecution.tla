---------------------------- MODULE EvmExecution ----------------------------
(***************************************************************************)
(* How the EVM executes a byte string, as far as its words can be known    *)
(* without its input, its memory and its storage.  A configuration is an   *)
(* offset and a stack, its top last.  Nothing here depends on what the     *)
(* disassembler makes of the code, but for the offsets of the instructions *)
(* and the numbers of words they take and leave.  A word is AnyWord where  *)
(* the code alone does not tell it, and in three cases where it does: it   *)
(* is 2^63 or more, it is pushed as more than eight bytes, or computed by  *)
(* LT or by an opcode the disassembler does not compute.                   *)
(***************************************************************************)
EXTENDS EvmWords, InstructionStream

AnyWord == -1
NoJump  == -1

Told(w) == IF 2 * w < Modulus THEN w ELSE AnyWord

PushedWord(code, o) ==
    LET data == [i \in 1 .. Length(code[o]) |-> code[o + i]]
    IN  IF IsReadable(data) THEN Told(WordOf(data)) ELSE AnyWord

\* words are those the instruction takes, the top of the stack first.
ComputedWord(op, words) ==
    IF /\ IsArithmetic(op) /\ op \in HasLogic \ {OP_LT}
       /\ \A i \in DOMAIN words : words[i] # AnyWord
    THEN Told(EVMResult(op, words))
    ELSE AnyWord

FromTop(words, i) == words[Len(words) - i + 1]

\* The stack behind the instruction at o.
StackBehind(code, o, words) ==
    LET op   == code[o]
        n    == Len(words)
        deep == n - StackRemoved(op)
        args == [i \in 1 .. StackRemoved(op) |-> FromTop(words, i)]
    IN  CASE IsPush(op) -> Append(words, PushedWord(code, o))
          [] IsDup(op)  -> Append(words, FromTop(words, StackRemoved(op)))
          [] IsSwap(op) -> [words EXCEPT ![n] = words[deep + 1], ![deep + 1] = words[n]]
          [] OTHER      -> [i \in 1 .. (deep + StackAdded(op)) |->
                               IF i <= deep THEN words[i] ELSE ComputedWord(op, args)]

\* It halts on a stack that is too low, and on an opcode that is later than the table
\* of the disassembler.
Halts(code, c) ==
    \/ IsStop(code[c.pc]) \/ code[c.pc] = OP_REVERT \/ IsUnknown(code[c.pc])
    \/ Len(c.stack) < StackRemoved(code[c.pc])

\* Where a jump goes, if it is taken: to any JUMPDEST for all that is known of AnyWord.
JumpsTo(code, starts, c) ==
    LET target == FromTop(c.stack, 1)
    IN  {t \in starts :
            /\ IsBranch(code[c.pc])
            /\ code[c.pc] = OP_JUMPI => FromTop(c.stack, 2) # 0
            /\ target \in {t, AnyWord}
            /\ code[t] = OP_JUMPDEST}

FallsTo(code, starts, c) ==
    {t \in starts :
        /\ code[c.pc] # OP_JUMP
        /\ code[c.pc] = OP_JUMPI => FromTop(c.stack, 2) \in {0, AnyWord}
        /\ t = c.pc + 1 + Length(code[c.pc])}

\* strayed is the first jump to AnyWord on the way, or NoJump.
StrayedAt(code, c) ==
    IF c.strayed = NoJump /\ IsBranch(code[c.pc]) /\ FromTop(c.stack, 1) = AnyWord
    THEN c.pc ELSE c.strayed

Steps(code, starts, c) ==
    LET stack == StackBehind(code, c.pc, c.stack)
    IN  IF Halts(code, c) THEN {}
        ELSE {[pc |-> t, stack |-> stack, strayed |-> StrayedAt(code, c)] :
                 t \in JumpsTo(code, starts, c)}
             \cup {[pc |-> t, stack |-> stack, strayed |-> c.strayed] :
                 t \in FallsTo(code, starts, c)}

\* What the EVM comes to in at most n steps from offset 0, if it does not go on from
\* the instructions in blocked.  starts are the offsets of the instructions of code.
Executed(code, starts, blocked, n) ==
    LET upTo[i \in 0 .. n] ==
            IF i = 0
            THEN {[pc |-> t, stack |-> <<>>, strayed |-> NoJump] : t \in starts \cap {0}}
            ELSE LET before == upTo[i - 1]
                 IN  before \cup UNION {Steps(code, starts, c) :
                                           c \in {d \in before : d.pc \notin blocked}}
    IN  upTo[n]

=============================================================================
