------------------------------ MODULE MCBlocks ------------------------------
(***************************************************************************)
(* Programs made of an entry of 6 bytes, which pushes a return address and *)
(* then branches on an unknown condition, and of blocks of 4 bytes at 6,   *)
(* 10, 14, ... each of which is one of: jump to a block, branch to a block *)
(* on what is on the stack, push the address of a block twice and fall     *)
(* through, jump to an address on the stack, stop.  And constructors.      *)
(***************************************************************************)
EXTENDS MCConstructors

CONSTANTS BlockCount, Kinds, ReturnBlocks

BlockAt(i) == 6 + 4 * (i - 1)

Shapes == {<<OP_JUMPDEST, OP_PUSH1, BlockAt(t), op>> :
              t \in 1 .. BlockCount, op \in Kinds}
          \cup {<<OP_JUMPDEST, OP_GAS, OP_POP, OP_JUMP>>,
                <<OP_JUMPDEST, OP_GAS, OP_POP, OP_STOP>>}

Entries == {<<OP_PUSH1, BlockAt(r), OP_GAS, OP_PUSH1, BlockAt(t), OP_JUMPI>> :
              r \in ReturnBlocks, t \in 2 .. BlockCount}

Flat(entry, blocks) ==
    [i \in 0 .. (5 + 4 * BlockCount) |->
        IF i < 6 THEN entry[i + 1] ELSE blocks[((i - 6) \div 4) + 1][((i - 6) % 4) + 1]]

MCBlockCodes == {Flat(e, b) : e \in Entries, b \in [1 .. BlockCount -> Shapes]}

\* A subroutine of two nodes (block 2 and what it falls into, block 3), which
\* the entry calls to return to block 4 and block 1 calls to return to block 5.
MCSubroutine ==
    {Flat(<<OP_PUSH1, BlockAt(4), OP_GAS, OP_PUSH1, BlockAt(2), OP_JUMPI>>,
          << <<OP_JUMPDEST, OP_PUSH1, BlockAt(5), OP_DUP1>>,
             <<OP_JUMPDEST, OP_GAS, OP_POP, OP_JUMPDEST>>,
             <<OP_JUMPDEST, OP_GAS, OP_POP, OP_JUMP>>,
             <<OP_JUMPDEST, OP_GAS, OP_POP, OP_STOP>>,
             <<OP_JUMPDEST, OP_GAS, OP_POP, OP_STOP>> >>)}

=============================================================================
