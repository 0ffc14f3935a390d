# etheraudit: specification, model checking and proofs

The repository takes the byte code of Ethereum contracts apart. Its main program, the
C++ disassembler `etherdis` (`src/cpp/`), decodes the code, simulates the stack
symbolically, builds a control-flow graph, resolves jumps through the stack and prints
reports. A second disassembler in Rust (`src/rust/etheraudit/`) repeats part of this with
other data structures, a Go parser (`src/go/`) an earlier part of it. Around them stand a
Solidity contract used as a sample (`src/KingOfTheEtherThrone.sol`), a test network
(`src/testnet/`) and scripts that collect byte code (`src/scripts/`).

Nothing here runs concurrently and nothing is persisted. What is hard is *order inside a
sequential analysis*: passes that hand maps to each other and rely on how an earlier pass
left them, a worklist whose order depends on heap addresses, memoised recursion over a
cyclic graph, symbolic values that share one number space, conversions at the edge of
their width, and assertions about all of these.

Paths below are relative to `src/`.

## 1. Inventory

### C++ disassembler

| Component | Code | State | Operations | Interacts with |
|---|---|---|---|---|
| Opcode table | `cpp/opcodes_xx.h`, `OpCodes.h`, `OpCodes.cc` | none | `iterate`, `isFallThrough`, `isBranch`, `isStop`, `isDup`, ... | used by every pass |
| Constant folding | `OpCodes.cc` 85-190, `Utils.cc` | none | `Solve`, `getInt64FromVec`, `getVecFromInt64` | `CFInstruction::simplify` |
| fillInstructions | `Program.cc` 21-78 | `instructions`, `symbols`, stack, `jumpdests`, `globalIdx` | one callback per instruction | called by the constructor; feeds all others |
| initGraph | `Program.cc` 80-113 | `currNode`, `idx`, `nodes` | one loop round per instruction, a flush | reads `instructions`, makes `nodes` |
| startGraph | `Program.cc` 115-159 | `todo`, edges (`next`/`prev` of the nodes), null entries of `nodes` | one round per node | reads `instructions`, `nodes` |
| solveStack | `Program.cc` 161-283 | worklist, `seen`, `entryStates`, `exitStates`, edges | one round per (node, predecessor) | reads and adds edges |
| IsReachable | `CFNode.cc` 37-54 | `isReachable`, `isReachableStale` of each node | recursive query | asked by findCreatedContracts, the audit and the reports |
| findCreatedContracts | `Program.cc` 334-388 | `createdContracts`, null entries of `instructions` | one search per CODECOPY | asks IsReachable, constructs a `Program` per contract |
| GetNode, audit | `Program.cc` 408-426, `AuditResult.cc` | audit results | per ORIGIN | reads `nodes` with `lower_bound`, asks IsReachable |
| Reports | `Program.cc` 435-574, `CFInstruction.cc` 49-128 | none | writing | reads everything, calls GetNode for every constant |
| Command line | `etherdis.cc` | output directories | one run, `createOutDir` per contract | constructs `Program` |

What makes them correct:

* **fillInstructions**: the symbolic stack moves as the stack of the EVM does; operands
  recorded for an instruction are what the EVM pops; every symbol used is in the table,
  its creator computed it, and following creators ends; uses are all recorded and nothing
  else is; folded constants are the EVM's results, and what is read back of them is
  what was computed.
* **initGraph**: the nodes are the basic blocks: disjoint, nothing lost, straight-line,
  flagged as jump targets exactly when they are, labelled uniquely; filing never throws
  away instructions.
* **startGraph**: the edges lead to exactly the instructions control can come to as far as
  targets are known; an "Invalid jump" is one; null pointers it leaves in `nodes` never
  hide code; its assertion holds.
* **solveStack**: each stack listed for a node arises along the path listed with it;
  what the EVM can execute is reached by edges; it
  terminates; its assertions hold.
* **IsReachable**: a "yes" is true, a "no" is true, answers do not depend on the order of
  the questions, the recursion is bounded and returns.
* **findCreatedContracts**: the contract found is the one the constructor returns; the
  search and the construction of contracts in contracts end.
* **GetNode, audit**: the node returned holds the offset asked for; every read of
  `tx.origin` that is executed is reported, and none that is not.

### Rust disassembler

| Component | Code (`rust/etheraudit/src/`) | State | Operations | Interacts with |
|---|---|---|---|---|
| Opcode table | `op_codes.rs` | none | `is_jump`, `is_stop`, `get_gas_price`, `solve`, ... | used by every pass |
| Instruction | `instruction.rs` | none | `from_stack`, `iterate_stack` | `Program`, expressions |
| fill_instructions | `program.rs` 43-94 | `instructions`, `blocks`, stack, `start`, `this_end` | one loop round per instruction | feeds the others |
| fill_block_references | `program.rs` 109-151 | `exits`, `entries`, `dynamic_jump` of the blocks | one round per block | reads `instructions`, `blocks` |
| solve_dynamics | `program.rs` 153-188 | generations of states: gas, blocks come through, stack | one round per state | reads `blocks`, sets `reachable` |
| Queries | `expression.rs` 20-108 | `op_trees` | matching a pattern with a tree | called by `main.rs` |
| Command line | `main.rs` | none | printing the blocks reached | reads everything |

What makes it correct: the blocks hold each instruction once; a block looked up later exists;
the edges, the execution and the constants reported for an instruction agree; the execution,
which never recognises a state it has been in, ends; what the report says of a block holds in
every execution and the blocks it prints hang together; a query finds the instances of its
pattern and nothing else.

### Go parser

`go/Parser/Program.go`: `fillInstructions` decodes into a map, `fillBlocks` visits every
offset and appends to `Blocks`, `fillOps` is empty. The types in `Parser/*Expr*.go` are used
by nothing. Its blocks have to tile the code and be basic blocks for the opcodes *it* takes
for jumps and stops, which are not those of the C++ program.

### Sample contract

`KingOfTheEtherThrone.sol`: the state is the wizard, the price, the monarch and the balance;
the operations are `claimThrone` (also as the fallback function), `sweepCommission` and
`transferOwnership`. Sends may fail and nobody looks. The price has to rise, a claim has to be
paid for by who makes it, and a reign that ends has to pay.

### Around them (not modelled)

`testnet/*.js` and `scripts/*.sh`: calls of external tools, no state of their own.

## 2. Modules

```
OpCodes ── InstructionStream ──┬─ BasicBlocks (abstract) <── implemented by ── InitGraph, GoBlocks
   │                           ├─ InitGraph ── InitGraphProofs
   │                           └─ GoBlocks ── GoBlocksProofs
   └─ ConstantFolding ── CFInstruction ─┬─ FillInstructions ─┐
       BitSums                          ├─ StartGraph        │
          │  └── Powers                 ├─ SolveStack        ├─ Program (INSTANCEs of all six) ── ProgramProofs
          │                             ├─ CreatedContracts  │
          ├─ EvmWords                   └─ Reports ──────────┤
          │     └── EvmExecution ────────────────────────────┘
   RustOpCodes ── RustInstruction ── OpTrees ─┬─ RustProgram ── RustReport ─┬─ RustMain
                                              └─ OpTreeQueries ─────────────┘
CFInstruction, EvmExecution ── CFInstructionProofs ── FillInstructionsProofs, ProgramProofs
InitGraphProofs, FillInstructionsProofs ── (INSTANCEs) ── ProgramProofs
Reachability ── ReachabilityProofs                      Throne ── ThroneProofs
RustReport ── RustProgramProofs
```

| Module | Models |
|---|---|
| `OpCodes` | the classes and stack effects of `opcodes_xx.h` and `OpCodes.cc`; the table is by formula over opcode ranges instead of one line per opcode |
| `InstructionStream` | what `OpCodes::iterate` makes of a byte string; `IsStream` is what the proofs assume of it |
| `ConstantFolding` | `Solve` and the conversions around it, byte by byte |
| `CFInstruction` | one instruction on a symbolic stack: operands, missing arguments, outputs, `simplify`, push |
| `FillInstructions` | `fillInstructions`: a step is one call of iterate's callback |
| `Maps` | `std::map::operator[]` followed by an assignment |
| `BasicBlocks` | abstract: maximal runs between leaders, closed in address order, all in the end |
| `InitGraph` | `initGraph`: a step is one round of the loop, or the flush |
| `StartGraph` | `startGraph`: a step is one node taken from `todo` |
| `SolveStack` | `solveStack`: a step is one entry taken from the worklist, with all the stacks the node is run on |
| `CreatedContracts` | `findCreatedContracts`: a step is one round of its search loop |
| `Reports` | `createOutDir`: the two disassemblies and the audit, as the lookups they make; `GetNode` |
| `EvmWords` | not this code: what the EVM computes, by definitions of its own |
| `EvmExecution` | not this code: how the EVM executes a byte string, as far as its words can be known |
| `Program` | the constructor of a program and what `main` does with it, then the same for the contracts it creates; properties that relate the passes |
| `Reachability` | `AddNext` and `IsReachable`, call by call with an explicit call stack |
| `BitSums` | AND and XOR of naturals, for both programs |
| `Powers` | what the bits and the bytes of a number stand for |
| `RustOpCodes` | the table of `op_codes.rs`, gas prices, `solve` on integers |
| `RustInstruction` | one instruction of the Rust program on a symbolic stack, and its exits |
| `OpTrees`, `OpTreeQueries` | the trees of operations of the Rust program, and matching them with a pattern |
| `RustProgram` | `Program::new` in Rust: a step is an instruction, a block, or a state of the execution |
| `RustReport` | `process_program`: a step is one block printed |
| `RustMain` | the same program with `Program::query` |
| `GoBlocks` | the Go parser: a step is one instruction decoded or one offset visited |
| `Throne` | the contract: a step is one call |
| `MC*` | the inputs TLC enumerates |

### How state and actions correspond

**FillInstructions.** `instructions`, `stack`, `globalIdx`, `jumpdests`, `jumpIdx`,
`symbols` are the variables of the function; `pos` is where `iterate` stands. `AtJumpDest`
clears the stack and opens a count of arguments; `AtInstruction` and `AtEntryInstruction`
are the callback behind and in front of the first JUMPDEST. In front of it the `idx` of an
argument is never assigned: the model takes it from `JunkIdx` (undefined behaviour as
choice). `Trap` is the division by zero of `MOD`. `Finish` is the end of `iterate`,
an instruction whose data is cut short included. A step contains everything the callback
does: operands, outputs, `simplify`, both loops over the symbol table, the push.

**InitGraph.** `remaining` is what the range-for has still to visit; `CloseNode`,
`SplitNode`, `ExtendNode` are the three ways through its body and `FlushNode` the lines
behind it. `Extended` is the common beginning: the node's end moves behind the instruction
*before* the JUMPDEST branch tests for an empty node, so in the model as in the code that
test never holds, and empty nodes are filed and then replaced. `Unset` (-1) is
`(size_t)-1`.

**StartGraph.** `nodes` may map an address to `NoNode`, the null pointer that
`nodes[node->end]` leaves behind. `todo` is a set: nothing is pushed while it is emptied
from the back. `VisitNode` draws the fall-through edge and the edge of a constant jump;
`Abort` is `assert(lastInstr)`. For the code `5b` the node is [0,0) and `end - 1` wraps:
`Searched` keeps this.

**SolveStack.** `worklist` holds (node, predecessor), taken from the back; `Skip` and
`SolveNode` are the two ways through the loop, `Die` is the assertion on the entry node and
the trap of `MOD`. Stacks are taken in the order of `CFExpression::operator<` (`Less`,
`Precedes`; `InOrder` is the order in which `std::map` goes through them), and the counters of arguments and outputs run on from one stack to the next.
`next` is a set of shared pointers ordered by heap address: `SolveNode` tries every order.

**Reachability.** `stack` is the call stack: `Query` is a caller's call, `AskPrev` one
round of the loop over `PrevNodes`, `Found`, `GiveUp` the two returns, `Deliver` the return
to the caller. `rank` is the arbitrary order of heap addresses. Every graph is built by
`AddNext` first, so cyclic graphs are among them. The model supposes that a node labelled
0 exists; which programs have none is what `EntryAsserted` of Program says.

**CreatedContracts.** `copies` are the CODECOPYs of reachable nodes with constant operands,
`copyAt` the one being looked at, `searchPos` its `pos`. `Search` adds the offset to `nulls`
where `instructions[pos++]` adds a null pointer, and the bound of the loop,
`instructions.size()`, counts these. `Stop` ends the search, and adds what NewCode gives to
`created`. The loop that takes the bytes counts in an `int` up to an `int64_t`: `FirstByte` is narrowed
(`AsInt`), `EndByte` is not. Where the `int` would have to count beyond its greatest value, which is undefined, the model
takes either outcome: the counter has been kept in a wider register and the bytes are taken (`Stop`), or it starts
again below zero, never gets to the end and takes bytes until the memory is full (`Exhaust`). `Abort` is
`assert(canRead)`.

**Reports.** `Write` is one output of `createOutDir`: the short disassembly, the full one,
the audit. Of the text only the lookups are kept which it makes with GetNode: every readable
constant that is written as an operand, of every instruction that is written, and in the audit
every ORIGIN. `GetNode` is `lower_bound` and the walk back; its three outcomes are a node, the
null pointer for an offset behind the code, and the failing assertion (`Abort`).
stackUsage.txt, issues.log and symbols.txt print state of other modules and look nothing up;
that `ToString` finds what it asserts is part of `SymbolTableIsSound`.

**Program.** Each pass is an INSTANCE. A pass starts when the one before has returned and
stops the whole when it dies. `InitGraph` sees the opcodes of the instructions
(`instructions <- Opcodes`). IsReachable enters as a contract: `AskStep` picks, once and for
all nodes, any set of answers that satisfies what the run of `Reachability` and its theorems
establish: a "yes" is right and has a predecessor that is a "yes" (`Sound`, `Witnessed`), a
"no" may be wrong only behind a cycle (`CompleteBeforeCycles`), and no answer changes later
(`VerdictsStable`; no edge is added any more). What the graph is compared with is `Executed` of
`EvmExecution`, which goes by the bytes of the code and words of the EVM and by nothing the program finds out: a jump
to a word that is not known goes to every JUMPDEST, a branch on one goes both ways. The code constructs a contract as soon as it
is found; the model puts this off until the program it is found in is written (`pending`,
`Construct`), which makes no difference because the two share no state.

**RustProgram.** `Fill`, `Link` and `Solve_dynamics` are the three calls of `new`, `phase`
says which one is running. `FillInstruction` is one round of `fill_instructions`: decoding,
the stack, and `insert_block` where the code calls it, before the instruction is in the map.
`this_end` is the `Option`, `Nothing` its `None`. `LinkBlock` is one block, in the order of
the BTreeMap; `SolveState` is one state, taken from the front: the generations of the code
make one queue, since a new state goes behind all older ones. Each panic is a step to
`phase = "panicked"`, with the `cause` of the first one the code meets: data cut short, no
logic or no inverse for an opcode, an opcode without a price, an empty block, no block at 0,
a floating value, a dynamic target, no block behind an exit, gas below zero (a build
with overflow checks), and a target or an exponent of EXP that is below zero or does not fit a `usize`
(`FitsUsize`). `moves` and `refused` keep what the execution did and printed.

The tree of an instruction is made in the same step (`op_trees`); `TreesOf` builds it from
the map, so a name that is not in the map yet has none, and the step panics with `op tree`.

**RustReport, RustMain.** `PrintBlock` is one round of `process_program`; `report` holds a record for
each block printed. A query changes nothing, so `QueryAnswers` is an operator, asked when
`Program::new` has returned; it stands in a module apart because matching is recursive and the report
is proved about.

**GoBlocks.** `FillInstruction` is one round of `fillInstructions`, `Cut` one offset of
`fillBlocks`, `WithBlock` is `addBlock`. `Unended` is the End of -1. The opcode tables differ:
for this parser RETURN does not stop, and the jumps with data of the C++ table are plain.

**Throne.** Each function is an action. A send fails or succeeds as it likes (`refunded`,
`compensated`), except that one to the wizard of more than there is fails. `repaid` and `refused` keep what the
last claim did about the monarch it usurped: nothing is sent to him if the throne counts as vacant (`IsVacant`: he is the
wizard of this moment), or if the send fails. The calls of a
solidity compiler of that time (the header names 0.2.1) forward 2300 gas in `send`, too little
to call back, so a call is one step. Names, timestamps and `pastMonarchs` are written and
never read.

### Abstractions

* `RustProgram` leaves out `exit_stack` of a block and the conditions of exits, which nothing
  reads, and all blocks but the last that a state has come through.
  In a build without overflow checks the gas wraps around and the execution of a loop goes
  on; this build is not modelled. `memory.rs` wraps locks that its one thread takes and gives
  back without nesting a write into another access.
* Constants of the C++ program are byte strings as in the code, but an `int64_t` has
  `WordBytes` bytes and a word of the EVM `EvmBytes` (8 and 32 in the code): 1 and 3 in
  `fill_instructions`, where the operands then run over the edges of the signed and the
  unsigned range, 2 and 3 in the runs of `Program`, where addresses need more than 7 bits.
  Sign extension puts `EvmBytes - WordBytes` bytes where the code puts 24. Nothing in the
  conversions depends on the width otherwise.
* An `int` has `IntBytes` bytes (4 in the code): 1 in `program`, where an offset of 256 is narrowed to 0, and
  2 in `contract_offset`. The greatest `usize` of the Rust program is below `UsizeModulus` (2^64 in the code, 100 in
  `rust_program`): an exponent of EXP and a target that do not fit are two of its panics.
* `EvmExecution` knows a word if the code alone tells it. Three kinds of words that the code tells are unknown to it all
  the same: those of 2^63 or more, those pushed with more than eight bytes, and those computed by LT or by an opcode that
  the disassembler does not compute. A jump to one of them is therefore taken to go anywhere, which is more than the EVM does.
* Where `Continues` of `Program` says where control can go, for comparison with what `startGraph` draws, it takes the
  same fall-through class as the code: that REVERT is in the wrong one (see below) does not show in `GraphMatchesCode`.
* Labels, formatting and report text are left out.
* The search `CFNode::lastInstruction` is modelled by its result, not its steps.
* The `prev` sets of the nodes are the inverse of `next`.

## 3. Runs

| Run | Question | Inputs and bounds | Result |
|---|---|---|---|
| `cut_into_nodes` | Is initGraph right at every moment, and does it implement `BasicBlocks`? | every byte string of ≤ 5 bytes over a stop, a plain opcode, both branches, JUMPDEST, PUSH2 | holds |
| `reachability` | Are answers sound, stable, wrong only because of cycles, and does each query return? | every graph on 4 nodes with ≤ 5 edges, every heap order, all nodes asked in order, 1 query more | holds |
| `reachability_denied` | Is a node called unreachable unreachable? | 4 nodes, ≤ 4 edges | **violated** |
| `fill_instructions` | Symbol table, symbolic stack, (LT apart) is a folded constant the EVM's word, is it read back as it was computed? | every byte string of ≤ 5 bytes over ISZERO, ORIGIN, SSTORE, JUMPDEST, PUSH1, DUP1, DUP2, SWAP2 (used as data, too), junk 0 or 1; PUSH1 a, PUSH1 b, op, PUSH1 c, op', op'' for 0, 3, 127, 128, 255 and 10 + 2 operators | holds |
| `used_at` | Are the listed uses uses? | ≤ 4 bytes | **violated** (`32 5b 55`) |
| `program` | Do the passes agree about control flow? Which codes do the two assertions stop? Which lookups find their node? Do stacks arise along their paths? What of the EVM's executions is reached by the edges, and which ORIGINs are reported? Is the contract found the one returned? Does all this end? | every byte string of ≤ 4 bytes over STOP, MOD, ORIGIN, JUMP, JUMPI, JUMPDEST, PUSH1, DUP1; PUSH1 of 0 or 2 to 6, alone or above an ORIGIN, and every four bytes of STOP, ORIGIN, JUMP, JUMPI, JUMPDEST behind it; the same targets pushed with one byte more than an `int64_t` has, and three bytes behind; an entry that pushes a return address and branches, and 3 blocks of any shape: branch, return through the stack, push, stop; constructors of 4 contracts with sizes of copy and return of 3, 40 and unreadable, offsets 0, 12 and 256, equal and different addresses, nothing, a JUMPDEST or a STOP in between; every permitted answer of IsReachable | holds |
| `get_node` | Does GetNode succeed, as it asserts? | ≤ 4 bytes over STOP, ORIGIN, POP | **violated** (`32 32 00`) |
| `subroutine_return` | Is all that the EVM executes reached by the edges, or behind a jump nobody could read? | one program: a subroutine of two nodes called twice | **violated** |
| `contract_offset` | Is the contract found the one the EVM returns? | the constructors, with sizes 3 and 40, offsets 0 and 12 | **violated** |
| `rust_program` | Are the blocks right, do the later passes find them, do edges, execution, inputs and trees agree, does the report hang together, are queries right, does it end? | every byte string of ≤ 5 bytes over STOP, SUB, MOD, ORIGIN, JUMP, JUMPI, JUMPDEST, PUSH1, DUP1, LOG0, and of 6 over STOP, JUMP, JUMPI, JUMPDEST, PUSH1; 20 gas; 5 patterns | holds |
| `go_blocks` | Do the blocks tile the code and implement `BasicBlocks`? | every byte string of ≤ 4 bytes over JUMPI, JUMPDEST, PUSH2, b0, RETURN, REVERT, and of 5 over four of them; the empty code | holds |
| `throne` | Does the price rise, does a claim pay for what it sends, and is the monarch it usurps repaid, or excused? | 3 agents; 34 claims, 3 of them paid; amounts of nothing, less than, and more than the price; every failure of a send | holds |

*Why the bounds are enough.* initGraph looks at an instruction, its node and the key under
which the node is filed; all combinations of "open or not", "empty or not" and the classes
of three consecutive instructions occur within five bytes, data bytes that look like
JUMPDESTs included. For fillInstructions five bytes hold a push, a stack manipulator that
digs below the stack and two consumers, behind a JUMPDEST or not. A wrong "no" of
IsReachable takes an entry and a cycle of two; the fourth node and the fifth edge add a node
behind the cycle and a second way into it. `MCBlocks` is
built from blocks instead of bytes because the shortest program in which solveStack
resolves a jump has more bytes than can be enumerated; every shape of three blocks includes
loops, a node entered from two others, and returns to an address pushed in the entry.
The shortest code that jumps to a word no code tells is `32 56`; behind it, or behind a wide push, the tails hold
JUMPDESTs with code that only such a jump comes to. `MaxSteps` is the number of instructions an
execution is followed for; 24 are more than any program of the runs has, so that every loop comes round to where it
began. `Bits` bounds the operands of AND and XOR in the Rust model; in the C++ one they have the bits of an `int64_t`. For the Rust program five bytes hold a
loop through a JUMPDEST, a JUMPI that goes either way, a jump to the end of its own block and
a tail; `GasLimit` stands for the 500000 of the code and lets the shortest loop go round five
times, which is more than it takes to see every entry stack it makes or to run out.

The patterns of the queries bind a target and a condition as the one in `main.rs` does, look
two levels deep, ask for a constant and for an argument, and name something twice. For the Go
parser five bytes hold a cut-short PUSH2, two JUMPDESTs and an ender between them. In the
throne 34 claims are what takes the price from its start over every rounding step to the
overflow of the scaled `Modulus`; what claims pay matters only to the balance and the reign, for
which three paid claims (a reign, its usurpation, one more) are enough.

Deadlock checking is off in every run because every pass ends: the program stops when it has
returned, died, or answered the queries; the throne stops at the bound on claims with nothing
left to sweep.

*What the violations show.*

* `reachability_denied` - the stale flag is cleared before the predecessors are asked, so a
  node asked while the search goes round a cycle gets "no" and keeps it; the report then
  says `/* Unreachable*/`. `CompleteBeforeCycles` shows that cycles are the only cause.
* `used_at` - arguments and constants are looked up in the symbol table by number alone.
* `subroutine_return` - a (node, predecessor) pair is taken once; exit states the predecessor
  gets later are not handed on. So the second return is not found, and what is executed behind it is called unreachable
  although every jump on the way can be read. `ExecutedIsReachedBeforeJoins` shows that nothing is lost before the EVM has
  left a node with two predecessors.
* `get_node` - `lower_bound` gives `end()` for an offset behind the last key, and the walk back
  stops at once instead of going to the last node. In `32 32 00` the ORIGIN at the key 0 is found, the one behind it is
  not. `LookupsFindNode` shows when this is
  harmless: as soon as the last instruction falls through, the null pointer startGraph has left
  behind it ends the search. The reports ask GetNode for every constant and the audit for every
  ORIGIN, so a program in whose last node, behind its start, an ORIGIN stands or a constant points dies there, unless its
  last instruction falls through.
* `contract_offset` - `Program.cc:369` subtracts the difference between the address returned from and the one copied to,
  which the EVM adds: a contract returned from another address than it was copied to is cut out of the wrong place.
  `CreatedAsReturned` shows that equal addresses are safe as long as an `int` can count the bytes.

Disagreements seen on the way that have no run of their own:

* For a code that starts with a JUMPDEST and goes on behind it the empty node labelled 0 is replaced by the node
  labelled 1, because `Program.cc:97` tests for an empty node after its end has moved. Then
  `assert(node->idx == 0)` (`Program.cc:177`) fails, and in a build without assertions no node
  is reachable. `EntryAsserted` says that it fails for these codes and no others; the code `5b` keeps its empty node
  labelled 0 and passes.
* LT is folded as GT (`OpCodes.cc:137`), where `opcodes_xx.h:18` says "less-than comparision".
* The offset a contract starts at is narrowed to an `int` (`Program.cc:369`): of one copied from 2^32 the code takes the
  bytes from 0 on, where the EVM reads zeros, and for one from 2^31 on the `int` is negative. One of eight bytes with the
  sign bit set is negative before that. `CreatedAsReturned` is about offsets and sizes an `int` can count.
* A jump to a target pushed with more than eight bytes, leading zeros included, is followed by the
  EVM; `getInt64FromVec` (`Utils.cc:37`) cannot read it, and startGraph draws no edge.
  `GraphMatchesCode` counts such a target among the unknown ones.
* REVERT is neither a stop nor excluded from falling through (`OpCodes.cc` 176-191), although
  `opcodes_xx.h:166` says it stops execution.
* `assert(lastInstr)` in startGraph (`Program.cc:133`) fails for a JUMPDEST that ends the code right behind a stop or a
  branch: its node stays empty. That is so for `00 5b`, where nothing gets to it, and for `57 5b`, where the JUMPI falls
  through to it. `AbortsAtTrailingJumpDest` says that the assertion fails for these codes and no others.
* Rust: the exit of an instruction is `offset + 1` even behind the data of a PUSH
  (`instruction.rs:84`), so an edge is drawn and not followed, and "Invalid jump to" is printed
  where there is no jump; by `RefusedAreExplained` this is the only way there.
* Rust: of a name that occurs twice in a pattern, the later tree stays even if the two differ
  (`expression.rs:90`); `QueriesFindInstances` is exact for patterns that name nothing twice.
* The throne: "How much must an agent pay now" (line 53) is not enforced, the check of lines
  98-102 being a comment; and "When the throne is vacant, the fee accumulates for the wizard"
  (line 122) fails after `transferOwnership` before the first claim: the compensation then goes to
  the wizard that was.

*Fairness.* `InitGraph!FairSpec` has weak fairness of the pass: a loop over a finite map with
no blocking call. `Reachability!FairSpec` has weak fairness of `Search` only, that is of the
call in progress; no fairness makes the program ask. `GoBlocks!FairSpec` is weak fairness of a
parser that makes no blocking call. `Program!FairSpec` and `RustReport!MainFairSpec` are weak
fairness of the next step for programs that make no blocking call,
written without ENABLED (`[]<>stopped \/ []<><<TRUE>>_vars`): a step is possible until the
program has stopped. Nothing else is assumed; the throne has no fairness, for nobody is bound
to call it.

## 4. Theorems

All are for every value of the constants.

**InitGraphProofs** (assumption `StreamsAssumption`: each element of `Streams` is an
instruction stream, that is what `iterate` yields: instructions do not overlap and follow
each other from 0). No invariant is inductive by itself; the proof goes in layers.

* `Layout`: the type invariant, visited instructions lie before the remaining ones, nodes
  are filed under their start, the open node lies behind every filed one, and the
  instructions to come behind the open one. From it `TypeCorrect`, `NodesNeverOverlap` and
  `FilingDiscardsOnlyEmpty`: the open node can meet a filed one under the same key only if
  that one is empty.
* `Coverage` on top of it: each visited instruction is in a filed node or the open one, with
  the exception of a JUMPDEST just visited, whose node begins and ends at it. From it
  `NothingLost`.
* `Straightness`, `Flags`, `Labels`: what filed nodes promise, said of the open node as
  well. From them `NodesAreStraightLine`, `FlagsAreRight`, `LabelsNameOneNode`, which no run
  checks: `ImplementsBasicBlocks` says the first, and startGraph and solveStack rely on the others.
* `EntryNode`: a node that starts at 0, the open one too, is labelled 0 exactly if it is not flagged as a jump
  target, and once it is closed nothing will start at 0 again. `EntryIsAsserted` of ProgramProofs needs it.

Its last part shows that the pass implements `BasicBlocks`. On top of the layers, `Runs` says that
filed nodes that hold instructions, and the open one, start at leaders (`StartsAtLeaders`, `OpenRun`),
and where the open one ends. A stretch of code with no end but its last instruction and no JUMPDEST but
its first holds no leader but its first (`NoLeaderInside`), so what is filed is exactly the block of
`BasicBlocks` (`RunIsBlock`), and every leader in front of it is closed (`LeadersAreClosed`). So each step
closes the next block or is a stutter (`StepsCloseBlocks`), nothing is owed when the pass returns
(`NoBlockIsOwed`), and a pass that returns satisfies `ImplementsBasicBlocks` (`ReturningPassImplements`).
That it returns is liveness, and the run shows it.

For `ProgramProofs` it also keeps `Handed`, what the later passes get: each filed node ends behind one of the
instructions, or is the empty one filed for a JUMPDEST that nothing falls into and that ends the code
(`NodeEnds`); each such JUMPDEST has a key (`JumpDestsFiled`); nodes are flagged as their first instruction
says (`Flags`); and what is closed was a block to be closed, so no node holds the JUMPDEST that ends the code
(`TailLeftOut`).

**CFInstructionProofs** (assumption `WidthAssumption`: an `int64_t` has at least a byte, a word of the EVM
more) is about the numbers and the instructions themselves, for every width. The numbers are computed by recursions over naturals. In
place of the library's induction theorems, which take an operator, stands the smallest
counterexample (`Smallest`, and `Upwards` for a stretch 0 .. n), and that the function a recursion over
naturals describes exists is proved by joining its initial runs (`RunsOfRecursion`, `RecursionExists`).

* `PowersOf256`, `PowersOf2`, `PowersGrow`, and the quotients and remainders by them.
* What a string of bytes stands for obeys the recursion in its definition (`WordRun`) and is below the
  power of its length (`WordBounded`); the bytes `getVecFromInt64` shifts out of a number stand for that number
  (`LowBytesLength`, `WordOfLowBytes`). So what is written is read back, signed and unsigned
  (`WrittenIsReadBack`).
* `BitwiseSumIs`: the sum bit by bit that stands for `&` and `^`, and its range.
* `SolveType`, `ResultFacts`: whatever `Solve` returns is cut to an `int64_t` and written as bytes.
* `SolveIsEVM`: the arithmetic of the code on signed words is compared with that of the EVM on the numbers its constants
  stand for, operator by operator: quotient and remainder of what is not negative (`DivisionAsEVM`), AND and XOR
  from the bit sums (`BitwiseAsEVM`), equality from the injectivity of reading.
* `OperandsAlike`, `SimplifiedAlike`, `PushedAlike`, `RestAlike`: on two stacks of one height with the same
  constants in the same places (`Alike`) an instruction takes, makes and leaves the same constants,
  whatever the numbers of the symbols and arguments.
* `StepIsTold` joins the symbolic stack and the executing EVM of `EvmExecution` for one instruction. A symbolic stack tells
  of one of the EVM (`Tells`) if they are of one height and each word that is known without input is a constant in its place, is
  readable and reads as that word. Then it does so again behind the instruction, by cases: `PushTold`, `DupTold`, `SwapTold`, and
  `OtherTold` with `ComputedTold`, which rests on `SolveIsEVM`; and if the instruction jumps to a word that is
  known, that is the target the code reads (`OperandsTold`).

**FillInstructionsProofs** (assumptions `WidthAssumption`, and `CodesAssumption`: codes are strings of bytes; only the
last two theorems below use them, and nothing is assumed of uninitialised idx). `IInv` adds to
`SymbolTableIsSound` that every symbol on the stack is in the table, that the table names
instructions, and that these lie in front of the one being decoded. Operands come from the stack, so their
symbols are known and older; new entries are made only for outputs not known yet (`TableAfter`). From it
`SymbolsAreTraced`. `StackIsSimulated` is about one step: with the arguments it misses put below the stack, the
operands of an instruction are the values on top (`WithArgumentsFacts`), and replacing these by
its outputs is what the EVM does, for DUP (`DupMoves`), SWAP (`SwapMoves`) and the rest
(`OtherMoves`).

`ReadBack` and `FoldedAsEVM` are about values and rest on `FoldingsAreSolved`: every constant on the stack and
among the operands is a string of bytes, each instruction has as many operands as it pops (`TakesBytes`), and a
folded output is what `Solve` makes of the operands, written as bytes, without a trap. From it and
`WrittenIsReadBack` follows `FoldedIsReadBack`, and from it and `SolveIsEVM` `FoldingsAreTheEVMs`. As `FoldedAsEVM` says,
LT is excluded, which is folded as GT, and but for ISZERO and EQ all has to be below the sign bit.

**ReachabilityProofs** (assumption `NodeAssumption`: nodes are numbers, the entry is one of
them). The inductive invariant `Inv` says of the call stack that the active calls are about
distinct nodes, each a predecessor of the one below, none stale and none marked
(`StackOK`); that a "yes" under way is true (`AnswerTrue`); that answered nodes are settled
(`Settled`); and that marked nodes are in every set closed under edges that holds the entry
(`Marks`). From it `TypeCorrect`, `YesIsReachable`, `ReachableHasReachablePrev`,
`RecursionIsBounded`, `AnswersAgree`. No induction over paths is needed: reachability is
stated by closed sets. For `WrongOnlyBehindCycles` `Complete` is added. A node is denied when it is
no longer stale and not marked. `DenialsExcused`: a denied node lies on a cycle, or each of its predecessors has
been denied for good, or is one the node's own active call is not through with; `Nested`: the node of an active call
can be reached from those of the calls above it, so that meeting one of them again closes a cycle; and
`Untouched`: before the first query nothing is denied. Once the stack is empty the nodes that are
neither denied nor behind a cycle are with those that are behind one a set closed under edges.
`AnswersAreAsReliedOn` joins the two modules: once every node has been asked, the nodes with a "yes" are one of
the sets `Answers` of Program lets the later passes be given, so what ProgramProofs shows for all of those holds
with the answers the cache really gives.

**GoBlocksProofs** (assumption `CodesAssumption`: codes are strings of bytes). The tiling is not
inductive. `IInv` adds `Decoded`, that the instructions lie one behind the other from 0 to where
the decoding stands, and `AtFrontier`, that the filed blocks reach to the start of the open one, that
the open one ends where an instruction starts or the code ends (`Frontier`), and that no
instruction starts between there and the offset being visited, which may be inside data. `ReachesFurther` is what appending a block does to a row of blocks. From it
`TypeCorrect` and `BlocksTileTheCode`.

That ParseByteCode implements `BasicBlocks` is proved step by step. The instructions the abstract
specification speaks of are those of the recursion `IsStart`; its solution is the union of all trails, sets of offsets
that hold with each but 0 the one of the instruction in front of it (`IsStartIsStarts`), and a trail is also what
fillInstructions files (`Trailed`), in the end all of it (`AllFilled`). `CutUpTo` is the invariant of fillBlocks: the
blocks filed that hold instructions start at the leaders in front of the open block, which starts at one too, holds no
other, and holds nothing that ends a block. Filing a run of instructions that lies between two leaders is a step of
`BasicBlocks` (`RunIsBlock`, `FilingCloses`), with the data the end of the code cuts off put back (`PaddedEndIs`); filing an
empty block is none. From it `StepsCloseBlocks`, `NoBlockIsOwed` and, for runs that return, `ReturningParseImplements`.

**RustProgramProofs** (of the assumptions on the constants none is used: any set of codes, well
formed or not) proves every safety property the run checks of `RustProgram` and `RustReport`.

* `Static` is about `fill_instructions`. The open block is [start, offset): the filed ones lie in a
  row in front of start (`InRow`) and hold everything before it (`FiledUpToStart`), nothing in the open one
  ends a block (`NoEndBehindStart`), and start is 0, a JUMPDEST or behind an end (`StartHasCause`).
  The tail that no block holds is then the open block (`TailIsOpenBlock`), and
  `BlocksPartitionTheCode` follows. `Contiguous` adds that instructions follow each other without a
  gap, `BlocksInCode` that blocks start and end at instructions and hold no JUMPDEST but the first.
* `Traced(T)`: `T` gives the symbolic stack in front of each instruction. The program does not keep
  these stacks; that such a `T` exists is `HasTrace`.
* `Passes` is what the passes leave to each other: the queue holds states of blocks only, nothing has
  panicked, and nothing is moved before `solve_dynamics`. The three together are `Sound`;
  `LookupsFailInTailOnly` is a step property of it: each panic is explained when it happens
  (`ExplainedBy`).
* A block is run by a fold over a set of offsets. That the fold has the value its definition says
  (`RunStep`) is proved from the well-foundedness of the numbers: for two functions that satisfy the
  recursion, or for a set on which none does, a smallest counterexample is taken (`RunsAgree`,
  `RunsExist`). Properties of runs follow in the same way (`RunHasType`), and `LastRuns`: the exits
  of a run are those of the last instruction. From it `RefusalsHaveReasons`.
* `Tracks` relates a symbolic stack to one of an execution: it is not higher, and from the top down
  each of its expressions says what is there (`Meets`): a constant is that constant, the result of an
  instruction of the block is what it has put out, and in a block that jumps lead to argument k is what was k below the
  top on entry. It holds from one instruction to the next (`InputsMeet`, `OutputsMeet`, `TracksOn`) and
  therefore through a block (`BlockTracks`), if it is entered as the symbolic stack says
  (`Followed`): behind a JUMPDEST this is no condition. `FollowedTrace` is the invariant that every
  waiting state enters its block so: a block that jumps do not lead to is entered only from the end of
  the one in front of it. From it `StaticInputsAreMet`.
* `Drawn`: linked blocks have the edges their last instruction gives, or the mark of a dynamic jump. As
  an execution jumps where the symbolic stack says, if that says it (`JumpsWhereSaid`),
  `MovesFollowEdges` follows.
* `Balanced`: a block that lists another one as an exit is listed by that one as an entry, as often (lists are
  counted by their places, `TimesJoined`). `Reaches`: execution comes to a block by a move from one that it has
  reached. `Reported`: printed are the blocks reached that have been visited. With what is known of the moves
  `ReportsHangTogether` follows.

**ProgramProofs** (assumptions `CodesAssumption` of `Program`: codes are strings of bytes, each of which an
`int64_t` can address, as no `std::vector` is longer; `WidthAssumption`; and `IntBytesAssumption`: an `int` has at least
a byte and at most as many as an `int64_t`; nothing is assumed of the junk)
follows a code through all passes, and the contracts found in it after it, each of which is such a string
again (`NewCodeIsBytes`). The passes are instances with an opcode table each; the `Same...` lemmas say that the
tables and what is computed from them agree. `Inv` has a part for each pass.

* `Decoded`: what fillInstructions has put into the map is a stream that ends where `pos` is. So
  `StreamsAssumption` is not assumed here but proved, and `InitGraphProofs` is used with the
  opcodes found (`Pass`).
* `BeingFilled`: operands and stack are as `FillInstructionsProofs` says (`Fills`).
* `BeingCut`: initGraph is where `Handed` says. When it returns that becomes `Cut` (`HandedIsCut`), which
  speaks of the nodes that are no null pointers and therefore outlasts startGraph (`CutStays`). `FiledStraight` and
  `FiledStarts` in it say that only the last instruction of a node ends it, only the first is a JUMPDEST, and the
  flag is right.
* `BeingLinked`: null pointers stand behind nodes (`NullsBehind`), edges join nodes (`EdgesFiled`), a node
  visited has a key where control leaves it (`FallsLinked`; `lastInstruction` finds the one instruction the
  node ends behind, `LastOfNode`), and startGraph has not died but for the reason given.
* `BeingDrawn`: until solveStack begins, edges leave visited nodes only (`OnlyVisitedLead`), and from such a node lead
  exactly to where its last instruction falls or jumps (`VisitedLead`).
* `BeingVisited`: the edges startGraph leaves are all that last instructions call for, and none leads back to the entry
  unless it is a jump target.
* `Handing`: solveStack has nothing to do for the entry but what it begins with until the entry has been taken (`EntryTaken`);
  a node that has been run has each of its successors on the worklist or taken (`EdgesFollowed`), what it makes of each
  stack listed is filed with what it is left with, and where it jumps then is an edge (`RunsKnown`); and a node with
  one predecessor is entered with all that predecessor is left with (`HandedOn`), as it is run when that hands over and never
  again (`FirstTime`).
* `BeingSolved`, `BeingAnswered`: worklist and states of solveStack and the answers of IsReachable are
  about nodes (`WorkListed`, `ReachedAreFiled`).

From it `AbortsAreExplained`, `EntryIsAsserted`, `NullsStayBehind` and `LookupsAreRight`. The first two say of which codes an
assertion stops the program, and that it stops no others: the JUMPDEST that ends the code in an empty node has a key of
its own and is visited, and the search for the instruction in front of its end finds none; and a flagged node at 0 is not
labelled 0 (`EntryFlagged`), so that it cannot be the first one taken and pass. For the lookups: the covering node is the last one
in front of the first key behind the offset (`GetNodeFinds`), and if there is no such key the last instruction
does not fall through (`KeyBehind`).

`GraphHoldsTheCode` compares two closures: of the entry node under the edges, and of offset 0 under what the EVM
does. Each is the least set closed under its steps (`ReachedIsLeast`, `ReachedWithin`), so no induction over
paths is needed. `CodeIsInGraph`: the instructions in nodes that are reached form a closed set, since control stays
in its node or leaves it by an edge that has been drawn (`FlowIsFollowed`; `TakenJump`, `StepIsInGraph` for the
jump, whose target the code reads as the EVM does, `ReadableWord`). `GraphIsInCode`: the nodes whose start control can
come to form one, since from the start of a node control comes to all of it (`NodeFlows`) and every edge is one control
can take. The JUMPDEST at the end of the code is the exception the property makes (`TrailingEnds`).

`FoundAsReturned` is an action property, for every width of the `int`. `BeingFound` says that the copies looked at are CODECOPYs with constant
operands that can be read. `NewCodeIs` computes the bytes NewCode collects as a function (`IsStretch`), and
`FoundIsReturned` compares them with what the EVM has in memory. The first version of `CreatedAsReturned` could not be
proved and was wrong: an offset of eight bytes may be negative (see above). Below half of what an `int` holds the
narrowing changes nothing (`AsInt`), and the `int` does not overflow.

`AuditReportsTheReached` is sharper than the half of `OriginsReported` that speaks of what is reported: an equality in
place of the inclusion (`AuditIsExact`). A yes of IsReachable stays right because no pass after it draws an
edge (`AnswersStay`), and a read of tx.origin, which is no JUMPDEST at the end, is in the node that GetNode
returns for it (`OriginsAreFound`).

`StatesAreReal` is about the stacks solveStack lists with their execution paths. They are compared by their height and
their constants (`Alike`, which is the `Shape` of the property), since what an instruction makes of a stack depends
on these only (`AfterAlike`, `RunAlike`) and the numbers of arguments and outputs run on from one stack to the next.
That a node's runs in the order of `std::map` do what each does alone is `RunsAlone`; that the recursion over the
offsets of a node has a solution is `RunSteps`. `Along` is a recursion over the walk (`AlongIs`, `AlongStep`).
`EntryPaths(k, s)` and `ExitPaths(k, s)` are the labels of the walks of the graph into and out of node k that build up
a stack like s, and the invariant `StatesArise` is that all that is filed with a stack is among them. It holds when
states are handed over (`HandingOver`), when the node is run (`RunningOn`), and when edges are added (`PathsStay`). A path is a
row of labels, so labels have to tell nodes apart (`LabelsApart`, from initGraph, outlasting startGraph).

**ThroneProofs** (assumption `ThroneAssumption`: the modulus is larger than the first price, the
unit is positive). The heart is `NextPriceRises`: for a price that does not overflow, half of it
more, rounded down, is more than it was and covers the commission on it, because each
rounding step is 1 or at most a hundredth of what is rounded (`StepIsSmall`). `IInv` adds to the type that the monarch
has paid so little that a claim at the price repays him, and that the price has not fallen below its start, unless it
has overflown. From it `TypeCorrect`, `PriceAlwaysRises`, `UsurpedMonarchsAreRepaid`, and by
`SentWasReceived` `ClaimsNeverDrain`: the overflow, the failures of sends and the change of
wizards included.

*Only model-checked*: that the pass of InitGraph and ParseByteCode return, without which `ImplementsBasicBlocks` is
proved of both; `QueriesReturn`, `ProgramEnds` and `MainEnds` (liveness); `QueriesFindInstances`, as queries are
matched by RECURSIVE operators, about which nothing can be proved here; and what executions of the EVM are compared with,
`ExecutedIsReachedBeforeJoins` and the second half of `OriginsReported`, of which the steps are proved and the whole is
not (see the plan). The runs that expect a violation are
counterexamples and need no proof. The library's induction theorems cannot be used, as they take an operator; where a
recursion goes down over numbers, as that of `WordOf`, of a run of either program or of an execution does, a smallest
counterexample takes their place.

## 5. Not modelled

* Reading files, parsing hexadecimal digits, making directories, the list of known entry
  points, and all text.
* stackUsage.txt, issues.log, symbols.txt: they print the states of `SolveStack`, the issues of
  `StartGraph` and the symbols of `FillInstructions`.
* The Go expression types and `iexp`: nothing calls them.
* `memory.rs`: shared pointers with locks, in a program of one thread.
* testnet and scripts: sequences of calls of external tools.

## 6. Plan

Every part of the system with state of its own has its module, and every safety property a run checks is proved but
`QueriesFindInstances`, `ExecutedIsReachedBeforeJoins` and the half of `OriginsReported` that goes with it. What could be added:

1. a proof of `ExecutedIsReachedBeforeJoins`: that the configurations accounted for are closed under the steps of the EVM,
   if it does not go on from a join. One step keeps the symbolic stack telling of the EVM's (`StepIsTold`), a run of a node is a
   row of such steps, where a run jumps is an edge (`RunsKnown`), and what it is left with is what a node with one
   predecessor is entered with (`HandedOn`); that execution stays within a closed set of configurations is a smallest
   counterexample over the number of steps. What is to be added is the invariant that the data of a PUSH is that of the code,
   and the set;
2. the trees and queries of the Rust program as recursive functions over bounded depths, to prove
   `QueriesFindInstances`, which the RECURSIVE operators stand in the way of;
3. a measure for each pass, the nodes still to be visited or the pairs not taken yet, that every step lowers: the part
   of `ProgramEnds` and `MainEnds` that can be stated as an action property.
