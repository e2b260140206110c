# TLA+ specifications and proofs for naaz

naaz executes binaries symbolically. It translates machine code to P-code with
Ghidra's SLEIGH, executes P-code over symbolic registers, memory and files, forks
the state at branches and jumps on symbolic values, and asks Z3 which paths are
feasible. `naaz_finder` looks for a state at a given address, `naaz_path_generator`
for inputs that cover different paths, `naaz_debugger` steps through them.

The engine has one thread. What makes it hard is not concurrency but that hundreds of
states, forked from each other, stand for disjoint sets of inputs, share what they must
not, and are compared with a machine nobody executes; that caches (models,
slices, translated blocks, bytes made up on demand) must be invisible; that Z3 may give up
in any call; and that limits (256 destinations or addresses, 32 forks of a string) change
what the engine does, and which inputs it looks at. Unit tests in `src/tests` run a few binaries and compare a few expressions.

## Components

| Component | State | Operations | What makes it correct | Modules |
|---|---|---|---|---|
| `executor/ExecutorManager.hpp` | the exploration technique | `explore`, `gen_paths` | what it returns is a witness; but for the limits, "not found" is a proof, and every input is in one reported path; it ends | `Explorer`, `ConcreteRuns` |
| `executor/*ExplorationTechnique` | pending states (one deque, or Cov's three and what it has seen) | `add_actives`, `get_next` | no state lost, doubled or starved; BFS is breadth-first | `Techniques` |
| `executor/PCodeExecutor` | the state under execution, its successors | a P-code operation, a libc model, the fall-through | a state stands for inputs that drive the program to it; none is left out but at the limits | `PCodeExecutor`, `PCodeProgram` |
| `state/Solver`, `solver/ConstraintManager`, `Z3Solver` | constraints, their links, a partial model | `add`, `check_sat_and_add_if_sat`, `may_be_true`, `satisfiable`, `evaluate`, `evaluate_upto` | slices and the cached model never change an answer | `Solver` |
| `state/MapMemory` | bytes by address | concrete and symbolic `read`, `write`, `clone` | for each input, a plain memory | `MapMemory`, `FlatMemory` |
| `state/FileSystem`, `File` | File objects, handles, next descriptor | `open`, `close`, `seek`, `read`, `write`, `clone`, `files` | for each path, files there from the beginning | `FileSystem`, `PosixFiles` |
| `models/libc`: memory, strings | the caller's state | one `exec` per function | what the C function does | `LibcMemory` (memcpy), `LibcStrings`, `PCodeExecutor` (return, exit) |
| `models/libc`: allocation, rand, read, `__libc_start_main` | heap pointer; the generator's table and each path's pointers into it | `malloc`, `calloc`, `realloc`, `free`, `rand`, `srand`, `read` | blocks keep what is stored in them; paths draw C's numbers; no input is lost | `LibcHeap`, `LibcRand`, `LibcProcess` |
| `state/State` | all of the above, argv, stack trace | `clone`, `dump`, `allocate`, `set_argv`, `init_from_json` | clones share nothing they write | in the modules above, but for the JSON |
| `expr`: nodes, `ExprBuilder`, `BVConst`, `evaluate` | interned expressions | one `mk_` per kind of node | rules preserve the value Z3 and P-code give | `BitVectors`, `Expr`, `ExprBuilder`, `ExprValue`, `PCodeOps` |
| `expr`: floating point | | | | not modelled |
| `arch`, `state/Linux64Platform`, `models/linux_syscalls` | none | calling conventions, system calls | stack discipline, bounds | partly |
| `tools/naaz_debugger.cpp` | current and deferred states | its commands | no state lost | not modelled |
| `lifter`, `loader`, `util`, `third_party` | translated blocks, bytes of the binary | I/O and external libraries | | not modelled |

`ExecutorManager` takes a state from the technique and gives it to
`PCodeExecutor::execute_basic_block`, which runs a block's P-code or a libc model
against the state: registers and memory are `MapMemory`s, conditions and pointers
go to the state's `Solver`, files to its `FileSystem`. Forks are clones. The
successors come back in an `ExecutorResult`; `UnsatStateException` means there is none, and
`exit_fail()` ends the process. At the end `State::dump` evaluates argv, symbols and
files to print the input that leads to the state.

`PROJECT.json` lists all components, what is mapped to which lines, and under
"hazards" what in this code is hard to test, with the properties that cover it.

## The modules

**`PCodeProgram`**: the program as SLEIGH and the processor see it. The inputs of a run
are abstracted to a set `Input` of valuations; registers and memory to a value of `Val`; an
expression to a function on `Input`, a path constraint to a subset of it. An operation
(`Op`) is one of the kinds of control flow, or DATA with an arbitrary effect. DATA and LIBRET
also say how they use memory: at a computed address or not (`deref`, `ptr`), where the string
that a model resolves ends and how often it may fork (`way`, `forks`, `most`), which inputs
have printable bytes there (`admits`), and whether the model takes one input's value for
another's (`mixes`: printf, sprintf, rand, srand, strcat). `StepOf` is the
concrete machine, `Run` the run of each input, numbered by `Steps` (all numbers, or the first ones
of runs that stop), `Reach` the configurations an input goes through. A `Conf` is a
program with the options of the command line and `g_config` (technique, find, avoid,
lazy solving, `printable_stdin`, whether Z3 times out, whether the builder folds constants).
Here is also what the engine cannot follow: it is `Exact` when Z3 always answers and no model
mixes inputs; an input is `Limited` by an operation where the inputs that may be in its state
have `MaxPtr` other addresses or more, or more other ends of a string than `forks`, or where it is
not printable. `Limits` are the configurations of a run in which that is so.

**`PCodeExecutor`**: `execute_pcodeop`, `execute_instruction` and `execute_basic_block`, an
operation per step. `heap` holds the State objects behind `StatePtr`, `cur` is
`ctx.state`, `act` and `ext` the vectors of the `ExecutorResult`. There is one action for
each case of the switch that changes control: `CBranchLazy`, `CBranchEager`, `DirectJump`
(CALL, BRANCH), `ConstantIP` and the three outcomes of `handle_symbolic_ip` (`UnsatIP`,
`UnconstrainedIP`, `ForkIP`), for data operations (`DataOp`), for libc models (`LibReturn`,
`LibExit`) and for what ends a state or the process (`UnsatState`, `ExitFail`). A
state's `live` flag stands for the reference count of its pointer. `DataOp` and `LibReturn`
change paths too: `Accesses` holds a path to the addresses found when there are `MaxPtr`,
`Admitted` adds what `printable_stdin` asks for, and `LibReturn` returns in one state for each end of
a string that `resolve_string` keeps (`Took`, `Kept`). `stray` is not in the code: the inputs that
a state may have wrong contents for, because Z3 gave up during an enumeration or a model mixed
them; `Own` are the others.

**`Techniques`**: the pending states of the four techniques, as sequences popped at the
back.

**`Explorer`**: `explore` and `gen_paths` composed with the two above: `Select`, a block,
then the loop over exited and active successors, one at a time, then `AddActive`.

**`ConcreteRuns`**: what `Explorer` promises. It has no states, queues or constraints: all
inputs run the program, and are given up only for a listed reason: an address to avoid, the end
of the search, a limit that the input itself meets in its company, or an engine that is not exact.

**`Solver`**: a constraint is the set of its symbols and of the assignments it holds in.
`CachedTrue` is `expr::evaluate(c, m_model, false)` coming out true, `Deps` the
transitive links of `ConstraintManager`, `Z3Models` what Z3 may return (it may leave out
symbols that do not matter, if `z3.omits`), `z3.folds` the formulas the builder may reduce with
symbols left in them. `told` collects what `evaluate` has returned since
`satisfiable()`, as `State::dump` uses it.

**`MapMemory`** over **`FlatMemory`**: a byte is a function of the input; a read or write
through a symbolic pointer is done at every address of `evaluate_upto`, in
any order, at most `MaxRead` of them. Addresses wrap around at `Width`, as `uint64_t`
does. `exact` is not in the code: it follows the inputs whose address each access was
done at. The abstract memory has one byte per address and input from the beginning.

**`LibcMemory`**: memcpy over `MapMemory`.

**`LibcStrings`**: `resolve_string`, a byte per step, and the functions built on it (strlen,
strcpy, strncpy, strcat), strcmp's loop and memcmp. `heap` holds the State objects, each with
its memory, the inputs of its path and RAX; `loop` the local variables, `res` the vector of
resolved strings, `out` the successors. One of them makes the next call. A symbolic byte
forks the state in `ForkEnd`, or ends the string in `LastEnd` when `max_forks` is used up;
`Verdicts` is what Z3 may say. Strings are read by concrete addresses only (a symbolic
pointer ends the process), so that memory is an array of bytes here. The size given to strncpy
is a number in `Begin` and an `int` afterwards (`AsInt`, at `IntLimit`).

**`FileSystem`** over **`PosixFiles`**: File objects by identity (the path that made them, their
name), so that sharing between clones can be seen; bytes made up at the first read;
`m_free_fd`. `input` and `said` are not in the code: the input bytes each path has read,
and the result of the last call. The abstract file system has endless files whose bytes
are there from the beginning.

**`BitVectors`**, **`Expr`**, **`ExprBuilder`**, **`ExprValue`**: `expr/` from the bottom up. A
constant is its size and unsigned value; where `BVConst` treats constants above
64 bits (`Word`) otherwise, so does `BitVectors`, and `junk` is the field that nobody sets. A node
is a record of its kind, size, children and own integers; comparing records is comparing the
pointers that `get_or_create` hands out, and `eq` is what the code compares to find
them. There is an operator for each `mk_` function, with its rules in the code's order;
`Abort` stands for an `exit_fail()` or a trap inside it. `evaluate` is the substitution of
`expr/util.cpp`, `Z3Value` the value of what `to_z3_inner` builds, with SMT-LIB's
definitions of the operations. `std::sort` by address is one fixed order of the expressions or its
reverse (`upwards`), not every order there is: `OpExact` is checked under both, as `mk_eq` moves
addends in the order it finds.

**`PCodeOps`**: a register file of bytes, each an expression; a P-code operation reads its
varnodes (`mk_concat` of bytes), builds its result and writes it (`mk_extract` of bytes). There
is an action for each group of operations. `Menu` says what the first, second, ... operation may
be, `Builds` which values of `junk` and `upwards` a run of the engine may have. `Meaning` is P-code's definition. P-code's divisions are not in
`execute_pcodeop`; `Divide` builds what `ExprBuilder` has for them (only the tests use
it), and is compared with Z3.

**`LibcHeap`**: `State::allocate`, the four functions of `alloc.cpp`, `set_argv` and
`__libc_start_main`. A byte of memory is a function of the input. `blocks` is not in the
code: what the program was given, and what C says is in it.

**`LibcRand`**: glibc's generator as `random.cpp` has it, for any length of the table. `randtbl`
is the one static table; `plugin[p]` the `RandPlugin` of a path, or nothing. `series` (the seed
and the numbers drawn since) and `disturbed` (whose table another path has touched) are
not in the code. `Random` is the sequence itself, without a table.

**`LibcProcess`** composes the two with standard input: a path's constraint is a set of inputs, each
the bytes of its symbolic arguments and of standard input. `ReadStdin` is `read`, the system call
`read` and `scanf` of a string with a width, which differ only in the value they return;
`Branch` is a CBRANCH on a byte, which clones heap, plugins and file offset.

`MC*` modules give the constants values; `*_proofs` modules hold the proofs: one for each of
`Solver`, `FileSystem`, `MapMemory`, `LibcStrings` and `LibcProcess`, two for `Explorer`
(`Explorer_proofs` soundness and ownership, `ExplorerSearch_proofs`, on top of it, the answers and
the refinement), and `Loops_proofs`, lemmas about folds. Operators marked
"Mutant" are plausible bugs in the definition that follows them; nothing uses them, but
replacing the definition by its mutant must violate a property (`PROJECT.json`, "mutants").

## Runs

| Run | Question | Bounds, and why they are enough |
|---|---|---|
| `explore` | are symbolic states the concrete runs of the inputs, are searches right, do they end? | eight programs of 8 operations, four inputs, 8 states, `MaxDest` 3, `MaxPtr` 2: a loop on the input; calls with a CBRANCH inside a block and accesses below `MaxPtr` or at it; jump tables with two destinations and with `MaxDest`; a jump to an address without code, and a model that mixes inputs; a concrete loop around a symbolic branch; two ways of different length to one block, with a model that forks as often as it may; a read of stdin, a string with more ends than that and a table indexed by it; a table of four entries before a string. Each with every technique, mode, lazy or eager solving, folding and timeouts, but that the last two always fold and meet timeouts under lazy depth-first search only, and that `printable_stdin` is for the one that reads |
| `find_midblock` | does "state not found" mean that no input gets there? | one of the programs; **violated** |
| `solver` | do slices and the model change an answer? | three symbols of one bit; constraints that link two in several ways, one that mentions a symbol without restricting it, the constant false; every sequence of calls, to the fixed point |
| `filesystem` | are files and descriptors those of each path? | two paths, four names, files of two bytes, five descriptors, four calls: enough to open, write, fork and read; or read, close, reopen and dump |
| `memory` | is memory plain memory for each input? | four addresses, one from the binary; a pointer to each of them, values of two bytes (so that writes overlap and wrap around), `MaxRead` 3 (met before a branch, not after it), three accesses |
| `memcpy` | does a copy equal the original? | two bytes; **violated** |
| `strings` | do the string functions do what C says, for every input, in the states they fork? | six bytes, four inputs; a string with three possible ends, one more than `MaxForks` 1 allows; a literal; two symbolic strings, and overlapping ones; strncpy of 0, 1, 2, 4 and 6 bytes, where an `int` ends at `IntLimit` 3, so that 4 is no limit and 6 is 0; `MaxCmp` 4; two calls |
| `strcat` | does strcat append? | as `strings`; **violated** |
| `pcode` | do the builder, the constants, `evaluate` and the translation to Z3 agree with what the operations mean? | bytes of 2 bits, words (`Word`) of 4, registers of 1, 2 and 4 bytes, so that there are constants above a word; two input bytes, all their values; two orders of addends and values of the unset field; every operation on symbolic and constant operands, then one that finds the first result among its operands; longer sequences make larger nodes, but the rules look at most two levels down |
| `division` | is a division by zero what Z3 says? | as `pcode`; **violated** |
| `libc` | do blocks, generators and inputs of forked paths keep apart? | two paths; memory up to `MaxAddr`, which no block goes beyond; pointers of one byte, blocks of 1 and 4 bytes; a table of 3 numbers; arguments of 1 and 2 bytes, fixed or symbolic; inputs of two argument bytes and two of standard input; with and without `printable_stdin`; five calls: start, read, branch, and a call of each path |
| `argv` | are the arguments in memory when main starts? | as `libc`, with arguments shorter than the vector; **violated** |

What they show:

- `Sound`, `NoInputTwice`, `NoInputLost` and `RefinesRuns`: forks divide the inputs, and no state
  has an input that took another way, or other contents than that input's. Inputs do vanish:
  by a timeout or in a model that mixes inputs (then the engine is not `Exact`), at an address
  to avoid, when the search returns, and, with Z3 answering every question, at three limits:
  when a pointer has as many values as MapMemory enumerates (256), the path is held to those;
  when a string has more ends than a model's `max_forks` + 1, the inputs with the others are
  lost; with `printable_stdin`, those with other bytes. `NoInputLost` and `RefinesRuns` say that
  there is no other way to vanish, and that an input which vanishes at a limit met it itself.
- `FoundIsWitness`, `NotFoundIsProof`, `PathsCoverInputs`: the answers of both tools, with
  respect to block starts. A state that exits because its jump is unconstrained takes its
  inputs out of the search (`SearchedAll`), and a limit may have done so before (`Hits`): "not
  found" proves that no input gets there *before it meets a limit*, and only if there is no such
  exit; the paths of `gen_paths` cover the inputs that meet no limit. For a program that indexes
  a large table with its input, both say little about what comes after it.
- `BFSFindsShortest` (the nearest block that an input comes to before a limit), `CovDistinct`,
  `OwnedOnce`, `EagerFeasible` (but for `printable_stdin`, whose constraints nobody checks): the
  techniques and the ownership of states. None of them looks at the recorded stack trace: that a
  clone has none is modelled, and would go unnoticed if it were otherwise.
- `Termination` assumes that the one thread of the loop keeps running (`WF_vars(Next)`): nothing
  in `explore` or `gen_paths` waits for anything, and each call of Z3 has a timeout. Lazy solving
  unrolls a loop whose condition depends on the input for ever (a test in
  `tests/executor_tests.cpp` is there for this); the jobs of the run leave that out,
  and with it the claim.
- `ModelExtends` is why the solver's cache is right: on a feasible path the model is part of a
  solution of the whole constraint. On an infeasible path `CheckExact` does not hold, and
  need not: a slice may be satisfiable. `InfeasibleHasNoValue` says what does hold there.
- `DumpConsistent`: the lines `dump` prints are of one input. It has a condition: where Z3
  leaves symbols out of its models and the builder has no rule to see that they do not
  matter, a later `evaluate` may call Z3 again and change the model.
- `NoGuess`: without timeouts, the limit on enumerated addresses never lets an input go on
  with the contents of another address. With a timeout in the middle of the enumeration it
  can: the code adds no constraint then.
- `DividesInputs`, `EveryInputReturns`: `resolve_string` forks at each possible end of a string;
  the states share no input, and none is lost, if there are at most `max_forks` + 1 ends.
- `ResultsAsInC`: memory and result are those of C's function for each input of each
  state, on two calls after each other, except where the code knowingly differs (its FIXMEs):
  comparisons tell equal from different only, and strcmp compares what lies behind the
  end of symbolic strings (it may take equal strings for different ones, never the other way
  round). strncpy is compared with a C function that does not pad with zeros: the code does not. Sizes
  that do not fit into an `int` are left out: the code copies more or less than they say.
- `OpExact`: the expression an operation leaves has, under each input, the value P-code gives it,
  whatever rules have rewritten it; the exceptions are listed in `Diverges`, see below, and it says
  nothing about those.
  `EvaluateExact`: `evaluate` under any part of an assignment keeps the value Z3 gives, so that
  the solver's cached model may answer for Z3. `InterningExact`: `eq` never takes two
  nodes for one. `TypeOK`: no expression asks Z3 for bits that are not there.
  `WrittenIsRead`: registers written at one size and read at another.
- `BlocksKeep`: blocks of programs that never ask for less than before keep their contents, over
  forks. Others overlap (`allocate` returns the end of the block): finding `argv`.
- `DrawsAsC`: a path whose table no other path has touched since its `srand` draws C's numbers.
- `OnePathPerInput`: the constraints that argv, `printable_stdin` and branches add, and those that
  `srand` does not, leave every input in exactly one path.
- `ImplementsFlat`, `ImplementsPosix`: bytes made up on demand are invisible; clones share nothing.

## Findings

Five runs show disagreements with what the repository says (`PROJECT.json`, "findings"):
`naaz_finder` sees an address only where a block starts after the first (README.md:37);
memcpy reverses the bytes it copies (tests/programs/allocs.c:14-16); strcat writes behind the
terminator of the string it should append to (tests/programs/strings_api_3.c:12-16); a negative
number divided by zero is not what Z3 says (expr/ExprBuilder.cpp:675); and the vector of
arguments overwrites short arguments (models/libc/libc_start_main.cpp:38).

The code also computes something else than P-code, C or Z3 would in the following cases, about
which the repository says nothing. They are modelled as the code has them, and `OpExact` and
`EvaluateExact` leave them out (`Diverges`, `Sensitive`):

- INT_CARRY is built as `in1 >= in2`, INT_SCARRY from a difference instead of a sum
  (executor/PCodeExecutor.cpp:416-464).
- Constants above 64 bits: a positive one is below a negative one (`BVConst::slt`), a shift to the
  left keeps the bits it should clear, and the amount of a shift is read from a field
  nobody has set (`BVConst::as_u64`).
- An arithmetic shift of a 64-bit constant by 64 or more is masked by the machine.
- A number divided by itself is 1, also when it may be 0; the remainder of a division by 1 is the
  dividend; a constant signed remainder has the sign of the dividend, Z3's (`bvsmod`) that of
  the divisor.
- strncpy narrows its size to `int` (models/libc/string.cpp:196-200): 2^31 and more mean no limit,
  a multiple of 2^32 nothing at all. `ResultsAsInC` leaves sizes from `IntLimit` on out.

## Proofs

`tlapm` checks all theorems listed here for every value of the constants. Every safety invariant
that the runs `explore`, `solver`, `filesystem`, `memory`, `strings` and `libc` check is one of
them, and so are the refinements `RefinesRuns`, `ImplementsPosix` and `ImplementsFlat`. They assume
no more than the named assumptions of the modules:

- `AddrAssumption`, `ConfAssumption`, `InputAssumption`, `IdAssumption`: finitely many addresses,
  types of the configuration, at least one input, State objects numbered from a least one,
  `MaxDest` and `MaxPtr` at least 1.
- `RunAssumption`: `Run` is the concrete machine's run of each input, step by step. `Steps` may be
  all of Nat, so that every program is covered; TLC needs finite runs.
- `ConstraintAssumption`, `ExprAssumption`: what a constraint or an expression is depends on its
  symbols only.
- `NameAssumption`, `ChunkAssumption`, `MemoryAssumption`, `StringAssumption`: types; bytes the
  program writes are told apart from those it reads.
- `HeapAssumption`, `RandAssumption` and `InputAssumption` of the libc models: types; there is at
  least one argument (the name of the program), the pointers into the table start apart
  (`Sep` from 1 to `Deg` - 1), inputs are of one length.

**Soundness (`Explorer_proofs`).** `Sound` and `NoInputTwice` are inductive together with `TypeOK`
and `UnusedIsEmpty`: an object not in use has no inputs, so that a clone may take its place
(`IInv`). The lemma the proof turns on is `ExecMoves`: each operation of the executor moves
inputs of the current state one concrete step on, or leaves some out, and never gives one to two
states; and when the engine is exact, it leaves out only inputs that meet a limit, in the company
of the inputs of this very state (`LimitHere`). The states an operation makes are `Part`s of the
current one (their own inputs are there after one concrete step), and those of one operation
have no input in common (`Forks`); `DataPart`, `JumpForks` and `ReturnForks` show it of data
operations, jumps and models: of an access from what evaluate_upto found, of a model from
the ends that got a state. There is a lemma per way of ending an operation (`MovesCur`,
`MovesNothing`, `MovesBranch`, `MovesFork`). `NoInputLost` follows from `IInv`: what a state gives up
at a limit of its company is `Limited` among all inputs that are there at that depth
(`LimitedGrows`, `LimitsHere`, `LostAtLimit`).

**Ownership (`Explorer_proofs`).** `OwnerInv` counts: how often an object is the current
one, in the vectors, in the queues and in the sets, is 1 if it is live and 0 if not. Each
technique, and each way of ending an operation, keeps the balance (`Balanced`). Distinct positions
of the queues hold distinct objects, therefore, which the other proofs use throughout.
`EagerFeasible` and `CovDistinct` follow; the former because an operation that is not a branch keeps
an input of a state that has one, unless `printable_stdin` takes the last (`Feasible`); the latter needs that the addresses of all pending
new-address states are in the set of seen ones (`CovInv`).

**Answers (`ExplorerSearch_proofs`).** `FoundIsWitness` needs that no state in use came through a
block to find or to avoid (`Clean`), at whatever point of the loop it is (`Shape`). For
`NotFoundIsProof` and `PathsCoverInputs`, each input is held by some state, unless the first block
of its run that ends a search is one to avoid (`Avoids`), or its run meets a limit before one that
does (`Capped`): `HeldOrSettled`. When nothing is pending only exited and reported states are
left to hold it, and one that is settled has no block at which the search could find it
(`SettledNoHits`). `BFSFindsShortest` needs that the queue holds
states of one level, or of one level and the next, in this order (`Level`). All of them compare
with the blocks of a concrete run in order, for which steps are numbered: `StepDepth` and the
lemmas after it. `RefinesRuns`: positions and places of all inputs move together (`Tracks`), one
action of `ConcreteRuns` or none for each action of the engine; the inputs an operation leaves out
are given up by the same step that moves the others (`Advance`), which is where `ConcreteRuns` asks
for a limit.

**`Solver_proofs`.** `IInv` is `TypeOK`, `ModelExtends`, `ModelSolves` (the model satisfies the
constraints whose symbols it has) and `DumpFromModel` (what has been told since `satisfiable()` is
in the model). The lemma behind the slices: `Deps` is closed, so solutions of a slice and of the
rest can be merged symbol by symbol (`Merge`).

**`FileSystem_proofs`.** `FInv`: descriptors in use are below `m_free_fd`. `FilesInv`: the objects
a path refers to are those it made itself (so clones share none), an input byte in a File is at
its own offset of its own name, and what the path has read is still in it, below `size`.
`ImplementsPosix` follows from both: filling in bytes changes no byte of the disk.

**`MapMemory_proofs`.** `NoGuess` follows from what `Enumerated` says of the enumeration.
`ImplementsFlat` is about the two loops over addresses, in any order: after each address, inputs
whose pointer was among those already done have the byte of the plain memory (`WritesFor`,
`ReadsFor`), also when accesses overlap or wrap around.

**`Loops_proofs`.** The library defines `FoldLeft` by a recursive function on sets of indices. The
library's induction theorems take operators as parameters and cannot be used; induction over a
*set* of numbers (`SetInduction`) is enough to show that such a function exists (`LoopExists`; for
a recursive function on numbers, `Iterates`) and that a property which each step of the loop
preserves holds at its end.

**`LibcStrings_proofs`.** In this order:

- `TypeOK`, with what the phase says of the variables (`TInv`).
- `DividesInputs`: the places where a state waits in a call (a successor, a resolved string, a
  source string, the loop) hold different objects without common inputs (`Divided`); every
  resolved string but strncpy's has its terminator, and is not empty (`Terminated`).
- `EveryInputReturns`: memory is what it was before the call until the call writes (`Kept`); the
  loop stands as far behind the beginning as its string is long (`AtPosition`); the string matches
  the memory of each input of its state (`Reads`); every input of the caller is at one of the
  places (`Covered`). What makes `max_forks` + 1 ends enough: each
  fork was spent on another end of the caller's inputs, so that the loop, while it has inputs, has
  seen at least as many ends as it has spent forks (`EndsSeen`).
- `ResultsAsInC`: a resolved string is, for each input of its state, the C string at the address
  (`ResultsRead`), strcmp's and memcmp's loops have compared what they have passed (`Compared`);
  the writes of a string of length n are C's copy; a size below `IntLimit` is itself as an `int`.

**`LibcProcess_proofs`.** Three invariants, one for each property:

- `OnePathPerInput` is inductive with the types of the inputs (`PathInv`): a branch divides the
  inputs of a path, and a byte that is read loses those that may not be given.
- `BlocksKeep` (`HeapInv`): as `allocate` returns the end of what it reserves, a block starts at
  least *its own* size behind the start of each block before it (`Placed`), and not their sizes.
  If no block is smaller than the one before, sizes are sorted and this is enough to keep
  blocks apart (`Apart`), so that what is stored in one leaves the others alone (`StoreKeeps`).
  All of memory that is written goes through four operations on a list of blocks, each with its lemma
  (`GiveKeeps`, `FreeKeeps`, `FillKeeps`, `PutArgKeeps`); the arguments are a loop over the last
  one (`VectorKeeps`).
- `DrawsAsC` (`DrawInv`): the table is a ring that holds the last `Deg` numbers of the sequence,
  the oldest at `fptr`, and `rptr` stays `Sep` places behind (`Aligned`, `Gen`). A draw replaces the
  oldest number by the next (`DrawIsNext`), and the `10 * Deg` draws of `srand` are whole
  rounds, so that its pointers may be set back to where they started (`SeedIs`). That seeds read from memory
  are bytes needs `HeapInv`.

`BFSFindsShortest` and `NotFoundIsProof` have their conditions in the property (`SearchedAll`: no
timeouts, no model that mixes inputs, no state given up at an unconstrained jump; and `Hits`: no
limit before), `NoInputLost` and `PathsCoverInputs` theirs (`Exact`, `Limits`); `DumpConsistent`, `EveryInputReturns`, `ResultsAsInC`,
`BlocksKeep` (blocks never smaller than before) and `DrawsAsC` (no other path has drawn) likewise; the theorems say what the properties say, nothing more.

Only model-checked:

- `Termination`: liveness under fairness is out of the prover's reach.
- `OpExact`, `WrittenIsRead`, `EvaluateExact`, `InterningExact` and `PCodeOps!TypeOK`: expressions
  are trees, and `ExprBuilder`, `ExprValue` recursive operators over them; what such an operator
  computes for every tree needs induction over data.
- The properties that are violated, in the five runs under "Findings".

## Abstractions

In `PCodeExecutor`, `MapMemory`, `Solver` and `LibcStrings` an expression is a function of the
inputs, and may or may not have been reduced to a constant; that the real expressions are such
functions is what the `pcode` run is about. Stack traces are
compared, not hashed to 64 bits. Objects are reclaimed as soon as their last
pointer goes away, as reference counting does. A libc model is one operation of the
executor, that may fork, hit the limits or mix inputs; what it does to memory and files is the
subject of the other modules. It reads at most one string to its end here (strcat, which
resolves two, has pairs of ends), and makes at most one access through a pointer; a P-code
operation makes at most one as well. `mixes` is a mark on the operation and not derived:
the search promises nothing about which inputs are lost in a program that calls such a model,
only that no state is wrong about its own. An unsupported opcode, or an argument a libc model cannot handle, is like an
address without code: it ends the process.

## Not modelled

- Floating point: `FPConst`, the FLOAT operations and `mk_fp_*` compute roundings.
- `stdio.cpp` but for scanf of strings: parsing format strings and laying out numbers is a
  conversion with no other state than the characters.
- Printing expressions, the JSON initial state, the loader (libbfd) and the lifter
  (SLEIGH): input, output, and calls of external libraries. Translated blocks are
  cached by address; no operation of the engine writes code.
- The tables of registers and system calls: data.
- The debugger's commands come from a terminal.
- What inputs see after a timeout of Z3 within `resolve_string` or `MapMemory`: the steps are
  modelled (`stray`, `exact` follow these inputs), but the properties are about the other inputs.
  The code keeps inputs there that it should constrain; there is no other outcome to compare with.

## Plan

1. (done) `PCodeProgram`, `PCodeExecutor`, `Techniques`, `Explorer`, `ConcreteRuns`, and the proofs
   of soundness; `Solver`; `MapMemory`; `FileSystem`; `LibcMemory`, `LibcStrings`.
2. (done) `BitVectors`, `Expr`, `ExprBuilder`, `ExprValue`, `PCodeOps`; `LibcHeap`, `LibcRand`,
   `LibcProcess`.
3. (done) Proofs of every safety invariant and refinement of `Explorer`, `Solver`, `MapMemory`,
   `FileSystem`, `LibcStrings` and `LibcProcess`.
4. Left: the rewriting of `ExprBuilder` and the translations, which are only model-checked; format
   strings of `stdio.cpp`; orders of addends other than two opposite ones.
