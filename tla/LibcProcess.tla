----------------------------- MODULE LibcProcess ----------------------------
(***************************************************************************)
(* The libc models together: paths with a heap (LibcHeap), a generator of  *)
(* random numbers (LibcRand) and standard input, that fork where the       *)
(* program branches on a byte.  An input is its symbolic arguments and the *)
(* bytes of standard input; a path's constraint is the set of the inputs   *)
(* that satisfy it.                                                        *)
(***************************************************************************)
EXTENDS LibcHeap

CONSTANTS
  Deg, Sep, Multiplier, Modulus, WordValues,  \* see LibcRand
  Seeds,      \* seeds that are constants of the program
  Printable,  \* the bytes 0x20 to 0x7e
  FirstPath,  \* the path the execution starts with
  MaxCalls    \* bound: calls of all paths

VARIABLES
  randtbl, plugin, result, series, disturbed,  \* see LibcRand
  printable_stdin,  \* g_config.printable_stdin; never changes
  inputs,           \* the inputs that satisfy each path's constraint
  allowed,          \* not in the code: the inputs with the arguments asked for
  offset,           \* of each path, in standard input
  calls             \* number of calls so far

rand == <<randtbl, plugin, result, series, disturbed>>
vars == <<alive, heapVars, rand, printable_stdin, allowed, inputs, offset, calls>>

INSTANCE LibcRand

ASSUME RandAssumption == /\ Deg \in Nat /\ Sep \in 1..(Deg - 1)
                         /\ {Multiplier, Modulus, WordValues} \subseteq Nat \ {0}
                         /\ Seeds \subseteq Nat
ASSUME InputAssumption ==
  /\ FirstPath \in Path
  /\ \A i, j \in Input : i.stdin \in Seq(0..255) /\ Len(i.stdin) = Len(j.stdin)

StdinLength == Len((CHOOSE i \in Input : TRUE).stdin)

\* The bytes of standard input at o, and the n that begin there.
StdinByte(o) == [i \in Input |-> i.stdin[o + 1]]
Stdin(o, n)  == [k \in 0..(n - 1) |-> StdinByte(o + k)]

\* Mutant: only the first byte read is constrained.
constrained_first(p, n) ==
  {i \in inputs[p] : printable_stdin => i.stdin[offset[p] + 1] \in Printable}

\* The two constraints added for each byte read.
constrained(p, n) ==
  {i \in inputs[p] :
     printable_stdin => \A k \in 1..n : i.stdin[offset[p] + k] \in Printable}

\* read, the system call read and scanf("%<n>s"), from standard input into
\* a block: none of them ends the block with a zero.
ReadStdin(p) ==
  /\ p \in alive
  /\ \E b \in DOMAIN blocks[p] : \E n \in 1..blocks[p][b].size :
       /\ offset[p] + n <= StdinLength
       /\ Fill(p, b, Stdin(offset[p], n))
       /\ inputs' = [inputs EXCEPT ![p] = constrained(p, n)]
       /\ offset' = [offset EXCEPT ![p] = @ + n]
  /\ UNCHANGED rand

\* rand.
Rand(p) ==
  /\ p \in alive
  /\ Draw(p)
  /\ UNCHANGED <<alive, heapVars, inputs, offset>>

\* srand, with a constant or a byte of a block.  A symbolic seed is one of
\* the values it has in the path; the path is not constrained to it.
Srand(p) ==
  /\ p \in alive
  /\ \/ \E seed \in Seeds : Seed(p, seed)
     \/ \E b \in DOMAIN blocks[p], i \in inputs[p] :
          LET byte == mem[p][blocks[p][b].ptr]
          IN byte # Unset /\ Seed(p, byte[i])
  /\ UNCHANGED <<alive, heapVars, inputs, offset>>

\* A branch on whether a byte of memory is a printable one: if both ways are
\* feasible, q takes the other.
Branch(p, q) ==
  /\ p \in alive /\ q \in Path \ alive
  /\ \E b \in DOMAIN blocks[p] :
       LET byte == mem[p][blocks[p][b].ptr]
           yes  == {i \in inputs[p] : byte[i] \in Printable}
       IN  /\ byte # Unset
           /\ yes # {} /\ yes # inputs[p]
           /\ inputs' = [inputs EXCEPT ![p] = yes, ![q] = inputs[p] \ yes]
  /\ alive' = alive \cup {q}
  /\ HeapFork(p, q)
  /\ RandFork(p, q)
  /\ offset' = [offset EXCEPT ![q] = offset[p]]

Heap(p) == HeapStep(p) /\ UNCHANGED <<rand, inputs, offset>>

\* Input i has, up to the terminator in the argument, bytes of its directive.
Asked(arg, text, i) ==
  arg.only # "fixed" => {text[k][i] : k \in 1..(Len(text) - 1)} \subseteq Admits[arg.only]

Init ==
  /\ alive = {FirstPath}
  /\ HeapInit
  /\ RandInit
  /\ printable_stdin \in BOOLEAN
  /\ \E args \in Args :
       /\ set_argv(args)
       /\ inputs = [p \in Path |-> IF p = FirstPath THEN admitted(args) ELSE {}]
       /\ allowed = {i \in Input : \A k \in DOMAIN args : Asked(args[k], m_argv[k], i)}
  /\ offset = [p \in Path |-> 0]
  /\ calls = 0

Call == calls < MaxCalls /\ calls' = calls + 1 /\ UNCHANGED <<printable_stdin, allowed>>

Next ==
  \/ /\ Call
     /\ \E p \in Path : \/ Heap(p) \/ ReadStdin(p) \/ Rand(p) \/ Srand(p)
                        \/ \E q \in Path : Branch(p, q)
  \/ calls = MaxCalls /\ UNCHANGED vars

Spec == Init /\ [][Next]_vars
-----------------------------------------------------------------------------
\* Every input that may be given is in one path, and in no two: reading,
\* seeding and branching lose none and double none, whatever the forks and
\* the order.  The ones that may be given have the arguments asked for and,
\* with printable_stdin, printable bytes in standard input; no path has an
\* input that may not be given, as far as it has been read.
OnePathPerInput ==
  /\ \A p, q \in alive : p # q => inputs[p] \cap inputs[q] = {}
  /\ \A i \in allowed :
       (printable_stdin => \A k \in DOMAIN i.stdin : i.stdin[k] \in Printable) =>
         \E p \in alive : i \in inputs[p]
  /\ \A p \in alive : inputs[p] \subseteq allowed
  /\ printable_stdin => \A p \in alive : \A i \in inputs[p] :
       \A k \in 1..offset[p] : i.stdin[k] \in Printable
=============================================================================
