------------------------------ MODULE LibcHeap ------------------------------
(***************************************************************************)
(* models/libc/alloc.cpp, libc_start_main.cpp, State::allocate and set_argv: *)
(* the heap of each path.  A byte of memory is a function of the input.        *)
(* `blocks` is not in the code: it is what the program was given, with the *)
(* bytes that C says are in it.                                            *)
(***************************************************************************)
EXTENDS Integers, Sequences, SequencesExt

CONSTANTS
  Path,        \* states forked from each other
  Input,       \* the inputs of the program
  HeapStart,   \* Arch::get_heap_ptr
  MaxAddr,     \* bound: the last address of memory, beyond which nothing is allocated
  MaxBlocks,   \* bound: allocations of a path
  PtrBytes,    \* bytes of a pointer (ptr_size / 8)
  Sizes,       \* sizes the program asks for
  Admits,      \* the bytes each directive of a symbolic argument admits
  Args         \* the command lines: of each argument, its directive and bytes

ASSUME HeapAssumption == /\ {HeapStart, MaxAddr, MaxBlocks} \subseteq Nat
                         /\ PtrBytes \in Nat \ {0} /\ Sizes \subseteq Nat \ {0}
                         /\ Args \subseteq Seq([only: DOMAIN Admits \cup {"fixed"},
                                              bytes: Seq([Input -> 0..255])]) \ {<<>>}

VARIABLES
  alive,      \* the paths there are
  mem,        \* mem[p][a]: the byte at a, m_ram
  heap_ptr,   \* m_heap_ptr
  blocks,     \* what each path was given, in order
  m_argv,     \* the arguments, as set_argv has left them
  argv        \* the pointer to argv, 0 before main

heapVars == <<mem, heap_ptr, blocks, m_argv, argv>>

\* A byte that was never written.
Unset == [i \in Input |-> -1]
Byte(v) == [i \in Input |-> v]

Contents(m, a, n) == [k \in 0..(n - 1) |-> m[a + k]]
Stored(m, a, bytes) ==
  [b \in DOMAIN m |-> IF b - a \in DOMAIN bytes THEN bytes[b - a] ELSE m[b]]

\* What is in a block with f stored over g.
Over(f, g) == [k \in DOMAIN f \cup DOMAIN g |-> IF k \in DOMAIN f THEN f[k] ELSE g[k]]

Little(v)    == [k \in 0..(PtrBytes - 1) |-> Byte((v \div 256^k) % 256)]
Zeros(n)     == [k \in 0..(n - 1) |-> Byte(0)]
Clipped(f, n) == [k \in {k \in DOMAIN f : k < n} |-> f[k]]

Block(ptr, size, want) == [ptr |-> ptr, size |-> size, want |-> want, live |-> TRUE]

\* Mutant: the heap pointer stays.
allocate_stuck(h, n) == [ptr |-> h + n, next |-> h]

\* The new heap pointer is what is returned: the end of the bytes reserved.
allocate(h, n) == [ptr |-> h + n, next |-> h + n]

Fits(ptr, size) == ptr + size - 1 <= MaxAddr
Room(p)         == p \in alive /\ argv[p] # 0 /\ Len(blocks[p]) < MaxBlocks

\* A block of n bytes for path p that begins with `bytes`.
Give(p, n, bytes) ==
  LET a == allocate(heap_ptr[p], n)
  IN  /\ Fits(a.ptr, n)
      /\ mem' = [mem EXCEPT ![p] = Stored(@, a.ptr, bytes)]
      /\ heap_ptr' = [heap_ptr EXCEPT ![p] = a.next]
      /\ blocks' = [blocks EXCEPT ![p] = Append(@, Block(a.ptr, n, bytes))]
      /\ UNCHANGED <<alive, m_argv, argv>>

Malloc(p) == Room(p) /\ \E n \in Sizes : Give(p, n, <<>>)

Calloc(p) == Room(p) /\ \E n \in Sizes : Give(p, n, Zeros(n))

\* The new size is read from the old block, however small it is; the old
\* block stays where it is.
Realloc(p) ==
  /\ Room(p)
  /\ \E b \in DOMAIN blocks[p], n \in Sizes :
       LET old == blocks[p][b]
           a   == allocate(heap_ptr[p], n)
       IN  /\ old.live
           /\ Fits(a.ptr, n) /\ Fits(old.ptr, n)
           /\ mem' = [mem EXCEPT ![p] = Stored(@, a.ptr, Contents(@, old.ptr, n))]
           /\ heap_ptr' = [heap_ptr EXCEPT ![p] = a.next]
           /\ blocks' = [blocks EXCEPT ![p] =
                Append([@ EXCEPT ![b].live = FALSE], Block(a.ptr, n, Clipped(old.want, n)))]
  /\ UNCHANGED <<alive, m_argv, argv>>

\* free does nothing.
Free(p) ==
  /\ p \in alive
  /\ \E b \in DOMAIN blocks[p] :
       /\ blocks[p][b].live
       /\ blocks' = [blocks EXCEPT ![p][b].live = FALSE]
  /\ UNCHANGED <<alive, mem, heap_ptr, m_argv, argv>>

\* The program writes to a block it has.
Fill(p, b, bytes) ==
  /\ blocks[p][b].live
  /\ DOMAIN bytes \subseteq 0..(blocks[p][b].size - 1)
  /\ mem' = [mem EXCEPT ![p] = Stored(@, blocks[p][b].ptr, bytes)]
  /\ blocks' = [blocks EXCEPT ![p][b].want = Over(bytes, @)]
  /\ UNCHANGED <<alive, heap_ptr, m_argv, argv>>

Store(p) ==
  /\ p \in alive
  /\ \E b \in DOMAIN blocks[p] : Fill(p, b, [k \in 0..(blocks[p][b].size - 1) |-> Byte(7)])

(***************************************************************************)
(* set_argv, before the execution: an argument is fixed, or symbolic       *)
(* ("@@:size") and perhaps restricted ("print", "anum", "nozero"); either  *)
(* is given its terminator.                                                *)
(***************************************************************************)
Terminated(bytes) == Append(bytes, Byte(0))

\* Mutant: only the first byte is restricted.
admitted_first(args) ==
  {input \in Input : \A i \in DOMAIN args :
     args[i].only # "fixed" => args[i].bytes[1][input] \in Admits[args[i].only]}

\* The inputs that satisfy the constraints it adds, one for each byte.
admitted(args) ==
  {input \in Input : \A i \in DOMAIN args : args[i].only # "fixed" =>
     \A k \in DOMAIN args[i].bytes : args[i].bytes[k][input] \in Admits[args[i].only]}

set_argv(args) == m_argv = [i \in DOMAIN args |-> Terminated(args[i].bytes)]

(***************************************************************************)
(* __libc_start_main: the vector first, then each argument with one more   *)
(* zero, and its address in the vector.                                    *)
(***************************************************************************)
Text(s) == [k \in 0..Len(s) |-> Terminated(s)[k + 1]]

PutArg(acc, s) ==
  LET n == Len(s) + 1
      a == allocate(acc.heap, n)
      i == Len(acc.blocks) - 1
      slot == acc.blocks[1].ptr + i * PtrBytes
      vector == [k \in {k + i * PtrBytes : k \in 0..(PtrBytes - 1)} |->
                   Little(a.ptr)[k - i * PtrBytes]]
  IN  [heap   |-> a.next,
       mem    |-> Stored(Stored(acc.mem, a.ptr, Text(s)), slot, Little(a.ptr)),
       blocks |-> Append([acc.blocks EXCEPT ![1].want = Over(vector, @)],
                         Block(a.ptr, n, Text(s)))]

StartMain(p) ==
  /\ p \in alive
  /\ argv[p] = 0
  /\ LET n     == Len(m_argv) * PtrBytes
         a     == allocate(heap_ptr[p], n)
         first == [heap |-> a.next, mem |-> mem[p], blocks |-> <<Block(a.ptr, n, <<>>)>>]
         last  == FoldLeft(PutArg, first, m_argv)
     IN  /\ \A i \in DOMAIN last.blocks : Fits(last.blocks[i].ptr, last.blocks[i].size)
         /\ mem' = [mem EXCEPT ![p] = last.mem]
         /\ heap_ptr' = [heap_ptr EXCEPT ![p] = last.heap]
         /\ blocks' = [blocks EXCEPT ![p] = last.blocks]
         /\ argv' = [argv EXCEPT ![p] = a.ptr]
  /\ UNCHANGED <<alive, m_argv>>

HeapStep(p) == Malloc(p) \/ Calloc(p) \/ Realloc(p) \/ Free(p) \/ Store(p) \/ StartMain(p)

HeapInit ==
  /\ mem = [p \in Path |-> [a \in 0..MaxAddr |-> Unset]]
  /\ heap_ptr = [p \in Path |-> HeapStart]
  /\ blocks = [p \in Path |-> <<>>]
  /\ argv = [p \in Path |-> 0]

\* What a fork copies: m_ram, m_heap_ptr.
HeapFork(p, q) ==
  /\ mem' = [mem EXCEPT ![q] = mem[p]]
  /\ heap_ptr' = [heap_ptr EXCEPT ![q] = heap_ptr[p]]
  /\ blocks' = [blocks EXCEPT ![q] = blocks[p]]
  /\ argv' = [argv EXCEPT ![q] = argv[p]]
  /\ UNCHANGED m_argv

Holds(p, b) ==
  \A k \in DOMAIN b.want : mem[p][b.ptr + k] = b.want[k]

\* Each block was at least as large as the one before.
Growing(p) ==
  \A i \in 2..Len(blocks[p]) : blocks[p][i - 1].size <= blocks[p][i].size

-----------------------------------------------------------------------------
\* As long as no block is smaller than the one allocated before it, every
\* block a path has holds what was stored in it, whatever was allocated,
\* freed, grown and written since, in this path and in the ones forked from it.
BlocksKeep ==
  \A p \in alive : Growing(p) =>
    \A i \in DOMAIN blocks[p] : blocks[p][i].live => Holds(p, blocks[p][i])

\* "Set argv (if defined)": when main starts, the vector and the strings
\* are in memory.
ArgvIsSet ==
  [][\A p \in alive : argv[p] = 0 /\ argv'[p] # 0 =>
       \A i \in DOMAIN blocks'[p] : Holds(p, blocks[p][i])']_heapVars
=============================================================================
