------------------------------- MODULE MapMemory -------------------------------
(***************************************************************************)
(* state/MapMemory.cpp: a memory of symbolic bytes.  A byte that was never *)
(* written comes from the binary or is made up, once.  An access through a *)
(* symbolic pointer is done at each of the addresses the solver gives, the *)
(* results put together by if-then-else; the path is constrained to these  *)
(* addresses when there may be more of them.                               *)
(*                                                                         *)
(* A byte of memory is a function of the inputs; a value is a sequence of  *)
(* such bytes, the most significant first.                                 *)
(***************************************************************************)
EXTENDS Naturals, FiniteSets, SequencesExt

CONSTANTS
  Input,       \* the inputs
  Width,       \* addresses are 0..Width - 1 (uint64_t: 2^64)
  Byte,        \* what a byte can be
  Image,       \* the bytes of the AddressSpace, by address
  Unknown,     \* Unknown[a][i]: input i's value of the symbol for address a
  Pointer,     \* the pointers the program uses, as functions of the input
  Value,       \* the values it writes
  Constraint,  \* the constraints of its branches: sets of inputs
  Behavior,    \* the UninitReadBehaviors of the memories: RET_SYM, RET_ZERO, THROW_ERR
  MaxLen,      \* bound of the length of an access
  MaxRead,     \* max_n_eval_read (256), used for writes as well
  MaxCalls     \* bound of the number of accesses and branches

ASSUME MemoryAssumption ==
  /\ Width \in Nat \ {0} /\ MaxLen \in 1..Width
  /\ MaxRead \in Nat \ {0}     \* the constructor refuses zero
  /\ MaxCalls \in Nat
  /\ 0 \in Byte
  /\ DOMAIN Image \subseteq 0..Width - 1 /\ \A a \in DOMAIN Image : Image[a] \in Byte
  /\ Unknown \in [0..Width - 1 -> [Input -> Byte]]
  /\ Pointer \subseteq [Input -> 0..Width - 1]
  /\ \A v \in Value : Len(v) \in 1..MaxLen /\ v \in [1..Len(v) -> [Input -> Byte]]
  /\ Constraint \subseteq SUBSET Input

VARIABLES
  m_memory,          \* a map from addresses to bytes
  m_uninit_behavior, \* never changes
  timeouts,          \* whether Z3 may give up; never changes
  pi,                \* the path constraint of m_solver
  exact,             \* the inputs of the path whose address each access was done at
  said,              \* what the last read returned
  phase,             \* "ok", "unsat" (UnsatStateException) or "ended" (the engine)
  calls              \* number of accesses and branches

vars == <<m_memory, m_uninit_behavior, timeouts, pi, exact, said, phase, calls>>

Address == 0..Width - 1
Const(a) == [i \in Input |-> a]

Call == phase = "ok" /\ calls < MaxCalls /\ calls' = calls + 1
                     /\ UNCHANGED <<m_uninit_behavior, timeouts>>
-----------------------------------------------------------------------------
\* read_byte
ByteAt(m, a) ==
  IF a \in DOMAIN m THEN m[a]
  ELSE IF a \in DOMAIN Image THEN Const(Image[a])
  ELSE IF m_uninit_behavior = "RET_SYM" THEN Unknown[a] ELSE Const(0)

Span(a, len) == {(a + k) % Width : k \in 0..len - 1}

\* A read stores the bytes it makes up.
Touched(m, A, len) ==
  [x \in DOMAIN m \cup UNION {Span(a, len) : a \in A} |-> ByteAt(m, x)]

\* THROW_ERR: the engine ends at the first byte that was never written.
Throws(A, len) ==
  /\ m_uninit_behavior = "THROW_ERR"
  /\ ~UNION {Span(a, len) : a \in A} \subseteq DOMAIN m_memory \cup DOMAIN Image

\* Where byte k of a value is, from its first address.
Place(k, len, end) == IF end = "BIG" THEN k - 1 ELSE len - k

ReadAt(m, a, len, end) == [k \in 1..len |-> ByteAt(m, (a + Place(k, len, end)) % Width)]

\* The byte of the value that goes to address x.
ByteFor(x, a, v, end) ==
  v[CHOOSE k \in DOMAIN v : x = (a + Place(k, Len(v), end)) % Width]

WriteAt(m, a, v, end) ==
  [x \in DOMAIN m \cup Span(a, Len(v)) |->
     IF x \in Span(a, Len(v)) THEN ByteFor(x, a, v, end) ELSE m[x]]

\* if addr = a then v else w
Ite(p, a, v, w) == [k \in DOMAIN v |-> [i \in Input |-> IF p[i] = a THEN v[k][i] ELSE w[k][i]]]
-----------------------------------------------------------------------------
Init ==
  /\ m_memory = <<>>
  /\ m_uninit_behavior \in Behavior
  /\ timeouts \in BOOLEAN
  /\ pi = Input /\ exact = Input
  /\ said = <<>>
  /\ phase = "ok"
  /\ calls = 0

\* read(uint64_t)
Read(a, len, end) ==
  /\ Call /\ len > 0 /\ ~Throws({a}, len)
  /\ m_memory' = Touched(m_memory, {a}, len)
  /\ said' = ReadAt(m_memory, a, len, end)
  /\ UNCHANGED <<pi, exact, phase>>

\* write(uint64_t)
Write(a, v, end) ==
  /\ Call
  /\ m_memory' = WriteAt(m_memory, a, v, end)
  /\ said' = <<>>
  /\ UNCHANGED <<pi, exact, phase>>

\* exit_fail(): no byte asked for, or a byte that was never written.
Fail(a, len) ==
  /\ Call
  /\ len = 0 \/ Throws({a}, len)
  /\ phase' = "ended"
  /\ UNCHANGED <<m_memory, pi, exact, said>>

\* A symbolic pointer on a path that is not satisfiable, or not known to be.
UnsatAccess ==
  /\ Call
  /\ pi = {} \/ timeouts
  /\ phase' = "unsat"
  /\ UNCHANGED <<m_memory, pi, exact, said>>

\* Z3 gives up after it said that the path is satisfiable: evaluate_upto returns
\* nothing, or no address, and value() or at(0) throws what nobody catches.
LostAccess ==
  /\ Call
  /\ pi # {} /\ timeouts
  /\ phase' = "ended"
  /\ UNCHANGED <<m_memory, pi, exact, said>>

\* What evaluate_upto may return: all the addresses, in any order, or MaxRead of
\* them; fewer, if Z3 gives up before the last.
Targets(p) ==
  LET all == {p[i] : i \in pi}
      sets == {A \in SUBSET all : /\ A # {} /\ Cardinality(A) <= MaxRead
                                  /\ ~timeouts => A = all \/ Cardinality(A) = MaxRead}
  IN UNION {SetToSeqs(A) : A \in sets}

\* Mutant: the conjunction of the addresses.
ConstrainedToAll(p, q) ==
  pi' = IF Len(q) = MaxRead THEN {i \in pi : ToSet(q) = {p[i]}} ELSE pi

\* Mutant: the bound is never met.
ConstrainedNever(p, q) ==
  pi' = IF Len(q) > MaxRead THEN {i \in pi : p[i] \in ToSet(q)} ELSE pi

\* The disjunction of the addresses is added to the path constraint.
Constrained(p, q) ==
  pi' = IF Len(q) = MaxRead THEN {i \in pi : p[i] \in ToSet(q)} ELSE pi

AccessedAt(p, q) == /\ Constrained(p, q)
                    /\ exact' = {i \in exact : p[i] \in ToSet(q)}

\* read(BVExprPtr): the first address is the last alternative.
ReadSym(p, len, end) ==
  /\ Call /\ len > 0 /\ pi # {}
  /\ \E q \in Targets(p) :
       /\ ~Throws(ToSet(q), len)
       /\ said' = FoldLeft(LAMBDA res, a : Ite(p, a, ReadAt(m_memory, a, len, end), res),
                           ReadAt(m_memory, q[1], len, end), Tail(q))
       /\ m_memory' = Touched(m_memory, ToSet(q), len)
       /\ AccessedAt(p, q)
  /\ UNCHANGED phase

\* Mutant: the old bytes are those from before the loop.
WriteEachOld(p, q, v, end) ==
  FoldLeft(LAMBDA m, a : WriteAt(m, a, Ite(p, a, v, ReadAt(m_memory, a, Len(v), end)), end),
           m_memory, q)

\* Address after address, each with what the ones before have written.  The bytes its
\* read makes up are written over at once.
WriteEach(p, q, v, end) ==
  FoldLeft(LAMBDA m, a : WriteAt(m, a, Ite(p, a, v, ReadAt(m, a, Len(v), end)), end),
           m_memory, q)

\* write(BVExprPtr)
WriteSym(p, v, end) ==
  /\ Call /\ pi # {}
  /\ \E q \in Targets(p) :
       /\ ~Throws(ToSet(q), Len(v))
       /\ m_memory' = WriteEach(p, q, v, end)
       /\ AccessedAt(p, q)
  /\ said' = <<>>
  /\ UNCHANGED phase

\* exit_fail() in a symbolic access.
FailSym(p, len) ==
  /\ Call /\ pi # {}
  /\ \E q \in Targets(p) : len = 0 \/ Throws(ToSet(q), len)
  /\ phase' = "ended"
  /\ UNCHANGED <<m_memory, pi, exact, said>>

\* The state, or a clone of it with a copy of m_memory, takes one side of a branch.
Branch(c) ==
  /\ Call
  /\ pi' = pi \cap c /\ exact' = exact \cap c
  /\ said' = <<>>
  /\ UNCHANGED <<m_memory, phase>>

Done == (phase # "ok" \/ calls = MaxCalls) /\ UNCHANGED vars

Next ==
  \/ \E a \in Address, end \in {"BIG", "LITTLE"} :
       \/ \E len \in 0..MaxLen : Read(a, len, end) \/ Fail(a, len)
       \/ \E v \in Value : Write(a, v, end)
  \/ \E p \in Pointer, end \in {"BIG", "LITTLE"} :
       \/ \E len \in 0..MaxLen : ReadSym(p, len, end) \/ FailSym(p, len)
       \/ \E v \in Value : WriteSym(p, v, end)
  \/ \E c \in Constraint : Branch(c)
  \/ UnsatAccess \/ LostAccess
  \/ Done

Spec == Init /\ [][Next]_vars
-----------------------------------------------------------------------------
TypeOK ==
  /\ DOMAIN m_memory \subseteq Address
  /\ \A a \in DOMAIN m_memory : m_memory[a] \in [Input -> Byte]
  /\ pi \subseteq Input /\ exact \subseteq pi
  /\ phase \in {"ok", "unsat", "ended"} /\ calls \in 0..MaxCalls

\* As long as Z3 answers, the path keeps no input for which an access went to another
\* address than the program's: whatever the order and number of addresses, the ones
\* left out are ruled out by the constraint.
NoGuess == ~timeouts => exact = pi

\* The memory of each input of the path, and what each has read.
PlainBytes == [i \in exact |-> [a \in Address |-> ByteAt(m_memory, a)[i]]]
PlainSaid  == IF said = <<>> THEN <<>>
              ELSE [i \in exact |-> [k \in DOMAIN said |-> said[k][i]]]

Flat == INSTANCE FlatMemory
          WITH Pointer <- Pointer \cup {Const(a) : a \in Address},
               bytes <- PlainBytes, said <- PlainSaid

\* For each input, symbolic memory is the program's memory.  The bytes made up for the
\* first read are the same in every later one, in every order of accesses and in every
\* fork; the nested if-then-else of overlapping writes give each input its own write.
ImplementsFlat == Flat!Spec
=============================================================================
