--------------------------- MODULE PCodeExecutor ---------------------------
(***************************************************************************)
(* executor/PCodeExecutor.cpp: one basic block of one symbolic state, an   *)
(* operation at a time.  The states are the objects behind StatePtr:       *)
(* heap[id] is a State, cur the one under execution, and act and ext the   *)
(* two vectors of the ExecutorResult under construction.                   *)
(***************************************************************************)
EXTENDS PCodeProgram

CONSTANTS
  Id,        \* identities of State objects
  NoId,      \* a null StatePtr
  MaxDest    \* bound of evaluate_upto in handle_symbolic_ip (256)

VARIABLES
  job,     \* the job asked for; never changes
  phase,   \* where the engine is
  heap,    \* the State objects
  cur,     \* ctx.state
  act,     \* successors.active
  ext      \* successors.exited

ASSUME IdAssumption == /\ Id \subseteq Nat
                       /\ \E id \in Id : \A other \in Id : id <= other
                       /\ NoId \notin Id
                       /\ MaxDest \in Nat \ {0}

(***************************************************************************)
(* State.hpp: pc, contents, path constraint, recorded stack trace.  depth  *)
(* counts the blocks executed (it is not in the code; the properties use   *)
(* it); live is false once the last StatePtr to the object is gone.  stray *)
(* is for the properties too: inputs that the state may have contents for  *)
(* that are not theirs, because Z3 gave up when an address or the end of a *)
(* string was enumerated, or a model mixed the inputs.                     *)
(***************************************************************************)
SymState == [pc: Addr, val: [Input -> Val], pi: SUBSET Input, calls: Seq(Addr),
             depth: Nat, live: BOOLEAN, stray: SUBSET Input]

conf == Conf[job]
op   == conf.code[heap[cur].pc]
s    == heap[cur]

Blank == [pc |-> conf.entry, val |-> conf.data, pi |-> {}, calls |-> <<>>,
          depth |-> 0, live |-> FALSE, stray |-> {}]

\* The inputs that a state really stands for.
Own(st) == st.pi \ st.stray

\* State::State(const State&) copies everything but the stack trace.
Clone(st) == [st EXCEPT !.calls = <<>>, !.live = TRUE]

\* The n lowest identities not in use.
Free == {id \in Id : ~heap[id].live /\ id # cur}

FreeIds(n) ==
  {f \in [1..n -> Free] :
     /\ \A k, l \in 1..n : k < l => f[k] < f[l]
     /\ \A k \in 1..n : \A id \in Free : id < f[k] => \E l \in 1..n : f[l] = id}

\* The answers Z3 may give about a set of inputs.
Verdicts(set) == {IF set = {} THEN "UNSAT" ELSE "SAT"}
                   \cup (IF conf.timeouts THEN {"UNKNOWN"} ELSE {})

\* Whether an expression that takes value e[i] under input i has been reduced
\* to the constant v.
MayFold(e, v) == \A i \in Input : e[i] = v
FoldsTo(e, v) == {b \in BOOLEAN : /\ b => MayFold(e, v)
                                  /\ conf.folds /\ MayFold(e, v) => b}

(***************************************************************************)
(* The values of e that evaluate_upto may return on a path with the inputs *)
(* S: all of them, up to max.  Z3 may give up before the last; on an       *)
(* infeasible path the slice of constraints it looks at may still be       *)
(* satisfiable, by any inputs.                                             *)
(***************************************************************************)
Upto(e, S, max) ==
  LET V == {e[i] : i \in S}
      sets == IF S = {} THEN SUBSET {e[i] : i \in Input}
              ELSE IF conf.timeouts THEN SUBSET V ELSE {V}
      capped == {D \in sets : Cardinality(D) <= max}
                  \cup {D \in SUBSET UNION sets : Cardinality(D) = max}
  IN {D \in capped : D # {}}

\* The members of D, each once, in some order.
Orders(D) ==
  {q \in [1..Cardinality(D) -> D] :
     /\ \A a \in D : \E k \in DOMAIN q : q[k] = a
     /\ \A k, l \in DOMAIN q : q[k] = q[l] => k = l}

-----------------------------------------------------------------------------
(***************************************************************************)
(* How a step ends: the state goes on in the block, or becomes a successor *)
(* (execute_basic_block's fall-through included), or there is none.        *)
(***************************************************************************)
\* Mutant: the block goes on without a state.
NoStateMissed == cur' = NoId /\ UNCHANGED phase

NoState == cur' = NoId /\ phase' = "sift"

Continue(acts) ==
  IF op.last THEN act' = Append(acts, cur) /\ NoState
             ELSE act' = acts /\ UNCHANGED <<cur, phase>>

Push == act' = Append(act, cur) /\ NoState

Executing(kinds) == phase = "exec" /\ op.kind \in kinds

-----------------------------------------------------------------------------
\* printable_stdin: what a read adds to the path without asking the solver.
Admitted == IF conf.printable THEN {i \in s.pi : op.admits[s.val[i]]} ELSE s.pi

Pointer == [i \in Input |-> op.ptr[s.val[i]]]
ThroughSymbol == op.deref /\ \A a \in Addr : FALSE \in FoldsTo(Pointer, a)
PlainAccess   == op.deref => \E a \in Addr : TRUE \in FoldsTo(Pointer, a)

\* MapMemory::read and write, for the inputs S: which go on, and which of those with
\* the right contents.  The path is held to the addresses found once there are as
\* many as MaxPtr; the other inputs read from the first one, and write nowhere.
Accesses(S) ==
  (IF PlainAccess THEN {[kept |-> S, right |-> S]} ELSE {})
    \cup
  (IF ThroughSymbol /\ S # {}
   THEN LET In(D) == {i \in S : Pointer[i] \in D}
        IN {[kept |-> IF Cardinality(D) = MaxPtr THEN In(D) ELSE S, right |-> In(D)] :
              D \in Upto(Pointer, S, MaxPtr)}
   ELSE {})

\* What the inputs of kept that are not right may be left with.
Junk(kept, right) == [kept \ right -> op.wrong]

\* Mutant: an assignment or a model without its result.
EffectedNot(kept, right, junk) == [s EXCEPT !.pi = kept]

\* The state with the inputs kept, the right ones of them with the effect of op.
Effected(kept, right, junk) ==
  [s EXCEPT !.val = [i \in Input |-> IF i \in kept \ right THEN junk[i] ELSE op.eff[s.val[i]]],
            !.pi = kept,
            !.stray = @ \cup (kept \ right)]

\* An assignment, load, store or system call: any op without control flow.
DataOp ==
  /\ Executing({"DATA"})
  /\ \E acc \in Accesses(Admitted) :
       \E junk \in Junk(acc.kept, acc.right) :
         heap' = [heap EXCEPT ![cur] = FallThrough(op, Effected(acc.kept, acc.right, junk))]
  /\ Continue(act)
  /\ UNCHANGED <<job, ext>>

\* A symbolic pointer that MapMemory cannot resolve, or an argument a model cannot
\* evaluate (the path is infeasible, or Z3 gave up), throws UnsatStateException.
UnsatState ==
  /\ Executing({"DATA", "LIBRET"})
  /\ ThroughSymbol \/ op.mixes
  /\ Admitted = {} \/ conf.timeouts
  /\ heap' = [heap EXCEPT ![cur] = Blank]
  /\ NoState
  /\ UNCHANGED <<job, act, ext>>

Cond == [i \in Input |-> op.cond[s.val[i]]]
Taken(st) == [Goto(Clone(st), op.dst) EXCEPT !.pi = {i \in st.pi : Cond[i]}]

\* Mutant: the negated condition is not added.
NotTakenFree(st) == FallThrough(op, st)

NotTaken(st) == [FallThrough(op, st) EXCEPT !.pi = {i \in st.pi : ~Cond[i]}]

\* Both CBRANCH actions end alike: which of the two states go on.
Branch(taken, notTaken) ==
  \E f \in FreeIds(1) :
    LET acts == IF taken THEN Append(act, f[1]) ELSE act
    IN /\ heap' = [heap EXCEPT ![f[1]] = IF taken THEN Taken(s) ELSE Blank,
                               ![cur]  = IF notTaken THEN NotTaken(s) ELSE Blank]
       /\ IF notTaken THEN Continue(acts) ELSE act' = acts /\ NoState

\* lazy_solving: a side is left out only when its condition is the constant false.
CBranchLazy ==
  /\ Executing({"CBRANCH"})
  /\ conf.lazy
  /\ \E never \in FoldsTo(Cond, FALSE), always \in FoldsTo(Cond, TRUE) :
       Branch(~never, ~always)
  /\ UNCHANGED <<job, ext>>

\* Mutant: UNKNOWN counts as SAT.
CBranchEagerUnknown ==
  /\ Executing({"CBRANCH"})
  /\ ~conf.lazy
  /\ \E t \in Verdicts(Taken(s).pi), n \in Verdicts(NotTaken(s).pi) :
       Branch(t # "UNSAT", n # "UNSAT")
  /\ UNCHANGED <<job, ext>>

\* Eager solving: a side goes on when Z3 answers SAT; UNKNOWN counts as UNSAT.
CBranchEager ==
  /\ Executing({"CBRANCH"})
  /\ ~conf.lazy
  /\ \E t \in Verdicts(Taken(s).pi), n \in Verdicts(NotTaken(s).pi) :
       Branch(t = "SAT", n = "SAT")
  /\ UNCHANGED <<job, ext>>

\* register_call / register_ret
Recorded(st) ==
  CASE op.kind \in {"CALL", "CALLIND"} -> [st EXCEPT !.calls = Append(@, op.next)]
    [] op.kind \in {"RETURN", "LIBRET"} /\ st.calls # <<>> ->
         [st EXCEPT !.calls = SubSeq(@, 1, Len(@) - 1)]
    [] OTHER -> st

DirectJump ==
  /\ Executing(Direct)
  /\ heap' = [heap EXCEPT ![cur] = Goto(Recorded(s), op.dst)]
  /\ Push
  /\ UNCHANGED <<job, ext>>

Target == [i \in Input |-> op.tgt[s.val[i]]]

ConstantIP ==
  /\ Executing(Indirect)
  /\ \E a \in Addr : /\ TRUE \in FoldsTo(Target, a)
                     /\ heap' = [heap EXCEPT ![cur] = Goto(Recorded(s), a)]
  /\ Push
  /\ UNCHANGED <<job, ext>>

SymbolicIP == Executing(Indirect) /\ \A a \in Addr : FALSE \in FoldsTo(Target, a)

\* handle_symbolic_ip: evaluate_upto finds no destination.
UnsatIP ==
  /\ SymbolicIP
  /\ s.pi = {} \/ conf.timeouts
  /\ heap' = [heap EXCEPT ![cur] = Blank]
  /\ NoState
  /\ UNCHANGED <<job, act, ext>>

\* The destinations evaluate_upto finds.
Dests == Upto(Target, s.pi, MaxDest)

\* Mutant: a missing early return; the exited state is active too.
UnconstrainedIPActive ==
  /\ SymbolicIP
  /\ \E D \in Dests : Cardinality(D) = MaxDest
  /\ heap' = [heap EXCEPT ![cur] = Recorded(s)]
  /\ ext' = Append(ext, cur)
  /\ Push
  /\ UNCHANGED job

UnconstrainedIP ==
  /\ SymbolicIP
  /\ \E D \in Dests : Cardinality(D) = MaxDest
  /\ heap' = [heap EXCEPT ![cur] = Recorded(s)]
  /\ ext' = Append(ext, cur)
  /\ NoState
  /\ UNCHANGED <<job, act>>

\* Mutant: the clone is not constrained to its destination.
AtFree(a) == Goto(Clone(s), a)

At(a) == [Goto(Clone(s), a) EXCEPT !.pi = {i \in s.pi : Target[i] = a}]

\* The states st become successors, as the objects f; the state itself is dropped,
\* unless it is one of them.
ForkTo(f, st) ==
  /\ heap' = [id \in Id |->
                IF \E k \in DOMAIN f : f[k] = id THEN st[CHOOSE k \in DOMAIN f : f[k] = id]
                ELSE IF id = cur THEN Blank ELSE heap[id]]
  /\ act' = act \o f

\* One clone per destination, each constrained to it.
ForkIP ==
  /\ SymbolicIP
  /\ \E D \in Dests :
       /\ Cardinality(D) < MaxDest
       /\ \E q \in Orders(D), f \in FreeIds(Cardinality(D)) :
            ForkTo(f, [k \in DOMAIN q |-> At(q[k])])
  /\ NoState
  /\ UNCHANGED <<job, ext>>

-----------------------------------------------------------------------------
(***************************************************************************)
(* resolve_string.  Took is where each input's string may be found to end: *)
(* a byte about which Z3 gives up counts as not zero.  Kept are the ends   *)
(* that get a state: all of them, unless there are more than max_forks, or *)
(* Z3 gives up on the rest of the inputs.                                  *)
(***************************************************************************)
Way == [i \in Input |-> op.way[s.val[i]]]
StringEnds == {op.way[v] : v \in Val}

Took == IF conf.timeouts THEN [Admitted -> StringEnds] ELSE {[i \in Admitted |-> Way[i]]}

\* Mutant: one state too few.
KeptOneLess(took) ==
  LET all == {took[i] : i \in Admitted}
  IN {K \in SUBSET (IF Admitted = {} THEN StringEnds ELSE all) :
        /\ K # {} /\ Cardinality(K) <= op.most
        /\ K = all \/ Admitted = {} \/ conf.timeouts \/ Cardinality(K) >= op.forks}

Kept(took) ==
  LET all == {took[i] : i \in Admitted}
  IN {K \in SUBSET (IF Admitted = {} THEN StringEnds ELSE all) :
        /\ K # {} /\ Cardinality(K) <= op.most
        /\ K = all \/ Admitted = {} \/ conf.timeouts \/ Cardinality(K) > op.forks}

\* The accesses of the states of K.
AccessesAt(K, took) ==
  LET At1(e) == Accesses({i \in Admitted : took[i] = e})
  IN {acc \in [K -> UNION {At1(e) : e \in K}] : \A e \in K : acc[e] \in At1(e)}

\* The n states of a model are clones; the last may be the state it was given.
Successors(n) ==
  {Append(f, cur) : f \in FreeIds(n - 1)} \cup (IF op.forks = 0 THEN {} ELSE FreeIds(n))

\* Arch::handle_return, for the state id.
Returned(st, id, a, pi) ==
  LET to == [Goto(Recorded(st), a) EXCEPT !.pi = pi]
  IN IF id = cur THEN to ELSE Clone(to)

\* A libc model that computes a result and returns, in one or more states.
LibReturn ==
  /\ Executing({"LIBRET"})
  /\ \E a \in Addr, took \in Took :
       /\ TRUE \in FoldsTo(Target, a)
       /\ \E K \in Kept(took) :
          \E q \in Orders(K), acc \in AccessesAt(K, took), f \in Successors(Cardinality(K)) :
            LET kept == UNION {acc[e].kept : e \in K}
                sure == {i \in UNION {acc[e].right : e \in K} : took[i] = Way[i]}
            IN \E right \in IF op.mixes THEN SUBSET sure ELSE {sure} :
               \E junk \in Junk(kept, right) :
                 LET st == Effected(kept, right, junk)
                 IN ForkTo(f, [k \in DOMAIN q |-> Returned(st, f[k], a, acc[q[k]].kept)])
  /\ NoState
  /\ UNCHANGED <<job, ext>>

\* exit, abort, an unmodelled function: the state exits.
LibExit ==
  /\ Executing({"EXIT"})
  /\ ext' = Append(ext, cur)
  /\ NoState
  /\ UNCHANGED <<job, heap, act>>

\* exit_fail(), or an exception nobody catches, ends the whole engine: an op it does
\* not support, a model that would return to a symbolic address, a symbolic pointer
\* with no value because Z3 gave up after it said that there is one.
ExitFail ==
  /\ \/ Executing({"NOCODE"})
     \/ Executing({"LIBRET"}) /\ \A a \in Addr : FALSE \in FoldsTo(Target, a)
     \/ Executing({"DATA", "LIBRET"}) /\ ThroughSymbol /\ conf.timeouts
  /\ phase' = "failed"
  /\ UNCHANGED <<job, heap, cur, act, ext>>

ExecuteOp ==
  \/ DataOp \/ UnsatState \/ CBranchLazy \/ CBranchEager \/ DirectJump
  \/ ConstantIP \/ UnsatIP \/ UnconstrainedIP \/ ForkIP
  \/ LibReturn \/ LibExit \/ ExitFail
=============================================================================
