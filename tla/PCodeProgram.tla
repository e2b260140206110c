---------------------------- MODULE PCodeProgram ----------------------------
(***************************************************************************)
(* The program under analysis, as csleigh and the processor see it: what   *)
(* PCodeExecutor.cpp interprets, and the concrete machine its results are  *)
(* compared with.                                                          *)
(*                                                                         *)
(* The symbolic inputs of a run (stdin, symbolic argv, uninitialised       *)
(* memory) are abstracted to the set Input of their valuations, and the    *)
(* contents of registers and memory to the set Val.  An expression over    *)
(* the symbols is then a function on Input, a path constraint is the       *)
(* subset of Input that satisfies it, and a formula is satisfiable when    *)
(* that subset is not empty.                                               *)
(***************************************************************************)
EXTENDS Naturals, FiniteSets, Sequences

CONSTANTS
  Input,    \* valuations of the symbolic inputs
  Addr,     \* addresses of the program's operations, of its data and of string ends
  Val,      \* contents of registers and memory
  Job,      \* what the user may ask of the engine
  Conf,     \* the program, the command line and g_config of each job
  MaxPtr,   \* bound of evaluate_upto in MapMemory (max_n_eval_read, 256)
  Steps,    \* the steps of the runs looked at: all of Nat, or the first ones
  Run       \* the concrete run of each input in a job, configuration by configuration

Kind == {"DATA", "CBRANCH", "BRANCH", "CALL", "BRANCHIND", "CALLIND", "RETURN",
         "LIBRET", "EXIT", "NOCODE"}
Direct   == {"BRANCH", "CALL"}
Indirect == {"BRANCHIND", "CALLIND", "RETURN"}

(***************************************************************************)
(* An operation: eff is its effect on the data, cond a branch condition,   *)
(* dst a direct and tgt a computed target, next the following operation,   *)
(* last whether the translated block ends here.  LIBRET is a libc model    *)
(* that returns to its caller, EXIT one that ends the state, NOCODE a      *)
(* place where the engine ends: no bytes, an opcode it lacks, an argument  *)
(* a model cannot handle.                                                  *)
(*                                                                         *)
(* DATA and LIBRET use the memory: deref is whether at a computed address, *)
(* ptr.  way is where the string that a model resolves ends (for strcat a  *)
(* pair of places; a constant for the models that resolve none), forks the *)
(* model's max_forks and most the most successors it can have.  admits     *)
(* tells what a read of stdin returns apart: printable bytes, or not.      *)
(* mixes marks the models whose result for one input may be another's:     *)
(* printf, sprintf and srand put one value of a symbolic argument in place *)
(* of all, rand draws from a table that every path shares, strcat may      *)
(* write into the state of another of its forks.  wrong is what an input   *)
(* may be left with that is mixed up, or that Z3 did not find.             *)
(***************************************************************************)
Op == [kind: Kind, eff: [Val -> Val], cond: [Val -> BOOLEAN], dst: Addr,
       tgt: [Val -> Addr], next: Addr, last: BOOLEAN, deref: BOOLEAN,
       ptr: [Val -> Addr], way: [Val -> Addr], forks: Nat, most: Nat,
       admits: [Val -> BOOLEAN], mixes: BOOLEAN, wrong: SUBSET Val]

Technique == {"bfs", "dfs", "rand_dfs", "cov"}

\* folds: the expression builder reduces every input-independent formula to
\* a constant; without it, it may or may not.  timeouts: Z3 may give up.
\* printable: only the inputs with printable bytes on stdin are looked at.
JobConf == [code: [Addr -> Op], entry: Addr, data: [Input -> Val],
            find: SUBSET Addr, avoid: SUBSET Addr, tech: Technique,
            mode: {"explore", "gen_paths"}, lazy: BOOLEAN, folds: BOOLEAN,
            timeouts: BOOLEAN, printable: BOOLEAN]

Config == [pc: Addr, val: Val, depth: Nat]

-----------------------------------------------------------------------------
\* A transfer to address a starts a new block; depth counts the blocks.
Goto(c, a) == [c EXCEPT !.pc = a, !.depth = @ + 1]

\* Control falls into the next operation, of this block or of the next one.
FallThrough(op, c) ==
  [c EXCEPT !.pc = op.next, !.depth = IF op.last THEN @ + 1 ELSE @]

\* The concrete machine.  EXIT and NOCODE stop it.
StepOf(j, c) ==
  LET op == Conf[j].code[c.pc]
  IN CASE op.kind = "DATA" -> FallThrough(op, [c EXCEPT !.val = op.eff[@]])
       [] op.kind = "CBRANCH" ->
            IF op.cond[c.val] THEN Goto(c, op.dst) ELSE FallThrough(op, c)
       [] op.kind \in Direct -> Goto(c, op.dst)
       [] op.kind \in Indirect -> Goto(c, op.tgt[c.val])
       [] op.kind = "LIBRET" ->
            Goto([c EXCEPT !.val = op.eff[@]], op.tgt[c.val])
       [] OTHER -> c

(***************************************************************************)
(* What the engine cannot follow.  Exact: Z3 always answers, and the       *)
(* program calls no model that mixes its inputs.  Limited: an operation    *)
(* that meets the inputs of the configurations G together may still give   *)
(* up the one of c, because its address or the end of its string is one    *)
(* too many, or because it is not printable.                               *)
(***************************************************************************)
Exact(j) == ~Conf[j].timeouts /\ \A a \in Addr : ~Conf[j].code[a].mixes

Others(f, c, G) == {f[b.val] : b \in G} \ {f[c.val]}

Limited(j, c, G) ==
  LET op == Conf[j].code[c.pc]
  IN /\ op.kind \in {"DATA", "LIBRET"}
     /\ \/ op.deref /\ Cardinality(Others(op.ptr, c, G)) >= MaxPtr
        \/ op.kind = "LIBRET" /\ Cardinality(Others(op.way, c, G)) > op.forks
        \/ Conf[j].printable /\ ~op.admits[c.val]

Start(j, i) == [pc |-> Conf[j].entry, val |-> Conf[j].data[i], depth |-> 0]

\* Addresses are 64 bits wide.
ASSUME AddrAssumption == IsFiniteSet(Addr) /\ MaxPtr \in Nat \ {0}

ASSUME ConfAssumption == Conf \in [Job -> JobConf]

\* A program has inputs, if only the one that says nothing.
ASSUME InputAssumption == Input # {}

\* The runs are those of the concrete machine.  A run that is given up to some step
\* only has stopped there.
ASSUME RunAssumption ==
  /\ Steps \subseteq Nat /\ 0 \in Steps /\ \A n \in Steps \ {0} : n - 1 \in Steps
  /\ Run \in [Job -> [Input -> [Steps -> Config]]]
  /\ \A j \in Job : \A i \in Input :
       /\ Run[j][i][0] = Start(j, i)
       /\ \A n \in Steps : StepOf(j, Run[j][i][n]) =
                           IF n + 1 \in Steps THEN Run[j][i][n + 1] ELSE Run[j][i][n]

\* The configurations an input goes through.
Reach == [j \in Job |-> [i \in Input |-> {Run[j][i][n] : n \in Steps}]]

\* The configurations of all inputs that one state may stand for with c, and those of
\* input i at which it may be given up.
Company(j, c) ==
  {b \in UNION {Reach[j][i] : i \in Input} : b.pc = c.pc /\ b.depth = c.depth}
Limits == [j \in Job |-> [i \in Input |-> {c \in Reach[j][i] : Limited(j, c, Company(j, c))}]]
=============================================================================
