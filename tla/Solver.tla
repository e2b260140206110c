------------------------------- MODULE Solver -------------------------------
(***************************************************************************)
(* state/Solver.cpp over solver/ConstraintManager.cpp and Z3Solver.cpp: a  *)
(* state's path constraint, sliced by the symbols a question is about, and *)
(* the model that saves most calls of Z3.                                  *)
(*                                                                         *)
(* A constraint is a record of the symbols it mentions and the assignments *)
(* it holds in; an expression, of its symbols and its value in each        *)
(* assignment.  A conjunction is a set of constraints.                     *)
(***************************************************************************)
EXTENDS Naturals, FiniteSets

CONSTANTS
  Sym,         \* symbols
  Bits,        \* what a symbol can be; 0 is the default of model completion
  Constraint,  \* the constraints the engine may come up with
  Expr,        \* the expressions it may evaluate
  Folding,     \* sets of constraints the builder may have such rules for
  MaxUpto      \* bound of the n of evaluate_upto

Assignment == [Sym -> Bits]
Agree(a, b, S) == \A x \in S : a[x] = b[x]

\* What holds, or is the value, depends on the symbols mentioned only.
ASSUME ConstraintAssumption ==
  \A c \in Constraint :
    /\ c.syms \subseteq Sym /\ c.holds \subseteq Assignment
    /\ \A a, b \in Assignment : Agree(a, b, c.syms) /\ a \in c.holds => b \in c.holds
ASSUME ExprAssumption ==
  \A e \in Expr :
    /\ e.syms \subseteq Sym
    /\ \A a, b \in Assignment : Agree(a, b, e.syms) => e.val[a] = e.val[b]
ASSUME BitsAssumption == 0 \in Bits /\ MaxUpto \in Nat

VARIABLES
  z3,           \* how Z3 and the expression builder behave; never changes
  constraints,  \* m_manager: m_constraints, from which its two maps follow
  model,        \* m_model, a partial assignment
  answer,       \* the last call and its result
  dumping,      \* State::dump: satisfiable() said SAT, and only evaluate followed
  told          \* what evaluate has returned since

vars == <<z3, constraints, model, answer, dumping, told>>

NoDump == dumping' = FALSE /\ told' = {}

Models == UNION {[S -> Bits] : S \in SUBSET Sym}

Verdict == {"SAT", "UNSAT", "UNKNOWN"}
-----------------------------------------------------------------------------
Sat(C)  == {a \in Assignment : \A c \in C : a \in c.holds}
Syms(C) == UNION {c.syms : c \in C}

Completions(m) == {a \in Assignment : Agree(a, m, DOMAIN m)}

\* Mutant: the constraints next to the symbols, not those next to these.
DepsDirect(C, S) == S \cup UNION {c.syms : c \in {d \in C : d.syms \cap S # {}}}

\* ConstraintManager::get_dependencies: the symbols linked to S by constraints of C.
Deps(C, S) ==
  {x \in Sym : \A T \in SUBSET Sym :
                 S \subseteq T /\ (\A c \in C : c.syms \cap T # {} => c.syms \subseteq T)
                   => x \in T}

\* pi(expr): the constraints on these symbols.
Slice(S) == {c \in constraints : c.syms \cap Deps(constraints, S) # {}}

\* Mutant: what is not false is taken for true.
CachedMaybe(C) == \A c \in C : Completions(model) \cap c.holds # {}

\* Whether evaluate(C, m_model, false) comes out as the constant true: every
\* constraint holds in the model, whose values the builder's rules have reduced it
\* with.  With a symbol left, that takes a rule for this constraint.
CachedTrue(C) ==
  \A c \in C : /\ Completions(model) \subseteq c.holds
               /\ c.syms \subseteq DOMAIN model \/ c \in z3.folds

\* The models Z3 may give of a satisfiable query.  It may leave out a symbol
\* whose value does not matter.
Z3Models(C) ==
  {m \in Models : /\ DOMAIN m \subseteq Syms(C)
                  /\ ~z3.omits => DOMAIN m = Syms(C)
                  /\ Completions(m) \subseteq Sat(C)}

\* Z3 may give up, but not on the constant false.
Z3Check(C) ==
  {IF Sat(C) = {} THEN "UNSAT" ELSE "SAT"}
    \cup (IF z3.timeouts /\ \A c \in C : c.syms # {} THEN {"UNKNOWN"} ELSE {})

\* The loop after a SAT: the new values override the old ones.
Updated(m) == [x \in DOMAIN model \cup DOMAIN m |-> IF x \in DOMAIN m THEN m[x] ELSE model[x]]

Populated(C) == {Updated(m) : m \in Z3Models(C)}

\* Mutant: the question alone is put to Z3.
CheckAlone(C) ==
  IF CachedTrue(C) THEN {<<"SAT", model>>}
  ELSE UNION {IF v = "SAT" THEN {v} \X Populated(C) ELSE {<<v, model>>} : v \in Z3Check(C)}

\* check_sat of a conjunction: the verdicts it may return, each with the model it
\* would leave.
Check(C) ==
  LET query == Slice(Syms(C)) \cup C
  IN IF CachedTrue(C) THEN {<<"SAT", model>>}
     ELSE UNION {IF v = "SAT" THEN {v} \X Populated(query) ELSE {<<v, model>>} :
                   v \in Z3Check(query)}
-----------------------------------------------------------------------------
Init ==
  /\ z3 \in [omits: BOOLEAN, folds: Folding, timeouts: BOOLEAN]
  /\ constraints = {}
  /\ model = [x \in {} |-> 0]
  /\ answer = [call |-> "none"]
  /\ dumping = FALSE /\ told = {}

\* Mutant: the model is not invalidated.
AddStale(c) ==
  /\ constraints' = IF c.holds = Assignment /\ c.syms = {} THEN constraints
                    ELSE constraints \cup {c}
  /\ answer' = [call |-> "add"]
  /\ NoDump
  /\ UNCHANGED <<z3, model>>

\* add: what the model says of any symbol linked to c is dropped.
AddConstraint(c) ==
  /\ constraints' = IF c.holds = Assignment /\ c.syms = {} THEN constraints
                    ELSE constraints \cup {c}
  /\ model' = [x \in DOMAIN model \ Deps(constraints', c.syms) |-> model[x]]
  /\ answer' = [call |-> "add"]
  /\ NoDump
  /\ UNCHANGED z3

\* check_sat_and_add_if_sat: the model stays valid, so it is kept.
CheckAndAdd(c) ==
  \E r \in Check({c}) :
    /\ model' = r[2]
    /\ constraints' = IF r[1] = "SAT" /\ ~(c.holds = Assignment /\ c.syms = {})
                      THEN constraints \cup {c} ELSE constraints
    /\ NoDump
    /\ answer' = [call |-> "check_and_add", about |-> c, pi |-> constraints, res |-> r[1]]
    /\ UNCHANGED z3

\* Mutant: the model of a question that is not added is kept.
MayBeTrueKept(c) ==
  \E r \in Check({c}) :
    /\ model' = r[2]
    /\ answer' = [call |-> "may_be_true", about |-> c, pi |-> constraints, res |-> r[1]]
    /\ NoDump
    /\ UNCHANGED <<z3, constraints>>

MayBeTrue(c) ==
  \E r \in Check({c}) :
    /\ answer' = [call |-> "may_be_true", about |-> c, pi |-> constraints, res |-> r[1]]
    /\ NoDump
    /\ UNCHANGED <<z3, constraints, model>>

\* satisfiable: like check_sat of the whole path constraint.
Satisfiable ==
  \E r \in Check(constraints) :
    /\ model' = r[2]
    /\ answer' = [call |-> "satisfiable", res |-> r[1]]
    /\ dumping' = (r[1] = "SAT") /\ told' = {}
    /\ UNCHANGED <<z3, constraints>>

\* Model completion.
Value(e, m) == e.val[[x \in Sym |-> IF x \in DOMAIN m THEN m[x] ELSE 0]]

Tell(e, m) == /\ told' = IF dumping THEN told \cup {<<e, Value(e, m)>>} ELSE {}
              /\ UNCHANGED dumping

\* Mutant: completion is taken for an answer.
EvaluateUnchecked(e) ==
  /\ answer' = [call |-> "evaluate", about |-> e, res |-> {Value(e, model)}]
  /\ Tell(e, model)
  /\ UNCHANGED <<z3, constraints, model>>

\* Mutant: Z3 is asked again for what the model has.
EvaluateAfresh(e) ==
  \E m \in Populated(Slice(e.syms)) :
    /\ model' = m
    /\ answer' = [call |-> "evaluate", about |-> e, res |-> {Value(e, m)}]
    /\ Tell(e, m)
    /\ UNCHANGED <<z3, constraints>>

\* evaluate: the model is completed with Z3's help only if a symbol linked to e has
\* no value.
Evaluate(e) ==
  LET known == Deps(constraints, e.syms) \subseteq DOMAIN model
  IN \E r \in IF known THEN {<<"SAT", model>>} ELSE Check(Slice(e.syms)) :
       /\ model' = r[2]
       /\ \/ /\ r[1] = "SAT"
             /\ answer' = [call |-> "evaluate", about |-> e, res |-> {Value(e, r[2])}]
             /\ Tell(e, r[2])
          \/ /\ r[1] # "SAT"
             /\ answer' = [call |-> "evaluate", about |-> e, res |-> {}]
             /\ NoDump
       /\ UNCHANGED <<z3, constraints>>

\* Mutant: one value less.
UptoOneLess(e, n) ==
  LET all == {e.val[a] : a \in Sat(Slice(e.syms))}
  IN {V \in SUBSET all : Cardinality(V) < n /\ (~z3.timeouts => V = all \/ Cardinality(V) = n - 1)}

\* Z3Solver::eval_upto: different values, until there is no other, or n of them, or
\* Z3 gives up.
Upto(e, n) ==
  LET all == {e.val[a] : a \in Sat(Slice(e.syms))}
  IN {V \in SUBSET all : Cardinality(V) <= n /\ (~z3.timeouts => V = all \/ Cardinality(V) = n)}

EvaluateUpto(e) ==
  \E n \in 1..MaxUpto, r \in Check(Slice(e.syms)) :
    /\ model' = r[2]
    /\ \/ /\ r[1] = "SAT"
          /\ \E V \in Upto(e, n) :
               answer' = [call |-> "evaluate_upto", about |-> e, n |-> n, res |-> V]
       \/ /\ r[1] # "SAT"
          /\ answer' = [call |-> "evaluate_upto", about |-> e, n |-> n, res |-> {}]
    /\ NoDump
    /\ UNCHANGED <<z3, constraints>>

Next == \/ \E c \in Constraint : AddConstraint(c) \/ CheckAndAdd(c) \/ MayBeTrue(c)
        \/ \E e \in Expr : Evaluate(e) \/ EvaluateUpto(e)
        \/ Satisfiable

Spec == Init /\ [][Next]_vars
-----------------------------------------------------------------------------
PI == Sat(constraints)

\* The model has values for symbols of the path constraint only.
TypeOK == /\ constraints \subseteq Constraint
          /\ model \in Models /\ DOMAIN model \subseteq Syms(constraints)
          /\ dumping \in BOOLEAN /\ told \in SUBSET (Expr \X UNION {{e.val[a] : a \in Assignment} : e \in Expr})
          /\ answer.call \in {"none", "add", "check_and_add", "may_be_true", "satisfiable",
                              "evaluate", "evaluate_upto"}

\* The model never contradicts a feasible path constraint: every value in it, all
\* of them together, is part of a solution.  This is what makes the cache sound.
ModelExtends == PI # {} => Completions(model) \cap PI # {}

\* satisfiable() is exact but for timeouts, although it may answer from the model.
SatisfiableExact ==
  answer.call = "satisfiable" /\ answer.res # "UNKNOWN" => (answer.res = "SAT" <=> PI # {})

\* On a feasible path, asking about a slice, or the model only, is asking about the
\* whole path constraint.
CheckExact ==
  answer.call \in {"check_and_add", "may_be_true"} /\ answer.res # "UNKNOWN"
    /\ Sat(answer.pi) # {}
  => (answer.res = "SAT" <=> Sat(answer.pi) \cap answer.about.holds # {})

\* On a path that lazy solving let become infeasible, a satisfiable question about
\* the infeasible part is never evaluated: the result is empty, never a stale value.
InfeasibleHasNoValue ==
  answer.call = "evaluate" /\ Sat(Slice(answer.about.syms)) = {} => answer.res = {}

\* What evaluate returns on a feasible path is a value the expression takes in a
\* solution, and only a timeout makes it fail.
EvaluateIsSolution ==
  answer.call = "evaluate" /\ PI # {} =>
    /\ answer.res \subseteq {answer.about.val[a] : a \in PI}
    /\ answer.res = {} => z3.timeouts

\* evaluate_upto is complete: short of n values and with no timeout, no value the
\* expression takes on a feasible path is missing.  Never is one wrong.
UptoComplete ==
  answer.call = "evaluate_upto" /\ PI # {} =>
    LET all == {answer.about.val[a] : a \in PI}
    IN /\ answer.res \subseteq all
       /\ ~z3.timeouts /\ Cardinality(answer.res) < answer.n => answer.res = all

\* State::dump prints argv, symbols and files one evaluate at a time: together they
\* are one input of the path.  Where Z3 leaves symbols out of its models and the builder cannot
\* see that they do not matter, a later evaluate may change the model.
DumpConsistent ==
  PI # {} /\ (z3.folds = Constraint \/ ~z3.omits) =>
    \E a \in PI : \A t \in told : t[1].val[a] = t[2]
=============================================================================
