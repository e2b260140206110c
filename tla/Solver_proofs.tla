---------------------------- MODULE Solver_proofs ----------------------------
(***************************************************************************)
(* The solver's answers are the path constraint's, for every set of        *)
(* symbols, constraints and expressions: asking Z3 about a slice, or no    *)
(* Z3 at all, changes no answer.                                           *)
(***************************************************************************)
EXTENDS Solver, TLAPS

-----------------------------------------------------------------------------
(***************************************************************************)
(* Slices.  Deps is the least set of symbols that no constraint crosses.   *)
(***************************************************************************)
Closed(C, T) == \A c \in C : c.syms \cap T # {} => c.syms \subseteq T

LEMMA DepsProperties ==
  ASSUME NEW C \in SUBSET Constraint, NEW S \in SUBSET Sym
  PROVE  /\ S \subseteq Deps(C, S) /\ Deps(C, S) \subseteq Sym
         /\ Closed(C, Deps(C, S))
<1>1. S \subseteq Deps(C, S) /\ Deps(C, S) \subseteq Sym
  BY DEF Deps
<1>2. ASSUME NEW c \in C, NEW x \in c.syms, x \in Deps(C, S), NEW y \in c.syms
      PROVE  y \in Deps(C, S)
  <2>1. y \in Sym
    BY ConstraintAssumption
  <2>2. ASSUME NEW T \in SUBSET Sym, S \subseteq T,
               \A d \in C : d.syms \cap T # {} => d.syms \subseteq T
        PROVE  y \in T
    BY <1>2, <2>2 DEF Deps
  <2> QED BY <2>1, <2>2 DEF Deps
<1> QED BY <1>1, <1>2 DEF Closed

LEMMA SymsType == ASSUME NEW C \in SUBSET Constraint PROVE Syms(C) \subseteq Sym
BY ConstraintAssumption DEF Syms

\* Whether a constraint holds depends on its symbols only, and so does the value of
\* an expression.
LEMMA HoldsLocally ==
  ASSUME NEW c \in Constraint, NEW a \in Assignment, NEW b \in Assignment,
         \A x \in c.syms : a[x] = b[x], a \in c.holds
  PROVE  b \in c.holds
BY ConstraintAssumption DEF Agree

LEMMA ValueLocally ==
  ASSUME NEW e \in Expr, NEW a \in Assignment, NEW b \in Assignment,
         \A x \in e.syms : a[x] = b[x]
  PROVE  e.val[a] = e.val[b]
BY ExprAssumption DEF Agree

\* Two solutions of the two sides of a closed set of symbols make one of the whole.
Merge(T, a, b) == [x \in Sym |-> IF x \in T THEN a[x] ELSE b[x]]

LEMMA MergeSolves ==
  ASSUME NEW C \in SUBSET Constraint, NEW T \in SUBSET Sym, Closed(C, T),
         NEW a \in Assignment, NEW b \in Sat(C),
         \A c \in C : c.syms \cap T # {} => a \in c.holds
  PROVE  Merge(T, a, b) \in Sat(C)
<1> DEFINE ab == Merge(T, a, b)
<1>1. ab \in Assignment /\ b \in Assignment
  BY DEF Assignment, Merge, Sat
<1>2. /\ \A x \in T : ab[x] = a[x]
      /\ \A x \in Sym \ T : ab[x] = b[x]
  BY DEF Merge
<1>3. ASSUME NEW c \in C PROVE ab \in c.holds
  <2>0. c \in Constraint /\ c.syms \subseteq Sym
    BY ConstraintAssumption
  <2>1. CASE c.syms \cap T # {}
    <3>1. c.syms \subseteq T /\ a \in c.holds
      BY <2>1 DEF Closed
    <3> HIDE DEF ab
    <3> QED BY <1>1, <1>2, <2>0, <3>1, HoldsLocally
  <2>2. CASE c.syms \cap T = {}
    <3>1. b \in c.holds /\ \A x \in c.syms : b[x] = ab[x]
      BY <1>2, <2>0, <2>2 DEF Sat
    <3> HIDE DEF ab
    <3> QED BY <1>1, <2>0, <3>1, HoldsLocally
  <2> QED BY <2>1, <2>2
<1> QED BY <1>1, <1>3 DEF Sat

\* A solution of the slice of S, and one of the whole path constraint, make one of
\* both that is the slice's on the symbols linked to S.
LEMMA SliceSolves ==
  ASSUME constraints \subseteq Constraint, NEW S \in SUBSET Sym,
         NEW a \in Sat(Slice(S)), NEW b \in PI
  PROVE  \E ab \in PI : \A x \in Deps(constraints, S) : ab[x] = a[x]
<1> DEFINE T == Deps(constraints, S)
<1>1. T \subseteq Sym /\ Closed(constraints, T)
  BY DepsProperties
<1>2. a \in Assignment /\ \A c \in constraints : c.syms \cap T # {} => a \in c.holds
  BY DEF Sat, Slice
<1>3. \A x \in T : Merge(T, a, b)[x] = a[x]
  BY <1>1 DEF Merge
<1> HIDE DEF T
<1>4. Merge(T, a, b) \in PI
  BY <1>1, <1>2, MergeSolves DEF PI
<1> QED BY <1>3, <1>4 DEF T

\* The values of an expression in the slice's solutions are those in the path's.
LEMMA SliceValues ==
  ASSUME constraints \subseteq Constraint, NEW e \in Expr, PI # {}
  PROVE  {e.val[a] : a \in Sat(Slice(e.syms))} = {e.val[a] : a \in PI}
<1>0. e.syms \subseteq Sym
  BY ExprAssumption
<1>1. PI \subseteq Sat(Slice(e.syms))
  BY DEF PI, Sat, Slice
<1>2. ASSUME NEW a \in Sat(Slice(e.syms)) PROVE \E b \in PI : e.val[b] = e.val[a]
  <2>1. PICK b \in PI : \A x \in Deps(constraints, e.syms) : b[x] = a[x]
    BY <1>0, SliceSolves
  <2>2. \A x \in e.syms : b[x] = a[x]
    BY <1>0, <2>1, DepsProperties
  <2>3. a \in Assignment /\ b \in Assignment
    BY DEF Sat, PI
  <2> QED BY <2>2, <2>3, ValueLocally
<1> QED BY <1>1, <1>2

-----------------------------------------------------------------------------
(***************************************************************************)
(* Models.                                                                 *)
(***************************************************************************)
\* Model completion.
Completed(m) == [x \in Sym |-> IF x \in DOMAIN m THEN m[x] ELSE 0]

LEMMA ModelType ==
  ASSUME NEW m \in Models
  PROVE  DOMAIN m \subseteq Sym /\ \A x \in DOMAIN m : m[x] \in Bits
BY DEF Models

LEMMA CompletedType ==
  ASSUME NEW m \in Models
  PROVE  Completed(m) \in Completions(m)
<1>1. Completed(m) \in Assignment
  BY ModelType, BitsAssumption DEF Completed, Assignment
<1>2. Agree(Completed(m), m, DOMAIN m)
  BY ModelType DEF Completed, Agree
<1> QED BY <1>1, <1>2 DEF Completions

\* The values a new model has for the symbols it shares with the old one win.
LEMMA UpdatedType ==
  ASSUME model \in Models, NEW m \in Models
  PROVE  /\ Updated(m) \in Models
         /\ DOMAIN Updated(m) = DOMAIN model \cup DOMAIN m
         /\ \A x \in DOMAIN m : Updated(m)[x] = m[x]
         /\ \A x \in DOMAIN model \ DOMAIN m : Updated(m)[x] = model[x]
         /\ Completions(Updated(m)) \subseteq Completions(m)
<1> DEFINE u == Updated(m)
<1>1. /\ DOMAIN u = DOMAIN model \cup DOMAIN m
      /\ \A x \in DOMAIN m : u[x] = m[x]
      /\ \A x \in DOMAIN model \ DOMAIN m : u[x] = model[x]
  BY DEF Updated
<1>2. \A x \in DOMAIN u : u[x] \in Bits
  BY <1>1, ModelType
<1>3. u \in [DOMAIN u -> Bits] /\ DOMAIN u \in SUBSET Sym
  BY <1>1, <1>2, ModelType DEF Updated
<1> HIDE DEF u
<1>4. u \in Models
  BY <1>3 DEF Models
<1>5. Completions(u) \subseteq Completions(m)
  BY <1>1 DEF Completions, Agree
<1> QED BY <1>1, <1>4, <1>5 DEF u

Query(C) == Slice(Syms(C)) \cup C

\* What check_sat may come out with.
LEMMA CheckCases ==
  ASSUME NEW C, NEW r \in Check(C)
  PROVE  \/ r = <<"SAT", model>> /\ CachedTrue(C)
         \/ /\ \E m \in Z3Models(Query(C)) : r = <<"SAT", Updated(m)>>
            /\ ~CachedTrue(C) /\ Sat(Query(C)) # {}
         \/ r = <<"UNSAT", model>> /\ Sat(Query(C)) = {}
         \/ r = <<"UNKNOWN", model>> /\ z3.timeouts
<1>1. CASE CachedTrue(C)
  BY <1>1 DEF Check
<1>2. CASE ~CachedTrue(C)
  <2>1. PICK v \in Z3Check(Query(C)) :
          r \in IF v = "SAT" THEN {v} \X Populated(Query(C)) ELSE {<<v, model>>}
    BY <1>2 DEF Check, Query
  <2>2. CASE v = "SAT"
    <3>1. Sat(Query(C)) # {}
      BY <2>2 DEF Z3Check
    <3>2. \E m \in Z3Models(Query(C)) : r = <<"SAT", Updated(m)>>
      BY <2>1, <2>2 DEF Populated
    <3> QED BY <1>2, <3>1, <3>2
  <2>3. CASE v # "SAT"
    <3>1. r = <<v, model>> /\ v \in {"UNSAT", "UNKNOWN"}
      BY <2>1, <2>3 DEF Z3Check
    <3>2. v = "UNSAT" => Sat(Query(C)) = {}
      BY DEF Z3Check
    <3>3. v = "UNKNOWN" => z3.timeouts
      BY DEF Z3Check
    <3> QED BY <3>1, <3>2, <3>3
  <2> QED BY <2>2, <2>3
<1> QED BY <1>1, <1>2

\* A cached answer is right: the completions of the model are solutions.
LEMMA CachedSolves ==
  ASSUME NEW C, CachedTrue(C) PROVE Completions(model) \subseteq Sat(C)
BY DEF CachedTrue, Sat, Completions

LEMMA QuerySyms ==
  ASSUME constraints \subseteq Constraint, NEW C \in SUBSET Constraint
  PROVE  Syms(Query(C)) \subseteq Deps(constraints, Syms(C))
<1>1. Syms(C) \subseteq Sym
  BY SymsType
<1>2. /\ Syms(C) \subseteq Deps(constraints, Syms(C))
      /\ Closed(constraints, Deps(constraints, Syms(C)))
  BY <1>1, DepsProperties
<1>3. \A c \in Slice(Syms(C)) : c.syms \subseteq Deps(constraints, Syms(C))
  BY <1>2 DEF Closed, Slice
<1>4. \A c \in C : c.syms \subseteq Syms(C)
  BY DEF Syms
<1> QED BY <1>2, <1>3, <1>4 DEF Query, Syms

\* A question about constraints of the path asks about constraints of the path.
LEMMA QueryOfPath ==
  ASSUME NEW C \in SUBSET constraints
  PROVE  Query(C) \subseteq constraints /\ C \subseteq Query(C)
BY DEF Query, Slice

\* What a check leaves: a model of the symbols it had and those asked about, the
\* completions of which solve the question if Z3 was asked.
LEMMA CheckModel ==
  ASSUME constraints \subseteq Constraint, model \in Models,
         NEW C \in SUBSET Constraint, NEW r \in Check(C)
  PROVE  /\ r[2] \in Models
         /\ DOMAIN r[2] \subseteq DOMAIN model \cup Syms(Query(C))
         /\ r[1] # "SAT" => r[2] = model
         /\ r[1] = "SAT" => Completions(r[2]) \subseteq Sat(C)
<1>1. CASE \E m \in Z3Models(Query(C)) : r = <<"SAT", Updated(m)>>
  <2>1. PICK m \in Z3Models(Query(C)) : r = <<"SAT", Updated(m)>>
    BY <1>1
  <2>2. /\ m \in Models /\ DOMAIN m \subseteq Syms(Query(C))
        /\ Completions(m) \subseteq Sat(Query(C))
    BY DEF Z3Models
  <2>3. Sat(Query(C)) \subseteq Sat(C)
    BY DEF Query, Sat
  <2> QED BY <2>1, <2>2, <2>3, UpdatedType
<1>2. CASE r = <<"SAT", model>> /\ CachedTrue(C)
  BY <1>2, CachedSolves
<1>3. CASE r \in {<<"UNSAT", model>>, <<"UNKNOWN", model>>}
  BY <1>3
<1> QED BY <1>1, <1>2, <1>3, CheckCases

-----------------------------------------------------------------------------
(***************************************************************************)
(* The inductive invariant.  ModelExtends is not enough: on a path that is *)
(* infeasible it says nothing, although the model still answers questions  *)
(* about the parts of the path that can be satisfied.                      *)
(***************************************************************************)
\* The model satisfies every constraint whose symbols it all has, on infeasible paths too.
ModelSolves ==
  \A c \in constraints :
    c.syms # {} /\ c.syms \subseteq DOMAIN model => Completions(model) \subseteq c.holds

\* During a dump every evaluate is answered from the model that satisfiable left.
DumpFromModel ==
  /\ ~dumping => told = {}
  /\ dumping /\ (z3.folds = Constraint \/ ~z3.omits) =>
       CachedTrue(constraints) /\ \A t \in told : t[2] = Value(t[1], model)

IInv == TypeOK /\ ModelExtends /\ ModelSolves /\ DumpFromModel

LEMMA IInvInit == Init => IInv
<1> SUFFICES ASSUME Init PROVE IInv
  OBVIOUS
<1>1. constraints = {} /\ model = [x \in {} |-> 0] /\ dumping = FALSE /\ told = {}
      /\ answer.call = "none"
  BY DEF Init
<1>2. model \in Models /\ DOMAIN model = {}
  <2>1. model \in [{} -> Bits]
    BY <1>1
  <2> QED BY <1>1, <2>1 DEF Models
<1>3. TypeOK
  BY <1>1, <1>2 DEF TypeOK
<1>4. ModelExtends
  <2>1. PI = Assignment
    BY <1>1 DEF PI, Sat
  <2>2. Completed(model) \in Completions(model) /\ Completions(model) \subseteq Assignment
    BY <1>2, CompletedType DEF Completions
  <2> QED BY <2>1, <2>2 DEF ModelExtends
<1>5. ModelSolves /\ DumpFromModel
  BY <1>1 DEF ModelSolves, DumpFromModel
<1> QED BY <1>3, <1>4, <1>5 DEF IInv

\* A model that comes from a question that may be added to a feasible path extends to
\* a solution of both.
LEMMA CheckExtends ==
  ASSUME IInv, NEW C \in SUBSET Constraint, NEW r \in Check(C), r[1] = "SAT", PI # {}
  PROVE  Completions(r[2]) \cap PI \cap Sat(C) # {}
<1>1. /\ constraints \subseteq Constraint /\ model \in Models
      /\ Completions(r[2]) \subseteq Sat(C)
  BY CheckModel DEF IInv, TypeOK
<1>2. PICK a \in PI : a \in Completions(model)
  BY DEF IInv, ModelExtends
<1>3. CASE r[2] = model
  BY <1>1, <1>2, <1>3
<1>4. CASE \E m \in Z3Models(Query(C)) : r[2] = Updated(m)
  <2> DEFINE T == Deps(constraints, Syms(C))
  <2>1. PICK m \in Z3Models(Query(C)) : r[2] = Updated(m)
    BY <1>4
  <2>2. /\ m \in Models /\ DOMAIN m \subseteq T
        /\ Completions(m) \subseteq Sat(Query(C))
    BY <1>1, QuerySyms DEF Z3Models
  <2>3. a \in Assignment /\ \A y \in DOMAIN model : a[y] = model[y]
    BY <1>2 DEF Completions, Agree
  <2> DEFINE x == [y \in Sym |-> IF y \in DOMAIN m THEN m[y] ELSE a[y]]
  <2>4. x \in Assignment
    BY <2>2, <2>3, ModelType DEF Assignment
  <2>5. x \in Completions(Updated(m))
    <3>1. \A y \in DOMAIN Updated(m) : x[y] = Updated(m)[y]
      BY <1>1, <2>2, <2>3, ModelType, UpdatedType
    <3> QED BY <2>4, <3>1 DEF Completions, Agree
  <2>6. x \in Sat(Query(C))
    BY <1>1, <2>2, <2>5, UpdatedType
  <2>7. ASSUME NEW c \in constraints PROVE x \in c.holds
    <3>1. CASE c.syms \cap T # {}
      BY <2>6, <3>1 DEF Sat, Query, Slice
    <3>2. CASE c.syms \cap T = {}
      <4>1. c \in Constraint /\ c.syms \subseteq Sym
        BY <1>1, ConstraintAssumption
      <4>2. a \in c.holds
        BY DEF PI, Sat
      <4>3. \A y \in c.syms : a[y] = x[y]
        BY <2>2, <3>2, <4>1
      <4> HIDE DEF x
      <4> QED BY <2>3, <2>4, <4>1, <4>2, <4>3, HoldsLocally
    <3> QED BY <3>1, <3>2
  <2>8. x \in PI
    BY <2>4, <2>7 DEF PI, Sat
  <2> QED BY <1>1, <2>1, <2>5, <2>8
<1> QED BY <1>3, <1>4, CheckCases

\* What a check leaves solves what it has all the symbols of.
LEMMA CheckLeavesSolved ==
  ASSUME IInv, NEW C \in SUBSET Constraint, NEW r \in Check(C),
         NEW c \in constraints \cup C, c \in C => c \in constraints \/ r[1] = "SAT",
         c.syms # {}, c.syms \subseteq DOMAIN r[2]
  PROVE  Completions(r[2]) \subseteq c.holds
<1>1. /\ constraints \subseteq Constraint /\ model \in Models
      /\ r[1] = "SAT" => Completions(r[2]) \subseteq Sat(C)
  BY CheckModel DEF IInv, TypeOK
<1>2. CASE r[1] = "SAT" /\ c \in C
  BY <1>1, <1>2 DEF Sat
<1>3. CASE r[2] = model /\ c \in constraints
  BY <1>3 DEF IInv, ModelSolves
<1>4. CASE c \in constraints /\ \E m \in Z3Models(Query(C)) : r[2] = Updated(m)
  <2>1. PICK m \in Z3Models(Query(C)) : r[2] = Updated(m)
    BY <1>4
  <2>2. /\ m \in Models /\ DOMAIN m \subseteq Deps(constraints, Syms(C))
        /\ Completions(m) \subseteq Sat(Query(C))
    BY <1>1, QuerySyms DEF Z3Models
  <2>3. CASE c \in Query(C)
    BY <1>1, <2>1, <2>2, <2>3, UpdatedType DEF Sat
  <2>4. CASE c \notin Query(C)
    <3>1. c.syms \cap Deps(constraints, Syms(C)) = {}
      BY <1>4, <2>4 DEF Query, Slice
    <3>2. c.syms \subseteq DOMAIN model \ DOMAIN m
      BY <1>1, <2>1, <2>2, <3>1, UpdatedType
    <3>3. Completed(model) \in c.holds /\ Completed(model) \in Assignment
      BY <1>1, <1>4, <3>2, CompletedType DEF IInv, ModelSolves, Completions
    <3>4. ASSUME NEW x \in Completions(Updated(m)) PROVE x \in c.holds
      <4>1. x \in Assignment /\ \A y \in DOMAIN Updated(m) : x[y] = Updated(m)[y]
        BY DEF Completions, Agree
      <4>2. \A y \in c.syms : Completed(model)[y] = x[y]
        BY <1>1, <2>2, <3>2, <4>1, UpdatedType, ModelType DEF Completed
      <4> QED BY <1>1, <1>4, <3>3, <4>1, <4>2, HoldsLocally
    <3> QED BY <2>1, <3>4
  <2> QED BY <2>3, <2>4
<1> QED BY <1>2, <1>3, <1>4, CheckCases

\* What a step must do to the path constraint and the model.
PathInv == /\ constraints \subseteq Constraint
           /\ model \in Models /\ DOMAIN model \subseteq Syms(constraints)
           /\ ModelExtends /\ ModelSolves

\* A constraint with no symbols that holds is not recorded.
Recorded(c) == ~(c.holds = Assignment /\ c.syms = {})

LEMMA AddedPI ==
  ASSUME NEW c \in Constraint,
         constraints' = IF Recorded(c) THEN constraints \cup {c} ELSE constraints
  PROVE  PI' = PI \cap c.holds
<1>1. c.holds \subseteq Assignment
  BY ConstraintAssumption
<1> QED BY <1>1 DEF PI, Sat, Recorded

LEMMA AddKeepsPathInv ==
  ASSUME IInv, NEW c \in Constraint,
         constraints' = IF Recorded(c) THEN constraints \cup {c} ELSE constraints,
         model' = [x \in DOMAIN model \ Deps(constraints', c.syms) |-> model[x]]
  PROVE  PathInv'
<1> DEFINE T == Deps(constraints', c.syms)
<1>1. /\ constraints \subseteq Constraint /\ constraints' \subseteq Constraint
      /\ model \in Models /\ DOMAIN model \subseteq Syms(constraints)
  BY DEF IInv, TypeOK
<1>2. /\ T \subseteq Sym /\ c.syms \subseteq T /\ Closed(constraints', T)
  BY <1>1, ConstraintAssumption, DepsProperties
<1> HIDE DEF T
<1>3. /\ DOMAIN model' = DOMAIN model \ T
      /\ \A x \in DOMAIN model' : model'[x] = model[x]
  BY DEF T
<1>4. model' \in Models
  <2>1. model' \in [DOMAIN model \ T -> Bits] /\ DOMAIN model \ T \in SUBSET Sym
    BY <1>1, ModelType DEF T
  <2> QED BY <2>1 DEF Models
<1>5. DOMAIN model' \subseteq Syms(constraints')
  BY <1>1, <1>3 DEF Syms
<1>6. Completions(model) \subseteq Completions(model')
  BY <1>3 DEF Completions, Agree
<1>7. ModelExtends'
  <2> SUFFICES ASSUME NEW b \in PI' PROVE Completions(model') \cap PI' # {}
    BY DEF ModelExtends
  <2>1. b \in PI /\ PI' = Sat(constraints')
    BY AddedPI DEF PI
  <2>2. PICK a \in PI : a \in Completions(model)
    BY <2>1 DEF IInv, ModelExtends
  <2> DEFINE ba == Merge(T, b, a)
  <2>3. a \in Assignment /\ b \in Assignment /\ b \in c.holds
    BY <2>1, <2>2, AddedPI DEF PI, Sat
  <2>4. ba \in Sat(constraints)
    <3>1. Closed(constraints, T)
      BY <1>2 DEF Closed
    <3>2. \A d \in constraints : b \in d.holds
      BY <2>1 DEF PI, Sat
    <3>3. a \in Sat(constraints)
      BY <2>2 DEF PI
    <3> QED BY <1>1, <1>2, <2>3, <3>1, <3>2, <3>3, MergeSolves
  <2>5. ba \in c.holds
    <3>1. ba \in Assignment /\ \A x \in c.syms : b[x] = ba[x]
      BY <1>2, <2>3 DEF Merge, Assignment
    <3> HIDE DEF ba
    <3> QED BY <2>3, <3>1, HoldsLocally
  <2>6. ba \in Completions(model')
    <3>1. \A x \in DOMAIN model' : ba[x] = model'[x]
      BY <1>1, <1>3, <2>2, ModelType DEF Merge, Completions, Agree
    <3> QED BY <2>4, <3>1 DEF Completions, Agree, Sat
  <2>7. ba \in PI'
    BY <2>4, <2>5, AddedPI DEF PI
  <2> QED BY <2>6, <2>7
<1>8. ModelSolves'
  <2> SUFFICES ASSUME NEW d \in constraints', d.syms # {}, d.syms \subseteq DOMAIN model',
                      NEW x \in Completions(model')
               PROVE  x \in d.holds
    BY DEF ModelSolves
  <2>1. d # c /\ d \in constraints /\ d \in Constraint
    BY <1>1, <1>2, <1>3
  <2>2. Completed(model) \in d.holds /\ Completed(model) \in Assignment
    BY <1>1, <1>3, <2>1, CompletedType DEF IInv, ModelSolves, Completions
  <2>3. x \in Assignment /\ \A y \in d.syms : x[y] = model[y]
    BY <1>3 DEF Completions, Agree
  <2>4. \A y \in d.syms : Completed(model)[y] = x[y]
    BY <1>1, <1>3, <2>3, ModelType DEF Completed
  <2> QED BY <2>1, <2>2, <2>3, <2>4, HoldsLocally
<1> QED BY <1>1, <1>4, <1>5, <1>7, <1>8 DEF PathInv

LEMMA CheckAndAddKeepsPathInv ==
  ASSUME IInv, NEW c \in Constraint, NEW r \in Check({c}), model' = r[2],
         constraints' = IF r[1] = "SAT" /\ Recorded(c) THEN constraints \cup {c} ELSE constraints
  PROVE  PathInv'
<1>1. /\ constraints \subseteq Constraint /\ constraints' \subseteq Constraint
      /\ model \in Models /\ DOMAIN model \subseteq Syms(constraints)
      /\ {c} \in SUBSET Constraint
  BY DEF IInv, TypeOK
<1>2. /\ r[2] \in Models
      /\ DOMAIN r[2] \subseteq DOMAIN model \cup Syms(Query({c}))
      /\ r[1] # "SAT" => r[2] = model
      /\ r[1] = "SAT" => Completions(r[2]) \subseteq Sat({c})
  BY <1>1, CheckModel
<1>3. CASE r[1] # "SAT"
  <2>1. constraints' = constraints /\ model' = model /\ PI' = PI
    BY <1>2, <1>3 DEF PI
  <2> QED BY <1>1, <2>1 DEF PathInv, IInv, ModelExtends, ModelSolves
<1>4. CASE r[1] = "SAT"
  <2>1. DOMAIN model' \subseteq Syms(constraints')
    <3>1. Syms(Query({c})) \subseteq Syms(constraints')
      BY <1>4 DEF Query, Syms, Slice, Recorded
    <3>2. Syms(constraints) \subseteq Syms(constraints')
      BY <1>4 DEF Syms
    <3> QED BY <1>1, <1>2, <3>1, <3>2
  <2>2. ModelExtends'
    <3> SUFFICES ASSUME PI' # {} PROVE Completions(model') \cap PI' # {}
      BY DEF ModelExtends
    <3>1. PI' = PI \cap c.holds
      BY <1>4, AddedPI
    <3>2. Completions(model') \cap PI \cap Sat({c}) # {}
      BY <1>1, <1>4, <3>1, CheckExtends
    <3> QED BY <3>1, <3>2 DEF Sat
  <2>3. ModelSolves'
    <3> SUFFICES ASSUME NEW d \in constraints', d.syms # {}, d.syms \subseteq DOMAIN model'
                 PROVE  Completions(model') \subseteq d.holds
      BY DEF ModelSolves
    <3>1. d \in constraints \/ d \in {c}
      BY <1>4
    <3>2. d.syms \subseteq DOMAIN r[2]
      OBVIOUS
    <3>3. Completions(r[2]) \subseteq d.holds
      BY <1>1, <1>4, <3>1, <3>2, CheckLeavesSolved
    <3> QED BY <3>3
  <2> QED BY <1>1, <1>2, <2>1, <2>2, <2>3 DEF PathInv
<1> QED BY <1>3, <1>4

LEMMA AskingKeepsPathInv ==
  ASSUME IInv, constraints' = constraints, NEW C \in SUBSET constraints,
         NEW r \in Check(C), model' = r[2]
  PROVE  PathInv'
<1>1. /\ constraints \subseteq Constraint /\ C \in SUBSET Constraint
      /\ model \in Models /\ DOMAIN model \subseteq Syms(constraints)
  BY DEF IInv, TypeOK
<1>2. /\ r[2] \in Models
      /\ DOMAIN r[2] \subseteq DOMAIN model \cup Syms(Query(C))
      /\ r[1] # "SAT" => r[2] = model
  BY <1>1, CheckModel
<1>3. DOMAIN model' \subseteq Syms(constraints')
  <2>1. Syms(Query(C)) \subseteq Syms(constraints)
    BY QueryOfPath DEF Syms
  <2> QED BY <1>1, <1>2, <2>1
<1>4. PI' = PI
  BY DEF PI
<1>5. ModelExtends'
  <2>1. CASE r[1] = "SAT"
    BY <1>1, <1>4, <2>1, CheckExtends DEF ModelExtends
  <2>2. CASE r[1] # "SAT"
    BY <1>2, <1>4, <2>2 DEF IInv, ModelExtends
  <2> QED BY <2>1, <2>2
<1>6. ModelSolves'
  <2> SUFFICES ASSUME NEW d \in constraints, d.syms # {}, d.syms \subseteq DOMAIN model'
               PROVE  Completions(model') \subseteq d.holds
    BY DEF ModelSolves
  <2>1. d.syms \subseteq DOMAIN r[2]
    OBVIOUS
  <2>2. Completions(r[2]) \subseteq d.holds
    BY <1>1, <2>1, CheckLeavesSolved
  <2> QED BY <2>2
<1> QED BY <1>1, <1>2, <1>3, <1>5, <1>6 DEF PathInv

ToldType == Expr \X UNION {{e.val[a] : a \in Assignment} : e \in Expr}

LEMMA ValueType ==
  ASSUME NEW e \in Expr, NEW m \in Models
  PROVE  <<e, Value(e, m)>> \in ToldType
<1>1. Completed(m) \in Assignment /\ Value(e, m) = e.val[Completed(m)]
  BY CompletedType DEF Completions, Value, Completed
<1> QED BY <1>1 DEF ToldType

\* The question evaluate and evaluate_upto ask is about constraints of the path.
LEMMA SliceOfPath == \A S : Slice(S) \in SUBSET constraints
BY DEF Slice

\* Once the path constraint is cached, so is every question about a part of it.
LEMMA CachedPart ==
  ASSUME NEW C \in SUBSET constraints, CachedTrue(constraints), NEW r \in Check(C)
  PROVE  r = <<"SAT", model>>
BY DEF CachedTrue, Check

LEMMA EvaluateFromModel ==
  ASSUME IInv, NEW e \in Expr, Evaluate(e)
  PROVE  TypeOK' /\ PathInv' /\ DumpFromModel'
<1> DEFINE known == Deps(constraints, e.syms) \subseteq DOMAIN model
<1>1. PICK r \in IF known THEN {<<"SAT", model>>} ELSE Check(Slice(e.syms)) :
        /\ model' = r[2]
        /\ \/ /\ r[1] = "SAT"
              /\ answer' = [call |-> "evaluate", about |-> e, res |-> {Value(e, r[2])}]
              /\ Tell(e, r[2])
           \/ /\ r[1] # "SAT"
              /\ answer' = [call |-> "evaluate", about |-> e, res |-> {}]
              /\ NoDump
        /\ UNCHANGED <<z3, constraints>>
  BY DEF Evaluate
<1> HIDE DEF known
<1>2. PathInv'
  <2>1. CASE known
    <3>1. model' = model /\ constraints' = constraints /\ PI' = PI
      BY <1>1, <2>1 DEF PI
    <3> QED BY <3>1 DEF IInv, TypeOK, PathInv, ModelExtends, ModelSolves
  <2>2. CASE ~known
    BY <1>1, <2>2, SliceOfPath, AskingKeepsPathInv
  <2> QED BY <2>1, <2>2
<1>3. answer'.call = "evaluate"
  BY <1>1
<1>4. dumping' \in BOOLEAN /\ told' \in SUBSET ToldType
  <2>1. <<e, Value(e, r[2])>> \in ToldType
    BY <1>1, <1>2, ValueType DEF PathInv
  <2> QED BY <1>1, <2>1 DEF Tell, NoDump, IInv, TypeOK, ToldType
<1>5. DumpFromModel'
  <2>1. ~dumping' => told' = {}
    BY <1>1 DEF Tell, NoDump, IInv, DumpFromModel
  <2>2. ASSUME dumping', z3.folds = Constraint \/ ~z3.omits
        PROVE  CachedTrue(constraints)' /\ \A t \in told' : t[2] = Value(t[1], model')
    <3>1. dumping /\ Tell(e, r[2])
      BY <1>1, <2>2 DEF NoDump, Tell
    <3>2. CachedTrue(constraints) /\ \A t \in told : t[2] = Value(t[1], model)
      BY <2>2, <3>1 DEF IInv, DumpFromModel
    <3>3. r = <<"SAT", model>>
      BY <1>1, <3>2, SliceOfPath, CachedPart
    <3>4. model' = model /\ told' = told \cup {<<e, Value(e, model)>>}
      BY <1>1, <3>1, <3>3 DEF Tell
    <3> QED BY <1>1, <3>2, <3>4 DEF CachedTrue
  <2> QED BY <1>1, <2>1, <2>2 DEF DumpFromModel
<1> QED BY <1>2, <1>3, <1>4, <1>5 DEF TypeOK, PathInv, ToldType

LEMMA SatisfiableCaches ==
  ASSUME IInv, Satisfiable
  PROVE  TypeOK' /\ PathInv' /\ DumpFromModel'
<1>1. PICK r \in Check(constraints) :
        /\ model' = r[2]
        /\ answer' = [call |-> "satisfiable", res |-> r[1]]
        /\ dumping' = (r[1] = "SAT") /\ told' = {}
        /\ UNCHANGED <<z3, constraints>>
  BY DEF Satisfiable
<1>2. PathInv'
  BY <1>1, AskingKeepsPathInv
<1>3. ASSUME dumping', z3.folds = Constraint \/ ~z3.omits
      PROVE  CachedTrue(constraints)'
  <2>1. constraints \subseteq Constraint /\ model \in Models /\ r[1] = "SAT"
    BY <1>1, <1>3 DEF IInv, TypeOK
  <2>2. Completions(model') \subseteq Sat(constraints)
    BY <1>1, <2>1, CheckModel
  <2>3. ASSUME NEW c \in constraints
        PROVE  c.syms \subseteq DOMAIN model' \/ c \in z3.folds
    <3>1. CASE r = <<"SAT", model>> /\ CachedTrue(constraints)
      BY <1>1, <3>1 DEF CachedTrue
    <3>2. CASE \E m \in Z3Models(Query(constraints)) : r = <<"SAT", Updated(m)>>
      <4>1. PICK m \in Z3Models(Query(constraints)) : r = <<"SAT", Updated(m)>>
        BY <3>2
      <4>2. m \in Models /\ (~z3.omits => DOMAIN m = Syms(Query(constraints)))
        BY DEF Z3Models
      <4>3. c.syms \subseteq Syms(Query(constraints))
        BY DEF Query, Syms
      <4> QED BY <1>1, <1>3, <2>1, <4>1, <4>2, <4>3, UpdatedType
    <3> QED BY <2>1, <3>1, <3>2, CheckCases
  <2> QED BY <1>1, <2>2, <2>3 DEF CachedTrue, Sat
<1>4. DumpFromModel'
  BY <1>1, <1>3 DEF DumpFromModel
<1>5. dumping' \in BOOLEAN /\ told' \in SUBSET ToldType /\ answer'.call = "satisfiable"
  BY <1>1
<1> QED BY <1>2, <1>4, <1>5 DEF TypeOK, PathInv, ToldType

LEMMA IInvStep == IInv /\ [Next]_vars => IInv'
<1> SUFFICES ASSUME IInv, [Next]_vars PROVE IInv'
  OBVIOUS
<1>a. ASSUME PathInv', TypeOK', DumpFromModel' PROVE IInv'
  BY <1>a DEF IInv, PathInv
<1>b. ASSUME PathInv', NoDump, answer'.call \in {"add", "check_and_add", "may_be_true",
                                                  "evaluate_upto"}
      PROVE  IInv'
  BY <1>b DEF IInv, PathInv, TypeOK, NoDump, DumpFromModel
<1>1. ASSUME NEW c \in Constraint, AddConstraint(c) PROVE IInv'
  <2>1. PathInv'
    BY <1>1, AddKeepsPathInv DEF AddConstraint, Recorded
  <2> QED BY <1>1, <1>b, <2>1 DEF AddConstraint
<1>2. ASSUME NEW c \in Constraint, CheckAndAdd(c) PROVE IInv'
  <2>1. PICK r \in Check({c}) :
          /\ model' = r[2]
          /\ constraints' = IF r[1] = "SAT" /\ Recorded(c) THEN constraints \cup {c}
                            ELSE constraints
          /\ NoDump /\ answer'.call = "check_and_add"
    BY <1>2 DEF CheckAndAdd, Recorded
  <2>2. PathInv'
    BY <2>1, CheckAndAddKeepsPathInv
  <2> QED BY <1>b, <2>1, <2>2
<1>3. ASSUME NEW c \in Constraint, MayBeTrue(c) PROVE IInv'
  <2>1. /\ model' = model /\ constraints' = constraints /\ PI' = PI
        /\ NoDump /\ answer'.call = "may_be_true"
    BY <1>3 DEF MayBeTrue, PI
  <2>2. PathInv'
    BY <2>1 DEF IInv, TypeOK, PathInv, ModelExtends, ModelSolves
  <2> QED BY <1>b, <2>1, <2>2
<1>4. ASSUME NEW e \in Expr, Evaluate(e) PROVE IInv'
  BY <1>4, <1>a, EvaluateFromModel
<1>5. ASSUME NEW e \in Expr, EvaluateUpto(e) PROVE IInv'
  <2>1. PICK r \in Check(Slice(e.syms)) : model' = r[2]
    BY <1>5 DEF EvaluateUpto
  <2>2. constraints' = constraints /\ NoDump /\ answer'.call = "evaluate_upto"
    BY <1>5 DEF EvaluateUpto
  <2>3. PathInv'
    BY <2>1, <2>2, SliceOfPath, AskingKeepsPathInv
  <2> QED BY <1>b, <2>2, <2>3
<1>6. CASE Satisfiable
  BY <1>6, <1>a, SatisfiableCaches
<1>7. CASE UNCHANGED vars
  <2>1. UNCHANGED <<z3, constraints, model, answer, dumping, told>> /\ PI' = PI
    BY <1>7 DEF vars, PI
  <2> QED BY <2>1 DEF IInv, TypeOK, ModelExtends, ModelSolves, DumpFromModel, CachedTrue
<1> QED BY <1>1, <1>2, <1>3, <1>4, <1>5, <1>6, <1>7 DEF Next

LEMMA IInvAlways == Spec => []IInv
BY IInvInit, IInvStep, PTL DEF Spec

\* The path constraint and the model keep their types, and the model has values for
\* symbols of the path constraint only (Solver.cpp, ConstraintManager.cpp).
THEOREM TypeCorrect == Spec => []TypeOK
<1>1. IInv => TypeOK
  BY DEF IInv
<1> QED BY <1>1, IInvAlways, PTL

\* The model m_model never contradicts a feasible path constraint, whatever was added,
\* asked or evaluated before: Solver::add drops what it has to, and the models Z3 gives
\* of slices fit together.
THEOREM ModelIsPartOfSolution == Spec => []ModelExtends
<1>1. IInv => ModelExtends
  BY DEF IInv
<1> QED BY <1>1, IInvAlways, PTL

-----------------------------------------------------------------------------
(***************************************************************************)
(* The answers.  Each is about the last call, so a step either makes it    *)
(* true, or leaves it, or makes a call it is not about.                    *)
(***************************************************************************)
LEMMA PathTypes ==
  IInv => /\ constraints \subseteq Constraint /\ model \in Models
          /\ Completions(model) # {}
BY CompletedType DEF IInv, TypeOK

LEMMA SatisfiableStep == IInv /\ SatisfiableExact /\ [Next]_vars => SatisfiableExact'
<1> SUFFICES ASSUME IInv, SatisfiableExact, [Next]_vars PROVE SatisfiableExact'
  OBVIOUS
<1>1. CASE Satisfiable
  <2>1. PICK r \in Check(constraints) :
          /\ answer' = [call |-> "satisfiable", res |-> r[1]]
          /\ constraints' = constraints
    BY <1>1 DEF Satisfiable
  <2>2. Query(constraints) = constraints /\ PI = Sat(constraints) /\ PI' = PI
    BY <2>1, QueryOfPath DEF PI
  <2>3. CachedTrue(constraints) => PI # {}
    BY <2>2, PathTypes, CachedSolves
  <2>4. r[1] # "UNKNOWN" => (r[1] = "SAT" <=> PI # {})
    BY <2>2, <2>3, CheckCases
  <2> QED BY <2>1, <2>2, <2>4 DEF SatisfiableExact
<1>2. CASE UNCHANGED vars
  BY <1>2 DEF vars, SatisfiableExact, PI
<1>3. CASE answer'.call # "satisfiable"
  BY <1>3 DEF SatisfiableExact
<1>4. ASSUME NEW c \in Constraint, AddConstraint(c) \/ CheckAndAdd(c) \/ MayBeTrue(c)
      PROVE  answer'.call # "satisfiable"
  BY <1>4 DEF AddConstraint, CheckAndAdd, MayBeTrue
<1>5. ASSUME NEW e \in Expr, Evaluate(e) \/ EvaluateUpto(e)
      PROVE  answer'.call # "satisfiable"
  BY <1>5 DEF Evaluate, EvaluateUpto
<1> QED BY <1>1, <1>2, <1>3, <1>4, <1>5 DEF Next

\* satisfiable (Solver.cpp) is exact whenever Z3 answers, from the model or not.
THEOREM SatisfiableIsExact == Spec => []SatisfiableExact
<1>1. Init => SatisfiableExact
  BY DEF Init, SatisfiableExact
<1> QED BY <1>1, IInvAlways, SatisfiableStep, PTL DEF Spec

\* Asking about a slice is asking about the path.
LEMMA SlicedQuestion ==
  ASSUME IInv, PI # {}, NEW c \in Constraint, NEW r \in Check({c}), r[1] # "UNKNOWN"
  PROVE  r[1] = "SAT" <=> PI \cap c.holds # {}
<1>1. /\ constraints \subseteq Constraint /\ {c} \in SUBSET Constraint
      /\ Syms({c}) = c.syms /\ c.syms \subseteq Sym
  BY PathTypes, ConstraintAssumption DEF Syms
<1>2. CASE CachedTrue({c}) /\ r[1] = "SAT"
  BY <1>2, CachedSolves DEF IInv, ModelExtends, Sat
<1>3. ASSUME NEW a \in Sat(Query({c})) PROVE PI \cap c.holds # {}
  <2>1. a \in Sat(Slice(c.syms)) /\ a \in c.holds /\ a \in Assignment
    BY <1>1 DEF Query, Sat
  <2>2. PICK b \in PI : \A x \in Deps(constraints, c.syms) : b[x] = a[x]
    BY <1>1, <2>1, SliceSolves
  <2>3. \A x \in c.syms : a[x] = b[x]
    BY <1>1, <2>2, DepsProperties
  <2>4. b \in Assignment
    BY DEF PI, Sat
  <2> QED BY <2>1, <2>2, <2>3, <2>4, HoldsLocally
<1>4. PI \cap c.holds \subseteq Sat(Query({c}))
  BY DEF Query, Slice, PI, Sat
<1> QED BY <1>2, <1>3, <1>4, CheckCases

LEMMA CheckStep == IInv /\ CheckExact /\ [Next]_vars => CheckExact'
<1> SUFFICES ASSUME IInv, CheckExact, [Next]_vars PROVE CheckExact'
  OBVIOUS
<1>1. ASSUME NEW c \in Constraint, CheckAndAdd(c) \/ MayBeTrue(c) PROVE CheckExact'
  <2>1. PICK r \in Check({c}) :
          answer'.about = c /\ answer'.pi = constraints /\ answer'.res = r[1]
    BY <1>1 DEF CheckAndAdd, MayBeTrue
  <2> QED BY <2>1, SlicedQuestion DEF CheckExact, PI
<1>2. CASE UNCHANGED vars
  BY <1>2 DEF vars, CheckExact
<1>3. CASE answer'.call \notin {"check_and_add", "may_be_true"}
  BY <1>3 DEF CheckExact
<1>4. ASSUME NEW c \in Constraint, AddConstraint(c)
      PROVE  answer'.call \notin {"check_and_add", "may_be_true"}
  BY <1>4 DEF AddConstraint
<1>5. ASSUME NEW e \in Expr, Evaluate(e) \/ EvaluateUpto(e)
      PROVE  answer'.call \notin {"check_and_add", "may_be_true"}
  BY <1>5 DEF Evaluate, EvaluateUpto
<1>6. CASE Satisfiable
  BY <1>3, <1>6 DEF Satisfiable
<1> QED BY <1>1, <1>2, <1>3, <1>4, <1>5, <1>6 DEF Next

\* check_sat_and_add_if_sat and may_be_true (Solver.cpp), which ask Z3 about a slice,
\* answer for the whole path constraint as long as it is feasible.
THEOREM SlicesAreEnough == Spec => []CheckExact
<1>1. Init => CheckExact
  BY DEF Init, CheckExact
<1> QED BY <1>1, IInvAlways, CheckStep, PTL DEF Spec

\* The model evaluate answers from solves the slice of the expression.
LEMMA EvaluateModel ==
  ASSUME IInv, NEW e \in Expr,
         NEW r \in IF Deps(constraints, e.syms) \subseteq DOMAIN model THEN {<<"SAT", model>>}
                   ELSE Check(Slice(e.syms)),
         r[1] = "SAT"
  PROVE  /\ Completed(r[2]) \in Sat(Slice(e.syms))
         /\ Value(e, r[2]) = e.val[Completed(r[2])]
<1>1. constraints \subseteq Constraint /\ model \in Models /\ e.syms \subseteq Sym
  BY PathTypes, ExprAssumption
<1>2. Value(e, r[2]) = e.val[Completed(r[2])]
  BY DEF Value, Completed
<1>3. CASE Deps(constraints, e.syms) \subseteq DOMAIN model
  <2>1. r[2] = model
    BY <1>3
  <2>2. \A c \in Slice(e.syms) : c.syms # {} /\ c.syms \subseteq DOMAIN model
    BY <1>1, <1>3, DepsProperties DEF Slice, Closed
  <2>3. Completions(model) \subseteq Sat(Slice(e.syms))
    BY <2>2 DEF Slice, Sat, IInv, ModelSolves, Completions
  <2> QED BY <1>1, <1>2, <2>1, <2>3, CompletedType
<1>4. CASE ~(Deps(constraints, e.syms) \subseteq DOMAIN model)
  <2>1. Slice(e.syms) \in SUBSET Constraint /\ r \in Check(Slice(e.syms))
    BY <1>1, <1>4 DEF Slice
  <2>2. r[2] \in Models /\ Completions(r[2]) \subseteq Sat(Slice(e.syms))
    BY <1>1, <2>1, CheckModel
  <2> QED BY <1>2, <2>2, CompletedType
<1> QED BY <1>3, <1>4

\* A feasible path makes every slice satisfiable: only a timeout can fail there.
LEMMA OnlyTimeout ==
  ASSUME IInv, PI # {}, NEW S, NEW r \in Check(Slice(S)), r[1] # "SAT"
  PROVE  z3.timeouts
<1>1. Query(Slice(S)) \subseteq constraints
  BY SliceOfPath, QueryOfPath
<1>2. Sat(Query(Slice(S))) # {}
  BY <1>1 DEF PI, Sat
<1> QED BY <1>2, CheckCases

Evaluated == InfeasibleHasNoValue /\ EvaluateIsSolution

LEMMA EvaluatedStep == IInv /\ Evaluated /\ [Next]_vars => Evaluated'
<1> SUFFICES ASSUME IInv, Evaluated, [Next]_vars PROVE Evaluated'
  OBVIOUS
<1>1. ASSUME NEW e \in Expr, Evaluate(e) PROVE Evaluated'
  <2>1. PICK r \in IF Deps(constraints, e.syms) \subseteq DOMAIN model THEN {<<"SAT", model>>}
                   ELSE Check(Slice(e.syms)) :
          /\ \/ r[1] = "SAT" /\ answer'.res = {Value(e, r[2])}
             \/ r[1] # "SAT" /\ answer'.res = {}
          /\ UNCHANGED <<z3, constraints>>
    BY <1>1 DEF Evaluate
  <2>2. answer'.about = e
    BY <1>1 DEF Evaluate
  <2>3. PI' = PI /\ Slice(e.syms)' = Slice(e.syms)
    BY <2>1 DEF PI, Slice
  <2>4. CASE r[1] = "SAT"
    <3>1. Completed(r[2]) \in Sat(Slice(e.syms)) /\ Value(e, r[2]) = e.val[Completed(r[2])]
      BY <2>1, <2>4, EvaluateModel
    <3>2. PI # {} => Value(e, r[2]) \in {e.val[a] : a \in PI}
      BY <3>1, PathTypes, SliceValues
    <3> QED BY <2>1, <2>2, <2>3, <2>4, <3>1, <3>2
            DEF Evaluated, InfeasibleHasNoValue, EvaluateIsSolution
  <2>5. CASE r[1] # "SAT"
    <3>1. r \in Check(Slice(e.syms))
      BY <2>1, <2>5
    <3>2. PI # {} => z3.timeouts
      BY <2>5, <3>1, OnlyTimeout
    <3> QED BY <2>1, <2>2, <2>3, <2>5, <3>2
            DEF Evaluated, InfeasibleHasNoValue, EvaluateIsSolution
  <2> QED BY <2>4, <2>5
<1>2. CASE UNCHANGED vars
  BY <1>2 DEF vars, Evaluated, InfeasibleHasNoValue, EvaluateIsSolution, PI, Slice
<1>3. CASE answer'.call # "evaluate"
  BY <1>3 DEF Evaluated, InfeasibleHasNoValue, EvaluateIsSolution
<1>4. ASSUME NEW c \in Constraint, AddConstraint(c) \/ CheckAndAdd(c) \/ MayBeTrue(c)
      PROVE  answer'.call # "evaluate"
  BY <1>4 DEF AddConstraint, CheckAndAdd, MayBeTrue
<1>5. ASSUME NEW e \in Expr, EvaluateUpto(e) PROVE answer'.call # "evaluate"
  BY <1>5 DEF EvaluateUpto
<1>6. CASE Satisfiable
  BY <1>3, <1>6 DEF Satisfiable
<1> QED BY <1>1, <1>2, <1>3, <1>4, <1>5, <1>6 DEF Next

LEMMA EvaluatedAlways == Spec => []Evaluated
<1>1. Init => Evaluated
  BY DEF Init, Evaluated, InfeasibleHasNoValue, EvaluateIsSolution
<1> QED BY <1>1, IInvAlways, EvaluatedStep, PTL DEF Spec

\* On a path that lazy solving let become infeasible, evaluate (Solver.cpp) has no value
\* for what depends on the infeasible part: no stale model answers.
THEOREM InfeasibleNotEvaluated == Spec => []InfeasibleHasNoValue
<1>1. Evaluated => InfeasibleHasNoValue
  BY DEF Evaluated
<1> QED BY <1>1, EvaluatedAlways, PTL

\* On a feasible path evaluate returns a value of a solution, even when the model it
\* completes knows only some symbols; it fails only if Z3 gives up.
THEOREM EvaluatesToSolution == Spec => []EvaluateIsSolution
<1>1. Evaluated => EvaluateIsSolution
  BY DEF Evaluated
<1> QED BY <1>1, EvaluatedAlways, PTL

LEMMA UptoStep == IInv /\ UptoComplete /\ [Next]_vars => UptoComplete'
<1> SUFFICES ASSUME IInv, UptoComplete, [Next]_vars PROVE UptoComplete'
  OBVIOUS
<1>1. ASSUME NEW e \in Expr, EvaluateUpto(e) PROVE UptoComplete'
  <2>1. PICK n \in 1..MaxUpto, r \in Check(Slice(e.syms)) :
          /\ \/ /\ r[1] = "SAT"
                /\ \E V \in Upto(e, n) :
                     answer' = [call |-> "evaluate_upto", about |-> e, n |-> n, res |-> V]
             \/ /\ r[1] # "SAT"
                /\ answer' = [call |-> "evaluate_upto", about |-> e, n |-> n, res |-> {}]
          /\ UNCHANGED <<z3, constraints>>
    BY <1>1 DEF EvaluateUpto
  <2>2. answer'.about = e /\ answer'.n = n /\ PI' = PI
    BY <2>1 DEF PI
  <2> SUFFICES ASSUME PI # {}
               PROVE  LET all == {e.val[a] : a \in PI}
                      IN /\ answer'.res \subseteq all
                         /\ ~z3.timeouts /\ Cardinality(answer'.res) < n => answer'.res = all
    BY <2>1, <2>2 DEF UptoComplete
  <2>3. CASE r[1] = "SAT"
    <3>1. PICK V \in Upto(e, n) : answer'.res = V
      BY <2>1, <2>3
    <3> DEFINE all == {e.val[a] : a \in PI}
    <3>2. all = {e.val[a] : a \in Sat(Slice(e.syms))}
      BY PathTypes, SliceValues
    <3> HIDE DEF all
    <3>3. V \in SUBSET all /\ (~z3.timeouts => V = all \/ Cardinality(V) = n)
      BY <3>2 DEF Upto
    <3>4. n \in Nat /\ ~(n < n)
      OBVIOUS
    <3>5. ~z3.timeouts /\ Cardinality(V) < n => V = all
      BY <3>3, <3>4
    <3> QED BY <3>1, <3>3, <3>5 DEF all
  <2>4. CASE r[1] # "SAT"
    BY <2>1, <2>4, OnlyTimeout
  <2> QED BY <2>3, <2>4
<1>2. CASE UNCHANGED vars
  BY <1>2 DEF vars, UptoComplete, PI
<1>3. CASE answer'.call # "evaluate_upto"
  BY <1>3 DEF UptoComplete
<1>4. ASSUME NEW c \in Constraint, AddConstraint(c) \/ CheckAndAdd(c) \/ MayBeTrue(c)
      PROVE  answer'.call # "evaluate_upto"
  BY <1>4 DEF AddConstraint, CheckAndAdd, MayBeTrue
<1>5. ASSUME NEW e \in Expr, Evaluate(e) PROVE answer'.call # "evaluate_upto"
  BY <1>5 DEF Evaluate
<1>6. CASE Satisfiable
  BY <1>3, <1>6 DEF Satisfiable
<1> QED BY <1>1, <1>2, <1>3, <1>4, <1>5, <1>6 DEF Next

\* evaluate_upto (Solver.cpp, Z3Solver::eval_upto) returns values of the path only, and
\* all of them when it returns fewer than it was asked for and Z3 did not give up.
THEOREM UptoIsComplete == Spec => []UptoComplete
<1>1. Init => UptoComplete
  BY DEF Init, UptoComplete
<1> QED BY <1>1, IInvAlways, UptoStep, PTL DEF Spec

\* What State::dump prints, one evaluate at a time, is one input of the path: after
\* satisfiable every evaluate is answered from the same model.
THEOREM DumpIsOneInput == Spec => []DumpConsistent
<1>1. IInv => DumpConsistent
  <2> SUFFICES ASSUME IInv, PI # {}, z3.folds = Constraint \/ ~z3.omits
               PROVE  \E a \in PI : \A t \in told : t[1].val[a] = t[2]
    BY DEF DumpConsistent
  <2>1. CASE ~dumping
    BY <2>1 DEF IInv, DumpFromModel
  <2>2. CASE dumping
    <3>1. CachedTrue(constraints) /\ \A t \in told : t[2] = Value(t[1], model)
      BY <2>2 DEF IInv, DumpFromModel
    <3>2. Completed(model) \in PI
      BY <3>1, PathTypes, CompletedType, CachedSolves DEF PI
    <3>3. \A t \in told : t[2] = t[1].val[Completed(model)]
      BY <3>1 DEF Value, Completed
    <3> QED BY <3>2, <3>3
  <2> QED BY <2>1, <2>2
<1> QED BY <1>1, IInvAlways, PTL
=============================================================================
