-------------------------- MODULE Explorer_proofs --------------------------
(***************************************************************************)
(* What exploration never gets wrong, for every program, every set of      *)
(* inputs and every bound: the states are well formed, each stands only    *)
(* for inputs that really drive the program to it, no input is in two of   *)
(* them, and none is lost but at a limit while Z3 answers and no model     *)
(* mixes the inputs.  Then who holds a State object: each one in use has   *)
(* exactly one owner, so no path that eager solving executes is            *)
(* infeasible, and no two states wait in the new-address queue of Cov at   *)
(* the same address.                                                       *)
(***************************************************************************)
EXTENDS Explorer, SequenceTheorems, FiniteSetTheorems, TLAPS

\* The configurations an input goes through are closed under the concrete machine.
LEMMA ReachClosed ==
  ASSUME NEW j \in Job, NEW i \in Input
  PROVE  /\ Start(j, i) \in Reach[j][i]
         /\ \A c \in Reach[j][i] : c \in Config /\ StepOf(j, c) \in Reach[j][i]
<1>1. Reach[j][i] = {Run[j][i][n] : n \in Steps}
  BY DEF Reach
<1>2. Run[j][i] \in [Steps -> Config] /\ Run[j][i][0] = Start(j, i) /\ 0 \in Steps
  BY RunAssumption
<1>3. ASSUME NEW n \in Steps
      PROVE  Run[j][i][n] \in Config /\ StepOf(j, Run[j][i][n]) \in Reach[j][i]
  <2>1. StepOf(j, Run[j][i][n]) = IF n + 1 \in Steps THEN Run[j][i][n + 1] ELSE Run[j][i][n]
    BY RunAssumption
  <2> QED BY <1>1, <1>2, <2>1
<1> QED BY <1>1, <1>2, <1>3

-----------------------------------------------------------------------------
(***************************************************************************)
(* Types.                                                                  *)
(***************************************************************************)
LEMMA ConfType == job \in Job => conf \in JobConf
BY ConfAssumption DEF conf

LEMMA OpType == TypeOK /\ phase = "exec" => op \in Op /\ s \in SymState /\ cur \in Id
<1> SUFFICES ASSUME TypeOK, phase = "exec" PROVE op \in Op /\ s \in SymState /\ cur \in Id
  OBVIOUS
<1>1. cur \in Id /\ s \in SymState
  BY DEF TypeOK, s
<1>2. conf.code \in [Addr -> Op]
  BY ConfType DEF TypeOK, JobConf
<1>3. heap[cur].pc \in Addr
  BY <1>1 DEF s, SymState
<1> QED BY <1>1, <1>2, <1>3 DEF op

LEMMA BlankType == job \in Job => Blank \in SymState
BY ConfType DEF Blank, SymState, JobConf

LEMMA GotoType ==
  ASSUME NEW st \in SymState, NEW a \in Addr
  PROVE  Goto(st, a) \in SymState
<1> DEFINE d == st.depth + 1
<1>1. d \in Nat
  BY DEF SymState
<1>2. Goto(st, a) = [st EXCEPT !.pc = a, !.depth = d]
  BY DEF SymState, Goto
<1> HIDE DEF d
<1>3. [st EXCEPT !.pc = a, !.depth = d] \in SymState
  BY <1>1 DEF SymState
<1> QED BY <1>2, <1>3

LEMMA FallThroughType ==
  ASSUME NEW st \in SymState, NEW o \in Op
  PROVE  FallThrough(o, st) \in SymState
<1> DEFINE d == IF o.last THEN st.depth + 1 ELSE st.depth
<1>1. d \in Nat /\ o.next \in Addr
  BY DEF SymState, Op
<1>2. FallThrough(o, st) = [st EXCEPT !.pc = o.next, !.depth = d]
  BY DEF SymState, FallThrough
<1> HIDE DEF d
<1>3. [st EXCEPT !.pc = o.next, !.depth = d] \in SymState
  BY <1>1 DEF SymState
<1> QED BY <1>2, <1>3

LEMMA CloneType == ASSUME NEW st \in SymState PROVE Clone(st) \in SymState
<1>1. <<>> \in Seq(Addr)
  BY EmptySeq
<1> QED BY <1>1 DEF Clone, SymState

LEMMA RecordedType ==
  ASSUME TypeOK, phase = "exec", NEW st \in SymState
  PROVE  Recorded(st) \in SymState
<1>1. op.next \in Addr
  BY OpType DEF Op
<1>2. st.calls \in Seq(Addr)
  BY DEF SymState
<1>3. Append(st.calls, op.next) \in Seq(Addr)
  BY <1>1, <1>2, AppendProperties
<1>4. SubSeq(st.calls, 1, Len(st.calls) - 1) \in Seq(Addr)
  <2>1. Len(st.calls) \in Nat
    BY <1>2, LenProperties
  <2>2. \A k \in 1..(Len(st.calls) - 1) : st.calls[k] \in Addr
    BY <1>2, <2>1, ElementOfSeq
  <2> HIDE <1>2
  <2> QED BY <2>1, <2>2, SubSeqProperties
<1> QED BY <1>3, <1>4 DEF Recorded, SymState

\* The types of what PCodeExecutor changes, after a step of it.
ExecTypes ==
  /\ job' \in Job
  /\ phase' \in {"exec", "sift", "failed"}
  /\ heap' \in [Id -> SymState]
  /\ cur' \in Id \cup {NoId}
  /\ phase' = "exec" => cur' \in Id
  /\ act' \in Seq(Id) /\ ext' \in Seq(Id)

LEMMA ContinueType ==
  ASSUME TypeOK, phase = "exec", NEW acts \in Seq(Id), Continue(acts)
  PROVE  /\ act' \in Seq(Id)
         /\ phase' \in {"exec", "sift"} /\ cur' \in Id \cup {NoId}
         /\ phase' = "exec" => cur' \in Id
<1>1. cur \in Id
  BY OpType
<1>2. Append(acts, cur) \in Seq(Id)
  BY <1>1, AppendProperties
<1> QED BY <1>1, <1>2 DEF Continue, NoState

LEMMA PushType ==
  ASSUME TypeOK, phase = "exec", Push
  PROVE  act' \in Seq(Id) /\ phase' = "sift" /\ cur' = NoId
<1>1. cur \in Id /\ act \in Seq(Id)
  BY OpType DEF TypeOK
<1>2. Append(act, cur) \in Seq(Id)
  BY <1>1, AppendProperties
<1> QED BY <1>2 DEF Push, NoState

LEMMA TakenType ==
  ASSUME TypeOK, phase = "exec"
  PROVE  Taken(s) \in SymState /\ NotTaken(s) \in SymState
<1>1. s \in SymState /\ op \in Op /\ op.dst \in Addr
  BY OpType DEF Op
<1>2. Goto(Clone(s), op.dst) \in SymState /\ FallThrough(op, s) \in SymState
  BY <1>1, CloneType, GotoType, FallThroughType
<1>3. {i \in s.pi : Cond[i]} \in SUBSET Input /\ {i \in s.pi : ~Cond[i]} \in SUBSET Input
  BY <1>1 DEF SymState
<1> HIDE DEF s, op
<1> QED BY <1>2, <1>3 DEF Taken, NotTaken, SymState

LEMMA TargetType == TypeOK /\ phase = "exec" => Target \in [Input -> Addr]
<1> SUFFICES ASSUME TypeOK, phase = "exec" PROVE Target \in [Input -> Addr]
  OBVIOUS
<1>1. op.tgt \in [Val -> Addr] /\ s.val \in [Input -> Val]
  BY OpType DEF Op, SymState
<1> QED BY <1>1 DEF Target

LEMMA AtType ==
  ASSUME TypeOK, phase = "exec", NEW a \in Addr
  PROVE  At(a) \in SymState
<1>1. s \in SymState
  BY OpType
<1>2. Goto(Clone(s), a) \in SymState
  BY <1>1, CloneType, GotoType
<1>3. {i \in s.pi : Target[i] = a} \in SUBSET Input
  BY <1>1 DEF SymState
<1> QED BY <1>2, <1>3 DEF At, SymState

\* The identities a fork takes: different ones, of objects not in use.
LEMMA FreeIdsType ==
  ASSUME NEW n \in Nat, NEW f \in FreeIds(n)
  PROVE  /\ f \in Seq(Id) /\ Len(f) = n /\ DOMAIN f = 1..n
         /\ \A k \in 1..n : f[k] \in Id /\ ~heap[f[k]].live /\ f[k] # cur
         /\ \A k, l \in 1..n : f[k] = f[l] => k = l
<1>1. f \in [1..n -> Free]
  BY DEF FreeIds
<1>2. f \in [1..n -> Id] /\ \A k \in 1..n : f[k] \in Id /\ ~heap[f[k]].live /\ f[k] # cur
  BY <1>1 DEF Free
<1>3. f \in Seq(Id) /\ Len(f) = n
  BY <1>2
<1>4. \A k, l \in 1..n : k < l => f[k] < f[l]
  BY DEF FreeIds
<1>5. \A k \in 1..n : f[k] \in Nat
  BY <1>2, IdAssumption
<1>6. \A k, l \in 1..n : f[k] = f[l] => k = l
  BY <1>4, <1>5
<1> QED BY <1>1, <1>2, <1>3, <1>6

\* The current state with the inputs kept, and the effect of the operation on all but
\* those that are not right.
HasEffect(st, kept, right) ==
  /\ st \in SymState /\ st.pi = kept /\ st.stray = s.stray \cup (kept \ right)
  /\ st.pc = s.pc /\ st.depth = s.depth /\ st.live = s.live
  /\ \A i \in Input : i \notin kept \ right => st.val[i] = op.eff[s.val[i]]

LEMMA EffectedType ==
  ASSUME TypeOK, phase = "exec", NEW kept \in SUBSET Input, NEW right,
         NEW junk \in Junk(kept, right)
  PROVE  HasEffect(Effected(kept, right, junk), kept, right)
<1> DEFINE val == [i \in Input |-> IF i \in kept \ right THEN junk[i] ELSE op.eff[s.val[i]]]
           stray == s.stray \cup (kept \ right)
<1>1. op.eff \in [Val -> Val] /\ op.wrong \subseteq Val /\ s \in SymState /\ s.val \in [Input -> Val]
  BY OpType DEF Op, SymState
<1>2. val \in [Input -> Val]
  BY <1>1 DEF Junk
<1>3. stray \in SUBSET Input
  BY <1>1 DEF SymState
<1>4. \A i \in Input : i \notin kept \ right => val[i] = op.eff[s.val[i]]
  OBVIOUS
<1>5. Effected(kept, right, junk) = [s EXCEPT !.val = val, !.pi = kept, !.stray = stray]
  BY <1>1 DEF Effected, SymState
<1> HIDE DEF val, stray, s
<1>6. /\ [s EXCEPT !.val = val, !.pi = kept, !.stray = stray] \in SymState
      /\ [s EXCEPT !.val = val, !.pi = kept, !.stray = stray].val = val
  BY <1>1, <1>2, <1>3 DEF SymState
<1> QED BY <1>1, <1>4, <1>5, <1>6 DEF SymState, stray, HasEffect

LEMMA PlacesType ==
  ASSUME TypeOK, phase = "exec"
  PROVE  /\ Pointer \in [Input -> Addr] /\ Way \in [Input -> Addr] /\ StringEnds \subseteq Addr
         /\ \A i \in Input : Way[i] \in StringEnds
         /\ Admitted \subseteq s.pi /\ s.pi \subseteq Input
<1>1. op.ptr \in [Val -> Addr] /\ op.way \in [Val -> Addr] /\ s.val \in [Input -> Val]
      /\ s.pi \subseteq Input
  BY OpType DEF Op, SymState
<1> QED BY <1>1 DEF Pointer, Way, StringEnds, Admitted

\* What evaluate_upto returns: some values, all of the inputs' if Z3 answers and they
\* are not too many.
Values(e, S, max, D) ==
  /\ D # {} /\ D \subseteq Addr /\ IsFiniteSet(D) /\ Cardinality(D) \in Nat
  /\ S # {} => \A a \in D : \E i \in S : e[i] = a
  /\ S # {} /\ ~conf.timeouts => Cardinality(D) = max \/ \A i \in S : e[i] \in D

LEMMA UptoType ==
  ASSUME NEW e \in [Input -> Addr], NEW S \in SUBSET Input, NEW max \in Nat, NEW D \in Upto(e, S, max)
  PROVE  Values(e, S, max, D)
<1> DEFINE V == {e[i] : i \in S}
           sets == IF S = {} THEN SUBSET {e[i] : i \in Input}
                   ELSE IF conf.timeouts THEN SUBSET V ELSE {V}
<1>1. /\ D # {}
      /\ D \in {d \in sets : Cardinality(d) <= max}
                 \cup {d \in SUBSET UNION sets : Cardinality(d) = max}
  BY DEF Upto
<1>2. \A d \in sets : d \subseteq Addr
  OBVIOUS
<1>3. S # {} => \A d \in sets : d \subseteq V
  OBVIOUS
<1>4. D \subseteq Addr /\ (S # {} => D \subseteq V)
  <2> HIDE DEF sets, V
  <2>1. D \in sets \/ D \in SUBSET UNION sets
    BY <1>1
  <2> QED BY <1>2, <1>3, <2>1
<1>5. IsFiniteSet(D) /\ Cardinality(D) \in Nat
  BY <1>4, AddrAssumption, FS_Subset, FS_CardinalityType
<1>6. ASSUME S # {}, ~conf.timeouts, Cardinality(D) # max
      PROVE  \A i \in S : e[i] \in D
  <2>1. D \in sets /\ sets = {V}
    BY <1>1, <1>6
  <2> QED BY <2>1
<1> QED BY <1>1, <1>4, <1>5, <1>6 DEF Values

\* What a memory access makes of the inputs S: while Z3 answers it loses those only
\* whose address is one of more than MaxPtr, and mixes none.
LEMMA AccessesType ==
  ASSUME TypeOK, phase = "exec", NEW S \in SUBSET s.pi, NEW acc \in Accesses(S)
  PROVE  /\ acc.kept \subseteq S /\ acc.right \subseteq acc.kept
         /\ S # {} => acc.kept # {}
         /\ ~conf.timeouts =>
              /\ acc.right = acc.kept
              /\ \A i \in S \ acc.kept :
                   op.deref /\ Cardinality({Pointer[k] : k \in S} \ {Pointer[i]}) >= MaxPtr
<1> DEFINE In(D) == {i \in S : Pointer[i] \in D}
<1>1. Pointer \in [Input -> Addr] /\ S \subseteq Input /\ MaxPtr \in Nat
  BY PlacesType, AddrAssumption
<1>2. CASE PlainAccess /\ acc \in {[kept |-> S, right |-> S]}
  BY <1>2
<1>3. CASE /\ ThroughSymbol /\ S # {}
           /\ \E D \in Upto(Pointer, S, MaxPtr) :
                acc = [kept |-> IF Cardinality(D) = MaxPtr THEN In(D) ELSE S, right |-> In(D)]
  <2>1. PICK D \in Upto(Pointer, S, MaxPtr) :
          acc = [kept |-> IF Cardinality(D) = MaxPtr THEN In(D) ELSE S, right |-> In(D)]
    BY <1>3
  <2>2. /\ acc.kept = IF Cardinality(D) = MaxPtr THEN In(D) ELSE S
        /\ acc.right = In(D)
    BY <2>1
  <2> HIDE DEF In
  <2>3. /\ D # {} /\ IsFiniteSet(D) /\ \A a \in D : \E i \in S : Pointer[i] = a
        /\ ~conf.timeouts => Cardinality(D) = MaxPtr \/ \A i \in S : Pointer[i] \in D
    <3>1. S # {} /\ S \in SUBSET Input
      BY <1>1, <1>3
    <3>2. Values(Pointer, S, MaxPtr, D)
      BY <1>1, <3>1, UptoType, Zenon
    <3> QED BY <3>1, <3>2 DEF Values
  <2> USE DEF In
  <2>4. In(D) # {}
    BY <2>3
  <2>5. ASSUME ~conf.timeouts
        PROVE  acc.right = acc.kept
    BY <2>2, <2>3, <2>5
  <2>6. ASSUME NEW i \in S \ acc.kept
        PROVE  op.deref /\ Cardinality({Pointer[k] : k \in S} \ {Pointer[i]}) >= MaxPtr
    <3> DEFINE W == {Pointer[k] : k \in S} \ {Pointer[i]}
    <3>1. Cardinality(D) = MaxPtr /\ Pointer[i] \notin D
      BY <2>2, <2>6
    <3>2. D \subseteq W /\ W \subseteq Addr
      BY <1>1, <2>3, <3>1
    <3>3. IsFiniteSet(W)
      BY <3>2, AddrAssumption, FS_Subset
    <3> HIDE DEF W
    <3>4. Cardinality(D) <= Cardinality(W) /\ Cardinality(W) \in Nat
      BY <3>2, <3>3, FS_Subset, FS_CardinalityType
    <3>5. op.deref
      BY <1>3 DEF ThroughSymbol
    <3> QED BY <1>1, <3>1, <3>4, <3>5 DEF W
  <2> QED BY <1>3, <2>2, <2>4, <2>5, <2>6
<1> QED BY <1>2, <1>3 DEF Accesses

\* The ends of a string that get a state.
LEMMA KeptType ==
  ASSUME TypeOK, phase = "exec", NEW took \in Took, NEW K \in Kept(took)
  PROVE  /\ took \in [Admitted -> StringEnds]
         /\ K # {} /\ K \subseteq StringEnds /\ IsFiniteSet(K) /\ Cardinality(K) \in Nat
         /\ Admitted # {} => \A e \in K : \E i \in Admitted : took[i] = e
         /\ ~conf.timeouts =>
              /\ \A i \in Admitted : took[i] = Way[i]
              /\ \A i \in Admitted : took[i] \in K \/ Cardinality(K) > op.forks
<1>1. /\ Way \in [Input -> Addr] /\ StringEnds \subseteq Addr /\ Admitted \subseteq Input
      /\ \A i \in Input : Way[i] \in StringEnds
  BY PlacesType
<1>2. took \in [Admitted -> StringEnds] /\ (~conf.timeouts => \A i \in Admitted : took[i] = Way[i])
  <2>1. [i \in Admitted |-> Way[i]] \in [Admitted -> StringEnds]
    BY <1>1
  <2>2. CASE conf.timeouts
    BY <2>2 DEF Took
  <2>3. CASE ~conf.timeouts
    BY <2>1, <2>3 DEF Took
  <2> QED BY <2>2, <2>3
<1> DEFINE all == {took[i] : i \in Admitted}
<1>3. /\ K \subseteq IF Admitted = {} THEN StringEnds ELSE all
      /\ K # {}
      /\ K = all \/ Admitted = {} \/ conf.timeouts \/ Cardinality(K) > op.forks
  BY DEF Kept
<1>4. K \subseteq StringEnds
  BY <1>2, <1>3
<1>5. IsFiniteSet(K) /\ Cardinality(K) \in Nat
  BY <1>1, <1>4, AddrAssumption, FS_Subset, FS_CardinalityType
<1>6. Admitted # {} => \A e \in K : \E i \in Admitted : took[i] = e
  BY <1>3
<1> QED BY <1>2, <1>3, <1>4, <1>5, <1>6

LEMMA OrdersType ==
  ASSUME NEW D, Cardinality(D) \in Nat, NEW q \in Orders(D)
  PROVE  /\ q \in [1..Cardinality(D) -> D] /\ DOMAIN q = 1..Cardinality(D)
         /\ \A a \in D : \E k \in DOMAIN q : q[k] = a
         /\ \A k, l \in DOMAIN q : q[k] = q[l] => k = l
BY DEF Orders

\* Every object a model returns in is cur or not in use.
LEMMA SuccessorsType ==
  ASSUME TypeOK, phase = "exec", NEW n \in Nat \ {0}, NEW f \in Successors(n)
  PROVE  /\ f \in Seq(Id) /\ DOMAIN f = 1..n
         /\ \A k \in 1..n : f[k] \in Id /\ (f[k] = cur \/ ~heap[f[k]].live)
         /\ \A k, l \in 1..n : f[k] = f[l] => k = l
<1>1. cur \in Id /\ n - 1 \in Nat
  BY OpType
<1>2. CASE f \in FreeIds(n)
  BY <1>2, FreeIdsType
<1>3. CASE \E g \in FreeIds(n - 1) : f = Append(g, cur)
  <2>1. PICK g \in FreeIds(n - 1) : f = Append(g, cur)
    BY <1>3
  <2>2. /\ g \in Seq(Id) /\ Len(g) = n - 1
        /\ \A k \in 1..(n - 1) : g[k] \in Id /\ ~heap[g[k]].live /\ g[k] # cur
        /\ \A k, l \in 1..(n - 1) : g[k] = g[l] => k = l
    BY <1>1, FreeIdsType
  <2>3. /\ f \in Seq(Id) /\ Len(f) = n /\ f[n] = cur
        /\ \A k \in 1..(n - 1) : f[k] = g[k]
    BY <1>1, <2>1, <2>2, AppendProperties
  <2>4. DOMAIN f = 1..n
    BY <2>3, LenProperties
  <2>5. \A k \in 1..n : k = n \/ k \in 1..(n - 1)
    OBVIOUS
  <2>6. \A k, l \in 1..n : f[k] = f[l] => k = l
    BY <2>2, <2>3, <2>5
  <2> QED BY <1>1, <2>2, <2>3, <2>4, <2>5, <2>6
<1> QED BY <1>2, <1>3 DEF Successors

\* The state in which a model returns.
IsReturned(to, st, id, a, pi) ==
  /\ to \in SymState /\ to.pi = pi /\ to.stray = st.stray /\ to.val = st.val
  /\ to.pc = a /\ to.depth = st.depth + 1
  /\ IF id = cur THEN to.live = st.live ELSE to.live = TRUE

LEMMA ReturnedType ==
  ASSUME TypeOK, phase = "exec", NEW st \in SymState, NEW id, NEW a \in Addr,
         NEW pi \in SUBSET Input
  PROVE  IsReturned(Returned(st, id, a, pi), st, id, a, pi)
<1> DEFINE back == Recorded(st)
           next == Goto(back, a)
           to == [next EXCEPT !.pi = pi]
<1>1. /\ back \in SymState /\ back.val = st.val /\ back.stray = st.stray
      /\ back.depth = st.depth /\ back.live = st.live
  <2>1. back \in SymState
    BY RecordedType
  <2> QED BY <2>1 DEF Recorded, SymState
<1> HIDE DEF back
<1>2. /\ next \in SymState /\ next.val = st.val /\ next.stray = st.stray /\ next.pc = a
      /\ next.depth = st.depth + 1 /\ next.live = st.live
  <2>1. next \in SymState
    BY <1>1, GotoType
  <2> DEFINE d == back.depth + 1
  <2>2. d = st.depth + 1
    BY <1>1
  <2>3. next = [back EXCEPT !.pc = a, !.depth = d]
    BY DEF Goto
  <2> HIDE DEF d, next
  <2> QED BY <1>1, <2>1, <2>2, <2>3 DEF SymState
<1> HIDE DEF next
<1>3. /\ to \in SymState /\ to.val = st.val /\ to.stray = st.stray /\ to.pc = a
      /\ to.depth = st.depth + 1 /\ to.live = st.live /\ to.pi = pi
  BY <1>2 DEF SymState
<1> HIDE DEF to
<1>4. /\ Clone(to) \in SymState /\ Clone(to).val = to.val /\ Clone(to).stray = to.stray
      /\ Clone(to).pc = to.pc /\ Clone(to).depth = to.depth /\ Clone(to).live = TRUE
      /\ Clone(to).pi = to.pi
  <2>1. Clone(to) \in SymState
    BY <1>3, CloneType
  <2> QED BY <1>3, <2>1 DEF Clone, SymState
<1>5. Returned(st, id, a, pi) = IF id = cur THEN to ELSE Clone(to)
  BY DEF Returned, to, next, back
<1> QED BY <1>3, <1>4, <1>5 DEF IsReturned

-----------------------------------------------------------------------------
(***************************************************************************)
(* One symbolic step, one input at a time.                                 *)
(***************************************************************************)
\* The symbolic transfers are the concrete ones, input by input.
LEMMA GotoConfig ==
  ASSUME NEW st \in SymState, NEW i, NEW a
  PROVE  ConfigIn(Goto(st, a), i) = Goto(ConfigIn(st, i), a)
<1> DEFINE d == st.depth + 1
           c == [pc |-> a, val |-> st.val[i], depth |-> d]
<1>1. Goto(st, a).pc = a /\ Goto(st, a).val = st.val /\ Goto(st, a).depth = d
  BY DEF SymState, Goto
<1>2. Goto(ConfigIn(st, i), a) = [ConfigIn(st, i) EXCEPT !.pc = a, !.depth = d]
  <2> DEFINE b == ConfigIn(st, i)
  <2>1. b.depth + 1 = d
    BY DEF ConfigIn
  <2> HIDE DEF b, d
  <2>2. Goto(b, a) = [b EXCEPT !.pc = a, !.depth = d]
    BY <2>1, Zenon DEF Goto
  <2> QED BY <2>2 DEF b
<1> HIDE DEF d
<1>3. [ConfigIn(st, i) EXCEPT !.pc = a, !.depth = d] = c
  <2> DEFINE b == ConfigIn(st, i)
             A == {st.pc, a}
             V == {st.val[i]}
             D == {st.depth, d}
  <2>1. /\ b \in [pc: A, val: V, depth: D] /\ a \in A /\ d \in D
        /\ b.val = st.val[i]
    BY DEF ConfigIn
  <2> HIDE DEF b, A, V, D
  <2> DEFINE r == [b EXCEPT !.pc = a, !.depth = d]
  <2>2. r \in [pc: A, val: V, depth: D] /\ r.pc = a /\ r.val = b.val /\ r.depth = d
    BY <2>1
  <2> HIDE DEF r
  <2>3. r = [pc |-> r.pc, val |-> r.val, depth |-> r.depth]
    BY <2>2
  <2> QED BY <2>1, <2>2, <2>3 DEF r, b
<1> QED BY <1>1, <1>2, <1>3 DEF ConfigIn

LEMMA FallThroughConfig ==
  ASSUME NEW st \in SymState, NEW i, NEW o
  PROVE  ConfigIn(FallThrough(o, st), i) = FallThrough(o, ConfigIn(st, i))
<1> DEFINE d == IF o.last THEN st.depth + 1 ELSE st.depth
           c == [pc |-> o.next, val |-> st.val[i], depth |-> d]
<1>1. /\ FallThrough(o, st).pc = o.next /\ FallThrough(o, st).val = st.val
      /\ FallThrough(o, st).depth = d
  BY DEF SymState, FallThrough
<1>2. FallThrough(o, ConfigIn(st, i)) = [ConfigIn(st, i) EXCEPT !.pc = o.next, !.depth = d]
  <2> DEFINE b == ConfigIn(st, i)
  <2>1. d = IF o.last THEN b.depth + 1 ELSE b.depth
    BY DEF ConfigIn
  <2> HIDE DEF b, d
  <2>2. FallThrough(o, b) = [b EXCEPT !.pc = o.next, !.depth = d]
    BY <2>1, Zenon DEF FallThrough
  <2> QED BY <2>2 DEF b
<1> HIDE DEF d
<1>3. [ConfigIn(st, i) EXCEPT !.pc = o.next, !.depth = d] = c
  <2> DEFINE b == ConfigIn(st, i)
             A == {st.pc, o.next}
             V == {st.val[i]}
             D == {st.depth, d}
  <2>1. /\ b \in [pc: A, val: V, depth: D] /\ o.next \in A /\ d \in D
        /\ b.val = st.val[i]
    BY DEF ConfigIn
  <2> HIDE DEF b, A, V, D
  <2> DEFINE r == [b EXCEPT !.pc = o.next, !.depth = d]
  <2>2. r \in [pc: A, val: V, depth: D] /\ r.pc = o.next /\ r.val = b.val /\ r.depth = d
    BY <2>1
  <2> HIDE DEF r
  <2>3. r = [pc |-> r.pc, val |-> r.val, depth |-> r.depth]
    BY <2>2
  <2> QED BY <2>1, <2>2, <2>3 DEF r, b
<1> QED BY <1>1, <1>2, <1>3 DEF ConfigIn

\* A clone, a recorded call or return, and a constraint leave inputs where they are.
LEMMA SameConfig ==
  ASSUME NEW st \in SymState, NEW i, NEW set
  PROVE  /\ ConfigIn(Clone(st), i) = ConfigIn(st, i)
         /\ ConfigIn(Recorded(st), i) = ConfigIn(st, i)
         /\ ConfigIn([st EXCEPT !.pi = set], i) = ConfigIn(st, i)
<1>1. ConfigIn(Clone(st), i) = ConfigIn(st, i)
  BY DEF SymState, ConfigIn, Clone
<1>2. ConfigIn(Recorded(st), i) = ConfigIn(st, i)
  BY DEF SymState, ConfigIn, Recorded
<1>3. ConfigIn([st EXCEPT !.pi = set], i) = ConfigIn(st, i)
  BY DEF SymState, ConfigIn
<1> QED BY <1>1, <1>2, <1>3

\* The concrete step of an input of cur is through the operation cur is at.
LEMMA StepOfCur ==
  ASSUME NEW i
  PROVE  LET c == ConfigOf(cur, i)
         IN c = ConfigIn(s, i) /\ op = Conf[job].code[c.pc] /\ c.val = s.val[i]
BY DEF ConfigOf, ConfigIn, op, s, conf

LEMMA ConcreteStep ==
  ASSUME NEW i
  PROVE  LET c == ConfigOf(cur, i)
             n == StepOf(job, c)
         IN /\ op.kind = "DATA" => n = FallThrough(op, [c EXCEPT !.val = op.eff[@]])
            /\ op.kind = "CBRANCH" =>
                 n = IF op.cond[c.val] THEN Goto(c, op.dst) ELSE FallThrough(op, c)
            /\ op.kind \in Direct => n = Goto(c, op.dst)
            /\ op.kind \in Indirect => n = Goto(c, op.tgt[c.val])
            /\ op.kind = "LIBRET" =>
                 n = Goto([c EXCEPT !.val = op.eff[@]], op.tgt[c.val])
<1> DEFINE c == ConfigOf(cur, i)
<1>1. op = Conf[job].code[c.pc]
  BY StepOfCur
<1> HIDE DEF c
<1>2. CASE op.kind = "DATA"
  BY <1>1, <1>2 DEF StepOf, Direct, Indirect, c
<1>3. CASE op.kind = "CBRANCH"
  BY <1>1, <1>3 DEF StepOf, Direct, Indirect, c
<1>4. CASE op.kind \in Direct
  BY <1>1, <1>4 DEF StepOf, Direct, Indirect, c
<1>5. CASE op.kind \in Indirect
  BY <1>1, <1>5 DEF StepOf, Direct, Indirect, c
<1>6. CASE op.kind = "LIBRET"
  BY <1>1, <1>6 DEF StepOf, Direct, Indirect, c
<1> QED BY <1>2, <1>3, <1>4, <1>5, <1>6

-----------------------------------------------------------------------------
(***************************************************************************)
(* What a step of the executor makes of the current state: one or several  *)
(* parts of it, each with some of its inputs, one operation further.       *)
(***************************************************************************)
Part(st) ==
  /\ st \in SymState /\ st.pi \subseteq s.pi
  /\ s.stray = {} /\ Exact(job) => st.stray = {}
  /\ \A i \in st.pi \ st.stray :
       /\ i \notin s.stray
       /\ ConfigIn(st, i) = StepOf(job, ConfigOf(cur, i))

\* A part of a feasible state is feasible.
Feasible(st) == ~conf.printable /\ s.pi # {} => st.pi # {}

\* The current state may lose input i.
LimitHere(i) == Limited(job, ConfigOf(cur, i), {ConfigOf(cur, k) : k \in heap[cur].pi})

\* The parts st become the objects f.
Forks(f, st) ==
  /\ f \in Seq(Id) /\ DOMAIN st = DOMAIN f
  /\ \A k, l \in DOMAIN f : f[k] = f[l] => k = l
  /\ \A k \in DOMAIN f :
       /\ f[k] \in Id /\ (f[k] = cur \/ ~heap[f[k]].live)
       /\ Part(st[k]) /\ Feasible(st[k])
       /\ st[k].depth = s.depth + 1
       /\ IF f[k] = cur THEN st[k].live = s.live ELSE st[k].live = TRUE
  /\ \A k, l \in DOMAIN f : \A i \in st[k].pi : i \in st[l].pi => k = l
  /\ Exact(job) => \A i \in s.pi : LimitHere(i) \/ \E k \in DOMAIN f : i \in st[k].pi

\* More company does not take an input from a limit.
LEMMA LimitedGrows ==
  ASSUME NEW j \in Job, NEW H \in SUBSET Config, NEW G \in SUBSET H, NEW c \in Config,
         Limited(j, c, G)
  PROVE  Limited(j, c, H)
<1> DEFINE o == Conf[j].code[c.pc]
<1>1. o \in Op
  BY ConfAssumption DEF JobConf, Config
<1>2. o.ptr \in [Val -> Addr] /\ o.way \in [Val -> Addr] /\ o.forks \in Nat /\ MaxPtr \in Nat
  BY <1>1, AddrAssumption DEF Op
<1> HIDE DEF o
<1>3. ASSUME NEW w \in [Val -> Addr]
      PROVE  /\ Cardinality(Others(w, c, G)) <= Cardinality(Others(w, c, H))
             /\ Cardinality(Others(w, c, G)) \in Nat /\ Cardinality(Others(w, c, H)) \in Nat
  <2>1. Others(w, c, G) \subseteq Others(w, c, H) /\ Others(w, c, H) \subseteq Addr
    BY DEF Others, Config
  <2>2. IsFiniteSet(Others(w, c, H))
    BY <2>1, AddrAssumption, FS_Subset
  <2> QED BY <2>1, <2>2, FS_Subset, FS_CardinalityType
<1>4. /\ Cardinality(Others(o.ptr, c, G)) <= Cardinality(Others(o.ptr, c, H))
      /\ Cardinality(Others(o.ptr, c, G)) \in Nat /\ Cardinality(Others(o.ptr, c, H)) \in Nat
      /\ Cardinality(Others(o.way, c, G)) <= Cardinality(Others(o.way, c, H))
      /\ Cardinality(Others(o.way, c, G)) \in Nat /\ Cardinality(Others(o.way, c, H)) \in Nat
  BY <1>2, <1>3
<1>5. /\ o.kind \in {"DATA", "LIBRET"}
      /\ \/ o.deref /\ Cardinality(Others(o.ptr, c, G)) >= MaxPtr
         \/ o.kind = "LIBRET" /\ Cardinality(Others(o.way, c, G)) > o.forks
         \/ Conf[j].printable /\ ~o.admits[c.val]
  BY DEF Limited, o
<1>6. /\ o.kind \in {"DATA", "LIBRET"}
      /\ \/ o.deref /\ Cardinality(Others(o.ptr, c, H)) >= MaxPtr
         \/ o.kind = "LIBRET" /\ Cardinality(Others(o.way, c, H)) > o.forks
         \/ Conf[j].printable /\ ~o.admits[c.val]
  BY <1>2, <1>4, <1>5
<1> QED BY <1>6 DEF Limited, o

\* The limits, in the terms of the current state.
LEMMA LimitsHere ==
  ASSUME TypeOK, phase = "exec", op.kind \in {"DATA", "LIBRET"}, NEW i \in s.pi
  PROVE  /\ conf.printable /\ ~op.admits[s.val[i]] => LimitHere(i)
         /\ \A S \in SUBSET s.pi :
              op.deref /\ Cardinality({Pointer[k] : k \in S} \ {Pointer[i]}) >= MaxPtr
                => LimitHere(i)
         /\ \A K \in SUBSET {Way[k] : k \in s.pi} :
              op.kind = "LIBRET" /\ Way[i] \notin K /\ Cardinality(K) > op.forks
                => LimitHere(i)
<1> DEFINE c == ConfigOf(cur, i)
           G == {ConfigOf(cur, k) : k \in heap[cur].pi}
<1>1. /\ op = Conf[job].code[c.pc] /\ c.val = s.val[i] /\ conf = Conf[job] /\ s.pi = heap[cur].pi
      /\ \A k \in s.pi : ConfigOf(cur, k).val = s.val[k]
  BY DEF ConfigOf, ConfigIn, op, s, conf
<1>2. /\ Pointer \in [Input -> Addr] /\ Way \in [Input -> Addr] /\ s.pi \subseteq Input
      /\ op.forks \in Nat /\ MaxPtr \in Nat
  BY PlacesType, OpType, AddrAssumption DEF Op
<1>3. /\ Others(op.ptr, c, G) = {Pointer[k] : k \in s.pi} \ {Pointer[i]}
      /\ Others(op.way, c, G) = {Way[k] : k \in s.pi} \ {Way[i]}
  <2>1. ASSUME NEW k \in s.pi
        PROVE  Pointer[k] = op.ptr[ConfigOf(cur, k).val] /\ Way[k] = op.way[ConfigOf(cur, k).val]
    <3>1. k \in Input /\ ConfigOf(cur, k).val = s.val[k]
      BY <1>1, <1>2
    <3> HIDE DEF c, G
    <3>2. Pointer[k] = op.ptr[s.val[k]] /\ Way[k] = op.way[s.val[k]]
      BY <3>1, Zenon DEF Pointer, Way
    <3> QED BY <3>1, <3>2
  <2>2. ASSUME NEW w, NEW W, \A k \in s.pi : W[k] = w[ConfigOf(cur, k).val]
        PROVE  Others(w, c, G) = {W[k] : k \in s.pi} \ {W[i]}
    <3>1. {w[b.val] : b \in G} = {w[ConfigOf(cur, k).val] : k \in s.pi}
      BY <1>1
    <3>2. {w[ConfigOf(cur, k).val] : k \in s.pi} = {W[k] : k \in s.pi}
      BY <2>2
    <3> QED BY <2>2, <3>1, <3>2 DEF Others
  <2> HIDE DEF c, G
  <2> QED BY <2>1, <2>2
<1>4. LimitHere(i) <=> \/ op.deref /\ Cardinality(Others(op.ptr, c, G)) >= MaxPtr
                       \/ op.kind = "LIBRET" /\ Cardinality(Others(op.way, c, G)) > op.forks
                       \/ conf.printable /\ ~op.admits[s.val[i]]
  BY <1>1 DEF LimitHere, Limited
<1> HIDE DEF c, G
<1>5. ASSUME NEW T, NEW U \in SUBSET Addr, T \subseteq U
      PROVE  /\ Cardinality(T) <= Cardinality(U)
             /\ Cardinality(T) \in Nat /\ Cardinality(U) \in Nat
  <2>1. IsFiniteSet(U)
    BY AddrAssumption, FS_Subset
  <2> QED BY <1>5, <2>1, FS_Subset, FS_CardinalityType
<1>6. ASSUME NEW S \in SUBSET s.pi, op.deref,
             Cardinality({Pointer[k] : k \in S} \ {Pointer[i]}) >= MaxPtr
      PROVE  LimitHere(i)
  <2> DEFINE T == {Pointer[k] : k \in S} \ {Pointer[i]}
             U == {Pointer[k] : k \in s.pi} \ {Pointer[i]}
  <2>1. U \in SUBSET Addr /\ T \subseteq U
    BY <1>2
  <2>2. Cardinality(T) >= MaxPtr
    BY <1>6
  <2> HIDE DEF T, U
  <2>3. Cardinality(U) >= MaxPtr
    BY <1>2, <1>5, <2>1, <2>2
  <2> QED BY <1>3, <1>4, <1>6, <2>3 DEF U
<1>7. ASSUME NEW K \in SUBSET {Way[k] : k \in s.pi}, op.kind = "LIBRET", Way[i] \notin K,
             Cardinality(K) > op.forks
      PROVE  LimitHere(i)
  <2> DEFINE U == {Way[k] : k \in s.pi} \ {Way[i]}
  <2>1. U \in SUBSET Addr /\ K \subseteq U
    BY <1>2, <1>7
  <2> HIDE DEF U
  <2>2. Cardinality(U) > op.forks
    BY <1>2, <1>5, <1>7, <2>1
  <2> QED BY <1>3, <1>4, <1>7, <2>2 DEF U
<1> QED BY <1>4, <1>6, <1>7

\* An input with the right contents has the effect of the operation.
MovedConfigs(st, kept, right) ==
  \A i \in Input : i \notin kept \ right =>
    ConfigIn(st, i) = [ConfigOf(cur, i) EXCEPT !.val = op.eff[@]]

LEMMA EffectedConfig ==
  ASSUME NEW st, NEW kept, NEW right, HasEffect(st, kept, right)
  PROVE  MovedConfigs(st, kept, right)
<1>1. ASSUME NEW i \in Input, i \notin kept \ right
      PROVE  ConfigIn(st, i) = [ConfigOf(cur, i) EXCEPT !.val = op.eff[@]]
  <2> DEFINE e == op.eff[s.val[i]]
  <2>1. st.pc = s.pc /\ st.depth = s.depth /\ st.val[i] = e
    BY <1>1 DEF HasEffect
  <2> HIDE DEF e
  <2>2. ConfigIn(st, i) = [pc |-> s.pc, val |-> e, depth |-> s.depth]
    BY <2>1 DEF ConfigIn
  <2>3. ConfigOf(cur, i) = [pc |-> s.pc, val |-> s.val[i], depth |-> s.depth]
    BY DEF ConfigOf, ConfigIn, s
  <2>4. [ConfigOf(cur, i) EXCEPT !.val = op.eff[@]] = [pc |-> s.pc, val |-> e, depth |-> s.depth]
    BY <2>3 DEF e
  <2> QED BY <2>2, <2>4
<1> QED BY <1>1, Zenon DEF MovedConfigs

\* An assignment, load, store or system call has one part.
LEMMA DataPart ==
  ASSUME TypeOK, phase = "exec", DataOp
  PROVE  \E st \in SymState :
           /\ heap' = [heap EXCEPT ![cur] = st] /\ Part(st) /\ Feasible(st) /\ st.live = s.live
           /\ st.depth = IF op.last THEN s.depth + 1 ELSE s.depth
           /\ Exact(job) => \A i \in s.pi : LimitHere(i) \/ i \in st.pi
<1>1. PICK acc \in Accesses(Admitted) : \E junk \in Junk(acc.kept, acc.right) :
        heap' = [heap EXCEPT ![cur] = FallThrough(op, Effected(acc.kept, acc.right, junk))]
  BY DEF DataOp
<1>2. PICK junk \in Junk(acc.kept, acc.right) :
        heap' = [heap EXCEPT ![cur] = FallThrough(op, Effected(acc.kept, acc.right, junk))]
  BY <1>1
<1>3. /\ op \in Op /\ op.kind = "DATA" /\ Admitted \subseteq s.pi /\ s.pi \subseteq Input
      /\ s \in SymState
  BY OpType, PlacesType DEF DataOp, Executing
<1>4. /\ acc.kept \subseteq Admitted /\ acc.right \subseteq acc.kept
      /\ Admitted # {} => acc.kept # {}
      /\ ~conf.timeouts =>
           /\ acc.right = acc.kept
           /\ \A i \in Admitted \ acc.kept :
                op.deref /\ Cardinality({Pointer[k] : k \in Admitted} \ {Pointer[i]}) >= MaxPtr
  BY <1>3, AccessesType
<1> DEFINE eff == Effected(acc.kept, acc.right, junk)
           st == FallThrough(op, eff)
<1>12. HasEffect(eff, acc.kept, acc.right)
  <2>1. acc.kept \in SUBSET Input
    BY <1>3, <1>4
  <2> QED BY <2>1, EffectedType, Zenon
<1> HIDE DEF eff
<1>5. /\ eff \in SymState /\ eff.pi = acc.kept /\ eff.stray = s.stray \cup (acc.kept \ acc.right)
      /\ eff.depth = s.depth /\ eff.live = s.live
  BY <1>12 DEF HasEffect
<1>6. \A i \in Input : i \notin acc.kept \ acc.right =>
        ConfigIn(eff, i) = [ConfigOf(cur, i) EXCEPT !.val = op.eff[@]]
  <2>1. MovedConfigs(eff, acc.kept, acc.right)
    BY <1>12, EffectedConfig, Zenon
  <2> QED BY <2>1, Zenon DEF MovedConfigs
<1>7. /\ st \in SymState /\ st.pi = eff.pi /\ st.stray = eff.stray /\ st.live = eff.live
      /\ st.depth = IF op.last THEN s.depth + 1 ELSE s.depth
  <2>1. st \in SymState
    BY <1>3, <1>5, FallThroughType
  <2> QED BY <1>5, <2>1 DEF FallThrough, SymState
<1>8. \A i \in Input : ConfigIn(st, i) = FallThrough(op, ConfigIn(eff, i))
  BY <1>5, FallThroughConfig
<1> HIDE DEF st
<1>9. Part(st)
  <2>1. ASSUME NEW i \in st.pi \ st.stray
        PROVE  i \notin s.stray /\ ConfigIn(st, i) = StepOf(job, ConfigOf(cur, i))
    <3>1. i \in Input /\ i \notin s.stray /\ i \notin acc.kept \ acc.right
      BY <1>3, <1>4, <1>5, <1>7
    <3>2. ConfigIn(st, i) = FallThrough(op, [ConfigOf(cur, i) EXCEPT !.val = op.eff[@]])
      BY <1>6, <1>8, <3>1
    <3> QED BY <1>3, <3>1, <3>2, ConcreteStep
  <2>2. s.stray = {} /\ Exact(job) => st.stray = {}
    BY <1>4, <1>5, <1>7 DEF Exact, conf
  <2> QED BY <1>3, <1>4, <1>5, <1>7, <2>1, <2>2 DEF Part
<1>10. Feasible(st)
  BY <1>4, <1>5, <1>7 DEF Feasible, Admitted
<1>11. ASSUME Exact(job), NEW i \in s.pi
       PROVE  LimitHere(i) \/ i \in st.pi
  <2>1. ~conf.timeouts
    BY <1>11 DEF Exact, conf
  <2>2. CASE i \notin Admitted
    BY <1>3, <2>2, LimitsHere DEF Admitted
  <2>3. CASE i \in Admitted /\ i \notin acc.kept
    BY <1>3, <1>4, <2>1, <2>3, LimitsHere
  <2> QED BY <1>5, <1>7, <2>2, <2>3
<1> QED BY <1>2, <1>5, <1>7, <1>9, <1>10, <1>11 DEF st, eff

\* A computed jump has a part for every destination.
LEMMA JumpForks ==
  ASSUME TypeOK, phase = "exec", ForkIP
  PROVE  \E f, st : Forks(f, st) /\ ForkTo(f, st)
<1>1. PICK D \in Dests :
        /\ Cardinality(D) < MaxDest
        /\ \E q \in Orders(D), f \in FreeIds(Cardinality(D)) :
             ForkTo(f, [k \in DOMAIN q |-> At(q[k])])
  BY DEF ForkIP
<1> DEFINE n == Cardinality(D)
<1>2. PICK q \in Orders(D), f \in FreeIds(n) : ForkTo(f, [k \in DOMAIN q |-> At(q[k])])
  BY <1>1
<1>3. /\ cur \in Id /\ s \in SymState /\ s.pi \subseteq Input /\ Target \in [Input -> Addr]
      /\ op.kind \in Indirect /\ MaxDest \in Nat
  BY OpType, TargetType, IdAssumption DEF SymState, ForkIP, SymbolicIP, Executing
<1>4. /\ D \subseteq Addr /\ n \in Nat
      /\ s.pi # {} => \A a \in D : \E i \in s.pi : Target[i] = a
      /\ s.pi # {} /\ ~conf.timeouts => \A i \in s.pi : Target[i] \in D
  <2>1. D \in Upto(Target, s.pi, MaxDest) /\ s.pi \in SUBSET Input
    BY <1>3 DEF Dests
  <2>2. Values(Target, s.pi, MaxDest, D)
    BY <1>3, <2>1, UptoType, Zenon
  <2> QED BY <1>1, <1>3, <2>2 DEF Values
<1>5. /\ q \in [1..n -> D] /\ DOMAIN q = 1..n
      /\ \A a \in D : \E k \in DOMAIN q : q[k] = a
      /\ \A k, l \in DOMAIN q : q[k] = q[l] => k = l
  BY <1>4, OrdersType
<1>6. /\ f \in Seq(Id) /\ DOMAIN f = 1..n
      /\ \A k \in 1..n : f[k] \in Id /\ ~heap[f[k]].live /\ f[k] # cur
      /\ \A k, l \in 1..n : f[k] = f[l] => k = l
  BY <1>4, FreeIdsType
<1> DEFINE st == [k \in DOMAIN q |-> At(q[k])]
<1>7. ASSUME NEW a \in D
      PROVE  /\ Part(At(a)) /\ Feasible(At(a)) /\ At(a).live = TRUE /\ At(a).depth = s.depth + 1
             /\ At(a).pi = {i \in s.pi : Target[i] = a}
  <2>1. a \in Addr /\ Clone(s) \in SymState /\ Goto(Clone(s), a) \in SymState
    BY <1>3, <1>4, CloneType, GotoType
  <2>2. /\ At(a) \in SymState /\ At(a).pi = {i \in s.pi : Target[i] = a} /\ At(a).live = TRUE
        /\ At(a).depth = s.depth + 1 /\ At(a).stray = s.stray
    <3>1. /\ Goto(Clone(s), a).depth = s.depth + 1 /\ Goto(Clone(s), a).live = TRUE
          /\ Goto(Clone(s), a).stray = s.stray
      BY <1>3, <2>1 DEF Goto, Clone, SymState
    <3> QED BY <2>1, <3>1, AtType DEF At, SymState
  <2>3. ASSUME NEW i \in s.pi, Target[i] = a
        PROVE  ConfigIn(At(a), i) = StepOf(job, ConfigOf(cur, i))
    <3> DEFINE c == ConfigOf(cur, i)
    <3>1. c = ConfigIn(s, i) /\ c.val = s.val[i]
      BY StepOfCur
    <3>2. op.tgt[s.val[i]] = a
      BY <1>3, <2>3 DEF Target
    <3>3. StepOf(job, c) = Goto(c, a)
      BY <1>3, <3>1, <3>2, ConcreteStep
    <3>4. ConfigIn(At(a), i) = ConfigIn(Goto(Clone(s), a), i)
      BY <2>1, SameConfig DEF At
    <3>5. ConfigIn(Goto(Clone(s), a), i) = Goto(ConfigIn(Clone(s), i), a)
      BY <2>1, GotoConfig
    <3>6. ConfigIn(Clone(s), i) = c
      BY <1>3, <3>1, SameConfig
    <3> QED BY <3>3, <3>4, <3>5, <3>6
  <2>4. Part(At(a))
    BY <2>2, <2>3 DEF Part
  <2>5. Feasible(At(a))
    BY <1>4, <2>2 DEF Feasible
  <2> QED BY <2>2, <2>4, <2>5
<1>8. DOMAIN st = 1..n /\ \A k \in 1..n : st[k] = At(q[k]) /\ q[k] \in D
  BY <1>5
<1> HIDE DEF n, st
<1>12. \A k \in 1..n :
         /\ Part(st[k]) /\ Feasible(st[k]) /\ st[k].live = TRUE /\ st[k].depth = s.depth + 1
         /\ st[k].pi = {i \in s.pi : Target[i] = q[k]}
  <2> TAKE k \in 1..n
  <2>1. st[k] = At(q[k]) /\ q[k] \in D
    BY <1>8
  <2> QED BY <2>1, <1>7, Zenon
<1>9. ASSUME NEW k \in DOMAIN f, NEW l \in DOMAIN f, NEW i \in st[k].pi, i \in st[l].pi
      PROVE  k = l
  <2>1. Target[i] = q[k] /\ Target[i] = q[l]
    BY <1>6, <1>9, <1>12
  <2> QED BY <1>5, <1>6, <2>1
<1>10. ASSUME Exact(job), NEW i \in s.pi
       PROVE  \E k \in DOMAIN f : i \in st[k].pi
  <2>1. Target[i] \in D
    BY <1>4, <1>10 DEF Exact, conf
  <2>2. PICK k \in 1..n : q[k] = Target[i]
    BY <1>5, <2>1
  <2> QED BY <1>6, <1>12, <2>2
<1>11. Forks(f, st)
  <2>1. f \in Seq(Id) /\ DOMAIN st = DOMAIN f
    BY <1>6, <1>8
  <2>2. \A k, l \in DOMAIN f : f[k] = f[l] => k = l
    BY <1>6
  <2>3. \A k \in DOMAIN f :
          /\ f[k] \in Id /\ (f[k] = cur \/ ~heap[f[k]].live)
          /\ Part(st[k]) /\ Feasible(st[k]) /\ st[k].depth = s.depth + 1
          /\ IF f[k] = cur THEN st[k].live = s.live ELSE st[k].live = TRUE
    BY <1>6, <1>12
  <2> QED BY <1>9, <1>10, <2>1, <2>2, <2>3, Zenon DEF Forks
<1> QED BY <1>2, <1>11 DEF st

\* A model has a part for every end of its string that it keeps.
LEMMA ReturnForks ==
  ASSUME TypeOK, phase = "exec", LibReturn
  PROVE  \E f, st : Forks(f, st) /\ ForkTo(f, st)
<1>1. PICK a \in Addr, took \in Took :
        /\ TRUE \in FoldsTo(Target, a)
        /\ \E K \in Kept(took) :
           \E q \in Orders(K), acc \in AccessesAt(K, took), f \in Successors(Cardinality(K)) :
             LET kept == UNION {acc[e].kept : e \in K}
                 sure == {i \in UNION {acc[e].right : e \in K} : took[i] = Way[i]}
             IN \E right \in IF op.mixes THEN SUBSET sure ELSE {sure} :
                \E junk \in Junk(kept, right) :
                  LET st == Effected(kept, right, junk)
                  IN ForkTo(f, [k \in DOMAIN q |-> Returned(st, f[k], a, acc[q[k]].kept)])
  BY DEF LibReturn
<1>2. PICK K \in Kept(took) :
        \E q \in Orders(K), acc \in AccessesAt(K, took), f \in Successors(Cardinality(K)) :
          LET kept == UNION {acc[e].kept : e \in K}
              sure == {i \in UNION {acc[e].right : e \in K} : took[i] = Way[i]}
          IN \E right \in IF op.mixes THEN SUBSET sure ELSE {sure} :
             \E junk \in Junk(kept, right) :
               LET st == Effected(kept, right, junk)
               IN ForkTo(f, [k \in DOMAIN q |-> Returned(st, f[k], a, acc[q[k]].kept)])
  BY <1>1
<1>3. PICK q \in Orders(K), acc \in AccessesAt(K, took), f \in Successors(Cardinality(K)) :
          LET kept == UNION {acc[e].kept : e \in K}
              sure == {i \in UNION {acc[e].right : e \in K} : took[i] = Way[i]}
          IN \E right \in IF op.mixes THEN SUBSET sure ELSE {sure} :
             \E junk \in Junk(kept, right) :
               LET st == Effected(kept, right, junk)
               IN ForkTo(f, [k \in DOMAIN q |-> Returned(st, f[k], a, acc[q[k]].kept)])
  BY <1>2
<1> DEFINE n == Cardinality(K)
           kept == UNION {acc[e].kept : e \in K}
           all == UNION {acc[e].right : e \in K}
           sure == {i \in all : took[i] = Way[i]}
<1>4. PICK right \in IF op.mixes THEN SUBSET sure ELSE {sure} :
             \E junk \in Junk(kept, right) :
               ForkTo(f, [k \in DOMAIN q |->
                            Returned(Effected(kept, right, junk), f[k], a, acc[q[k]].kept)])
  BY <1>3
<1>5. PICK junk \in Junk(kept, right) :
               ForkTo(f, [k \in DOMAIN q |->
                            Returned(Effected(kept, right, junk), f[k], a, acc[q[k]].kept)])
  BY <1>4
<1>6. /\ cur \in Id /\ s \in SymState /\ op \in Op /\ Admitted \subseteq s.pi /\ s.pi \subseteq Input
      /\ op.kind = "LIBRET"
  BY OpType, PlacesType DEF LibReturn, Executing
<1>7. /\ took \in [Admitted -> StringEnds]
      /\ K # {} /\ IsFiniteSet(K) /\ n \in Nat
      /\ Admitted # {} => \A e \in K : \E i \in Admitted : took[i] = e
      /\ ~conf.timeouts => /\ \A i \in Admitted : took[i] = Way[i]
                           /\ \A i \in Admitted : took[i] \in K \/ n > op.forks
  BY KeptType
<1>8. n \in Nat \ {0}
  BY <1>7, FS_EmptySet
<1>9. /\ q \in [1..n -> K] /\ DOMAIN q = 1..n
      /\ \A e \in K : \E k \in DOMAIN q : q[k] = e
      /\ \A k, l \in DOMAIN q : q[k] = q[l] => k = l
  BY <1>7, OrdersType
<1>10. /\ f \in Seq(Id) /\ DOMAIN f = 1..n
       /\ \A k \in 1..n : f[k] \in Id /\ (f[k] = cur \/ ~heap[f[k]].live)
       /\ \A k, l \in 1..n : f[k] = f[l] => k = l
  BY <1>8, SuccessorsType
<1> DEFINE At1(e) == {i \in Admitted : took[i] = e}
<1>11. ASSUME NEW e \in K
       PROVE  /\ acc[e].kept \subseteq At1(e) /\ acc[e].right \subseteq acc[e].kept
              /\ At1(e) # {} => acc[e].kept # {}
              /\ ~conf.timeouts =>
                   /\ acc[e].right = acc[e].kept
                   /\ \A i \in At1(e) \ acc[e].kept :
                        op.deref /\ Cardinality({Pointer[k] : k \in At1(e)} \ {Pointer[i]}) >= MaxPtr
  <2>1. acc[e] \in Accesses(At1(e))
    BY DEF AccessesAt
  <2>2. At1(e) \in SUBSET s.pi
    BY <1>6
  <2> HIDE DEF At1
  <2> QED BY <2>1, <2>2, AccessesType
<1>12. \A e \in K : acc[e].kept \subseteq kept
  OBVIOUS
<1>13. kept \subseteq Admitted /\ all \subseteq kept /\ kept \in SUBSET Input
  BY <1>6, <1>11
<1>14. ~conf.timeouts => sure = kept
  <2> SUFFICES ASSUME ~conf.timeouts PROVE sure = kept
    OBVIOUS
  <2>1. all = kept
    BY <1>11
  <2>2. \A i \in kept : took[i] = Way[i]
    BY <1>7, <1>13
  <2> QED BY <2>1, <2>2
<1>15. Exact(job) => ~conf.timeouts /\ ~op.mixes
  <2>1. heap[cur].pc \in Addr
    BY <1>6 DEF s, SymState
  <2> QED BY <2>1 DEF Exact, conf, op
<1>16. right \subseteq sure /\ (Exact(job) => right = kept)
  BY <1>4, <1>14, <1>15
<1> HIDE DEF At1
<1> DEFINE eff == Effected(kept, right, junk)
           st == [k \in DOMAIN q |-> Returned(eff, f[k], a, acc[q[k]].kept)]
<1>17. /\ eff \in SymState /\ eff.stray = s.stray \cup (kept \ right)
       /\ eff.depth = s.depth /\ eff.live = s.live
       /\ \A i \in Input : i \notin kept \ right =>
            ConfigIn(eff, i) = [ConfigOf(cur, i) EXCEPT !.val = op.eff[@]]
  <2> HIDE DEF kept, all, sure
  <2>1. HasEffect(eff, kept, right)
    BY <1>13, EffectedType, Zenon
  <2> HIDE DEF eff
  <2>2. \A i \in Input : i \notin kept \ right =>
          ConfigIn(eff, i) = [ConfigOf(cur, i) EXCEPT !.val = op.eff[@]]
    <3>1. MovedConfigs(eff, kept, right)
      BY <2>1, EffectedConfig, Zenon
    <3> QED BY <3>1, Zenon DEF MovedConfigs
  <2> QED BY <2>1, <2>2 DEF HasEffect
<1>18. ForkTo(f, st)
  BY <1>5
<1> HIDE DEF n, kept, all, sure, eff
<1>19. DOMAIN st = 1..n /\ \A k \in 1..n : q[k] \in K /\ st[k] = Returned(eff, f[k], a, acc[q[k]].kept)
  BY <1>9
<1> HIDE DEF st
<1>20. ASSUME NEW k \in 1..n
       PROVE  /\ st[k] \in SymState /\ st[k].pi = acc[q[k]].kept /\ st[k].stray = eff.stray
              /\ st[k].val = eff.val /\ st[k].pc = a /\ st[k].depth = s.depth + 1
              /\ IF f[k] = cur THEN st[k].live = s.live ELSE st[k].live = TRUE
  <2>1. acc[q[k]].kept \in SUBSET Input
    BY <1>12, <1>13, <1>19
  <2>2. st[k] = Returned(eff, f[k], a, acc[q[k]].kept) /\ eff \in SymState
    BY <1>17, <1>19
  <2>3. IsReturned(Returned(eff, f[k], a, acc[q[k]].kept), eff, f[k], a, acc[q[k]].kept)
    BY <2>1, <2>2, ReturnedType, Zenon
  <2> QED BY <1>17, <2>2, <2>3 DEF IsReturned
<1>21. ASSUME NEW k \in 1..n
       PROVE  Part(st[k])
  <2>1. st[k].pi \subseteq kept /\ st[k].pi \subseteq s.pi
    BY <1>6, <1>12, <1>13, <1>19, <1>20
  <2>2. s.stray = {} /\ Exact(job) => st[k].stray = {}
    BY <1>16, <1>17, <1>20
  <2>3. ASSUME NEW i \in st[k].pi \ st[k].stray
        PROVE  i \notin s.stray /\ ConfigIn(st[k], i) = StepOf(job, ConfigOf(cur, i))
    <3> DEFINE c == ConfigOf(cur, i)
    <3>1. i \in Input /\ i \notin s.stray /\ i \notin kept \ right
      BY <1>6, <1>17, <1>20, <2>1
    <3>2. ConfigIn(eff, i) = [c EXCEPT !.val = op.eff[@]]
      BY <1>17, <3>1
    <3>3. ConfigIn(st[k], i) = ConfigIn(Goto(eff, a), i)
      <4>1. Goto(eff, a).pc = a /\ Goto(eff, a).val = eff.val /\ Goto(eff, a).depth = s.depth + 1
        BY <1>17 DEF Goto, SymState
      <4> QED BY <1>20, <4>1 DEF ConfigIn
    <3>4. ConfigIn(Goto(eff, a), i) = Goto(ConfigIn(eff, i), a)
      BY <1>17, GotoConfig
    <3>5. c.val = s.val[i] /\ op.tgt[s.val[i]] = a
      BY <1>1, <3>1, StepOfCur DEF FoldsTo, MayFold, Target
    <3>6. StepOf(job, c) = Goto([c EXCEPT !.val = op.eff[@]], a)
      BY <1>6, <3>5, ConcreteStep
    <3> QED BY <3>1, <3>2, <3>3, <3>4, <3>6
  <2> QED BY <1>20, <2>1, <2>2, <2>3 DEF Part
<1>22. ASSUME NEW k \in 1..n
       PROVE  Feasible(st[k])
  <2> SUFFICES ASSUME ~conf.printable, s.pi # {} PROVE st[k].pi # {}
    BY DEF Feasible
  <2>1. Admitted # {}
    BY DEF Admitted
  <2>2. At1(q[k]) # {}
    BY <1>7, <1>19, <2>1 DEF At1
  <2> QED BY <1>11, <1>19, <1>20, <2>2
<1>23. ASSUME NEW k \in DOMAIN f, NEW l \in DOMAIN f, NEW i \in st[k].pi, i \in st[l].pi
       PROVE  k = l
  <2>1. i \in At1(q[k]) /\ i \in At1(q[l])
    BY <1>10, <1>11, <1>19, <1>20, <1>23
  <2>2. q[k] = q[l]
    BY <2>1 DEF At1
  <2> QED BY <1>9, <1>10, <2>2
<1>24. ASSUME Exact(job), NEW i \in s.pi
       PROVE  LimitHere(i) \/ \E k \in DOMAIN f : i \in st[k].pi
  <2>1. CASE i \notin Admitted
    BY <1>6, <2>1, LimitsHere DEF Admitted
  <2>2. CASE i \in Admitted /\ took[i] \notin K
    <3>1. took[i] = Way[i] /\ n > op.forks
      BY <1>7, <1>15, <1>24, <2>2
    <3>2. K \in SUBSET {Way[k] : k \in s.pi}
      BY <1>6, <1>7, <1>15, <1>24, <2>2
    <3> QED BY <1>6, <2>2, <3>1, <3>2, LimitsHere DEF n
  <2>3. CASE i \in Admitted /\ took[i] \in K /\ i \notin acc[took[i]].kept
    <3>1. i \in At1(took[i]) /\ At1(took[i]) \in SUBSET s.pi
      BY <1>6, <2>3 DEF At1
    <3>2. op.deref /\ Cardinality({Pointer[k] : k \in At1(took[i])} \ {Pointer[i]}) >= MaxPtr
      BY <1>11, <1>15, <1>24, <2>3, <3>1
    <3> QED BY <1>6, <3>1, <3>2, LimitsHere
  <2>4. CASE i \in Admitted /\ took[i] \in K /\ i \in acc[took[i]].kept
    <3>1. PICK k \in 1..n : q[k] = took[i]
      BY <1>9, <2>4
    <3>2. st[k].pi = acc[q[k]].kept
      BY <1>20
    <3> QED BY <1>10, <2>4, <3>1, <3>2
  <2> QED BY <2>1, <2>2, <2>3, <2>4
<1>25. Forks(f, st)
  BY <1>10, <1>19, <1>20, <1>21, <1>22, <1>23, <1>24 DEF Forks
<1> QED BY <1>18, <1>25

\* Where the objects are after a fork.
LEMMA ForkHeap ==
  ASSUME TypeOK, phase = "exec", NEW f, NEW st, Forks(f, st), ForkTo(f, st)
  PROVE  /\ heap' \in [Id -> SymState] /\ act' = act \o f /\ act' \in Seq(Id)
         /\ \A k \in DOMAIN f : heap'[f[k]] = st[k]
         /\ \A id \in Id : (\A k \in DOMAIN f : f[k] # id) =>
                             heap'[id] = IF id = cur THEN Blank ELSE heap[id]
<1>1. /\ cur \in Id /\ heap \in [Id -> SymState] /\ act \in Seq(Id) /\ Blank \in SymState
  BY OpType, BlankType DEF TypeOK
<1>2. /\ f \in Seq(Id) /\ DOMAIN st = DOMAIN f
      /\ \A k, l \in DOMAIN f : f[k] = f[l] => k = l
      /\ \A k \in DOMAIN f : f[k] \in Id /\ st[k] \in SymState
  BY DEF Forks, Part
<1>3. ASSUME NEW k \in DOMAIN f PROVE heap'[f[k]] = st[k]
  <2>1. (CHOOSE l \in DOMAIN f : f[l] = f[k]) = k
    BY <1>2
  <2> QED BY <1>2, <2>1 DEF ForkTo
<1>4. ASSUME NEW id \in Id, \A k \in DOMAIN f : f[k] # id
      PROVE  heap'[id] = IF id = cur THEN Blank ELSE heap[id]
  BY <1>4 DEF ForkTo
<1>5. ASSUME NEW id \in Id PROVE heap'[id] \in SymState
  <2>1. CASE \E k \in DOMAIN f : f[k] = id
    BY <1>2, <1>3, <2>1
  <2>2. CASE \A k \in DOMAIN f : f[k] # id
    BY <1>1, <1>4, <2>2
  <2> QED BY <2>1, <2>2
<1>6. heap' \in [Id -> SymState]
  BY <1>5 DEF ForkTo
<1>7. act' = act \o f /\ act' \in Seq(Id)
  BY <1>1, <1>2, ConcatProperties DEF ForkTo
<1> QED BY <1>3, <1>4, <1>6, <1>7

-----------------------------------------------------------------------------
LEMMA ExecTypeStep == TypeOK /\ ExecuteOp => ExecTypes
<1> SUFFICES ASSUME TypeOK, ExecuteOp PROVE ExecTypes
  OBVIOUS
<1> USE DEF Executing
<1>1. phase = "exec"
  BY DEF ExecuteOp, DataOp, UnsatState, CBranchLazy, CBranchEager, DirectJump, ConstantIP,
         SymbolicIP, UnsatIP, UnconstrainedIP, ForkIP, LibReturn, LibExit, ExitFail
<1>2. /\ op \in Op /\ s \in SymState /\ cur \in Id /\ Blank \in SymState /\ job \in Job
      /\ heap \in [Id -> SymState] /\ act \in Seq(Id) /\ ext \in Seq(Id)
  BY <1>1, OpType, BlankType DEF TypeOK
<1>3. CASE DataOp
  <2>1. heap' \in [Id -> SymState]
    BY <1>1, <1>2, <1>3, DataPart
  <2> QED BY <1>1, <1>2, <1>3, <2>1, ContinueType DEF DataOp, ExecTypes
<1>4. CASE UnsatState \/ UnsatIP
  BY <1>2, <1>4 DEF UnsatState, UnsatIP, NoState, ExecTypes
<1>5. ASSUME NEW taken, NEW notTaken, Branch(taken, notTaken), UNCHANGED <<job, ext>>
      PROVE  ExecTypes
  <2>1. PICK f \in FreeIds(1) :
          LET acts == IF taken THEN Append(act, f[1]) ELSE act
          IN /\ heap' = [heap EXCEPT ![f[1]] = IF taken THEN Taken(s) ELSE Blank,
                                     ![cur]  = IF notTaken THEN NotTaken(s) ELSE Blank]
             /\ IF notTaken THEN Continue(acts) ELSE act' = acts /\ NoState
    BY <1>5 DEF Branch
  <2> DEFINE acts == IF taken THEN Append(act, f[1]) ELSE act
  <2>2. f[1] \in Id
    BY FreeIdsType
  <2>3. acts \in Seq(Id)
    BY <1>2, <2>2, AppendProperties
  <2>4. heap' \in [Id -> SymState]
    BY <1>1, <1>2, <2>1, TakenType
  <2>5. /\ act' \in Seq(Id)
        /\ phase' \in {"exec", "sift"} /\ cur' \in Id \cup {NoId}
        /\ phase' = "exec" => cur' \in Id
    <3> HIDE DEF acts
    <3>1. IF notTaken THEN Continue(acts) ELSE act' = acts /\ NoState
      BY <2>1 DEF acts
    <3> QED BY <1>1, <2>3, <3>1, ContinueType DEF NoState
  <2> QED BY <1>2, <1>5, <2>4, <2>5 DEF ExecTypes
<1>6. CASE CBranchLazy \/ CBranchEager
  BY <1>5, <1>6 DEF CBranchLazy, CBranchEager
<1>7. CASE DirectJump
  <2>1. Goto(Recorded(s), op.dst) \in SymState
    BY <1>1, <1>2, RecordedType, GotoType DEF Op
  <2> QED BY <1>1, <1>2, <1>7, <2>1, PushType DEF DirectJump, ExecTypes
<1>8. CASE ConstantIP
  <2>1. PICK a \in Addr : heap' = [heap EXCEPT ![cur] = Goto(Recorded(s), a)]
    BY <1>8 DEF ConstantIP
  <2>2. Goto(Recorded(s), a) \in SymState
    BY <1>1, <1>2, RecordedType, GotoType
  <2> QED BY <1>1, <1>2, <1>8, <2>1, <2>2, PushType DEF ConstantIP, ExecTypes
<1>9. CASE UnconstrainedIP
  <2>1. Recorded(s) \in SymState /\ Append(ext, cur) \in Seq(Id)
    BY <1>1, <1>2, RecordedType, AppendProperties
  <2> QED BY <1>2, <1>9, <2>1 DEF UnconstrainedIP, NoState, ExecTypes
<1>10. CASE ForkIP \/ LibReturn
  <2>1. PICK f, st : Forks(f, st) /\ ForkTo(f, st)
    BY <1>1, <1>10, JumpForks, ReturnForks
  <2>2. heap' \in [Id -> SymState] /\ act' \in Seq(Id)
    BY <1>1, <2>1, ForkHeap
  <2>3. NoState /\ job' = job /\ ext' = ext
    BY <1>10 DEF ForkIP, LibReturn
  <2> QED BY <1>2, <2>2, <2>3 DEF NoState, ExecTypes
<1>12. CASE LibExit
  <2>1. Append(ext, cur) \in Seq(Id)
    BY <1>2, AppendProperties
  <2> QED BY <1>2, <1>12, <2>1 DEF LibExit, NoState, ExecTypes
<1>13. CASE ExitFail
  BY <1>2, <1>13 DEF ExitFail, ExecTypes
<1> QED BY <1>3, <1>4, <1>6, <1>7, <1>8, <1>9, <1>10, <1>12, <1>13 DEF ExecuteOp

LEMMA NextQueueType ==
  ASSUME TypeOK, ~NothingPending(frontier)
  PROVE  /\ Next1(frontier) \in Id
         /\ Rest(frontier) \in [main: Seq(Id), context: Seq(Id), other: Seq(Id),
                                addrs: SUBSET Addr, contexts: SUBSET (Addr \X Seq(Addr))]
<1> DEFINE q == frontier[NextQueue(frontier)]
<1>1. NextQueue(frontier) \in {"main", "context", "other"}
  BY DEF NextQueue
<1>2. q \in Seq(Id) /\ q # <<>>
  BY <1>1 DEF TypeOK, NothingPending
<1>3. Len(q) \in Nat \ {0}
  BY <1>2, EmptySeq
<1>4. \A k \in 1..Len(q) : q[k] \in Id
  BY <1>2, ElementOfSeq
<1>5. q[Len(q)] \in Id
  BY <1>3, <1>4
<1>6. SubSeq(q, 1, Len(q) - 1) \in Seq(Id)
  <2>1. \A k \in 1..(Len(q) - 1) : q[k] \in Id
    BY <1>3, <1>4
  <2> HIDE DEF q
  <2> QED BY <1>3, <2>1, SubSeqProperties
<1>7. Rest(frontier) = [frontier EXCEPT ![NextQueue(frontier)] = SubSeq(q, 1, Len(q) - 1)]
  BY <1>1 DEF Rest, TypeOK
<1>8. Next1(frontier) = q[Len(q)]
  BY DEF Next1
<1> HIDE DEF q
<1> QED BY <1>1, <1>5, <1>6, <1>7, <1>8 DEF TypeOK

LEMMA PickType ==
  ASSUME NEW states \in Seq(Id), states # <<>>, NEW tech, NEW k \in Picks(tech, states)
  PROVE  states[k] \in Id /\ Without(states, k) \in Seq(Id)
<1>1. Len(states) \in Nat \ {0}
  BY EmptySeq
<1>2. k \in 1..Len(states)
  BY <1>1 DEF Picks
<1>3. \A n \in 1..Len(states) : states[n] \in Id
  BY ElementOfSeq
<1>4. SubSeq(states, 1, k - 1) \in Seq(Id)
  <2>1. \A n \in 1..(k - 1) : states[n] \in Id
    BY <1>1, <1>2, <1>3
  <2> QED BY <1>1, <1>2, <2>1, SubSeqProperties
<1>5. SubSeq(states, k + 1, Len(states)) \in Seq(Id)
  <2>1. \A n \in (k + 1)..Len(states) : states[n] \in Id
    BY <1>1, <1>2, <1>3
  <2> QED BY <1>1, <1>2, <2>1, SubSeqProperties
<1> QED BY <1>2, <1>3, <1>4, <1>5, ConcatProperties DEF Without

LEMMA AddType ==
  ASSUME TypeOK, NEW id \in Id, NEW tech
  PROVE  Add(tech, frontier, id, heap[id].pc, heap[id].calls)
           \in [main: Seq(Id), context: Seq(Id), other: Seq(Id),
                addrs: SUBSET Addr, contexts: SUBSET (Addr \X Seq(Addr))]
<1> DEFINE pc == heap[id].pc
           calls == heap[id].calls
           q == CovQueue(frontier, pc, calls)
<1>1. pc \in Addr /\ calls \in Seq(Addr)
  BY DEF TypeOK, SymState
<1>2. q \in {"main", "context", "other"}
  BY DEF CovQueue
<1>3. frontier[q] \in Seq(Id) /\ frontier.main \in Seq(Id)
  BY <1>2 DEF TypeOK
<1>4. /\ Append(frontier[q], id) \in Seq(Id)
      /\ Append(frontier.main, id) \in Seq(Id)
      /\ <<id>> \o frontier.main \in Seq(Id)
  <2>1. <<id>> \in Seq(Id)
    OBVIOUS
  <2> QED BY <1>3, <2>1, AppendProperties, ConcatProperties
<1>5. frontier.addrs \cup {pc} \in SUBSET Addr
  BY <1>1 DEF TypeOK
<1>6. frontier.contexts \cup {<<pc, calls>>} \in SUBSET (Addr \X Seq(Addr))
  BY <1>1 DEF TypeOK
<1> HIDE DEF pc, calls, q
<1> DEFINE F == [main: Seq(Id), context: Seq(Id), other: Seq(Id),
                 addrs: SUBSET Addr, contexts: SUBSET (Addr \X Seq(Addr))]
           new == [frontier EXCEPT ![q] = Append(frontier[q], id),
                                   !.addrs = frontier.addrs \cup {pc},
                                   !.contexts = frontier.contexts \cup {<<pc, calls>>}]
           back == [frontier EXCEPT !.main = Append(frontier.main, id)]
           front == [frontier EXCEPT !.main = <<id>> \o frontier.main]
<1>7. frontier \in F
  BY DEF TypeOK
<1>8. new \in F
  <2> DEFINE A == frontier.addrs \cup {pc}
             C == frontier.contexts \cup {<<pc, calls>>}
             Q == Append(frontier[q], id)
  <2>1. A \in SUBSET Addr /\ C \in SUBSET (Addr \X Seq(Addr)) /\ Q \in Seq(Id)
    BY <1>4, <1>5, <1>6
  <2>2. new = [frontier EXCEPT ![q] = Q, !.addrs = A, !.contexts = C]
    OBVIOUS
  <2> HIDE DEF A, C, Q, new
  <2>3. CASE q = "main"
    BY <1>7, <2>1, <2>2, <2>3
  <2>4. CASE q = "context"
    BY <1>7, <2>1, <2>2, <2>4
  <2>5. CASE q = "other"
    BY <1>7, <2>1, <2>2, <2>5
  <2> QED BY <1>2, <2>3, <2>4, <2>5
<1>9. back \in F /\ front \in F
  BY <1>4, <1>7
<1>10. Add(tech, frontier, id, pc, calls) \in {new, back, front}
  <2>1. CASE tech = "bfs"
    BY <2>1 DEF Add
  <2>2. CASE tech = "cov"
    BY <2>2 DEF Add, q
  <2>3. CASE tech # "bfs" /\ tech # "cov"
    BY <2>3 DEF Add
  <2> QED BY <2>1, <2>2, <2>3
<1> HIDE DEF F, new, back, front
<1>11. Add(tech, frontier, id, pc, calls) \in F
  BY <1>8, <1>9, <1>10
<1> QED BY <1>11 DEF F, pc, calls

LEMMA TypeInit == Init => TypeOK
<1> SUFFICES ASSUME Init PROVE TypeOK
  OBVIOUS
<1>1. FirstId \in Id
  BY IdAssumption DEF FirstId
<1>2. job \in Job /\ conf \in JobConf /\ Blank \in SymState
  BY ConfType, BlankType DEF Init
<1>3. [Blank EXCEPT !.pi = Input, !.live = TRUE] \in SymState
  BY <1>2 DEF SymState
<1>4. heap \in [Id -> SymState]
  BY <1>2, <1>3 DEF Init
<1>5. <<FirstId>> \in Seq(Id) /\ <<>> \in Seq(Id) /\ <<>> \in Seq(Addr)
  BY <1>1
<1>6. conf.entry \in Addr
  BY <1>2 DEF JobConf
<1>7. {<<conf.entry, <<>>>>} \in SUBSET (Addr \X Seq(Addr)) /\ {conf.entry} \in SUBSET Addr
  <2> DEFINE none == <<>>
             contexts == Addr \X Seq(Addr)
  <2>1. <<conf.entry, none>> \in contexts
    <3>1. none \in Seq(Addr)
      BY EmptySeq
    <3> HIDE DEF none
    <3> QED BY <1>6, <3>1
  <2> HIDE DEF contexts
  <2>2. {<<conf.entry, none>>} \in SUBSET contexts
    BY <2>1, Zenon
  <2> QED BY <1>6, <2>2, Zenon DEF contexts
<1>8. frontier \in [main: Seq(Id), context: Seq(Id), other: Seq(Id),
                    addrs: SUBSET Addr, contexts: SUBSET (Addr \X Seq(Addr))]
  BY <1>5, <1>7 DEF Init, FirstFrontier
<1> QED BY <1>2, <1>4, <1>5, <1>8 DEF Init, TypeOK

LEMMA TypeStep == TypeOK /\ [Next]_vars => TypeOK'
<1> SUFFICES ASSUME TypeOK, [Next]_vars PROVE TypeOK'
  OBVIOUS
<1>1. CASE Select
  BY <1>1, NextQueueType DEF TypeOK, Select
<1>2. CASE Exhaust
  BY <1>2 DEF TypeOK, Exhaust, manager
<1>3. CASE ExecuteBlock
  BY <1>3, ExecTypeStep DEF TypeOK, ExecTypes, ExecuteBlock, manager
<1>4. CASE SiftExited
  <2>1. Head(ext) \in Id /\ Tail(ext) \in Seq(Id) /\ Blank \in SymState
    BY <1>4, HeadTailProperties, BlankType DEF TypeOK, SiftExited
  <2> QED BY <1>4, <2>1 DEF TypeOK, SiftExited
<1>5. CASE ReturnFound
  <2>1. <<>> \in Seq(Id) /\ Blank \in SymState
    BY BlankType DEF TypeOK
  <2> QED BY <1>5, <2>1 DEF TypeOK, ReturnFound
<1>6. CASE DropSuccessor
  <2>1. Tail(act) \in Seq(Id) /\ Blank \in SymState
    BY <1>6, HeadTailProperties, BlankType DEF TypeOK, DropSuccessor, Sifting
  <2> QED BY <1>6, <2>1 DEF TypeOK, DropSuccessor, manager
<1>7. CASE KeepSuccessor
  <2>1. PICK id \in Id : Sifting(id) /\ keep' = Append(keep, id)
    BY <1>7 DEF KeepSuccessor
  <2>2. Tail(act) \in Seq(Id) /\ Append(keep, id) \in Seq(Id)
    BY <2>1, HeadTailProperties, AppendProperties DEF TypeOK, Sifting
  <2> QED BY <1>7, <2>1, <2>2 DEF TypeOK, KeepSuccessor
<1>8. CASE AddActive
  <2>1. PICK k \in Picks(conf.tech, keep) :
          /\ frontier' = Add(conf.tech, frontier, keep[k], heap[keep[k]].pc,
                             heap[keep[k]].calls)
          /\ keep' = Without(keep, k)
    BY <1>8 DEF AddActive
  <2>2. keep[k] \in Id /\ keep' \in Seq(Id)
    BY <1>8, <2>1, PickType DEF AddActive, TypeOK
  <2>3. frontier' \in [main: Seq(Id), context: Seq(Id), other: Seq(Id),
                       addrs: SUBSET Addr, contexts: SUBSET (Addr \X Seq(Addr))]
    BY <2>1, <2>2, AddType
  <2> QED BY <1>8, <2>2, <2>3 DEF TypeOK, AddActive, exec
<1>9. CASE NextRound
  BY <1>9 DEF TypeOK, NextRound, manager
<1>10. CASE Finished \/ UNCHANGED vars
  BY <1>10 DEF TypeOK, Finished, vars, exec, manager
<1> QED BY <1>1, <1>2, <1>3, <1>4, <1>5, <1>6, <1>7, <1>8, <1>9, <1>10 DEF Next

\* Every State object, queue and result is well formed, in every program.
THEOREM TypeCorrect == Spec => []TypeOK
BY TypeInit, TypeStep, PTL DEF Spec

-----------------------------------------------------------------------------
(***************************************************************************)
(* Inputs.  The inductive invariant adds to the three properties that an   *)
(* object not in use stands for no input, so that a clone made over it     *)
(* takes nobody's place.                                                   *)
(***************************************************************************)
UnusedIsEmpty == \A id \in Id : ~heap[id].live => heap[id].pi = {}

IInv == TypeOK /\ UnusedIsEmpty /\ Sound /\ NoInputTwice

\* How a step of the executor moves the inputs: one is where it was, or one step
\* of its concrete run further than in cur, in one state only, unless it strays; when
\* the engine is exact it has disappeared only at a limit; and a step that loses inputs
\* of cur takes the others further.
Moves ==
  /\ job' = job
  /\ \A id \in Id : \A i \in Own(heap'[id]) :
       \/ i \in Own(heap[id]) /\ ConfigOf(id, i)' = ConfigOf(id, i)
       \/ i \in Own(heap[cur]) /\ ConfigOf(id, i)' = StepOf(job, ConfigOf(cur, i))
  /\ \A id \in Id : \A i \in heap'[id].pi : i \in heap[id].pi \/ i \in heap[cur].pi
  /\ \A a, b \in Id : \A i \in heap[cur].pi : i \in heap'[a].pi /\ i \in heap'[b].pi => a = b
  /\ \A id \in Id : ~heap'[id].live => heap'[id].pi = {}
  /\ Exact(job) => \A id \in Id : heap'[id].stray = {}
  /\ Exact(job) =>
       \A id \in Id : \A i \in heap[id].pi :
         (\E to \in Id : i \in heap'[to].pi) \/ (id = cur /\ LimitHere(i))
  /\ \/ \A i \in heap[cur].pi : \E to \in Id : i \in heap'[to].pi
     \/ \A id \in Id : \A i \in Own(heap'[id]) :
          i \in heap[cur].pi => ConfigOf(id, i)' = StepOf(job, ConfigOf(cur, i))

\* The objects T get a part of the current state, or nothing.
LEMMA PartsMove ==
  ASSUME IInv, phase = "exec", job' = job, NEW T \in SUBSET Id, cur \in T,
         \A id \in T : id = cur \/ ~heap[id].live,
         \A id \in Id \ T : heap'[id] = heap[id],
         \A id \in T : \/ Part(heap'[id]) /\ (heap'[id].live \/ heap'[id].live = s.live)
                       \/ heap'[id] = Blank,
         \A a, b \in T : \A i \in heap'[a].pi : i \in heap'[b].pi => a = b,
         Exact(job) => \A i \in s.pi : LimitHere(i) \/ \E id \in T : i \in heap'[id].pi
  PROVE  Moves
<1>1. /\ cur \in Id /\ s = heap[cur] /\ Blank.pi = {} /\ Blank.stray = {}
      /\ \A id \in Id : ~heap[id].live => heap[id].pi = {}
      /\ Exact(job) => \A id \in Id : heap[id].stray = {}
  BY OpType DEF s, Blank, IInv, UnusedIsEmpty, Sound
<1>2. \A id \in T : heap'[id].pi \subseteq s.pi
  BY <1>1 DEF Part
<1>3. ASSUME NEW id \in Id, NEW i \in Own(heap'[id])
      PROVE  \/ i \in Own(heap[id]) /\ ConfigOf(id, i)' = ConfigOf(id, i)
             \/ i \in Own(heap[cur]) /\ ConfigOf(id, i)' = StepOf(job, ConfigOf(cur, i))
  <2>1. CASE id \notin T
    BY <1>3, <2>1 DEF ConfigOf
  <2>2. CASE id \in T
    <3>1. Part(heap'[id]) /\ i \in heap'[id].pi \ heap'[id].stray
      BY <1>1, <1>3, <2>2 DEF Own
    <3>2. i \in s.pi /\ i \notin s.stray /\ ConfigIn(heap'[id], i) = StepOf(job, ConfigOf(cur, i))
      BY <3>1 DEF Part
    <3> QED BY <1>1, <3>2 DEF ConfigOf, Own
  <2> QED BY <2>1, <2>2
<1>4. \A id \in Id : \A i \in heap'[id].pi : i \in heap[id].pi \/ i \in heap[cur].pi
  BY <1>1, <1>2
<1>5. \A a, b \in Id : \A i \in heap[cur].pi : i \in heap'[a].pi /\ i \in heap'[b].pi => a = b
  <2>1. ASSUME NEW id \in Id, NEW i \in heap[cur].pi, i \in heap'[id].pi
        PROVE  id \in T
    BY <1>1, <2>1 DEF IInv, NoInputTwice
  <2> QED BY <2>1
<1>6. \A id \in Id : ~heap'[id].live => heap'[id].pi = {}
  BY <1>1, <1>2
<1>7. Exact(job) => \A id \in Id : heap'[id].stray = {}
  BY <1>1 DEF Part
<1>8. ASSUME Exact(job), NEW id \in Id, NEW i \in heap[id].pi
      PROVE  (\E to \in Id : i \in heap'[to].pi) \/ (id = cur /\ LimitHere(i))
  <2>1. CASE id = cur
    BY <1>1, <1>8, <2>1
  <2>2. CASE id # cur
    BY <1>1, <1>8, <2>2
  <2> QED BY <2>1, <2>2
<1>9. ASSUME NEW id \in Id, NEW i \in Own(heap'[id]), i \in heap[cur].pi
      PROVE  ConfigOf(id, i)' = StepOf(job, ConfigOf(cur, i))
  <2>1. id \in T
    BY <1>1, <1>9 DEF IInv, NoInputTwice, Own
  <2>2. Part(heap'[id]) /\ i \in heap'[id].pi \ heap'[id].stray
    BY <1>1, <1>9, <2>1 DEF Own
  <2>3. ConfigIn(heap'[id], i) = StepOf(job, ConfigOf(cur, i))
    BY <2>2 DEF Part
  <2> QED BY <2>3 DEF ConfigOf
<1> QED BY <1>3, <1>4, <1>5, <1>6, <1>7, <1>8, <1>9 DEF Moves

\* A step that replaces the current state only.
LEMMA MovesCur ==
  ASSUME IInv, phase = "exec", job' = job, NEW st,
         heap' = [heap EXCEPT ![cur] = st],
         (Part(st) /\ st.live = s.live) \/ st = Blank,
         Exact(job) => \A i \in s.pi : LimitHere(i) \/ i \in st.pi
  PROVE  Moves
<1>1. cur \in Id /\ heap \in [Id -> SymState]
  BY OpType DEF IInv, TypeOK
<1>2. heap'[cur] = st /\ \A id \in Id : id # cur => heap'[id] = heap[id]
  BY <1>1
<1> DEFINE T == {cur}
<1>3. /\ T \in SUBSET Id /\ cur \in T /\ \A id \in T : id = cur
      /\ \A id \in T : heap'[id] = st
  BY <1>1, <1>2
<1>4. \A id \in Id \ T : heap'[id] = heap[id]
  BY <1>2
<1> HIDE DEF T
<1> QED BY <1>2, <1>3, <1>4, PartsMove

\* A step that leaves its inputs where they are.
LEMMA MovesNothing ==
  ASSUME IInv, phase = "exec", job' = job, NEW st \in SymState,
         heap' = [heap EXCEPT ![cur] = st],
         st.pi = s.pi, st.stray = s.stray, st.live = s.live,
         \A i \in s.pi : ConfigIn(st, i) = ConfigOf(cur, i)
  PROVE  Moves
<1>1. cur \in Id /\ heap \in [Id -> SymState] /\ s = heap[cur]
  BY OpType DEF IInv, TypeOK, s
<1>2. heap'[cur] = st /\ \A id \in Id : id # cur => heap'[id] = heap[id]
  BY <1>1
<1>3. \A id \in Id : /\ heap'[id].pi = heap[id].pi /\ heap'[id].live = heap[id].live
                     /\ heap'[id].stray = heap[id].stray
  BY <1>1, <1>2
<1>4. ASSUME NEW id \in Id, NEW i \in Own(heap'[id])
      PROVE  i \in Own(heap[id]) /\ ConfigOf(id, i)' = ConfigOf(id, i)
  <2>1. i \in Own(heap[id])
    BY <1>3, <1>4 DEF Own
  <2>2. CASE id # cur
    BY <1>2, <2>1, <2>2 DEF ConfigOf
  <2>3. CASE id = cur
    <3>1. i \in s.pi
      BY <1>1, <2>1, <2>3 DEF Own
    <3> QED BY <1>2, <2>1, <2>3, <3>1 DEF ConfigOf
  <2> QED BY <2>2, <2>3
<1>5. \A a, b \in Id : \A i \in heap[cur].pi : i \in heap'[a].pi /\ i \in heap'[b].pi => a = b
  BY <1>3 DEF IInv, NoInputTwice
<1>6. \A id \in Id : ~heap'[id].live => heap'[id].pi = {}
  BY <1>3 DEF IInv, UnusedIsEmpty
<1>7. Exact(job) => \A id \in Id : heap'[id].stray = {}
  BY <1>3 DEF IInv, Sound
<1>8. \A id \in Id : \A i \in heap[id].pi : \E to \in Id : i \in heap'[to].pi
  BY <1>3
<1> QED BY <1>1, <1>3, <1>4, <1>5, <1>6, <1>7, <1>8 DEF Moves

\* The two sides of a branch.
LEMMA BranchParts ==
  ASSUME TypeOK, phase = "exec", op.kind = "CBRANCH"
  PROVE  /\ Part(Taken(s)) /\ Part(NotTaken(s))
         /\ Taken(s).pi = {i \in s.pi : Cond[i]} /\ NotTaken(s).pi = {i \in s.pi : ~Cond[i]}
         /\ Taken(s).live = TRUE /\ NotTaken(s).live = s.live
<1>1. cur \in Id /\ s \in SymState /\ op \in Op /\ s.pi \subseteq Input
  BY OpType DEF SymState
<1>2. /\ Taken(s) \in SymState /\ NotTaken(s) \in SymState
      /\ Taken(s).pi = {i \in s.pi : Cond[i]} /\ NotTaken(s).pi = {i \in s.pi : ~Cond[i]}
      /\ Taken(s).live = TRUE /\ NotTaken(s).live = s.live
      /\ Taken(s).stray = s.stray /\ NotTaken(s).stray = s.stray
  <2> DEFINE go == Goto(Clone(s), op.dst)
             fall == FallThrough(op, s)
             yes == {i \in s.pi : Cond[i]}
             no == {i \in s.pi : ~Cond[i]}
  <2>1. Taken(s) \in SymState /\ NotTaken(s) \in SymState
    BY <1>1, TakenType
  <2>2. go \in SymState /\ go.live = TRUE /\ go.stray = s.stray
    <3>1. Clone(s) \in SymState /\ Clone(s).live = TRUE /\ Clone(s).stray = s.stray
      BY <1>1, CloneType DEF Clone, SymState
    <3> HIDE DEF s
    <3>2. op.dst \in Addr
      BY <1>1 DEF Op
    <3> QED BY <3>1, <3>2, GotoType DEF Goto, SymState
  <2>3. fall \in SymState /\ fall.live = s.live /\ fall.stray = s.stray
    BY <1>1, FallThroughType DEF FallThrough, SymState
  <2>4. Taken(s) = [go EXCEPT !.pi = yes] /\ NotTaken(s) = [fall EXCEPT !.pi = no]
    BY DEF Taken, NotTaken
  <2> HIDE DEF go, fall, yes, no
  <2>5. /\ Taken(s).pi = yes /\ Taken(s).live = TRUE /\ Taken(s).stray = s.stray
        /\ NotTaken(s).pi = no /\ NotTaken(s).live = s.live /\ NotTaken(s).stray = s.stray
    BY <2>2, <2>3, <2>4 DEF SymState
  <2> QED BY <2>1, <2>5 DEF yes, no
<1>3. \A i \in s.pi : Cond[i] = op.cond[s.val[i]]
  BY <1>1 DEF Cond
<1>4. ASSUME NEW i \in s.pi
      PROVE  /\ Cond[i] => ConfigIn(Taken(s), i) = StepOf(job, ConfigOf(cur, i))
             /\ ~Cond[i] => ConfigIn(NotTaken(s), i) = StepOf(job, ConfigOf(cur, i))
  <2> DEFINE c == ConfigOf(cur, i)
  <2>1. c = ConfigIn(s, i) /\ c.val = s.val[i]
    BY StepOfCur
  <2>2. StepOf(job, c) = IF Cond[i] THEN Goto(c, op.dst) ELSE FallThrough(op, c)
    BY <1>3, <2>1, ConcreteStep
  <2>3. /\ Clone(s) \in SymState /\ Goto(Clone(s), op.dst) \in SymState
        /\ FallThrough(op, s) \in SymState
    BY <1>1, CloneType, GotoType, FallThroughType DEF Op
  <2>4. ConfigIn(Taken(s), i) = Goto(c, op.dst)
    <3>1. ConfigIn(Taken(s), i) = ConfigIn(Goto(Clone(s), op.dst), i)
      BY <2>3, SameConfig DEF Taken
    <3>2. ConfigIn(Goto(Clone(s), op.dst), i) = Goto(ConfigIn(Clone(s), i), op.dst)
      BY <2>3, GotoConfig
    <3>3. ConfigIn(Clone(s), i) = c
      BY <1>1, <2>1, SameConfig
    <3> QED BY <3>1, <3>2, <3>3
  <2>5. ConfigIn(NotTaken(s), i) = FallThrough(op, c)
    <3>1. ConfigIn(NotTaken(s), i) = ConfigIn(FallThrough(op, s), i)
      BY <2>3, SameConfig DEF NotTaken
    <3> QED BY <1>1, <2>1, <3>1, FallThroughConfig
  <2> QED BY <2>2, <2>4, <2>5
<1> QED BY <1>2, <1>4 DEF Part

LEMMA MovesBranch ==
  ASSUME IInv, phase = "exec", op.kind = "CBRANCH", job' = job,
         NEW f \in Id, ~heap[f].live, f # cur, NEW taken, NEW notTaken,
         heap' = [heap EXCEPT ![f]   = IF taken THEN Taken(s) ELSE Blank,
                              ![cur] = IF notTaken THEN NotTaken(s) ELSE Blank],
         ~conf.timeouts => (taken \/ Taken(s).pi = {}) /\ (notTaken \/ NotTaken(s).pi = {})
  PROVE  Moves
<1>1. cur \in Id /\ heap \in [Id -> SymState] /\ TypeOK /\ Blank.pi = {}
  BY OpType DEF IInv, TypeOK, Blank
<1>2. /\ heap'[cur] = IF notTaken THEN NotTaken(s) ELSE Blank
      /\ heap'[f] = IF taken THEN Taken(s) ELSE Blank
      /\ \A id \in Id : id # cur /\ id # f => heap'[id] = heap[id]
  BY <1>1
<1>3. /\ Part(Taken(s)) /\ Part(NotTaken(s))
      /\ Taken(s).pi = {i \in s.pi : Cond[i]} /\ NotTaken(s).pi = {i \in s.pi : ~Cond[i]}
      /\ Taken(s).live = TRUE /\ NotTaken(s).live = s.live
  BY <1>1, BranchParts
<1> DEFINE T == {cur, f}
<1>4. T \in SUBSET Id /\ cur \in T /\ \A id \in T : id = cur \/ ~heap[id].live
  BY <1>1
<1>5. \A id \in Id \ T : heap'[id] = heap[id]
  BY <1>2
<1>6. \A id \in T : \/ Part(heap'[id]) /\ (heap'[id].live \/ heap'[id].live = s.live)
                    \/ heap'[id] = Blank
  BY <1>2, <1>3
<1>7. \A a, b \in T : \A i \in heap'[a].pi : i \in heap'[b].pi => a = b
  <2>1. ASSUME NEW i, i \in heap'[cur].pi, i \in heap'[f].pi PROVE FALSE
    BY <1>1, <1>2, <1>3, <2>1
  <2> QED BY <2>1
<1>8. ASSUME Exact(job), NEW i \in s.pi PROVE \E id \in T : i \in heap'[id].pi
  <2>1. (taken \/ Taken(s).pi = {}) /\ (notTaken \/ NotTaken(s).pi = {})
    BY <1>8 DEF Exact, conf
  <2>2. i \in Taken(s).pi \/ i \in NotTaken(s).pi
    BY <1>3
  <2> QED BY <1>2, <2>1, <2>2
<1> HIDE DEF T
<1> QED BY <1>4, <1>5, <1>6, <1>7, <1>8, PartsMove

LEMMA MovesFork ==
  ASSUME IInv, phase = "exec", job' = job, NEW f, NEW st, Forks(f, st), ForkTo(f, st)
  PROVE  Moves
<1>1. cur \in Id /\ heap \in [Id -> SymState] /\ TypeOK /\ Blank.pi = {}
  BY OpType DEF IInv, TypeOK, Blank
<1>2. /\ \A k \in DOMAIN f : heap'[f[k]] = st[k]
      /\ \A id \in Id : (\A k \in DOMAIN f : f[k] # id) =>
                             heap'[id] = IF id = cur THEN Blank ELSE heap[id]
  BY <1>1, ForkHeap
<1>3. /\ \A k, l \in DOMAIN f : f[k] = f[l] => k = l
      /\ \A k \in DOMAIN f :
           /\ f[k] \in Id /\ (f[k] = cur \/ ~heap[f[k]].live)
           /\ Part(st[k])
           /\ IF f[k] = cur THEN st[k].live = s.live ELSE st[k].live = TRUE
      /\ \A k, l \in DOMAIN f : \A i \in st[k].pi : i \in st[l].pi => k = l
      /\ Exact(job) => \A i \in s.pi : LimitHere(i) \/ \E k \in DOMAIN f : i \in st[k].pi
  BY DEF Forks
<1> DEFINE T == {cur} \cup {f[k] : k \in DOMAIN f}
<1>4. T \in SUBSET Id /\ cur \in T /\ \A id \in T : id = cur \/ ~heap[id].live
  BY <1>1, <1>3
<1>5. \A id \in Id \ T : heap'[id] = heap[id]
  BY <1>2
<1>6. \A id \in T : (\E k \in DOMAIN f : id = f[k] /\ heap'[id] = st[k]) \/ heap'[id] = Blank
  BY <1>1, <1>2
<1>7. \A id \in T : \/ Part(heap'[id]) /\ (heap'[id].live \/ heap'[id].live = s.live)
                    \/ heap'[id] = Blank
  BY <1>3, <1>6
<1>8. \A a, b \in T : \A i \in heap'[a].pi : i \in heap'[b].pi => a = b
  BY <1>1, <1>3, <1>6
<1>9. Exact(job) => \A i \in s.pi : LimitHere(i) \/ \E id \in T : i \in heap'[id].pi
  BY <1>2, <1>3
<1> HIDE DEF T
<1> QED BY <1>4, <1>5, <1>7, <1>8, <1>9, PartsMove

LEMMA ExecMoves == IInv /\ ExecuteOp => Moves
<1> SUFFICES ASSUME IInv, ExecuteOp PROVE Moves
  OBVIOUS
<1> USE DEF Executing
<1>1. phase = "exec" /\ TypeOK
  BY DEF IInv, ExecuteOp, DataOp, UnsatState, CBranchLazy, CBranchEager, DirectJump,
         ConstantIP, SymbolicIP, UnsatIP, UnconstrainedIP, ForkIP, LibReturn, LibExit, ExitFail
<1>2. s \in SymState /\ op \in Op /\ cur \in Id /\ heap \in [Id -> SymState] /\ s.pi \subseteq Input
  BY <1>1, OpType DEF TypeOK, SymState
<1>3. \A i \in s.pi : ConfigOf(cur, i) = ConfigIn(s, i) /\ ConfigOf(cur, i).val = s.val[i]
  BY StepOfCur
<1>4. CASE DataOp
  <2>1. PICK st \in SymState :
           /\ heap' = [heap EXCEPT ![cur] = st] /\ Part(st) /\ st.live = s.live
           /\ Exact(job) => \A i \in s.pi : LimitHere(i) \/ i \in st.pi
    BY <1>1, <1>4, DataPart
  <2>2. job' = job
    BY <1>4 DEF DataOp
  <2> QED BY <1>1, <2>1, <2>2, MovesCur
<1>5. CASE UnsatState \/ UnsatIP
  <2>1. heap' = [heap EXCEPT ![cur] = Blank] /\ job' = job
    BY <1>5 DEF UnsatState, UnsatIP
  <2>2. ASSUME Exact(job), NEW i \in s.pi PROVE LimitHere(i)
    <3>1. ~conf.timeouts
      BY <2>2 DEF Exact, conf
    <3>2. op.kind \in {"DATA", "LIBRET"} /\ Admitted = {}
      BY <1>5, <2>2, <3>1 DEF UnsatState, UnsatIP
    <3> QED BY <1>1, <3>2, LimitsHere DEF Admitted
  <2> QED BY <1>1, <2>1, <2>2, MovesCur
<1>6. CASE CBranchLazy
  <2>1. PICK never \in FoldsTo(Cond, FALSE), always \in FoldsTo(Cond, TRUE) :
          Branch(~never, ~always)
    BY <1>6 DEF CBranchLazy
  <2>2. /\ never => \A i \in Input : Cond[i] = FALSE
        /\ always => \A i \in Input : Cond[i] = TRUE
    BY DEF FoldsTo, MayFold
  <2>3. (~never \/ Taken(s).pi = {}) /\ (~always \/ NotTaken(s).pi = {})
    BY <1>2, <2>2 DEF Taken, NotTaken, Goto, Clone, FallThrough, SymState
  <2>4. PICK f \in FreeIds(1) :
          heap' = [heap EXCEPT ![f[1]] = IF ~never THEN Taken(s) ELSE Blank,
                               ![cur]  = IF ~always THEN NotTaken(s) ELSE Blank]
    BY <2>1 DEF Branch
  <2>5. f[1] \in Id /\ ~heap[f[1]].live /\ f[1] # cur
    BY FreeIdsType
  <2>6. op.kind = "CBRANCH" /\ job' = job
    BY <1>6 DEF CBranchLazy
  <2> QED BY <1>1, <2>3, <2>4, <2>5, <2>6, MovesBranch
<1>7. CASE CBranchEager
  <2>1. PICK t \in Verdicts(Taken(s).pi), n \in Verdicts(NotTaken(s).pi) :
          Branch(t = "SAT", n = "SAT")
    BY <1>7 DEF CBranchEager
  <2>2. ~conf.timeouts => /\ t = "SAT" \/ Taken(s).pi = {}
                          /\ n = "SAT" \/ NotTaken(s).pi = {}
    BY DEF Verdicts
  <2>3. PICK f \in FreeIds(1) :
          heap' = [heap EXCEPT ![f[1]] = IF t = "SAT" THEN Taken(s) ELSE Blank,
                               ![cur]  = IF n = "SAT" THEN NotTaken(s) ELSE Blank]
    BY <2>1 DEF Branch
  <2>4. f[1] \in Id /\ ~heap[f[1]].live /\ f[1] # cur
    BY FreeIdsType
  <2>5. op.kind = "CBRANCH" /\ job' = job
    BY <1>7 DEF CBranchEager
  <2> QED BY <1>1, <2>2, <2>3, <2>4, <2>5, MovesBranch
<1>8. /\ Recorded(s) \in SymState /\ Recorded(s).pi = s.pi /\ Recorded(s).live = s.live
      /\ Recorded(s).val = s.val /\ Recorded(s).stray = s.stray
  <2>1. Recorded(s) \in SymState
    BY <1>1, <1>2, RecordedType
  <2> QED BY <1>2, <2>1 DEF Recorded, SymState
<1>9. ASSUME NEW a \in Addr, op.kind \in Direct \cup Indirect, job' = job,
             heap' = [heap EXCEPT ![cur] = Goto(Recorded(s), a)],
             op.kind \in Direct => a = op.dst,
             op.kind \in Indirect => \A i \in s.pi : op.tgt[s.val[i]] = a
      PROVE  Moves
  <2> DEFINE st == Goto(Recorded(s), a)
  <2>1. st \in SymState
    BY <1>8, GotoType
  <2>2. st.pi = s.pi /\ st.live = s.live /\ st.stray = s.stray
    BY <1>8 DEF Goto, SymState
  <2>3. ASSUME NEW i \in s.pi PROVE ConfigIn(st, i) = StepOf(job, ConfigOf(cur, i))
    <3>1. ConfigIn(st, i) = Goto(ConfigIn(Recorded(s), i), a)
      BY <1>8, GotoConfig
    <3>2. ConfigIn(Recorded(s), i) = ConfigOf(cur, i)
      BY <1>2, <1>3, SameConfig
    <3> QED BY <1>3, <1>9, <3>1, <3>2, ConcreteStep
  <2> HIDE DEF st
  <2>4. Part(st)
    BY <2>1, <2>2, <2>3 DEF Part
  <2> QED BY <1>1, <1>9, <2>2, <2>4, MovesCur DEF st
<1>10. CASE DirectJump
  <2>1. op.dst \in Addr
    BY <1>2 DEF Op
  <2>2. op.kind \notin Indirect
    BY <1>10 DEF DirectJump, Direct, Indirect
  <2> QED BY <1>9, <1>10, <2>1, <2>2 DEF DirectJump
<1>11. CASE ConstantIP
  <2>1. PICK a \in Addr : /\ TRUE \in FoldsTo(Target, a)
                          /\ heap' = [heap EXCEPT ![cur] = Goto(Recorded(s), a)]
    BY <1>11 DEF ConstantIP
  <2>2. \A i \in s.pi : op.tgt[s.val[i]] = a
    BY <1>2, <2>1 DEF FoldsTo, MayFold, Target
  <2>3. op.kind \notin Direct /\ op.kind \in Indirect /\ job' = job
    BY <1>11 DEF ConstantIP, Direct, Indirect
  <2> QED BY <1>9, <2>1, <2>2, <2>3
<1>12. CASE UnconstrainedIP
  <2>1. \A i \in s.pi : ConfigIn(Recorded(s), i) = ConfigOf(cur, i)
    BY <1>2, <1>3, SameConfig
  <2>2. heap' = [heap EXCEPT ![cur] = Recorded(s)] /\ job' = job
    BY <1>12 DEF UnconstrainedIP
  <2> QED BY <1>1, <1>8, <2>1, <2>2, MovesNothing
<1>13. CASE ForkIP \/ LibReturn
  <2>1. PICK f, st : Forks(f, st) /\ ForkTo(f, st)
    BY <1>1, <1>13, JumpForks, ReturnForks
  <2>2. job' = job
    BY <1>13 DEF ForkIP, LibReturn
  <2> QED BY <1>1, <2>1, <2>2, MovesFork
<1>14. CASE LibExit \/ ExitFail
  <2>1. heap' = [heap EXCEPT ![cur] = s] /\ job' = job
    BY <1>2, <1>14 DEF LibExit, ExitFail, s
  <2> QED BY <1>1, <1>2, <1>3, <2>1, MovesNothing
<1> QED BY <1>4, <1>5, <1>6, <1>7, <1>10, <1>11, <1>12, <1>13, <1>14 DEF ExecuteOp

\* The invariant survives every step of the executor, and every step of the manager,
\* which only lets go of objects.
LEMMA MovesKeepIInv == ASSUME IInv, cur \in Id, Moves, TypeOK' PROVE IInv'
<1>1. UnusedIsEmpty'
  BY DEF Moves, UnusedIsEmpty
<1>2. Sound'
  <2>1. ASSUME NEW id \in Id, NEW i \in Own(heap'[id])
        PROVE  ConfigOf(id, i)' \in Reach[job][i]
    <3>1. CASE i \in Own(heap[id]) /\ ConfigOf(id, i)' = ConfigOf(id, i)
      BY <3>1 DEF IInv, Sound
    <3>2. CASE i \in Own(heap[cur]) /\ ConfigOf(id, i)' = StepOf(job, ConfigOf(cur, i))
      <4>1. i \in Input /\ job \in Job
        BY <3>2 DEF TypeOK, SymState, IInv, Own
      <4>2. ConfigOf(cur, i) \in Reach[job][i]
        BY <3>2 DEF IInv, Sound
      <4> QED BY <3>2, <4>1, <4>2, ReachClosed
    <3> QED BY <2>1, <3>1, <3>2 DEF Moves
  <2>2. job' = job /\ (Exact(job) => \A id \in Id : heap'[id].stray = {})
    BY DEF Moves
  <2> QED BY <2>1, <2>2 DEF Sound, Own
<1>3. NoInputTwice'
  BY DEF Moves, NoInputTwice, IInv
<1> QED BY <1>1, <1>2, <1>3 DEF IInv

LEMMA LettingGoKeepsIInv ==
  ASSUME IInv, TypeOK', job' = job, \A id \in Id : heap'[id] = heap[id] \/ heap'[id] = Blank
  PROVE  IInv'
<1>1. Blank.pi = {} /\ Blank.stray = {} /\ \A id \in Id : heap'[id] = heap[id] \/ heap'[id].pi = {}
  BY DEF Blank
<1>2. UnusedIsEmpty'
  BY <1>1 DEF IInv, UnusedIsEmpty
<1>3. Sound'
  <2>1. ASSUME NEW id \in Id, NEW i \in Own(heap'[id])
        PROVE  ConfigOf(id, i)' \in Reach[job][i]
    <3>1. heap'[id] = heap[id]
      BY <1>1, <2>1 DEF Own
    <3>2. ConfigOf(id, i)' = ConfigOf(id, i) /\ i \in Own(heap[id])
      BY <2>1, <3>1 DEF ConfigOf
    <3> QED BY <3>2 DEF IInv, Sound
  <2>2. Exact(job) => \A id \in Id : heap'[id].stray = {}
    BY <1>1 DEF IInv, Sound
  <2> QED BY <2>1, <2>2 DEF Sound, Own
<1>4. NoInputTwice'
  BY <1>1 DEF IInv, NoInputTwice
<1> QED BY <1>2, <1>3, <1>4 DEF IInv

LEMMA IInvInit == Init => IInv
<1> SUFFICES ASSUME Init PROVE IInv
  OBVIOUS
<1>1. TypeOK
  BY TypeInit
<1>2. \A id \in Id : heap[id] = IF id = FirstId THEN [Blank EXCEPT !.pi = Input, !.live = TRUE]
                                               ELSE Blank
  BY DEF Init
<1>3. Blank.pi = {} /\ Blank.pc = conf.entry /\ Blank.val = conf.data /\ Blank.depth = 0
      /\ Blank.stray = {}
  BY DEF Blank
<1> DEFINE first == [Blank EXCEPT !.pi = Input, !.live = TRUE]
<1>4. /\ first.live = TRUE /\ first.pc = conf.entry /\ first.val = conf.data
      /\ first.depth = 0 /\ first.stray = {}
  BY DEF Blank
<1> HIDE DEF first
<1>5. UnusedIsEmpty /\ NoInputTwice
  BY <1>2, <1>3, <1>4 DEF UnusedIsEmpty, NoInputTwice, first
<1>6. Sound
  <2>1. ASSUME NEW id \in Id, NEW i \in Own(heap[id])
        PROVE  ConfigOf(id, i) \in Reach[job][i]
    <3>1. heap[id] = first
      BY <1>2, <1>3, <2>1 DEF first, Own
    <3>2. ConfigOf(id, i) = Start(job, i)
      BY <1>4, <3>1 DEF ConfigOf, ConfigIn, Start, conf
    <3>3. i \in Input /\ job \in Job
      BY <1>1, <2>1 DEF TypeOK, SymState, Own
    <3> QED BY <3>2, <3>3, ReachClosed
  <2>2. \A id \in Id : heap[id].stray = {}
    BY <1>2, <1>3, <1>4 DEF first
  <2> QED BY <2>1, <2>2 DEF Sound, Own
<1> QED BY <1>1, <1>5, <1>6 DEF IInv

LEMMA IInvStep == IInv /\ [Next]_vars => IInv'
<1> SUFFICES ASSUME IInv, [Next]_vars PROVE IInv'
  OBVIOUS
<1>1. TypeOK /\ TypeOK' /\ heap \in [Id -> SymState]
  BY TypeStep DEF IInv, TypeOK
<1>2. CASE ExecuteBlock
  <2>1. phase = "exec"
    BY <1>2 DEF ExecuteBlock, ExecuteOp, DataOp, UnsatState, CBranchLazy, CBranchEager,
                DirectJump, ConstantIP, SymbolicIP, UnsatIP, UnconstrainedIP, ForkIP,
                LibReturn, LibExit, ExitFail, Executing
  <2> QED BY <1>1, <1>2, <2>1, OpType, ExecMoves, MovesKeepIInv DEF ExecuteBlock
<1>3. CASE Select \/ Exhaust \/ KeepSuccessor \/ AddActive \/ NextRound \/ Finished
           \/ UNCHANGED vars
  <2>1. heap' = heap /\ job' = job
    BY <1>3 DEF Select, Exhaust, KeepSuccessor, AddActive, NextRound, Finished, vars, exec
  <2> QED BY <1>1, <2>1, LettingGoKeepsIInv
<1>4. CASE SiftExited \/ ReturnFound \/ DropSuccessor
  <2>1. job' = job /\ \A id \in Id : heap'[id] = heap[id] \/ heap'[id] = Blank
    BY <1>1, <1>4 DEF SiftExited, ReturnFound, DropSuccessor
  <2> QED BY <1>1, <2>1, LettingGoKeepsIInv
<1> QED BY <1>2, <1>3, <1>4 DEF Next

LEMMA IInvAlways == Spec => []IInv
BY IInvInit, IInvStep, PTL DEF Spec

\* Every input a state stands for drives the program to the state's pc with the
\* state's contents: forking, jumps and models give no state an input that took
\* another way.
THEOREM Soundness == Spec => []Sound
<1>1. IInv => Sound
  BY DEF IInv
<1> QED BY <1>1, IInvAlways, PTL

\* Forking divides the inputs, so that no path is followed or reported twice.
THEOREM PathsAreDisjoint == Spec => []NoInputTwice
<1>1. IInv => NoInputTwice
  BY DEF IInv
<1> QED BY <1>1, IInvAlways, PTL

-----------------------------------------------------------------------------
(***************************************************************************)
(* No input is lost but at a limit.                                        *)
(***************************************************************************)
LEMMA LostInit == Init => NoInputLost
<1> SUFFICES ASSUME Init PROVE NoInputLost
  OBVIOUS
<1>1. FirstId \in Id
  BY IdAssumption DEF FirstId
<1> DEFINE first == [Blank EXCEPT !.pi = Input, !.live = TRUE]
<1>2. first.pi = Input
  BY DEF Blank
<1> HIDE DEF first
<1>3. heap[FirstId] = first
  BY <1>1 DEF Init, first
<1> QED BY <1>1, <1>2, <1>3 DEF NoInputLost

\* Where input i may be without being lost.
Spared(i) == (\E c \in Reach[job][i] : c.pc \in conf.avoid) \/ Limits[job][i] # {}

\* An input that the current state loses meets a limit of its run.
LEMMA LostAtLimit ==
  ASSUME IInv, Exact(job), cur \in Id, NEW i \in heap[cur].pi, LimitHere(i)
  PROVE  ConfigOf(cur, i) \in Limits[job][i]
<1> DEFINE c == ConfigOf(cur, i)
           G == {ConfigOf(cur, k) : k \in heap[cur].pi}
<1>1. job \in Job /\ i \in Input /\ heap[cur].pi \subseteq Input
  BY DEF IInv, TypeOK, SymState
<1>2. \A k \in heap[cur].pi : ConfigOf(cur, k) \in Reach[job][k]
  BY DEF IInv, Sound, Own
<1>3. \A k \in Input : \A b \in Reach[job][k] : b \in Config
  BY <1>1, ReachClosed
<1>4. \A k \in heap[cur].pi : ConfigOf(cur, k).pc = c.pc /\ ConfigOf(cur, k).depth = c.depth
  BY DEF ConfigOf, ConfigIn
<1> HIDE DEF c
<1>5. G \subseteq Company(job, c)
  BY <1>1, <1>2, <1>4 DEF Company
<1>6. Company(job, c) \in SUBSET Config
  BY <1>3 DEF Company
<1>7. c \in Reach[job][i] /\ c \in Config /\ Limited(job, c, G)
  BY <1>1, <1>2, <1>3 DEF c, LimitHere
<1>8. Limited(job, c, Company(job, c))
  BY <1>1, <1>5, <1>6, <1>7, LimitedGrows
<1>9. Limits[job][i] = {b \in Reach[job][i] : Limited(job, b, Company(job, b))}
  BY <1>1 DEF Limits
<1>10. c \in Limits[job][i]
  BY <1>7, <1>8, <1>9
<1> QED BY <1>10 DEF c

\* A step that keeps every input, or loses it where it may, keeps the property.
LEMMA KeepingInputs ==
  ASSUME NoInputLost, job' = job, phase # "found",
         Exact(job) => \A id \in Id : \A i \in heap[id].pi :
                         Spared(i) \/ \E to \in Id : i \in heap'[to].pi
  PROVE  NoInputLost'
<1>1. conf' = conf
  BY DEF conf
<1> SUFFICES ASSUME Exact(job), NEW i \in Input
             PROVE  (\E id \in Id : i \in heap[id].pi)' \/ Spared(i)
  BY <1>1 DEF NoInputLost, Spared
<1> QED BY DEF NoInputLost, Spared

\* Letting go of one object that stands for no input, or only for inputs that meet
\* an address to avoid, keeps it too.
LEMMA LettingGoOfOne ==
  ASSUME NoInputLost, job' = job, phase # "found", heap \in [Id -> SymState],
         NEW gone \in Id, heap' = [heap EXCEPT ![gone] = Blank],
         Exact(job) => \A i \in heap[gone].pi : Spared(i)
  PROVE  NoInputLost'
<1>1. \A id \in Id : id # gone => heap'[id] = heap[id]
  OBVIOUS
<1>2. Exact(job) => \A id \in Id : \A i \in heap[id].pi :
                      Spared(i) \/ \E to \in Id : i \in heap'[to].pi
  BY <1>1
<1> QED BY <1>2, KeepingInputs

LEMMA OnlyUnsat == Exact(job) => \A set : Verdicts(set) # {"SAT"} => set = {}
BY DEF Verdicts, Exact, conf

LEMMA LostStep == IInv /\ NoInputLost /\ [Next]_vars => NoInputLost'
<1> SUFFICES ASSUME IInv, NoInputLost, [Next]_vars PROVE NoInputLost'
  OBVIOUS
<1>1. heap \in [Id -> SymState]
  BY DEF IInv, TypeOK
<1>2. CASE ExecuteBlock
  <2>1. phase = "exec"
    BY <1>2 DEF ExecuteBlock, ExecuteOp, DataOp, UnsatState, CBranchLazy, CBranchEager,
                DirectJump, ConstantIP, SymbolicIP, UnsatIP, UnconstrainedIP, ForkIP,
                LibReturn, LibExit, ExitFail, Executing
  <2>2. Moves
    BY <1>2, ExecMoves DEF ExecuteBlock
  <2>3. Exact(job) => \A id \in Id : \A i \in heap[id].pi :
                        Spared(i) \/ \E to \in Id : i \in heap'[to].pi
    BY <2>2, LostAtLimit DEF Moves, Spared
  <2> QED BY <2>1, <2>2, <2>3, KeepingInputs DEF Moves
<1>3. CASE Select \/ Exhaust \/ KeepSuccessor \/ AddActive \/ NextRound
  <2>1. heap' = heap /\ job' = job /\ phase # "found"
    BY <1>3 DEF Select, Exhaust, KeepSuccessor, Sifting, AddActive, NextRound, exec
  <2> QED BY <2>1, KeepingInputs
<1>4. CASE Finished \/ UNCHANGED vars
  <2>1. heap' = heap /\ job' = job /\ phase' = phase /\ conf' = conf
    BY <1>4 DEF Finished, vars, exec, conf
  <2> QED BY <2>1 DEF NoInputLost
<1>5. CASE SiftExited
  <2>1. CASE heap' = heap
    <3>1. job' = job /\ phase # "found"
      BY <1>5 DEF SiftExited
    <3> QED BY <2>1, <3>1, KeepingInputs
  <2>2. CASE /\ Verdicts(heap[Head(ext)].pi) # {"SAT"}
             /\ heap' = [heap EXCEPT ![Head(ext)] = Blank]
    <3>1. job' = job /\ phase # "found" /\ Head(ext) \in Id
      BY <1>5, HeadTailProperties DEF SiftExited, IInv, TypeOK
    <3>2. Exact(job) => heap[Head(ext)].pi = {}
      BY <2>2, OnlyUnsat
    <3> QED BY <1>1, <2>2, <3>1, <3>2, LettingGoOfOne
  <2> QED BY <1>5, <2>1, <2>2 DEF SiftExited
<1>6. CASE ReturnFound
  BY <1>6 DEF ReturnFound, NoInputLost
<1>7. CASE DropSuccessor
  <2>1. PICK id \in Id :
          /\ Sifting(id) /\ job' = job /\ heap' = [heap EXCEPT ![id] = Blank]
          /\ \/ Wanted(id) /\ Verdicts(heap[id].pi) # {"SAT"}
             \/ Avoided(id)
    BY <1>7 DEF DropSuccessor
  <2>2. ASSUME Exact(job), NEW i \in heap[id].pi
        PROVE  Spared(i)
    <3>1. Avoided(id)
      BY <2>1, <2>2, OnlyUnsat
    <3>2. ConfigOf(id, i) \in Reach[job][i] /\ ConfigOf(id, i).pc = heap[id].pc
      BY <2>2 DEF IInv, Sound, Own, ConfigOf, ConfigIn
    <3> QED BY <3>1, <3>2 DEF Avoided, Spared
  <2>3. phase # "found"
    BY <2>1 DEF Sifting
  <2> QED BY <1>1, <2>1, <2>2, <2>3, LettingGoOfOne
<1> QED BY <1>2, <1>3, <1>4, <1>5, <1>6, <1>7 DEF Next

\* When Z3 always answers and no model mixes inputs, exploration gives up no input but
\* at a limit of MapMemory, of a model's forks or of printable_stdin, at an address to
\* avoid, or because it has found what it wanted.
THEOREM NothingIsLost == Spec => []NoInputLost
BY IInvInit, IInvStep, LostInit, LostStep, PTL DEF Spec

-----------------------------------------------------------------------------
(***************************************************************************)
(* Who holds a State object.                                               *)
(***************************************************************************)
\* How often id occurs in a vector of StatePtr.
Count(q, id) == Cardinality({k \in DOMAIN q : q[k] = id})

\* 1 if b, 0 otherwise.
Is(b) == IF b THEN 1 ELSE 0

-----------------------------------------------------------------------------
(***************************************************************************)
(* Counting the occurrences of an object.                                  *)
(***************************************************************************)
LEMMA CountType ==
  ASSUME NEW q \in Seq(Id), NEW id
  PROVE  Count(q, id) \in Nat /\ IsFiniteSet({k \in DOMAIN q : q[k] = id})
<1> DEFINE S == {k \in DOMAIN q : q[k] = id}
<1>1. DOMAIN q = 1..Len(q) /\ Len(q) \in Nat
  BY LenProperties
<1>2. IsFiniteSet(1..Len(q)) /\ S \in SUBSET (1..Len(q))
  BY <1>1, FS_Interval
<1>3. IsFiniteSet(S)
  BY <1>2, FS_Subset
<1> QED BY <1>3, FS_CardinalityType DEF Count

LEMMA CountEmpty == \A id : Count(<<>>, id) = 0
<1> SUFFICES ASSUME NEW id PROVE Count(<<>>, id) = 0
  OBVIOUS
<1> DEFINE none == <<>>
<1>1. {k \in DOMAIN none : none[k] = id} = {}
  OBVIOUS
<1> QED BY <1>1, FS_EmptySet DEF Count

LEMMA CountOne ==
  ASSUME NEW e, NEW id PROVE Count(<<e>>, id) = Is(e = id)
<1> DEFINE one == <<e>>
<1>1. DOMAIN one = {1} /\ one[1] = e
  OBVIOUS
<1> HIDE DEF one
<1>2. {k \in DOMAIN one : one[k] = id} = IF e = id THEN {1} ELSE {}
  BY <1>1
<1>3. Cardinality({k \in DOMAIN one : one[k] = id}) = Is(e = id)
  BY <1>2, FS_EmptySet, FS_Singleton DEF Is
<1> QED BY <1>3 DEF Count, one

LEMMA CountConcat ==
  ASSUME NEW p \in Seq(Id), NEW q \in Seq(Id), NEW id
  PROVE  Count(p \o q, id) = Count(p, id) + Count(q, id)
<1> DEFINE m == Len(p)
           n == Len(q)
           A == {k \in DOMAIN p : p[k] = id}
           B == {k \in DOMAIN q : q[k] = id}
           C == {k \in (m + 1)..(m + n) : q[k - m] = id}
           f == [k \in B |-> k + m]
<1>1. m \in Nat /\ n \in Nat /\ DOMAIN p = 1..m /\ DOMAIN q = 1..n
  BY LenProperties
<1>2. /\ DOMAIN (p \o q) = 1..(m + n)
      /\ \A k \in 1..(m + n) : (p \o q)[k] = IF k <= m THEN p[k] ELSE q[k - m]
  BY ConcatProperties, LenProperties
<1>3. {k \in DOMAIN (p \o q) : (p \o q)[k] = id} = A \cup C
  BY <1>1, <1>2
<1>4. A \cap C = {}
  BY <1>1
<1>5. IsFiniteSet(A) /\ IsFiniteSet(B)
  BY CountType
<1>6. ExistsBijection(B, C)
  <2>1. f \in [B -> C]
    BY <1>1
  <2>2. \A a, b \in B : f[a] = f[b] => a = b
    BY <1>1
  <2>3. \A c \in C : \E b \in B : f[b] = c
    <3> SUFFICES ASSUME NEW c \in C PROVE \E b \in B : f[b] = c
      OBVIOUS
    <3>1. c - m \in B /\ f[c - m] = c
      BY <1>1
    <3> QED BY <3>1
  <2>4. f \in Bijection(B, C)
    BY <2>1, <2>2, <2>3 DEF Bijection, Injection, Surjection, IsInjective
  <2> QED BY <2>4 DEF ExistsBijection
<1>7. IsFiniteSet(C) /\ Cardinality(C) = Cardinality(B)
  BY <1>5, <1>6, FS_Bijection
<1>8. Cardinality(A \cup C) = Cardinality(A) + Cardinality(C) - Cardinality(A \cap C)
  BY <1>5, <1>7, FS_Union
<1>9. Cardinality(A \cap C) = 0
  BY <1>4, FS_EmptySet
<1>10. Cardinality(A) \in Nat /\ Cardinality(B) \in Nat
  BY <1>5, FS_CardinalityType
<1> HIDE DEF A, B, C
<1>11. Cardinality(A \cup C) = Cardinality(A) + Cardinality(B)
  BY <1>7, <1>8, <1>9, <1>10
<1> QED BY <1>3, <1>11 DEF Count, A, B

LEMMA CountAppend ==
  ASSUME NEW q \in Seq(Id), NEW e \in Id, NEW id
  PROVE  Count(Append(q, e), id) = Count(q, id) + Is(e = id)
<1>1. Append(q, e) = q \o <<e>> /\ <<e>> \in Seq(Id)
  BY AppendIsConcat
<1>2. Count(q \o <<e>>, id) = Count(q, id) + Count(<<e>>, id)
  BY <1>1, CountConcat
<1> QED BY <1>1, <1>2, CountOne

LEMMA CountPrepend ==
  ASSUME NEW q \in Seq(Id), NEW e \in Id, NEW id
  PROVE  Count(<<e>> \o q, id) = Count(q, id) + Is(e = id)
<1>a. <<e>> \in Seq(Id)
  OBVIOUS
<1>1. Count(<<e>> \o q, id) = Count(<<e>>, id) + Count(q, id)
  BY <1>a, CountConcat
<1>2. Count(<<e>>, id) = Is(e = id) /\ Count(q, id) \in Nat /\ Is(e = id) \in Nat
  BY CountOne, CountType DEF Is
<1> QED BY <1>1, <1>2

\* get_next takes one occurrence out, and so does the iteration over a vector.
LEMMA CountLast ==
  ASSUME NEW q \in Seq(Id), q # <<>>, NEW id
  PROVE  /\ q[Len(q)] \in Id /\ SubSeq(q, 1, Len(q) - 1) \in Seq(Id)
         /\ Count(q, id) = Count(SubSeq(q, 1, Len(q) - 1), id) + Is(q[Len(q)] = id)
<1> DEFINE n == Len(q)
           r == SubSeq(q, 1, n - 1)
<1>1. n \in Nat \ {0}
  BY EmptySeq
<1>2. \A k \in 1..n : q[k] \in Id
  BY ElementOfSeq
<1>3. r \in Seq(Id) /\ q[n] \in Id
  <2>1. \A k \in 1..(n - 1) : q[k] \in Id
    BY <1>1, <1>2
  <2> QED BY <1>1, <1>2, <2>1, SubSeqProperties
<1>4. q = SubSeq(q, 1, n)
  BY SubSeqFull
<1>5. SubSeq(q, 1, n) = r \o <<q[n]>>
  BY <1>1, SubSeqRecursiveSecond
<1>6. Append(r, q[n]) = r \o <<q[n]>>
  BY <1>3, AppendIsConcat
<1> HIDE DEF n, r
<1>7. Count(Append(r, q[n]), id) = Count(r, id) + Is(q[n] = id)
  BY <1>3, CountAppend
<1> QED BY <1>3, <1>4, <1>5, <1>6, <1>7 DEF n, r

LEMMA CountTail ==
  ASSUME NEW q \in Seq(Id), q # <<>>, NEW id
  PROVE  /\ Head(q) \in Id /\ Tail(q) \in Seq(Id)
         /\ Count(q, id) = Count(Tail(q), id) + Is(Head(q) = id)
<1>1. Len(q) \in Nat \ {0}
  BY EmptySeq
<1>2. Head(q) \in Id /\ Tail(q) \in Seq(Id) /\ Tail(q) = SubSeq(q, 2, Len(q)) /\ Head(q) = q[1]
  BY HeadTailProperties, TailIsSubSeq
<1>3. q = SubSeq(q, 1, Len(q)) /\ SubSeq(q, 1, Len(q)) = <<q[1]>> \o SubSeq(q, 2, Len(q))
  BY <1>1, SubSeqFull, SubSeqRecursiveFirst
<1> DEFINE h == Head(q)
           t == Tail(q)
<1>4. q = <<h>> \o t /\ h \in Id /\ t \in Seq(Id)
  BY <1>2, <1>3
<1> HIDE DEF h, t
<1>5. Count(<<h>> \o t, id) = Count(t, id) + Is(h = id)
  BY <1>4, CountPrepend
<1>6. Count(q, id) = Count(t, id) + Is(h = id)
  BY <1>4, <1>5
<1> QED BY <1>4, <1>6 DEF h, t

LEMMA CountWithout ==
  ASSUME NEW q \in Seq(Id), NEW k \in 1..Len(q), NEW id
  PROVE  Count(q, id) = Count(Without(q, k), id) + Is(q[k] = id)
<1> DEFINE n == Len(q)
           a == SubSeq(q, 1, k - 1)
           b == SubSeq(q, k + 1, n)
<1>1. n \in Nat /\ k \in Nat \ {0} /\ k <= n
  BY LenProperties
<1>2. \A l \in 1..n : q[l] \in Id
  BY ElementOfSeq
<1>3. a \in Seq(Id)
  <2>1. \A l \in 1..(k - 1) : q[l] \in Id
    BY <1>1, <1>2
  <2> QED BY <1>1, <2>1, SubSeqProperties
<1>4. b \in Seq(Id)
  <2>1. \A l \in (k + 1)..n : q[l] \in Id
    BY <1>1, <1>2
  <2> QED BY <1>1, <2>1, SubSeqProperties
<1>5. q = a \o SubSeq(q, k, n)
  <2> DEFINE j == k - 1
  <2>2. j \in (1 - 1)..Len(q) /\ Len(q) \in j..Len(q) /\ 1 \in 1..(Len(q) + 1) /\ j + 1 = k
    BY <1>1
  <2> HIDE DEF j
  <2>3. SubSeq(q, 1, j) \o SubSeq(q, j + 1, Len(q)) = SubSeq(q, 1, Len(q))
    BY <2>2, ConcatAdjacentSubSeq
  <2> QED BY <2>2, <2>3, SubSeqFull DEF j
<1>6. SubSeq(q, k, n) = <<q[k]>> \o b
  BY <1>1, SubSeqRecursiveFirst
<1>7. q[k] \in Id /\ <<q[k]>> \o b \in Seq(Id)
  BY <1>1, <1>2, <1>4, ConcatProperties
<1>8. Without(q, k) = a \o b
  BY DEF Without
<1> HIDE DEF n, a, b
<1>9. Count(a \o (<<q[k]>> \o b), id) = Count(a, id) + Count(<<q[k]>> \o b, id)
  BY <1>3, <1>7, CountConcat
<1>10. Count(<<q[k]>> \o b, id) = Count(b, id) + Is(q[k] = id)
  BY <1>4, <1>7, CountPrepend
<1>11. Count(a \o b, id) = Count(a, id) + Count(b, id)
  BY <1>3, <1>4, CountConcat
<1>12. Count(a, id) \in Nat /\ Count(b, id) \in Nat /\ Is(q[k] = id) \in Nat
  BY <1>3, <1>4, CountType DEF Is
<1>13. Count(q, id) = Count(a \o (<<q[k]>> \o b), id)
  BY <1>5, <1>6
<1>14. Count(Without(q, k), id) = Count(a \o b, id)
  BY <1>8
<1> QED BY <1>9, <1>10, <1>11, <1>12, <1>13, <1>14

\* A vector of different objects has each once.
LEMMA CountOfDistinct ==
  ASSUME NEW f \in Seq(Id), NEW id,
         \A k, l \in DOMAIN f : f[k] = f[l] => k = l
  PROVE  Count(f, id) = Is(\E k \in DOMAIN f : f[k] = id)
<1>1. CASE \E k \in DOMAIN f : f[k] = id
  <2>1. PICK k \in DOMAIN f : f[k] = id
    BY <1>1
  <2>2. {l \in DOMAIN f : f[l] = id} = {k}
    BY <2>1
  <2> QED BY <1>1, <2>2, FS_Singleton DEF Count, Is
<1>2. CASE ~\E k \in DOMAIN f : f[k] = id
  <2>1. {l \in DOMAIN f : f[l] = id} = {}
    BY <1>2
  <2> QED BY <1>2, <2>1, FS_EmptySet DEF Count, Is
<1> QED BY <1>1, <1>2

\* An object occurs somewhere if it is counted.
LEMMA CountPositive ==
  ASSUME NEW q \in Seq(Id), NEW k \in DOMAIN q
  PROVE  Count(q, q[k]) >= 1
<1>1. k \in {l \in DOMAIN q : q[l] = q[k]} /\ IsFiniteSet({l \in DOMAIN q : q[l] = q[k]})
  BY CountType
<1>2. Cardinality({l \in DOMAIN q : q[l] = q[k]}) # 0
  BY <1>1, FS_EmptySet
<1>3. Count(q, q[k]) \in Nat /\ Count(q, q[k]) # 0
  BY <1>2, CountType DEF Count
<1> HIDE DEF Count
<1> QED BY <1>3

LEMMA CountTwice ==
  ASSUME NEW q \in Seq(Id), NEW k \in DOMAIN q, NEW l \in DOMAIN q, q[k] = q[l],
         Count(q, q[k]) <= 1
  PROVE  k = l
<1> DEFINE S == {m \in DOMAIN q : q[m] = q[k]}
<1>1. k \in S /\ l \in S /\ IsFiniteSet(S) /\ Cardinality(S) \in Nat
  BY CountType, FS_CardinalityType
<1>2. Cardinality(S) # 0 /\ Cardinality(S) <= 1
  BY <1>1, FS_EmptySet DEF Count
<1>3. Cardinality(S) = 1
  BY <1>1, <1>2
<1>4. \E x : S = {x}
  BY <1>1, <1>3, FS_Singleton
<1> QED BY <1>1, <1>4

-----------------------------------------------------------------------------
(***************************************************************************)
(* Every object in use has one owner: the inductive invariant counts, for  *)
(* each object, the places that hold it.                                   *)
(***************************************************************************)
\* In the technique's lists.
Pending(f, id) == Count(f.main, id) + Count(f.context, id) + Count(f.other, id)

\* In the block under execution.
InBlock(id) == Is(cur = id) + Count(act, id) + Count(ext, id)

Owned(id) == InBlock(id) + Count(keep, id) + Pending(frontier, id)
               + Is(id \in exited) + Is(id \in reported) + Is(found = id)

\* Outside of a block there is no current state.
CurShape == /\ phase \in {"select", "sift", "found", "exhausted"} => cur = NoId
            /\ phase # "found" => found = NoId

OwnerInv == /\ CurShape
            /\ phase # "found" => \A id \in Id : Owned(id) = Is(heap[id].live)

LEMMA CountsType ==
  ASSUME TypeOK, NEW id \in Id
  PROVE  /\ Count(act, id) \in Nat /\ Count(ext, id) \in Nat /\ Count(keep, id) \in Nat
         /\ Pending(frontier, id) \in Nat /\ InBlock(id) \in Nat
         /\ Is(heap[id].live) \in {0, 1} /\ Is(cur = id) \in {0, 1}
         /\ Is(id \in exited) \in {0, 1} /\ Is(id \in reported) \in {0, 1}
         /\ Is(found = id) \in {0, 1}
<1>1. /\ act \in Seq(Id) /\ ext \in Seq(Id) /\ keep \in Seq(Id)
      /\ frontier.main \in Seq(Id) /\ frontier.context \in Seq(Id)
      /\ frontier.other \in Seq(Id)
  BY DEF TypeOK
<1>2. /\ Count(act, id) \in Nat /\ Count(ext, id) \in Nat /\ Count(keep, id) \in Nat
      /\ Count(frontier.main, id) \in Nat /\ Count(frontier.context, id) \in Nat
      /\ Count(frontier.other, id) \in Nat
  BY <1>1, CountType
<1>3. /\ Is(heap[id].live) \in {0, 1} /\ Is(cur = id) \in {0, 1}
      /\ Is(id \in exited) \in {0, 1} /\ Is(id \in reported) \in {0, 1}
      /\ Is(found = id) \in {0, 1}
  BY DEF Is
<1>4. Is(cur = id) \in Nat
  BY <1>3
<1> QED BY <1>2, <1>3, <1>4 DEF Pending, InBlock

\* What the executor works on is in use, and held by the executor alone.
LEMMA OwnedIsLive ==
  ASSUME TypeOK, OwnerInv, phase # "found", NEW id \in Id, Owned(id) # 0
  PROVE  heap[id].live = TRUE /\ Owned(id) = 1
<1>1. Owned(id) = Is(heap[id].live) /\ heap[id].live \in BOOLEAN
  BY DEF OwnerInv, TypeOK, SymState
<1> QED BY <1>1 DEF Is

LEMMA CurIsLive ==
  ASSUME TypeOK, OwnerInv, phase = "exec"
  PROVE  cur \in Id /\ heap[cur].live = TRUE
<1>1. cur \in Id
  BY DEF TypeOK
<1>2. Is(cur = cur) = 1
  BY DEF Is
<1>3. Owned(cur) # 0
  BY <1>1, <1>2, CountsType DEF Owned, InBlock
<1> QED BY <1>1, <1>3, OwnedIsLive

\* How a step ends moves the current state to act or keeps it.
LEMMA ContinueOwned ==
  ASSUME cur \in Id, NEW acts \in Seq(Id), Continue(acts), NEW id \in Id
  PROVE  Is(cur' = id) + Count(act', id) = Is(cur = id) + Count(acts, id)
<1>1. CASE op.last
  <2>1. act' = Append(acts, cur) /\ cur' = NoId
    BY <1>1 DEF Continue, NoState
  <2>2. Count(act', id) = Count(acts, id) + Is(cur = id)
    BY <2>1, CountAppend
  <2>3. Is(cur' = id) = 0 /\ Is(cur = id) \in Nat /\ Count(acts, id) \in Nat
    BY <2>1, IdAssumption, CountType DEF Is
  <2> QED BY <2>2, <2>3
<1>2. CASE ~op.last
  BY <1>2 DEF Continue
<1> QED BY <1>1, <1>2

LEMMA NoStateOwned ==
  ASSUME NoState, NEW id \in Id PROVE Is(cur' = id) = 0
BY IdAssumption DEF NoState, Is

LEMMA PushOwned ==
  ASSUME TypeOK, cur \in Id, Push, NEW id \in Id
  PROVE  Is(cur' = id) + Count(act', id) = Is(cur = id) + Count(act, id)
<1>1. act' = Append(act, cur) /\ Is(cur' = id) = 0
  BY NoStateOwned DEF Push
<1>2. Count(act', id) = Count(act, id) + Is(cur = id)
  BY <1>1, CountAppend DEF TypeOK
<1> QED BY <1>1, <1>2, CountsType

\* An exited state goes to ext.
LEMMA ExitOwned ==
  ASSUME TypeOK, cur \in Id, ext' = Append(ext, cur), NoState, NEW id \in Id
  PROVE  Is(cur' = id) + Count(ext', id) = Is(cur = id) + Count(ext, id)
<1>1. Count(ext', id) = Count(ext, id) + Is(cur = id) /\ Is(cur' = id) = 0
  BY CountAppend, NoStateOwned DEF TypeOK
<1> QED BY <1>1, CountsType

\* A step of the executor takes and lets go of objects as the states it works on
\* come and go.
Balanced(id) == InBlock(id)' + Is(heap[id].live) = InBlock(id) + Is(heap'[id].live)

LEMMA BlockType ==
  ASSUME TypeOK, TypeOK', NEW id \in Id
  PROVE  /\ Is(cur = id) \in Nat /\ Is(cur' = id) \in Nat
         /\ Is(heap[id].live) \in Nat /\ Is(heap'[id].live) \in Nat
         /\ Count(act, id) \in Nat /\ Count(act', id) \in Nat
         /\ Count(ext, id) \in Nat /\ Count(ext', id) \in Nat
<1>1. act \in Seq(Id) /\ ext \in Seq(Id) /\ act' \in Seq(Id) /\ ext' \in Seq(Id)
  BY DEF TypeOK
<1>2. /\ Count(act, id) \in Nat /\ Count(act', id) \in Nat
      /\ Count(ext, id) \in Nat /\ Count(ext', id) \in Nat
  BY <1>1, CountType
<1>3. /\ Is(cur = id) \in Nat /\ Is(cur' = id) \in Nat
      /\ Is(heap[id].live) \in Nat /\ Is(heap'[id].live) \in Nat
  BY DEF Is
<1> QED BY <1>2, <1>3

\* A step that replaces the current state by st, and keeps it.
LEMMA ReplaceBalanced ==
  ASSUME TypeOK, TypeOK', OwnerInv, phase = "exec", NEW st, st.live = TRUE,
         heap' = [heap EXCEPT ![cur] = st], NEW id \in Id,
         Is(cur' = id) + Count(act', id) + Count(ext', id)
           = Is(cur = id) + Count(act, id) + Count(ext, id)
  PROVE  Balanced(id)
<1>1. heap \in [Id -> SymState] /\ cur \in Id /\ heap[cur].live = TRUE
  BY CurIsLive DEF TypeOK
<1>2. heap'[id].live = heap[id].live
  BY <1>1
<1>3. InBlock(id)' = InBlock(id)
  BY DEF InBlock
<1>4. InBlock(id) \in Nat /\ Is(heap[id].live) \in Nat
  BY CountsType
<1> HIDE DEF InBlock
<1> QED BY <1>2, <1>3, <1>4 DEF Balanced

\* A step that lets go of the current state.
LEMMA DropBalanced ==
  ASSUME TypeOK, TypeOK', OwnerInv, phase = "exec",
         heap' = [heap EXCEPT ![cur] = Blank], NoState, UNCHANGED <<act, ext>>,
         NEW id \in Id
  PROVE  Balanced(id)
<1>1. heap \in [Id -> SymState] /\ cur \in Id /\ heap[cur].live = TRUE
  BY CurIsLive DEF TypeOK
<1>2. Is(cur' = id) = 0
  BY NoStateOwned
<1>3. Blank.live = FALSE
  BY DEF Blank
<1>4. Is(heap[id].live) = Is(cur = id) + Is(heap'[id].live)
  <2>1. CASE id = cur
    BY <1>1, <1>3, <2>1 DEF Is
  <2>2. CASE id # cur
    <3>1. heap'[id] = heap[id]
      BY <1>1, <2>2
    <3>2. Is(cur = id) = 0 /\ Is(heap[id].live) \in Nat
      BY <2>2 DEF Is
    <3> QED BY <3>1, <3>2
  <2> QED BY <2>1, <2>2
<1>5. InBlock(id) = Is(cur = id) + Count(act, id) + Count(ext, id)
  BY DEF InBlock
<1>6. InBlock(id)' = Is(cur' = id) + Count(act, id) + Count(ext, id)
  BY DEF InBlock
<1> QED BY <1>2, <1>4, <1>5, <1>6, BlockType DEF Balanced

\* A branch: the clone f, if it is made, joins act.
LEMMA BranchBalanced ==
  ASSUME TypeOK, TypeOK', OwnerInv, phase = "exec", NEW taken, NEW notTaken,
         Branch(taken, notTaken), ext' = ext, NEW id \in Id
  PROVE  Balanced(id)
<1>1. heap \in [Id -> SymState] /\ cur \in Id /\ heap[cur].live = TRUE /\ act \in Seq(Id)
      /\ s \in SymState /\ op \in Op
  BY CurIsLive, OpType DEF TypeOK
<1>2. PICK f \in FreeIds(1) :
          LET acts == IF taken THEN Append(act, f[1]) ELSE act
          IN /\ heap' = [heap EXCEPT ![f[1]] = IF taken THEN Taken(s) ELSE Blank,
                                     ![cur]  = IF notTaken THEN NotTaken(s) ELSE Blank]
             /\ IF notTaken THEN Continue(acts) ELSE act' = acts /\ NoState
  BY DEF Branch
<1> DEFINE new == f[1]
           acts == IF taken THEN Append(act, new) ELSE act
<1>a. f[1] \in Id /\ ~heap[f[1]].live
  BY FreeIdsType
<1>3. new \in Id /\ heap[new].live = FALSE /\ new # cur
  BY <1>1, <1>a DEF SymState
<1>4. heap' = [heap EXCEPT ![new] = IF taken THEN Taken(s) ELSE Blank,
                           ![cur] = IF notTaken THEN NotTaken(s) ELSE Blank]
  BY <1>2
<1>5. IF notTaken THEN Continue(acts) ELSE act' = acts /\ NoState
  BY <1>2
<1> HIDE DEF new
<1>6. acts \in Seq(Id) /\ Count(acts, id) = Count(act, id) + Is(taken /\ new = id)
  <2>1. CASE taken
    <3>1. Count(acts, id) = Count(act, id) + Is(new = id)
      BY <1>1, <1>3, <2>1, CountAppend
    <3>2. Is(new = id) = Is(taken /\ new = id)
      BY <2>1 DEF Is
    <3> QED BY <1>1, <1>3, <2>1, <3>1, <3>2, AppendProperties
  <2>2. CASE ~taken
    <3>1. Is(taken /\ new = id) = 0
      BY <2>2 DEF Is
    <3> QED BY <1>1, <2>2, <3>1, BlockType
  <2> QED BY <2>1, <2>2
<1> HIDE DEF acts
<1>7. Is(cur' = id) + Count(act', id) = Is(notTaken /\ cur = id) + Count(acts, id)
  <2>1. CASE notTaken
    <3>1. Is(notTaken /\ cur = id) = Is(cur = id)
      BY <2>1 DEF Is
    <3> QED BY <1>1, <1>5, <1>6, <2>1, <3>1, ContinueOwned
  <2>2. CASE ~notTaken
    <3>1. Is(notTaken /\ cur = id) = 0 /\ Is(cur' = id) = 0 /\ act' = acts
      BY <1>5, <2>2, NoStateOwned DEF Is
    <3> QED BY <3>1
  <2> QED BY <2>1, <2>2
<1>8. Is(heap'[id].live) + Is(cur = id)
        = Is(heap[id].live) + Is(taken /\ new = id) + Is(notTaken /\ cur = id)
  <2>1. /\ Taken(s).live = TRUE /\ NotTaken(s).live = TRUE /\ Blank.live = FALSE
    <3>1. Goto(Clone(s), op.dst) \in SymState /\ Goto(Clone(s), op.dst).live = TRUE
      BY <1>1, CloneType, GotoType DEF Goto, Clone, SymState, Op
    <3>2. FallThrough(op, s) \in SymState /\ FallThrough(op, s).live = s.live
      BY <1>1, FallThroughType DEF FallThrough, SymState
    <3> QED BY <1>1, <3>1, <3>2 DEF Taken, NotTaken, Blank, SymState, s
  <2>2. CASE id = cur
    <3>1. heap'[id] = IF notTaken THEN NotTaken(s) ELSE Blank
      BY <1>1, <1>3, <1>4, <2>2
    <3>2. Is(heap'[id].live) = Is(notTaken)
      BY <2>1, <3>1 DEF Is
    <3>3. /\ Is(cur = id) = 1 /\ Is(heap[id].live) = 1 /\ Is(taken /\ new = id) = 0
          /\ Is(notTaken /\ cur = id) = Is(notTaken) /\ Is(notTaken) \in {0, 1}
      BY <1>1, <1>3, <2>2 DEF Is
    <3> QED BY <3>2, <3>3
  <2>3. CASE id = new
    <3>1. heap'[id] = IF taken THEN Taken(s) ELSE Blank
      BY <1>1, <1>3, <1>4, <2>3
    <3>2. Is(heap'[id].live) = Is(taken)
      BY <2>1, <3>1 DEF Is
    <3>3. /\ Is(cur = id) = 0 /\ Is(heap[id].live) = 0 /\ Is(taken /\ new = id) = Is(taken)
          /\ Is(notTaken /\ cur = id) = 0 /\ Is(taken) \in {0, 1}
      BY <1>1, <1>3, <2>3 DEF Is
    <3> QED BY <3>2, <3>3
  <2>4. CASE id # cur /\ id # new
    <3>1. heap'[id] = heap[id]
      BY <1>1, <1>3, <1>4, <2>4
    <3>2. /\ Is(cur = id) = 0 /\ Is(taken /\ new = id) = 0 /\ Is(notTaken /\ cur = id) = 0
          /\ Is(heap[id].live) \in {0, 1}
      BY <2>4 DEF Is
    <3> QED BY <3>1, <3>2
  <2> QED BY <2>2, <2>3, <2>4
<1>9. Is(taken /\ new = id) \in Nat /\ Is(notTaken /\ cur = id) \in Nat
  BY DEF Is
<1>10. /\ InBlock(id) = Is(cur = id) + Count(act, id) + Count(ext, id)
       /\ InBlock(id)' = Is(cur' = id) + Count(act', id) + Count(ext, id)
  BY DEF InBlock
<1>11. /\ Is(cur = id) \in Nat /\ Is(cur' = id) \in Nat
       /\ Is(heap[id].live) \in Nat /\ Is(heap'[id].live) \in Nat
       /\ Count(act, id) \in Nat /\ Count(act', id) \in Nat /\ Count(ext, id) \in Nat
  BY BlockType
<1>12. InBlock(id)' = Is(notTaken /\ cur = id) + Count(act, id) + Is(taken /\ new = id)
                        + Count(ext, id)
  BY <1>6, <1>7, <1>9, <1>10, <1>11
<1> HIDE DEF InBlock
<1> QED BY <1>8, <1>9, <1>10, <1>11, <1>12 DEF Balanced

\* A fork: its parts join act, and the current state is dropped or one of them.
LEMMA ForkBalanced ==
  ASSUME TypeOK, TypeOK', OwnerInv, phase = "exec",
         NEW f, NEW st, Forks(f, st), ForkTo(f, st), NoState, ext' = ext, NEW id \in Id
  PROVE  Balanced(id)
<1> DEFINE mine == \E k \in DOMAIN f : f[k] = id
<1>1. /\ cur \in Id /\ heap[cur].live = TRUE /\ act \in Seq(Id) /\ s = heap[cur]
      /\ heap \in [Id -> SymState] /\ Blank.live = FALSE
  BY CurIsLive DEF TypeOK, s, Blank
<1>2. /\ f \in Seq(Id)
      /\ \A k, l \in DOMAIN f : f[k] = f[l] => k = l
      /\ \A k \in DOMAIN f : (f[k] = cur \/ ~heap[f[k]].live) /\ st[k].live = TRUE
  BY <1>1 DEF Forks
<1>3. /\ act' = act \o f
      /\ \A k \in DOMAIN f : heap'[f[k]] = st[k]
      /\ ~mine => heap'[id] = IF id = cur THEN Blank ELSE heap[id]
  BY ForkHeap
<1>4. DOMAIN f = 1..Len(f) /\ Len(f) \in Nat
  BY <1>2, LenProperties
<1>5. Count(f, id) = Is(mine)
  BY <1>2, <1>4, CountOfDistinct
<1>6. Count(act', id) = Count(act, id) + Is(mine)
  <2>1. Count(act \o f, id) = Count(act, id) + Count(f, id)
    BY <1>1, <1>2, CountConcat
  <2> HIDE DEF mine
  <2> QED BY <1>3, <1>5, <2>1
<1>7. Is(heap'[id].live) + Is(cur = id) = Is(heap[id].live) + Is(mine)
  <2>1. CASE mine
    <3>1. heap'[id].live = TRUE /\ (id = cur \/ ~heap[id].live)
      BY <1>2, <1>3, <2>1
    <3>2. heap[id].live = (cur = id)
      BY <1>1, <3>1 DEF SymState
    <3> HIDE DEF mine
    <3>3. Is(heap'[id].live) = 1 /\ Is(mine) = 1 /\ Is(heap[id].live) = Is(cur = id)
      BY <2>1, <3>1, <3>2 DEF Is
    <3>4. Is(cur = id) \in Nat
      BY DEF Is
    <3> QED BY <3>3, <3>4
  <2>2. CASE ~mine /\ id = cur
    <3>1. heap'[id] = Blank
      BY <1>3, <2>2
    <3> HIDE DEF mine
    <3> QED BY <1>1, <2>2, <3>1 DEF Is
  <2>3. CASE ~mine /\ id # cur
    <3>1. heap'[id] = heap[id]
      BY <1>3, <2>3
    <3> HIDE DEF mine
    <3>2. Is(cur = id) = 0 /\ Is(mine) = 0 /\ Is(heap[id].live) \in Nat
      BY <2>3 DEF Is
    <3> QED BY <3>1, <3>2
  <2> QED BY <2>1, <2>2, <2>3
<1>8. Is(cur' = id) = 0 /\ Is(mine) \in Nat
  BY NoStateOwned DEF Is
<1>9. /\ InBlock(id) = Is(cur = id) + Count(act, id) + Count(ext, id)
      /\ InBlock(id)' = Is(cur' = id) + Count(act', id) + Count(ext, id)
  BY DEF InBlock
<1>10. /\ Is(cur = id) \in Nat
       /\ Is(heap[id].live) \in Nat /\ Is(heap'[id].live) \in Nat
       /\ Count(act, id) \in Nat /\ Count(ext, id) \in Nat
  BY BlockType
<1> HIDE DEF InBlock, mine
<1>11. InBlock(id)' = Count(act, id) + Is(mine) + Count(ext, id)
  BY <1>6, <1>8, <1>9, <1>10
<1> QED BY <1>7, <1>8, <1>9, <1>10, <1>11 DEF Balanced

LEMMA ExecBalanced ==
  ASSUME TypeOK, TypeOK', OwnerInv, ExecuteOp, NEW id \in Id
  PROVE  Balanced(id)
<1> USE DEF Executing
<1>1. phase = "exec"
  BY DEF ExecuteOp, DataOp, UnsatState, CBranchLazy, CBranchEager, DirectJump,
         ConstantIP, SymbolicIP, UnsatIP, UnconstrainedIP, ForkIP, LibReturn, LibExit, ExitFail
<1>2. /\ op \in Op /\ s \in SymState /\ cur \in Id /\ s.live = TRUE
      /\ heap \in [Id -> SymState] /\ act \in Seq(Id) /\ ext \in Seq(Id)
  BY <1>1, OpType, CurIsLive DEF TypeOK, s
<1>3. /\ Is(cur = id) \in Nat /\ Is(cur' = id) \in Nat
      /\ Count(act, id) \in Nat /\ Count(act', id) \in Nat
      /\ Count(ext, id) \in Nat /\ Count(ext', id) \in Nat
  BY BlockType
<1>4. CASE DataOp
  <2>1. PICK st \in SymState : heap' = [heap EXCEPT ![cur] = st] /\ st.live = s.live
    BY <1>1, <1>4, DataPart
  <2>2. Continue(act) /\ ext' = ext
    BY <1>4 DEF DataOp
  <2>3. Is(cur' = id) + Count(act', id) = Is(cur = id) + Count(act, id)
    BY <1>2, <2>2, ContinueOwned
  <2> QED BY <1>1, <1>2, <2>1, <2>2, <2>3, ReplaceBalanced
<1>5. CASE UnsatState \/ UnsatIP
  BY <1>1, <1>5, DropBalanced DEF UnsatState, UnsatIP
<1>6. CASE CBranchLazy \/ CBranchEager
  BY <1>1, <1>6, BranchBalanced DEF CBranchLazy, CBranchEager
<1>7. Recorded(s) \in SymState /\ Recorded(s).live = TRUE
  <2>1. Recorded(s) \in SymState
    BY <1>1, <1>2, RecordedType
  <2> QED BY <1>2, <2>1 DEF Recorded, SymState
<1>8. ASSUME NEW st, st.live = TRUE, heap' = [heap EXCEPT ![cur] = st], Push, ext' = ext
      PROVE  Balanced(id)
  <2>1. Is(cur' = id) + Count(act', id) = Is(cur = id) + Count(act, id)
    BY <1>2, <1>8, PushOwned
  <2> QED BY <1>1, <1>8, <2>1, ReplaceBalanced
<1>9. ASSUME NEW st \in SymState, NEW a, st.live = TRUE PROVE Goto(st, a).live = TRUE
  BY <1>9 DEF Goto, SymState
<1>10. CASE DirectJump
  <2>1. Goto(Recorded(s), op.dst).live = TRUE
    BY <1>7, <1>9
  <2> QED BY <1>8, <1>10, <2>1 DEF DirectJump
<1>11. CASE ConstantIP
  <2>1. PICK a \in Addr : heap' = [heap EXCEPT ![cur] = Goto(Recorded(s), a)]
    BY <1>11 DEF ConstantIP
  <2>2. Goto(Recorded(s), a).live = TRUE
    BY <1>7, <1>9
  <2> QED BY <1>8, <1>11, <2>1, <2>2 DEF ConstantIP
<1>12. CASE UnconstrainedIP
  <2>1. Is(cur' = id) + Count(ext', id) = Is(cur = id) + Count(ext, id)
    BY <1>2, <1>12, ExitOwned DEF UnconstrainedIP
  <2>2. act' = act /\ heap' = [heap EXCEPT ![cur] = Recorded(s)]
    BY <1>12 DEF UnconstrainedIP
  <2>3. Is(cur' = id) + Count(act', id) + Count(ext', id)
          = Is(cur = id) + Count(act, id) + Count(ext, id)
    BY <1>3, <2>1, <2>2
  <2> QED BY <1>1, <1>7, <2>2, <2>3, ReplaceBalanced
<1>13. CASE ForkIP \/ LibReturn
  <2>1. PICK f, st : Forks(f, st) /\ ForkTo(f, st)
    BY <1>1, <1>13, JumpForks, ReturnForks
  <2>2. NoState /\ ext' = ext
    BY <1>13 DEF ForkIP, LibReturn
  <2> QED BY <1>1, <2>1, <2>2, ForkBalanced
<1>15. CASE LibExit
  <2>1. Is(cur' = id) + Count(ext', id) = Is(cur = id) + Count(ext, id)
    BY <1>2, <1>15, ExitOwned DEF LibExit
  <2>2. act' = act /\ heap' = [heap EXCEPT ![cur] = s]
    BY <1>2, <1>15 DEF LibExit, s
  <2>3. Is(cur' = id) + Count(act', id) + Count(ext', id)
          = Is(cur = id) + Count(act, id) + Count(ext, id)
    BY <1>3, <2>1, <2>2
  <2> QED BY <1>1, <1>2, <2>2, <2>3, ReplaceBalanced
<1>16. CASE ExitFail
  <2>1. InBlock(id)' = InBlock(id) /\ heap' = heap
    BY <1>16 DEF ExitFail, InBlock
  <2> QED BY <2>1 DEF Balanced
<1> QED BY <1>4, <1>5, <1>6, <1>10, <1>11, <1>12, <1>13, <1>15, <1>16 DEF ExecuteOp

\* get_next and add_actives take one state out of the lists, and put one in.
LEMMA RestPending ==
  ASSUME TypeOK, ~NothingPending(frontier), NEW id \in Id
  PROVE  Pending(frontier, id) = Pending(Rest(frontier), id) + Is(Next1(frontier) = id)
<1> DEFINE n == NextQueue(frontier)
           q == frontier[n]
           r == SubSeq(q, 1, Len(q) - 1)
<1>1. /\ n \in {"main", "context", "other"} /\ q \in Seq(Id) /\ q # <<>>
      /\ frontier.main \in Seq(Id) /\ frontier.context \in Seq(Id)
      /\ frontier.other \in Seq(Id)
  BY DEF NextQueue, TypeOK, NothingPending
<1>2. Count(q, id) = Count(r, id) + Is(q[Len(q)] = id) /\ r \in Seq(Id)
  <2> HIDE DEF q
  <2> QED BY <1>1, CountLast
<1>3. Next1(frontier) = q[Len(q)]
  BY DEF Next1
<1>4. Rest(frontier) = [frontier EXCEPT ![n] = r]
  BY <1>1 DEF Rest, TypeOK
<1>5. /\ Count(r, id) \in Nat /\ Is(q[Len(q)] = id) \in Nat
      /\ Count(frontier.main, id) \in Nat /\ Count(frontier.context, id) \in Nat
      /\ Count(frontier.other, id) \in Nat
  BY <1>1, <1>2, CountType DEF Is
<1> HIDE DEF r
<1>6. CASE n = "main"
  <2>1. /\ Rest(frontier).main = r /\ Rest(frontier).context = frontier.context
        /\ Rest(frontier).other = frontier.other /\ q = frontier.main
    BY <1>4, <1>6 DEF TypeOK
  <2> HIDE DEF q
  <2> QED BY <1>2, <1>3, <1>5, <2>1 DEF Pending
<1>7. CASE n = "context"
  <2>1. /\ Rest(frontier).main = frontier.main /\ Rest(frontier).context = r
        /\ Rest(frontier).other = frontier.other /\ q = frontier.context
    BY <1>4, <1>7 DEF TypeOK
  <2> HIDE DEF q
  <2> QED BY <1>2, <1>3, <1>5, <2>1 DEF Pending
<1>8. CASE n = "other"
  <2>1. /\ Rest(frontier).main = frontier.main /\ Rest(frontier).context = frontier.context
        /\ Rest(frontier).other = r /\ q = frontier.other
    BY <1>4, <1>8 DEF TypeOK
  <2> HIDE DEF q
  <2> QED BY <1>2, <1>3, <1>5, <2>1 DEF Pending
<1> QED BY <1>1, <1>6, <1>7, <1>8

LEMMA AddPending ==
  ASSUME TypeOK, NEW e \in Id, NEW tech, NEW pc, NEW calls, NEW id \in Id
  PROVE  Pending(Add(tech, frontier, e, pc, calls), id) = Pending(frontier, id) + Is(e = id)
<1> DEFINE F == Add(tech, frontier, e, pc, calls)
           q == CovQueue(frontier, pc, calls)
<1>1. /\ frontier.main \in Seq(Id) /\ frontier.context \in Seq(Id)
      /\ frontier.other \in Seq(Id) /\ q \in {"main", "context", "other"}
  BY DEF CovQueue, TypeOK
<1>2. /\ Count(frontier.main, id) \in Nat /\ Count(frontier.context, id) \in Nat
      /\ Count(frontier.other, id) \in Nat /\ Is(e = id) \in Nat
  BY <1>1, CountType DEF Is
<1>3. /\ Count(Append(frontier.main, e), id) = Count(frontier.main, id) + Is(e = id)
      /\ Count(Append(frontier.context, e), id) = Count(frontier.context, id) + Is(e = id)
      /\ Count(Append(frontier.other, e), id) = Count(frontier.other, id) + Is(e = id)
      /\ Count(<<e>> \o frontier.main, id) = Count(frontier.main, id) + Is(e = id)
  BY <1>1, CountAppend, CountPrepend
<1>4. CASE tech = "bfs"
  <2>1. /\ F.main = <<e>> \o frontier.main /\ F.context = frontier.context
        /\ F.other = frontier.other
    BY <1>4 DEF Add, TypeOK
  <2> HIDE DEF F
  <2> QED BY <1>2, <1>3, <2>1 DEF Pending, F
<1>5. CASE tech = "cov"
  <2>1. F = [frontier EXCEPT ![q] = Append(@, e), !.addrs = @ \cup {pc},
                             !.contexts = @ \cup {<<pc, calls>>}]
    BY <1>5 DEF Add
  <2>2. CASE q = "main"
    <3>1. /\ F.main = Append(frontier.main, e) /\ F.context = frontier.context
          /\ F.other = frontier.other
      BY <2>1, <2>2 DEF TypeOK
    <3> QED BY <1>2, <1>3, <3>1 DEF Pending
  <2>3. CASE q = "context"
    <3>1. /\ F.main = frontier.main /\ F.context = Append(frontier.context, e)
          /\ F.other = frontier.other
      BY <2>1, <2>3 DEF TypeOK
    <3> QED BY <1>2, <1>3, <3>1 DEF Pending
  <2>4. CASE q = "other"
    <3>1. /\ F.main = frontier.main /\ F.context = frontier.context
          /\ F.other = Append(frontier.other, e)
      BY <2>1, <2>4 DEF TypeOK
    <3> QED BY <1>2, <1>3, <3>1 DEF Pending
  <2> QED BY <1>1, <2>2, <2>3, <2>4
<1>6. CASE tech # "bfs" /\ tech # "cov"
  <2>1. /\ F.main = Append(frontier.main, e) /\ F.context = frontier.context
        /\ F.other = frontier.other
    BY <1>6 DEF Add, TypeOK
  <2> HIDE DEF F
  <2> QED BY <1>2, <1>3, <2>1 DEF Pending, F
<1> QED BY <1>4, <1>5, <1>6

LEMMA OwnerInit == Init => OwnerInv
<1> SUFFICES ASSUME Init PROVE OwnerInv
  OBVIOUS
<1>1. cur = NoId /\ found = NoId
  BY DEF Init
<1>2. ASSUME NEW id \in Id PROVE Owned(id) = Is(heap[id].live)
  <2>1. Is(cur = id) = 0 /\ Is(found = id) = 0 /\ Is(id \in exited) = 0 /\ Is(id \in reported) = 0
    BY <1>1, IdAssumption DEF Init, Is
  <2>2. Count(act, id) = 0 /\ Count(ext, id) = 0 /\ Count(keep, id) = 0
    BY CountEmpty DEF Init
  <2>3. /\ frontier.main = <<FirstId>> /\ frontier.context = <<>> /\ frontier.other = <<>>
    BY DEF Init, FirstFrontier
  <2>4. Pending(frontier, id) = Is(FirstId = id)
    <3>1. Count(frontier.main, id) = Is(FirstId = id)
      BY <2>3, CountOne
    <3>2. Is(FirstId = id) \in Nat
      BY DEF Is
    <3> QED BY <2>3, <3>1, <3>2, CountEmpty DEF Pending
  <2>5. Is(heap[id].live) = Is(FirstId = id)
    <3>1. heap[id] = IF id = FirstId THEN [Blank EXCEPT !.pi = Input, !.live = TRUE] ELSE Blank
      BY DEF Init
    <3>2. Blank.live = FALSE /\ [Blank EXCEPT !.pi = Input, !.live = TRUE].live = TRUE
      BY DEF Blank
    <3>3. heap[id].live = TRUE <=> FirstId = id
      BY <3>1, <3>2
    <3>4. heap[id].live \in BOOLEAN
      BY <3>1, <3>2
    <3> QED BY <3>3, <3>4 DEF Is
  <2> QED BY <2>1, <2>2, <2>4, <2>5 DEF Owned, InBlock, Is
<1> QED BY <1>1, <1>2 DEF OwnerInv, CurShape

\* Letting go of one object that is held once.
LEMMA GoneOwned ==
  ASSUME TypeOK, OwnerInv, phase # "found", NEW gone \in Id, NEW id \in Id,
         heap' = [heap EXCEPT ![gone] = Blank],
         Owned(id)' \in Nat, Owned(id) = Owned(id)' + Is(gone = id)
  PROVE  Owned(id)' = Is(heap'[id].live)
<1>1. heap \in [Id -> SymState] /\ Owned(id) = Is(heap[id].live) /\ Blank.live = FALSE
  BY DEF TypeOK, OwnerInv, Blank
<1>2. CASE id = gone
  <2>1. heap'[id] = Blank /\ Is(gone = id) = 1 /\ Is(heap[id].live) \in {0, 1}
    BY <1>1, <1>2 DEF Is
  <2>2. Owned(id)' = 0
    BY <1>1, <2>1
  <2> QED BY <1>1, <2>1, <2>2 DEF Is
<1>3. CASE id # gone
  <2>1. heap'[id] = heap[id] /\ Is(gone = id) = 0
    BY <1>1, <1>3 DEF Is
  <2> QED BY <1>1, <2>1
<1> QED BY <1>2, <1>3

LEMMA OwnedParts ==
  ASSUME NEW id
  PROVE  /\ Owned(id) = Is(cur = id) + Count(act, id) + Count(ext, id) + Count(keep, id)
                          + Pending(frontier, id) + Is(id \in exited) + Is(id \in reported)
                          + Is(found = id)
         /\ Owned(id)' = Is(cur' = id) + Count(act', id) + Count(ext', id) + Count(keep', id)
                          + Pending(frontier', id) + Is(id \in exited') + Is(id \in reported')
                          + Is(found' = id)
BY DEF Owned, InBlock

LEMMA PartsType ==
  ASSUME TypeOK, TypeOK', NEW id \in Id
  PROVE  /\ Is(cur = id) \in Nat /\ Is(cur' = id) \in Nat
         /\ Count(act, id) \in Nat /\ Count(act', id) \in Nat
         /\ Count(ext, id) \in Nat /\ Count(ext', id) \in Nat
         /\ Count(keep, id) \in Nat /\ Count(keep', id) \in Nat
         /\ Pending(frontier, id) \in Nat /\ Pending(frontier', id) \in Nat
         /\ Is(id \in exited) \in Nat /\ Is(id \in exited') \in Nat
         /\ Is(id \in reported) \in Nat /\ Is(id \in reported') \in Nat
         /\ Is(found = id) \in Nat /\ Is(found' = id) \in Nat
         /\ Owned(id) \in Nat /\ Owned(id)' \in Nat
<1>1. /\ keep \in Seq(Id) /\ keep' \in Seq(Id)
      /\ frontier.main \in Seq(Id) /\ frontier.context \in Seq(Id)
      /\ frontier.other \in Seq(Id)
      /\ frontier'.main \in Seq(Id) /\ frontier'.context \in Seq(Id)
      /\ frontier'.other \in Seq(Id)
  BY DEF TypeOK
<1>2. /\ Count(keep, id) \in Nat /\ Count(keep', id) \in Nat
  BY <1>1, CountType
<1>3. /\ Count(frontier.main, id) \in Nat /\ Count(frontier.context, id) \in Nat
      /\ Count(frontier.other, id) \in Nat
      /\ Count(frontier'.main, id) \in Nat /\ Count(frontier'.context, id) \in Nat
      /\ Count(frontier'.other, id) \in Nat
  BY <1>1, CountType
<1>4. /\ Is(id \in exited) \in Nat /\ Is(id \in exited') \in Nat
      /\ Is(id \in reported) \in Nat /\ Is(id \in reported') \in Nat
      /\ Is(found = id) \in Nat /\ Is(found' = id) \in Nat
  BY DEF Is
<1>5. Pending(frontier, id) \in Nat /\ Pending(frontier', id) \in Nat
  BY <1>3 DEF Pending
<1>6. /\ Is(cur = id) \in Nat /\ Is(cur' = id) \in Nat
      /\ Count(act, id) \in Nat /\ Count(act', id) \in Nat
      /\ Count(ext, id) \in Nat /\ Count(ext', id) \in Nat
  BY BlockType
<1> QED BY <1>2, <1>4, <1>5, <1>6, OwnedParts

\* The steps that hand objects over and let go of none.
LEMMA HandOver ==
  ASSUME OwnerInv, phase # "found", heap' = heap,
         \A id \in Id : Owned(id)' = Owned(id)
  PROVE  \A id \in Id : Owned(id)' = Is(heap'[id].live)
BY DEF OwnerInv

LEMMA OwnerSift ==
  ASSUME TypeOK, TypeOK', OwnerInv, SiftExited, NEW id \in Id
  PROVE  Owned(id)' = Is(heap'[id].live)
<1> DEFINE e == Head(ext)
<1>1. phase = "sift" /\ ext # <<>> /\ ext' = Tail(ext) /\ ext \in Seq(Id)
  BY DEF SiftExited, TypeOK
<1>2. e \in Id /\ Count(ext, id) = Count(ext', id) + Is(e = id)
  BY <1>1, CountTail
<1>3. /\ cur' = cur /\ act' = act /\ keep' = keep /\ frontier' = frontier /\ found' = found
  BY DEF SiftExited
<1> HIDE DEF e
<1>4. Owned(id) = Is(heap[id].live)
  BY <1>1 DEF OwnerInv
<1>5. Owned(id) \in {0, 1}
  BY <1>4 DEF Is
<1>6. Is(e = id) \in {0, 1} /\ (Is(e = id) = 1 <=> e = id)
  BY DEF Is
<1>7. /\ Is(id \in exited) \in {0, 1} /\ (Is(id \in exited) = 1 <=> id \in exited)
      /\ Is(id \in reported) \in {0, 1} /\ (Is(id \in reported) = 1 <=> id \in reported)
  BY DEF Is
<1>8. e = id => id \notin exited /\ id \notin reported
  BY <1>2, <1>5, <1>6, <1>7, OwnedParts, PartsType
<1>9. CASE exited' = exited \cup {e} /\ UNCHANGED <<heap, reported>>
  <2>1. Is(id \in exited') = Is(id \in exited) + Is(e = id)
    BY <1>8, <1>9 DEF Is
  <2> QED BY <1>2, <1>3, <1>4, <1>9, <2>1, OwnedParts, PartsType
<1>10. CASE reported' = reported \cup {e} /\ UNCHANGED <<heap, exited>>
  <2>1. Is(id \in reported') = Is(id \in reported) + Is(e = id)
    BY <1>8, <1>10 DEF Is
  <2> QED BY <1>2, <1>3, <1>4, <1>10, <2>1, OwnedParts, PartsType
<1>11. CASE heap' = [heap EXCEPT ![e] = Blank] /\ UNCHANGED <<exited, reported>>
  <2> DEFINE rest == Is(cur = id) + Count(act, id) + Count(keep, id) + Pending(frontier, id)
                       + Is(id \in exited) + Is(id \in reported) + Is(found = id)
  <2>a. rest \in Nat /\ Owned(id) = rest + Count(ext, id)
    BY OwnedParts, PartsType
  <2>b. Owned(id)' = rest + Count(ext', id) /\ Count(ext', id) \in Nat
    BY <1>3, <1>11, OwnedParts, PartsType
  <2> HIDE DEF rest
  <2>1. Owned(id) = Owned(id)' + Is(e = id)
    BY <1>2, <1>6, <2>a, <2>b
  <2> QED BY <1>1, <1>2, <1>11, <2>1, PartsType, GoneOwned
<1> QED BY <1>9, <1>10, <1>11 DEF SiftExited, e

LEMMA OwnerStep == IInv /\ TypeOK' /\ OwnerInv /\ [Next]_vars => OwnerInv'
<1> SUFFICES ASSUME TypeOK, TypeOK', OwnerInv, [Next]_vars PROVE OwnerInv'
  BY DEF IInv
<1>1. CASE Select
  <2>1. /\ phase = "select" /\ cur = NoId /\ cur' = Next1(frontier)
        /\ ~NothingPending(frontier) /\ frontier' = Rest(frontier) /\ phase' = "exec"
        /\ heap' = heap /\ act' = act /\ ext' = ext /\ keep' = keep
        /\ exited' = exited /\ reported' = reported /\ found' = found
    BY <1>1 DEF Select, OwnerInv, CurShape
  <2>2. ASSUME NEW id \in Id PROVE Owned(id)' = Owned(id)
    <3>1. Pending(frontier, id) = Pending(frontier', id) + Is(cur' = id)
      BY <2>1, RestPending
    <3>2. Is(cur = id) = 0
      BY <2>1, IdAssumption DEF Is
    <3> QED BY <2>1, <3>1, <3>2, OwnedParts, PartsType
  <2>3. \A id \in Id : Owned(id)' = Is(heap'[id].live)
    BY <2>1, <2>2, HandOver
  <2> QED BY <2>1, <2>3 DEF OwnerInv, CurShape
<1>2. CASE Exhaust
  <2>1. phase # "found" /\ UNCHANGED <<heap, cur, act, ext, manager>> /\ phase' = "exhausted"
        /\ cur = NoId
    BY <1>2 DEF Exhaust, OwnerInv, CurShape
  <2>2. \A id \in Id : Owned(id)' = Owned(id)
    BY <2>1 DEF Owned, InBlock, Pending, manager
  <2>3. \A id \in Id : Owned(id)' = Is(heap'[id].live)
    BY <2>1, <2>2, HandOver
  <2> QED BY <2>1, <2>3 DEF OwnerInv, CurShape, manager
<1>3. CASE ExecuteBlock
  <2>1. ExecuteOp /\ UNCHANGED manager
    BY <1>3 DEF ExecuteBlock
  <2>2. phase = "exec"
    BY <2>1 DEF ExecuteOp, DataOp, UnsatState, CBranchLazy, CBranchEager, DirectJump,
           ConstantIP, SymbolicIP, UnsatIP, UnconstrainedIP, ForkIP, LibReturn, LibExit,
           ExitFail, Executing
  <2>3. ASSUME NEW id \in Id PROVE Owned(id)' = Is(heap'[id].live)
    <3>1. Balanced(id)
      BY <2>1, ExecBalanced
    <3>2. /\ keep' = keep /\ frontier' = frontier /\ exited' = exited
          /\ reported' = reported /\ found' = found
      BY <2>1 DEF manager
    <3>3. /\ Owned(id) = InBlock(id) + Count(keep, id) + Pending(frontier, id)
               + Is(id \in exited) + Is(id \in reported) + Is(found = id)
          /\ Owned(id)' = InBlock(id)' + Count(keep, id) + Pending(frontier, id)
               + Is(id \in exited) + Is(id \in reported) + Is(found = id)
      BY <3>2 DEF Owned
    <3>4. InBlock(id) \in Nat /\ InBlock(id)' \in Nat
      BY BlockType DEF InBlock
    <3>5. Is(heap[id].live) \in Nat /\ Is(heap'[id].live) \in Nat
      BY DEF Is
    <3>6. Owned(id) = Is(heap[id].live)
      BY <2>2 DEF OwnerInv
    <3> HIDE DEF InBlock
    <3> QED BY <3>1, <3>3, <3>4, <3>5, <3>6, PartsType DEF Balanced
  <2>4. phase' \in {"exec", "sift", "failed"} /\ (phase' = "sift" => cur' = NoId)
        /\ found' = found /\ found = NoId
    <3>1. ExecTypes
      BY <2>1, ExecTypeStep
    <3>2. phase' = "sift" => cur' = NoId
      BY <2>1, <2>2 DEF ExecuteOp, DataOp, UnsatState, CBranchLazy, CBranchEager, Branch,
           DirectJump, ConstantIP, SymbolicIP, UnsatIP, UnconstrainedIP, ForkIP, LibReturn,
           LibExit, ExitFail, Executing, NoState, Push, Continue
    <3> QED BY <2>1, <2>2, <3>1, <3>2 DEF ExecTypes, manager, OwnerInv, CurShape
  <2> QED BY <2>3, <2>4 DEF OwnerInv, CurShape
<1>4. CASE SiftExited
  <2>1. \A id \in Id : Owned(id)' = Is(heap'[id].live)
    BY <1>4, OwnerSift
  <2> QED BY <1>4, <2>1 DEF SiftExited, OwnerInv, CurShape
<1>5. CASE ReturnFound
  BY <1>5 DEF ReturnFound, Sifting, OwnerInv, CurShape
<1>6. CASE DropSuccessor
  <2>1. PICK gone \in Id : /\ Sifting(gone) /\ act' = Tail(act)
                           /\ heap' = [heap EXCEPT ![gone] = Blank]
    BY <1>6 DEF DropSuccessor
  <2>2. /\ phase' = phase /\ cur' = cur /\ ext' = ext /\ keep' = keep
        /\ frontier' = frontier /\ exited' = exited /\ reported' = reported
        /\ found' = found /\ phase = "sift" /\ act # <<>> /\ gone = Head(act)
    BY <1>6, <2>1 DEF DropSuccessor, manager, Sifting
  <2>3. ASSUME NEW id \in Id PROVE Owned(id)' = Is(heap'[id].live)
    <3>1. Count(act, id) = Count(act', id) + Is(gone = id)
      BY <2>1, <2>2, CountTail DEF TypeOK
    <3>2. Is(gone = id) \in Nat
      BY DEF Is
    <3> DEFINE rest == Is(cur = id) + Count(ext, id) + Count(keep, id) + Pending(frontier, id)
                         + Is(id \in exited) + Is(id \in reported) + Is(found = id)
    <3>a. rest \in Nat /\ Owned(id) = rest + Count(act, id)
      BY OwnedParts, PartsType
    <3>b. Owned(id)' = rest + Count(act', id) /\ Count(act', id) \in Nat
      <4>1. Owned(id)' = Is(cur = id) + Count(act', id) + Count(ext, id) + Count(keep, id)
                           + Pending(frontier, id) + Is(id \in exited) + Is(id \in reported)
                           + Is(found = id)
        BY <2>2, OwnedParts
      <4>2. /\ Is(cur = id) \in Nat /\ Count(act', id) \in Nat /\ Count(ext, id) \in Nat
            /\ Count(keep, id) \in Nat /\ Pending(frontier, id) \in Nat
            /\ Is(id \in exited) \in Nat /\ Is(id \in reported) \in Nat
            /\ Is(found = id) \in Nat
        BY PartsType
      <4> QED BY <4>1, <4>2
    <3> HIDE DEF rest
    <3>3. Owned(id) = Owned(id)' + Is(gone = id)
      BY <3>1, <3>2, <3>a, <3>b
    <3> QED BY <2>1, <2>2, <3>3, PartsType, GoneOwned
  <2> QED BY <2>2, <2>3 DEF OwnerInv, CurShape
<1>7. CASE KeepSuccessor
  <2>1. PICK e \in Id : /\ Sifting(e) /\ act' = Tail(act) /\ keep' = Append(keep, e)
    BY <1>7 DEF KeepSuccessor
  <2>2. /\ phase' = phase /\ cur' = cur /\ ext' = ext /\ heap' = heap
        /\ frontier' = frontier /\ exited' = exited /\ reported' = reported
        /\ found' = found /\ phase = "sift" /\ act # <<>> /\ e = Head(act)
    BY <1>7, <2>1 DEF KeepSuccessor, Sifting
  <2>3. ASSUME NEW id \in Id PROVE Owned(id)' = Owned(id)
    <3>1. Count(act, id) = Count(act', id) + Is(e = id)
      BY <2>1, <2>2, CountTail DEF TypeOK
    <3>2. Count(keep', id) = Count(keep, id) + Is(e = id)
      BY <2>1, CountAppend DEF TypeOK
    <3>3. Is(e = id) \in Nat
      BY DEF Is
    <3>4. /\ Count(act, id) \in Nat /\ Count(act', id) \in Nat
          /\ Count(keep, id) \in Nat /\ Count(keep', id) \in Nat
          /\ Is(cur = id) \in Nat /\ Count(ext, id) \in Nat /\ Pending(frontier, id) \in Nat
          /\ Is(id \in exited) \in Nat /\ Is(id \in reported) \in Nat /\ Is(found = id) \in Nat
      BY PartsType
    <3>5. /\ Owned(id) = Is(cur = id) + Count(act, id) + Count(ext, id) + Count(keep, id)
                           + Pending(frontier, id) + Is(id \in exited) + Is(id \in reported)
                           + Is(found = id)
          /\ Owned(id)' = Is(cur = id) + Count(act', id) + Count(ext, id) + Count(keep', id)
                           + Pending(frontier, id) + Is(id \in exited) + Is(id \in reported)
                           + Is(found = id)
      BY <2>2, OwnedParts
    <3> QED BY ONLY <3>1, <3>2, <3>3, <3>4, <3>5
  <2>4. \A id \in Id : Owned(id)' = Is(heap'[id].live)
    BY <2>2, <2>3, HandOver
  <2> QED BY <2>2, <2>4 DEF OwnerInv, CurShape
<1>8. CASE AddActive
  <2>1. PICK k \in Picks(conf.tech, keep) :
          /\ frontier' = Add(conf.tech, frontier, keep[k], heap[keep[k]].pc,
                             heap[keep[k]].calls)
          /\ keep' = Without(keep, k)
    BY <1>8 DEF AddActive
  <2>2. /\ phase' = phase /\ cur' = cur /\ ext' = ext /\ heap' = heap /\ act' = act
        /\ exited' = exited /\ reported' = reported
        /\ found' = found /\ phase = "sift" /\ keep # <<>>
    BY <1>8 DEF AddActive, exec
  <2>3. k \in 1..Len(keep) /\ keep \in Seq(Id) /\ keep[k] \in Id
    <3>1. keep \in Seq(Id) /\ Len(keep) \in Nat \ {0}
      BY <2>2, EmptySeq DEF TypeOK
    <3>2. k \in 1..Len(keep)
      BY <2>1, <3>1 DEF Picks
    <3> QED BY <3>1, <3>2, ElementOfSeq
  <2>4. ASSUME NEW id \in Id PROVE Owned(id)' = Owned(id)
    <3>1. Count(keep, id) = Count(keep', id) + Is(keep[k] = id)
      BY <2>1, <2>3, CountWithout
    <3>2. Pending(frontier', id) = Pending(frontier, id) + Is(keep[k] = id)
      BY <2>1, <2>3, AddPending
    <3>3. Is(keep[k] = id) \in Nat
      BY DEF Is
    <3> QED BY <2>2, <3>1, <3>2, <3>3, OwnedParts, PartsType
  <2>5. \A id \in Id : Owned(id)' = Is(heap'[id].live)
    BY <2>2, <2>4, HandOver
  <2> QED BY <2>2, <2>5 DEF OwnerInv, CurShape
<1>9. CASE NextRound
  <2>1. phase = "sift" /\ UNCHANGED <<heap, cur, act, ext, manager>> /\ phase' = "select"
        /\ cur = NoId
    BY <1>9 DEF NextRound, OwnerInv, CurShape
  <2>2. \A id \in Id : Owned(id)' = Owned(id)
    BY <2>1 DEF Owned, InBlock, Pending, manager
  <2>3. \A id \in Id : Owned(id)' = Is(heap'[id].live)
    BY <2>1, <2>2, HandOver
  <2> QED BY <2>1, <2>3 DEF OwnerInv, CurShape, manager
<1>10. CASE Finished \/ UNCHANGED vars
  BY <1>10 DEF Finished, vars, exec, manager, OwnerInv, CurShape, Owned, InBlock, Pending
<1> QED BY <1>1, <1>2, <1>3, <1>4, <1>5, <1>6, <1>7, <1>8, <1>9, <1>10 DEF Next

LEMMA OwnerAlways == Spec => [](IInv /\ OwnerInv)
<1>1. IInv => TypeOK
  BY DEF IInv
<1>2. IInv /\ OwnerInv /\ [Next]_vars => (IInv /\ OwnerInv)'
  BY <1>1, IInvStep, TypeStep, OwnerStep
<1> QED BY <1>2, IInvInit, OwnerInit, PTL DEF Spec

\* The places of OwnedOnce, one after the other.
LEMMA PointersCounted ==
  ASSUME TypeOK, NEW id \in Id
  PROVE  Cardinality({k \in DOMAIN Pointers : Pointers[k] = id})
           = InBlock(id) + Count(keep, id) + Pending(frontier, id)
<1> DEFINE c == IF cur = NoId THEN <<>> ELSE <<cur>>
           p1 == c \o act
           p2 == p1 \o ext
           p3 == p2 \o keep
           p4 == p3 \o frontier.main
           p5 == p4 \o frontier.context
           p6 == p5 \o frontier.other
<1>1. /\ act \in Seq(Id) /\ ext \in Seq(Id) /\ keep \in Seq(Id)
      /\ frontier.main \in Seq(Id) /\ frontier.context \in Seq(Id)
      /\ frontier.other \in Seq(Id)
  BY DEF TypeOK
<1>2. c \in Seq(Id) /\ Count(c, id) = Is(cur = id)
  <2>1. CASE cur = NoId
    <3>1. Is(cur = id) = 0
      BY <2>1, IdAssumption DEF Is
    <3> QED BY <2>1, <3>1, CountEmpty
  <2>2. CASE cur # NoId
    <3>1. cur \in Id /\ c = <<cur>>
      BY <2>2 DEF TypeOK
    <3> QED BY <3>1, CountOne
  <2> QED BY <2>1, <2>2
<1> HIDE DEF c
<1>3. p1 \in Seq(Id) /\ Count(p1, id) = Count(c, id) + Count(act, id)
  BY <1>1, <1>2, ConcatProperties, CountConcat
<1> HIDE DEF p1
<1>4. p2 \in Seq(Id) /\ Count(p2, id) = Count(p1, id) + Count(ext, id)
  BY <1>1, <1>3, ConcatProperties, CountConcat
<1> HIDE DEF p2
<1>5. p3 \in Seq(Id) /\ Count(p3, id) = Count(p2, id) + Count(keep, id)
  BY <1>1, <1>4, ConcatProperties, CountConcat
<1> HIDE DEF p3
<1>6. p4 \in Seq(Id) /\ Count(p4, id) = Count(p3, id) + Count(frontier.main, id)
  BY <1>1, <1>5, ConcatProperties, CountConcat
<1> HIDE DEF p4
<1>7. p5 \in Seq(Id) /\ Count(p5, id) = Count(p4, id) + Count(frontier.context, id)
  BY <1>1, <1>6, ConcatProperties, CountConcat
<1> HIDE DEF p5
<1>8. p6 \in Seq(Id) /\ Count(p6, id) = Count(p5, id) + Count(frontier.other, id)
  BY <1>1, <1>7, ConcatProperties, CountConcat
<1>9. p6 = Pointers
  BY DEF Pointers, p1, p2, p3, p4, p5, c
<1> HIDE DEF p6
<1>10. /\ Count(act, id) \in Nat /\ Count(ext, id) \in Nat /\ Count(keep, id) \in Nat
       /\ Count(frontier.main, id) \in Nat /\ Count(frontier.context, id) \in Nat
       /\ Count(frontier.other, id) \in Nat /\ Is(cur = id) \in Nat
  BY <1>1, CountType DEF Is
<1>11. Count(Pointers, id) = InBlock(id) + Count(keep, id) + Pending(frontier, id)
  <2>1. /\ Count(p2, id) = Is(cur = id) + Count(act, id) + Count(ext, id)
        /\ Count(p2, id) = InBlock(id)
    BY <1>2, <1>3, <1>4 DEF InBlock
  <2>2. InBlock(id) \in Nat
    BY <1>10 DEF InBlock
  <2>3. /\ Count(p3, id) = InBlock(id) + Count(keep, id)
        /\ Count(p4, id) = Count(p3, id) + Count(frontier.main, id)
        /\ Count(p5, id) = Count(p4, id) + Count(frontier.context, id)
        /\ Count(Pointers, id) = Count(p5, id) + Count(frontier.other, id)
    BY <2>1, <1>5, <1>6, <1>7, <1>8, <1>9
  <2>4. Pending(frontier, id) = Count(frontier.main, id) + Count(frontier.context, id)
                                  + Count(frontier.other, id)
    BY DEF Pending
  <2> QED BY ONLY <2>2, <2>3, <2>4, <1>10
<1> QED BY <1>11 DEF Count

\* The sets of OwnedOnce, told apart by their names.
LEMMA SetsCounted ==
  ASSUME NEW id
  PROVE  Cardinality({h \in {<<"e", exited>>, <<"r", reported>>, <<"f", {found}>>} : id \in h[2]})
           = Is(id \in exited) + Is(id \in reported) + Is(found = id)
<1> DEFINE e == <<"e", exited>>
           r == <<"r", reported>>
           f == <<"f", {found}>>
           E == IF id \in exited THEN {e} ELSE {}
           R == IF id \in reported THEN E \cup {r} ELSE E
           F == IF found = id THEN R \cup {f} ELSE R
<1>1. e # r /\ e # f /\ r # f /\ e[2] = exited /\ r[2] = reported /\ f[2] = {found}
  OBVIOUS
<1> HIDE DEF e, r, f
<1>2. {h \in {e, r, f} : id \in h[2]} = F
  BY <1>1
<1>3. IsFiniteSet(E) /\ Cardinality(E) = Is(id \in exited)
  BY FS_EmptySet, FS_Singleton DEF Is
<1>4. r \notin E
  BY <1>1
<1>5. IsFiniteSet(R) /\ Cardinality(R) = Is(id \in exited) + Is(id \in reported)
  <2>1. CASE id \in reported
    <3> HIDE DEF E
    <3>1. IsFiniteSet(E \cup {r}) /\ Cardinality(E \cup {r}) = Cardinality(E) + 1
      BY <1>3, <1>4, FS_AddElement
    <3> QED BY <1>3, <2>1, <3>1 DEF Is
  <2>2. CASE id \notin reported
    <3>1. Is(id \in reported) = 0 /\ Is(id \in exited) \in Nat
      BY <2>2 DEF Is
    <3> QED BY <1>3, <2>2, <3>1
  <2> QED BY <2>1, <2>2
<1>6. f \notin R
  BY <1>1
<1> HIDE DEF R
<1>7. Cardinality(F) = Is(id \in exited) + Is(id \in reported) + Is(found = id)
  <2>1. CASE found = id
    <3>1. Cardinality(R \cup {f}) = Cardinality(R) + 1
      BY <1>5, <1>6, FS_AddElement
    <3> QED BY <1>5, <2>1, <3>1 DEF Is
  <2>2. CASE found # id
    <3>1. Is(found = id) = 0 /\ Is(id \in exited) \in Nat /\ Is(id \in reported) \in Nat
      BY <2>2 DEF Is
    <3> QED BY <1>5, <2>2, <3>1
  <2> QED BY <2>1, <2>2
<1> QED BY <1>2, <1>7 DEF e, r, f

\* Two StatePtr to one object would make two paths share their registers and
\* constraints: each object in use is in exactly one vector, list or set, and none of
\* them holds an object that is gone.
THEOREM EachStateHasOneOwner == Spec => []OwnedOnce
<1>1. IInv /\ OwnerInv => OwnedOnce
  <2> SUFFICES ASSUME TypeOK, OwnerInv, phase # "found", NEW id \in Id
               PROVE  Holds(id) = IF heap[id].live THEN 1 ELSE 0
    BY DEF OwnedOnce, IInv
  <2>1. Holds(id) = (InBlock(id) + Count(keep, id) + Pending(frontier, id))
                     + (Is(id \in exited) + Is(id \in reported) + Is(found = id))
    BY PointersCounted, SetsCounted DEF Holds
  <2>2. Holds(id) = Owned(id)
    BY <2>1, CountsType DEF Owned
  <2>3. Owned(id) = Is(heap[id].live)
    BY DEF OwnerInv
  <2> QED BY <2>2, <2>3 DEF Is
<1> QED BY <1>1, OwnerAlways, PTL

-----------------------------------------------------------------------------
(***************************************************************************)
(* Where an object is, as a consequence.                                   *)
(***************************************************************************)
In(q, id) == \E k \in DOMAIN q : q[k] = id

\* In one of the technique's lists.
Listed(id) == In(frontier.main, id) \/ In(frontier.context, id) \/ In(frontier.other, id)

LEMMA InCount ==
  ASSUME NEW q \in Seq(Id), NEW id \in Id
  PROVE  /\ In(q, id) <=> Count(q, id) >= 1
         /\ Count(q, id) \in Nat
<1>1. Count(q, id) \in Nat
  BY CountType
<1>2. ASSUME In(q, id) PROVE Count(q, id) >= 1
  BY <1>2, CountPositive DEF In
<1>3. ASSUME ~In(q, id) PROVE Count(q, id) = 0
  <2>1. {k \in DOMAIN q : q[k] = id} = {}
    BY <1>3 DEF In
  <2> QED BY <2>1, FS_EmptySet DEF Count
<1> QED BY <1>1, <1>2, <1>3

LEMMA InAppend ==
  ASSUME NEW q \in Seq(Id), NEW e \in Id, NEW id \in Id
  PROVE  In(Append(q, e), id) <=> In(q, id) \/ id = e
<1>1. Append(q, e) \in Seq(Id)
  BY AppendProperties
<1>2. Count(Append(q, e), id) = Count(q, id) + Is(e = id)
  BY CountAppend
<1>3. Is(e = id) \in {0, 1} /\ (Is(e = id) = 1 <=> e = id)
  BY DEF Is
<1>4. (In(Append(q, e), id) <=> Count(Append(q, e), id) >= 1)
      /\ (In(q, id) <=> Count(q, id) >= 1) /\ Count(q, id) \in Nat
  BY <1>1, InCount
<1> QED BY <1>2, <1>3, <1>4

LEMMA InTail ==
  ASSUME NEW q \in Seq(Id), q # <<>>, NEW id \in Id
  PROVE  In(q, id) <=> In(Tail(q), id) \/ id = Head(q)
<1>1. Tail(q) \in Seq(Id) /\ Count(q, id) = Count(Tail(q), id) + Is(Head(q) = id)
  BY CountTail
<1>2. Is(Head(q) = id) \in {0, 1} /\ (Is(Head(q) = id) = 1 <=> Head(q) = id)
  BY DEF Is
<1>3. (In(Tail(q), id) <=> Count(Tail(q), id) >= 1)
      /\ (In(q, id) <=> Count(q, id) >= 1) /\ Count(Tail(q), id) \in Nat
  BY <1>1, InCount
<1> QED BY <1>1, <1>2, <1>3

LEMMA InWithout ==
  ASSUME NEW q \in Seq(Id), NEW k \in 1..Len(q), NEW id \in Id
  PROVE  In(q, id) <=> In(Without(q, k), id) \/ id = q[k]
<1>1. /\ Count(q, id) = Count(Without(q, k), id) + Is(q[k] = id)
  BY CountWithout
<1>2. Without(q, k) \in Seq(Id)
  <2>1. q # <<>> /\ Len(q) \in Nat /\ \A l \in 1..Len(q) : q[l] \in Id
    BY LenProperties, EmptySeq, ElementOfSeq
  <2>2. SubSeq(q, 1, k - 1) \in Seq(Id)
    <3>1. \A l \in 1..(k - 1) : q[l] \in Id
      BY <2>1
    <3> QED BY <2>1, <3>1, SubSeqProperties
  <2>3. SubSeq(q, k + 1, Len(q)) \in Seq(Id)
    <3>1. \A l \in (k + 1)..Len(q) : q[l] \in Id
      BY <2>1
    <3> QED BY <2>1, <3>1, SubSeqProperties
  <2> QED BY <2>2, <2>3, ConcatProperties DEF Without
<1>3. Is(q[k] = id) \in {0, 1} /\ (Is(q[k] = id) = 1 <=> q[k] = id)
  BY DEF Is
<1>4. (In(Without(q, k), id) <=> Count(Without(q, k), id) >= 1)
      /\ (In(q, id) <=> Count(q, id) >= 1) /\ Count(Without(q, k), id) \in Nat
  BY <1>2, InCount
<1> QED BY <1>1, <1>3, <1>4

\* One place each, and every object in use is somewhere.
Somewhere(id) == \/ cur = id \/ In(act, id) \/ In(ext, id) \/ In(keep, id) \/ Listed(id)
                 \/ id \in exited \/ id \in reported \/ found = id

LEMMA OnePlace ==
  ASSUME TypeOK, OwnerInv, phase # "found", NEW id \in Id
  PROVE  /\ Somewhere(id) <=> heap[id].live
         /\ In(act, id) => /\ cur # id /\ ~In(ext, id) /\ ~In(keep, id) /\ ~Listed(id)
                           /\ id \notin exited /\ id \notin reported
         /\ In(ext, id) => /\ cur # id /\ ~In(keep, id) /\ ~Listed(id)
                           /\ id \notin exited /\ id \notin reported
         /\ In(keep, id) => /\ cur # id /\ ~Listed(id)
                            /\ id \notin exited /\ id \notin reported
         /\ Listed(id) => cur # id /\ id \notin exited /\ id \notin reported
         /\ cur = id => id \notin exited /\ id \notin reported
         /\ Count(act, id) <= 1 /\ Count(keep, id) <= 1 /\ Count(frontier.main, id) <= 1
<1>1. /\ act \in Seq(Id) /\ ext \in Seq(Id) /\ keep \in Seq(Id)
      /\ frontier.main \in Seq(Id) /\ frontier.context \in Seq(Id)
      /\ frontier.other \in Seq(Id) /\ heap[id].live \in BOOLEAN
  BY DEF TypeOK, SymState
<1>2. /\ (In(act, id) <=> Count(act, id) >= 1) /\ Count(act, id) \in Nat
      /\ (In(ext, id) <=> Count(ext, id) >= 1) /\ Count(ext, id) \in Nat
      /\ (In(keep, id) <=> Count(keep, id) >= 1) /\ Count(keep, id) \in Nat
      /\ (In(frontier.main, id) <=> Count(frontier.main, id) >= 1)
      /\ Count(frontier.main, id) \in Nat
      /\ (In(frontier.context, id) <=> Count(frontier.context, id) >= 1)
      /\ Count(frontier.context, id) \in Nat
      /\ (In(frontier.other, id) <=> Count(frontier.other, id) >= 1)
      /\ Count(frontier.other, id) \in Nat
  BY <1>1, InCount
<1> DEFINE P == Pending(frontier, id)
<1>3. P \in Nat /\ (Listed(id) <=> P >= 1) /\ Count(frontier.main, id) <= P
  BY <1>2 DEF Pending, Listed
<1>4. /\ Is(cur = id) \in {0, 1} /\ (Is(cur = id) = 1 <=> cur = id)
      /\ Is(id \in exited) \in {0, 1} /\ (Is(id \in exited) = 1 <=> id \in exited)
      /\ Is(id \in reported) \in {0, 1} /\ (Is(id \in reported) = 1 <=> id \in reported)
      /\ Is(found = id) \in {0, 1} /\ (Is(found = id) = 1 <=> found = id)
      /\ Is(heap[id].live) \in {0, 1} /\ (Is(heap[id].live) = 1 <=> heap[id].live)
  BY <1>1 DEF Is
<1>5. Is(heap[id].live) = Is(cur = id) + Count(act, id) + Count(ext, id) + Count(keep, id)
                          + P + Is(id \in exited) + Is(id \in reported)
                          + Is(found = id)
  BY OwnedParts DEF OwnerInv
<1> DEFINE c == Is(cur = id)
           a == Count(act, id)
           e == Count(ext, id)
           k == Count(keep, id)
           x == Is(id \in exited)
           r == Is(id \in reported)
           f == Is(found = id)
           v == Is(heap[id].live)
<1> HIDE DEF P, Listed, c, a, e, k, x, r, f, v
<1>6. /\ c \in Nat /\ a \in Nat /\ e \in Nat /\ k \in Nat /\ P \in Nat
      /\ x \in Nat /\ r \in Nat /\ f \in Nat /\ v \in {0, 1}
      /\ v = c + a + e + k + P + x + r + f
  BY <1>2, <1>3, <1>4, <1>5 DEF c, a, e, k, x, r, f, v
<1>7. /\ (c >= 1 <=> cur = id) /\ (a >= 1 <=> In(act, id)) /\ (e >= 1 <=> In(ext, id))
      /\ (k >= 1 <=> In(keep, id)) /\ (P >= 1 <=> Listed(id)) /\ (x >= 1 <=> id \in exited)
      /\ (r >= 1 <=> id \in reported) /\ (f >= 1 <=> found = id)
      /\ (v >= 1 <=> heap[id].live)
  BY <1>2, <1>3, <1>4 DEF c, a, e, k, x, r, f, v
<1>8. v >= 1 <=> \/ c >= 1 \/ a >= 1 \/ e >= 1 \/ k >= 1 \/ P >= 1 \/ x >= 1 \/ r >= 1
                 \/ f >= 1
  BY <1>6
<1>9. Somewhere(id) <=> heap[id].live
  BY <1>7, <1>8 DEF Somewhere
<1>10. /\ a >= 1 => c = 0 /\ e = 0 /\ k = 0 /\ P = 0 /\ x = 0 /\ r = 0
       /\ e >= 1 => c = 0 /\ k = 0 /\ P = 0 /\ x = 0 /\ r = 0
       /\ k >= 1 => c = 0 /\ P = 0 /\ x = 0 /\ r = 0
       /\ P >= 1 => c = 0 /\ x = 0 /\ r = 0
       /\ c >= 1 => x = 0 /\ r = 0
       /\ a <= 1 /\ k <= 1 /\ P <= 1
  BY <1>6
<1>11. /\ a >= 1 => /\ cur # id /\ ~In(ext, id) /\ ~In(keep, id) /\ ~Listed(id)
                    /\ id \notin exited /\ id \notin reported
       /\ e >= 1 => /\ cur # id /\ ~In(keep, id) /\ ~Listed(id)
                    /\ id \notin exited /\ id \notin reported
       /\ k >= 1 => /\ cur # id /\ ~Listed(id) /\ id \notin exited /\ id \notin reported
       /\ P >= 1 => cur # id /\ id \notin exited /\ id \notin reported
       /\ c >= 1 => id \notin exited /\ id \notin reported
  BY <1>6, <1>7, <1>10
<1>12. Count(frontier.main, id) <= 1
  BY <1>2, <1>3, <1>6, <1>10
<1> QED BY <1>7, <1>9, <1>10, <1>11, <1>12 DEF a, k

-----------------------------------------------------------------------------
(***************************************************************************)
(* What a step of the executor does to the objects: it leaves alone all    *)
(* but the current one and those it makes clones in, and what becomes a    *)
(* successor is at the start of the next block.                            *)
(***************************************************************************)
Untouched(id) == heap'[id] = heap[id] /\ (In(act', id) <=> In(act, id))

NextBlock(id) == /\ In(act', id) /\ heap'[id].depth = heap[cur].depth + 1
                 /\ ~conf.lazy /\ ~conf.printable /\ heap[cur].pi # {} => heap'[id].pi # {}

SameBlock(id) == /\ ~In(act', id) /\ heap'[id].depth = heap[cur].depth
                 /\ ~conf.lazy /\ ~conf.printable /\ heap[cur].pi # {} => heap'[id].pi # {}

Evolves(id) ==
  \/ id # cur /\ heap[id].live /\ Untouched(id)
  \/ (id = cur \/ ~heap[id].live) /\ ~heap'[id].live
  \/ (id = cur \/ ~heap[id].live) /\ NextBlock(id)
  \/ id = cur /\ SameBlock(id)

LEMMA NotInAct ==
  ASSUME TypeOK, OwnerInv, phase = "exec", NEW id \in Id, id = cur \/ ~heap[id].live
  PROVE  ~In(act, id)
BY OnePlace DEF Somewhere

\* A step that replaces the current state only.
LEMMA EvolvesReplace ==
  ASSUME TypeOK, OwnerInv, phase = "exec", NEW st,
         heap' = [heap EXCEPT ![cur] = st], Feasible(st),
         \/ act' = Append(act, cur) /\ st.depth = s.depth + 1
         \/ act' = act /\ st.depth = s.depth,
         NEW id \in Id
  PROVE  Evolves(id)
<1>1. heap \in [Id -> SymState] /\ cur \in Id /\ act \in Seq(Id)
  BY CurIsLive DEF TypeOK
<1>2. CASE id # cur /\ heap[id].live
  <2>1. heap'[id] = heap[id]
    BY <1>1, <1>2
  <2>a. In(Append(act, cur), id) <=> In(act, id)
    BY <1>1, <1>2, InAppend
  <2>2. In(act', id) <=> In(act, id)
    <3>1. CASE act' = Append(act, cur)
      BY <2>a, <3>1
    <3>2. CASE act' = act
      BY <3>2
    <3> QED BY <3>1, <3>2
  <2> QED BY <1>2, <2>1, <2>2 DEF Evolves, Untouched
<1>3. CASE id # cur /\ ~heap[id].live
  BY <1>1, <1>3 DEF Evolves
<1>4. CASE id = cur
  <2>1. heap'[id] = st /\ s = heap[cur]
    BY <1>1, <1>4 DEF s
  <2>2. CASE act' = Append(act, cur) /\ st.depth = s.depth + 1
    <3>1. In(act', id)
      BY <1>1, <1>4, <2>2, InAppend
    <3> QED BY <1>4, <2>1, <2>2, <3>1 DEF Evolves, NextBlock, Feasible
  <2>3. CASE act' = act /\ st.depth = s.depth
    <3>1. ~In(act', id)
      BY <1>4, <2>3, NotInAct
    <3> QED BY <1>4, <2>1, <2>3, <3>1 DEF Evolves, SameBlock, Feasible
  <2> QED BY <2>2, <2>3
<1> QED BY <1>2, <1>3, <1>4

LEMMA EvolvesDrop ==
  ASSUME TypeOK, OwnerInv, phase = "exec", heap' = [heap EXCEPT ![cur] = Blank],
         act' = act, NEW id \in Id
  PROVE  Evolves(id)
<1>1. heap \in [Id -> SymState] /\ cur \in Id /\ Blank.live = FALSE
  BY CurIsLive DEF TypeOK, Blank
<1>2. CASE id = cur
  BY <1>1, <1>2 DEF Evolves
<1>3. CASE id # cur
  <2>1. heap'[id] = heap[id]
    BY <1>1, <1>3
  <2> QED BY <1>3, <2>1 DEF Evolves, Untouched
<1> QED BY <1>2, <1>3

LEMMA EvolvesBranch ==
  ASSUME TypeOK, OwnerInv, phase = "exec", NEW taken, NEW notTaken,
         Branch(taken, notTaken),
         ~conf.lazy => /\ taken => Taken(s).pi # {}
                       /\ notTaken => NotTaken(s).pi # {},
         NEW id \in Id
  PROVE  Evolves(id)
<1>1. heap \in [Id -> SymState] /\ cur \in Id /\ heap[cur].live = TRUE /\ act \in Seq(Id)
      /\ s \in SymState /\ op \in Op /\ s = heap[cur]
  BY CurIsLive, OpType DEF TypeOK, s
<1>2. PICK f \in FreeIds(1) :
          LET acts == IF taken THEN Append(act, f[1]) ELSE act
          IN /\ heap' = [heap EXCEPT ![f[1]] = IF taken THEN Taken(s) ELSE Blank,
                                     ![cur]  = IF notTaken THEN NotTaken(s) ELSE Blank]
             /\ IF notTaken THEN Continue(acts) ELSE act' = acts /\ NoState
  BY DEF Branch
<1> DEFINE new == f[1]
           acts == IF taken THEN Append(act, new) ELSE act
<1>a. f[1] \in Id /\ ~heap[f[1]].live
  BY FreeIdsType
<1>3. new \in Id /\ ~heap[new].live /\ new # cur
  BY <1>1, <1>a
<1>4. heap' = [heap EXCEPT ![new] = IF taken THEN Taken(s) ELSE Blank,
                           ![cur] = IF notTaken THEN NotTaken(s) ELSE Blank]
  BY <1>2
<1>5. IF notTaken THEN Continue(acts) ELSE act' = acts /\ NoState
  BY <1>2
<1> HIDE DEF new
<1>6. acts \in Seq(Id) /\ (In(acts, id) <=> In(act, id) \/ (taken /\ id = new))
  BY <1>1, <1>3, AppendProperties, InAppend
<1> HIDE DEF acts
<1>7. In(act', id) <=> In(acts, id) \/ (notTaken /\ op.last /\ id = cur)
  <2>1. CASE notTaken /\ op.last
    <3>1. act' = Append(acts, cur)
      BY <1>5, <2>1 DEF Continue
    <3> QED BY <1>1, <1>6, <2>1, <3>1, InAppend
  <2>2. CASE ~(notTaken /\ op.last)
    BY <1>5, <2>2 DEF Continue
  <2> QED BY <2>1, <2>2
<1>8. Blank.live = FALSE /\ Taken(s).depth = s.depth + 1
      /\ NotTaken(s).depth = IF op.last THEN s.depth + 1 ELSE s.depth
  <2>1. Goto(Clone(s), op.dst) \in SymState /\ Clone(s) \in SymState
    BY <1>1, CloneType, GotoType DEF Op
  <2>2. Goto(Clone(s), op.dst).depth = s.depth + 1
    BY <1>1, <2>1 DEF Goto, Clone, SymState
  <2>3. FallThrough(op, s) \in SymState
    BY <1>1, FallThroughType
  <2>4. FallThrough(op, s).depth = IF op.last THEN s.depth + 1 ELSE s.depth
    BY <1>1 DEF FallThrough, SymState
  <2> QED BY <2>1, <2>2, <2>3, <2>4 DEF Taken, NotTaken, Blank, SymState
<1>9. CASE id = cur
  <2>1. heap'[id] = IF notTaken THEN NotTaken(s) ELSE Blank
    BY <1>1, <1>3, <1>4, <1>9
  <2>2. ~In(acts, id)
    BY <1>3, <1>6, <1>9, NotInAct
  <2>3. CASE notTaken /\ op.last
    <3>1. heap'[id] = NotTaken(s) /\ In(act', id)
      BY <1>7, <1>9, <2>1, <2>3
    <3> QED BY <1>1, <1>8, <1>9, <2>3, <3>1 DEF Evolves, NextBlock
  <2>4. CASE notTaken /\ ~op.last
    <3>1. heap'[id] = NotTaken(s) /\ ~In(act', id)
      BY <1>7, <1>9, <2>1, <2>2, <2>4
    <3> QED BY <1>1, <1>8, <1>9, <2>4, <3>1 DEF Evolves, SameBlock
  <2>5. CASE ~notTaken
    BY <1>8, <1>9, <2>1, <2>5 DEF Evolves
  <2> QED BY <2>3, <2>4, <2>5
<1>10. CASE id = new
  <2>1. heap'[id] = IF taken THEN Taken(s) ELSE Blank
    BY <1>1, <1>3, <1>4, <1>10
  <2>2. CASE taken
    <3>1. heap'[id] = Taken(s) /\ In(act', id)
      BY <1>6, <1>7, <1>10, <2>1, <2>2
    <3> QED BY <1>1, <1>3, <1>8, <1>10, <2>2, <3>1 DEF Evolves, NextBlock
  <2>3. CASE ~taken
    BY <1>3, <1>8, <1>10, <2>1, <2>3 DEF Evolves
  <2> QED BY <2>2, <2>3
<1>11. CASE id # cur /\ id # new
  <2>1. heap'[id] = heap[id]
    BY <1>1, <1>3, <1>4, <1>11
  <2>2. In(act', id) <=> In(act, id)
    BY <1>6, <1>7, <1>11
  <2> QED BY <1>11, <2>1, <2>2 DEF Evolves, Untouched
<1> QED BY <1>9, <1>10, <1>11

LEMMA EvolvesFork ==
  ASSUME TypeOK, OwnerInv, phase = "exec", NEW f, NEW st, Forks(f, st), ForkTo(f, st),
         NEW id \in Id
  PROVE  Evolves(id)
<1> DEFINE mine == \E k \in DOMAIN f : f[k] = id
<1>1. /\ cur \in Id /\ heap[cur].live = TRUE /\ act \in Seq(Id) /\ s = heap[cur]
      /\ Blank.live = FALSE
  BY CurIsLive DEF TypeOK, s, Blank
<1>2. /\ f \in Seq(Id)
      /\ \A k \in DOMAIN f : /\ f[k] = cur \/ ~heap[f[k]].live
                             /\ Feasible(st[k]) /\ st[k].depth = s.depth + 1
  BY DEF Forks
<1>3. /\ act' = act \o f /\ act' \in Seq(Id)
      /\ \A k \in DOMAIN f : heap'[f[k]] = st[k]
      /\ ~mine => heap'[id] = IF id = cur THEN Blank ELSE heap[id]
  BY ForkHeap
<1>4. In(act', id) <=> In(act, id) \/ mine
  <2>1. Count(act', id) = Count(act, id) + Count(f, id)
    BY <1>1, <1>2, <1>3, CountConcat
  <2>2. In(f, id) <=> mine
    BY DEF In
  <2>3. /\ (In(act', id) <=> Count(act', id) >= 1) /\ (In(act, id) <=> Count(act, id) >= 1)
        /\ (In(f, id) <=> Count(f, id) >= 1) /\ Count(act, id) \in Nat /\ Count(f, id) \in Nat
    BY <1>1, <1>2, <1>3, InCount
  <2> HIDE DEF mine
  <2> QED BY <2>1, <2>2, <2>3
<1>5. CASE mine
  <2>1. PICK k \in DOMAIN f : f[k] = id
    BY <1>5
  <2>2. /\ heap'[id] = st[k] /\ (id = cur \/ ~heap[id].live)
        /\ Feasible(st[k]) /\ st[k].depth = s.depth + 1 /\ In(act', id)
    BY <1>2, <1>3, <1>4, <1>5, <2>1
  <2> QED BY <1>1, <2>2 DEF Evolves, NextBlock, Feasible
<1>6. CASE ~mine /\ id = cur
  BY <1>1, <1>3, <1>6 DEF Evolves
<1>7. CASE ~mine /\ id # cur
  <2>1. heap'[id] = heap[id] /\ (In(act', id) <=> In(act, id))
    BY <1>3, <1>4, <1>7
  <2> QED BY <1>7, <2>1 DEF Evolves, Untouched
<1> QED BY <1>5, <1>6, <1>7

LEMMA ExecEvolves ==
  ASSUME TypeOK, OwnerInv, ExecuteOp, phase' # "failed", NEW id \in Id
  PROVE  Evolves(id)
<1> USE DEF Executing
<1>1. phase = "exec"
  BY DEF ExecuteOp, DataOp, UnsatState, CBranchLazy, CBranchEager, DirectJump,
         ConstantIP, SymbolicIP, UnsatIP, UnconstrainedIP, ForkIP, LibReturn, LibExit, ExitFail
<1>2. /\ op \in Op /\ s \in SymState /\ cur \in Id
      /\ heap \in [Id -> SymState] /\ act \in Seq(Id)
  BY <1>1, OpType, CurIsLive DEF TypeOK, s
<1>3. CASE DataOp
  <2>1. PICK st \in SymState :
          /\ heap' = [heap EXCEPT ![cur] = st] /\ Feasible(st)
          /\ st.depth = IF op.last THEN s.depth + 1 ELSE s.depth
    BY <1>1, <1>3, DataPart
  <2>2. \/ act' = Append(act, cur) /\ st.depth = s.depth + 1
        \/ act' = act /\ st.depth = s.depth
    BY <1>3, <2>1 DEF DataOp, Continue
  <2> QED BY <1>1, <2>1, <2>2, EvolvesReplace
<1>4. CASE UnsatState \/ UnsatIP
  BY <1>1, <1>4, EvolvesDrop DEF UnsatState, UnsatIP
<1>5. CASE CBranchLazy
  BY <1>1, <1>5, EvolvesBranch DEF CBranchLazy
<1>6. CASE CBranchEager
  <2>1. PICK t \in Verdicts(Taken(s).pi), n \in Verdicts(NotTaken(s).pi) :
          Branch(t = "SAT", n = "SAT")
    BY <1>6 DEF CBranchEager
  <2>2. (t = "SAT" => Taken(s).pi # {}) /\ (n = "SAT" => NotTaken(s).pi # {})
    BY DEF Verdicts
  <2> QED BY <1>1, <2>1, <2>2, EvolvesBranch
<1>7. Recorded(s) \in SymState /\ Recorded(s).pi = s.pi /\ Recorded(s).depth = s.depth
        /\ Feasible(Recorded(s))
  <2>1. Recorded(s) \in SymState
    BY <1>1, <1>2, RecordedType
  <2> QED BY <1>2, <2>1 DEF Recorded, SymState, Feasible
<1>8. ASSUME NEW a
      PROVE  /\ Goto(Recorded(s), a).depth = s.depth + 1
             /\ Feasible(Goto(Recorded(s), a))
  BY <1>7 DEF Goto, SymState, Feasible
<1>9. CASE DirectJump
  <2>1. Goto(Recorded(s), op.dst).depth = s.depth + 1 /\ Feasible(Goto(Recorded(s), op.dst))
    BY <1>7, <1>8
  <2> QED BY <1>1, <1>9, <2>1, EvolvesReplace DEF DirectJump, Push
<1>10. CASE ConstantIP
  <2>1. PICK a \in Addr : heap' = [heap EXCEPT ![cur] = Goto(Recorded(s), a)]
    BY <1>10 DEF ConstantIP
  <2>2. Goto(Recorded(s), a).depth = s.depth + 1 /\ Feasible(Goto(Recorded(s), a))
    BY <1>7, <1>8
  <2> QED BY <1>1, <1>10, <2>1, <2>2, EvolvesReplace DEF ConstantIP, Push
<1>11. CASE UnconstrainedIP
  BY <1>1, <1>7, <1>11, EvolvesReplace DEF UnconstrainedIP
<1>12. CASE ForkIP \/ LibReturn
  <2>1. PICK f, st : Forks(f, st) /\ ForkTo(f, st)
    BY <1>1, <1>12, JumpForks, ReturnForks
  <2> QED BY <1>1, <2>1, EvolvesFork
<1>14. CASE LibExit
  <2>1. heap' = [heap EXCEPT ![cur] = s] /\ act' = act
    BY <1>2, <1>14 DEF LibExit, s
  <2>2. Feasible(s)
    BY DEF Feasible
  <2> QED BY <1>1, <2>1, <2>2, EvolvesReplace
<1>15. CASE ExitFail
  BY <1>15 DEF ExitFail
<1> QED BY <1>3, <1>4, <1>5, <1>6, <1>9, <1>10, <1>11, <1>12, <1>14, <1>15 DEF ExecuteOp

LEMMA FailedUnchanged == ExecuteOp /\ phase' = "failed" => heap' = heap
BY DEF ExecuteOp, DataOp, UnsatState, CBranchLazy, CBranchEager, Branch, DirectJump,
       ConstantIP, SymbolicIP, UnsatIP, UnconstrainedIP, ForkIP, LibReturn, LibExit, ExitFail,
       NoState, Continue, Push, Executing

LEMMA ExecPhase == ExecuteOp => phase = "exec"
BY DEF ExecuteOp, DataOp, UnsatState, CBranchLazy, CBranchEager, DirectJump,
       ConstantIP, SymbolicIP, UnsatIP, UnconstrainedIP, ForkIP, LibReturn, LibExit, ExitFail,
       Executing

-----------------------------------------------------------------------------
LEMMA EagerInit == Init => EagerFeasible
<1> SUFFICES ASSUME Init, NEW id \in Id, heap[id].live PROVE heap[id].pi # {}
  BY DEF EagerFeasible
<1> DEFINE first == [Blank EXCEPT !.pi = Input, !.live = TRUE]
<1>1. first.pi = Input /\ Blank.live = FALSE
  BY DEF Blank
<1> HIDE DEF first
<1>2. heap[id] = IF id = FirstId THEN first ELSE Blank
  BY DEF Init, first
<1> QED BY <1>1, <1>2, InputAssumption

LEMMA EagerStep ==
  IInv /\ OwnerInv /\ EagerFeasible /\ [Next]_vars => EagerFeasible'
<1> SUFFICES ASSUME TypeOK, OwnerInv, EagerFeasible, [Next]_vars,
                    ~conf.lazy, ~conf.printable, conf' = conf, NEW id \in Id, heap'[id].live
             PROVE  heap'[id].pi # {}
  <2>1. [Next]_vars => job' = job
    BY DEF Next, vars, exec, manager, Select, Exhaust, ExecuteBlock, ExecuteOp, DataOp,
       UnsatState, CBranchLazy, CBranchEager, DirectJump, ConstantIP, UnsatIP,
       UnconstrainedIP, ForkIP, LibReturn, LibExit, ExitFail, SiftExited, ReturnFound,
       DropSuccessor, KeepSuccessor, AddActive, NextRound, Finished
  <2> QED BY <2>1 DEF EagerFeasible, IInv, conf
<1>1. heap \in [Id -> SymState] /\ Blank.live = FALSE
  BY DEF TypeOK, Blank
<1>2. CASE ExecuteBlock
  <2>1. ExecuteOp /\ phase = "exec"
    BY <1>2, ExecPhase DEF ExecuteBlock
  <2>2. heap[cur].pi # {}
    BY <2>1, CurIsLive DEF EagerFeasible
  <2>3. CASE phase' = "failed"
    BY <2>1, <2>3, FailedUnchanged DEF EagerFeasible
  <2>4. CASE phase' # "failed"
    <3>1. Evolves(id)
      BY <2>1, <2>4, ExecEvolves
    <3> QED BY <2>2, <3>1 DEF Evolves, Untouched, NextBlock, SameBlock, EagerFeasible
  <2> QED BY <2>3, <2>4
<1>3. CASE ~ExecuteBlock
  <2>1. heap'[id] = heap[id] \/ heap'[id] = Blank
    BY <1>1, <1>3 DEF Next, vars, exec, Select, Exhaust, SiftExited, ReturnFound,
       DropSuccessor, KeepSuccessor, AddActive, NextRound, Finished
  <2> QED BY <1>1, <2>1 DEF EagerFeasible
<1> QED BY <1>2, <1>3

\* With eager solving the executor only works on paths that some input takes.
THEOREM EagerPathsAreFeasible == Spec => []EagerFeasible
BY OwnerAlways, EagerInit, EagerStep, PTL DEF Spec

-----------------------------------------------------------------------------
(***************************************************************************)
(* Cov's new-address queue.  What waits in it is at an address seen, and   *)
(* stays there: no other owner can touch it.                               *)
(***************************************************************************)
CovInv == conf.tech = "cov" =>
            /\ \A k \in DOMAIN frontier.main : heap[frontier.main[k]].pc \in frontier.addrs
            /\ \A k, l \in DOMAIN frontier.main :
                 heap[frontier.main[k]].pc = heap[frontier.main[l]].pc => k = l

LEMMA JobStays == [Next]_vars => job' = job /\ conf' = conf
<1>1. [Next]_vars => job' = job
  BY DEF Next, vars, exec, manager, Select, Exhaust, ExecuteBlock, ExecuteOp, DataOp,
     UnsatState, CBranchLazy, CBranchEager, DirectJump, ConstantIP, UnsatIP,
     UnconstrainedIP, ForkIP, LibReturn, LibExit, ExitFail, SiftExited, ReturnFound,
     DropSuccessor, KeepSuccessor, AddActive, NextRound, Finished
<1> QED BY <1>1 DEF conf

\* The objects in the lists, and the exited ones, are left alone by every step.
LEMMA SettledStays ==
  ASSUME TypeOK, OwnerInv, phase # "found", [Next]_vars, NEW id \in Id,
         Listed(id) \/ id \in exited \/ id \in reported
  PROVE  heap'[id] = heap[id]
<1>1. /\ heap \in [Id -> SymState] /\ heap[id].live /\ cur # id
      /\ ~In(act, id) /\ ~In(ext, id) /\ ~In(keep, id)
  BY OnePlace DEF TypeOK, Somewhere
<1>2. CASE ExecuteBlock
  <2>1. ExecuteOp
    BY <1>2 DEF ExecuteBlock
  <2>2. CASE phase' = "failed"
    BY <2>1, <2>2, FailedUnchanged
  <2>3. CASE phase' # "failed"
    BY <1>1, <2>1, <2>3, ExecEvolves DEF Evolves, Untouched
  <2> QED BY <2>2, <2>3
<1>3. CASE SiftExited
  <2>1. Head(ext) # id
    BY <1>1, <1>3, InTail DEF SiftExited, TypeOK
  <2> QED BY <1>1, <1>3, <2>1 DEF SiftExited
<1>4. CASE ReturnFound
  <2>1. \A k \in 2..Len(act) : act[k] # id
    <3>1. act \in Seq(Id) /\ DOMAIN act = 1..Len(act) /\ Len(act) \in Nat
      BY LenProperties DEF TypeOK
    <3> QED BY <1>1, <3>1 DEF In
  <2>2. \A k \in DOMAIN keep : keep[k] # id
    BY <1>1 DEF In
  <2> QED BY <1>1, <1>4, <2>1, <2>2 DEF ReturnFound
<1>5. CASE DropSuccessor
  <2>1. PICK gone \in Id : Sifting(gone) /\ heap' = [heap EXCEPT ![gone] = Blank]
    BY <1>5 DEF DropSuccessor
  <2>2. gone # id
    BY <1>1, <2>1, InTail DEF Sifting, TypeOK
  <2> QED BY <1>1, <2>1, <2>2
<1>6. CASE Select \/ Exhaust \/ KeepSuccessor \/ AddActive \/ NextRound \/ Finished
           \/ UNCHANGED vars
  BY <1>6 DEF Select, Exhaust, KeepSuccessor, AddActive, NextRound, Finished, vars, exec
<1> QED BY <1>2, <1>3, <1>4, <1>5, <1>6 DEF Next

LEMMA CovInit == Init => CovInv
<1> SUFFICES ASSUME Init PROVE CovInv
  OBVIOUS
<1>1. /\ frontier.main = <<FirstId>> /\ frontier.addrs = {conf.entry} /\ FirstId \in Id
  BY IdAssumption DEF Init, FirstFrontier, FirstId
<1>2. DOMAIN frontier.main = {1} /\ frontier.main[1] = FirstId
  BY <1>1
<1> DEFINE first == [Blank EXCEPT !.pi = Input, !.live = TRUE]
<1>3. first.pc = conf.entry
  BY DEF Blank
<1> HIDE DEF first
<1>4. heap[FirstId] = first
  BY <1>1 DEF Init, first
<1> QED BY <1>1, <1>2, <1>3, <1>4 DEF CovInv

\* A step that leaves the lists alone.
LEMMA CovKept ==
  ASSUME TypeOK, OwnerInv, CovInv, phase # "found", [Next]_vars, frontier' = frontier
  PROVE  CovInv'
<1>1. conf' = conf
  BY JobStays
<1>2. ASSUME NEW k \in DOMAIN frontier.main
      PROVE  heap'[frontier.main[k]] = heap[frontier.main[k]]
  <2>1. frontier.main[k] \in Id /\ Listed(frontier.main[k])
    BY LenProperties, ElementOfSeq DEF TypeOK, Listed, In
  <2> QED BY <2>1, SettledStays
<1> QED BY <1>1, <1>2 DEF CovInv

LEMMA CovSelect ==
  ASSUME TypeOK, CovInv, Select
  PROVE  CovInv'
<1> SUFFICES ASSUME conf.tech = "cov"
             PROVE  /\ \A k \in DOMAIN frontier'.main : heap[frontier'.main[k]].pc \in frontier'.addrs
                    /\ \A k, l \in DOMAIN frontier'.main :
                         heap[frontier'.main[k]].pc = heap[frontier'.main[l]].pc => k = l
  BY DEF CovInv, Select, conf
<1> DEFINE q == NextQueue(frontier)
           m == frontier.main
<1>1. /\ frontier' = [frontier EXCEPT ![q] = SubSeq(frontier[q], 1, Len(frontier[q]) - 1)]
      /\ q \in {"main", "context", "other"} /\ m \in Seq(Id) /\ frontier[q] # <<>>
  BY DEF Select, Rest, TypeOK, NextQueue, NothingPending
<1>2. frontier'.addrs = frontier.addrs
  BY <1>1 DEF TypeOK
<1>3. CASE q # "main"
  <2>1. frontier'.main = frontier.main
    BY <1>1, <1>3 DEF TypeOK
  <2> QED BY <1>2, <2>1 DEF CovInv
<1>4. CASE q = "main"
  <2>1. frontier'.main = SubSeq(m, 1, Len(m) - 1) /\ m # <<>>
    BY <1>1, <1>4 DEF TypeOK
  <2>2. Len(m) \in Nat \ {0} /\ DOMAIN m = 1..Len(m)
    BY <1>1, <2>1, EmptySeq, LenProperties
  <2>3. \A k \in 1..(Len(m) - 1) : m[k] \in Id
    BY <1>1, <2>2, ElementOfSeq
  <2> HIDE DEF m
  <2>4. /\ SubSeq(m, 1, Len(m) - 1) \in Seq(Id)
        /\ Len(SubSeq(m, 1, Len(m) - 1)) = Len(m) - 1
        /\ \A k \in 1..(Len(m) - 1) : SubSeq(m, 1, Len(m) - 1)[k] = m[k]
    BY <2>2, <2>3, SubSeqProperties
  <2>5. /\ DOMAIN frontier'.main = 1..(Len(m) - 1)
        /\ \A k \in 1..(Len(m) - 1) : frontier'.main[k] = m[k] /\ k \in DOMAIN m
    BY <2>1, <2>2, <2>4, LenProperties
  <2>6. /\ \A k \in DOMAIN m : heap[m[k]].pc \in frontier.addrs
        /\ \A k, l \in DOMAIN m : heap[m[k]].pc = heap[m[l]].pc => k = l
    BY DEF CovInv, m
  <2> QED BY ONLY <1>2, <2>5, <2>6
<1> QED BY <1>3, <1>4

LEMMA CovAdd ==
  ASSUME TypeOK, CovInv, AddActive
  PROVE  CovInv'
<1> SUFFICES ASSUME conf.tech = "cov"
             PROVE  /\ \A k \in DOMAIN frontier'.main : heap[frontier'.main[k]].pc \in frontier'.addrs
                    /\ \A k, l \in DOMAIN frontier'.main :
                         heap[frontier'.main[k]].pc = heap[frontier'.main[l]].pc => k = l
  BY DEF CovInv, AddActive, exec, conf
<1>1. PICK k \in Picks(conf.tech, keep) :
          frontier' = Add(conf.tech, frontier, keep[k], heap[keep[k]].pc, heap[keep[k]].calls)
  BY DEF AddActive
<1> DEFINE e == keep[k]
           pc == heap[e].pc
           q == CovQueue(frontier, pc, heap[e].calls)
           m == frontier.main
<1>2. e \in Id /\ m \in Seq(Id)
  BY PickType DEF AddActive, TypeOK
<1>3. frontier' = [frontier EXCEPT ![q] = Append(frontier[q], e), !.addrs = frontier.addrs \cup {pc},
                                   !.contexts = frontier.contexts \cup {<<pc, heap[e].calls>>}]
  BY <1>1 DEF Add
<1>4. q \in {"main", "context", "other"} /\ (q = "main" => pc \notin frontier.addrs)
  BY DEF CovQueue
<1> HIDE DEF e, pc
<1>5. frontier'.addrs = frontier.addrs \cup {pc}
  BY <1>3, <1>4 DEF TypeOK
<1>6. CASE q # "main"
  <2>1. frontier'.main = m
    BY <1>3, <1>4, <1>6 DEF TypeOK
  <2> QED BY <1>5, <2>1 DEF CovInv
<1>7. CASE q = "main"
  <2>1. frontier'.main = Append(m, e) /\ pc \notin frontier.addrs
    BY <1>3, <1>4, <1>7 DEF TypeOK
  <2>2. Len(m) \in Nat /\ DOMAIN m = 1..Len(m)
    BY <1>2, LenProperties
  <2>3. /\ DOMAIN frontier'.main = 1..(Len(m) + 1)
        /\ \A j \in 1..Len(m) : frontier'.main[j] = m[j]
        /\ frontier'.main[Len(m) + 1] = e
    BY <1>2, <2>1, AppendProperties, LenProperties
  <2>4. \A j \in 1..Len(m) : heap[m[j]].pc \in frontier.addrs
    BY <2>2 DEF CovInv
  <2>5. heap[e].pc = pc
    BY DEF pc
  <2>6. \A j, l \in 1..Len(m) : heap[m[j]].pc = heap[m[l]].pc => j = l
    BY <2>2 DEF CovInv
  <2> HIDE DEF m
  <2>7. \A j \in DOMAIN frontier'.main : j \in 1..Len(m) \/ j = Len(m) + 1
    BY <2>2, <2>3
  <2> QED BY <1>5, <2>1, <2>3, <2>4, <2>5, <2>6, <2>7
<1> QED BY <1>6, <1>7

LEMMA CovStep == IInv /\ OwnerInv /\ CovInv /\ [Next]_vars => CovInv'
<1> SUFFICES ASSUME TypeOK, OwnerInv, CovInv, [Next]_vars PROVE CovInv'
  BY DEF IInv
<1>1. CASE phase = "found"
  <2>1. UNCHANGED vars
    BY <1>1, ExecPhase DEF Next, Select, Exhaust, ExecuteBlock, SiftExited, ReturnFound,
       DropSuccessor, KeepSuccessor, Sifting, AddActive, NextRound, Finished
  <2> QED BY <2>1 DEF vars, exec, manager, CovInv, conf
<1>2. CASE Select
  BY <1>2, CovSelect
<1>3. CASE AddActive
  BY <1>3, CovAdd
<1>4. CASE phase # "found" /\ ~Select /\ ~AddActive
  <2>1. frontier' = frontier
    BY <1>4 DEF Next, vars, manager, Exhaust, ExecuteBlock, SiftExited, ReturnFound,
       DropSuccessor, KeepSuccessor, NextRound, Finished
  <2> QED BY <1>4, <2>1, CovKept
<1> QED BY <1>1, <1>2, <1>3, <1>4

\* No two states wait for the same new address.
THEOREM OneStatePerNewAddress == Spec => []CovDistinct
<1>1. CovInv => CovDistinct
  BY DEF CovInv, CovDistinct
<1> QED BY <1>1, OwnerAlways, CovInit, CovStep, PTL DEF Spec

=============================================================================
