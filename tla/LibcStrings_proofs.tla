-------------------------- MODULE LibcStrings_proofs --------------------------
(***************************************************************************)
(* The string functions on symbolic memory: for every memory, every call   *)
(* and every limit of forks, they divide the inputs of their caller, lose  *)
(* none as long as there are no more ends than forks, and do what C says.  *)
(***************************************************************************)
EXTENDS LibcStrings, Loops_proofs

Bytes    == [Input -> Byte]
Memories == [Address -> Bytes]
States   == [mem: Memories, pi: SUBSET Input, rax: [Input -> Nat]]
Strings  == Seq(Bytes)
Resolutions(u) == [id: 1..u, str: Strings]

Loops(u) == [id: 1..u, curr: Nat, str: Strings, forks: 0..MaxForks \cup 0..MaxForksCat,
             size: Nat \cup {Unlimited}, same: SUBSET Input]

Phases == {"idle", "resolve", "resolved", "strcmp", "memcmp", "failed"}

\* What the variables can be.
Types ==
  /\ z3 \in [folds: BOOLEAN, timeouts: BOOLEAN]
  /\ heap \in [Id -> States] /\ before \in States
  /\ used \in Id
  /\ request \in Request \cup {NoRequest}
  /\ loop \in Loops(used) /\ Len(loop.str) <= Width
  /\ res \in Seq(Resolutions(used)) /\ srcs \in Seq(Resolutions(used))
  /\ out \in Seq(1..used)
  /\ phase \in Phases

\* Which variables are in use in which phase.
Phased ==
  /\ phase \in {"resolve", "resolved"} =>
       request \in Request /\ request.fn \in {"strlen", "strcpy", "strncpy", "strcat"}
  /\ phase = "strcmp" => request \in Request /\ request.fn = "strcmp"
  /\ phase = "memcmp" => request \in Request /\ request.fn = "memcmp"
  /\ phase = "resolved" => res # <<>>
  /\ srcs # <<>> => request.fn = "strcat"
  /\ phase \in {"resolve", "resolved"} /\ srcs = <<>> => out = <<>>
  /\ phase \in {"strcmp", "memcmp"} => srcs = <<>> /\ out = <<>>

-----------------------------------------------------------------------------
(***************************************************************************)
(* The constants, and the types of what the operators give.                *)
(***************************************************************************)
LEMMA ConstantsType ==
  /\ Width \in Nat /\ Width > 0 /\ 0 \in Byte /\ Byte \subseteq Nat
  /\ Memory \subseteq Memories
  /\ MaxForks \in Nat /\ MaxForksCat \in Nat /\ MaxCmp \in Nat /\ MaxCalls \in Nat
  /\ IntLimit \in Nat /\ IntLimit > 0
BY StringAssumption DEF Memories, Bytes

LEMMA IdType == 1 \in Id /\ Id \subseteq Nat \ {0} /\ \A u \in Id : 1..u \subseteq Id
<1>1. IsFiniteSet(Id) /\ Id # {} /\ Id = 1..Cardinality(Id)
  BY StringAssumption
<1>2. Cardinality(Id) \in Nat /\ Cardinality(Id) # 0
  BY <1>1, FS_CardinalityType, FS_EmptySet
<1> QED BY <1>1, <1>2

LEMMA RequestType ==
  ASSUME NEW r \in Request
  PROVE  /\ r.fn \in Function /\ r.dst \in Address /\ r.src \in Address /\ r.n \in 0..Width
         /\ r.dst \in Nat /\ r.src \in Nat /\ r.n \in Nat /\ r # NoRequest
BY StringAssumption DEF Address, Function, NoRequest

LEMMA AsIntType ==
  ASSUME NEW n \in 0..Width
  PROVE  /\ AsInt(n) \in 0..Width \cup {Unlimited}
         /\ AsInt(n) # Unlimited => AsInt(n) \in Nat
         /\ n < IntLimit => AsInt(n) = n /\ AsInt(n) # Unlimited
<1>1. PICK k \in Nat \ {0} : k = 2 * IntLimit
  BY ConstantsType
<1>2. n \in Nat /\ n <= Width
  BY ConstantsType
<1>3. n % k \in Nat /\ n % k < k /\ (n < k => n % k = n)
  BY <1>2
<1>4. n % k <= n
  BY <1>2, <1>3
<1>5. PICK low \in Nat : low = n % k /\ low <= n /\ (n < k => low = n)
  BY <1>3, <1>4
<1>6. AsInt(n) = IF low < IntLimit THEN low ELSE Unlimited
  BY <1>1, <1>5 DEF AsInt
<1>7. n < IntLimit => low = n
  BY <1>1, <1>2, <1>5, ConstantsType
<1> QED BY <1>2, <1>5, <1>6, <1>7, ConstantsType DEF Unlimited

LEMMA InAddress ==
  ASSUME NEW n \in Nat
  PROVE  n % Width \in Address
<1>1. n % Width \in 0..Width - 1
  BY ConstantsType
<1> QED BY <1>1 DEF Address

LEMMA ConstType == \A b \in Byte : Const(b) \in Bytes
BY DEF Const, Bytes

LEMMA WrittenType ==
  ASSUME NEW mem \in Memories, NEW a, NEW str \in Strings
  PROVE  Written(mem, a, str) \in Memories
<1>1. \A k \in DOMAIN str : str[k] \in Bytes
  BY DEF Strings
<1> QED BY <1>1 DEF Written, Memories

LEMMA AtType ==
  ASSUME NEW st \in States, NEW a \in Nat
  PROVE  At(st, a) \in Bytes
BY InAddress DEF At, States, Memories

LEMMA IdleType == \A u \in Id : Idle \in Loops(u)
<1>1. 0 \in 0..MaxForks /\ \A u \in Id : 1 \in 1..u
  BY ConstantsType, IdType
<1>2. <<>> \in Strings
  BY DEF Strings
<1> QED BY <1>1, <1>2 DEF Idle, Loops, Unlimited

LEMMA ResolutionsGrow ==
  ASSUME NEW u \in Id, NEW w \in Id, u <= w
  PROVE  /\ 1..u \subseteq 1..w /\ Seq(1..u) \subseteq Seq(1..w)
         /\ Resolutions(u) \subseteq Resolutions(w) /\ Seq(Resolutions(u)) \subseteq Seq(Resolutions(w))
         /\ Loops(u) \subseteq Loops(w)
<1>1. 1..u \subseteq 1..w
  BY IdType
<1>2. Resolutions(u) \subseteq Resolutions(w) /\ Loops(u) \subseteq Loops(w)
  BY <1>1 DEF Resolutions, Loops
<1>3. \A S, T : S \subseteq T => Seq(S) \subseteq Seq(T)
  OBVIOUS
<1> QED BY <1>1, <1>2, <1>3

LEMMA SeqElements ==
  ASSUME NEW S, NEW s \in Seq(S)
  PROVE  DOMAIN s = 1..Len(s) /\ Len(s) \in Nat /\ \A k \in DOMAIN s : s[k] \in S
OBVIOUS

LEMMA Joined ==
  ASSUME NEW S, NEW s \in Seq(S), NEW t \in Seq(S)
  PROVE  /\ s \o t \in Seq(S) /\ Len(s \o t) = Len(s) + Len(t) /\ DOMAIN (s \o t) = 1..Len(s) + Len(t)
         /\ \A k \in 1..Len(s) : (s \o t)[k] = s[k]
         /\ \A k \in 1..Len(t) : (s \o t)[Len(s) + k] = t[k]
OBVIOUS

LEMMA Elements ==
  ASSUME NEW u \in Id, NEW s \in Seq(Resolutions(u))
  PROVE  /\ DOMAIN s = 1..Len(s) /\ Len(s) \in Nat
         /\ \A k \in DOMAIN s : /\ s[k] \in Resolutions(u) /\ s[k].id \in 1..u /\ s[k].id \in Id
                               /\ s[k].str \in Strings
<1>1. /\ DOMAIN s = 1..Len(s) /\ Len(s) \in Nat
      /\ \A k \in DOMAIN s : s[k] \in Resolutions(u)
  OBVIOUS
<1>2. \A r \in Resolutions(u) : r.id \in 1..u /\ r.str \in Strings
  BY DEF Resolutions
<1> QED BY <1>1, <1>2, IdType

LEMMA IdsType ==
  ASSUME NEW u \in Id, NEW s \in Seq(Resolutions(u))
  PROVE  /\ Ids(s) \in Seq(1..u) /\ Len(Ids(s)) = Len(s) /\ DOMAIN Ids(s) = 1..Len(s)
         /\ \A k \in 1..Len(s) : Ids(s)[k] = s[k].id
<1>1. DOMAIN s = 1..Len(s) /\ Len(s) \in Nat /\ \A k \in DOMAIN s : s[k].id \in 1..u
  BY Elements
<1>2. DOMAIN Ids(s) = 1..Len(s) /\ \A k \in 1..Len(s) : Ids(s)[k] = s[k].id
  BY <1>1 DEF Ids
<1>3. Ids(s) = [k \in 1..Len(s) |-> s[k].id]
  BY <1>1 DEF Ids
<1>4. Ids(s) \in Seq(1..u) /\ Len(Ids(s)) = Len(s)
  BY <1>1, <1>3
<1> QED BY <1>2, <1>4

\* The bytes a resolution looks at.
LEMMA ReadingType ==
  ASSUME Types
  PROVE  /\ heap[loop.id] \in States /\ loop.id \in Id /\ loop.id \in 1..used
         /\ loop.curr \in Nat /\ loop.curr + 1 \in Nat
         /\ B \in Bytes /\ Str \in Strings /\ Len(Str) = Len(loop.str) + 1
         /\ OneLess(loop.size) \in Nat \cup {Unlimited}
<1>1. /\ loop.id \in 1..used /\ loop.curr \in Nat /\ loop.str \in Strings
      /\ loop.size \in Nat \cup {Unlimited}
  BY DEF Types, Loops
<1>2. loop.id \in Id /\ heap[loop.id] \in States
  BY <1>1, IdType DEF Types
<1>3. B \in Bytes
  BY <1>1, <1>2, AtType DEF B
<1>4. Str \in Strings /\ Len(Str) = Len(loop.str) + 1
  BY <1>1, <1>3 DEF Str, Strings
<1>5. OneLess(loop.size) \in Nat \cup {Unlimited}
  BY <1>1 DEF OneLess, Unlimited
<1> QED BY <1>1, <1>2, <1>3, <1>4, <1>5

(***************************************************************************)
(* What strcat writes is memory.                                           *)
(***************************************************************************)
Catenated(mem, str) == FoldLeft(LAMBDA m, ee : Written(m, request.dst + Len(ee.str), str), mem, res)

LEMMA CatenatedType ==
  ASSUME Types, NEW mem \in Memories, NEW str \in Strings
  PROVE  Catenated(mem, str) \in Memories
<1> DEFINE R == Resolutions(used)
           N == Len(res)
           Next1(m, ee) == Written(m, request.dst + Len(ee.str), str)
           op == [r \in Memories \X R |-> Next1(r[1], r[2])]
           Value(g, s) == IF s = {} THEN mem ELSE Next1(g[s \ {Max(s)}], res[Max(s)])
           G == CHOOSE g : g = [s \in SUBSET (1..N) |-> Value(g, s)]
<1>1. N \in Nat /\ DOMAIN res = 1..N /\ \A k \in 1..N : res[k] \in R
  BY DEF Types
<1>2. op \in [Memories \X R -> Memories]
  BY WrittenType
<1>3. PICK F \in [SUBSET (1..N) -> Memories] : \A s \in SUBSET (1..N) :
        F[s] = IF s = {} THEN mem ELSE op[<<F[s \ {Max(s)}], res[Max(s)]>>]
  <2> HIDE DEF op, N, R
  <2>1. Foldable(Memories, R, mem, op, res, N)
    BY <1>1, <1>2 DEF Foldable
  <2>2. Folds(Memories, mem, op, res, N)
    BY <2>1, <1>1, LoopExists
  <2> QED BY <2>2 DEF Folds
<1>4. ASSUME NEW s \in SUBSET (1..N)
      PROVE  F[s] = Value(F, s)
  <2>1. CASE s = {}
    BY <2>1, <1>3
  <2>2. CASE s # {}
    <3>1. Max(s) \in 1..N
      BY <2>2, <1>1, MaxInSet
    <3>2. F[s \ {Max(s)}] \in Memories /\ res[Max(s)] \in R
      BY <3>1, <1>1
    <3>3. op[<<F[s \ {Max(s)}], res[Max(s)]>>] = Next1(F[s \ {Max(s)}], res[Max(s)])
      <4> HIDE DEF Next1
      <4> QED BY <3>2
    <3> HIDE DEF op, Next1
    <3> QED BY <3>3, <2>2, <1>3
  <2> QED BY <2>1, <2>2
<1>5. F = [s \in SUBSET (1..N) |-> Value(F, s)]
  <2> HIDE DEF Value
  <2> QED BY <1>4
<1>6. G = [s \in SUBSET (1..N) |-> Value(G, s)]
  <2> HIDE DEF Value
  <2> QED BY <1>5
<1>7. Catenated(mem, str) = G[1..N]
  BY <1>1 DEF Catenated, FoldLeft, MapThenFoldSet
<1> DEFINE S == {k \in 0..N : G[1..k] \in Memories}
<1>8. 0 \in S
  <2>1. 1..0 = {} /\ G[{}] = Value(G, {})
    <3> HIDE DEF Value, G
    <3> QED BY <1>6
  <2> HIDE DEF G
  <2> QED BY <2>1, <1>1
<1>9. ASSUME NEW k \in 0..N - 1, k \in S
      PROVE  k + 1 \in S
  <2>1. 1..k + 1 \in SUBSET (1..N) /\ k + 1 \in Nat \ {0} /\ k + 1 \in 1..N /\ (k + 1) - 1 = k
        /\ k + 1 \in 0..N
    BY <1>1
  <2>2. G[1..k + 1] = Value(G, 1..k + 1)
    <3> HIDE DEF Value, G
    <3> QED BY <2>1, <1>6
  <2>3. 1..k + 1 # {} /\ Max(1..k + 1) = k + 1 /\ (1..k + 1) \ {Max(1..k + 1)} = 1..k
    BY <2>1, MaxOfPrefix
  <2> HIDE DEF G
  <2>4. G[1..k + 1] = Written(G[1..k], request.dst + Len(res[k + 1].str), str)
    BY <2>2, <2>3
  <2> QED BY <2>1, <2>4, <1>9, WrittenType
<1>10. N \in S
  <2>1. 0..N \subseteq S
    <3> HIDE DEF S, N
    <3> QED BY <1>1, <1>8, <1>9, SetInduction
  <2> HIDE DEF S
  <2> QED BY <2>1, <1>1
<1> QED BY <1>7, <1>10

-----------------------------------------------------------------------------
(***************************************************************************)
(* The types are an invariant, one lemma for each group of actions.        *)
(***************************************************************************)
TInv == Types /\ Phased

LEMMA TInvInit == Init => TInv
<1> SUFFICES ASSUME Init
             PROVE  TInv
  OBVIOUS
<1> USE ConstantsType, IdType
<1>1. PICK m \in Memory :
        LET first == [mem |-> m, pi |-> Input, rax |-> Const(0)]
        IN  heap = [id \in Id |-> first] /\ before = first
  BY DEF Init
<1>2. Const(0) \in [Input -> Nat]
  BY DEF Const
<1>3. heap \in [Id -> States] /\ before \in States
  BY <1>1, <1>2 DEF States
<1>4. loop \in Loops(1) /\ Len(loop.str) <= Width
  BY IdleType DEF Init, Idle
<1>5. out \in Seq(1..1)
  BY DEF Init
<1> QED BY <1>3, <1>4, <1>5 DEF Init, TInv, Types, Phased, Phases, NoRequest

\* What begins a resolution.
LEMMA ResolvingType ==
  ASSUME NEW u \in Id, NEW id \in 1..u, NEW a \in Nat, NEW forks \in {MaxForks, MaxForksCat},
         NEW size \in Nat \cup {Unlimited}, Resolving(id, a, forks, size)
  PROVE  /\ loop' \in Loops(u) /\ loop'.str = <<>> /\ Len(loop'.str) <= Width
         /\ res' = <<>> /\ phase' = "resolve"
<1>1. forks \in 0..MaxForks \cup 0..MaxForksCat
  BY ConstantsType
<1>2. Idle \in Loops(u)
  BY IdleType
<1>3. loop' = [Idle EXCEPT !.id = id, !.curr = a, !.forks = forks, !.size = size]
  BY DEF Resolving
<1>4. loop' \in Loops(u) /\ loop'.str = <<>>
  BY <1>1, <1>2, <1>3 DEF Loops, Idle
<1> QED BY <1>4, ConstantsType DEF Resolving

LEMMA BeginTypes ==
  ASSUME TInv, Begin
  PROVE  TInv'
<1> USE ConstantsType
<1>0. Types /\ Phased
  BY DEF TInv
<1>1. PICK k \in DOMAIN out, r \in Request :
        /\ request' = r /\ before' = heap[out[k]]
        /\ heap' = [id \in Id |->
             IF r.fn \in {"strcpy", "strncpy", "strcat"}
             THEN [before' EXCEPT !.rax = Const(r.dst)] ELSE before']
        /\ CASE r.fn \in {"strlen", "strcpy"} -> Resolving(1, r.src, MaxForks, Unlimited)
             [] r.fn = "strncpy" -> Resolving(1, r.src, MaxForks, AsInt(r.n))
             [] r.fn = "strcat" -> Resolving(1, r.src, MaxForksCat, Unlimited)
             [] OTHER -> /\ loop' = [Idle EXCEPT !.same = Input]
                         /\ res' = <<>>
                         /\ phase' = r.fn
  BY DEF Begin
<1>2. /\ r.fn \in Function /\ r.dst \in Nat /\ r.src \in Nat /\ r.n \in Nat
  BY RequestType
<1>3. out[k] \in Id
  BY <1>0, IdType DEF Types
<1>4. before' \in States
  BY <1>0, <1>1, <1>3 DEF Types
<1>5. Const(r.dst) \in [Input -> Nat]
  BY <1>2 DEF Const
<1>6. heap' \in [Id -> States]
  BY <1>1, <1>4, <1>5 DEF States
<1>7. /\ used' = 1 /\ srcs' = <<>> /\ out' = <<>> /\ z3' = z3
  BY DEF Begin
<1>8. 1 \in Id /\ 1 \in 1..1
  BY IdType
<1>9. CASE r.fn \in {"strcmp", "memcmp"}
  <2>1. loop' = [Idle EXCEPT !.same = Input] /\ res' = <<>> /\ phase' = r.fn
    BY <1>1, <1>9
  <2>2. Idle \in Loops(1)
    BY <1>8, IdleType
  <2>3. loop' \in Loops(1) /\ loop'.str = <<>>
    BY <2>1, <2>2 DEF Loops, Idle
  <2> QED BY <1>0, <1>1, <1>4, <1>6, <1>7, <1>8, <1>9, <2>1, <2>3 DEF TInv, Types, Phased, Phases
<1>10. CASE r.fn \notin {"strcmp", "memcmp"}
  <2>1. \E forks \in {MaxForks, MaxForksCat}, size \in Nat \cup {Unlimited} :
          Resolving(1, r.src, forks, size)
    <3>1. AsInt(r.n) \in Nat \cup {Unlimited}
      BY RequestType, AsIntType
    <3> QED BY <3>1, <1>1, <1>2, <1>10 DEF Function
  <2>2. /\ loop' \in Loops(1) /\ loop'.str = <<>> /\ Len(loop'.str) <= Width
        /\ res' = <<>> /\ phase' = "resolve"
    BY <2>1, <1>2, <1>8, ResolvingType
  <2>3. r.fn \in {"strlen", "strcpy", "strncpy", "strcat"}
    BY <1>2, <1>10 DEF Function
  <2>4. request' \in Request /\ request'.fn = r.fn
    BY <1>1
  <2>5. Types'
    BY <1>0, <1>4, <1>6, <1>7, <1>8, <2>2, <2>4 DEF Types, Phases
  <2>6. Phased'
    BY <1>7, <2>2, <2>3, <2>4 DEF Phased
  <2> QED BY <2>5, <2>6 DEF TInv
<1> QED BY <1>9, <1>10

LEMMA NotZeroTypes ==
  ASSUME TInv, NotZero
  PROVE  TInv'
<1>0. Types /\ Phased
  BY DEF TInv
<1>1. /\ phase = "resolve" /\ Len(loop.str) # Width
      /\ loop' = [loop EXCEPT !.curr = @ + 1, !.str = Str, !.size = OneLess(@)]
      /\ UNCHANGED <<z3, heap, used, request, before, res, srcs, out, phase, calls>>
  BY DEF NotZero, Reading, TooLong, GoOn
<1>2. /\ loop.curr + 1 \in Nat /\ Str \in Strings /\ Len(Str) = Len(loop.str) + 1
      /\ OneLess(loop.size) \in Nat \cup {Unlimited}
  BY <1>0, ReadingType
<1>3. loop \in Loops(used) /\ Len(loop.str) <= Width /\ Len(loop.str) \in Nat
  BY <1>0 DEF Types, Loops, Strings
<1>4. loop' \in Loops(used) /\ loop'.str = Str
  BY <1>1, <1>2, <1>3 DEF Loops
<1>5. Len(loop'.str) <= Width
  BY <1>1, <1>2, <1>3, <1>4, ConstantsType
<1> QED BY <1>0, <1>1, <1>4, <1>5 DEF TInv, Types, Phased

\* The states that a string ends in.
LEMMA ResultType ==
  ASSUME Types, NEW u \in Id, used <= u, NEW id \in 1..u, NEW str \in Strings
  PROVE  /\ Append(res, Result(id, str)) \in Seq(Resolutions(u))
         /\ Append(res, Result(id, str)) # <<>>
<1>1. res \in Seq(Resolutions(u))
  BY ResolutionsGrow DEF Types
<1>2. Result(id, str) \in Resolutions(u)
  BY DEF Result, Resolutions
<1> QED BY <1>1, <1>2

LEMMA EndOfStringTypes ==
  ASSUME TInv, EndOfString
  PROVE  TInv'
<1>0. Types /\ Phased
  BY DEF TInv
<1>1. PICK str \in {Str, loop.str} : res' = Append(res, Result(loop.id, str))
  BY DEF EndOfString, Resolved
<1>2. /\ phase = "resolve" /\ phase' = "resolved" /\ loop' = loop
      /\ UNCHANGED <<z3, heap, used, request, before, srcs, out, calls>>
  BY DEF EndOfString, Resolved, Reading
<1>3. str \in Strings /\ loop.id \in 1..used /\ used \in Id /\ used <= used
  BY <1>0, ReadingType, IdType DEF Types, Loops
<1>4. res' \in Seq(Resolutions(used)) /\ res' # <<>>
  BY <1>0, <1>1, <1>3, ResultType
<1> QED BY <1>0, <1>2, <1>4 DEF TInv, Types, Phased, Phases

LEMMA EndingType ==
  ASSUME Types, NEW st \in States
  PROVE  Ending(st) \in States /\ Longer(st) \in States
<1>1. loop.id \in Id /\ heap[loop.id] \in States
  BY ReadingType
<1>2. Zero \subseteq Input
  BY <1>1 DEF Zero, States
<1>3. <<Const(0)>> \in Strings
  BY ConstType, ConstantsType DEF Strings
<1>4. Written(st.mem, loop.curr, <<Const(0)>>) \in Memories
  BY <1>3, WrittenType DEF States
<1> QED BY <1>2, <1>4 DEF Ending, Longer, States

LEMMA LastEndTypes ==
  ASSUME TInv, LastEnd
  PROVE  TInv'
<1>0. Types /\ Phased
  BY DEF TInv
<1>1. /\ phase = "resolve" /\ phase' = "resolved" /\ loop' = loop
      /\ res' = Append(res, Result(loop.id, Str))
      /\ heap' = [heap EXCEPT ![loop.id] = Ending(@)]
      /\ UNCHANGED <<z3, used, request, before, srcs, out, calls>>
  BY DEF LastEnd, MayEnd, Reading, Resolved
<1>2. /\ Str \in Strings /\ loop.id \in 1..used /\ used \in Id /\ used <= used
      /\ heap[loop.id] \in States
  BY <1>0, ReadingType, IdType DEF Types
<1>3. res' \in Seq(Resolutions(used)) /\ res' # <<>>
  BY <1>0, <1>1, <1>2, ResultType
<1>4. heap' \in [Id -> States]
  BY <1>0, <1>1, <1>2, EndingType DEF Types
<1> QED BY <1>0, <1>1, <1>3, <1>4 DEF TInv, Types, Phased, Phases

LEMMA ForkEndTypes ==
  ASSUME TInv, ForkEnd
  PROVE  TInv'
<1>0. Types /\ Phased
  BY DEF TInv
<1>1. /\ phase = "resolve" /\ Len(loop.str) # Width /\ ~(loop.forks <= 0)
      /\ used' = used + 1 /\ used' \in Id
      /\ UNCHANGED <<z3, request, before, srcs, out, calls>>
      /\ res' = Append(res, Result(used', Str))
      /\ \/ /\ heap' = [heap EXCEPT ![used'] = Ending(heap[loop.id]), ![loop.id] = Longer(@)]
            /\ loop' = [loop EXCEPT !.curr = @ + 1, !.str = Str, !.size = OneLess(@),
                                   !.forks = @ - 1]
            /\ phase' = phase
         \/ /\ heap' = [heap EXCEPT ![used'] = Ending(heap[loop.id])]
            /\ phase' = "resolved" /\ loop' = loop
  BY DEF ForkEnd, MayEnd, Reading, TooLong, Resolved, NoForkLeft
<1>2. /\ used \in Nat /\ used <= used' /\ used' \in 1..used' /\ Str \in Strings /\ heap[loop.id] \in States
      /\ loop.curr + 1 \in Nat /\ Len(Str) = Len(loop.str) + 1 /\ used \in Id
      /\ OneLess(loop.size) \in Nat \cup {Unlimited}
  BY <1>0, <1>1, ReadingType, IdType DEF Types
<1>3. res' \in Seq(Resolutions(used')) /\ res' # <<>>
  BY <1>0, <1>1, <1>2, ResultType
<1>4. Ending(heap[loop.id]) \in States /\ Longer(heap[loop.id]) \in States
  BY <1>0, <1>2, EndingType
<1>5. heap \in [Id -> States]
  BY <1>0 DEF Types
<1>6. heap' \in [Id -> States]
  BY <1>1, <1>4, <1>5
<1>7. srcs' \in Seq(Resolutions(used')) /\ out' \in Seq(1..used') /\ loop \in Loops(used')
  BY <1>0, <1>1, <1>2, ResolutionsGrow DEF Types
<1>8. Len(loop.str) <= Width /\ Len(loop.str) \in Nat /\ Width \in Nat
  BY <1>0, ConstantsType DEF Types, Loops, Strings
<1>9. loop' \in Loops(used') /\ Len(loop'.str) <= Width
  <2>1. CASE loop' = loop
    BY <2>1, <1>7, <1>8
  <2>2. CASE loop' = [loop EXCEPT !.curr = @ + 1, !.str = Str, !.size = OneLess(@), !.forks = @ - 1]
    <3>1. loop.forks - 1 \in 0..MaxForks \cup 0..MaxForksCat
      BY <1>1, <1>7, ConstantsType DEF Loops
    <3>2. loop' \in Loops(used') /\ loop'.str = Str
      BY <2>2, <3>1, <1>2, <1>7 DEF Loops
    <3> QED BY <3>2, <1>1, <1>2, <1>8
  <2> QED BY <2>1, <2>2, <1>1
<1> QED BY <1>0, <1>1, <1>3, <1>6, <1>7, <1>9 DEF TInv, Types, Phased, Phases

\* What the functions do to the states they return.
LEMMA ReturnAllTypes ==
  ASSUME TInv, phase = "resolved", srcs = <<>> \/ request.fn = "strcat",
         out' = Ids(res), phase' = "idle", heap' \in [Id -> States],
         UNCHANGED <<z3, used, request, before, loop, res, srcs, calls>>
  PROVE  TInv'
<1>0. Types /\ Phased
  BY DEF TInv
<1>1. out' \in Seq(1..used)
  <2>1. res \in Seq(Resolutions(used)) /\ used \in Id
    BY <1>0 DEF Types
  <2>2. /\ \A k \in DOMAIN res : res[k].id \in 1..used
        /\ Len(res) \in Nat /\ DOMAIN res = 1..Len(res)
    BY <2>1, Elements
  <2> QED BY <2>2 DEF Ids
<1> QED BY <1>0, <1>1 DEF TInv, Types, Phased, Phases

\* strncpy stops after some bytes, unless it counts none.
Cut == request.fn = "strncpy" /\ AsInt(request.n) # Unlimited

\* All other strings end with their terminator, so they are not empty.
Terminated ==
  phase \in {"resolve", "resolved"} /\ ~Cut =>
    loop.size = Unlimited /\ \A k \in DOMAIN res : res[k].str # <<>>

\* The strings found are among those of a request's states.
LEMMA FoundType ==
  ASSUME Types, NEW id \in Id, \E k \in DOMAIN res : res[k].id = id
  PROVE  LET k == CHOOSE k \in DOMAIN res : res[k].id = id
         IN  k \in DOMAIN res /\ res[k].id = id /\ res[k].str \in Strings
<1>1. res \in Seq(Resolutions(used)) /\ used \in Id
  BY DEF Types
<1>2. \A k \in DOMAIN res : res[k].str \in Strings
  BY <1>1, Elements
<1> QED BY <1>2

LEMMA StrlenTypes ==
  ASSUME TInv, Terminated, Strlen
  PROVE  TInv'
<1>0. Types /\ Phased
  BY DEF TInv
<1>1. heap' = [id \in Id |-> IF \E k \in DOMAIN res : res[k].id = id
                            THEN Length(heap[id], res[CHOOSE k \in DOMAIN res : res[k].id = id].str)
                            ELSE heap[id]]
  BY DEF Strlen, ReturnAll
<1>2. phase = "resolved" /\ request.fn = "strlen"
  BY DEF Strlen
<1>3. ASSUME NEW id \in Id
      PROVE  heap'[id] \in States
  <2>1. heap[id] \in States
    BY <1>0 DEF Types
  <2>2. CASE \E k \in DOMAIN res : res[k].id = id
    <3> DEFINE k == CHOOSE k \in DOMAIN res : res[k].id = id
    <3>1. k \in DOMAIN res /\ res[k].str \in Strings
      BY <1>0, <2>2, FoundType
    <3>2. heap'[id] = Length(heap[id], res[k].str)
      BY <1>1, <2>2
    <3> HIDE DEF k
    <3>3. res[k].str # <<>>
      BY <3>1, <1>2 DEF Terminated, Cut
    <3>4. Len(res[k].str) - 1 \in Nat
      BY <3>1, <3>3 DEF Strings
    <3>5. Const(Len(res[k].str) - 1) \in [Input -> Nat]
      BY <3>4 DEF Const
    <3> QED BY <3>2, <3>5, <2>1 DEF Length, States
  <2>3. CASE ~\E k \in DOMAIN res : res[k].id = id
    BY <1>1, <2>1, <2>3
  <2> QED BY <2>2, <2>3
<1>4. heap' \in [Id -> States]
  BY <1>1, <1>3
<1>5. /\ srcs = <<>> \/ request.fn = "strcat"
      /\ out' = Ids(res) /\ phase' = "idle"
      /\ UNCHANGED <<z3, used, request, before, loop, res, srcs, calls>>
  BY <1>0 DEF Phased, Strlen, ReturnAll
<1> QED BY <1>2, <1>4, <1>5, ReturnAllTypes

LEMMA StrcpyTypes ==
  ASSUME TInv, Strcpy
  PROVE  TInv'
<1>0. Types /\ Phased
  BY DEF TInv
<1>1. heap' = [id \in Id |-> IF \E k \in DOMAIN res : res[k].id = id
                            THEN Copied(heap[id], res[CHOOSE k \in DOMAIN res : res[k].id = id].str)
                            ELSE heap[id]]
  BY DEF Strcpy, ReturnAll
<1>2. phase = "resolved"
  BY DEF Strcpy
<1>3. ASSUME NEW id \in Id
      PROVE  heap'[id] \in States
  <2>1. heap[id] \in States
    BY <1>0 DEF Types
  <2>2. CASE \E k \in DOMAIN res : res[k].id = id
    <3> DEFINE k == CHOOSE k \in DOMAIN res : res[k].id = id
    <3>1. k \in DOMAIN res /\ res[k].str \in Strings
      BY <1>0, <2>2, FoundType
    <3>2. heap'[id] = Copied(heap[id], res[k].str)
      BY <1>1, <2>2
    <3> HIDE DEF k
    <3>3. Written(heap[id].mem, request.dst, res[k].str) \in Memories
      BY <3>1, <2>1, WrittenType DEF States
    <3> QED BY <3>2, <3>3, <2>1 DEF Copied, States
  <2>3. CASE ~\E k \in DOMAIN res : res[k].id = id
    BY <1>1, <2>1, <2>3
  <2> QED BY <2>2, <2>3
<1>4. heap' \in [Id -> States]
  BY <1>1, <1>3
<1>5. /\ srcs = <<>> \/ request.fn = "strcat"
      /\ out' = Ids(res) /\ phase' = "idle"
      /\ UNCHANGED <<z3, used, request, before, loop, res, srcs, calls>>
  BY <1>0 DEF Phased, Strcpy, ReturnAll
<1> QED BY <1>2, <1>4, <1>5, ReturnAllTypes

\* The next string to resolve, in the state s.
LEMMA CatType ==
  ASSUME Types, NEW s \in Seq(Resolutions(used)), NEW k \in DOMAIN s,
         request \in Request, Resolving(s[k].id, request.dst, MaxForksCat, Unlimited)
  PROVE  /\ loop' \in Loops(used) /\ Len(loop'.str) <= Width
         /\ res' = <<>> /\ phase' = "resolve"
<1>1. s[k].id \in 1..used /\ used \in Id
  BY Elements DEF Types
<1>2. request.dst \in Nat
  BY RequestType
<1> QED BY <1>1, <1>2, ResolvingType

LEMMA StrcatSourceTypes ==
  ASSUME TInv, StrcatSource
  PROVE  TInv'
<1>0. Types /\ Phased
  BY DEF TInv
<1>1. /\ phase = "resolved" /\ request.fn = "strcat" /\ srcs' = res
      /\ Resolving(res[1].id, request.dst, MaxForksCat, Unlimited)
      /\ UNCHANGED <<z3, heap, used, request, before, out, calls>>
  BY DEF StrcatSource
<1>2. res \in Seq(Resolutions(used)) /\ request \in Request /\ res # <<>>
  BY <1>0, <1>1 DEF Types, Phased
<1>3. 1 \in DOMAIN res
  BY <1>2
<1>4. loop' \in Loops(used) /\ Len(loop'.str) <= Width /\ res' = <<>> /\ phase' = "resolve"
  BY <1>0, <1>1, <1>2, <1>3, CatType
<1> QED BY <1>0, <1>1, <1>2, <1>4 DEF TInv, Types, Phased, Phases

LEMMA StrcatDestTypes ==
  ASSUME TInv, StrcatDest
  PROVE  TInv'
<1>0. Types /\ Phased
  BY DEF TInv
<1>1. /\ phase = "resolved" /\ request.fn = "strcat" /\ srcs # <<>>
      /\ heap' = [heap EXCEPT ![srcs[1].id].mem = Catenated(@, srcs[1].str)]
      /\ out' = out \o Ids(res) /\ srcs' = Tail(srcs)
      /\ UNCHANGED <<z3, used, request, before, calls>>
  BY DEF StrcatDest, Catenated
<1>2. IF Len(srcs) > 1 THEN Resolving(srcs[2].id, request.dst, MaxForksCat, Unlimited)
      ELSE phase' = "idle" /\ UNCHANGED <<loop, res>>
  BY DEF StrcatDest
<1>3. /\ srcs \in Seq(Resolutions(used)) /\ res \in Seq(Resolutions(used)) /\ request \in Request
      /\ out \in Seq(1..used) /\ heap \in [Id -> States]
  BY <1>0, <1>1 DEF Types, Phased
<1>4. 1 \in DOMAIN srcs /\ srcs[1] \in Resolutions(used)
  BY <1>1, <1>3
<1>5. srcs[1].id \in Id /\ srcs[1].str \in Strings
  BY <1>0, <1>4, IdType DEF Resolutions, Types
<1>6. heap[srcs[1].id].mem \in Memories
  BY <1>3, <1>5 DEF States
<1>7. Catenated(heap[srcs[1].id].mem, srcs[1].str) \in Memories
  BY <1>0, <1>5, <1>6, CatenatedType
<1>8. heap' \in [Id -> States]
  BY <1>1, <1>3, <1>5, <1>7 DEF States
<1>9. Ids(res) \in Seq(1..used)
  <2>1. used \in Id
    BY <1>0 DEF Types
  <2>2. /\ \A k \in DOMAIN res : res[k].id \in 1..used
        /\ Len(res) \in Nat /\ DOMAIN res = 1..Len(res)
    BY <1>3, <2>1, Elements
  <2> QED BY <2>2 DEF Ids
<1>10. out' \in Seq(1..used)
  BY <1>1, <1>3, <1>9
<1>11. srcs' \in Seq(Resolutions(used)) /\ (Len(srcs) > 1 \/ srcs' = <<>>) /\ (Len(srcs) > 1 => srcs' # <<>>)
  <2>1. /\ Tail(srcs) \in Seq(Resolutions(used)) /\ Len(Tail(srcs)) = Len(srcs) - 1
        /\ Len(srcs) \in Nat \ {0}
    <3> HIDE DEF Resolutions
    <3> QED BY <1>1, <1>3
  <2>2. \A t \in Seq(Resolutions(used)) : (Len(t) = 0 => t = <<>>) /\ (Len(t) > 0 => t # <<>>)
    <3> HIDE DEF Resolutions
    <3> QED OBVIOUS
  <2>3. srcs' = Tail(srcs)
    BY <1>1
  <2>4. (Len(srcs) = 1 => Len(Tail(srcs)) = 0) /\ (Len(srcs) > 1 => Len(Tail(srcs)) > 0)
        /\ (Len(srcs) = 1 \/ Len(srcs) > 1)
    BY <2>1
  <2> HIDE DEF Resolutions
  <2> QED BY ONLY <2>1, <2>2, <2>3, <2>4
<1>12. CASE Len(srcs) > 1
  <2>1. 2 \in DOMAIN srcs
    BY <1>3, <1>12
  <2>2. loop' \in Loops(used) /\ Len(loop'.str) <= Width /\ res' = <<>> /\ phase' = "resolve"
    BY <1>0, <1>2, <1>3, <1>12, <2>1, CatType
  <2>3. Types'
    BY <1>0, <1>1, <1>8, <1>10, <1>11, <2>2 DEF Types, Phases
  <2>4. Phased'
    BY <1>1, <1>3, <1>11, <1>12, <2>2 DEF Phased
  <2> QED BY <2>3, <2>4 DEF TInv
<1>13. CASE ~(Len(srcs) > 1)
  <2>1. phase' = "idle" /\ UNCHANGED <<loop, res>> /\ srcs' = <<>>
    BY <1>2, <1>11, <1>13
  <2>2. Types'
    BY <1>0, <1>1, <1>8, <1>10, <1>11, <2>1 DEF Types, Phases
  <2>3. Phased'
    BY <1>1, <2>1 DEF Phased
  <2> QED BY <2>2, <2>3 DEF TInv
<1> QED BY <1>12, <1>13

\* A comparison returns 0 or 1 in the state it was called in.
LEMMA ReturningType ==
  ASSUME TInv, phase \in {"strcmp", "memcmp"}, NEW differ, Returning(differ),
         UNCHANGED <<z3, used, request, before, res, srcs, calls>>
  PROVE  TInv'
<1>0. Types /\ Phased
  BY DEF TInv
<1>1. [i \in Input |-> IF i \in differ THEN 1 ELSE 0] \in [Input -> Nat]
  OBVIOUS
<1>2. heap' \in [Id -> States]
  BY <1>0, <1>1, IdType DEF Returning, Types, States
<1>3. out' \in Seq(1..used)
  <2>1. 1 \in 1..used
    BY <1>0, IdType DEF Types
  <2> QED BY <2>1 DEF Returning
<1> QED BY <1>0, <1>2, <1>3 DEF Returning, TInv, Types, Phased, Phases

LEMMA StrcmpTypes ==
  ASSUME TInv, Strcmp
  PROVE  TInv'
<1>0. Types /\ Phased
  BY DEF TInv
<1>1. phase = "strcmp" /\ UNCHANGED <<z3, used, request, before, res, srcs, calls>>
  BY DEF Strcmp
<1>2. CASE \E differ : Returning(differ)
  BY <1>1, <1>2, ReturningType
<1>3. CASE \E s : /\ loop' = [loop EXCEPT !.curr = @ + 1, !.same = loop.same \cap s]
                  /\ UNCHANGED <<heap, out, phase>>
  <2>1. loop' \in Loops(used) /\ loop'.str = loop.str
    <3>1. loop \in Loops(used)
      BY <1>0 DEF Types
    <3>2. loop.curr + 1 \in Nat /\ loop.same \subseteq Input
      BY <3>1 DEF Loops
    <3>3. PICK s : loop' = [loop EXCEPT !.curr = @ + 1, !.same = loop.same \cap s]
      BY <1>3
    <3> QED BY <3>1, <3>2, <3>3 DEF Loops
  <2>2. Types'
    BY <1>0, <1>1, <1>3, <2>1 DEF Types
  <2>3. Phased'
    BY <1>0, <1>1, <1>3 DEF Phased
  <2> QED BY <2>2, <2>3 DEF TInv
<1> QED BY <1>2, <1>3 DEF Strcmp

LEMMA OtherTypes ==
  ASSUME TInv, Memcmp \/ Fail \/ Done
  PROVE  TInv'
<1>0. Types /\ Phased
  BY DEF TInv
<1>1. CASE Memcmp
  <2>1. PICK differ : Returning(differ)
    BY <1>1 DEF Memcmp
  <2> QED BY <1>1, <2>1, ReturningType DEF Memcmp
<1>2. CASE Fail
  BY <1>0, <1>2 DEF Fail, TInv, Types, Phased, Phases
<1>3. CASE Done
  BY <1>0, <1>3 DEF Done, vars, TInv, Types, Phased
<1> QED BY <1>1, <1>2, <1>3

\* Appending the result of a resolution.
LEMMA AppendResult ==
  ASSUME Types, NEW u \in Id, used <= u, NEW id \in 1..u, NEW str \in Strings,
         NEW r, r = Append(res, Result(id, str))
  PROVE  /\ Len(res) \in Nat /\ Len(r) = Len(res) + 1
         /\ DOMAIN r = 1..Len(res) + 1 /\ DOMAIN res = 1..Len(res)
         /\ \A k \in DOMAIN res : r[k] = res[k]
         /\ r[Len(res) + 1].id = id /\ r[Len(res) + 1].str = str
<1>1. res \in Seq(Resolutions(u))
  BY ResolutionsGrow DEF Types
<1>2. Result(id, str) \in Resolutions(u)
  BY DEF Result, Resolutions
<1>3. Result(id, str).id = id /\ Result(id, str).str = str
  BY DEF Result
<1> QED BY <1>1, <1>2, <1>3

LEMMA TerminatedNext ==
  ASSUME TInv, Terminated, Next
  PROVE  Terminated'
<1>0. Types /\ Phased
  BY DEF TInv
<1>0a. /\ Str \in Strings /\ loop.id \in 1..used /\ loop.id \in Nat /\ used \in Id /\ used <= used /\ used \in Nat
       /\ Str # <<>> /\ loop.str \in Strings /\ loop \in Loops(used)
  <2>1. used \in Id /\ used \in Nat /\ loop \in Loops(used)
    BY <1>0, IdType DEF Types
  <2>2. /\ Str \in Strings /\ loop.id \in 1..used /\ loop.id \in Nat /\ loop.str \in Strings
        /\ Len(Str) = Len(loop.str) + 1
    BY <1>0, <2>1, ReadingType DEF Loops
  <2>3. Str # <<>>
    BY <2>2 DEF Strings
  <2> QED BY <2>1, <2>2, <2>3
<1>1. CASE Begin
  <2>1. PICK r \in Request :
          /\ request' = r
          /\ CASE r.fn \in {"strlen", "strcpy"} -> Resolving(1, r.src, MaxForks, Unlimited)
               [] r.fn = "strncpy" -> Resolving(1, r.src, MaxForks, AsInt(r.n))
               [] r.fn = "strcat" -> Resolving(1, r.src, MaxForksCat, Unlimited)
               [] OTHER -> phase' = r.fn
    BY <1>1 DEF Begin
  <2>2. CASE r.fn \in {"strlen", "strcpy", "strcat"}
    <3>1. \E forks : Resolving(1, r.src, forks, Unlimited)
      BY <2>1, <2>2
    <3>2. loop'.size = Unlimited /\ res' = <<>>
      BY <3>1 DEF Resolving, Idle
    <3> QED BY <3>2 DEF Terminated, Cut
  <2>3. CASE r.fn = "strncpy"
    <3>1. loop'.size = AsInt(r.n) /\ res' = <<>>
      BY <2>1, <2>3 DEF Resolving, Idle
    <3> QED BY <2>1, <2>3, <3>1 DEF Terminated, Cut
  <2>4. CASE r.fn \in {"strcmp", "memcmp"}
    <3>1. phase' = r.fn
      BY <2>1, <2>4
    <3> QED BY <3>1, <2>4 DEF Terminated
  <2>5. r.fn \in Function
    BY RequestType
  <2> QED BY <2>2, <2>3, <2>4, <2>5 DEF Function
<1>2. CASE NotZero
  <2>1. /\ phase = "resolve" /\ UNCHANGED <<request, res, phase>>
        /\ loop' = [loop EXCEPT !.curr = @ + 1, !.str = Str, !.size = OneLess(@)]
    BY <1>2 DEF NotZero, Reading, GoOn
  <2>2. loop'.size = OneLess(loop.size)
    BY <2>1, <1>0a DEF Loops
  <2> QED BY <2>1, <2>2 DEF Terminated, Cut, OneLess, Unlimited
<1>3. CASE EndOfString \/ LastEnd \/ ForkEnd
  <2>1. PICK u \in Id, id \in Nat, str \in {Str, loop.str} :
          /\ id \in 1..u /\ used <= u /\ res' = Append(res, Result(id, str)) /\ (str = Str \/ loop.size = 0)
    <3>1. CASE EndOfString
      BY <3>1, <1>0a DEF EndOfString, Resolved
    <3>2. CASE LastEnd
      BY <3>2, <1>0a DEF LastEnd, Resolved
    <3>3. CASE ForkEnd
      <4>1. used' = used + 1 /\ used' \in Id /\ res' = Append(res, Result(used', Str))
        BY <3>3 DEF ForkEnd, Resolved
      <4>2. used' \in 1..used' /\ used <= used'
        BY <4>1, <1>0a
      <4> QED BY <4>1, <4>2
    <3> QED BY <1>3, <3>1, <3>2, <3>3
  <2>2. phase = "resolve" /\ request' = request
    BY <1>3 DEF EndOfString, LastEnd, ForkEnd, MayEnd, Reading
  <2>3. loop'.size = loop.size \/ loop'.size = OneLess(loop.size)
    BY <1>3, <1>0a DEF EndOfString, LastEnd, ForkEnd, Resolved, Loops
  <2>4. /\ DOMAIN res' = 1..Len(res) + 1 /\ DOMAIN res = 1..Len(res)
        /\ \A k \in DOMAIN res : res'[k] = res[k]
        /\ res'[Len(res) + 1].str = str
    <3>1. str \in Strings /\ id \in 1..u /\ used <= u /\ res' = Append(res, Result(id, str))
      BY <1>0a, <2>1
    <3> QED BY <1>0, <3>1, AppendResult
  <2>5. ASSUME ~Cut
        PROVE  loop'.size = Unlimited /\ \A k \in DOMAIN res' : res'[k].str # <<>>
    <3>1. loop.size = Unlimited /\ \A k \in DOMAIN res : res[k].str # <<>>
      BY <2>2, <2>5 DEF Terminated
    <3>2. loop'.size = Unlimited /\ str = Str
      BY <3>1, <2>1, <2>3 DEF OneLess, Unlimited
    <3>3. Len(res) \in Nat
      BY <1>0, <1>0a, Elements DEF Types
    <3> QED BY <3>1, <3>2, <3>3, <2>4, <1>0a
  <2> QED BY <2>2, <2>5 DEF Terminated, Cut
<1>4. CASE Strlen \/ Strcpy
  BY <1>4 DEF Strlen, Strcpy, ReturnAll, Terminated
<1>5. CASE StrcatSource
  BY <1>5 DEF StrcatSource, Resolving, Idle, Terminated
<1>6. CASE StrcatDest
  <2>1. CASE \E id, a, forks : Resolving(id, a, forks, Unlimited)
    BY <2>1 DEF Resolving, Idle, Terminated
  <2>2. CASE phase' = "idle"
    BY <2>2 DEF Terminated
  <2> QED BY <1>6, <2>1, <2>2 DEF StrcatDest
<1>7. CASE Strcmp
  <2>1. phase' = "idle" \/ phase' = "strcmp"
    BY <1>7 DEF Strcmp, Returning
  <2> QED BY <2>1 DEF Terminated
<1>8. CASE Memcmp
  BY <1>8 DEF Memcmp, Returning, Terminated
<1>9. CASE Fail
  BY <1>9 DEF Fail, Terminated
<1>10. CASE Done
  BY <1>10 DEF Done, vars, Terminated, Cut
<1> QED BY <1>1, <1>2, <1>3, <1>4, <1>5, <1>6, <1>7, <1>8, <1>9, <1>10 DEF Next

LEMMA TInvNext ==
  ASSUME TInv, Terminated, Next
  PROVE  TInv'
BY BeginTypes, NotZeroTypes, EndOfStringTypes, LastEndTypes, ForkEndTypes, StrlenTypes, StrcpyTypes,
   StrcatSourceTypes, StrcatDestTypes, StrcmpTypes, OtherTypes DEF Next

LEMMA TypesInvariant == Spec => [](TInv /\ Terminated)
<1>1. Init => TInv /\ Terminated
  BY TInvInit DEF Init, Terminated
<1>2. TInv /\ Terminated /\ [Next]_vars => (TInv /\ Terminated)'
  <2> SUFFICES ASSUME TInv, Terminated, [Next]_vars
               PROVE  TInv' /\ Terminated'
    OBVIOUS
  <2>1. CASE Next
    BY <2>1, TInvNext, TerminatedNext
  <2>2. CASE UNCHANGED vars
    BY <2>2 DEF vars, TInv, Types, Phased, Terminated, Cut
  <2> QED BY <2>1, <2>2
<1> QED BY <1>1, <1>2, PTL DEF Spec

(***************************************************************************)
(* Type correctness: all that the string functions build are bytes,        *)
(* memories, and states that have been made.                               *)
(***************************************************************************)
THEOREM TypeCorrect == Spec => []TypeOK
<1>1. TInv => TypeOK
  <2> SUFFICES ASSUME TInv
               PROVE  TypeOK
    OBVIOUS
  <2>1. Types
    BY DEF TInv
  <2>2. \A id \in Id : heap[id] \in States
    BY <2>1 DEF Types
  <2>3. loop \in Loops(used) /\ \A k \in DOMAIN out : out[k] \in 1..used
    <3>1. loop \in Loops(used) /\ out \in Seq(1..used)
      BY <2>1 DEF Types
    <3>2. \A k \in DOMAIN out : out[k] \in 1..used
      BY ONLY <3>1, SeqElements
    <3> QED BY <3>1, <3>2
  <2> QED BY <2>1, <2>2, <2>3 DEF TypeOK, Types, States, Loops, Memories, Bytes
<1> QED BY <1>1, TypesInvariant, PTL

-----------------------------------------------------------------------------
(***************************************************************************)
(* The states of the call under execution: those it has returned, those in *)
(* which a string has been found, strcat's that still have their           *)
(* destination to resolve, and the one at work.                            *)
(***************************************************************************)
Kinds == {"out", "res", "src", "loop"}

IsPlace(a, k) ==
  \/ a = "out"  /\ k \in DOMAIN out
  \/ a = "res"  /\ phase \in {"resolve", "resolved"} /\ k \in DOMAIN res
  \/ a = "src"  /\ k \in DOMAIN srcs /\ k # 1
  \/ a = "loop" /\ k = 1 /\ phase \in {"resolve", "strcmp", "memcmp"}

IdAt(a, k) ==
  CASE a = "out"  -> out[k]
    [] a = "res"  -> res[k].id
    [] a = "src"  -> srcs[k].id
    [] a = "loop" -> loop.id

Apart(x, y) == x # y /\ heap[x].pi \cap heap[y].pi = {}

\* No two of them are one state or have an input in common.
Divided ==
  \A a \in Kinds, k \in Nat : IsPlace(a, k) =>
    /\ heap[IdAt(a, k)].pi \subseteq before.pi
    /\ \A b \in Kinds, l \in Nat :
         IsPlace(b, l) /\ (a # b \/ k # l) => Apart(IdAt(a, k), IdAt(b, l))

\* A comparison works on the state it was called in.
Comparing == phase \in {"strcmp", "memcmp"} => loop.id = 1 /\ heap[1] = before

LEMMA SeqIndex ==
  ASSUME TInv
  PROVE  /\ DOMAIN out = 1..Len(out) /\ DOMAIN res = 1..Len(res) /\ DOMAIN srcs = 1..Len(srcs)
         /\ Len(out) \in Nat /\ Len(res) \in Nat /\ Len(srcs) \in Nat
         /\ \A k \in DOMAIN out : out[k] \in 1..used
         /\ \A k \in DOMAIN res : res[k].id \in 1..used
         /\ \A k \in DOMAIN srcs : srcs[k].id \in 1..used
         /\ loop.id \in 1..used /\ used \in Id /\ 1..used \subseteq Id
         /\ heap \in [Id -> States]
<1>1. /\ out \in Seq(1..used) /\ res \in Seq(Resolutions(used)) /\ srcs \in Seq(Resolutions(used))
      /\ used \in Id /\ heap \in [Id -> States] /\ loop \in Loops(used)
  BY DEF TInv, Types
<1>2. DOMAIN out = 1..Len(out) /\ Len(out) \in Nat /\ \A k \in DOMAIN out : out[k] \in 1..used
  BY ONLY <1>1, SeqElements
<1>3. /\ DOMAIN res = 1..Len(res) /\ Len(res) \in Nat /\ \A k \in DOMAIN res : res[k].id \in 1..used
      /\ DOMAIN srcs = 1..Len(srcs) /\ Len(srcs) \in Nat /\ \A k \in DOMAIN srcs : srcs[k].id \in 1..used
  BY <1>1, Elements
<1>4. loop.id \in 1..used
  BY <1>1 DEF Loops
<1> QED BY <1>1, <1>2, <1>3, <1>4, IdType

LEMMA PlaceIds ==
  ASSUME TInv, NEW a \in Kinds, NEW k \in Nat, IsPlace(a, k)
  PROVE  IdAt(a, k) \in 1..used /\ IdAt(a, k) \in Id
<1>1. IdAt(a, k) \in 1..used
  <2> USE SeqIndex
  <2>1. CASE a = "out"
    BY <2>1 DEF IsPlace, IdAt
  <2>2. CASE a = "res"
    BY <2>2 DEF IsPlace, IdAt
  <2>3. CASE a = "src"
    BY <2>3 DEF IsPlace, IdAt
  <2>4. CASE a = "loop"
    BY <2>4 DEF IsPlace, IdAt
  <2> QED BY <2>1, <2>2, <2>3, <2>4 DEF Kinds
<1> QED BY <1>1, SeqIndex

PlacesAreMade ==
  \A a \in Kinds, k \in Nat : IsPlace(a, k) => IdAt(a, k) \in 1..used /\ IdAt(a, k) \in Id

LEMMA PlaceIdsType == TInv => PlacesAreMade
BY PlaceIds DEF PlacesAreMade

LEMMA EndingParts ==
  ASSUME NEW st \in States
  PROVE  /\ Ending(st).pi = Zero /\ Longer(st).pi = st.pi \ Zero
         /\ Ending(st).mem = Written(st.mem, loop.curr, <<Const(0)>>) /\ Longer(st).mem = st.mem
         /\ Ending(st).rax = st.rax /\ Longer(st).rax = st.rax
         /\ Zero \subseteq heap[loop.id].pi
<1>1. Zero \subseteq heap[loop.id].pi
  BY DEF Zero
<1> HIDE DEF Zero
<1> QED BY <1>1 DEF Ending, Longer, States

\* A step that leaves the paths and takes no state from elsewhere.
LEMMA StayDivided ==
  ASSUME TInv, Divided, before' = before,
         \A id \in Id : heap'[id].pi \subseteq heap[id].pi,
         \A a \in Kinds, k \in Nat : IsPlace(a, k)' => IsPlace(a, k) /\ IdAt(a, k)' = IdAt(a, k)
  PROVE  Divided'
<1>1. \A a \in Kinds, k \in Nat : IsPlace(a, k) => IdAt(a, k) \in Id
  BY PlaceIdsType DEF PlacesAreMade
<1> HIDE DEF IsPlace, IdAt
<1> QED BY <1>1 DEF Divided, Apart

LEMMA BeginDivided ==
  ASSUME TInv, TInv', Divided, Begin
  PROVE  Divided' /\ Comparing'
<1>1. PICK k \in DOMAIN out, r \in Request :
        /\ request' = r /\ before' = heap[out[k]]
        /\ heap' = [id \in Id |->
             IF r.fn \in {"strcpy", "strncpy", "strcat"}
             THEN [before' EXCEPT !.rax = Const(r.dst)] ELSE before']
        /\ CASE r.fn \in {"strlen", "strcpy"} -> Resolving(1, r.src, MaxForks, Unlimited)
             [] r.fn = "strncpy" -> Resolving(1, r.src, MaxForks, AsInt(r.n))
             [] r.fn = "strcat" -> Resolving(1, r.src, MaxForksCat, Unlimited)
             [] OTHER -> /\ loop' = [Idle EXCEPT !.same = Input]
                         /\ res' = <<>>
                         /\ phase' = r.fn
  BY DEF Begin
<1>2. srcs' = <<>> /\ out' = <<>> /\ res' = <<>>
  BY <1>1, RequestType DEF Begin, Resolving, Function
<1>3. \A a \in Kinds, l \in Nat : IsPlace(a, l)' => a = "loop" /\ l = 1
  BY <1>2 DEF IsPlace
<1>4. ASSUME NEW id \in Id
      PROVE  heap'[id].pi = before'.pi
  <2>1. before' \in States /\ 1 \in Id
    BY IdType DEF TInv, Types
  <2> QED BY <1>1, <2>1 DEF States
<1>5. \A a \in Kinds, l \in Nat : IsPlace(a, l)' => IdAt(a, l)' \in Id
  <2>1. TInv' => PlacesAreMade'
    BY PlaceIdsType, PTL
  <2> QED BY <2>1 DEF PlacesAreMade
<1>6. Divided'
  <2> HIDE DEF IsPlace, IdAt
  <2> QED BY <1>3, <1>4, <1>5 DEF Divided
<1>7. Comparing'
  <2> SUFFICES ASSUME phase' \in {"strcmp", "memcmp"}
               PROVE  loop'.id = 1 /\ heap'[1] = before'
    BY DEF Comparing
  <2>1. r.fn \in {"strcmp", "memcmp"}
    BY <1>1, RequestType DEF Function, Resolving
  <2>2. loop' = [Idle EXCEPT !.same = Input] /\ 1 \in Id
    BY <1>1, <2>1, IdType
  <2> QED BY <1>1, <2>1, <2>2 DEF Idle
<1> QED BY <1>6, <1>7

LEMMA EndDivided ==
  ASSUME TInv, Divided, EndOfString \/ LastEnd
  PROVE  Divided'
<1>1. PICK str : res' = Append(res, Result(loop.id, str)) /\ str \in Strings
  BY ReadingType DEF TInv, Types, Loops, EndOfString, LastEnd, Resolved
<1>2. /\ phase = "resolve" /\ phase' = "resolved" /\ loop' = loop
      /\ UNCHANGED <<used, before, srcs, out>>
      /\ heap' = heap \/ heap' = [heap EXCEPT ![loop.id] = Ending(@)]
  BY DEF EndOfString, LastEnd, MayEnd, Reading, Resolved
<1>3. /\ Len(res) \in Nat /\ DOMAIN res' = 1..Len(res) + 1 /\ DOMAIN res = 1..Len(res)
      /\ \A k \in DOMAIN res : res'[k] = res[k]
      /\ res'[Len(res) + 1].id = loop.id
  <2>1. Types /\ used \in Id /\ used <= used /\ loop.id \in 1..used
    BY SeqIndex, IdType DEF TInv
  <2> QED BY <2>1, <1>1, AppendResult
<1>4. \A id \in Id : heap'[id].pi \subseteq heap[id].pi
  <2>1. ASSUME NEW id \in Id
        PROVE  heap'[id] = heap[id] \/ (id = loop.id /\ heap'[id] = Ending(heap[id]))
    BY <1>2, SeqIndex
  <2>2. \A id \in Id : heap[id] \in States
    BY SeqIndex
  <2> QED BY <2>1, <2>2, EndingParts
<1> DEFINE New(a, k) == a = "res" /\ k = Len(res) + 1
<1>5. ASSUME NEW a \in Kinds, NEW k \in Nat, IsPlace(a, k)', ~New(a, k)
      PROVE  IsPlace(a, k) /\ IdAt(a, k)' = IdAt(a, k) /\ a # "loop"
  BY <1>2, <1>3, <1>5 DEF IsPlace, IdAt, Kinds
<1>6. ASSUME NEW a \in Kinds, NEW k \in Nat, New(a, k)
      PROVE  IsPlace("loop", 1) /\ IdAt(a, k)' = IdAt("loop", 1)
  BY <1>2, <1>3, <1>6 DEF IsPlace, IdAt, Kinds
<1>7. "loop" \in Kinds /\ 1 \in Nat
  BY DEF Kinds
<1>8. \A a \in Kinds, k \in Nat : IsPlace(a, k) => IdAt(a, k) \in Id
  BY PlaceIdsType DEF PlacesAreMade
<1>9. \A a, b, k, l : New(a, k) /\ New(b, l) => a = b /\ k = l
  OBVIOUS
<1> HIDE DEF IsPlace, IdAt, New
<1> QED BY <1>2, <1>4, <1>5, <1>6, <1>7, <1>8, <1>9 DEF Divided, Apart

LEMMA ForkDivided ==
  ASSUME TInv, Divided, ForkEnd
  PROVE  Divided'
<1>1. /\ phase = "resolve"
      /\ used' = used + 1 /\ used' \in Id
      /\ UNCHANGED <<before, srcs, out>>
      /\ res' = Append(res, Result(used', Str))
      /\ \/ /\ heap' = [heap EXCEPT ![used'] = Ending(heap[loop.id]), ![loop.id] = Longer(@)]
            /\ loop' = [loop EXCEPT !.curr = @ + 1, !.str = Str, !.size = OneLess(@),
                                   !.forks = @ - 1]
            /\ phase' = phase
         \/ /\ heap' = [heap EXCEPT ![used'] = Ending(heap[loop.id])]
            /\ phase' = "resolved" /\ loop' = loop
  BY DEF ForkEnd, MayEnd, Reading, Resolved
<1>2. /\ Types /\ used \in Nat /\ used \in Id /\ loop.id \in 1..used /\ loop.id \in Id /\ heap \in [Id -> States]
      /\ Str \in Strings /\ loop \in Loops(used)
  BY SeqIndex, IdType, ReadingType DEF TInv, Types
<1>3. /\ Len(res) \in Nat /\ DOMAIN res' = 1..Len(res) + 1 /\ DOMAIN res = 1..Len(res)
      /\ \A k \in DOMAIN res : res'[k] = res[k]
      /\ res'[Len(res) + 1].id = used'
  <2>1. used <= used' /\ used' \in 1..used'
    BY <1>1, <1>2
  <2> QED BY <1>1, <1>2, <2>1, AppendResult
<1>4. loop'.id = loop.id
  BY <1>1, <1>2 DEF Loops
<1> DEFINE New(a, k) == a = "res" /\ k = Len(res) + 1
<1>5. ASSUME NEW a \in Kinds, NEW k \in Nat, IsPlace(a, k)', ~New(a, k)
      PROVE  IsPlace(a, k) /\ IdAt(a, k)' = IdAt(a, k) /\ (a = "loop" => k = 1 /\ phase' = "resolve")
  BY <1>1, <1>3, <1>4, <1>5 DEF IsPlace, IdAt, Kinds
<1>6. ASSUME NEW a \in Kinds, NEW k \in Nat, New(a, k)
      PROVE  IdAt(a, k)' = used'
  BY <1>3, <1>6 DEF IdAt, Kinds
<1>7. "loop" \in Kinds /\ 1 \in Nat /\ IsPlace("loop", 1) /\ IdAt("loop", 1) = loop.id
  BY <1>1 DEF Kinds, IsPlace, IdAt
<1>8. \A a \in Kinds, k \in Nat : IsPlace(a, k) => IdAt(a, k) \in 1..used /\ IdAt(a, k) \in Id
  BY PlaceIdsType DEF PlacesAreMade
<1>9. \A a, b, k, l : New(a, k) /\ New(b, l) => a = b /\ k = l
  OBVIOUS
<1>10. \A x \in 1..used : x # used'
  BY <1>1, <1>2
<1>11. heap'[used'].pi = Zero /\ Zero \subseteq heap[loop.id].pi
  <2>1. heap'[used'] = Ending(heap[loop.id]) /\ heap[loop.id] \in States
    BY <1>1, <1>2, <1>10
  <2> QED BY <2>1, EndingParts
<1>12. ASSUME NEW x \in 1..used
       PROVE  heap'[x].pi \subseteq heap[x].pi /\ (x = loop.id /\ phase' = "resolve" => heap'[x].pi \cap Zero = {})
  <2>0. x \in Id /\ heap[x] \in States
    BY <1>2, IdType
  <2>1. CASE heap' = [heap EXCEPT ![used'] = Ending(heap[loop.id]), ![loop.id] = Longer(@)]
    <3>1. CASE x = loop.id
      <4>1. heap'[x] = Longer(heap[x])
        BY <3>1, <2>0, <2>1, <1>1, <1>2, <1>10
      <4> QED BY <4>1, <2>0, EndingParts
    <3>2. CASE x # loop.id
      BY <3>2, <2>0, <2>1, <1>2, <1>10
    <3> QED BY <3>1, <3>2
  <2>2. CASE heap' = [heap EXCEPT ![used'] = Ending(heap[loop.id])] /\ phase' = "resolved"
    BY <2>0, <2>2, <1>2, <1>10
  <2> QED BY <2>1, <2>2, <1>1
\* Places that were there before keep apart.
<1>13. ASSUME NEW a \in Kinds, NEW k \in Nat, IsPlace(a, k)', ~New(a, k)
       PROVE  /\ heap'[IdAt(a, k)'].pi \subseteq before.pi
              /\ IdAt(a, k)' \in 1..used /\ IdAt(a, k)' = IdAt(a, k)
              /\ heap'[IdAt(a, k)'].pi \cap Zero = {}
  <2>1. IsPlace(a, k) /\ IdAt(a, k)' = IdAt(a, k) /\ (a = "loop" => k = 1 /\ phase' = "resolve")
    BY <1>5, <1>13
  <2>2. IdAt(a, k) \in 1..used /\ heap[IdAt(a, k)].pi \subseteq before.pi
    BY <2>1, <1>8 DEF Divided
  <2>3. heap'[IdAt(a, k)].pi \subseteq heap[IdAt(a, k)].pi
    BY <2>2, <1>12
  <2>4. CASE a = "loop"
    <3>1. IdAt(a, k) = loop.id
      BY <2>1, <2>4, <1>7
    <3> QED BY <2>1, <2>2, <2>3, <2>4, <3>1, <1>12
  <2>5. CASE a # "loop"
    <3>1. Apart(IdAt(a, k), loop.id)
      BY <2>1, <2>5, <1>7 DEF Divided
    <3> QED BY <2>1, <2>2, <2>3, <3>1, <1>11 DEF Apart
  <2> QED BY <2>4, <2>5
<1>14. ASSUME NEW a \in Kinds, NEW k \in Nat, NEW b \in Kinds, NEW l \in Nat,
              IsPlace(a, k)', ~New(a, k), IsPlace(b, l)', ~New(b, l), a # b \/ k # l
       PROVE  Apart(IdAt(a, k), IdAt(b, l))'
  <2>1. IsPlace(a, k) /\ IsPlace(b, l)
    BY <1>5, <1>14
  <2>2. Apart(IdAt(a, k), IdAt(b, l)) /\ IdAt(a, k) \in 1..used /\ IdAt(b, l) \in 1..used
    BY <2>1, <1>8, <1>14 DEF Divided
  <2>3. IdAt(a, k)' = IdAt(a, k) /\ IdAt(b, l)' = IdAt(b, l)
    BY <1>13, <1>14
  <2> HIDE DEF IdAt
  <2> QED BY <2>2, <2>3, <1>12 DEF Apart
<1>15. Zero \subseteq before.pi
  BY <1>7, <1>11 DEF Divided
<1>16. ASSUME NEW a \in Kinds, NEW k \in Nat, NEW b \in Kinds, NEW l \in Nat,
              New(a, k), IsPlace(b, l)', ~New(b, l)
       PROVE  Apart(IdAt(a, k), IdAt(b, l))' /\ Apart(IdAt(b, l), IdAt(a, k))'
  <2>1. IdAt(a, k)' = used' /\ heap'[used'].pi = Zero
    BY <1>6, <1>11, <1>16
  <2>2. IdAt(b, l)' \in 1..used /\ heap'[IdAt(b, l)'].pi \cap Zero = {}
    BY <1>13, <1>16
  <2> HIDE DEF IdAt
  <2> QED BY <2>1, <2>2, <1>10 DEF Apart
<1>17. before' = before
  BY <1>1
<1> HIDE DEF IsPlace, IdAt, New
<1> QED BY <1>6, <1>9, <1>11, <1>13, <1>14, <1>15, <1>16, <1>17 DEF Divided

\* The states of resolved strings return.
LEMMA ReturnDivided ==
  ASSUME TInv, Divided, Strlen \/ Strcpy
  PROVE  Divided'
<1>1. /\ phase = "resolved" /\ phase' = "idle" /\ out' = Ids(res) /\ UNCHANGED <<before, loop, res, srcs>>
      /\ request.fn # "strcat"
  BY DEF Strlen, Strcpy, ReturnAll
<1>2. srcs = <<>>
  BY <1>1 DEF TInv, Phased
<1>3. ASSUME NEW id \in Id
      PROVE  heap'[id].pi \subseteq heap[id].pi
  <2>1. PICK str : heap'[id] \in {heap[id], Length(heap[id], str), Copied(heap[id], str)}
    BY DEF Strlen, Strcpy, ReturnAll
  <2>2. heap[id] \in States
    BY SeqIndex
  <2>3. Length(heap[id], str).pi = heap[id].pi /\ Copied(heap[id], str).pi = heap[id].pi
    BY <2>2 DEF Length, Copied, States
  <2> QED BY <2>1, <2>3
<1>4. ASSUME NEW a \in Kinds, NEW k \in Nat, IsPlace(a, k)'
      PROVE  a = "out" /\ IsPlace("res", k) /\ IdAt(a, k)' = IdAt("res", k)
  BY <1>1, <1>2, <1>4, SeqIndex DEF IsPlace, IdAt, Kinds, Ids
<1>5. \A a \in Kinds, k \in Nat : IsPlace(a, k) => IdAt(a, k) \in Id
  BY PlaceIdsType DEF PlacesAreMade
<1>6. "res" \in Kinds /\ before' = before
  BY <1>1 DEF Kinds
<1> HIDE DEF IsPlace, IdAt
<1> QED BY <1>3, <1>4, <1>5, <1>6 DEF Divided, Apart

\* strcat has all its sources and goes through them.
LEMMA StrcatSourceDivided ==
  ASSUME TInv, Divided, StrcatSource
  PROVE  Divided'
<1>1. /\ phase = "resolved" /\ phase' = "resolve" /\ srcs = <<>> /\ srcs' = res /\ res' = <<>>
      /\ loop'.id = res[1].id /\ UNCHANGED <<before, out, heap>>
  BY DEF StrcatSource, Resolving, Idle
<1>2. 1 \in DOMAIN res
  BY <1>1, SeqIndex DEF TInv, Phased
<1> DEFINE h(a, k) == IF a = "loop" THEN 1 ELSE k
           g(a) == IF a = "out" THEN "out" ELSE "res"
<1>3. ASSUME NEW a \in Kinds, NEW k \in Nat, IsPlace(a, k)'
      PROVE  /\ IsPlace(g(a), h(a, k)) /\ IdAt(a, k)' = IdAt(g(a), h(a, k))
             /\ a # "res" /\ (a = "src" => k # 1) /\ (a = "loop" => k = 1)
  BY <1>1, <1>2, <1>3, SeqIndex DEF IsPlace, IdAt, Kinds
<1>4. \A a \in Kinds, k \in Nat : g(a) \in Kinds /\ h(a, k) \in Nat
  BY DEF Kinds
<1>5. ASSUME NEW a \in Kinds, NEW k \in Nat, NEW b \in Kinds, NEW l \in Nat,
             IsPlace(a, k)', IsPlace(b, l)', a # b \/ k # l
      PROVE  g(a) # g(b) \/ h(a, k) # h(b, l)
  BY <1>3, <1>5 DEF Kinds
<1>6. before' = before /\ heap' = heap
  BY <1>1
<1> HIDE DEF IsPlace, IdAt, g, h
<1> QED BY <1>3, <1>4, <1>5, <1>6 DEF Divided, Apart

\* The destination is done in one source's state; the next is at work.
LEMMA StrcatDestDivided ==
  ASSUME TInv, Divided, StrcatDest
  PROVE  Divided'
<1>1. /\ phase = "resolved" /\ srcs # <<>> /\ out' = out \o Ids(res) /\ srcs' = Tail(srcs)
      /\ before' = before /\ heap' = [heap EXCEPT ![srcs[1].id].mem = Catenated(@, srcs[1].str)]
  BY DEF StrcatDest, Catenated
<1>2. \/ /\ Len(srcs) > 1 /\ loop'.id = srcs[2].id /\ res' = <<>> /\ phase' = "resolve"
      \/ phase' = "idle" /\ Len(srcs) = 1
  <2>1. IF Len(srcs) > 1 THEN Resolving(srcs[2].id, request.dst, MaxForksCat, Unlimited)
        ELSE phase' = "idle" /\ UNCHANGED <<loop, res>>
    BY DEF StrcatDest
  <2>2. CASE Len(srcs) > 1
    BY <2>1, <2>2 DEF Resolving, Idle
  <2>3. CASE ~(Len(srcs) > 1)
    BY <1>1, <2>1, <2>3, SeqIndex
  <2> QED BY <2>2, <2>3
<1>3. /\ DOMAIN out' = 1..Len(out) + Len(res)
      /\ \A k \in 1..Len(out) : out'[k] = out[k]
      /\ \A k \in 1..Len(out) + Len(res) : k > Len(out) => out'[k] = res[k - Len(out)].id
  <2>1. res \in Seq(Resolutions(used)) /\ out \in Seq(1..used) /\ used \in Id
    BY DEF TInv, Types
  <2>2. /\ Ids(res) \in Seq(1..used) /\ Len(Ids(res)) = Len(res)
        /\ \A k \in 1..Len(res) : Ids(res)[k] = res[k].id
    BY <2>1, IdsType
  <2>3. /\ DOMAIN out' = 1..Len(out) + Len(res)
        /\ \A k \in 1..Len(out) : out'[k] = out[k]
        /\ \A k \in 1..Len(res) : out'[Len(out) + k] = Ids(res)[k]
    <3>1. PICK S : S = 1..used
      OBVIOUS
    <3>2. out \in Seq(S) /\ Ids(res) \in Seq(S)
      BY <2>1, <2>2, <3>1
    <3> HIDE DEF Ids
    <3>3. /\ DOMAIN (out \o Ids(res)) = 1..Len(out) + Len(Ids(res))
          /\ \A k \in 1..Len(out) : (out \o Ids(res))[k] = out[k]
          /\ \A k \in 1..Len(Ids(res)) : (out \o Ids(res))[Len(out) + k] = Ids(res)[k]
      BY ONLY <3>2, Joined
    <3>4. out' = out \o Ids(res) /\ Len(Ids(res)) = Len(res)
      BY <1>1, <2>2
    <3> QED BY ONLY <3>3, <3>4
  <2>4. ASSUME NEW k \in 1..Len(out) + Len(res), k > Len(out)
        PROVE  k - Len(out) \in 1..Len(res) /\ Len(out) + (k - Len(out)) = k
    BY <2>4, SeqIndex
  <2> QED BY <2>2, <2>3, <2>4
<1>4. DOMAIN srcs' = 1..Len(srcs) - 1 /\ \A k \in 1..Len(srcs) - 1 : srcs'[k] = srcs[k + 1]
  <2>1. srcs \in Seq(Resolutions(used))
    BY DEF TInv, Types
  <2> HIDE DEF Resolutions
  <2> QED BY <1>1, <2>1
<1> DEFINE h(a, k) == CASE a = "out" -> IF k <= Len(out) THEN k ELSE k - Len(out)
                        [] a = "loop" -> 2
                        [] OTHER -> k + 1
           g(a, k) == CASE a = "out" -> IF k <= Len(out) THEN "out" ELSE "res"
                        [] OTHER -> "src"
<1>5. ASSUME NEW a \in Kinds, NEW k \in Nat, IsPlace(a, k)'
      PROVE  /\ IsPlace(g(a, k), h(a, k)) /\ IdAt(a, k)' = IdAt(g(a, k), h(a, k))
             /\ g(a, k) \in Kinds /\ h(a, k) \in Nat
             /\ a # "res" /\ (a = "src" => k # 1) /\ (a = "loop" => k = 1)
  <2>1. CASE a = "out"
    <3>1. k \in 1..Len(out) + Len(res)
      BY <2>1, <1>3, <1>5 DEF IsPlace
    <3>2. CASE k <= Len(out)
      BY <2>1, <3>1, <3>2, <1>3, SeqIndex DEF IsPlace, IdAt, Kinds
    <3>3. CASE ~(k <= Len(out))
      <4>1. k - Len(out) \in 1..Len(res) /\ k - Len(out) \in Nat
        BY <3>1, <3>3, SeqIndex
      <4>2. g(a, k) = "res" /\ h(a, k) = k - Len(out) /\ "res" \in Kinds
        BY <2>1, <3>3 DEF Kinds
      <4>3. IsPlace("res", k - Len(out)) /\ IdAt("res", k - Len(out)) = res[k - Len(out)].id
        BY <4>1, <1>1, SeqIndex DEF IsPlace, IdAt
      <4>4. k > Len(out)
        BY <3>1, <3>3, SeqIndex
      <4>5. IdAt(a, k)' = res[k - Len(out)].id
        BY <2>1, <3>1, <4>4, <1>3 DEF IdAt
      <4> QED BY <2>1, <4>1, <4>2, <4>3, <4>5
    <3> QED BY <3>2, <3>3
  <2>2. CASE a = "res"
    BY <2>2, <1>2, <1>5 DEF IsPlace
  <2>3. CASE a = "src"
    <3>1. k \in 1..Len(srcs) - 1 /\ k # 1
      BY <2>3, <1>4, <1>5 DEF IsPlace
    <3>2. k + 1 \in DOMAIN srcs /\ k + 1 # 1
      BY <3>1, SeqIndex
    <3> QED BY <2>3, <3>1, <3>2, <1>4 DEF IsPlace, IdAt, Kinds
  <2>4. CASE a = "loop"
    <3>1. k = 1 /\ Len(srcs) > 1 /\ loop'.id = srcs[2].id
      BY <2>4, <1>2, <1>5 DEF IsPlace
    <3>2. 2 \in DOMAIN srcs
      BY <3>1, SeqIndex
    <3> QED BY <2>4, <3>1, <3>2 DEF IsPlace, IdAt, Kinds
  <2> QED BY <2>1, <2>2, <2>3, <2>4 DEF Kinds
<1>6. ASSUME NEW a \in Kinds, NEW k \in Nat, NEW b \in Kinds, NEW l \in Nat,
             IsPlace(a, k)', IsPlace(b, l)', a # b \/ k # l
      PROVE  g(a, k) # g(b, l) \/ h(a, k) # h(b, l)
  <2>1. a # "res" /\ (a = "src" => k # 1) /\ (a = "loop" => k = 1)
        /\ b # "res" /\ (b = "src" => l # 1) /\ (b = "loop" => l = 1)
    BY <1>5, <1>6
  <2>2. Len(out) \in Nat
    BY SeqIndex
  <2> QED BY <2>1, <2>2, <1>6 DEF Kinds
<1>7. \A id \in Id : heap'[id].pi = heap[id].pi
  BY <1>1, SeqIndex DEF States
<1>8. \A a \in Kinds, k \in Nat : IsPlace(a, k) => IdAt(a, k) \in Id
  BY PlaceIdsType DEF PlacesAreMade
<1>9. before' = before
  BY <1>1
<1> HIDE DEF IsPlace, IdAt, g, h
<1> QED BY <1>5, <1>6, <1>7, <1>8, <1>9 DEF Divided, Apart

\* A comparison returns the state it was called in.
LEMMA ReturningDivided ==
  ASSUME TInv, Divided, Comparing, phase \in {"strcmp", "memcmp"}, NEW differ, Returning(differ),
         UNCHANGED <<before, res, srcs>>
  PROVE  Divided'
<1>1. /\ phase' = "idle" /\ out' = <<1>> /\ loop.id = 1 /\ srcs = <<>>
      /\ UNCHANGED <<before, loop, res, srcs>>
      /\ heap' = [heap EXCEPT ![1].rax = [i \in Input |-> IF i \in differ THEN 1 ELSE 0]]
  BY DEF Returning, Comparing, TInv, Phased
<1>2. ASSUME NEW a \in Kinds, NEW k \in Nat, IsPlace(a, k)'
      PROVE  a = "out" /\ k = 1 /\ IsPlace("loop", 1) /\ IdAt(a, k)' = IdAt("loop", 1)
  BY <1>1, <1>2 DEF IsPlace, IdAt, Kinds
<1>3. \A id \in Id : heap'[id].pi = heap[id].pi
  BY <1>1, SeqIndex DEF States
<1>4. \A a \in Kinds, k \in Nat : IsPlace(a, k) => IdAt(a, k) \in Id
  BY PlaceIdsType DEF PlacesAreMade
<1>5. "loop" \in Kinds /\ before' = before
  BY <1>1 DEF Kinds
<1> HIDE DEF IsPlace, IdAt
<1> QED BY <1>2, <1>3, <1>4, <1>5 DEF Divided, Apart

LEMMA StrcmpDivided ==
  ASSUME TInv, Divided, Comparing, Strcmp
  PROVE  Divided' /\ Comparing'
<1>1. phase = "strcmp" /\ UNCHANGED <<z3, used, request, before, res, srcs, calls>>
  BY DEF Strcmp
<1>2. CASE \E differ : Returning(differ)
  <2>1. Divided'
    BY <1>1, <1>2, ReturningDivided
  <2> QED BY <1>2, <2>1 DEF Comparing, Returning
<1>3. CASE \E s : /\ loop' = [loop EXCEPT !.curr = @ + 1, !.same = loop.same \cap s]
                  /\ UNCHANGED <<heap, out, phase>>
  <2>1. loop'.id = loop.id
    <3>1. loop \in Loops(used)
      BY DEF TInv, Types
    <3> QED BY <3>1, <1>3 DEF Loops
  <2>2. \A a \in Kinds, k \in Nat : IsPlace(a, k)' => IsPlace(a, k) /\ IdAt(a, k)' = IdAt(a, k)
    BY <1>1, <1>3, <2>1 DEF IsPlace, IdAt, Kinds
  <2>3. Divided'
    BY <1>1, <1>3, <2>2, StayDivided
  <2> QED BY <1>1, <1>3, <2>1, <2>3 DEF Comparing
<1> QED BY <1>2, <1>3 DEF Strcmp

LEMMA OtherDivided ==
  ASSUME TInv, Divided, Comparing, NotZero \/ Memcmp \/ Fail \/ UNCHANGED vars
  PROVE  Divided' /\ Comparing'
<1>1. CASE NotZero
  <2>1. loop' = [loop EXCEPT !.curr = @ + 1, !.str = Str, !.size = OneLess(@)] /\ phase = "resolve"
        /\ UNCHANGED <<heap, before, res, srcs, out, phase>>
    BY <1>1 DEF NotZero, Reading, GoOn
  <2>2. loop'.id = loop.id
    <3>1. loop \in Loops(used)
      BY DEF TInv, Types
    <3> QED BY <3>1, <2>1 DEF Loops
  <2>3. \A a \in Kinds, k \in Nat : IsPlace(a, k)' => IsPlace(a, k) /\ IdAt(a, k)' = IdAt(a, k)
    BY <2>1, <2>2 DEF IsPlace, IdAt, Kinds
  <2> QED BY <2>1, <2>3, StayDivided DEF Comparing
<1>2. CASE Memcmp
  <2>1. PICK differ : Returning(differ)
    BY <1>2 DEF Memcmp
  <2> QED BY <1>2, <2>1, ReturningDivided DEF Memcmp, Comparing, Returning
<1>3. CASE Fail
  <2>1. phase' = "failed" /\ UNCHANGED <<heap, before, res, srcs, out>>
    BY <1>3 DEF Fail
  <2>2. \A a \in Kinds, k \in Nat : IsPlace(a, k)' => IsPlace(a, k) /\ IdAt(a, k)' = IdAt(a, k)
    BY <2>1 DEF IsPlace, IdAt, Kinds
  <2> QED BY <2>1, <2>2, StayDivided DEF Comparing
<1>4. CASE UNCHANGED vars
  <2>1. UNCHANGED <<heap, before, loop, res, srcs, out, phase>>
    BY <1>4 DEF vars
  <2>2. \A a \in Kinds, k \in Nat : IsPlace(a, k)' => IsPlace(a, k) /\ IdAt(a, k)' = IdAt(a, k)
    BY <2>1 DEF IsPlace, IdAt, Kinds
  <2> QED BY <2>1, <2>2, StayDivided DEF Comparing
<1> QED BY <1>1, <1>2, <1>3, <1>4

DInv == TInv /\ Terminated /\ Divided /\ Comparing

LEMMA DividedInit == Init => Divided /\ Comparing
<1> SUFFICES ASSUME Init
             PROVE  Divided /\ Comparing
  OBVIOUS
<1>1. PICK m \in Memory :
        LET first == [mem |-> m, pi |-> Input, rax |-> Const(0)]
        IN  heap = [id \in Id |-> first] /\ before = first
  BY DEF Init
<1>2. phase = "idle" /\ out = <<1>> /\ res = <<>> /\ srcs = <<>>
  BY DEF Init
<1>3. \A a \in Kinds, k \in Nat : IsPlace(a, k) => a = "out" /\ k = 1 /\ IdAt(a, k) = 1
  BY <1>2 DEF IsPlace, IdAt
<1>4. heap[1] = before
  BY <1>1, IdType
<1> HIDE DEF IsPlace, IdAt
<1> QED BY <1>2, <1>3, <1>4 DEF Divided, Comparing

LEMMA DividedNext ==
  ASSUME DInv, [Next]_vars
  PROVE  DInv'
<1>1. TInv' /\ Terminated'
  <2>1. CASE Next
    BY <2>1, TInvNext, TerminatedNext DEF DInv
  <2>2. CASE UNCHANGED vars
    BY <2>2 DEF vars, DInv, TInv, Types, Phased, Terminated, Cut
  <2> QED BY <2>1, <2>2
<1>2. Divided' /\ Comparing'
  <2>0. TInv /\ Divided /\ Comparing
    BY DEF DInv
  <2>1. CASE Begin
    BY <2>0, <2>1, <1>1, BeginDivided
  <2>2. CASE EndOfString \/ LastEnd
    BY <2>0, <2>2, EndDivided DEF EndOfString, LastEnd, Resolved, Comparing
  <2>3. CASE ForkEnd
    <3>1. phase' \in {"resolve", "resolved"}
      BY <2>3 DEF ForkEnd, MayEnd, Reading, Resolved
    <3> QED BY <2>0, <2>3, <3>1, ForkDivided DEF Comparing
  <2>4. CASE Strlen \/ Strcpy
    BY <2>0, <2>4, ReturnDivided DEF Strlen, Strcpy, ReturnAll, Comparing
  <2>5. CASE StrcatSource
    BY <2>0, <2>5, StrcatSourceDivided DEF StrcatSource, Resolving, Comparing
  <2>6. CASE StrcatDest
    <3>1. phase' \in {"resolve", "idle"}
      BY <2>6 DEF StrcatDest, Resolving
    <3> QED BY <2>0, <2>6, <3>1, StrcatDestDivided DEF Comparing
  <2>7. CASE Strcmp
    BY <2>0, <2>7, StrcmpDivided
  <2>8. CASE NotZero \/ Memcmp \/ Fail \/ Done \/ UNCHANGED vars
    BY <2>0, <2>8, OtherDivided DEF Done
  <2> QED BY <2>1, <2>2, <2>3, <2>4, <2>5, <2>6, <2>7, <2>8 DEF Next
<1> QED BY <1>1, <1>2 DEF DInv

LEMMA DivisionInvariant == Spec => []DInv
<1>1. Init => DInv
  BY TInvInit, DividedInit DEF DInv, Init, Terminated
<1> QED BY <1>1, DividedNext, PTL DEF Spec

(***************************************************************************)
(* However a call forks, the states it returns have no input in common,    *)
(* and none that its caller's state had not: an input goes one way.        *)
(***************************************************************************)
THEOREM InputsGoOneWay == Spec => []DividesInputs
<1>1. DInv => DividesInputs
  <2> SUFFICES ASSUME DInv
               PROVE  DividesInputs
    OBVIOUS
  <2>1. \A k \in DOMAIN out : k \in Nat /\ "out" \in Kinds /\ IsPlace("out", k) /\ IdAt("out", k) = out[k]
    BY SeqIndex DEF DInv, Kinds, IsPlace, IdAt
  <2>2. Divided
    BY DEF DInv
  <2> HIDE DEF IsPlace, IdAt
  <2> QED BY <2>1, <2>2 DEF Divided, Apart, DividesInputs
<1> QED BY <1>1, DivisionInvariant, PTL

-----------------------------------------------------------------------------
(***************************************************************************)
(* Until a state is finished, its memory is the caller's for every input   *)
(* on its path: the terminators written are where the input has them.      *)
(***************************************************************************)
Copying == request.fn \in {"strcpy", "strncpy", "strcat"}

Intact(id) ==
  /\ \A i \in heap[id].pi, x \in Address : heap[id].mem[x][i] = before.mem[x][i]
  /\ Copying => heap[id].rax = Const(request.dst)

Kept == \A a \in Kinds, k \in Nat : a # "out" /\ IsPlace(a, k) => Intact(IdAt(a, k))

\* strcat changes the state of one source only.
SourcesApart == \A k, l \in DOMAIN srcs : k # l => srcs[k].id # srcs[l].id

\* Where the string under resolution begins.
From == IF srcs = <<>> THEN request.src ELSE request.dst

\* The resolution is as far behind it as the string is long.
AtPosition ==
  phase = "resolve" =>
    /\ loop.curr = From + Len(loop.str)
    /\ Cut => loop.size \in Nat /\ loop.size = AsInt(request.n) - Len(loop.str)

LEMMA FromType ==
  ASSUME TInv, phase \in {"resolve", "resolved"}
  PROVE  From \in Nat /\ From \in Address /\ request \in Request
<1>1. request \in Request
  BY DEF TInv, Phased
<1> QED BY <1>1, RequestType DEF From

LEMMA WrittenOne ==
  ASSUME NEW mem \in Memories, NEW a \in Nat, NEW b \in Bytes, NEW x \in Address
  PROVE  Written(mem, a, <<b>>)[x] = IF x = a % Width THEN b ELSE mem[x]
<1>1. DOMAIN <<b>> = {1} /\ <<b>>[1] = b /\ a + 1 - 1 = a
  OBVIOUS
<1>2. (\E k \in {1} : x = (a + k - 1) % Width) <=> x = a % Width
  BY <1>1
<1>3. CASE x = a % Width
  <2>1. (CHOOSE k \in {1} : x = (a + k - 1) % Width) = 1
    BY <1>1, <1>3
  <2>2. Written(mem, a, <<b>>)[x] = <<b>>[CHOOSE k \in {1} : x = (a + k - 1) % Width]
    BY <1>1, <1>2, <1>3 DEF Written
  <2> QED BY <2>1, <2>2, <1>1, <1>3
<1>4. CASE x # a % Width
  BY <1>1, <1>2, <1>4 DEF Written
<1> QED BY <1>3, <1>4

\* The terminator written is the byte the input has there.
LEMMA EndingIntact ==
  ASSUME Types, Intact(loop.id), NEW i \in Zero, NEW x \in Address
  PROVE  Ending(heap[loop.id]).mem[x][i] = before.mem[x][i]
<1>1. /\ heap[loop.id] \in States /\ loop.curr \in Nat
  BY ReadingType
<1>2. heap[loop.id].mem \in Memories /\ Const(0) \in Bytes /\ i \in Input
  BY <1>1, ConstType, ConstantsType DEF States, Zero
<1>3. Ending(heap[loop.id]).mem[x] = IF x = loop.curr % Width THEN Const(0) ELSE heap[loop.id].mem[x]
  BY <1>1, <1>2, EndingParts, WrittenOne
<1>4. i \in heap[loop.id].pi /\ heap[loop.id].mem[loop.curr % Width][i] = 0
  BY DEF Zero, B, At
<1>5. heap[loop.id].mem[x][i] = before.mem[x][i]
  BY <1>4 DEF Intact
<1>6. Const(0)[i] = 0
  BY <1>2 DEF Const
<1> QED BY <1>3, <1>4, <1>5, <1>6

LEMMA BeginKept ==
  ASSUME DInv, DInv', Begin
  PROVE  Kept' /\ SourcesApart' /\ AtPosition'
<1>1. PICK k \in DOMAIN out, r \in Request :
        /\ request' = r /\ before' = heap[out[k]]
        /\ heap' = [id \in Id |->
             IF r.fn \in {"strcpy", "strncpy", "strcat"}
             THEN [before' EXCEPT !.rax = Const(r.dst)] ELSE before']
        /\ CASE r.fn \in {"strlen", "strcpy"} -> Resolving(1, r.src, MaxForks, Unlimited)
             [] r.fn = "strncpy" -> Resolving(1, r.src, MaxForks, AsInt(r.n))
             [] r.fn = "strcat" -> Resolving(1, r.src, MaxForksCat, Unlimited)
             [] OTHER -> /\ loop' = [Idle EXCEPT !.same = Input]
                         /\ res' = <<>>
                         /\ phase' = r.fn
  BY DEF Begin
<1>2. srcs' = <<>>
  BY DEF Begin
<1>3. ASSUME NEW id \in Id
      PROVE  Intact(id)'
  <2>1. before' \in States
    BY DEF DInv, TInv, Types
  <2>2. heap'[id] = IF r.fn \in {"strcpy", "strncpy", "strcat"} THEN [before' EXCEPT !.rax = Const(r.dst)] ELSE before'
    BY <1>1
  <2>3. heap'[id].mem = before'.mem /\ (r.fn \in {"strcpy", "strncpy", "strcat"} => heap'[id].rax = Const(r.dst))
    BY <2>1, <2>2 DEF States
  <2> QED BY <1>1, <2>3 DEF Intact, Copying
<1>4. \A a \in Kinds, l \in Nat : IsPlace(a, l)' => IdAt(a, l)' \in Id
  <2>1. TInv' => PlacesAreMade'
    BY PlaceIdsType, PTL
  <2> QED BY <2>1 DEF PlacesAreMade, DInv
<1>5. Kept'
  <2> HIDE DEF IsPlace, IdAt, Intact
  <2> QED BY <1>3, <1>4 DEF Kept
<1>6. AtPosition'
  <2> SUFFICES ASSUME phase' = "resolve"
               PROVE  /\ loop'.curr = From' + Len(loop'.str)
                      /\ Cut' => loop'.size \in Nat /\ loop'.size = AsInt(r.n) - Len(loop'.str)
    BY <1>1 DEF AtPosition
  <2>1. /\ loop'.curr = r.src /\ loop'.str = <<>> /\ (r.fn = "strncpy" => loop'.size = AsInt(r.n))
    BY <1>1, RequestType DEF Function, Resolving, Idle
  <2>2. From' = r.src /\ r.src \in Nat /\ (AsInt(r.n) # Unlimited => AsInt(r.n) \in Nat)
    BY <1>1, <1>2, RequestType, AsIntType DEF From
  <2>3. Cut' => r.fn = "strncpy" /\ AsInt(r.n) # Unlimited
    BY <1>1 DEF Cut
  <2> QED BY <2>1, <2>2, <2>3
<1> QED BY <1>2, <1>5, <1>6 DEF SourcesApart

LEMMA EndKept ==
  ASSUME DInv, Kept, EndOfString \/ LastEnd
  PROVE  Kept'
<1>0. TInv /\ Types /\ Divided
  BY DEF DInv, TInv
<1>1. PICK str : res' = Append(res, Result(loop.id, str)) /\ str \in Strings
  BY <1>0, ReadingType DEF Types, Loops, EndOfString, LastEnd, Resolved
<1>2. /\ phase = "resolve" /\ phase' = "resolved" /\ loop' = loop
      /\ UNCHANGED <<used, before, srcs, out, request>>
      /\ heap' = heap \/ heap' = [heap EXCEPT ![loop.id] = Ending(@)]
  BY DEF EndOfString, LastEnd, MayEnd, Reading, Resolved
<1>3. /\ Len(res) \in Nat /\ DOMAIN res' = 1..Len(res) + 1 /\ DOMAIN res = 1..Len(res)
      /\ \A k \in DOMAIN res : res'[k] = res[k]
      /\ res'[Len(res) + 1].id = loop.id
  <2>1. used \in Id /\ loop.id \in 1..used
    BY <1>0, SeqIndex
  <2>2. used <= used
    BY <2>1, IdType
  <2> QED BY <1>0, <2>1, <2>2, <1>1, AppendResult
<1>4. "loop" \in Kinds /\ 1 \in Nat /\ IsPlace("loop", 1) /\ IdAt("loop", 1) = loop.id
  BY <1>2 DEF Kinds, IsPlace, IdAt
<1>5. Intact(loop.id)
  BY <1>4 DEF Kept
<1>6. /\ loop.id \in Id /\ heap \in [Id -> States]
  BY <1>0, SeqIndex
<1>7. Intact(loop.id)'
  <2>1. CASE heap' = heap
    BY <2>1, <1>2, <1>5 DEF Intact, Copying
  <2>2. CASE heap' = [heap EXCEPT ![loop.id] = Ending(@)]
    <3>1. heap'[loop.id] = Ending(heap[loop.id]) /\ heap[loop.id] \in States
      BY <2>2, <1>6
    <3>2. heap'[loop.id].pi = Zero /\ heap'[loop.id].rax = heap[loop.id].rax
      BY <3>1, EndingParts
    <3>3. \A i \in Zero, x \in Address : heap'[loop.id].mem[x][i] = before.mem[x][i]
      BY <3>1, <1>0, <1>5, EndingIntact
    <3> QED BY <3>2, <3>3, <1>2, <1>5 DEF Intact, Copying
  <2> QED BY <2>1, <2>2, <1>2
<1>8. ASSUME NEW a \in Kinds, NEW k \in Nat, IsPlace(a, k)', a # "out"
      PROVE  Intact(IdAt(a, k))'
  <2>1. CASE a = "res" /\ k = Len(res) + 1
    <3>1. IdAt(a, k)' = loop.id
      BY <2>1, <1>3 DEF IdAt
    <3> HIDE DEF IdAt, Intact
    <3> QED BY <3>1, <1>7, <1>2
  <2>2. CASE ~(a = "res" /\ k = Len(res) + 1)
    <3>1. IsPlace(a, k) /\ IdAt(a, k)' = IdAt(a, k) /\ a # "loop"
      BY <1>2, <1>3, <1>8, <2>2 DEF IsPlace, IdAt, Kinds
    <3>2. Intact(IdAt(a, k)) /\ IdAt(a, k) \in Id /\ IdAt(a, k) # loop.id
      <4>1. Apart(IdAt(a, k), IdAt("loop", 1))
        BY <3>1, <1>0, <1>4 DEF Divided
      <4> QED BY <3>1, <4>1, <1>0, <1>4, <1>8, PlaceIdsType DEF Kept, PlacesAreMade, Apart
    <3>3. PICK id : id = IdAt(a, k)
      OBVIOUS
    <3>4. heap'[id] = heap[id]
      BY <3>2, <3>3, <1>2, <1>6
    <3>5. Intact(id)'
      BY <3>2, <3>3, <3>4, <1>2 DEF Intact, Copying
    <3> HIDE DEF IdAt, Intact
    <3> QED BY <3>1, <3>3, <3>5
  <2> QED BY <2>1, <2>2
<1> HIDE DEF IsPlace, IdAt, Intact
<1> QED BY <1>8 DEF Kept

LEMMA ForkKept ==
  ASSUME DInv, Kept, ForkEnd
  PROVE  Kept'
<1>0. TInv /\ Types /\ Divided
  BY DEF DInv, TInv
<1>1. /\ phase = "resolve"
      /\ used' = used + 1 /\ used' \in Id
      /\ UNCHANGED <<before, srcs, out, request>>
      /\ res' = Append(res, Result(used', Str))
      /\ \/ /\ heap' = [heap EXCEPT ![used'] = Ending(heap[loop.id]), ![loop.id] = Longer(@)]
            /\ loop' = [loop EXCEPT !.curr = @ + 1, !.str = Str, !.size = OneLess(@),
                                   !.forks = @ - 1]
            /\ phase' = phase
         \/ /\ heap' = [heap EXCEPT ![used'] = Ending(heap[loop.id])]
            /\ phase' = "resolved" /\ loop' = loop
  BY DEF ForkEnd, MayEnd, Reading, Resolved
<1>2. /\ used \in Id /\ loop.id \in 1..used /\ loop.id \in Id /\ heap \in [Id -> States]
  BY <1>0, SeqIndex
<1>2a. used \in Nat /\ Str \in Strings /\ loop \in Loops(used)
  BY <1>0, <1>2, IdType, ReadingType DEF Types
<1>3. /\ Len(res) \in Nat /\ DOMAIN res' = 1..Len(res) + 1 /\ DOMAIN res = 1..Len(res)
      /\ \A k \in DOMAIN res : res'[k] = res[k]
      /\ res'[Len(res) + 1].id = used'
  <2>1. used <= used' /\ used' \in 1..used'
    BY <1>1, <1>2a
  <2> QED BY <1>0, <1>1, <1>2a, <2>1, AppendResult
<1>4. loop'.id = loop.id
  BY <1>1, <1>2a DEF Loops
<1>5. "loop" \in Kinds /\ 1 \in Nat /\ IsPlace("loop", 1) /\ IdAt("loop", 1) = loop.id
  BY <1>1 DEF Kinds, IsPlace, IdAt
<1>6. Intact(loop.id)
  BY <1>5 DEF Kept
<1>7. \A x \in 1..used : x # used'
  BY <1>1, <1>2a
<1>8. Intact(used)'
  <2>0. heap[loop.id] \in States
    BY <1>2
  <2>1. heap'[used'] = Ending(heap[loop.id])
    BY <1>1, <1>2, <1>7
  <2>2. heap'[used'].pi = Zero /\ heap'[used'].rax = heap[loop.id].rax
    BY <2>0, <2>1, EndingParts
  <2>3. \A i \in Zero, x \in Address : heap'[used'].mem[x][i] = before.mem[x][i]
    BY <2>1, <1>0, <1>6, EndingIntact
  <2>4. Intact(loop.id) => (Copying => heap[loop.id].rax = Const(request.dst))
    BY DEF Intact
  <2>5. PICK u : u = used'
    OBVIOUS
  <2>6. Intact(u)'
    BY <2>2, <2>3, <2>4, <2>5, <1>1, <1>6 DEF Intact, Copying
  <2> HIDE DEF Intact
  <2> QED BY <2>5, <2>6
<1>9. ASSUME NEW x \in 1..used, Intact(x)
      PROVE  Intact(x)'
  <2>0. x \in Id /\ heap[x] \in States
    BY <1>2, IdType
  <2>1. heap'[x] = heap[x] \/ heap'[x] = Longer(heap[x])
    BY <1>1, <1>2, <1>7, <2>0
  <2>2. heap'[x].pi \subseteq heap[x].pi /\ heap'[x].mem = heap[x].mem /\ heap'[x].rax = heap[x].rax
    BY <2>0, <2>1, EndingParts
  <2> QED BY <2>2, <1>1, <1>9 DEF Intact, Copying
<1>10. ASSUME NEW a \in Kinds, NEW k \in Nat, IsPlace(a, k)', a # "out"
       PROVE  Intact(IdAt(a, k))'
  <2>1. CASE a = "res" /\ k = Len(res) + 1
    <3>1. IdAt(a, k)' = used'
      BY <2>1, <1>3 DEF IdAt
    <3> HIDE DEF IdAt, Intact
    <3> QED BY <3>1, <1>8
  <2>2. CASE ~(a = "res" /\ k = Len(res) + 1)
    <3>1. IsPlace(a, k) /\ IdAt(a, k)' = IdAt(a, k)
      BY <1>1, <1>3, <1>4, <1>10, <2>2 DEF IsPlace, IdAt, Kinds
    <3>2. Intact(IdAt(a, k)) /\ IdAt(a, k) \in 1..used
      BY <3>1, <1>0, <1>10, PlaceIdsType DEF Kept, PlacesAreMade
    <3>3. PICK id : id = IdAt(a, k)
      OBVIOUS
    <3>4. Intact(id)'
      BY <3>2, <3>3, <1>9
    <3> HIDE DEF IdAt, Intact
    <3> QED BY <3>1, <3>3, <3>4
  <2> QED BY <2>1, <2>2
<1> HIDE DEF IsPlace, IdAt, Intact
<1> QED BY <1>10 DEF Kept

LEMMA StrcatKept ==
  ASSUME DInv, Kept, SourcesApart, StrcatSource \/ StrcatDest
  PROVE  Kept' /\ SourcesApart'
<1>0. TInv /\ Types /\ Divided
  BY DEF DInv, TInv
<1>1. CASE StrcatSource
  <2>1. /\ phase = "resolved" /\ phase' = "resolve" /\ srcs = <<>> /\ srcs' = res /\ res' = <<>>
        /\ loop'.id = res[1].id /\ UNCHANGED <<before, out, heap, request>>
    BY <1>1 DEF StrcatSource, Resolving, Idle
  <2>2. 1 \in DOMAIN res /\ DOMAIN res = 1..Len(res) /\ "res" \in Kinds
    BY <1>0, <2>1, SeqIndex DEF TInv, Phased, Kinds
  <2>3. ASSUME NEW a \in Kinds, NEW k \in Nat, IsPlace(a, k)', a # "out"
        PROVE  \E l \in Nat : IsPlace("res", l) /\ IdAt(a, k)' = IdAt("res", l)
    <3>1. CASE a = "src"
      <4>1. IsPlace("res", k) /\ IdAt(a, k)' = IdAt("res", k)
        BY <2>1, <2>3, <3>1 DEF IsPlace, IdAt, Kinds
      <4> QED BY <4>1
    <3>2. CASE a = "loop"
      <4>1. IsPlace("res", 1) /\ IdAt(a, k)' = IdAt("res", 1)
        BY <2>1, <2>2, <3>2 DEF IsPlace, IdAt, Kinds
      <4> QED BY <4>1
    <3>3. CASE a = "res"
      BY <2>1, <2>3, <3>3 DEF IsPlace
    <3> QED BY <2>3, <3>1, <3>2, <3>3 DEF Kinds
  <2>4. \A id : Intact(id) => Intact(id)'
    BY <2>1 DEF Intact, Copying
  <2>5. Kept'
    <3> HIDE DEF IsPlace, IdAt, Intact
    <3> QED BY <2>2, <2>3, <2>4 DEF Kept
  <2>6. \A k \in DOMAIN res : k \in Nat /\ IsPlace("res", k) /\ IdAt("res", k) = res[k].id
    BY <2>1, <2>2 DEF IsPlace, IdAt
  <2>7. SourcesApart'
    <3> HIDE DEF IsPlace, IdAt
    <3> QED BY <2>1, <2>2, <2>6, <1>0 DEF Divided, Apart, SourcesApart
  <2> QED BY <2>5, <2>7
<1>2. CASE StrcatDest
  <2>1. /\ phase = "resolved" /\ srcs # <<>> /\ srcs' = Tail(srcs) /\ before' = before /\ request' = request
        /\ heap' = [heap EXCEPT ![srcs[1].id].mem = Catenated(@, srcs[1].str)]
    BY <1>2 DEF StrcatDest, Catenated
  <2>2. \/ /\ Len(srcs) > 1 /\ loop'.id = srcs[2].id /\ res' = <<>> /\ phase' = "resolve"
        \/ phase' = "idle" /\ Len(srcs) = 1
    <3>1. IF Len(srcs) > 1 THEN Resolving(srcs[2].id, request.dst, MaxForksCat, Unlimited)
          ELSE phase' = "idle" /\ UNCHANGED <<loop, res>>
      BY <1>2 DEF StrcatDest
    <3>2. CASE Len(srcs) > 1
      BY <3>1, <3>2 DEF Resolving, Idle
    <3>3. CASE ~(Len(srcs) > 1)
      BY <1>0, <2>1, <3>1, <3>3, SeqIndex
    <3> QED BY <3>2, <3>3
  <2>3. DOMAIN srcs' = 1..Len(srcs) - 1 /\ \A k \in 1..Len(srcs) - 1 : srcs'[k] = srcs[k + 1]
    <3>1. srcs \in Seq(Resolutions(used))
      BY <1>0 DEF Types
    <3> HIDE DEF Resolutions
    <3> QED BY <2>1, <3>1
  <2>4. /\ DOMAIN srcs = 1..Len(srcs) /\ Len(srcs) \in Nat /\ \A k \in DOMAIN srcs : srcs[k].id \in Id
        /\ heap \in [Id -> States]
    BY <1>0, SeqIndex
  <2>5. ASSUME NEW a \in Kinds, NEW k \in Nat, IsPlace(a, k)', a # "out"
        PROVE  \E l \in DOMAIN srcs, id \in Id : l # 1 /\ id = srcs[l].id /\ IdAt(a, k)' = id
    <3>1. CASE a = "src"
      <4>1. k \in 1..Len(srcs) - 1 /\ k # 1
        BY <2>3, <2>5, <3>1 DEF IsPlace
      <4>2. k + 1 \in DOMAIN srcs /\ k + 1 # 1 /\ IdAt(a, k)' = srcs[k + 1].id
        BY <2>3, <2>4, <3>1, <4>1 DEF IdAt, Kinds
      <4> QED BY <4>2, <2>4
    <3>2. CASE a = "loop"
      <4>1. Len(srcs) > 1 /\ loop'.id = srcs[2].id
        BY <2>2, <2>5, <3>2 DEF IsPlace
      <4>2. 2 \in DOMAIN srcs /\ IdAt(a, k)' = srcs[2].id
        BY <2>4, <3>2, <4>1 DEF IdAt, Kinds
      <4> QED BY <4>2, <2>4
    <3>3. CASE a = "res"
      BY <2>2, <2>5, <3>3 DEF IsPlace
    <3> QED BY <2>5, <3>1, <3>2, <3>3 DEF Kinds
  <2>6. ASSUME NEW l \in DOMAIN srcs, l # 1, NEW id \in Id, id = srcs[l].id
        PROVE  Intact(id)'
    <3>1. IsPlace("src", l) /\ IdAt("src", l) = srcs[l].id /\ "src" \in Kinds /\ l \in Nat
      BY <2>4, <2>6 DEF IsPlace, IdAt, Kinds
    <3>2. Intact(id)
      BY <3>1, <2>6 DEF Kept
    <3>3. srcs[1].id # id
      BY <2>1, <2>4, <2>6 DEF SourcesApart
    <3>4. heap'[id] = heap[id]
      BY <2>1, <2>4, <3>3
    <3> QED BY <2>1, <3>2, <3>4 DEF Intact, Copying
  <2>7. Kept'
    <3> HIDE DEF IsPlace, IdAt, Intact
    <3> QED BY <2>4, <2>5, <2>6 DEF Kept
  <2>8. SourcesApart'
    <3>1. \A k \in 1..Len(srcs) - 1 : k + 1 \in DOMAIN srcs
      BY <2>4
    <3> QED BY <2>3, <3>1 DEF SourcesApart
  <2> QED BY <2>7, <2>8
<1> QED BY <1>1, <1>2

LEMMA AtPositionNext ==
  ASSUME TInv, AtPosition, NotZero \/ ForkEnd \/ StrcatSource \/ StrcatDest
  PROVE  AtPosition'
<1>0. Types
  BY DEF TInv
<1>1. CASE NotZero \/ ForkEnd
  <2>1. SUFFICES ASSUME phase' = "resolve"
                 PROVE  /\ loop'.curr = From + Len(loop'.str)
                        /\ Cut => loop'.size \in Nat /\ loop'.size = AsInt(request.n) - Len(loop'.str)
    BY <1>1 DEF NotZero, ForkEnd, AtPosition, From, Cut
  <2>2. /\ phase = "resolve" /\ loop.size # 0
        /\ \E f : loop' = [loop EXCEPT !.curr = @ + 1, !.str = Str, !.size = OneLess(@), !.forks = f]
    <3>1. CASE NotZero
      <4>1. loop \in Loops(used)
        BY <1>0 DEF Types
      <4>2. loop' = [loop EXCEPT !.curr = @ + 1, !.str = Str, !.size = OneLess(@), !.forks = loop.forks]
        BY <3>1, <4>1 DEF NotZero, GoOn, Loops
      <4> QED BY <3>1, <4>2 DEF NotZero, Reading
    <3>2. CASE ForkEnd
      BY <2>1, <3>2 DEF ForkEnd, MayEnd, Reading, Resolved
    <3> QED BY <1>1, <3>1, <3>2
  <2>3. /\ loop'.curr = loop.curr + 1 /\ loop'.str = Str /\ loop'.size = OneLess(loop.size)
    <3>1. loop \in Loops(used)
      BY <1>0 DEF Types
    <3> QED BY <2>2, <3>1 DEF Loops
  <2>4. Len(Str) = Len(loop.str) + 1 /\ Len(loop.str) \in Nat /\ loop.size \in Nat \cup {Unlimited}
    <3>1. loop.str \in Strings /\ loop.size \in Nat \cup {Unlimited}
      BY <1>0 DEF Types, Loops
    <3> QED BY <1>0, <3>1, ReadingType DEF Strings
  <2>5. From \in Nat /\ (Cut => AsInt(request.n) \in Nat)
    BY <2>2, FromType, RequestType, AsIntType DEF Cut
  <2>6. /\ loop.curr = From + Len(loop.str)
        /\ Cut => loop.size \in Nat /\ loop.size = AsInt(request.n) - Len(loop.str)
    BY <2>2 DEF AtPosition
  <2>7. loop'.curr = From + Len(loop'.str)
    BY <2>3, <2>4, <2>5, <2>6
  <2>8. ASSUME Cut
        PROVE  loop'.size \in Nat /\ loop'.size = AsInt(request.n) - Len(loop'.str)
    <3>1. OneLess(loop.size) = loop.size - 1
      BY <2>2, <2>6, <2>8 DEF OneLess
    <3>2. loop.size \in Nat /\ loop.size # 0 /\ loop.size = AsInt(request.n) - Len(loop.str)
      BY <2>2, <2>6, <2>8
    <3>3. loop'.size = loop.size - 1 /\ Len(loop'.str) = Len(loop.str) + 1
      BY <2>3, <2>4, <3>1
    <3>4. loop.size - 1 \in Nat /\ loop.size - 1 = AsInt(request.n) - (Len(loop.str) + 1)
      BY <3>2, <2>4, <2>5, <2>8
    <3> QED BY <3>3, <3>4
  <2> QED BY <2>7, <2>8
<1>2. CASE StrcatSource
  <2>1. /\ loop'.curr = request.dst /\ loop'.str = <<>> /\ srcs' = res /\ request' = request
        /\ request.fn = "strcat" /\ phase = "resolved"
    BY <1>2 DEF StrcatSource, Resolving, Idle
  <2>2. res # <<>> /\ request.dst \in Nat
    BY <2>1, RequestType DEF TInv, Phased
  <2> QED BY <2>1, <2>2 DEF AtPosition, From, Cut
<1>3. CASE StrcatDest
  <2>1. /\ srcs # <<>> /\ srcs' = Tail(srcs) /\ request' = request /\ request.fn = "strcat" /\ phase = "resolved"
    BY <1>3 DEF StrcatDest
  <2>2. IF Len(srcs) > 1 THEN Resolving(srcs[2].id, request.dst, MaxForksCat, Unlimited)
        ELSE phase' = "idle" /\ UNCHANGED <<loop, res>>
    BY <1>3 DEF StrcatDest
  <2>3. CASE Len(srcs) > 1
    <3>1. srcs' # <<>>
      <4>1. /\ Tail(srcs) \in Seq(Resolutions(used)) /\ Len(Tail(srcs)) = Len(srcs) - 1
            /\ Len(srcs) \in Nat \ {0}
        <5>1. srcs \in Seq(Resolutions(used))
          BY <1>0 DEF Types
        <5> HIDE DEF Resolutions
        <5> QED BY <2>1, <5>1
      <4> HIDE DEF Resolutions
      <4>2. Len(Tail(srcs)) > 0
        BY <2>3, <4>1
      <4>3. \A t \in Seq(Resolutions(used)) : Len(t) > 0 => t # <<>>
        OBVIOUS
      <4> QED BY ONLY <2>1, <4>1, <4>2, <4>3
    <3>2. loop'.curr = request.dst /\ loop'.str = <<>> /\ request.dst \in Nat
      BY <2>1, <2>2, <2>3, RequestType DEF TInv, Phased, Resolving, Idle
    <3> QED BY <2>1, <3>1, <3>2 DEF AtPosition, From, Cut
  <2>4. CASE ~(Len(srcs) > 1)
    BY <2>2, <2>4 DEF AtPosition
  <2> QED BY <2>3, <2>4
<1> QED BY <1>1, <1>2, <1>3

-----------------------------------------------------------------------------
(***************************************************************************)
(* Where a string ends, and what a resolution has read of it: without a    *)
(* timeout, bytes that are not zero.                                       *)
(***************************************************************************)
LEMMA LenInType ==
  ASSUME NEW m, NEW a \in Nat
  PROVE  /\ LenIn(m, a) \in 0..Width
         /\ LenIn(m, a) = Width \/ m[(a + LenIn(m, a)) % Width] = 0
         /\ \A j \in 0..LenIn(m, a) - 1 : m[(a + j) % Width] # 0
<1> DEFINE T == {k \in 0..Width : k = Width \/ m[(a + k) % Width] = 0}
<1>1. Width \in T /\ T \in SUBSET Nat
  BY ConstantsType
<1>2. PICK k \in T : \A j \in T : k <= j
  <2> HIDE DEF T
  <2> QED BY <1>1, LeastNumber
<1>3. \A j \in 0..k - 1 : m[(a + j) % Width] # 0
  <2> SUFFICES ASSUME NEW j \in 0..k - 1, m[(a + j) % Width] = 0
               PROVE  FALSE
    OBVIOUS
  <2>1. k \in 0..Width /\ j \in 0..Width /\ ~(k <= j)
    BY <1>2, ConstantsType
  <2>2. j \in T
    BY <2>1
  <2> HIDE DEF T
  <2> QED BY <2>1, <2>2, <1>2
<1>4. k \in 0..Width /\ (k = Width \/ m[(a + k) % Width] = 0) /\ \A j \in 0..k - 1 : m[(a + j) % Width] # 0
  BY <1>3
<1> HIDE DEF T
<1> QED BY <1>4 DEF LenIn

LEMMA LenInIs ==
  ASSUME NEW m, NEW a \in Nat, NEW n \in 0..Width - 1, m[(a + n) % Width] = 0,
         \A j \in 0..n - 1 : m[(a + j) % Width] # 0
  PROVE  LenIn(m, a) = n
<1>1. /\ LenIn(m, a) \in 0..Width
      /\ LenIn(m, a) = Width \/ m[(a + LenIn(m, a)) % Width] = 0
      /\ \A j \in 0..LenIn(m, a) - 1 : m[(a + j) % Width] # 0
  BY LenInType
<1>2. PICK l \in 0..Width : l = LenIn(m, a)
  BY <1>1
<1>3. CASE l < n
  <2>1. l \in 0..n - 1 /\ l # Width
    BY <1>3, ConstantsType
  <2> QED BY <2>1, <1>1, <1>2
<1>4. CASE l > n
  <2>1. n \in 0..l - 1
    BY <1>4, ConstantsType
  <2> QED BY <2>1, <1>1, <1>2
<1>5. l < n \/ l > n \/ l = n
  BY ConstantsType
<1> QED BY <1>2, <1>3, <1>4, <1>5

LEMMA LenInBeyond ==
  ASSUME NEW m, NEW a \in Nat, NEW n \in 0..Width, \A j \in 0..n - 1 : m[(a + j) % Width] # 0
  PROVE  LenIn(m, a) \in n..Width
<1>1. /\ LenIn(m, a) \in 0..Width
      /\ LenIn(m, a) = Width \/ m[(a + LenIn(m, a)) % Width] = 0
  BY LenInType
<1>2. PICK l \in 0..Width : l = LenIn(m, a)
  BY <1>1
<1>3. l < n => l \in 0..n - 1 /\ l # Width
  BY ConstantsType
<1>4. ~(l < n)
  BY <1>1, <1>2, <1>3
<1>5. l \in n..Width
  BY <1>4, ConstantsType
<1> QED BY <1>2, <1>5

\* The string under resolution, as the caller's memory has it for an input.
InBefore(i, j) == before.mem[(From + j) % Width][i]
EndOf(i)       == LenIn(MemOf(before, i), From)

LEMMA EndIs ==
  ASSUME TInv, phase \in {"resolve", "resolved"}, NEW i, NEW n \in 0..Width - 1, InBefore(i, n) = 0,
         \A j \in 0..n - 1 : InBefore(i, j) # 0
  PROVE  EndOf(i) = n
<1>1. From \in Nat
  BY FromType
<1>2. \A j \in Nat : MemOf(before, i)[(From + j) % Width] = InBefore(i, j)
  BY <1>1, InAddress DEF MemOf, InBefore
<1>3. \A j \in 0..n - 1 : j \in Nat
  BY ConstantsType
<1>4. n \in Nat
  BY ConstantsType
<1> HIDE DEF InBefore, MemOf
<1>5. PICK m : \E a \in Nat : m = MemOf(before, i) /\ a = From
  BY <1>1
<1>5a. PICK a \in Nat : m = MemOf(before, i) /\ a = From
  BY <1>5
<1>6. m[(a + n) % Width] = 0
  BY <1>2, <1>4, <1>5a
<1>7. \A j \in 0..n - 1 : m[(a + j) % Width] # 0
  BY <1>2, <1>3, <1>5a
<1>8. LenIn(m, a) = n
  BY ONLY <1>6, <1>7, LenInIs
<1> QED BY <1>5a, <1>8 DEF EndOf

LEMMA EndBeyond ==
  ASSUME TInv, phase \in {"resolve", "resolved"}, NEW i, NEW n \in 0..Width,
         \A j \in 0..n - 1 : InBefore(i, j) # 0
  PROVE  EndOf(i) \in n..Width
<1>1. From \in Nat
  BY FromType
<1>2. \A j \in Nat : MemOf(before, i)[(From + j) % Width] = InBefore(i, j)
  BY <1>1, InAddress DEF MemOf, InBefore
<1>3. \A j \in 0..n - 1 : j \in Nat
  BY ConstantsType
<1> HIDE DEF InBefore, MemOf
<1> QED BY <1>1, <1>2, <1>3, LenInBeyond DEF EndOf

Matches(str, i) == \A j \in 0..Len(str) - 1 : str[j + 1][i] = InBefore(i, j)
NoEnd(n, i)     == \A j \in 0..n - 1 : InBefore(i, j) # 0

Reads ==
  phase = "resolve" /\ ~z3.timeouts =>
    \A i \in heap[loop.id].pi : Matches(loop.str, i) /\ NoEnd(Len(loop.str), i)

\* What all these invariants say of the byte at hand.
LEMMA NextByte ==
  ASSUME TInv, Kept, AtPosition, phase = "resolve", NEW i \in heap[loop.id].pi
  PROVE  /\ B[i] = InBefore(i, Len(loop.str)) /\ i \in Input
         /\ Len(loop.str) \in Nat
<1>1. "loop" \in Kinds /\ 1 \in Nat /\ IsPlace("loop", 1) /\ IdAt("loop", 1) = loop.id
  BY DEF Kinds, IsPlace, IdAt
<1>2. Intact(loop.id)
  BY <1>1 DEF Kept
<1>3. loop.curr = From + Len(loop.str)
  BY DEF AtPosition
<1>4. /\ Types /\ loop.curr \in Nat /\ heap[loop.id] \in States
  BY ReadingType DEF TInv
<1>5. loop.str \in Strings
  BY <1>4 DEF Types, Loops
<1>6. B[i] = before.mem[loop.curr % Width][i]
  BY <1>2, <1>4, InAddress DEF B, At, Intact
<1>7. i \in Input /\ Len(loop.str) \in Nat
  BY <1>4, <1>5 DEF States, Strings
<1> QED BY <1>3, <1>6, <1>7 DEF InBefore

LEMMA StrBytes ==
  ASSUME TInv
  PROVE  /\ Len(Str) = Len(loop.str) + 1 /\ Len(loop.str) \in Nat
         /\ \A j \in 0..Len(loop.str) - 1 : Str[j + 1] = loop.str[j + 1]
         /\ Str[Len(loop.str) + 1] = B
<1>1. B \in Bytes /\ loop.str \in Strings
  BY ReadingType DEF TInv, Types, Loops
<1>2. /\ Len(Str) = Len(loop.str) + 1 /\ Len(loop.str) \in Nat
      /\ \A k \in 1..Len(loop.str) : Str[k] = loop.str[k]
      /\ Str[Len(loop.str) + 1] = B
  <2> HIDE DEF Bytes, B
  <2> QED BY <1>1 DEF Str, Strings
<1>3. \A j \in 0..Len(loop.str) - 1 : j + 1 \in 1..Len(loop.str)
  BY <1>2
<1> QED BY <1>2, <1>3

LEMMA ReadOn ==
  ASSUME TInv, Kept, AtPosition, Reads, phase = "resolve", ~z3.timeouts, NEW i \in heap[loop.id].pi
  PROVE  /\ Matches(Str, i)
         /\ B[i] # 0 => NoEnd(Len(Str), i)
         /\ B[i] = 0 /\ Len(loop.str) < Width => EndOf(i) = Len(loop.str)
         /\ B[i] # 0 /\ Len(loop.str) < Width => EndOf(i) > Len(loop.str) /\ EndOf(i) \in 0..Width
         /\ NoEnd(Len(loop.str), i)
<1> DEFINE n == Len(loop.str)
<1>1. B[i] = InBefore(i, n) /\ n \in Nat
  BY NextByte
<1>2. Matches(loop.str, i) /\ NoEnd(n, i)
  BY DEF Reads
<1>3. /\ Len(Str) = n + 1 /\ \A j \in 0..n - 1 : Str[j + 1] = loop.str[j + 1]
      /\ Str[n + 1] = B
  BY StrBytes
<1> HIDE DEF n, InBefore
<1>4. \A j \in 0..Len(Str) - 1 : j = n \/ j \in 0..n - 1
  BY <1>1, <1>3
<1>5. Matches(Str, i)
  BY <1>1, <1>2, <1>3, <1>4 DEF Matches, n
<1>6. ASSUME B[i] # 0
      PROVE  NoEnd(Len(Str), i)
  BY <1>1, <1>2, <1>4, <1>6 DEF NoEnd
<1>7. ASSUME B[i] = 0, n < Width
      PROVE  EndOf(i) = n
  <2>1. n \in 0..Width - 1
    BY <1>1, <1>7, ConstantsType
  <2> QED BY <1>1, <1>2, <1>7, <2>1, EndIs DEF NoEnd
<1>8. ASSUME B[i] # 0, n < Width
      PROVE  EndOf(i) > n /\ EndOf(i) \in 0..Width
  <2>1. n + 1 \in 0..Width
    BY <1>1, <1>8, ConstantsType
  <2>2. NoEnd(n + 1, i)
    BY <1>3, <1>6, <1>8
  <2>3. EndOf(i) \in n + 1..Width
    BY <2>1, <2>2, EndBeyond DEF NoEnd
  <2>4. PICK e : e = EndOf(i)
    OBVIOUS
  <2>5. e > n /\ e \in 0..Width
    BY <2>3, <2>4, <1>1, ConstantsType
  <2> QED BY <2>4, <2>5
<1> QED BY <1>2, <1>5, <1>6, <1>7, <1>8 DEF n

\* What Z3 says, as long as it answers, of a path that some input takes.
LEMMA VerdictsAre ==
  ASSUME ~z3.timeouts, NEW pi, pi # {}, NEW S
  PROVE  Verdicts(S, pi) = IF S = {} THEN {"UNSAT"} ELSE {"SAT"}
BY DEF Verdicts

\* A resolution that has read a byte that is not zero for any input goes on.
LEMMA GoingOnReads ==
  ASSUME TInv, Kept, AtPosition, Reads, phase = "resolve",
         before' = before, srcs' = srcs, request' = request, z3' = z3,
         loop'.str = Str, loop'.id = loop.id,
         heap'[loop.id].pi \subseteq heap[loop.id].pi,
         ~z3.timeouts => \A i \in heap'[loop.id].pi : B[i] # 0
  PROVE  Reads'
<1> SUFFICES ASSUME ~z3.timeouts, NEW i \in heap'[loop.id].pi
             PROVE  Matches(loop.str, i)' /\ NoEnd(Len(loop.str), i)'
  BY DEF Reads
<1>1. Matches(Str, i) /\ NoEnd(Len(Str), i)
  BY ReadOn
<1>2. From' = From
  BY DEF From
<1>3. \A j : InBefore(i, j)' = InBefore(i, j)
  BY <1>2 DEF InBefore
<1> HIDE DEF InBefore, Str
<1> QED BY <1>1, <1>3 DEF Matches, NoEnd

LEMMA ReadsNext ==
  ASSUME DInv, Kept, AtPosition, Reads, NotZero \/ ForkEnd
  PROVE  Reads'
<1>0. TInv /\ Types
  BY DEF DInv, TInv
<1>0a. /\ heap[loop.id] \in States /\ loop \in Loops(used) /\ heap \in [Id -> States] /\ loop.id \in Id
  BY <1>0, ReadingType DEF Types
<1>1. CASE NotZero
  <2>1. /\ phase = "resolve" /\ loop' = [loop EXCEPT !.curr = @ + 1, !.str = Str, !.size = OneLess(@)]
        /\ UNCHANGED <<z3, heap, used, request, before, res, srcs, out, phase>>
    BY <1>1 DEF NotZero, Reading, GoOn
  <2>2. loop'.str = Str /\ loop'.id = loop.id
    BY <2>1, <1>0a DEF Loops
  <2>3. ASSUME ~z3.timeouts, NEW i \in heap[loop.id].pi
        PROVE  B[i] # 0
    <3>1. i \in Input
      BY <1>0a DEF States
    <3>2. CASE \E v \in Byte \ {0} : TRUE \in FoldsTo(B, v)
      <4>1. PICK v \in Byte \ {0} : B = Const(v)
        BY <3>2 DEF FoldsTo
      <4> QED BY <3>1, <4>1 DEF Const
    <3>3. CASE Verdicts(Zero, heap[loop.id].pi) # {"SAT"}
      <4>1. Zero = {}
        <5> HIDE DEF Zero
        <5> QED BY <2>3, <3>3, VerdictsAre
      <4> QED BY <4>1, <2>3 DEF Zero
    <3> QED BY <1>1, <3>2, <3>3 DEF NotZero
  <2> QED BY <1>0, <2>1, <2>2, <2>3, GoingOnReads
<1>2. CASE ForkEnd
  <2>1. /\ phase = "resolve"
        /\ used' = used + 1 /\ used' \in Id
        /\ UNCHANGED <<z3, before, srcs, out, request>>
        /\ \/ /\ heap' = [heap EXCEPT ![used'] = Ending(heap[loop.id]), ![loop.id] = Longer(@)]
              /\ loop' = [loop EXCEPT !.curr = @ + 1, !.str = Str, !.size = OneLess(@),
                                     !.forks = @ - 1]
           \/ phase' = "resolved"
    BY <1>2 DEF ForkEnd, MayEnd, Reading, Resolved
  <2>2. CASE /\ heap' = [heap EXCEPT ![used'] = Ending(heap[loop.id]), ![loop.id] = Longer(@)]
             /\ loop' = [loop EXCEPT !.curr = @ + 1, !.str = Str, !.size = OneLess(@), !.forks = @ - 1]
    <3>1. loop'.str = Str /\ loop'.id = loop.id
      BY <2>2, <1>0a DEF Loops
    <3>2. loop.id # used'
      <4>1. used \in Nat /\ loop.id \in 1..used
        BY <1>0, <1>0a, SeqIndex, IdType DEF Types
      <4> QED BY <2>1, <4>1
    <3>3. heap'[loop.id] = Longer(heap[loop.id])
      BY <2>1, <2>2, <3>2, <1>0a
    <3>4. heap'[loop.id].pi = heap[loop.id].pi \ Zero
      BY <3>3, <1>0a, EndingParts
    <3>5. \A i \in heap'[loop.id].pi : B[i] # 0
      BY <3>4 DEF Zero
    <3> QED BY <1>0, <2>1, <3>1, <3>4, <3>5, GoingOnReads
  <2>3. CASE phase' = "resolved"
    BY <2>3 DEF Reads
  <2> QED BY <2>1, <2>2, <2>3
<1> QED BY <1>1, <1>2

\* A resolution that begins has read nothing.
LEMMA NothingRead ==
  ASSUME phase' = "resolve" => loop'.str = <<>>
  PROVE  Reads'
BY DEF Reads, Matches, NoEnd

-----------------------------------------------------------------------------
(***************************************************************************)
(* The forks spent are ends seen: of two inputs whose strings end at the   *)
(* same byte, one fork takes both.                                         *)
(***************************************************************************)
Budget == IF request.fn = "strcat" THEN MaxForksCat ELSE MaxForks
Limit  == IF Cut THEN AsInt(request.n) ELSE Width
EndAt(i) == IF EndOf(i) < Limit THEN EndOf(i) ELSE Limit
AllEnds  == {EndAt(i) : i \in before.pi}
Seen(n)  == {e \in AllEnds : e < n}

EndsSeen ==
  phase = "resolve" /\ ~z3.timeouts =>
    heap[loop.id].pi = {} \/ Cardinality(Seen(Len(loop.str))) >= Budget - loop.forks

LEMMA AllEndsAre == Ends(From, Limit) = AllEnds
BY DEF Ends, AllEnds, EndAt, EndOf

LEMMA EndsFinite ==
  ASSUME TInv, phase \in {"resolve", "resolved"}
  PROVE  /\ AllEnds \subseteq 0..Width /\ IsFiniteSet(AllEnds) /\ Limit \in 0..Width
         /\ \A n : IsFiniteSet(Seen(n)) /\ Cardinality(Seen(n)) \in Nat /\ Seen(n) \subseteq AllEnds
<1>1. request \in Request /\ From \in Nat
  BY FromType
<1>2. Limit \in 0..Width
  BY <1>1, RequestType, ConstantsType, AsIntType DEF Limit, Cut
<1>3. \A i : EndOf(i) \in 0..Width
  BY <1>1, LenInType DEF EndOf
<1>4. AllEnds \subseteq 0..Width
  BY <1>2, <1>3 DEF AllEnds, EndAt
<1>5. IsFiniteSet(0..Width)
  BY ConstantsType, FS_Interval
<1>6. IsFiniteSet(AllEnds)
  BY <1>4, <1>5, FS_Subset
<1>7. \A n : Seen(n) \subseteq AllEnds
  BY DEF Seen
<1>8. ASSUME NEW n
      PROVE  IsFiniteSet(Seen(n)) /\ Cardinality(Seen(n)) \in Nat
  BY <1>6, <1>7, FS_Subset, FS_CardinalityType
<1> QED BY <1>2, <1>4, <1>6, <1>7, <1>8

\* Where the string ends for the inputs at hand.
LEMMA EndsHere ==
  ASSUME DInv, Kept, AtPosition, Reads, Reading, ~z3.timeouts, NEW i \in heap[loop.id].pi
  PROVE  /\ i \in before.pi /\ EndAt(i) \in AllEnds
         /\ B[i] = 0 => EndAt(i) = Len(loop.str)
         /\ B[i] # 0 => EndAt(i) > Len(loop.str)
<1>0. TInv /\ Types /\ Divided /\ phase = "resolve"
  BY DEF DInv, TInv, Reading
<1>1. i \in before.pi
  <2>1. "loop" \in Kinds /\ 1 \in Nat /\ IsPlace("loop", 1) /\ IdAt("loop", 1) = loop.id
    BY <1>0 DEF Kinds, IsPlace, IdAt
  <2> QED BY <1>0, <2>1 DEF Divided
<1>2. Len(loop.str) \in Nat /\ Len(loop.str) < Width
  <2>1. Len(loop.str) \in Nat /\ Len(loop.str) <= Width /\ Len(loop.str) # Width
    BY <1>0, StrBytes DEF Types, Reading, TooLong
  <2> QED BY <2>1, ConstantsType
<1>3. Len(loop.str) < Limit /\ Limit \in 0..Width
  <2>1. CASE Cut
    <3>1. loop.size \in Nat /\ loop.size # 0 /\ loop.size = AsInt(request.n) - Len(loop.str)
      BY <1>0, <2>1 DEF AtPosition, Reading
    <3>2. AsInt(request.n) \in Nat
      BY <1>0, <2>1, FromType, RequestType, AsIntType DEF Cut
    <3> QED BY <1>0, <1>2, <2>1, <3>1, <3>2, EndsFinite DEF Limit
  <2>2. CASE ~Cut
    BY <1>2, <2>2, ConstantsType DEF Limit
  <2> QED BY <2>1, <2>2
<1>4. /\ B[i] = 0 => EndOf(i) = Len(loop.str)
      /\ B[i] # 0 => EndOf(i) > Len(loop.str) /\ EndOf(i) \in 0..Width
  BY <1>0, <1>2, ReadOn
<1>5. EndAt(i) \in AllEnds
  BY <1>1 DEF AllEnds
<1>6. ASSUME B[i] = 0
      PROVE  EndAt(i) = Len(loop.str)
  BY <1>3, <1>4, <1>6 DEF EndAt
<1>7. ASSUME B[i] # 0
      PROVE  EndAt(i) > Len(loop.str)
  BY <1>3, <1>4, <1>7 DEF EndAt
<1> QED BY <1>1, <1>5, <1>6, <1>7

LEMMA SeenMore ==
  ASSUME DInv, Kept, AtPosition, Reads, Reading, ~z3.timeouts
  PROVE  /\ Cardinality(Seen(Len(loop.str) + 1)) >= Cardinality(Seen(Len(loop.str)))
         /\ Zero # {} => Cardinality(Seen(Len(loop.str) + 1)) >= Cardinality(Seen(Len(loop.str))) + 1
<1> DEFINE n == Len(loop.str)
<1>0. TInv /\ phase = "resolve"
  BY DEF DInv, Reading
<1>1. n \in Nat
  BY <1>0, StrBytes
<1>2. /\ IsFiniteSet(Seen(n)) /\ Cardinality(Seen(n)) \in Nat
      /\ IsFiniteSet(Seen(n + 1)) /\ Cardinality(Seen(n + 1)) \in Nat
      /\ AllEnds \subseteq 0..Width
  BY <1>0, EndsFinite
<1>3. Seen(n) \subseteq Seen(n + 1)
  <2>1. \A e \in AllEnds : e \in Int
    BY <1>2, ConstantsType
  <2>2. \A e \in Int : e < n => e < n + 1
    BY <1>1
  <2> QED BY <2>1, <2>2 DEF Seen
<1>4. Cardinality(Seen(n)) <= Cardinality(Seen(n + 1))
  BY <1>2, <1>3, FS_Subset
<1>5. ASSUME Zero # {}
      PROVE  Cardinality(Seen(n + 1)) >= Cardinality(Seen(n)) + 1
  <2>1. PICK i \in heap[loop.id].pi : B[i] = 0
    BY <1>5 DEF Zero
  <2>2. n \in AllEnds
    BY <2>1, EndsHere
  <2>3. n \notin Seen(n) /\ n \in Seen(n + 1)
    BY <1>1, <2>2 DEF Seen
  <2> HIDE DEF n
  <2>4. Seen(n) \cup {n} \subseteq Seen(n + 1)
    BY <1>3, <2>3
  <2>5. IsFiniteSet(Seen(n) \cup {n}) /\ Cardinality(Seen(n) \cup {n}) = Cardinality(Seen(n)) + 1
    BY <1>2, <2>3, FS_AddElement
  <2>6. Cardinality(Seen(n) \cup {n}) <= Cardinality(Seen(n + 1))
    BY <1>2, <2>4, FS_Subset
  <2> QED BY <1>2, <2>5, <2>6
<1> QED BY <1>2, <1>4, <1>5

LEMMA EndsSeenNext ==
  ASSUME DInv, Kept, AtPosition, Reads, EndsSeen, NotZero \/ ForkEnd
  PROVE  EndsSeen'
<1>0. TInv /\ Types
  BY DEF DInv, TInv
<1>0a. /\ heap[loop.id] \in States /\ loop \in Loops(used) /\ heap \in [Id -> States] /\ loop.id \in Id
       /\ loop.forks \in Int
  <2>1. /\ heap[loop.id] \in States /\ loop \in Loops(used) /\ heap \in [Id -> States] /\ loop.id \in Id
    BY <1>0, ReadingType DEF Types
  <2>2. loop.forks \in Int
    BY <2>1, ConstantsType DEF Loops
  <2> QED BY <2>1, <2>2
<1>0b. Reading
  BY DEF NotZero, ForkEnd, MayEnd
<1>0c. Budget \in Int
  BY ConstantsType DEF Budget
<1>0d. /\ Cardinality(Seen(Len(loop.str))) \in Nat /\ Cardinality(Seen(Len(loop.str) + 1)) \in Nat
  BY <1>0, <1>0b, EndsFinite DEF Reading
<1>1. SUFFICES ASSUME phase' = "resolve", ~z3.timeouts, heap'[loop'.id].pi # {}
               PROVE  Cardinality(Seen(Len(loop.str)))' >= Budget' - loop'.forks
  <2>1. z3' = z3
    BY DEF NotZero, ForkEnd
  <2> QED BY <2>1 DEF EndsSeen
<1>2. /\ phase = "resolve" /\ UNCHANGED <<before, request, srcs, phase>>
      /\ heap'[loop.id].pi \subseteq heap[loop.id].pi
      /\ loop'.str = Str /\ loop'.id = loop.id
      /\ loop'.forks = loop.forks \/ (Zero # {} /\ loop'.forks = loop.forks - 1) \/ heap[loop.id].pi = {}
  <2>1. CASE NotZero
    BY <2>1, <1>0a DEF NotZero, Reading, GoOn, Loops
  <2>2. CASE ForkEnd
    <3>1. /\ phase = "resolve"
          /\ used' = used + 1 /\ used' \in Id
          /\ UNCHANGED <<before, srcs, request, phase>>
          /\ heap' = [heap EXCEPT ![used'] = Ending(heap[loop.id]), ![loop.id] = Longer(@)]
          /\ loop' = [loop EXCEPT !.curr = @ + 1, !.str = Str, !.size = OneLess(@), !.forks = @ - 1]
          /\ "SAT" \in Verdicts(Zero, heap[loop.id].pi)
      BY <1>1, <2>2 DEF ForkEnd, MayEnd, Reading, Resolved
    <3>2. loop'.str = Str /\ loop'.id = loop.id /\ loop'.forks = loop.forks - 1
      BY <3>1, <1>0a DEF Loops
    <3>3. heap'[loop.id].pi \subseteq heap[loop.id].pi
      <4>1. loop.id # used'
        <5>1. used \in Nat /\ loop.id \in 1..used
          BY <1>0, <1>0a, SeqIndex, IdType DEF Types
        <5> QED BY <3>1, <5>1
      <4>2. heap'[loop.id] = Longer(heap[loop.id])
        BY <3>1, <4>1, <1>0a
      <4> QED BY <4>2, <1>0a, EndingParts
    <3>4. heap[loop.id].pi = {} \/ Zero # {}
      <4> HIDE DEF Zero
      <4> QED BY <1>1, <3>1, VerdictsAre
    <3> QED BY <3>1, <3>2, <3>3, <3>4
  <2> QED BY <2>1, <2>2
<1>3. heap[loop.id].pi # {}
  BY <1>1, <1>2
<1>4. Cardinality(Seen(Len(loop.str))) >= Budget - loop.forks
  BY <1>1, <1>2, <1>3 DEF EndsSeen
<1>5. /\ Cardinality(Seen(Len(loop.str) + 1)) >= Cardinality(Seen(Len(loop.str)))
      /\ Zero # {} => Cardinality(Seen(Len(loop.str) + 1)) >= Cardinality(Seen(Len(loop.str))) + 1
  BY <1>0b, <1>1, SeenMore
<1>6. loop'.forks \in Int /\ Cardinality(Seen(Len(loop.str) + 1)) >= Budget - loop'.forks
  <2>1. CASE loop'.forks = loop.forks
    BY <2>1, <1>0a, <1>0c, <1>0d, <1>4, <1>5
  <2>2. CASE Zero # {} /\ loop'.forks = loop.forks - 1
    BY <2>2, <1>0a, <1>0c, <1>0d, <1>4, <1>5
  <2> QED BY <1>2, <1>3, <2>1, <2>2
<1>7. Budget' = Budget /\ AllEnds' = AllEnds
  BY <1>2 DEF Budget, AllEnds, EndAt, EndOf, Limit, Cut, From
<1>8. Len(loop'.str) = Len(loop.str) + 1
  BY <1>0, <1>2, StrBytes
<1>9. Seen(Len(loop.str))' = Seen(Len(loop.str) + 1)
  BY <1>7, <1>8 DEF Seen
<1> HIDE DEF Seen
<1> QED BY <1>6, <1>7, <1>9

SomeSeen == TInv /\ phase = "resolve" => Cardinality(Seen(Len(loop.str))) \in Nat

LEMMA SeenCounts == SomeSeen
BY EndsFinite DEF SomeSeen

\* A resolution that begins has all its forks.
LEMMA NoEndSeen ==
  ASSUME TInv', phase' = "resolve" => loop'.forks = Budget'
  PROVE  EndsSeen'
<1>1. SUFFICES ASSUME phase' = "resolve"
               PROVE  Cardinality(Seen(Len(loop.str)))' >= Budget' - loop'.forks
  BY DEF EndsSeen
<1>2. SomeSeen'
  BY SeenCounts, PTL
<1>3. (Cardinality(Seen(Len(loop.str))) \in Nat)'
  BY <1>1, <1>2 DEF SomeSeen
<1>4. Budget' \in Int /\ loop'.forks = Budget'
  BY <1>1, ConstantsType DEF Budget
<1> HIDE DEF Seen, Budget
<1> QED BY <1>1, <1>3, <1>4

\* With no fork left, FewEnds leaves no end but this one.
LEMMA NoneLonger ==
  ASSUME DInv, Kept, AtPosition, Reads, EndsSeen, FewEnds, LastEnd, ~z3.timeouts,
         NEW i \in heap[loop.id].pi
  PROVE  B[i] = 0
<1>0. TInv /\ Types /\ phase = "resolve" /\ Reading
  BY DEF DInv, TInv, LastEnd, MayEnd, Reading
<1> SUFFICES ASSUME B[i] # 0
             PROVE  FALSE
  OBVIOUS
<1> DEFINE n == Len(loop.str)
<1>1. /\ n \in Nat /\ AllEnds \subseteq 0..Width /\ IsFiniteSet(AllEnds)
      /\ IsFiniteSet(Seen(n)) /\ Cardinality(Seen(n)) \in Nat /\ Seen(n) \subseteq AllEnds
  BY <1>0, StrBytes, EndsFinite
<1>2. PICK z \in heap[loop.id].pi : B[z] = 0
  <2>1. "SAT" \in Verdicts(Zero, heap[loop.id].pi)
    BY DEF LastEnd, MayEnd
  <2>2. Zero # {}
    <3> HIDE DEF Zero
    <3> QED BY <2>1, VerdictsAre
  <2> QED BY <2>2 DEF Zero
<1>3. n \in AllEnds
  BY <1>0, <1>2, EndsHere
<1>4. PICK e \in AllEnds : e > n
  BY <1>0, EndsHere
<1>5. e \in Nat
  BY <1>1, ConstantsType
<1>6. Cardinality(Seen(n)) >= Budget
  <2>1. loop.forks = 0
    <3>1. loop.forks \in 0..MaxForks \cup 0..MaxForksCat /\ loop.forks <= 0
      BY <1>0 DEF Types, Loops, LastEnd, NoForkLeft
    <3> QED BY <3>1, ConstantsType
  <2>2. Cardinality(Seen(n)) >= Budget - 0
    BY <1>0, <2>1 DEF EndsSeen
  <2>3. Budget \in Int
    BY ConstantsType DEF Budget
  <2> QED BY <2>2, <2>3
<1>7. Cardinality(AllEnds) <= Budget + 1
  <2>1. Cardinality(Ends(From, Limit)) <= Budget + 1
    <3>1. request.fn \in {"strlen", "strcpy", "strncpy", "strcat"} /\ (srcs # <<>> => request.fn = "strcat")
      BY <1>0 DEF TInv, Phased
    <3> QED BY <3>1 DEF FewEnds, MostBytes, From, Limit, Cut, Budget
  <2> QED BY <2>1, AllEndsAre
<1> HIDE DEF n
<1>8. n \notin Seen(n) /\ e \notin Seen(n) \cup {n}
  BY <1>1, <1>4, <1>5 DEF Seen
<1>9. /\ IsFiniteSet(Seen(n) \cup {n}) /\ Cardinality(Seen(n) \cup {n}) = Cardinality(Seen(n)) + 1
  BY <1>1, <1>8, FS_AddElement
<1>10. /\ IsFiniteSet((Seen(n) \cup {n}) \cup {e})
       /\ Cardinality((Seen(n) \cup {n}) \cup {e}) = Cardinality(Seen(n)) + 2
  <2>1. Cardinality((Seen(n) \cup {n}) \cup {e}) = Cardinality(Seen(n) \cup {n}) + 1
        /\ IsFiniteSet((Seen(n) \cup {n}) \cup {e})
    BY <1>8, <1>9, FS_AddElement
  <2> QED BY <2>1, <1>1, <1>9
<1>11. Cardinality((Seen(n) \cup {n}) \cup {e}) <= Cardinality(AllEnds)
  <2>1. (Seen(n) \cup {n}) \cup {e} \subseteq AllEnds
    BY <1>1, <1>3
  <2> QED BY <1>1, <2>1, FS_Subset
<1>12. Budget \in Int /\ Cardinality(AllEnds) \in Nat
  BY <1>1, ConstantsType, FS_CardinalityType DEF Budget
<1> QED BY <1>1, <1>6, <1>7, <1>10, <1>11, <1>12

-----------------------------------------------------------------------------
(***************************************************************************)
(* Every input of the caller's path is in one of the call's states.        *)
(***************************************************************************)
Somewhere(i) == \E a \in Kinds, k \in Nat : IsPlace(a, k) /\ i \in heap[IdAt(a, k)].pi

Covered == ~z3.timeouts /\ FewEnds /\ phase # "failed" => \A i \in before.pi : Somewhere(i)

\* A step that forks no state: where the states go.
LEMMA AllStay ==
  ASSUME Covered, z3' = z3, before' = before, request' = request, phase # "failed",
         \A a \in Kinds, k \in Nat : IsPlace(a, k) =>
           \E b \in Kinds, l \in Nat : IsPlace(b, l)' /\ IdAt(b, l)' = IdAt(a, k) /\ heap'[IdAt(a, k)].pi = heap[IdAt(a, k)].pi
  PROVE  Covered'
<1> SUFFICES ASSUME ~z3.timeouts, FewEnds, NEW i \in before.pi
             PROVE  Somewhere(i)'
  <2>1. FewEnds' <=> FewEnds
    BY DEF FewEnds, Ends
  <2> QED BY <2>1 DEF Covered
<1>1. PICK a \in Kinds, k \in Nat : IsPlace(a, k) /\ i \in heap[IdAt(a, k)].pi
  BY DEF Covered, Somewhere
<1> HIDE DEF IsPlace, IdAt
<1> QED BY <1>1 DEF Somewhere

LEMMA EndCovered ==
  ASSUME DInv, Kept, AtPosition, Reads, EndsSeen, Covered, EndOfString \/ LastEnd
  PROVE  Covered'
<1>0. TInv /\ Types
  BY DEF DInv, TInv
<1>1. PICK str : res' = Append(res, Result(loop.id, str)) /\ str \in Strings
  BY <1>0, ReadingType DEF Types, Loops, EndOfString, LastEnd, Resolved
<1>2. /\ phase = "resolve" /\ phase' = "resolved" /\ loop' = loop
      /\ UNCHANGED <<z3, used, before, srcs, out, request>>
      /\ heap' = heap \/ (LastEnd /\ heap' = [heap EXCEPT ![loop.id] = Ending(@)])
  BY DEF EndOfString, LastEnd, MayEnd, Reading, Resolved
<1>3. /\ Len(res) \in Nat /\ DOMAIN res' = 1..Len(res) + 1 /\ DOMAIN res = 1..Len(res)
      /\ \A k \in DOMAIN res : res'[k] = res[k]
      /\ res'[Len(res) + 1].id = loop.id
  <2>1. used \in Id /\ loop.id \in 1..used
    BY <1>0, SeqIndex
  <2>2. used <= used
    BY <2>1, IdType
  <2> QED BY <1>0, <2>1, <2>2, <1>1, AppendResult
<1>4. /\ loop.id \in Id /\ heap \in [Id -> States] /\ heap[loop.id] \in States
  BY <1>0, SeqIndex
<1>5. FewEnds' <=> FewEnds
  BY <1>2 DEF FewEnds, Ends
<1> SUFFICES ASSUME ~z3.timeouts, FewEnds, NEW i \in before.pi
             PROVE  Somewhere(i)'
  BY <1>2, <1>5 DEF Covered
<1>6. PICK a \in Kinds, k \in Nat : IsPlace(a, k) /\ i \in heap[IdAt(a, k)].pi
  BY <1>2 DEF Covered, Somewhere
<1>7. IdAt(a, k) \in Id
  BY <1>0, <1>6, PlaceIdsType DEF PlacesAreMade
<1>8. i \in heap'[IdAt(a, k)].pi
  <2>1. CASE heap' = heap
    BY <2>1, <1>6
  <2>2. CASE LastEnd /\ heap' = [heap EXCEPT ![loop.id] = Ending(@)] /\ IdAt(a, k) = loop.id
    <3>1. B[i] = 0
      BY <2>2, <1>6, NoneLonger
    <3>2. i \in Zero
      BY <3>1, <2>2, <1>6 DEF Zero
    <3>3. heap'[loop.id] = Ending(heap[loop.id])
      BY <2>2, <1>4
    <3>4. heap'[loop.id].pi = Zero
      BY <3>3, <1>4, EndingParts
    <3> HIDE DEF IdAt, Zero
    <3> QED BY <3>2, <3>4, <2>2
  <2>3. CASE heap' = [heap EXCEPT ![loop.id] = Ending(@)] /\ IdAt(a, k) # loop.id
    <3> HIDE DEF IdAt
    <3> QED BY <2>3, <1>4, <1>6, <1>7
  <2> QED BY <1>2, <2>1, <2>2, <2>3
<1>9. \E b \in Kinds, l \in Nat : IsPlace(b, l)' /\ IdAt(b, l)' = IdAt(a, k)
  <2>1. CASE a = "loop"
    <3>1. PICK l \in Nat : l = Len(res) + 1
      BY <1>3
    <3>2. IsPlace("res", l)' /\ IdAt("res", l)' = IdAt(a, k) /\ "res" \in Kinds
      BY <2>1, <3>1, <1>2, <1>3 DEF IsPlace, IdAt, Kinds
    <3> QED BY <3>2
  <2>2. CASE a # "loop"
    <3>1. IsPlace(a, k)' /\ IdAt(a, k)' = IdAt(a, k)
      BY <2>2, <1>2, <1>3, <1>6 DEF IsPlace, IdAt, Kinds
    <3> QED BY <3>1
  <2> QED BY <2>1, <2>2
<1> HIDE DEF IsPlace, IdAt
<1> QED BY <1>8, <1>9 DEF Somewhere

LEMMA ForkCovered ==
  ASSUME DInv, Covered, ForkEnd
  PROVE  Covered'
<1>0. TInv /\ Types
  BY DEF DInv, TInv
<1>1. /\ phase = "resolve"
      /\ used' = used + 1 /\ used' \in Id
      /\ UNCHANGED <<z3, before, srcs, out, request>>
      /\ res' = Append(res, Result(used', Str))
      /\ \/ /\ heap' = [heap EXCEPT ![used'] = Ending(heap[loop.id]), ![loop.id] = Longer(@)]
            /\ loop' = [loop EXCEPT !.curr = @ + 1, !.str = Str, !.size = OneLess(@),
                                   !.forks = @ - 1]
            /\ phase' = phase
         \/ /\ heap' = [heap EXCEPT ![used'] = Ending(heap[loop.id])]
            /\ phase' = "resolved" /\ loop' = loop
            /\ Verdicts(heap[loop.id].pi \ Zero, heap[loop.id].pi) # {"SAT"}
  BY DEF ForkEnd, MayEnd, Reading, Resolved
<1>2. /\ used \in Id /\ loop.id \in 1..used /\ loop.id \in Id /\ heap \in [Id -> States]
      /\ heap[loop.id] \in States
  BY <1>0, SeqIndex
<1>2a. used \in Nat /\ Str \in Strings /\ loop \in Loops(used)
  BY <1>0, <1>2, IdType, ReadingType DEF Types
<1>3. /\ Len(res) \in Nat /\ DOMAIN res' = 1..Len(res) + 1 /\ DOMAIN res = 1..Len(res)
      /\ \A k \in DOMAIN res : res'[k] = res[k]
      /\ res'[Len(res) + 1].id = used'
  <2>1. used <= used' /\ used' \in 1..used'
    BY <1>1, <1>2a
  <2> QED BY <1>0, <1>1, <1>2a, <2>1, AppendResult
<1>4. loop'.id = loop.id
  BY <1>1, <1>2a DEF Loops
<1>5. \A x \in 1..used : x # used'
  BY <1>1, <1>2a
<1>6. heap'[used'].pi = Zero
  <2>1. heap'[used'] = Ending(heap[loop.id])
    BY <1>1, <1>2, <1>5
  <2> QED BY <2>1, <1>2, EndingParts
<1>7. FewEnds' <=> FewEnds
  BY <1>1 DEF FewEnds, Ends
<1> SUFFICES ASSUME ~z3.timeouts, FewEnds, NEW i \in before.pi
             PROVE  Somewhere(i)'
  BY <1>1, <1>7 DEF Covered
<1>8. PICK a \in Kinds, k \in Nat : IsPlace(a, k) /\ i \in heap[IdAt(a, k)].pi
  BY <1>1 DEF Covered, Somewhere
<1>9. IdAt(a, k) \in 1..used /\ IdAt(a, k) \in Id
  BY <1>0, <1>8, PlaceIdsType DEF PlacesAreMade
<1>10. CASE IdAt(a, k) = loop.id /\ i \in Zero
  <2>1. PICK l \in Nat : l = Len(res) + 1
    BY <1>3
  <2>2. IsPlace("res", l)' /\ IdAt("res", l)' = used' /\ "res" \in Kinds
    BY <2>1, <1>1, <1>3 DEF IsPlace, IdAt, Kinds
  <2> HIDE DEF IsPlace, IdAt
  <2> QED BY <2>2, <1>6, <1>10 DEF Somewhere
<1>11. CASE IdAt(a, k) # loop.id
  <2>1. a # "loop"
    BY <1>11 DEF IdAt
  <2>2. IsPlace(a, k)' /\ IdAt(a, k)' = IdAt(a, k)
    BY <2>1, <1>1, <1>3, <1>8 DEF IsPlace, IdAt, Kinds
  <2> HIDE DEF IsPlace, IdAt
  <2>3. heap'[IdAt(a, k)] = heap[IdAt(a, k)]
    BY <1>1, <1>2, <1>5, <1>9, <1>11
  <2> QED BY <2>2, <2>3, <1>8 DEF Somewhere
<1>12. CASE IdAt(a, k) = loop.id /\ i \notin Zero
  <2>0. i \in heap[loop.id].pi \ Zero
    BY <1>8, <1>12
  <2>1. Verdicts(heap[loop.id].pi \ Zero, heap[loop.id].pi) = {"SAT"}
    <3> HIDE DEF Zero
    <3> QED BY <2>0, VerdictsAre
  <2>2. /\ heap' = [heap EXCEPT ![used'] = Ending(heap[loop.id]), ![loop.id] = Longer(@)]
        /\ phase' = "resolve"
    BY <2>1, <1>1
  <2>3. heap'[loop.id] = Longer(heap[loop.id])
    BY <2>2, <1>2, <1>5
  <2>4. i \in heap'[loop.id].pi
    BY <2>0, <2>3, <1>2, EndingParts
  <2>5. IsPlace("loop", 1)' /\ IdAt("loop", 1)' = loop.id /\ "loop" \in Kinds /\ 1 \in Nat
    BY <2>2, <1>4 DEF IsPlace, IdAt, Kinds
  <2> HIDE DEF IsPlace, IdAt
  <2> QED BY <2>4, <2>5 DEF Somewhere
<1> QED BY <1>10, <1>11, <1>12

LEMMA BeginCovered ==
  ASSUME DInv, DInv', Begin
  PROVE  Covered' /\ Reads' /\ EndsSeen'
<1>1. PICK k \in DOMAIN out, r \in Request :
        /\ request' = r /\ before' = heap[out[k]]
        /\ heap' = [id \in Id |->
             IF r.fn \in {"strcpy", "strncpy", "strcat"}
             THEN [before' EXCEPT !.rax = Const(r.dst)] ELSE before']
        /\ CASE r.fn \in {"strlen", "strcpy"} -> Resolving(1, r.src, MaxForks, Unlimited)
             [] r.fn = "strncpy" -> Resolving(1, r.src, MaxForks, AsInt(r.n))
             [] r.fn = "strcat" -> Resolving(1, r.src, MaxForksCat, Unlimited)
             [] OTHER -> /\ loop' = [Idle EXCEPT !.same = Input]
                         /\ res' = <<>>
                         /\ phase' = r.fn
  BY DEF Begin
<1>2. /\ loop'.id = 1 /\ loop'.str = <<>> /\ (phase' = "resolve" => loop'.forks = Budget')
      /\ phase' \in {"resolve", "strcmp", "memcmp"}
  <2>1. CASE r.fn \in {"strlen", "strcpy", "strncpy"}
    <3>1. \E n : Resolving(1, r.src, MaxForks, n)
      BY <1>1, <2>1
    <3> QED BY <1>1, <2>1, <3>1 DEF Resolving, Idle, Budget
  <2>2. CASE r.fn = "strcat"
    <3>1. \E n : Resolving(1, r.src, MaxForksCat, n)
      BY <1>1, <2>2
    <3> QED BY <1>1, <2>2, <3>1 DEF Resolving, Idle, Budget
  <2>3. CASE r.fn \in {"strcmp", "memcmp"}
    <3>1. loop' = [Idle EXCEPT !.same = Input] /\ phase' = r.fn
      BY <1>1, <2>3
    <3> QED BY <2>3, <3>1 DEF Idle
  <2> QED BY <2>1, <2>2, <2>3, RequestType DEF Function
<1>3. heap'[1].pi = before'.pi
  <2>1. before' \in States /\ 1 \in Id
    BY IdType DEF DInv, TInv, Types
  <2>2. heap'[1] = IF r.fn \in {"strcpy", "strncpy", "strcat"} THEN [before' EXCEPT !.rax = Const(r.dst)] ELSE before'
    BY <1>1, <2>1
  <2> QED BY <2>1, <2>2 DEF States
<1>4. IsPlace("loop", 1)' /\ IdAt("loop", 1)' = 1 /\ "loop" \in Kinds /\ 1 \in Nat
  BY <1>2 DEF IsPlace, IdAt, Kinds
<1>5. Covered'
  <2> HIDE DEF IsPlace, IdAt
  <2> QED BY <1>3, <1>4 DEF Covered, Somewhere
<1>6. Reads'
  BY <1>2, NothingRead
<1>7. EndsSeen'
  BY <1>2, NoEndSeen DEF DInv
<1> QED BY <1>5, <1>6, <1>7

LEMMA ReturnCovered ==
  ASSUME DInv, Covered, Strlen \/ Strcpy
  PROVE  Covered'
<1>0. TInv
  BY DEF DInv
<1>1. /\ phase = "resolved" /\ phase' = "idle" /\ out' = Ids(res) /\ UNCHANGED <<z3, before, request>>
      /\ request.fn # "strcat"
  BY DEF Strlen, Strcpy, ReturnAll
<1>2. srcs = <<>> /\ out = <<>>
  BY <1>0, <1>1 DEF TInv, Phased
<1>3. ASSUME NEW id \in Id
      PROVE  heap'[id].pi = heap[id].pi
  <2>1. PICK str : heap'[id] \in {heap[id], Length(heap[id], str), Copied(heap[id], str)}
    BY DEF Strlen, Strcpy, ReturnAll
  <2>2. heap[id] \in States
    BY <1>0, SeqIndex
  <2>3. Length(heap[id], str).pi = heap[id].pi /\ Copied(heap[id], str).pi = heap[id].pi
    BY <2>2 DEF Length, Copied, States
  <2> QED BY <2>1, <2>3
<1>4. ASSUME NEW a \in Kinds, NEW k \in Nat, IsPlace(a, k)
      PROVE  IsPlace("out", k)' /\ IdAt("out", k)' = IdAt(a, k)
  BY <1>0, <1>1, <1>2, <1>4, SeqIndex DEF IsPlace, IdAt, Kinds, Ids
<1>5. \A a \in Kinds, k \in Nat : IsPlace(a, k) => IdAt(a, k) \in Id
  BY <1>0, PlaceIdsType DEF PlacesAreMade
<1>6. "out" \in Kinds
  BY DEF Kinds
<1> HIDE DEF IsPlace, IdAt
<1> QED BY <1>1, <1>3, <1>4, <1>5, <1>6, AllStay

LEMMA StrcatCovered ==
  ASSUME DInv, DInv', Covered, StrcatSource \/ StrcatDest
  PROVE  Covered' /\ Reads' /\ EndsSeen'
<1>0. TInv /\ Types
  BY DEF DInv, TInv
<1>1. CASE StrcatSource
  <2>1. /\ phase = "resolved" /\ phase' = "resolve" /\ srcs = <<>> /\ srcs' = res /\ res' = <<>>
        /\ loop'.id = res[1].id /\ loop'.str = <<>> /\ loop'.forks = MaxForksCat
        /\ request.fn = "strcat" /\ UNCHANGED <<z3, before, out, heap, request>>
    BY <1>1 DEF StrcatSource, Resolving, Idle
  <2>2. out = <<>>
    BY <1>0, <2>1 DEF TInv, Phased
  <2>3. ASSUME NEW a \in Kinds, NEW k \in Nat, IsPlace(a, k)
        PROVE  \E b \in Kinds, l \in Nat : IsPlace(b, l)' /\ IdAt(b, l)' = IdAt(a, k)
    <3>1. a = "res" /\ k \in DOMAIN res
      BY <2>1, <2>2, <2>3 DEF IsPlace, Kinds
    <3>2. CASE k = 1
      <4>1. IsPlace("loop", 1)' /\ IdAt("loop", 1)' = IdAt(a, k) /\ "loop" \in Kinds
        BY <2>1, <3>1, <3>2 DEF IsPlace, IdAt, Kinds
      <4> QED BY <4>1
    <3>3. CASE k # 1
      <4>1. IsPlace("src", k)' /\ IdAt("src", k)' = IdAt(a, k) /\ "src" \in Kinds
        BY <2>1, <3>1, <3>3 DEF IsPlace, IdAt, Kinds
      <4> QED BY <4>1
    <3> QED BY <3>2, <3>3
  <2>4. Covered'
    <3> HIDE DEF IsPlace, IdAt
    <3> QED BY <2>1, <2>3, AllStay
  <2>5. EndsSeen'
    BY <2>1, NoEndSeen DEF DInv, Budget
  <2> QED BY <2>1, <2>4, <2>5, NothingRead
<1>2. CASE StrcatDest
  <2>1. /\ phase = "resolved" /\ srcs # <<>> /\ out' = out \o Ids(res) /\ srcs' = Tail(srcs)
        /\ UNCHANGED <<z3, before, request>> /\ request.fn = "strcat"
        /\ heap' = [heap EXCEPT ![srcs[1].id].mem = Catenated(@, srcs[1].str)]
    BY <1>2 DEF StrcatDest, Catenated
  <2>2. IF Len(srcs) > 1 THEN Resolving(srcs[2].id, request.dst, MaxForksCat, Unlimited)
        ELSE phase' = "idle" /\ UNCHANGED <<loop, res>>
    BY <1>2 DEF StrcatDest
  <2>3. \/ Len(srcs) > 1 /\ loop'.id = srcs[2].id /\ loop'.str = <<>> /\ loop'.forks = MaxForksCat /\ phase' = "resolve"
        \/ phase' = "idle" /\ Len(srcs) = 1
    <3>1. CASE Len(srcs) > 1
      BY <2>2, <3>1 DEF Resolving, Idle
    <3>2. CASE ~(Len(srcs) > 1)
      BY <1>0, <2>1, <2>2, <3>2, SeqIndex
    <3> QED BY <3>1, <3>2
  <2>4. DOMAIN srcs' = 1..Len(srcs) - 1 /\ \A k \in 1..Len(srcs) - 1 : srcs'[k] = srcs[k + 1]
    <3>1. srcs \in Seq(Resolutions(used))
      BY <1>0 DEF Types
    <3> HIDE DEF Resolutions
    <3> QED BY <2>1, <3>1
  <2>5. /\ DOMAIN out' = 1..Len(out) + Len(res)
        /\ \A k \in 1..Len(out) : out'[k] = out[k]
        /\ \A k \in 1..Len(res) : out'[Len(out) + k] = res[k].id
    <3>1. PICK S : S = 1..used
      OBVIOUS
    <3>2. /\ out \in Seq(S) /\ Ids(res) \in Seq(S) /\ Len(Ids(res)) = Len(res)
          /\ \A k \in 1..Len(res) : Ids(res)[k] = res[k].id
      BY <1>0, <3>1, IdsType DEF Types
    <3> HIDE DEF Ids
    <3>3. /\ DOMAIN (out \o Ids(res)) = 1..Len(out) + Len(Ids(res))
          /\ \A k \in 1..Len(out) : (out \o Ids(res))[k] = out[k]
          /\ \A k \in 1..Len(Ids(res)) : (out \o Ids(res))[Len(out) + k] = Ids(res)[k]
      <4>1. out \in Seq(S) /\ Ids(res) \in Seq(S)
        BY <3>2
      <4> QED BY ONLY <4>1, Joined
    <3>4. out' = out \o Ids(res)
      BY <2>1
    <3> QED BY ONLY <3>2, <3>3, <3>4
  <2>6. /\ DOMAIN srcs = 1..Len(srcs) /\ Len(srcs) \in Nat /\ \A k \in DOMAIN srcs : srcs[k].id \in Id
        /\ heap \in [Id -> States] /\ DOMAIN out = 1..Len(out) /\ Len(out) \in Nat
        /\ DOMAIN res = 1..Len(res) /\ Len(res) \in Nat
    BY <1>0, SeqIndex
  <2>7. ASSUME NEW a \in Kinds, NEW k \in Nat, IsPlace(a, k)
        PROVE  \E b \in Kinds, l \in Nat : IsPlace(b, l)' /\ IdAt(b, l)' = IdAt(a, k)
    <3>1. CASE a = "out"
      <4>1. k \in 1..Len(out)
        BY <2>6, <2>7, <3>1 DEF IsPlace
      <4>2. k \in 1..Len(out) + Len(res)
        BY <4>1, <2>6
      <4>3. IsPlace("out", k)' /\ IdAt("out", k)' = IdAt(a, k)
        BY <2>5, <3>1, <4>1, <4>2 DEF IsPlace, IdAt
      <4> QED BY <3>1, <4>3
    <3>2. CASE a = "res"
      <4>1. k \in 1..Len(res) /\ IdAt(a, k) = res[k].id
        BY <2>6, <2>7, <3>2 DEF IsPlace, IdAt
      <4>2. PICK l \in Nat : l = Len(out) + k /\ l \in 1..Len(out) + Len(res)
        BY <4>1, <2>6
      <4>3. IsPlace("out", l)' /\ IdAt("out", l)' = out'[l] /\ "out" \in Kinds
        BY <2>5, <4>2 DEF IsPlace, IdAt, Kinds
      <4>4. out'[l] = res[k].id
        BY <2>5, <4>1, <4>2
      <4> QED BY <4>1, <4>3, <4>4
    <3>3. CASE a = "src"
      <4>1. k \in 1..Len(srcs) /\ k # 1 /\ IdAt(a, k) = srcs[k].id
        BY <2>6, <2>7, <3>3 DEF IsPlace, IdAt
      <4>2. Len(srcs) # 1
        BY <4>1, <2>6
      <4>3. Len(srcs) > 1 /\ loop'.id = srcs[2].id /\ phase' = "resolve"
        BY <4>2, <2>3
      <4>4. CASE k = 2
        <5>1. IsPlace("loop", 1)' /\ IdAt("loop", 1)' = IdAt(a, k) /\ "loop" \in Kinds /\ 1 \in Nat
          BY <4>1, <4>3, <4>4 DEF IsPlace, IdAt, Kinds
        <5> QED BY <5>1
      <4>5. CASE k # 2
        <5>1. PICK l \in Nat : l = k - 1 /\ l # 1 /\ l \in 1..Len(srcs) - 1 /\ l + 1 = k
          BY <4>1, <4>5, <2>6
        <5>2. IsPlace("src", l)' /\ IdAt("src", l)' = srcs[k].id /\ "src" \in Kinds
          BY <2>4, <5>1 DEF IsPlace, IdAt, Kinds
        <5> QED BY <4>1, <5>2
      <4> QED BY <4>4, <4>5
    <3>4. a # "loop"
      BY <2>1, <2>7 DEF IsPlace
    <3> QED BY <3>1, <3>2, <3>3, <3>4 DEF Kinds
  <2>8. \A id \in Id : heap'[id].pi = heap[id].pi
    BY <2>1, <2>6 DEF States
  <2>9. \A a \in Kinds, k \in Nat : IsPlace(a, k) => IdAt(a, k) \in Id
    BY <1>0, PlaceIdsType DEF PlacesAreMade
  <2>10. Covered'
    <3> HIDE DEF IsPlace, IdAt
    <3> QED BY <2>1, <2>7, <2>8, <2>9, AllStay
  <2>11. Reads'
    BY <2>3, NothingRead
  <2>12. EndsSeen'
    BY <2>1, <2>3, NoEndSeen DEF DInv, Budget
  <2> QED BY <2>10, <2>11, <2>12
<1> QED BY <1>1, <1>2

LEMMA ReturningCovered ==
  ASSUME DInv, Covered, phase \in {"strcmp", "memcmp"}, NEW differ, Returning(differ),
         UNCHANGED <<z3, request, before, res, srcs>>
  PROVE  Covered'
<1>0. TInv
  BY DEF DInv
<1>1. /\ phase' = "idle" /\ out' = <<1>> /\ loop.id = 1 /\ srcs = <<>> /\ out = <<>>
      /\ heap' = [heap EXCEPT ![1].rax = [i \in Input |-> IF i \in differ THEN 1 ELSE 0]]
  BY <1>0 DEF Returning, DInv, Comparing, TInv, Phased
<1>2. ASSUME NEW a \in Kinds, NEW k \in Nat, IsPlace(a, k)
      PROVE  IsPlace("out", k)' /\ IdAt("out", k)' = IdAt(a, k)
  BY <1>1, <1>2 DEF IsPlace, IdAt, Kinds
<1>3. \A id \in Id : heap'[id].pi = heap[id].pi
  BY <1>0, <1>1, SeqIndex DEF States
<1>4. \A a \in Kinds, k \in Nat : IsPlace(a, k) => IdAt(a, k) \in Id
  BY <1>0, PlaceIdsType DEF PlacesAreMade
<1>5. "out" \in Kinds
  BY DEF Kinds
<1> HIDE DEF IsPlace, IdAt
<1> QED BY <1>2, <1>3, <1>4, <1>5, AllStay

\* The steps that read on, or leave the states where they are.
LEMMA QuietCovered ==
  ASSUME DInv, Kept, Covered,
         NotZero \/ UNCHANGED vars \/ (Strcmp /\ phase' = "strcmp")
  PROVE  Covered' /\ Kept'
<1>0. TInv
  BY DEF DInv
<1>1. /\ UNCHANGED <<z3, before, request, heap, res, srcs, out, phase>> /\ loop'.id = loop.id
  <2>1. loop \in Loops(used)
    BY <1>0 DEF TInv, Types
  <2>2. CASE NotZero
    BY <2>1, <2>2 DEF NotZero, GoOn, Loops
  <2>3. CASE UNCHANGED vars
    BY <2>3 DEF vars
  <2>4. CASE Strcmp /\ phase' = "strcmp"
    <3>1. \E s : /\ loop' = [loop EXCEPT !.curr = @ + 1, !.same = loop.same \cap s]
                 /\ UNCHANGED <<heap, out, phase>>
      BY <2>4 DEF Strcmp, Returning
    <3> QED BY <2>1, <2>4, <3>1 DEF Strcmp, Loops
  <2> QED BY <2>2, <2>3, <2>4
<1>2. \A a \in Kinds, k \in Nat : /\ IsPlace(a, k)' <=> IsPlace(a, k)
                                  /\ IsPlace(a, k) => IdAt(a, k)' = IdAt(a, k)
  BY <1>1 DEF IsPlace, IdAt, Kinds
<1>3. \A id : Intact(id)' <=> Intact(id)
  BY <1>1 DEF Intact, Copying
<1>4. Kept'
  <2> HIDE DEF IsPlace, IdAt, Intact
  <2> QED BY <1>2, <1>3 DEF Kept
<1>5. FewEnds' <=> FewEnds
  BY <1>1 DEF FewEnds, Ends
<1>6. Covered'
  <2> HIDE DEF IsPlace, IdAt
  <2> QED BY <1>1, <1>2, <1>5 DEF Covered, Somewhere
<1> QED BY <1>4, <1>6

\* When a call is over there is none of its states but those returned.
LEMMA NoneKept ==
  ASSUME phase' \in {"idle", "failed"}, srcs' = <<>>
  PROVE  Kept'
BY DEF Kept, IsPlace, Kinds

-----------------------------------------------------------------------------
(***************************************************************************)
(* All this is one inductive invariant.                                    *)
(***************************************************************************)
Over == phase = "idle" => DOMAIN srcs = {}

RInv == DInv /\ Kept /\ SourcesApart /\ AtPosition /\ Reads /\ EndsSeen /\ Covered /\ Over

LEMMA ReadInit == Init => RInv
<1> SUFFICES ASSUME Init
             PROVE  RInv
  OBVIOUS
<1>1. DInv
  BY TInvInit, DividedInit DEF DInv, Init, Terminated
<1>2. PICK m \in Memory :
        LET first == [mem |-> m, pi |-> Input, rax |-> Const(0)]
        IN  heap = [id \in Id |-> first] /\ before = first
  BY DEF Init
<1>3. phase = "idle" /\ out = <<1>> /\ res = <<>> /\ srcs = <<>>
  BY DEF Init
<1>4. heap[1] = before
  BY <1>2, IdType
<1>5. Covered
  <2>1. IsPlace("out", 1) /\ IdAt("out", 1) = 1 /\ "out" \in Kinds /\ 1 \in Nat
    BY <1>3 DEF IsPlace, IdAt, Kinds
  <2> HIDE DEF IsPlace, IdAt
  <2> QED BY <2>1, <1>4 DEF Covered, Somewhere
<1>6. Kept /\ SourcesApart /\ Over
  BY <1>3 DEF Kept, IsPlace, SourcesApart, Kinds, Over
<1>7. AtPosition /\ Reads /\ EndsSeen
  BY <1>3 DEF AtPosition, Reads, EndsSeen
<1> QED BY <1>1, <1>5, <1>6, <1>7 DEF RInv

\* Outside a resolution there is nothing to read.
LEMMA NotResolving ==
  ASSUME phase' # "resolve"
  PROVE  AtPosition' /\ Reads' /\ EndsSeen'
BY DEF AtPosition, Reads, EndsSeen

LEMMA ReadNext ==
  ASSUME RInv, [Next]_vars
  PROVE  RInv'
<1>0. /\ DInv /\ Kept /\ SourcesApart /\ AtPosition /\ Reads /\ EndsSeen /\ Covered /\ Over
      /\ TInv /\ Types
  BY DEF RInv, DInv, TInv
<1>1. DInv' /\ TInv'
  BY <1>0, DividedNext DEF DInv
<1>2. CASE Begin
  <2>1. Over'
    <3>1. phase' # "idle"
      <4>1. PICK r \in Request :
              CASE r.fn \in {"strlen", "strcpy"} -> Resolving(1, r.src, MaxForks, Unlimited)
                [] r.fn = "strncpy" -> Resolving(1, r.src, MaxForks, AsInt(r.n))
                [] r.fn = "strcat" -> Resolving(1, r.src, MaxForksCat, Unlimited)
                [] OTHER -> /\ loop' = [Idle EXCEPT !.same = Input]
                            /\ res' = <<>>
                            /\ phase' = r.fn
        BY <1>2 DEF Begin
      <4> QED BY <4>1, RequestType DEF Resolving, Function
    <3> QED BY <3>1 DEF Over
  <2> QED BY <2>1, <1>0, <1>1, <1>2, BeginKept, BeginCovered DEF RInv
<1>3. CASE NotZero
  <2>1. SourcesApart' /\ Over'
    BY <1>0, <1>3 DEF NotZero, SourcesApart, Over
  <2> QED BY <2>1, <1>0, <1>1, <1>3, AtPositionNext, ReadsNext, EndsSeenNext, QuietCovered DEF RInv
<1>4. CASE EndOfString \/ LastEnd
  <2>1. srcs' = srcs /\ phase' = "resolved"
    BY <1>4 DEF EndOfString, LastEnd, Resolved
  <2>2. SourcesApart' /\ Over'
    BY <1>0, <2>1 DEF SourcesApart, Over
  <2>3. Kept'
    BY <1>0, <1>4, EndKept
  <2>4. Covered'
    BY <1>0, <1>4, EndCovered
  <2> QED BY <2>1, <2>2, <2>3, <2>4, <1>1, NotResolving DEF RInv
<1>5. CASE ForkEnd
  <2>1. srcs' = srcs /\ phase' \in {"resolve", "resolved"}
    BY <1>5 DEF ForkEnd, MayEnd, Reading, Resolved
  <2>2. SourcesApart' /\ Over'
    BY <1>0, <2>1 DEF SourcesApart, Over
  <2>3. Kept'
    BY <1>0, <1>5, ForkKept
  <2>4. Covered'
    BY <1>0, <1>5, ForkCovered
  <2> QED BY <2>2, <2>3, <2>4, <1>0, <1>1, <1>5, AtPositionNext, ReadsNext, EndsSeenNext DEF RInv
<1>6. CASE Strlen \/ Strcpy
  <2>1. phase' = "idle" /\ srcs' = srcs /\ srcs = <<>>
    BY <1>0, <1>6 DEF Strlen, Strcpy, ReturnAll, TInv, Phased
  <2>2. SourcesApart' /\ Over'
    BY <2>1 DEF SourcesApart, Over
  <2>3. Kept'
    BY <2>1, NoneKept
  <2>4. Covered'
    BY <1>0, <1>6, ReturnCovered
  <2> QED BY <2>1, <2>2, <2>3, <2>4, <1>1, NotResolving DEF RInv
<1>7. CASE StrcatSource \/ StrcatDest
  <2>1. Over'
    <3>1. CASE StrcatSource
      BY <3>1 DEF StrcatSource, Resolving, Over
    <3>2. CASE StrcatDest /\ Len(srcs) > 1
      BY <3>2 DEF StrcatDest, Resolving, Over
    <3>3. CASE StrcatDest /\ ~(Len(srcs) > 1)
      <4>1. srcs # <<>> /\ srcs' = Tail(srcs)
        BY <3>3 DEF StrcatDest
      <4>2. srcs \in Seq(Resolutions(used)) /\ Len(srcs) \in Nat
        BY <1>0, SeqIndex DEF Types
      <4> HIDE DEF Resolutions
      <4>3. Len(srcs) = 1
        <5>1. Len(srcs) # 0
          BY ONLY <4>1, <4>2
        <5>2. ~(Len(srcs) > 1)
          BY <3>3
        <5>3. PICK n \in Nat : n = Len(srcs)
          BY <4>2
        <5>4. n # 0 /\ ~(n > 1)
          BY ONLY <5>1, <5>2, <5>3
        <5> QED BY ONLY <5>3, <5>4
      <4>4. DOMAIN Tail(srcs) = {}
        BY <4>2, <4>3
      <4> QED BY <4>1, <4>4 DEF Over
    <3> QED BY <1>7, <3>1, <3>2, <3>3
  <2> QED BY <2>1, <1>0, <1>1, <1>7, StrcatKept, AtPositionNext, StrcatCovered DEF RInv
<1>8. CASE Strcmp \/ Memcmp
  <2>1. phase \in {"strcmp", "memcmp"} /\ srcs = <<>> /\ UNCHANGED <<z3, request, before, res, srcs>>
    BY <1>0, <1>8 DEF Strcmp, Memcmp, TInv, Phased
  <2>2. SourcesApart' /\ Over'
    BY <2>1 DEF SourcesApart, Over
  <2>3. CASE Strcmp /\ phase' = "strcmp"
    <3>1. Kept' /\ Covered'
      BY <1>0, <2>3, QuietCovered
    <3> QED BY <2>2, <2>3, <3>1, <1>1, NotResolving DEF RInv
  <2>4. CASE \E differ : Returning(differ)
    <3>1. PICK differ : Returning(differ)
      BY <2>4
    <3>2. phase' = "idle"
      BY <3>1 DEF Returning
    <3>3. Kept'
      BY <3>2, <2>1, NoneKept
    <3>4. Covered'
      BY <1>0, <2>1, <3>1, ReturningCovered
    <3> QED BY <2>2, <3>2, <3>3, <3>4, <1>1, NotResolving DEF RInv
  <2>5. (Strcmp /\ phase' = "strcmp") \/ \E differ : Returning(differ)
    <3>1. CASE Memcmp
      BY <3>1 DEF Memcmp
    <3>2. CASE Strcmp
      <4>1. phase = "strcmp"
        BY <3>2 DEF Strcmp
      <4> HIDE DEF Returning
      <4> QED BY <3>2, <4>1 DEF Strcmp
    <3> QED BY <1>8, <3>1, <3>2
  <2> QED BY <2>3, <2>4, <2>5
<1>9. CASE Fail
  <2>1. phase' = "failed" /\ srcs = <<>> /\ srcs' = srcs
    BY <1>0, <1>9 DEF Fail, TInv, Phased
  <2>2. SourcesApart' /\ Over' /\ Covered'
    BY <2>1 DEF SourcesApart, Over, Covered
  <2>3. Kept'
    BY <2>1, NoneKept
  <2> QED BY <2>1, <2>2, <2>3, <1>1, NotResolving DEF RInv
<1>10. CASE Done \/ UNCHANGED vars
  <2>1. UNCHANGED vars
    BY <1>10 DEF Done
  <2>2. Kept' /\ Covered'
    BY <2>1, <1>0, QuietCovered
  <2>3. SourcesApart' /\ Over' /\ AtPosition' /\ Reads'
    BY <2>1, <1>0 DEF vars, SourcesApart, Over, AtPosition, Cut, Reads, From, Matches, NoEnd, InBefore
  <2>4. EndsSeen'
    BY <2>1, <1>0 DEF vars, EndsSeen, Seen, AllEnds, EndAt, EndOf, Limit, Cut, Budget, From
  <2> QED BY <2>2, <2>3, <2>4, <1>1 DEF RInv
<1> QED BY <1>2, <1>3, <1>4, <1>5, <1>6, <1>7, <1>8, <1>9, <1>10 DEF Next

LEMMA ReadInvariant == Spec => []RInv
BY ReadInit, ReadNext, PTL DEF Spec

(***************************************************************************)
(* As long as Z3 answers and a string has no more ends than there are      *)
(* forks, and one, every input of the caller's path is in a state that     *)
(* returns: what resolve_string drops when it runs out of forks is only    *)
(* what lies beyond.                                                       *)
(***************************************************************************)
THEOREM NoInputIsLost == Spec => []EveryInputReturns
<1>1. RInv => EveryInputReturns
  <2> SUFFICES ASSUME RInv, phase = "idle", ~z3.timeouts, FewEnds, NEW i \in before.pi
               PROVE  \E k \in DOMAIN out : i \in heap[out[k]].pi
    BY DEF EveryInputReturns, Returned
  <2>1. PICK a \in Kinds, k \in Nat : IsPlace(a, k) /\ i \in heap[IdAt(a, k)].pi
    BY DEF RInv, Covered, Somewhere
  <2>2. a = "out" /\ k \in DOMAIN out
    BY <2>1 DEF IsPlace, RInv, Over, Kinds
  <2> QED BY <2>1, <2>2 DEF IdAt
<1> QED BY <1>1, ReadInvariant, PTL

-----------------------------------------------------------------------------
(***************************************************************************)
(* What is resolved is the string C would take, for every input on the     *)
(* path of the state it is resolved in.                                    *)
(***************************************************************************)
Taken(i) == IF Cut THEN Least(AsInt(request.n), EndOf(i) + 1) ELSE EndOf(i) + 1

IsString(str, i) == Matches(str, i) /\ Len(str) \in 0..Width /\ Len(str) = Taken(i)

ResultsRead ==
  phase \in {"resolve", "resolved"} /\ ~z3.timeouts =>
    \A k \in DOMAIN res : \A i \in heap[res[k].id].pi : IsString(res[k].str, i)

\* The byte at hand is its terminator.
LEMMA StringEnds ==
  ASSUME TInv, Kept, AtPosition, Reads, Reading, ~z3.timeouts,
         NEW i \in heap[loop.id].pi, B[i] = 0
  PROVE  IsString(Str, i)
<1>0. phase = "resolve" /\ loop.size # 0 /\ Len(loop.str) # Width
  BY DEF Reading, TooLong
<1>1. Len(loop.str) \in Nat /\ Len(loop.str) <= Width /\ Len(Str) = Len(loop.str) + 1
  BY StrBytes DEF TInv, Types
<1>2. PICK n \in Nat : n = Len(loop.str)
  BY <1>1
<1>3. n < Width
  BY <1>0, <1>1, <1>2, ConstantsType
<1>4. Matches(Str, i) /\ EndOf(i) = n
  BY <1>0, <1>2, <1>3, ReadOn
<1>5. Len(Str) = n + 1 /\ n + 1 \in 0..Width
  BY <1>1, <1>2, <1>3, ConstantsType
<1>6. Taken(i) = n + 1
  <2>1. CASE Cut
    <3>1. AsInt(request.n) \in Nat
      BY <1>0, <2>1, RequestType, AsIntType DEF TInv, Phased, Cut
    <3>2. PICK m \in Nat : m = AsInt(request.n)
      BY <3>1
    <3>3. loop.size \in Nat /\ loop.size = m - n
      BY <1>0, <1>2, <2>1, <3>2 DEF AtPosition
    <3>4. m > n
      BY <1>0, <3>3
    <3>5. Least(m, n + 1) = n + 1
      BY <3>4 DEF Least
    <3> QED BY <2>1, <3>2, <3>5, <1>4 DEF Taken
  <2>2. CASE ~Cut
    BY <2>2, <1>4 DEF Taken
  <2> QED BY <2>1, <2>2
<1> HIDE DEF Str, Matches, Taken
<1> QED BY <1>4, <1>5, <1>6 DEF IsString

\* strncpy has read as many bytes as it may.
LEMMA StringCut ==
  ASSUME TInv, Terminated, AtPosition, Reads, phase = "resolve", loop.size = 0, ~z3.timeouts,
         NEW i \in heap[loop.id].pi
  PROVE  IsString(loop.str, i)
<1>1. Cut
  BY DEF Terminated, Unlimited
<1>2. Len(loop.str) \in Nat /\ Len(loop.str) <= Width
  BY StrBytes DEF TInv, Types
<1>3. PICK n \in Nat : n = Len(loop.str)
  BY <1>2
<1>4. AsInt(request.n) \in Nat
  BY <1>1, RequestType, AsIntType DEF TInv, Phased, Cut
<1>5. PICK m \in Nat : m = AsInt(request.n)
  BY <1>4
<1>6. n = m /\ n \in 0..Width
  <2>1. loop.size = m - n
    BY <1>1, <1>3, <1>5 DEF AtPosition
  <2> QED BY <2>1, <1>2, <1>3, ConstantsType
<1>7. Matches(loop.str, i) /\ NoEnd(n, i)
  BY <1>3 DEF Reads
<1>8. EndOf(i) \in n..Width
  BY <1>6, <1>7, EndBeyond DEF NoEnd
<1>9. PICK e \in n..Width : e = EndOf(i)
  BY <1>8
<1>10. Least(m, e + 1) = n
  BY <1>6, ConstantsType DEF Least
<1>11. Taken(i) = n
  BY <1>1, <1>5, <1>9, <1>10 DEF Taken
<1> HIDE DEF Matches, Taken
<1> QED BY <1>3, <1>6, <1>7, <1>11 DEF IsString

LEMMA ResultsReadNext ==
  ASSUME RInv, ResultsRead, EndOfString \/ LastEnd \/ ForkEnd
  PROVE  ResultsRead'
<1>0. /\ TInv /\ Types /\ Divided /\ Terminated /\ Kept /\ AtPosition /\ Reads /\ DInv
  BY DEF RInv, DInv, TInv
<1>1. /\ phase = "resolve" /\ UNCHANGED <<before, srcs, request, z3>>
      /\ loop.id \in Id /\ heap \in [Id -> States] /\ heap[loop.id] \in States
  BY <1>0, SeqIndex DEF EndOfString, LastEnd, ForkEnd, MayEnd, Reading, Resolved
<1> SUFFICES ASSUME ~z3.timeouts
             PROVE  \A k \in DOMAIN res' : \A i \in heap'[res'[k].id].pi : IsString(res'[k].str, i)
  <2>1. From' = From /\ before' = before /\ request' = request /\ z3' = z3
    BY <1>1 DEF From
  <2> QED BY <2>1 DEF ResultsRead, IsString, Matches, Taken, Cut, InBefore, EndOf
<1>3. ASSUME NEW k \in DOMAIN res
      PROVE  res[k].id \in Id /\ res[k].id \in 1..used /\ res[k].id # loop.id
  <2>1. k \in Nat /\ "res" \in Kinds /\ IsPlace("res", k) /\ IdAt("res", k) = res[k].id
    BY <1>0, <1>1, SeqIndex DEF IsPlace, IdAt, Kinds
  <2>2. "loop" \in Kinds /\ 1 \in Nat /\ IsPlace("loop", 1) /\ IdAt("loop", 1) = loop.id
    BY <1>1 DEF IsPlace, IdAt, Kinds
  <2>3. Apart(IdAt("res", k), IdAt("loop", 1))
    <3> HIDE DEF IsPlace, IdAt
    <3> QED BY <2>1, <2>2, <1>0 DEF Divided
  <2> QED BY <2>1, <2>2, <2>3, <1>0, PlaceIdsType DEF PlacesAreMade, Apart
<1>4. \E id, str : /\ res' = Append(res, Result(id, str)) /\ str \in Strings /\ id \in 1..used' /\ used' \in Id
                   /\ used <= used'
                   /\ \A i \in heap'[id].pi : IsString(str, i)
                   /\ \A k \in DOMAIN res : heap'[res[k].id] = heap[res[k].id]
  <2>0. used \in Id /\ loop.id \in 1..used /\ used \in Nat /\ Str \in Strings /\ loop.str \in Strings
    BY <1>0, SeqIndex, IdType, ReadingType DEF Types, Loops
  <2>1. CASE EndOfString
    <3>1. used' = used /\ heap' = heap
      BY <2>1 DEF EndOfString
    <3>2. CASE Reading /\ TRUE \in FoldsTo(B, 0) /\ Resolved(Append(res, Result(loop.id, Str)))
      <4>1. \A i \in heap[loop.id].pi : B[i] = 0
        BY <3>2, <1>1 DEF FoldsTo, Const, States
      <4>2. \A i \in heap[loop.id].pi : IsString(Str, i)
        <5> HIDE DEF IsString
        <5> QED BY <1>0, <3>2, <4>1, StringEnds
      <4> HIDE DEF IsString, Str
      <4> QED BY <2>0, <3>1, <3>2, <4>2 DEF Resolved
    <3>3. CASE loop.size = 0 /\ Resolved(Append(res, Result(loop.id, loop.str)))
      <4>2. \A i \in heap[loop.id].pi : IsString(loop.str, i)
        <5> HIDE DEF IsString
        <5> QED BY <1>0, <1>1, <3>3, StringCut
      <4> HIDE DEF IsString
      <4> QED BY <2>0, <3>1, <3>3, <4>2 DEF Resolved
    <3> QED BY <2>1, <3>2, <3>3 DEF EndOfString
  <2>2. ASSUME LastEnd \/ ForkEnd, NEW i \in Zero
        PROVE  IsString(Str, i)
    <3>1. i \in heap[loop.id].pi /\ B[i] = 0
      BY <2>2 DEF Zero
    <3>2. Reading
      BY <2>2 DEF LastEnd, ForkEnd, MayEnd
    <3> HIDE DEF IsString
    <3> QED BY <1>0, <3>1, <3>2, StringEnds
  <2>3. CASE LastEnd
    <3>1. /\ used' = used /\ heap' = [heap EXCEPT ![loop.id] = Ending(heap[loop.id])]
          /\ res' = Append(res, Result(loop.id, Str))
      BY <2>3 DEF LastEnd, Resolved
    <3>2. heap'[loop.id].pi = Zero
      BY <3>1, <1>1, EndingParts
    <3>3. \A k \in DOMAIN res : heap'[res[k].id] = heap[res[k].id]
      BY <3>1, <1>1, <1>3
    <3> HIDE DEF IsString, Str, Zero
    <3> QED BY <2>0, <2>2, <2>3, <3>1, <3>2, <3>3
  <2>4. CASE ForkEnd
    <3>1. /\ used' = used + 1 /\ used' \in Id
          /\ res' = Append(res, Result(used', Str))
          /\ \/ heap' = [heap EXCEPT ![used'] = Ending(heap[loop.id]), ![loop.id] = Longer(@)]
             \/ heap' = [heap EXCEPT ![used'] = Ending(heap[loop.id])]
      BY <2>4 DEF ForkEnd, Resolved
    <3>2. \A x \in 1..used : x # used'
      BY <2>0, <3>1
    <3>3. heap'[used'] = Ending(heap[loop.id])
      BY <3>1, <3>2, <1>1, <2>0
    <3>4. heap'[used'].pi = Zero
      BY <3>3, <1>1, EndingParts
    <3>5. \A k \in DOMAIN res : heap'[res[k].id] = heap[res[k].id]
      BY <3>1, <3>2, <1>1, <1>3
    <3>6. used' \in 1..used' /\ used <= used'
      BY <2>0, <3>1
    <3> HIDE DEF IsString, Str, Zero
    <3> QED BY <2>0, <2>2, <2>4, <3>1, <3>4, <3>5, <3>6
  <2> QED BY <2>1, <2>3, <2>4
<1>5. PICK id, str : /\ res' = Append(res, Result(id, str)) /\ str \in Strings /\ id \in 1..used' /\ used' \in Id
                     /\ used <= used'
                     /\ \A i \in heap'[id].pi : IsString(str, i)
                     /\ \A k \in DOMAIN res : heap'[res[k].id] = heap[res[k].id]
  BY <1>4
<1>6. /\ DOMAIN res' = 1..Len(res) + 1 /\ DOMAIN res = 1..Len(res) /\ Len(res) \in Nat
      /\ \A k \in DOMAIN res : res'[k] = res[k]
      /\ res'[Len(res) + 1].id = id /\ res'[Len(res) + 1].str = str
  BY <1>0, <1>5, AppendResult
<1>7. ASSUME NEW k \in DOMAIN res', NEW i \in heap'[res'[k].id].pi
      PROVE  IsString(res'[k].str, i)
  <2> HIDE DEF IsString
  <2>1. CASE k = Len(res) + 1
    BY <2>1, <1>5, <1>6, <1>7
  <2>2. CASE k # Len(res) + 1
    <3>1. k \in DOMAIN res
      BY <2>2, <1>6
    <3>2. i \in heap[res[k].id].pi /\ res'[k] = res[k]
      BY <3>1, <1>5, <1>6, <1>7
    <3> QED BY <3>1, <3>2, <1>1 DEF ResultsRead
  <2> QED BY <2>1, <2>2
<1> HIDE DEF IsString
<1> QED BY <1>7

-----------------------------------------------------------------------------
(***************************************************************************)
(* The functions that end with a resolution do what C says with it.        *)
(***************************************************************************)
LEMMA PlacesDiffer ==
  ASSUME NEW a \in Nat, NEW k \in 0..Width - 1, NEW l \in 0..Width - 1,
         (a + k) % Width = (a + l) % Width
  PROVE  k = l
<1>0. PICK w \in Nat : w = Width /\ w > 0
  BY ConstantsType
<1>1. a + k \in Nat /\ a + l \in Nat /\ k \in Nat /\ l \in Nat /\ k < w /\ l < w
  BY <1>0
<1>2. \A n \in Nat : /\ n = w * (n \div w) + (n % w)
                     /\ n \div w \in Int /\ n % w \in Int
  BY <1>0
<1>3. PICK p \in Int, q \in Int, r \in Int : a + k = w * p + r /\ a + l = w * q + r
  <2>1. /\ a + k = w * ((a + k) \div w) + ((a + k) % w)
        /\ a + l = w * ((a + l) \div w) + ((a + l) % w)
        /\ (a + k) \div w \in Int /\ (a + l) \div w \in Int /\ (a + k) % w \in Int
    BY <1>1, <1>2
  <2>2. (a + k) % w = (a + l) % w
    BY <1>0
  <2> QED BY ONLY <2>1, <2>2
<1>4. PICK d \in Int : d = p - q
  OBVIOUS
<1>5. k - l = w * d
  BY <1>0, <1>1, <1>3, <1>4
<1>6. CASE d >= 1
  <2>1. w * d >= w
    BY <1>0, <1>6
  <2> QED BY <2>1, <1>0, <1>1, <1>5
<1>7. CASE d <= -1
  <2>1. w * d <= -w
    BY <1>0, <1>7
  <2> QED BY <2>1, <1>0, <1>1, <1>5
<1>8. CASE d = 0
  BY <1>0, <1>1, <1>5, <1>8
<1> QED BY <1>6, <1>7, <1>8

\* A memory as an input has it.
Column(mem, i) == [x \in Address |-> mem[x][i]]

SameFor(i, mem, m)        == \A x \in Address : mem[x][i] = m[x][i]
IsAt(str, i, m, src)      == \A j \in 0..Len(str) - 1 : str[j + 1][i] = m[(src + j) % Width][i]

\* The bytes of a string of the caller's, written to memory like the caller's, are a copy.
StringToWrite(mem, m, str, dst, src, i) ==
  /\ mem \in Memories /\ m \in Memories /\ str \in Strings /\ Len(str) \in Nat /\ Len(str) <= Width
  /\ dst \in Nat /\ src \in Nat /\ i \in Input
  /\ SameFor(i, mem, m) /\ IsAt(str, i, m, src)

IsCopied(mem, m, str, dst, src, i) ==
  Column(Written(mem, dst, str), i) = Copy(Column(m, i), dst, src, Len(str))

LEMMA WrittenIsCopy ==
  \A mem, m, str, dst, src, i :
    StringToWrite(mem, m, str, dst, src, i) => IsCopied(mem, m, str, dst, src, i)
<1> SUFFICES ASSUME NEW mem \in Memories, NEW m \in Memories, NEW str \in Strings,
                    NEW n \in Nat, NEW dst \in Nat, NEW src \in Nat, NEW i \in Input,
                    n = Len(str), n <= Width, SameFor(i, mem, m), IsAt(str, i, m, src)
             PROVE  Column(Written(mem, dst, str), i) = Copy(Column(m, i), dst, src, n)
  BY DEF StringToWrite, IsCopied
<1> USE DEF SameFor, IsAt
<1>1. DOMAIN str = 1..n /\ n \in Nat
  BY ConstantsType DEF Strings
<1>2. ASSUME NEW x \in Address
      PROVE  Written(mem, dst, str)[x][i] = Copy(Column(m, i), dst, src, n)[x]
  <2> DEFINE K == CHOOSE k \in 1..n : x = (dst + k - 1) % Width
             J == CHOOSE j \in 0..n - 1 : x = (dst + j) % Width
  <2>1. CASE \E k \in 1..n : x = (dst + k - 1) % Width
    <3>1. K \in 1..n /\ x = (dst + K - 1) % Width
      BY <2>1
    <3>2. \E j \in 0..n - 1 : x = (dst + j) % Width
      <4>1. PICK k \in 1..n : x = (dst + k - 1) % Width
        BY <2>1
      <4>2. k - 1 \in 0..n - 1 /\ dst + k - 1 = dst + (k - 1)
        BY <1>1
      <4> QED BY <4>1, <4>2
    <3>3. J \in 0..n - 1 /\ x = (dst + J) % Width
      BY <3>2
    <3> HIDE DEF K, J
    <3>4. K - 1 = J
      <4>1. K - 1 \in 0..Width - 1 /\ J \in 0..Width - 1 /\ dst + K - 1 = dst + (K - 1)
        BY <1>1, <3>1, <3>3, ConstantsType
      <4> QED BY <4>1, <3>1, <3>3, PlacesDiffer
    <3>5. Written(mem, dst, str)[x] = str[K]
      BY <1>1, <2>1 DEF Written, K
    <3>6. Copy(Column(m, i), dst, src, n)[x] = Column(m, i)[(src + J) % Width]
      BY <3>2 DEF Copy, J
    <3>7. (src + J) % Width \in Address
      <4>1. src + J \in Nat
        BY <1>1, <3>3
      <4> QED BY <4>1, InAddress
    <3>8. str[K][i] = m[(src + J) % Width][i]
      <4>1. J + 1 = K
        BY <3>1, <3>3, <3>4
      <4> QED BY <4>1, <3>3
    <3> QED BY <3>5, <3>6, <3>7, <3>8 DEF Column
  <2>2. CASE ~(\E k \in 1..n : x = (dst + k - 1) % Width)
    <3>1. ~(\E j \in 0..n - 1 : x = (dst + j) % Width)
      <4> SUFFICES ASSUME NEW j \in 0..n - 1, x = (dst + j) % Width
                   PROVE  FALSE
        OBVIOUS
      <4>1. j + 1 \in 1..n /\ dst + (j + 1) - 1 = dst + j
        BY <1>1
      <4> QED BY <4>1, <2>2
    <3>2. Written(mem, dst, str)[x] = mem[x]
      BY <1>1, <2>2 DEF Written
    <3>3. Copy(Column(m, i), dst, src, n)[x] = m[x][i]
      BY <3>1 DEF Copy, Column
    <3> QED BY <3>2, <3>3
  <2> QED BY <2>1, <2>2
<1>3. Copy(Column(m, i), dst, src, n)
        = [x \in Address |-> Copy(Column(m, i), dst, src, n)[x]]
  BY DEF Copy
<1> HIDE DEF Copy, Written
<1> QED BY <1>2, <1>3 DEF Column

\* No state is in two results.
LEMMA ResultOf ==
  ASSUME DInv, phase = "resolved", NEW k \in DOMAIN res
  PROVE  /\ res[k].id \in Id /\ res[k].str \in Strings /\ heap[res[k].id] \in States
         /\ (CHOOSE l \in DOMAIN res : res[l].id = res[k].id) = k
         /\ \E l \in DOMAIN res : res[l].id = res[k].id
<1>1. TInv /\ Types /\ Divided
  BY DEF DInv, TInv
<1>2. ASSUME NEW l \in DOMAIN res, res[l].id = res[k].id
      PROVE  l = k
  <2>1. /\ k \in Nat /\ l \in Nat /\ "res" \in Kinds /\ IsPlace("res", k) /\ IsPlace("res", l)
        /\ IdAt("res", k) = res[k].id /\ IdAt("res", l) = res[l].id
    BY <1>1, SeqIndex DEF IsPlace, IdAt, Kinds
  <2>2. k # l => Apart(IdAt("res", k), IdAt("res", l))
    <3> HIDE DEF IsPlace, IdAt
    <3> QED BY <2>1, <1>1 DEF Divided
  <2> QED BY <2>1, <2>2, <1>2 DEF Apart
<1>3. (CHOOSE l \in DOMAIN res : res[l].id = res[k].id) = k
  BY <1>2
<1>4. res[k].id \in Id /\ res[k].str \in Strings
  <2>1. res \in Seq(Resolutions(used)) /\ used \in Id
    BY <1>1 DEF Types
  <2> QED BY <2>1, Elements
<1> QED BY <1>1, <1>3, <1>4 DEF Types

\* What is known of a resolved string, for an input in its state.
LEMMA ResolvedAs ==
  ASSUME RInv, ResultsRead, phase = "resolved", ~z3.timeouts, srcs = <<>>,
         NEW k \in DOMAIN res, NEW i \in heap[res[k].id].pi
  PROVE  /\ i \in Input /\ before \in States
         /\ \A x \in Address : heap[res[k].id].mem[x][i] = before.mem[x][i]
         /\ MemOf(heap[res[k].id], i) = MemOf(before, i)
         /\ Copying => heap[res[k].id].rax = Const(request.dst)
         /\ \A j \in 0..Len(res[k].str) - 1 : res[k].str[j + 1][i] = before.mem[(request.src + j) % Width][i]
         /\ Len(res[k].str) \in 0..Width
         /\ Len(res[k].str) = IF Cut THEN Least(AsInt(request.n), LenIn(MemOf(before, i), request.src) + 1)
                              ELSE LenIn(MemOf(before, i), request.src) + 1
<1>1. DInv /\ Kept /\ TInv
  BY DEF RInv, DInv
<1>2. k \in Nat /\ "res" \in Kinds /\ IsPlace("res", k) /\ IdAt("res", k) = res[k].id
  BY <1>1, SeqIndex DEF IsPlace, IdAt, Kinds
<1>3. Intact(res[k].id)
  <2>1. "res" # "out"
    OBVIOUS
  <2> HIDE DEF IsPlace, IdAt
  <2> QED BY <2>1, <1>1, <1>2 DEF Kept
<1>4. IsString(res[k].str, i)
  BY DEF ResultsRead
<1>5. From = request.src
  BY DEF From
<1>6. heap[res[k].id] \in States /\ before \in States /\ i \in Input
  <2>1. heap[res[k].id] \in States
    BY <1>1, ResultOf
  <2> QED BY <2>1, <1>1 DEF TInv, Types, States
<1>7. \A x \in Address : heap[res[k].id].mem[x][i] = before.mem[x][i]
  BY <1>3 DEF Intact
<1>8. MemOf(heap[res[k].id], i) = MemOf(before, i)
  BY <1>7 DEF MemOf
<1> QED BY <1>3, <1>4, <1>5, <1>6, <1>7, <1>8 DEF Intact, IsString, Matches, InBefore, Taken, EndOf

\* strlen and the copying functions, from the strings resolved.
LEMMA ReturnAsInC ==
  ASSUME RInv, ResultsRead, Strlen \/ Strcpy, ~z3.timeouts,
         request.fn = "strncpy" => request.n < IntLimit
  PROVE  AsInC'
<1>0. DInv /\ TInv /\ phase = "resolved" /\ request.fn \in {"strlen", "strcpy", "strncpy"}
  BY DEF RInv, DInv, Strlen, Strcpy
<1>1. srcs = <<>> /\ request \in Request
  BY <1>0 DEF TInv, Phased
<1>1a. request.src \in Nat /\ request.dst \in Nat /\ request.n \in Nat
  BY <1>1, RequestType
<1>1b. /\ Cut <=> request.fn = "strncpy"
       /\ Cut => AsInt(request.n) = request.n
  BY <1>1, RequestType, AsIntType DEF Cut
<1>2. out' = Ids(res) /\ request' = request /\ before' = before
  BY DEF Strlen, Strcpy, ReturnAll
<1>3. DOMAIN out' = DOMAIN res /\ \A k \in DOMAIN res : out'[k] = res[k].id
  BY <1>2 DEF Ids
<1> SUFFICES ASSUME NEW k \in DOMAIN res, NEW i \in heap'[res[k].id].pi
             PROVE  [mem |-> MemOf(heap'[res[k].id], i), rax |-> heap'[res[k].id].rax[i]]
                      = InC(request, MemOf(before, i))
  BY <1>2, <1>3 DEF AsInC
<1>4. /\ res[k].id \in Id /\ res[k].str \in Strings /\ heap[res[k].id] \in States
      /\ (CHOOSE l \in DOMAIN res : res[l].id = res[k].id) = k
      /\ \E l \in DOMAIN res : res[l].id = res[k].id
  BY <1>0, ResultOf
<1>5. PICK st \in States, str \in Strings : st = heap[res[k].id] /\ str = res[k].str
  BY <1>4
<1>6. heap'[res[k].id] = IF request.fn = "strlen" THEN Length(st, str) ELSE Copied(st, str)
  <2>1. CASE Strlen
    <3>1. heap' = [id \in Id |-> IF \E l \in DOMAIN res : res[l].id = id
                             THEN Length(heap[id], res[CHOOSE l \in DOMAIN res : res[l].id = id].str)
                             ELSE heap[id]] /\ request.fn = "strlen"
      BY <2>1 DEF Strlen, ReturnAll
    <3> QED BY <3>1, <1>4, <1>5
  <2>2. CASE Strcpy
    <3>1. heap' = [id \in Id |-> IF \E l \in DOMAIN res : res[l].id = id
                             THEN Copied(heap[id], res[CHOOSE l \in DOMAIN res : res[l].id = id].str)
                             ELSE heap[id]] /\ request.fn # "strlen"
      BY <2>2 DEF Strcpy, ReturnAll
    <3> QED BY <3>1, <1>4, <1>5
  <2> QED BY <2>1, <2>2
<1>7. i \in st.pi
  BY <1>5, <1>6 DEF Length, Copied, States
<1>8. /\ i \in Input /\ before \in States
      /\ \A x \in Address : st.mem[x][i] = before.mem[x][i]
      /\ MemOf(st, i) = MemOf(before, i)
      /\ Copying => st.rax = Const(request.dst)
      /\ \A j \in 0..Len(str) - 1 : str[j + 1][i] = before.mem[(request.src + j) % Width][i]
      /\ Len(str) \in 0..Width
      /\ Len(str) = IF request.fn = "strncpy" THEN Least(request.n, LenIn(MemOf(before, i), request.src) + 1)
                    ELSE LenIn(MemOf(before, i), request.src) + 1
  <2>1. i \in heap[res[k].id].pi
    BY <1>5, <1>7
  <2> QED BY <2>1, <1>0, <1>1, <1>1b, <1>5, ResolvedAs
<1>9. PICK len \in Nat : len = LenIn(MemOf(before, i), request.src)
  <2>1. LenIn(MemOf(before, i), request.src) \in 0..Width
    BY <1>1a, LenInType
  <2> QED BY <2>1, ConstantsType
<1>10. CASE request.fn = "strlen"
  <2>1. Length(st, str).mem = st.mem /\ Length(st, str).rax = Const(Len(str) - 1)
    BY DEF Length, States
  <2>2. MemOf(Length(st, str), i) = MemOf(before, i)
    BY <2>1, <1>8 DEF MemOf
  <2>3. Const(Len(str) - 1)[i] = len
    BY <1>8, <1>9, <1>10 DEF Const
  <2>4. InC(request, MemOf(before, i)) = [mem |-> MemOf(before, i), rax |-> len]
    BY <1>9, <1>10 DEF InC
  <2> QED BY <1>6, <1>10, <2>1, <2>2, <2>3, <2>4
<1>11. CASE request.fn \in {"strcpy", "strncpy"}
  <2>1. Copied(st, str).mem = Written(st.mem, request.dst, str) /\ Copied(st, str).rax = st.rax
    BY DEF Copied, States
  <2>2. st.rax[i] = request.dst
    BY <1>8, <1>11 DEF Copying, Const
  <2>3. MemOf(Copied(st, str), i) = Copy(MemOf(before, i), request.dst, request.src, Len(str))
    <3>1. MemOf(before, i) = Column(before.mem, i)
      BY DEF MemOf, Column
    <3>2. MemOf(Copied(st, str), i) = Column(Written(st.mem, request.dst, str), i)
      BY <2>1 DEF MemOf, Column
    <3>3. st.mem \in Memories /\ before.mem \in Memories
      BY <1>8 DEF States
    <3>4. StringToWrite(st.mem, before.mem, str, request.dst, request.src, i)
      <4>1. SameFor(i, st.mem, before.mem) /\ IsAt(str, i, before.mem, request.src)
        BY <1>8 DEF SameFor, IsAt
      <4>2. Len(str) \in Nat /\ Len(str) <= Width
        BY <1>8, ConstantsType
      <4> QED BY <4>1, <4>2, <3>3, <1>1a, <1>8 DEF StringToWrite
    <3>5. IsCopied(st.mem, before.mem, str, request.dst, request.src, i)
      BY ONLY <3>4, WrittenIsCopy
    <3> QED BY <3>1, <3>2, <3>5 DEF IsCopied
  <2>4. InC(request, MemOf(before, i))
          = [mem |-> Copy(MemOf(before, i), request.dst, request.src, Len(str)), rax |-> request.dst]
    <3>1. CASE request.fn = "strcpy"
      BY <3>1, <1>8 DEF InC
    <3>2. CASE request.fn = "strncpy"
      BY <3>2, <1>8 DEF InC
    <3> QED BY <1>11, <3>1, <3>2
  <2> QED BY <1>6, <1>11, <2>1, <2>2, <2>3, <2>4
<1> QED BY <1>0, <1>10, <1>11

-----------------------------------------------------------------------------
(***************************************************************************)
(* The comparisons.  strcmp stops at a byte that is the constant 0 in one  *)
(* of the strings, or MaxCmp bytes on: with constants folded no earlier    *)
(* byte of either is that constant.                                        *)
(***************************************************************************)
One(j) == At(before, request.dst + j)
Two(j) == At(before, request.src + j)

EqualTo(n, i) == \A j \in 0..n - 1 : One(j)[i] = Two(j)[i]
NoZero(n)     == \A j \in 0..n - 1 : One(j) # Const(0) /\ Two(j) # Const(0)

Compared ==
  phase = "strcmp" =>
    /\ loop.curr \in 0..MaxCmp
    /\ loop.same = {i \in Input : EqualTo(loop.curr, i)}
    /\ z3.folds => NoZero(loop.curr)

LEMMA FoldsAre ==
  ASSUME NEW e, NEW v
  PROVE  /\ TRUE \in FoldsTo(e, v) => e = Const(v)
         /\ z3.folds /\ FALSE \in FoldsTo(e, v) => e # Const(v)
BY DEF FoldsTo

LEMMA ComparedNext ==
  ASSUME DInv, Compared, Strcmp, phase' = "strcmp"
  PROVE  Compared'
<1>0. /\ phase = "strcmp" /\ heap[1] = before /\ loop \in Loops(used) /\ z3' = z3
      /\ before' = before /\ request' = request
  BY DEF DInv, TInv, Types, Comparing, Strcmp
<1>1. PICK n \in 0..MaxCmp : n = loop.curr
  BY <1>0 DEF Compared
<1>2. /\ n < MaxCmp
      /\ FALSE \in FoldsTo(One(n), 0) /\ FALSE \in FoldsTo(Two(n), 0)
      /\ loop' = [loop EXCEPT !.curr = @ + 1, !.same = loop.same \cap {i \in Input : One(n)[i] = Two(n)[i]}]
  BY <1>0, <1>1 DEF Strcmp, Returning, One, Two
<1>3. loop'.curr = n + 1 /\ n + 1 \in 0..MaxCmp
      /\ loop'.same = loop.same \cap {i \in Input : One(n)[i] = Two(n)[i]}
  BY <1>0, <1>1, <1>2, ConstantsType DEF Loops
<1>4. \A j \in 0..n : j = n \/ j \in 0..n - 1
  BY <1>1, ConstantsType
<1>5. 0..(n + 1) - 1 = 0..n /\ 0..n - 1 \subseteq 0..n /\ n \in 0..n
  BY <1>1, ConstantsType
<1>6. loop.same = {i \in Input : EqualTo(n, i)} /\ (z3.folds => NoZero(n))
  BY <1>0, <1>1 DEF Compared
<1> HIDE DEF One, Two
<1>7. loop'.same = {i \in Input : EqualTo(n + 1, i)}
  <2>1. \A i : EqualTo(n + 1, i) <=> EqualTo(n, i) /\ One(n)[i] = Two(n)[i]
    BY <1>4, <1>5 DEF EqualTo
  <2> HIDE DEF EqualTo
  <2> QED BY <2>1, <1>3, <1>6
<1>8. z3.folds => NoZero(n + 1)
  <2>1. z3.folds => One(n) # Const(0) /\ Two(n) # Const(0)
    BY <1>2, FoldsAre
  <2> HIDE DEF Const
  <2> QED BY <2>1, <1>4, <1>5, <1>6 DEF NoZero
<1>9. /\ \A i : EqualTo(n + 1, i)' <=> EqualTo(n + 1, i)
      /\ NoZero(n + 1)' <=> NoZero(n + 1)
  BY <1>0 DEF EqualTo, NoZero, One, Two
<1> HIDE DEF EqualTo, NoZero
<1> QED BY <1>0, <1>3, <1>7, <1>8, <1>9 DEF Compared

\* C's comparison of the caller's memory, as an input has it.
LEMMA DifferIs ==
  ASSUME TInv, request \in Request, NEW i \in Input, NEW len \in Int
  PROVE  Differ(MemOf(before, i), request.dst, request.src, len)
           = IF EqualTo(len, i) THEN 0 ELSE 1
<1>1. request.dst \in Nat /\ request.src \in Nat
  BY RequestType
<1>2. ASSUME NEW k \in 0..len - 1
      PROVE  /\ MemOf(before, i)[(request.dst + k) % Width] = One(k)[i]
             /\ MemOf(before, i)[(request.src + k) % Width] = Two(k)[i]
  <2>1. request.dst + k \in Nat /\ request.src + k \in Nat
    BY <1>1
  <2> QED BY <2>1, InAddress DEF MemOf, One, Two, At
<1> HIDE DEF MemOf, One, Two
<1> QED BY <1>2 DEF Differ, EqualTo

\* The end of the string at dst.
DstEnd(i) == LenIn(MemOf(before, i), request.dst)

LEMMA DstEndIs ==
  ASSUME TInv, request \in Request, NEW i \in Input
  PROVE  /\ DstEnd(i) \in 0..Width
         /\ DstEnd(i) < Width => One(DstEnd(i))[i] = 0
         /\ \A j \in 0..DstEnd(i) - 1 : One(j)[i] # 0
<1>1. request.dst \in Nat
  BY RequestType
<1>2. PICK m : m = MemOf(before, i)
  OBVIOUS
<1>3. /\ LenIn(m, request.dst) \in 0..Width
      /\ LenIn(m, request.dst) = Width \/ m[(request.dst + LenIn(m, request.dst)) % Width] = 0
      /\ \A j \in 0..LenIn(m, request.dst) - 1 : m[(request.dst + j) % Width] # 0
  BY <1>1, LenInType
<1>4. PICK e \in 0..Width : e = DstEnd(i) /\ e = LenIn(m, request.dst)
  BY <1>2, <1>3 DEF DstEnd
<1>5. ASSUME NEW j \in Nat
      PROVE  m[(request.dst + j) % Width] = One(j)[i]
  <2>1. request.dst + j \in Nat
    BY <1>1
  <2> QED BY <2>1, <1>2, InAddress DEF MemOf, One, At
<1>6. e \in Nat /\ \A j \in 0..e - 1 : j \in Nat
  BY ConstantsType
<1> HIDE DEF One, DstEnd
<1>7. e < Width => One(e)[i] = 0
  BY <1>3, <1>4, <1>5, <1>6, ConstantsType
<1>8. \A j \in 0..e - 1 : One(j)[i] # 0
  BY <1>3, <1>4, <1>5, <1>6
<1> QED BY <1>4, <1>7, <1>8

\* With a literal on either side, a difference strcmp has seen is one C sees, too: the
\* string at dst reaches it, or has ended where the other has not.
LEMMA SeenByC ==
  ASSUME TInv, request \in Request, NEW i \in Input, NEW n \in Nat, NoZero(n),
         Literal(request.dst) \/ Literal(request.src),
         NEW j \in 0..n, j < MaxCmp, One(j)[i] # Two(j)[i]
  PROVE  ~EqualTo(Least(MaxCmp, DstEnd(i) + 1), i)
<1>1. /\ DstEnd(i) \in 0..Width
      /\ DstEnd(i) < Width => One(DstEnd(i))[i] = 0
      /\ \A l \in 0..DstEnd(i) - 1 : One(l)[i] # 0
  BY DstEndIs
<1>2. PICK e \in 0..Width : e = DstEnd(i)
  BY <1>1
<1>3. ASSUME NEW k \in 0..Width, k < n, One(k) = Const(0) \/ Two(k) = Const(0)
      PROVE  FALSE
  <2>1. k \in 0..n - 1
    BY <1>3, ConstantsType
  <2> HIDE DEF One, Two, Const
  <2> QED BY <2>1, <1>3 DEF NoZero
<1>4. ASSUME j <= e
      PROVE  ~EqualTo(Least(MaxCmp, e + 1), i)
  <2>1. j \in 0..Least(MaxCmp, e + 1) - 1
    BY <1>4, ConstantsType DEF Least
  <2> HIDE DEF One, Two
  <2> QED BY <2>1 DEF EqualTo
<1>5. CASE Literal(request.dst)
  <2>1. PICK k \in 0..Width : One(k) = Const(0) /\ \A l \in 0..k - 1 : \E v \in Byte \ {0} : One(l) = Const(v)
    BY <1>5 DEF Literal, One
  <2> HIDE DEF One, Two
  <2>2. k >= n
    BY <2>1, <1>3, ConstantsType
  <2>3. CASE e < j
    <3>1. e < Width /\ e \in 0..k - 1
      BY <2>2, <2>3, ConstantsType
    <3>2. One(e)[i] = 0
      BY <3>1, <1>1, <1>2
    <3>3. One(e)[i] # 0
      BY <2>1, <3>1 DEF Const
    <3> QED BY <3>2, <3>3
  <2>4. CASE ~(e < j)
    <3>1. j <= e
      BY <2>4, ConstantsType
    <3> QED BY <3>1, <1>2, <1>4
  <2> QED BY <2>3, <2>4
<1>6. CASE Literal(request.src)
  <2>1. PICK k \in 0..Width : Two(k) = Const(0) /\ \A l \in 0..k - 1 : \E v \in Byte \ {0} : Two(l) = Const(v)
    BY <1>6 DEF Literal, Two
  <2> HIDE DEF One, Two
  <2>2. k >= n
    BY <2>1, <1>3, ConstantsType
  <2>3. CASE e < j
    <3>1. e < Width /\ e \in 0..k - 1 /\ e \in 0..Least(MaxCmp, e + 1) - 1
      BY <2>2, <2>3, ConstantsType DEF Least
    <3>2. One(e)[i] = 0
      BY <3>1, <1>1, <1>2
    <3>3. Two(e)[i] # 0
      BY <2>1, <3>1 DEF Const
    <3> QED BY <3>1, <3>2, <3>3, <1>2 DEF EqualTo
  <2>4. CASE ~(e < j)
    <3>1. j <= e
      BY <2>4, ConstantsType
    <3> QED BY <3>1, <1>2, <1>4
  <2> QED BY <2>3, <2>4
<1> QED BY <1>5, <1>6

LEMMA StrcmpEnds ==
  ASSUME DInv, Compared, Strcmp, phase' # "strcmp"
  PROVE  \E differ :
           /\ Returning(differ)
           /\ \A i \in Input : i \notin differ => EqualTo(Least(MaxCmp, DstEnd(i) + 1), i)
           /\ \A i \in Input : i \in differ =>
                \E j \in 0..loop.curr : j < MaxCmp /\ One(j)[i] # Two(j)[i]
<1>0. /\ phase = "strcmp" /\ heap[1] = before /\ TInv /\ request \in Request
  BY DEF DInv, TInv, Phased, Comparing, Strcmp
<1>1. PICK n \in 0..MaxCmp : n = loop.curr
  BY <1>0 DEF Compared
<1>2. loop.same = {i \in Input : EqualTo(n, i)}
  BY <1>0, <1>1 DEF Compared
<1> DEFINE same == {i \in Input : One(n)[i] = Two(n)[i]}
           c    == [i \in Input |-> IF i \in same THEN 1 ELSE 0]
<1>3. \/ n = MaxCmp /\ Returning(Input \ loop.same)
      \/ n < MaxCmp /\ TRUE \in FoldsTo(c, 0) /\ Returning(Input)
      \/ /\ n < MaxCmp
         /\ TRUE \in FoldsTo(One(n), 0) \cup FoldsTo(Two(n), 0)
         /\ Returning(Input \ (loop.same \cap same))
  <2> HIDE DEF Returning
  <2> QED BY <1>0, <1>1 DEF Strcmp, One, Two
<1>4. n \in Nat /\ 0..n - 1 \subseteq 0..n /\ n \in 0..n /\ \A j \in 0..n : j = n \/ j \in 0..n - 1
  BY <1>1, ConstantsType
<1>5. ASSUME NEW i \in Input
      PROVE  /\ DstEnd(i) \in 0..Width
             /\ \A j \in 0..DstEnd(i) - 1 : One(j)[i] # 0
  BY <1>0, DstEndIs
<1> HIDE DEF One, Two, Returning, DstEnd
<1>6. CASE n = MaxCmp /\ Returning(Input \ loop.same)
  <2>1. ASSUME NEW i \in Input, i \in loop.same
        PROVE  EqualTo(Least(MaxCmp, DstEnd(i) + 1), i)
    <3>1. PICK e \in 0..Width : e = DstEnd(i)
      BY <1>5
    <3>2. 0..Least(MaxCmp, e + 1) - 1 \subseteq 0..n - 1
      BY <1>6, ConstantsType DEF Least
    <3>3. EqualTo(n, i)
      BY <1>2, <2>1
    <3> QED BY <3>1, <3>2, <3>3 DEF EqualTo
  <2>2. ASSUME NEW i \in Input, i \notin loop.same
        PROVE  \E j \in 0..n : j < MaxCmp /\ One(j)[i] # Two(j)[i]
    <3>1. ~EqualTo(n, i)
      BY <1>2, <2>2
    <3>2. PICK j \in 0..n - 1 : One(j)[i] # Two(j)[i]
      BY <3>1 DEF EqualTo
    <3>3. j \in 0..n /\ j < MaxCmp
      BY <1>4, <1>6, ConstantsType
    <3> QED BY <3>2, <3>3
  <2> QED BY <1>1, <1>6, <2>1, <2>2
<1>7. CASE n < MaxCmp /\ TRUE \in FoldsTo(c, 0) /\ Returning(Input)
  <2>1. \A i \in Input : One(n)[i] # Two(n)[i]
    <3>1. c = Const(0)
      <4> HIDE DEF c
      <4> QED BY <1>7, FoldsAre
    <3>2. \A i \in Input : c[i] = 0
      <4> HIDE DEF c
      <4> QED BY <3>1 DEF Const
    <3> QED BY <3>2
  <2> QED BY <1>1, <1>4, <1>7, <2>1
<1>8. CASE /\ n < MaxCmp
           /\ TRUE \in FoldsTo(One(n), 0) \cup FoldsTo(Two(n), 0)
           /\ Returning(Input \ (loop.same \cap same))
  <2>1. One(n) = Const(0) \/ Two(n) = Const(0)
    BY <1>8, FoldsAre
  <2>2. ASSUME NEW i \in Input, i \in loop.same \cap same
        PROVE  EqualTo(Least(MaxCmp, DstEnd(i) + 1), i)
    <3>1. PICK e \in 0..Width : e = DstEnd(i)
      BY <1>5
    <3>2. EqualTo(n, i) /\ One(n)[i] = Two(n)[i]
      BY <1>2, <2>2
    <3>3. One(n)[i] = 0
      BY <2>1, <3>2 DEF Const
    <3>4. e <= n
      <4>1. n \notin 0..e - 1
        BY <3>1, <3>3, <1>5
      <4> QED BY <4>1, <1>4, ConstantsType
    <3>5. \A j \in 0..Least(MaxCmp, e + 1) - 1 : j = n \/ j \in 0..n - 1
      BY <3>4, <1>4, ConstantsType DEF Least
    <3> QED BY <3>1, <3>2, <3>5 DEF EqualTo
  <2>3. ASSUME NEW i \in Input, i \notin loop.same \cap same
        PROVE  \E j \in 0..n : j < MaxCmp /\ One(j)[i] # Two(j)[i]
    <3>1. CASE One(n)[i] # Two(n)[i]
      BY <3>1, <1>4, <1>8
    <3>2. CASE One(n)[i] = Two(n)[i]
      <4>1. ~EqualTo(n, i)
        BY <1>2, <2>3, <3>2
      <4>2. PICK j \in 0..n - 1 : One(j)[i] # Two(j)[i]
        BY <4>1 DEF EqualTo
      <4>3. j \in 0..n /\ j < MaxCmp
        BY <1>4, <1>8, ConstantsType
      <4> QED BY <4>2, <4>3
    <3> QED BY <3>1, <3>2
  <2> HIDE DEF same
  <2> QED BY <1>1, <1>8, <2>2, <2>3
<1> QED BY <1>3, <1>6, <1>7, <1>8

\* A comparison returns in the state it was called in, with its verdict in RAX.
LEMMA ReturningIs ==
  ASSUME DInv, phase \in {"strcmp", "memcmp"}, NEW differ, Returning(differ),
         request' = request, before' = before
  PROVE  /\ heap'[1].pi = before.pi /\ before.pi \subseteq Input
         /\ \A i \in Input : heap'[1].rax[i] = IF i \in differ THEN 1 ELSE 0
         /\ (\A i \in before.pi : (IF i \in differ THEN 1 ELSE 0) = InC(request, MemOf(before, i)).rax) => AsInC'
<1>1. /\ heap[1] = before /\ out' = <<1>> /\ before \in States /\ heap \in [Id -> States] /\ 1 \in Id
      /\ heap' = [heap EXCEPT ![1].rax = [i \in Input |-> IF i \in differ THEN 1 ELSE 0]]
  BY IdType DEF DInv, TInv, Types, Comparing, Returning
<1>2. /\ heap'[1].mem = before.mem /\ heap'[1].pi = before.pi /\ before.pi \subseteq Input
      /\ heap'[1].rax = [i \in Input |-> IF i \in differ THEN 1 ELSE 0]
  BY <1>1 DEF States
<1>3. \A i : MemOf(heap'[1], i) = MemOf(before, i)
  BY <1>2 DEF MemOf
<1>4. ASSUME \A i \in before.pi : (IF i \in differ THEN 1 ELSE 0) = InC(request, MemOf(before, i)).rax
      PROVE  AsInC'
  <2>1. ASSUME NEW i \in before.pi
        PROVE  [mem |-> MemOf(heap'[1], i), rax |-> heap'[1].rax[i]] = InC(request, MemOf(before, i))
    <3>1. \E v : InC(request, MemOf(before, i)) = [mem |-> MemOf(before, i), rax |-> v]
      <4>1. request.fn \in {"strcmp", "memcmp"}
        BY DEF DInv, TInv, Phased
      <4> HIDE DEF Differ, MemOf, Least, LenIn
      <4> QED BY <4>1 DEF InC
    <3>2. heap'[1].rax[i] = InC(request, MemOf(before, i)).rax
      BY <1>2, <1>4
    <3> HIDE DEF InC, MemOf
    <3> QED BY <3>1, <3>2, <1>3
  <2>2. DOMAIN out' = {1} /\ out'[1] = 1
    BY <1>1
  <2> HIDE DEF InC, MemOf
  <2> QED BY <1>2, <2>1, <2>2 DEF AsInC
<1> QED BY <1>2, <1>4

LEMMA MemcmpAsInC ==
  ASSUME DInv, Memcmp
  PROVE  AsInC'
<1>1. /\ phase = "memcmp" /\ request \in Request /\ request.fn = "memcmp" /\ TInv
      /\ request' = request /\ before' = before /\ heap[1] = before
  BY DEF Memcmp, DInv, TInv, Phased, Comparing
<1>2. PICK n \in Nat : n = request.n
  BY <1>1, RequestType
<1>3. PICK differ : Returning(differ) /\ differ = {i \in Input : ~EqualTo(n, i)}
  <2> HIDE DEF Returning
  <2>1. {i \in Input : ~EqualTo(n, i)}
          = {i \in Input : \E k \in 0..n - 1 : At(before, request.dst + k)[i] # At(before, request.src + k)[i]}
    BY DEF EqualTo, One, Two
  <2> QED BY <1>1, <1>2, <2>1 DEF Memcmp
<1>4. before.pi \subseteq Input
  BY DEF DInv, TInv, Types, States
<1>5. ASSUME NEW i \in before.pi
      PROVE  (IF i \in differ THEN 1 ELSE 0) = InC(request, MemOf(before, i)).rax
  <2>1. n \in Int /\ i \in Input
    BY <1>2, <1>4
  <2>2. Differ(MemOf(before, i), request.dst, request.src, n) = IF EqualTo(n, i) THEN 0 ELSE 1
    BY <1>1, <2>1, DifferIs
  <2>3. InC(request, MemOf(before, i)).rax = Differ(MemOf(before, i), request.dst, request.src, n)
    <3> HIDE DEF Differ, MemOf
    <3> QED BY <1>1, <1>2 DEF InC
  <2> HIDE DEF InC, Differ, MemOf, EqualTo
  <2> QED BY <1>3, <2>1, <2>2, <2>3
<1> HIDE DEF InC, MemOf, AsInC
<1> QED BY <1>1, <1>3, <1>5, ReturningIs

LEMMA StrcmpAsInC ==
  ASSUME DInv, Compared, Strcmp, phase' # "strcmp"
  PROVE  /\ \A i \in heap'[1].pi : heap'[1].rax[i] = 0 => InC(request, MemOf(before, i)).rax = 0
         /\ z3.folds /\ (Literal(request.dst) \/ Literal(request.src)) => AsInC'
<1>1. /\ phase = "strcmp" /\ request \in Request /\ request.fn = "strcmp" /\ TInv
      /\ request' = request /\ before' = before
  BY DEF Strcmp, DInv, TInv, Phased
<1>2. PICK differ :
        /\ Returning(differ)
        /\ \A i \in Input : i \notin differ => EqualTo(Least(MaxCmp, DstEnd(i) + 1), i)
        /\ \A i \in Input : i \in differ =>
             \E j \in 0..loop.curr : j < MaxCmp /\ One(j)[i] # Two(j)[i]
  BY StrcmpEnds
<1>3. /\ heap'[1].pi = before.pi /\ before.pi \subseteq Input
      /\ \A i \in Input : heap'[1].rax[i] = IF i \in differ THEN 1 ELSE 0
      /\ (\A i \in before.pi : (IF i \in differ THEN 1 ELSE 0) = InC(request, MemOf(before, i)).rax) => AsInC'
  <2> HIDE DEF InC, MemOf, AsInC, Returning
  <2> QED BY <1>1, <1>2, ReturningIs
<1>4. ASSUME NEW i \in before.pi
      PROVE  InC(request, MemOf(before, i)).rax = IF EqualTo(Least(MaxCmp, DstEnd(i) + 1), i) THEN 0 ELSE 1
  <2>1. i \in Input /\ Least(MaxCmp, DstEnd(i) + 1) \in Int
    <3>1. i \in Input
      BY <1>3
    <3>2. PICK e \in 0..Width : e = DstEnd(i)
      BY <1>1, <3>1, DstEndIs
    <3> QED BY <3>1, <3>2, ConstantsType DEF Least
  <2>2. Differ(MemOf(before, i), request.dst, request.src, Least(MaxCmp, DstEnd(i) + 1))
          = IF EqualTo(Least(MaxCmp, DstEnd(i) + 1), i) THEN 0 ELSE 1
    BY <1>1, <2>1, DifferIs
  <2>3. InC(request, MemOf(before, i)).rax
          = Differ(MemOf(before, i), request.dst, request.src, Least(MaxCmp, DstEnd(i) + 1))
    <3> HIDE DEF Differ, MemOf, Least, LenIn
    <3> QED BY <1>1 DEF InC, DstEnd
  <2> HIDE DEF InC, Differ, MemOf, EqualTo
  <2> QED BY <2>2, <2>3
<1> HIDE DEF InC, MemOf, AsInC, EqualTo, Returning, DstEnd, Least
<1>5. \A i \in heap'[1].pi : heap'[1].rax[i] = 0 => InC(request, MemOf(before, i)).rax = 0
  <2> SUFFICES ASSUME NEW i \in before.pi, heap'[1].rax[i] = 0
               PROVE  InC(request, MemOf(before, i)).rax = 0
    BY <1>3
  <2>1. i \in Input /\ i \notin differ
    BY <1>3
  <2>2. EqualTo(Least(MaxCmp, DstEnd(i) + 1), i)
    BY <1>2, <2>1
  <2> QED BY <1>4, <2>2
<1>6. ASSUME z3.folds, Literal(request.dst) \/ Literal(request.src)
      PROVE  AsInC'
  <2>1. PICK n \in Nat : n = loop.curr /\ NoZero(n)
    <3>1. loop.curr \in 0..MaxCmp /\ NoZero(loop.curr)
      BY <1>1, <1>6 DEF Compared
    <3>2. loop.curr \in Nat
      BY <3>1, ConstantsType
    <3> QED BY <3>1, <3>2
  <2>2. ASSUME NEW i \in before.pi
        PROVE  (IF i \in differ THEN 1 ELSE 0) = InC(request, MemOf(before, i)).rax
    <3>1. i \in Input
      BY <1>3
    <3>2. CASE i \in differ
      <4>1. PICK j \in 0..n : j < MaxCmp /\ One(j)[i] # Two(j)[i]
        BY <1>2, <2>1, <3>1, <3>2
      <4>2. ~EqualTo(Least(MaxCmp, DstEnd(i) + 1), i)
        <5> HIDE DEF Literal, NoZero, One, Two
        <5> QED BY <1>1, <1>6, <2>1, <3>1, <4>1, SeenByC
      <4> QED BY <1>4, <3>2, <4>2
    <3>3. CASE i \notin differ
      <4>1. EqualTo(Least(MaxCmp, DstEnd(i) + 1), i)
        BY <1>2, <3>1, <3>3
      <4> QED BY <1>4, <3>3, <4>1
    <3> QED BY <3>2, <3>3
  <2> QED BY <1>3, <2>2
<1> QED BY <1>5, <1>6

-----------------------------------------------------------------------------
CInv == RInv /\ ResultsRead /\ Compared /\ ResultsAsInC

LEMMA ResultInit == Init => CInv
<1> SUFFICES ASSUME Init
             PROVE  CInv
  OBVIOUS
<1>1. RInv
  BY ReadInit
<1>2. phase = "idle" /\ request.fn = "none"
  BY DEF Init, NoRequest
<1>3. ResultsRead /\ Compared
  BY <1>2 DEF ResultsRead, Compared
<1>4. ResultsAsInC
  <2>1. ~Returned
    BY <1>2 DEF Returned
  <2> QED BY <2>1 DEF ResultsAsInC
<1> QED BY <1>1, <1>3, <1>4 DEF CInv

\* While a call goes on it has no result.
LEMMA Underway ==
  ASSUME phase' \notin {"idle", "strcmp"}
  PROVE  ResultsAsInC' /\ Compared'
BY DEF ResultsAsInC, Returned, Compared

LEMMA ResultNext ==
  ASSUME CInv, [Next]_vars
  PROVE  CInv'
<1>0. RInv /\ DInv /\ TInv /\ ResultsRead /\ Compared /\ ResultsAsInC
  BY DEF CInv, RInv, DInv
<1>1. RInv'
  BY <1>0, ReadNext
<1> HIDE DEF ResultsRead, Compared, ResultsAsInC, RInv, DInv, TInv
<1>2. CASE Begin
  <2>1. PICK r \in Request :
          CASE r.fn \in {"strlen", "strcpy"} -> Resolving(1, r.src, MaxForks, Unlimited)
            [] r.fn = "strncpy" -> Resolving(1, r.src, MaxForks, AsInt(r.n))
            [] r.fn = "strcat" -> Resolving(1, r.src, MaxForksCat, Unlimited)
            [] OTHER -> /\ loop' = [Idle EXCEPT !.same = Input]
                        /\ res' = <<>>
                        /\ phase' = r.fn
    BY <1>2 DEF Begin
  <2>2. \/ phase' = "resolve" /\ res' = <<>>
        \/ phase' \in {"strcmp", "memcmp"} /\ loop'.curr = 0 /\ loop'.same = Input
    BY <2>1, RequestType DEF Resolving, Function, Idle
  <2>3. ResultsRead' /\ ResultsAsInC'
    BY <2>2 DEF ResultsRead, ResultsAsInC, Returned
  <2>4. Compared'
    BY <2>2, ConstantsType DEF Compared, EqualTo, NoZero
  <2> QED BY <1>1, <2>3, <2>4 DEF CInv
<1>3. CASE NotZero
  <2>1. phase' = "resolve" /\ UNCHANGED <<phase, heap, res, srcs, before, request, z3>>
    BY <1>3 DEF NotZero, Reading
  <2>2. ResultsRead'
    <3>1. From' = From /\ UNCHANGED <<phase, heap, res, before, request, z3>>
      BY <2>1 DEF From
    <3>2. \A str, i : IsString(str, i)' <=> IsString(str, i)
      BY <3>1 DEF IsString, Matches, Taken, Cut, InBefore, EndOf
    <3>3. ~z3.timeouts => \A k \in DOMAIN res : \A i \in heap[res[k].id].pi : IsString(res[k].str, i)
      BY <1>0, <2>1 DEF ResultsRead
    <3> HIDE DEF IsString
    <3> QED BY <3>1, <3>2, <3>3 DEF ResultsRead
  <2> QED BY <1>1, <2>1, <2>2, Underway DEF CInv
<1>4. CASE EndOfString \/ LastEnd \/ ForkEnd
  <2>1. phase' \in {"resolve", "resolved"}
    BY <1>4 DEF EndOfString, LastEnd, ForkEnd, MayEnd, Reading, Resolved
  <2>2. ResultsRead'
    BY <1>0, <1>4, ResultsReadNext
  <2> QED BY <1>1, <2>1, <2>2, Underway DEF CInv
<1>5. CASE Strlen \/ Strcpy
  <2>1. /\ phase' = "idle" /\ request' = request /\ z3' = z3
        /\ request.fn \in {"strlen", "strcpy", "strncpy"}
    BY <1>5 DEF Strlen, Strcpy, ReturnAll
  <2>2. ~z3.timeouts /\ (request.fn = "strncpy" => request.n < IntLimit) => AsInC'
    BY <1>0, <1>5, ReturnAsInC
  <2>3. ResultsRead' /\ Compared'
    BY <2>1 DEF ResultsRead, Compared
  <2>4. ResultsAsInC'
    <3> HIDE DEF AsInC, InC, MemOf, Literal
    <3> QED BY <2>1, <2>2 DEF ResultsAsInC
  <2> QED BY <1>1, <2>3, <2>4 DEF CInv
<1>6. CASE StrcatSource \/ StrcatDest
  <2>1. request' = request /\ request.fn = "strcat"
        /\ ((phase' = "resolve" /\ res' = <<>>) \/ phase' = "idle")
    BY <1>6 DEF StrcatSource, StrcatDest, Resolving
  <2>2. ResultsRead' /\ ResultsAsInC' /\ Compared'
    BY <2>1 DEF ResultsRead, ResultsAsInC, Compared
  <2> QED BY <1>1, <2>2 DEF CInv
<1>7. CASE Memcmp
  <2>1. /\ phase' = "idle" /\ request' = request /\ request.fn = "memcmp"
    BY <1>0, <1>7 DEF Memcmp, Returning, TInv, Phased
  <2>2. AsInC'
    BY <1>0, <1>7, MemcmpAsInC
  <2>3. ResultsRead' /\ Compared'
    BY <2>1 DEF ResultsRead, Compared
  <2>4. ResultsAsInC'
    <3> HIDE DEF AsInC, InC, MemOf, Literal
    <3> QED BY <2>1, <2>2 DEF ResultsAsInC
  <2> QED BY <1>1, <2>3, <2>4 DEF CInv
<1>8. CASE Strcmp
  <2>1. /\ phase = "strcmp" /\ request' = request /\ before' = before /\ z3' = z3 /\ request.fn = "strcmp"
    BY <1>0, <1>8 DEF Strcmp, TInv, Phased
  <2>2. CASE phase' = "strcmp"
    <3>1. Compared'
      BY <1>0, <1>8, <2>2, ComparedNext
    <3>2. ResultsRead' /\ ResultsAsInC'
      BY <2>2 DEF ResultsRead, ResultsAsInC, Returned
    <3> QED BY <1>1, <3>1, <3>2 DEF CInv
  <2>3. CASE phase' # "strcmp"
    <3>1. /\ \A i \in heap'[1].pi : heap'[1].rax[i] = 0 => InC(request, MemOf(before, i)).rax = 0
          /\ z3.folds /\ (Literal(request.dst) \/ Literal(request.src)) => AsInC'
      BY <1>0, <1>8, <2>3, StrcmpAsInC
    <3>2. phase' = "idle"
      BY <1>8, <2>1, <2>3 DEF Strcmp, Returning
    <3>3. ResultsRead' /\ Compared'
      BY <3>2 DEF ResultsRead, Compared
    <3>4. Literal(request.dst)' <=> Literal(request.dst)
      BY <2>1 DEF Literal
    <3>5. Literal(request.src)' <=> Literal(request.src)
      BY <2>1 DEF Literal
    <3>6. ResultsAsInC'
      <4> HIDE DEF AsInC, InC, MemOf, Literal
      <4> QED BY <2>1, <3>1, <3>4, <3>5 DEF ResultsAsInC
    <3> QED BY <1>1, <3>3, <3>6 DEF CInv
  <2> QED BY <2>2, <2>3
<1>9. CASE Fail
  <2>1. phase' = "failed"
    BY <1>9 DEF Fail
  <2>2. ResultsRead'
    BY <2>1 DEF ResultsRead
  <2> QED BY <1>1, <2>1, <2>2, Underway DEF CInv
<1>10. CASE Done \/ UNCHANGED vars
  <2>1. UNCHANGED vars
    BY <1>10 DEF Done
  <2>2. ResultsRead' /\ Compared'
    BY <1>0, <2>1 DEF vars, ResultsRead, IsString, Matches, Taken, Cut, InBefore, EndOf, From,
                      Compared, EqualTo, NoZero, One, Two
  <2>3. ResultsAsInC'
    BY <1>0, <2>1 DEF vars, ResultsAsInC, Returned, AsInC, Literal
  <2> QED BY <1>1, <2>2, <2>3 DEF CInv
<1> QED BY <1>2, <1>3, <1>4, <1>5, <1>6, <1>7, <1>8, <1>9, <1>10 DEF Next

(***************************************************************************)
(* As long as Z3 answers, a call of strlen, strcpy, strncpy or memcmp      *)
(* leaves in every state it returns, for every input on its path, the      *)
(* memory and the result that C's function leaves, and so does strcmp      *)
(* where one of the strings is a literal; without one it takes no two      *)
(* different strings for equal.  The bytes that strncpy is asked for are   *)
(* fewer than IntLimit.                                                    *)
(***************************************************************************)
THEOREM ResultsAreAsInC == Spec => []ResultsAsInC
<1>1. CInv => ResultsAsInC
  BY DEF CInv
<1> QED BY <1>1, ResultInit, ResultNext, PTL DEF Spec
=============================================================================
