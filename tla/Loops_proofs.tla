----------------------------- MODULE Loops_proofs -----------------------------
(***************************************************************************)
(* Loops over a sequence: the models write them as FoldLeft.  FoldLeft is  *)
(* a recursive function on the sets of indices; here is that there is such *)
(* a function, and an induction on the indices done, for a set of numbers. *)
(***************************************************************************)
EXTENDS SequencesExt, FiniteSetTheorems, TLAPS

LEMMA LeastNumber ==
  ASSUME NEW T \in SUBSET Nat, T # {}
  PROVE  \E n \in T : \A m \in T : n <= m
<1> DEFINE Less == {r \in Nat \X Nat : r[1] < r[2]}
<1>1. IsWellFoundedOn(Less, Nat)
  BY NatLessThanWellFounded DEF OpToRel
<1>2. PICK n \in T : \A m \in T : <<m, n>> \notin Less
  <2> HIDE DEF Less
  <2> QED BY <1>1, WFMin
<1>3. ASSUME NEW m \in T
      PROVE  n <= m
  <2>1. <<m, n>> \in Less <=> m < n
    OBVIOUS
  <2> QED BY <2>1, <1>2
<1> QED BY <1>3

\* Induction: a set with 0, and with n + 1 whenever n is in it.
LEMMA SetInduction ==
  ASSUME NEW N \in Nat, NEW S, 0 \in S, \A n \in 0..N - 1 : n \in S => n + 1 \in S
  PROVE  0..N \subseteq S
<1> DEFINE T == (0..N) \ S
<1> SUFFICES ASSUME T # {}
             PROVE  FALSE
  OBVIOUS
<1>0. T \in SUBSET Nat
  OBVIOUS
<1>1. PICK n \in T : \A m \in T : n <= m
  <2> HIDE DEF T
  <2> QED BY <1>0, LeastNumber
<1>2. n # 0 /\ n - 1 \in 0..N - 1 /\ n - 1 \in S
  BY <1>1
<1> QED BY <1>2, <1>1

LEMMA MaxIs ==
  ASSUME NEW s, NEW n \in s, s \subseteq Int, \A y \in s : n >= y
  PROVE  Max(s) = n
<1>1. \A x \in s : (\A y \in s : x >= y) => x = n
  OBVIOUS
<1> QED BY <1>1 DEF Max

LEMMA MaxInSet ==
  ASSUME NEW N \in Nat, NEW s \in SUBSET (1..N), s # {}
  PROVE  Max(s) \in s
<1> DEFINE T == {n \in 0..N : \A y \in s : y <= n}
<1>1. T \in SUBSET Nat /\ N \in T
  OBVIOUS
<1>2. PICK n \in T : \A m \in T : n <= m
  <2> HIDE DEF T
  <2> QED BY <1>1, LeastNumber
<1>3. n \in s
  <2> SUFFICES ASSUME n \notin s
               PROVE  FALSE
    OBVIOUS
  <2>1. n \in 0..N /\ \A y \in s : y \in 1..n - 1
    OBVIOUS
  <2>2. n - 1 \in T
    <3>1. PICK y \in s : TRUE
      OBVIOUS
    <3> QED BY <2>1, <3>1
  <2>3. n <= n - 1
    BY <2>2, <1>2
  <2> QED BY <2>3, <2>1
<1>4. s \subseteq Int /\ \A y \in s : n >= y
  OBVIOUS
<1> QED BY <1>3, <1>4, MaxIs

LEMMA MaxOfPrefix ==
  ASSUME NEW k \in Nat \ {0}
  PROVE  1..k # {} /\ Max(1..k) = k /\ (1..k) \ {Max(1..k)} = 1..k - 1
<1>1. k \in 1..k /\ 1..k \subseteq Int /\ \A y \in 1..k : k >= y
  OBVIOUS
<1>2. Max(1..k) = k
  BY <1>1, MaxIs
<1>3. (1..k) \ {k} = 1..k - 1
  OBVIOUS
<1> QED BY <1>1, <1>2, <1>3

(***************************************************************************)
(* The function FoldLeft chooses exists: one on the subsets of 1..n is     *)
(* extended to those of 1..n + 1.  The operation is a function op here.    *)
(***************************************************************************)
Foldable(X, Y, base, op, q, N) ==
  base \in X /\ op \in [X \X Y -> X] /\ \A k \in 1..N : q[k] \in Y

Folds(X, base, op, q, N) ==
  \E G \in [SUBSET (1..N) -> X] : \A s \in SUBSET (1..N) :
    G[s] = IF s = {} THEN base ELSE op[<<G[s \ {Max(s)}], q[Max(s)]>>]

LEMMA LoopExists ==
  ASSUME NEW X, NEW Y, NEW base, NEW op, NEW q, NEW N \in Nat, Foldable(X, Y, base, op, q, N)
  PROVE  Folds(X, base, op, q, N)
<1> USE DEF Foldable
<1> DEFINE Value(f, s) == IF s = {} THEN base ELSE op[<<f[s \ {Max(s)}], q[Max(s)]>>]
           Good(n) == \E f \in [SUBSET (1..n) -> X] : \A s \in SUBSET (1..n) : f[s] = Value(f, s)
           S == {n \in 0..N : Good(n)}
<1>1. 0 \in S
  <2> DEFINE f == [s \in SUBSET (1..0) |-> base]
  <2>1. f \in [SUBSET (1..0) -> X] /\ \A s \in SUBSET (1..0) : s = {} /\ f[s] = base
    OBVIOUS
  <2>2. Good(0)
    BY <2>1
  <2> HIDE DEF Good
  <2> QED BY <2>2
<1>2. ASSUME NEW n \in 0..N - 1, n \in S
      PROVE  n + 1 \in S
  <2>1. PICK f \in [SUBSET (1..n) -> X] : \A s \in SUBSET (1..n) : f[s] = Value(f, s)
    BY <1>2
  <2> DEFINE g == [s \in SUBSET (1..n + 1) |->
                     IF n + 1 \in s THEN op[<<f[s \ {n + 1}], q[n + 1]>>] ELSE f[s]]
  <2>2. g \in [SUBSET (1..n + 1) -> X]
    <3>1. ASSUME NEW s \in SUBSET (1..n + 1), n + 1 \in s
          PROVE  op[<<f[s \ {n + 1}], q[n + 1]>>] \in X
      <4>1. s \ {n + 1} \in SUBSET (1..n) /\ n + 1 \in 1..N
        OBVIOUS
      <4>2. f[s \ {n + 1}] \in X /\ q[n + 1] \in Y
        BY <4>1
      <4> QED BY <4>2
    <3>2. ASSUME NEW s \in SUBSET (1..n + 1), n + 1 \notin s
          PROVE  f[s] \in X
      <4>1. s \in SUBSET (1..n)
        BY <3>2
      <4> QED BY <4>1
    <3> QED BY <3>1, <3>2
  <2>3. ASSUME NEW s \in SUBSET (1..n + 1)
        PROVE  g[s] = Value(g, s)
    <3>1. CASE n + 1 \in s
      <4>1. Max(s) = n + 1
        <5>1. s \subseteq Int /\ \A y \in s : n + 1 >= y
          OBVIOUS
        <5> QED BY <5>1, <3>1, MaxIs
      <4>2. s \ {n + 1} \in SUBSET (1..n + 1) /\ n + 1 \notin s \ {n + 1} /\ s # {}
        BY <3>1
      <4>3. g[s \ {n + 1}] = f[s \ {n + 1}]
        BY <4>2
      <4> QED BY <4>1, <4>2, <4>3, <3>1
    <3>2. CASE n + 1 \notin s
      <4>1. s \in SUBSET (1..n)
        BY <3>2
      <4>2. s \ {Max(s)} \in SUBSET (1..n + 1) /\ n + 1 \notin s \ {Max(s)}
        BY <3>2
      <4>3. g[s] = f[s] /\ g[s \ {Max(s)}] = f[s \ {Max(s)}]
        BY <4>2, <3>2
      <4> QED BY <4>1, <4>3, <2>1
    <3> QED BY <3>1, <3>2
  <2>4. Good(n + 1)
    <3> HIDE DEF g, Value
    <3> QED BY <2>2, <2>3
  <2>5. n + 1 \in 0..N
    OBVIOUS
  <2> HIDE DEF Good
  <2> QED BY <2>4, <2>5
<1>3. 0..N \subseteq S
  <2> HIDE DEF S
  <2> QED BY <1>1, <1>2, SetInduction
<1>4. N \in S
  <2>1. N \in 0..N
    OBVIOUS
  <2> HIDE DEF S
  <2> QED BY <2>1, <1>3
<1> QED BY <1>4 DEF Folds

\* The same for a recursive function on numbers, one step of `next` for each.
Iterable(X, x, next) == x \in X /\ next \in [X -> X]

Iterated(X, x, next, N) ==
  \E f \in [0..N -> X] : f[0] = x /\ \A k \in 1..N : f[k] = next[f[k - 1]]

LEMMA Iterates ==
  ASSUME NEW X, NEW x, NEW next, NEW N \in Nat, Iterable(X, x, next)
  PROVE  Iterated(X, x, next, N)
<1> USE DEF Iterable
<1> DEFINE Good(n) == \E f \in [0..n -> X] : f[0] = x /\ \A k \in 1..n : f[k] = next[f[k - 1]]
           S == {n \in 0..N : Good(n)}
<1>1. 0 \in S
  <2>1. [k \in 0..0 |-> x] \in [0..0 -> X] /\ [k \in 0..0 |-> x][0] = x /\ 1..0 = {}
    OBVIOUS
  <2>2. Good(0)
    BY <2>1
  <2> HIDE DEF Good
  <2> QED BY <2>2
<1>2. ASSUME NEW n \in 0..N - 1, n \in S
      PROVE  n + 1 \in S
  <2>1. PICK f \in [0..n -> X] : f[0] = x /\ \A k \in 1..n : f[k] = next[f[k - 1]]
    BY <1>2
  <2> DEFINE g == [k \in 0..n + 1 |-> IF k = n + 1 THEN next[f[n]] ELSE f[k]]
  <2>2. n \in 0..n /\ \A k \in 0..n + 1 : k # n + 1 => k \in 0..n
    OBVIOUS
  <2>3. g \in [0..n + 1 -> X]
    BY <2>2
  <2>4. g[0] = x
    BY <2>1
  <2>5. ASSUME NEW k \in 1..n + 1
        PROVE  g[k] = next[g[k - 1]]
    <3>1. k - 1 \in 0..n /\ g[k - 1] = f[k - 1]
      OBVIOUS
    <3>2. CASE k = n + 1
      BY <3>1, <3>2
    <3>3. CASE k # n + 1
      <4>1. k \in 1..n /\ g[k] = f[k]
        BY <3>3
      <4> HIDE DEF g
      <4> QED BY <2>1, <3>1, <4>1
    <3> QED BY <3>2, <3>3
  <2>6. Good(n + 1)
    <3> HIDE DEF g
    <3> QED BY <2>3, <2>4, <2>5
  <2>7. n + 1 \in 0..N
    OBVIOUS
  <2> HIDE DEF Good
  <2> QED BY <2>6, <2>7
<1>3. N \in S
  <2> HIDE DEF S
  <2>1. 0..N \subseteq S
    BY <1>1, <1>2, SetInduction
  <2> QED BY <2>1
<1> QED BY <1>3 DEF Iterated
=============================================================================
