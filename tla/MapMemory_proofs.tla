--------------------------- MODULE MapMemory_proofs ---------------------------
(***************************************************************************)
(* Symbolic memory is, for each input of a path, a plain memory: for every *)
(* size of memory, image, pointers, values, limit of enumerated addresses  *)
(* and length of a run.                                                    *)
(***************************************************************************)
EXTENDS MapMemory, Loops_proofs

Bytes   == [Input -> Byte]
Data(n) == [1..n -> Bytes]
Endian  == {"BIG", "LITTLE"}

\* What m_memory can be: bytes at some of the addresses.
Memories == UNION {[D -> Bytes] : D \in SUBSET Address}

-----------------------------------------------------------------------------
(***************************************************************************)
(* Addresses: an access of len bytes at a touches the places of its bytes. *)
(***************************************************************************)
LEMMA InAddress ==
  ASSUME NEW n \in Nat
  PROVE  n % Width \in Address
<1>1. Width \in Nat /\ Width > 0
  BY MemoryAssumption
<1>2. n % Width \in 0..Width - 1
  BY <1>1
<1> QED BY <1>2 DEF Address

LEMMA PlaceType ==
  ASSUME NEW len \in Nat, NEW k \in 1..len, NEW end \in Endian
  PROVE  Place(k, len, end) \in 0..len - 1
BY DEF Place, Endian

LEMMA SpanIsPlaces ==
  ASSUME NEW a \in Nat, NEW len \in Nat, NEW end \in Endian, NEW x
  PROVE  x \in Span(a, len) <=> \E k \in 1..len : x = (a + Place(k, len, end)) % Width
<1>1. ASSUME NEW j \in 0..len - 1
      PROVE  \E k \in 1..len : Place(k, len, end) = j
  <2>1. CASE end = "BIG"
    <3>1. j + 1 \in 1..len /\ Place(j + 1, len, end) = j
      BY <2>1 DEF Place
    <3> QED BY <3>1
  <2>2. CASE end # "BIG"
    <3>1. len - j \in 1..len /\ Place(len - j, len, end) = j
      BY <2>2 DEF Place
    <3> QED BY <3>1
  <2> QED BY <2>1, <2>2
<1>2. \A k \in 1..len : Place(k, len, end) \in 0..len - 1
  BY PlaceType
<1> QED BY <1>1, <1>2 DEF Span

LEMMA SpanType ==
  ASSUME NEW a \in Nat, NEW len \in Nat
  PROVE  Span(a, len) \subseteq Address
<1>1. ASSUME NEW k \in 0..len - 1
      PROVE  (a + k) % Width \in Address
  <2>1. a + k \in Nat
    OBVIOUS
  <2> QED BY <2>1, InAddress
<1> QED BY <1>1 DEF Span

LEMMA AddressNat == Address \subseteq Nat
BY MemoryAssumption DEF Address

(***************************************************************************)
(* Reading: a byte that is made up and stored is what is read anyway.      *)
(***************************************************************************)
LEMMA ByteAtType ==
  ASSUME NEW m \in Memories, NEW x \in Address
  PROVE  ByteAt(m, x) \in Bytes
<1>1. PICK D \in SUBSET Address : m \in [D -> Bytes]
  BY DEF Memories
<1>2. Unknown[x] \in Bytes /\ 0 \in Byte /\ \A a \in DOMAIN Image : Image[a] \in Byte
  BY MemoryAssumption DEF Bytes, Address
<1>3. \A b \in Byte : Const(b) \in Bytes
  BY DEF Const, Bytes
<1> QED BY <1>1, <1>2, <1>3 DEF ByteAt

LEMMA TouchedIsSame ==
  ASSUME NEW m \in Memories, NEW A \in SUBSET Address, NEW len \in Nat
  PROVE  /\ Touched(m, A, len) \in Memories
         /\ \A x \in Address : ByteAt(Touched(m, A, len), x) = ByteAt(m, x)
<1>1. PICK D \in SUBSET Address : m \in [D -> Bytes]
  BY DEF Memories
<1> DEFINE E == D \cup UNION {Span(a, len) : a \in A}
<1>2. \A a \in A : Span(a, len) \subseteq Address
  BY SpanType, AddressNat
<1>3. E \in SUBSET Address
  BY <1>2
<1>4. Touched(m, A, len) = [x \in E |-> ByteAt(m, x)]
  BY <1>1 DEF Touched
<1>5. \A x \in E : ByteAt(m, x) \in Bytes
  BY <1>3, ByteAtType
<1>6. Touched(m, A, len) \in [E -> Bytes]
  <2> HIDE DEF E
  <2> QED BY <1>4, <1>5
<1>7. ASSUME NEW x \in Address
      PROVE  ByteAt(Touched(m, A, len), x) = ByteAt(m, x)
  <2>1. CASE x \in E
    <3>1. x \in DOMAIN Touched(m, A, len) /\ Touched(m, A, len)[x] = ByteAt(m, x)
      <4> HIDE DEF E
      <4> QED BY <1>4, <2>1
    <3>2. ByteAt(Touched(m, A, len), x) = Touched(m, A, len)[x]
      BY <3>1 DEF ByteAt
    <3> QED BY <3>1, <3>2
  <2>2. CASE x \notin E
    <3>1. x \notin DOMAIN Touched(m, A, len) /\ x \notin DOMAIN m
      BY <1>4, <2>2, <1>1
    <3> QED BY <3>1 DEF ByteAt
  <2> QED BY <2>1, <2>2
<1> QED BY <1>3, <1>6, <1>7 DEF Memories

LEMMA ReadAtType ==
  ASSUME NEW m \in Memories, NEW a \in Address, NEW len \in Nat, NEW end \in Endian
  PROVE  /\ ReadAt(m, a, len, end) \in Data(len)
         /\ \A k \in 1..len : (a + Place(k, len, end)) % Width \in Address
<1>1. ASSUME NEW k \in 1..len
      PROVE  (a + Place(k, len, end)) % Width \in Address
  <2>1. a + Place(k, len, end) \in Nat
    BY PlaceType, AddressNat
  <2> QED BY <2>1, InAddress
<1>2. \A k \in 1..len : ByteAt(m, (a + Place(k, len, end)) % Width) \in Bytes
  BY <1>1, ByteAtType
<1> QED BY <1>1, <1>2 DEF ReadAt, Data

(***************************************************************************)
(* Writing.                                                                *)
(***************************************************************************)
Where(x, a, n, end) == CHOOSE k \in 1..n : x = (a + Place(k, n, end)) % Width

LEMMA WhereIs ==
  ASSUME NEW a \in Address, NEW n \in Nat, NEW end \in Endian, NEW x \in Span(a, n)
  PROVE  Where(x, a, n, end) \in 1..n /\ x = (a + Place(Where(x, a, n, end), n, end)) % Width
<1>1. \E k \in 1..n : x = (a + Place(k, n, end)) % Width
  BY SpanIsPlaces, AddressNat
<1> QED BY <1>1 DEF Where

LEMMA LenData ==
  ASSUME NEW n \in Nat, NEW v \in Data(n)
  PROVE  Len(v) = n /\ DOMAIN v = 1..n
BY DEF Data

LEMMA WriteAtIs ==
  ASSUME NEW m \in Memories, NEW a \in Address, NEW n \in Nat, NEW v \in Data(n), NEW end \in Endian
  PROVE  /\ WriteAt(m, a, v, end) \in Memories
         /\ \A x \in Address : ByteAt(WriteAt(m, a, v, end), x) =
              IF x \in Span(a, n) THEN v[Where(x, a, n, end)] ELSE ByteAt(m, x)
<1>1. PICK D \in SUBSET Address : m \in [D -> Bytes]
  BY DEF Memories
<1>2. Len(v) = n /\ DOMAIN v = 1..n
  BY LenData
<1> DEFINE E == D \cup Span(a, n)
<1>3. E \in SUBSET Address
  BY SpanType, AddressNat
<1>4. \A x : ByteFor(x, a, v, end) = v[Where(x, a, n, end)]
  BY <1>2 DEF ByteFor, Where
<1>5. WriteAt(m, a, v, end) = [x \in E |-> IF x \in Span(a, n) THEN v[Where(x, a, n, end)] ELSE m[x]]
  BY <1>1, <1>2, <1>4 DEF WriteAt
<1>6. \A x \in Span(a, n) : v[Where(x, a, n, end)] \in Bytes
  BY WhereIs DEF Data
<1>7. WriteAt(m, a, v, end) \in [E -> Bytes]
  BY <1>1, <1>5, <1>6
<1>8. ASSUME NEW x \in Address
      PROVE  ByteAt(WriteAt(m, a, v, end), x) =
               IF x \in Span(a, n) THEN v[Where(x, a, n, end)] ELSE ByteAt(m, x)
  <2>1. DOMAIN WriteAt(m, a, v, end) = D \cup Span(a, n) /\ DOMAIN m = D
    BY <1>1, <1>5
  <2>2. CASE x \in E
    BY <2>2, <2>1, <1>5 DEF ByteAt
  <2>3. CASE x \notin E
    BY <2>3, <2>1 DEF ByteAt
  <2> QED BY <2>2, <2>3
<1> QED BY <1>3, <1>7, <1>8 DEF Memories

LEMMA IteType ==
  ASSUME NEW p, NEW a, NEW n \in Nat, NEW v \in Data(n), NEW w \in Data(n)
  PROVE  Ite(p, a, v, w) \in Data(n)
BY LenData DEF Ite, Data, Bytes

\* One iteration of a symbolic write.
WrittenNext(m, p, a, v, end) == WriteAt(m, a, Ite(p, a, v, ReadAt(m, a, Len(v), end)), end)

\* From old to new, the value goes to address a for the inputs that have it as p.
WritesFor(new, old, p, a, n, v, end) ==
  \A x \in Address, i \in Input : ByteAt(new, x)[i] =
    IF p[i] = a /\ x \in Span(a, n) THEN v[Where(x, a, n, end)][i] ELSE ByteAt(old, x)[i]

LEMMA WrittenNextIs ==
  ASSUME NEW m \in Memories, NEW p, NEW a \in Address, NEW n \in Nat, NEW v \in Data(n),
         NEW end \in Endian
  PROVE  /\ WrittenNext(m, p, a, v, end) \in Memories
         /\ WritesFor(WrittenNext(m, p, a, v, end), m, p, a, n, v, end)
<1> DEFINE old == ReadAt(m, a, n, end)
           new == Ite(p, a, v, old)
<1>1. Len(v) = n /\ old \in Data(n) /\ new \in Data(n)
  BY LenData, ReadAtType, IteType
<1>2. \A k \in 1..n, i \in Input : new[k][i] = IF p[i] = a THEN v[k][i] ELSE old[k][i]
  BY LenData DEF Ite
<1>3. WrittenNext(m, p, a, v, end) = WriteAt(m, a, new, end)
  BY <1>1 DEF WrittenNext
<1>4. ASSUME NEW x \in Address, NEW i \in Input, x \in Span(a, n)
      PROVE  new[Where(x, a, n, end)][i] =
               IF p[i] = a THEN v[Where(x, a, n, end)][i] ELSE ByteAt(m, x)[i]
  <2> DEFINE k == Where(x, a, n, end)
  <2>1. k \in 1..n /\ x = (a + Place(k, n, end)) % Width
    BY <1>4, WhereIs
  <2>2. old[k] = ByteAt(m, x)
    <3> HIDE DEF k
    <3> QED BY <2>1 DEF ReadAt
  <2>3. new[k][i] = IF p[i] = a THEN v[k][i] ELSE old[k][i]
    <3> HIDE DEF k, old, new
    <3> QED BY <1>2, <2>1
  <2> QED BY <2>2, <2>3
<1> HIDE DEF new
<1> QED BY <1>1, <1>3, <1>4, WriteAtIs DEF WritesFor

(***************************************************************************)
(* The whole loop of a symbolic write: each input gets the value at its    *)
(* own address, if that is one of them.                                    *)
(***************************************************************************)
WriteLoop(p, q, v, end) ==
  \E G : /\ G[{}] = m_memory /\ G[1..Len(q)] = WriteEach(p, q, v, end)
         /\ \A k \in 1..Len(q) : G[1..k] = WrittenNext(G[1..k - 1], p, q[k], v, end)

LEMMA WriteEachSteps ==
  ASSUME m_memory \in Memories, NEW p, NEW q \in Seq(Address), NEW n \in Nat, NEW v \in Data(n),
         NEW end \in Endian
  PROVE  WriteLoop(p, q, v, end)
<1> DEFINE N == Len(q)
           op == [r \in Memories \X Address |-> WrittenNext(r[1], p, r[2], v, end)]
           Folded(g, s) == IF s = {} THEN m_memory
                          ELSE WrittenNext(g[s \ {Max(s)}], p, q[Max(s)], v, end)
           G == CHOOSE g : g = [s \in SUBSET (1..N) |-> Folded(g, s)]
<1>1. N \in Nat /\ DOMAIN q = 1..N /\ \A k \in 1..N : q[k] \in Address
  OBVIOUS
<1>2. op \in [Memories \X Address -> Memories]
  BY WrittenNextIs
<1>3. PICK F \in [SUBSET (1..N) -> Memories] : \A s \in SUBSET (1..N) :
        F[s] = IF s = {} THEN m_memory ELSE op[<<F[s \ {Max(s)}], q[Max(s)]>>]
  <2> HIDE DEF op, N
  <2>1. Foldable(Memories, Address, m_memory, op, q, N)
    BY <1>1, <1>2 DEF Foldable
  <2>2. Folds(Memories, m_memory, op, q, N)
    BY <2>1, <1>1, LoopExists
  <2> QED BY <2>2 DEF Folds
<1>4. ASSUME NEW s \in SUBSET (1..N)
      PROVE  F[s] = Folded(F, s)
  <2>1. CASE s = {}
    BY <2>1, <1>3
  <2>2. CASE s # {}
    <3>1. Max(s) \in 1..N
      BY <2>2, <1>1, MaxInSet
    <3>2. F[s \ {Max(s)}] \in Memories /\ q[Max(s)] \in Address
      BY <3>1, <1>1
    <3>3. op[<<F[s \ {Max(s)}], q[Max(s)]>>] = WrittenNext(F[s \ {Max(s)}], p, q[Max(s)], v, end)
      BY <3>2
    <3> HIDE DEF op
    <3> QED BY <3>3, <2>2, <1>3
  <2> QED BY <2>1, <2>2
<1>5. F = [s \in SUBSET (1..N) |-> Folded(F, s)]
  <2> HIDE DEF Folded
  <2> QED BY <1>4
<1>6. G = [s \in SUBSET (1..N) |-> Folded(G, s)]
  <2> HIDE DEF Folded
  <2> QED BY <1>5
<1>7. WriteEach(p, q, v, end) = G[1..N]
  BY <1>1 DEF WriteEach, FoldLeft, MapThenFoldSet, WrittenNext
<1>8. G[{}] = m_memory
  <2>1. G[{}] = Folded(G, {})
    <3> HIDE DEF Folded, G
    <3> QED BY <1>6
  <2> HIDE DEF G
  <2> QED BY <2>1
<1>9. ASSUME NEW k \in 1..N
      PROVE  G[1..k] = WrittenNext(G[1..k - 1], p, q[k], v, end)
  <2>1. 1..k \in SUBSET (1..N) /\ k \in Nat \ {0}
    BY <1>1
  <2>2. G[1..k] = Folded(G, 1..k)
    <3> HIDE DEF Folded, G
    <3> QED BY <2>1, <1>6
  <2>3. 1..k # {} /\ Max(1..k) = k /\ (1..k) \ {Max(1..k)} = 1..k - 1
    BY <2>1, MaxOfPrefix
  <2> HIDE DEF G
  <2> QED BY <2>2, <2>3
<1> HIDE DEF G
<1> QED BY <1>7, <1>8, <1>9 DEF WriteLoop

\* The value goes to each input's own address, if that is in A.
WritesAll(new, old, p, A, n, v, end) ==
  \A x \in Address, i \in Input : ByteAt(new, x)[i] =
    IF p[i] \in A /\ x \in Span(p[i], n) THEN v[Where(x, p[i], n, end)][i] ELSE ByteAt(old, x)[i]

LEMMA WriteEachIs ==
  ASSUME m_memory \in Memories, NEW p, NEW q \in Seq(Address), NEW n \in Nat, NEW v \in Data(n),
         NEW end \in Endian
  PROVE  /\ WriteEach(p, q, v, end) \in Memories
         /\ WritesAll(WriteEach(p, q, v, end), m_memory, p, ToSet(q), n, v, end)
<1> DEFINE N == Len(q)
           Byte0(x, i) == ByteAt(m_memory, x)[i]
           Mine(k, i) == \E j \in 1..k : q[j] = p[i]
           Right(m, k) == \A x \in Address, i \in Input : ByteAt(m, x)[i] =
             IF Mine(k, i) /\ x \in Span(p[i], n) THEN v[Where(x, p[i], n, end)][i] ELSE Byte0(x, i)
<1>1. PICK G : /\ G[{}] = m_memory /\ G[1..N] = WriteEach(p, q, v, end)
               /\ \A k \in 1..N : G[1..k] = WrittenNext(G[1..k - 1], p, q[k], v, end)
  <2>1. WriteLoop(p, q, v, end)
    BY WriteEachSteps
  <2> QED BY <2>1 DEF WriteLoop
<1>2. N \in Nat /\ DOMAIN q = 1..N /\ \A k \in 1..N : q[k] \in Address
  OBVIOUS
<1> DEFINE S == {k \in 0..N : G[1..k] \in Memories /\ Right(G[1..k], k)}
<1>3. 0 \in S
  <2>1. 1..0 = {} /\ G[1..0] = m_memory /\ \A i : ~Mine(0, i)
    BY <1>1
  <2>2. Right(m_memory, 0)
    BY <2>1
  <2> HIDE DEF Right
  <2> QED BY <2>1, <2>2, <1>2
<1>4. ASSUME NEW k \in 0..N - 1, k \in S
      PROVE  k + 1 \in S
  <2>1. k + 1 \in 1..N /\ (k + 1) - 1 = k /\ k + 1 \in 0..N
    BY <1>2
  <2> DEFINE m == G[1..k]
             a == q[k + 1]
             next == G[1..k + 1]
  <2>2. m \in Memories /\ Right(m, k) /\ a \in Address
    BY <1>4, <2>1, <1>2
  <2>3. next = WrittenNext(m, p, a, v, end)
    <3>1. G[1..k + 1] = WrittenNext(G[1..(k + 1) - 1], p, q[k + 1], v, end)
      BY <2>1, <1>1
    <3> QED BY <3>1, <2>1
  <2>4. /\ next \in Memories
        /\ \A x \in Address, i \in Input : ByteAt(next, x)[i] =
             IF p[i] = a /\ x \in Span(a, n) THEN v[Where(x, a, n, end)][i] ELSE ByteAt(m, x)[i]
    <3> HIDE DEF m, a, next, Right
    <3>1. next \in Memories /\ WritesFor(next, m, p, a, n, v, end)
      BY <2>2, <2>3, WrittenNextIs
    <3> QED BY <3>1 DEF WritesFor
  <2>5. \A i : Mine(k + 1, i) <=> Mine(k, i) \/ a = p[i]
    <3>1. 1..k + 1 = 1..k \cup {k + 1}
      BY <2>1
    <3> QED BY <3>1
  <2>6. Right(next, k + 1)
    <3> HIDE DEF m, a, next, Mine, Byte0
    <3> QED BY <2>2, <2>4, <2>5
  <2> HIDE DEF m, a, Right
  <2> QED BY <2>1, <2>4, <2>6
<1>5. N \in S
  <2>1. 0..N \subseteq S
    <3> HIDE DEF S, N
    <3> QED BY <1>2, <1>3, <1>4, SetInduction
  <2> HIDE DEF S
  <2> QED BY <2>1, <1>2
<1>6. \A i : Mine(N, i) <=> p[i] \in ToSet(q)
  BY <1>2 DEF ToSet
<1>7. G[1..N] \in Memories /\ Right(G[1..N], N)
  BY <1>5
<1> HIDE DEF Mine, N
<1> QED BY <1>1, <1>6, <1>7 DEF WritesAll

(***************************************************************************)
(* The loop of a symbolic read: the nested if-then-else gives each input   *)
(* what is at its own address.                                             *)
(***************************************************************************)
ReadEach(p, q, len, end) ==
  FoldLeft(LAMBDA res, a : Ite(p, a, ReadAt(m_memory, a, len, end), res),
           ReadAt(m_memory, q[1], len, end), Tail(q))

ReadNext(res, p, a, len, end) == Ite(p, a, ReadAt(m_memory, a, len, end), res)

ReadLoop(p, q, len, end) ==
  \E G : /\ G[{}] = ReadAt(m_memory, q[1], len, end)
         /\ G[1..Len(Tail(q))] = ReadEach(p, q, len, end)
         /\ \A k \in 1..Len(Tail(q)) : G[1..k] = ReadNext(G[1..k - 1], p, Tail(q)[k], len, end)

LEMMA ReadEachSteps ==
  ASSUME m_memory \in Memories, NEW p, NEW q \in Seq(Address), q # <<>>, NEW len \in Nat,
         NEW end \in Endian
  PROVE  ReadLoop(p, q, len, end)
<1> DEFINE t == Tail(q)
           N == Len(t)
           base == ReadAt(m_memory, q[1], len, end)
           op == [r \in Data(len) \X Address |-> ReadNext(r[1], p, r[2], len, end)]
           Folded(g, s) == IF s = {} THEN base
                          ELSE ReadNext(g[s \ {Max(s)}], p, t[Max(s)], len, end)
           G == CHOOSE g : g = [s \in SUBSET (1..N) |-> Folded(g, s)]
<1>0. t \in Seq(Address) /\ q[1] \in Address
  OBVIOUS
<1>1. N \in Nat /\ DOMAIN t = 1..N /\ \A k \in 1..N : t[k] \in Address
  <2> HIDE DEF t
  <2> QED BY <1>0
<1>2. op \in [Data(len) \X Address -> Data(len)]
  BY ReadAtType, IteType DEF ReadNext
<1>3. PICK F \in [SUBSET (1..N) -> Data(len)] : \A s \in SUBSET (1..N) :
        F[s] = IF s = {} THEN base ELSE op[<<F[s \ {Max(s)}], t[Max(s)]>>]
  <2>1. base \in Data(len)
    BY <1>0, ReadAtType
  <2> HIDE DEF op, N, t, base
  <2>2. Foldable(Data(len), Address, base, op, t, N)
    BY <1>1, <1>2, <2>1 DEF Foldable
  <2>3. Folds(Data(len), base, op, t, N)
    BY <2>2, <1>1, LoopExists
  <2> QED BY <2>3 DEF Folds
<1> HIDE DEF t
<1>4. ASSUME NEW s \in SUBSET (1..N)
      PROVE  F[s] = Folded(F, s)
  <2>1. CASE s = {}
    BY <2>1, <1>3
  <2>2. CASE s # {}
    <3>1. Max(s) \in 1..N
      BY <2>2, <1>1, MaxInSet
    <3>2. F[s \ {Max(s)}] \in Data(len) /\ t[Max(s)] \in Address
      BY <3>1, <1>1
    <3>3. op[<<F[s \ {Max(s)}], t[Max(s)]>>] = ReadNext(F[s \ {Max(s)}], p, t[Max(s)], len, end)
      BY <3>2
    <3> HIDE DEF op
    <3> QED BY <3>3, <2>2, <1>3
  <2> QED BY <2>1, <2>2
<1>5. F = [s \in SUBSET (1..N) |-> Folded(F, s)]
  <2> HIDE DEF Folded
  <2> QED BY <1>4
<1>6. G = [s \in SUBSET (1..N) |-> Folded(G, s)]
  <2> HIDE DEF Folded
  <2> QED BY <1>5
<1>7. ReadEach(p, q, len, end) = G[1..N]
  BY <1>1 DEF ReadEach, FoldLeft, MapThenFoldSet, ReadNext, t
<1>8. G[{}] = base
  <2>1. G[{}] = Folded(G, {})
    <3> HIDE DEF Folded, G
    <3> QED BY <1>6
  <2> HIDE DEF G
  <2> QED BY <2>1
<1>9. ASSUME NEW k \in 1..N
      PROVE  G[1..k] = ReadNext(G[1..k - 1], p, t[k], len, end)
  <2>1. 1..k \in SUBSET (1..N) /\ k \in Nat \ {0}
    BY <1>1
  <2>2. G[1..k] = Folded(G, 1..k)
    <3> HIDE DEF Folded, G
    <3> QED BY <2>1, <1>6
  <2>3. 1..k # {} /\ Max(1..k) = k /\ (1..k) \ {Max(1..k)} = 1..k - 1
    BY <2>1, MaxOfPrefix
  <2> HIDE DEF G
  <2> QED BY <2>2, <2>3
<1> HIDE DEF G
<1> QED BY <1>7, <1>8, <1>9 DEF ReadLoop, t

\* The value is, for the inputs with an address in A, what is there.
ReadsFor(val, p, A, len, end) ==
  \A k \in 1..len, i \in Input :
    p[i] \in A => val[k][i] = ReadAt(m_memory, p[i], len, end)[k][i]

LEMMA ReadNextIs ==
  ASSUME m_memory \in Memories, NEW p, NEW a \in Address, NEW A, NEW len \in Nat,
         NEW end \in Endian, NEW res \in Data(len), ReadsFor(res, p, A, len, end)
  PROVE  /\ ReadNext(res, p, a, len, end) \in Data(len)
         /\ ReadsFor(ReadNext(res, p, a, len, end), p, A \cup {a}, len, end)
<1> DEFINE here == ReadAt(m_memory, a, len, end)
<1>1. here \in Data(len)
  BY ReadAtType
<1>2. ReadNext(res, p, a, len, end) \in Data(len)
  BY <1>1, IteType DEF ReadNext
<1>3. \A k \in 1..len, i \in Input :
        ReadNext(res, p, a, len, end)[k][i] = IF p[i] = a THEN here[k][i] ELSE res[k][i]
  <2> HIDE DEF here
  <2> QED BY <1>1, LenData DEF ReadNext, Ite, here
<1> QED BY <1>2, <1>3 DEF ReadsFor

LEMMA ReadEachIs ==
  ASSUME m_memory \in Memories, NEW p, NEW q \in Seq(Address), q # <<>>, NEW len \in Nat,
         NEW end \in Endian
  PROVE  /\ ReadEach(p, q, len, end) \in Data(len)
         /\ ReadsFor(ReadEach(p, q, len, end), p, ToSet(q), len, end)
<1> DEFINE t == Tail(q)
           N == Len(t)
           First(k) == {q[1]} \cup {t[j] : j \in 1..k}
<1>1. PICK G : /\ G[{}] = ReadAt(m_memory, q[1], len, end) /\ G[1..N] = ReadEach(p, q, len, end)
               /\ \A k \in 1..N : G[1..k] = ReadNext(G[1..k - 1], p, t[k], len, end)
  <2>1. ReadLoop(p, q, len, end)
    BY ReadEachSteps
  <2> QED BY <2>1 DEF ReadLoop
<1>2. t \in Seq(Address) /\ q[1] \in Address /\ N \in Nat /\ DOMAIN t = 1..N
  OBVIOUS
<1>3. \A k \in 1..N : t[k] \in Address
  <2> HIDE DEF t
  <2> QED BY <1>2
<1>4. First(N) = ToSet(q)
  <2>1. Len(q) \in Nat /\ N = Len(q) - 1 /\ DOMAIN q = 1..Len(q) /\ Len(q) >= 1
    OBVIOUS
  <2>2. \A j \in 1..N : t[j] = q[j + 1]
    OBVIOUS
  <2>3. \A k \in 1..Len(q) : k = 1 \/ (k - 1 \in 1..N /\ t[k - 1] = q[k])
    BY <2>1, <2>2
  <2> HIDE DEF t, N
  <2> QED BY <2>1, <2>2, <2>3 DEF ToSet
<1> HIDE DEF t, N
<1> DEFINE S == {k \in 0..N : G[1..k] \in Data(len) /\ ReadsFor(G[1..k], p, First(k), len, end)}
<1>5. 0 \in S
  <2>1. 1..0 = {} /\ First(0) = {q[1]} /\ G[1..0] = ReadAt(m_memory, q[1], len, end)
    BY <1>1
  <2>2. G[1..0] \in Data(len)
    BY <2>1, <1>2, ReadAtType
  <2>3. ReadsFor(G[1..0], p, First(0), len, end)
    BY <2>1 DEF ReadsFor
  <2> HIDE DEF First
  <2> QED BY <2>2, <2>3, <1>2
<1>6. ASSUME NEW k \in 0..N - 1, k \in S
      PROVE  k + 1 \in S
  <2>1. k + 1 \in 1..N /\ (k + 1) - 1 = k /\ k + 1 \in 0..N
    BY <1>2
  <2>2. G[1..k + 1] = ReadNext(G[1..k], p, t[k + 1], len, end)
    <3>1. G[1..k + 1] = ReadNext(G[1..(k + 1) - 1], p, t[k + 1], len, end)
      BY <2>1, <1>1
    <3> QED BY <3>1, <2>1
  <2>3. First(k + 1) = First(k) \cup {t[k + 1]}
    <3>1. 1..k + 1 = 1..k \cup {k + 1}
      BY <2>1
    <3> QED BY <3>1
  <2>4. G[1..k + 1] \in Data(len) /\ ReadsFor(G[1..k + 1], p, First(k + 1), len, end)
    <3> HIDE DEF First
    <3>1. G[1..k] \in Data(len) /\ ReadsFor(G[1..k], p, First(k), len, end) /\ t[k + 1] \in Address
      BY <1>6, <2>1, <1>3
    <3> QED BY <3>1, <2>2, <2>3, ReadNextIs
  <2> HIDE DEF First
  <2> QED BY <2>1, <2>4
<1>7. N \in S
  <2>1. 0..N \subseteq S
    <3> HIDE DEF S
    <3> QED BY <1>2, <1>5, <1>6, SetInduction
  <2> HIDE DEF S
  <2> QED BY <2>1, <1>2
<1> HIDE DEF First
<1> QED BY <1>1, <1>4, <1>7

-----------------------------------------------------------------------------
(***************************************************************************)
(* The addresses Z3 enumerates.                                            *)
(***************************************************************************)
All(p) == {p[i] : i \in pi}

Enumerated(p, q) ==
  /\ q \in Seq(Address) /\ q # <<>>
  /\ ToSet(q) \subseteq All(p) /\ Cardinality(ToSet(q)) = Len(q)
  /\ ~timeouts => ToSet(q) = All(p) \/ Len(q) = MaxRead

LEMMA SetToSeqsIs ==
  ASSUME NEW A, IsFiniteSet(A), NEW q \in SetToSeqs(A)
  PROVE  q \in Seq(A) /\ Len(q) = Cardinality(A) /\ ToSet(q) = A
<1> DEFINE n == Cardinality(A)
           D == 1..n
<1>1. n \in Nat
  BY FS_CardinalityType
<1>2. q \in [D -> A] /\ \A i, j \in D : i # j => q[i] # q[j]
  BY DEF SetToSeqs
<1>3. IsFiniteSet(D) /\ Cardinality(D) = n
  BY <1>1, FS_Interval
<1>4. q \in Injection(D, A)
  <2> HIDE DEF D
  <2> QED BY <1>2 DEF Injection, IsInjective
<1>5. q \in Surjection(D, A)
  <2> HIDE DEF D
  <2> QED BY <1>3, <1>4, FS_Injection
<1>6. \A a \in A : \E i \in D : q[i] = a
  <2> HIDE DEF D
  <2> QED BY <1>5 DEF Surjection
<1>7. DOMAIN q = D
  BY <1>2
<1>8. ToSet(q) = A
  <2> HIDE DEF D
  <2> QED BY <1>2, <1>6, <1>7 DEF ToSet
<1>9. q \in Seq(A) /\ Len(q) = n
  <2> HIDE DEF n
  <2> QED BY <1>1, <1>2
<1> QED BY <1>8, <1>9

LEMMA TargetsAre ==
  ASSUME pi \subseteq Input, NEW p \in [Input -> Address], NEW q \in Targets(p)
  PROVE  Enumerated(p, q)
<1>1. PICK A \in SUBSET All(p) :
        /\ A # {} /\ Cardinality(A) <= MaxRead
        /\ ~timeouts => A = All(p) \/ Cardinality(A) = MaxRead
        /\ q \in SetToSeqs(A)
  BY DEF Targets, All
<1>2. All(p) \subseteq Address
  BY DEF All
<1>3. IsFiniteSet(Address)
  BY MemoryAssumption, FS_Interval DEF Address
<1>4. IsFiniteSet(A)
  BY <1>1, <1>2, <1>3, FS_Subset
<1>5. q \in Seq(A) /\ Len(q) = Cardinality(A) /\ ToSet(q) = A
  BY <1>1, <1>4, SetToSeqsIs
<1>6. q \in Seq(Address)
  BY <1>1, <1>2, <1>5
<1>7. q # <<>>
  BY <1>1, <1>5 DEF ToSet
<1> QED BY <1>1, <1>5, <1>6, <1>7 DEF Enumerated

(***************************************************************************)
(* The invariant: the types, and that no input goes astray.                *)
(***************************************************************************)
MInv == TypeOK /\ m_memory \in Memories /\ NoGuess

LEMMA ConstantsType ==
  /\ Pointer \subseteq [Input -> Address]
  /\ \A v \in Value : Len(v) \in Nat \ {0} /\ v \in Data(Len(v))
  /\ MaxLen \in Nat /\ MaxRead \in Nat \ {0} /\ MaxCalls \in Nat
BY MemoryAssumption DEF Address, Data, Bytes

LEMMA MemoriesType ==
  ASSUME NEW m \in Memories
  PROVE  DOMAIN m \subseteq Address /\ \A a \in DOMAIN m : m[a] \in [Input -> Byte]
BY DEF Memories, Bytes

LEMMA MInvInit == Init => MInv
<1> SUFFICES ASSUME Init
             PROVE  MInv
  OBVIOUS
<1>1. m_memory \in [{} -> Bytes] /\ {} \in SUBSET Address
  BY DEF Init
<1>2. m_memory \in Memories
  BY <1>1 DEF Memories
<1> QED BY <1>1, <1>2, ConstantsType DEF Init, MInv, TypeOK, NoGuess

LEMMA CallsCounted ==
  ASSUME TypeOK, Call
  PROVE  calls' \in 0..MaxCalls /\ m_uninit_behavior' = m_uninit_behavior /\ timeouts' = timeouts
BY ConstantsType DEF TypeOK, Call

\* An access keeps the inputs for which it is right, and the path no others.
LEMMA AccessKeeps ==
  ASSUME MInv, NEW p, NEW q, Enumerated(p, q), AccessedAt(p, q), timeouts' = timeouts
  PROVE  /\ pi' \subseteq Input /\ exact' \subseteq pi'
         /\ NoGuess'
<1>1. exact \subseteq pi /\ pi \subseteq Input
  BY DEF MInv, TypeOK
<1>2. CASE Len(q) = MaxRead
  BY <1>1, <1>2 DEF MInv, NoGuess, AccessedAt, Constrained
<1>3. CASE Len(q) # MaxRead
  <2>1. pi' = pi /\ exact' = {i \in exact : p[i] \in ToSet(q)}
    BY <1>3 DEF AccessedAt, Constrained
  <2>2. ~timeouts => exact' = exact
    BY <1>1, <1>3, <2>1 DEF Enumerated, All
  <2> QED BY <1>1, <2>1, <2>2 DEF MInv, NoGuess
<1> QED BY <1>2, <1>3

LEMMA MInvNext == MInv /\ [Next]_vars => MInv'
<1> SUFFICES ASSUME MInv, [Next]_vars
             PROVE  MInv'
  OBVIOUS
<1> USE ConstantsType, AddressNat
<1>1. /\ m_memory \in Memories /\ pi \subseteq Input /\ exact \subseteq pi
      /\ phase \in {"ok", "unsat", "ended"}
      /\ ~timeouts => exact = pi
  BY DEF MInv, TypeOK, NoGuess
<1> DEFINE Counts == calls' \in 0..MaxCalls /\ m_uninit_behavior' = m_uninit_behavior
                     /\ timeouts' = timeouts
           Keeps == pi' \subseteq Input /\ exact' \subseteq pi' /\ NoGuess'
<1>2. Call => Counts
  BY CallsCounted DEF MInv
<1>3. ASSUME Counts, Keeps, m_memory' \in Memories, phase' \in {"ok", "unsat", "ended"}
      PROVE  MInv'
  <2>1. DOMAIN m_memory' \subseteq Address /\ \A a \in DOMAIN m_memory' : m_memory'[a] \in [Input -> Byte]
    BY <1>3, MemoriesType
  <2> QED BY <1>3, <2>1 DEF MInv, TypeOK
<1>4. ASSUME Counts, UNCHANGED <<pi, exact>>
      PROVE  Keeps
  BY <1>1, <1>4 DEF NoGuess
<1> HIDE DEF Counts, Keeps
<1>5. ASSUME NEW a \in Address, NEW len \in 0..MaxLen, NEW end \in Endian, Read(a, len, end)
      PROVE  MInv'
  <2>1. m_memory' \in Memories
    <3>1. {a} \in SUBSET Address /\ len \in Nat /\ m_memory' = Touched(m_memory, {a}, len)
      BY <1>5 DEF Read
    <3> QED BY <3>1, <1>1, TouchedIsSame
  <2>2. Counts /\ Keeps /\ phase' = phase
    BY <1>5, <1>2, <1>4 DEF Read
  <2> QED BY <2>1, <2>2, <1>1, <1>3
<1>6. ASSUME NEW a \in Address, NEW v \in Value, NEW end \in Endian, Write(a, v, end)
      PROVE  MInv'
  <2>1. m_memory' \in Memories
    <3>1. m_memory' = WriteAt(m_memory, a, v, end)
      BY <1>6 DEF Write
    <3> QED BY <3>1, <1>1, WriteAtIs
  <2>2. Counts /\ Keeps /\ phase' = phase
    BY <1>6, <1>2, <1>4 DEF Write
  <2> QED BY <2>1, <2>2, <1>1, <1>3
<1>7. ASSUME Call, phase' \in {"unsat", "ended"}, UNCHANGED <<m_memory, pi, exact, said>>
      PROVE  MInv'
  BY <1>7, <1>1, <1>2, <1>3, <1>4
<1>8. ASSUME NEW p \in Pointer, NEW len \in 0..MaxLen, NEW end \in Endian, ReadSym(p, len, end)
      PROVE  MInv'
  <2>1. PICK q \in Targets(p) : m_memory' = Touched(m_memory, ToSet(q), len) /\ AccessedAt(p, q)
    BY <1>8 DEF ReadSym
  <2>2. Enumerated(p, q)
    BY <1>1, TargetsAre
  <2>3. Counts /\ phase' = phase
    BY <1>8, <1>2 DEF ReadSym
  <2>4. Keeps
    BY <2>1, <2>2, <2>3, AccessKeeps DEF Counts, Keeps
  <2>5. ToSet(q) \in SUBSET Address /\ len \in Nat
    BY <2>2 DEF Enumerated, ToSet
  <2>6. m_memory' \in Memories
    BY <2>1, <2>5, <1>1, TouchedIsSame
  <2> QED BY <2>3, <2>4, <2>6, <1>1, <1>3
<1>9. ASSUME NEW p \in Pointer, NEW v \in Value, NEW end \in Endian, WriteSym(p, v, end)
      PROVE  MInv'
  <2>1. PICK q \in Targets(p) : m_memory' = WriteEach(p, q, v, end) /\ AccessedAt(p, q)
    BY <1>9 DEF WriteSym
  <2>2. Enumerated(p, q)
    BY <1>1, TargetsAre
  <2>3. Counts /\ phase' = phase
    BY <1>9, <1>2 DEF WriteSym
  <2>4. Keeps
    BY <2>1, <2>2, <2>3, AccessKeeps DEF Counts, Keeps
  <2>5. q \in Seq(Address)
    BY <2>2 DEF Enumerated
  <2>6. m_memory' \in Memories
    BY <2>1, <2>5, <1>1, WriteEachIs
  <2> QED BY <2>3, <2>4, <2>6, <1>1, <1>3
<1>10. ASSUME NEW c \in Constraint, Branch(c)
       PROVE  MInv'
  <2>1. Counts /\ phase' = phase /\ m_memory' = m_memory
    BY <1>10, <1>2 DEF Branch
  <2>2. Keeps
    BY <1>10, <2>1, <1>1 DEF Branch, Keeps, Counts, NoGuess
  <2> QED BY <2>1, <2>2, <1>1, <1>3
<1>11. CASE UNCHANGED vars
  BY <1>11, <1>1 DEF MInv, TypeOK, NoGuess, vars
<1>12. CASE UnsatAccess \/ LostAccess
  BY <1>12, <1>7 DEF UnsatAccess, LostAccess
<1>13. CASE \E a \in Address, len \in 0..MaxLen : Fail(a, len)
  BY <1>13, <1>7 DEF Fail
<1>14. CASE \E p \in Pointer, len \in 0..MaxLen : FailSym(p, len)
  BY <1>14, <1>7 DEF FailSym
<1>15. CASE Done
  BY <1>15, <1>11 DEF Done
<1> QED
  BY <1>5, <1>6, <1>8, <1>9, <1>10, <1>11, <1>12, <1>13, <1>14, <1>15 DEF Next, Endian

LEMMA Invariant == Spec => []MInv
<1> QED BY MInvInit, MInvNext, PTL DEF Spec

\* Every byte of memory is one for each input, the path is part of the inputs, and no
\* access is right for an input that is not on the path.
THEOREM TypeCorrect == Spec => []TypeOK
<1>1. MInv => TypeOK
  BY DEF MInv
<1> QED BY Invariant, <1>1, PTL

\* As long as Z3 answers, no input stays on a path on which an access went to another
\* address than its own, whatever the limit of enumerated addresses and their order.
THEOREM NoAddressIsGuessed == Spec => []NoGuess
<1>1. MInv => NoGuess
  BY DEF MInv
<1> QED BY Invariant, <1>1, PTL

-----------------------------------------------------------------------------
(***************************************************************************)
(* Every access is one of the plain memories of the inputs that it keeps.  *)
(***************************************************************************)
MemoryOf(m, i) == [x \in Address |-> ByteAt(m, x)[i]]
ValueOf(v, i)  == [k \in DOMAIN v |-> v[k][i]]

LEMMA FlatLoaded ==
  ASSUME NEW m \in Memories, NEW a \in Address, NEW len \in Nat, NEW end \in Endian, NEW i
  PROVE  Flat!Loaded(MemoryOf(m, i), a, len, end) = ValueOf(ReadAt(m, a, len, end), i)
<1>1. \A k \in 1..len : (a + Place(k, len, end)) % Width \in Address
  BY ReadAtType
<1>2. \A k \in 1..len : MemoryOf(m, i)[(a + Place(k, len, end)) % Width]
                        = ReadAt(m, a, len, end)[k][i]
  BY <1>1 DEF MemoryOf, ReadAt
<1>3. DOMAIN ReadAt(m, a, len, end) = 1..len
  BY DEF ReadAt
<1>4. ValueOf(ReadAt(m, a, len, end), i) = [k \in 1..len |-> ReadAt(m, a, len, end)[k][i]]
  BY <1>3 DEF ValueOf
<1>5. Flat!Loaded(MemoryOf(m, i), a, len, end)
        = [k \in 1..len |-> MemoryOf(m, i)[(a + Place(k, len, end)) % Width]]
  BY DEF Flat!Loaded, Flat!Place, Place
<1> QED BY <1>2, <1>4, <1>5

LEMMA FlatStored ==
  ASSUME NEW m \in Memories, NEW a \in Address, NEW n \in Nat, NEW v \in Data(n),
         NEW end \in Endian, NEW i
  PROVE  Flat!Stored(MemoryOf(m, i), a, ValueOf(v, i), end) =
           [x \in Address |-> IF x \in Span(a, n) THEN v[Where(x, a, n, end)][i]
                              ELSE ByteAt(m, x)[i]]
<1> DEFINE w == ValueOf(v, i)
<1>1. DOMAIN v = 1..n /\ DOMAIN w = 1..n
  BY LenData DEF ValueOf
<1>2. Len(w) = n
  <2>1. w \in Seq({w[k] : k \in 1..n})
    BY <1>1 DEF ValueOf
  <2> HIDE DEF w
  <2> QED BY <2>1, <1>1
<1>3. \A k \in 1..n : w[k] = v[k][i]
  BY <1>1 DEF ValueOf
<1>4. \A x : x \in Span(a, n) <=> \E k \in 1..n : x = (a + Place(k, n, end)) % Width
  BY SpanIsPlaces, AddressNat
<1>5. \A x \in Span(a, n) : Where(x, a, n, end) \in 1..n
  BY WhereIs
<1> HIDE DEF w
<1>6. Flat!Stored(MemoryOf(m, i), a, w, end) =
        [x \in Address |-> IF \E k \in 1..n : x = (a + Place(k, n, end)) % Width
                           THEN w[Where(x, a, n, end)] ELSE MemoryOf(m, i)[x]]
  BY <1>1, <1>2 DEF Flat!Stored, Flat!Place, Place, Flat!Address, Address, Where
<1>7. \A x \in Address : MemoryOf(m, i)[x] = ByteAt(m, x)[i]
  BY DEF MemoryOf
<1> QED BY <1>3, <1>4, <1>5, <1>6, <1>7 DEF w

LEMMA FlatCardinality == \A S : Flat!Cardinality(S) = Cardinality(S)
BY DEF Flat!Cardinality, Cardinality

\* The inputs an access keeps are a choice the plain memory allows.
LEMMA KeptInputs ==
  ASSUME MInv, NEW p, NEW q, Enumerated(p, q)
  PROVE  {i \in exact : p[i] \in ToSet(q)} \in Flat!Kept(p)
<1> DEFINE A == ToSet(q)
           K == {i \in exact : p[i] \in A}
<1>1. Flat!Left = exact
  BY DEF Flat!Left, PlainBytes
<1>2. CASE timeouts
  <2>1. K \in SUBSET exact
    OBVIOUS
  <2> QED BY <1>1, <1>2, <2>1 DEF Flat!Kept
<1>3. CASE ~timeouts
  <2>1. exact = pi /\ All(p) = {p[i] : i \in exact}
    BY <1>3 DEF MInv, NoGuess, All
  <2>2. CASE A = All(p)
    <3>1. K = exact
      BY <2>1, <2>2
    <3> QED BY <3>1, <1>1 DEF Flat!Kept
  <2>3. CASE Len(q) = MaxRead
    <3>1. A \in SUBSET {p[i] : i \in exact} /\ Cardinality(A) = MaxRead
      BY <2>1, <2>3 DEF Enumerated
    <3> QED BY <3>1, <1>1, FlatCardinality DEF Flat!Kept
  <2> QED BY <2>2, <2>3, <1>3 DEF Enumerated
<1> QED BY <1>2, <1>3

LEMMA FlatInit == Init => Flat!Init
<1> SUFFICES ASSUME Init
             PROVE  Flat!Init
  OBVIOUS
<1>1. m_memory \in Memories
  BY MInvInit DEF MInv
<1>2. \A i \in Input : MemoryOf(m_memory, i) \in [Address -> Byte]
  BY <1>1, ByteAtType DEF MemoryOf, Bytes
<1>3. PlainBytes = [i \in Input |-> MemoryOf(m_memory, i)]
  BY DEF Init, PlainBytes, MemoryOf
<1> QED BY <1>2, <1>3 DEF Init, Flat!Init, PlainSaid, Flat!Address, Address

LEMMA PlainBytesNext ==
  m_uninit_behavior' = m_uninit_behavior
    => PlainBytes' = [i \in exact' |-> MemoryOf(m_memory', i)]
BY DEF PlainBytes, MemoryOf, ByteAt

LEMMA PlainBytesNow == PlainBytes = [i \in exact |-> MemoryOf(m_memory, i)]
BY DEF PlainBytes, MemoryOf

\* Every step is a step of the plain memories, or none.
LEMMA FlatNext == MInv /\ [Next]_vars => [Flat!Next]_(Flat!vars)
<1> SUFFICES ASSUME MInv, [Next]_vars
             PROVE  Flat!Next \/ Flat!vars' = Flat!vars
  OBVIOUS
<1> USE ConstantsType, AddressNat
<1>1. m_memory \in Memories /\ pi \subseteq Input /\ exact \subseteq pi
  BY DEF MInv, TypeOK
<1>2. Call => m_uninit_behavior' = m_uninit_behavior /\ timeouts' = timeouts
  BY DEF Call
<1>3. PlainBytes = [i \in exact |-> MemoryOf(m_memory, i)]
  BY PlainBytesNow
<1>4. Call => PlainBytes' = [i \in exact' |-> MemoryOf(m_memory', i)]
  BY <1>2, PlainBytesNext
<1>5. Flat!Left = exact
  BY <1>3 DEF Flat!Left
<1>6. ASSUME Call, UNCHANGED <<m_memory, pi, exact, said>>
      PROVE  Flat!vars' = Flat!vars
  BY <1>2, <1>3, <1>4, <1>6 DEF Flat!vars, PlainSaid
<1>7. ASSUME NEW p \in [Input -> Address], NEW len \in 1..MaxLen, NEW end \in Endian,
             p \in Pointer \cup {Const(a) : a \in Address},
             Call, exact' \in Flat!Kept(p), exact' \subseteq exact, m_memory' \in Memories,
             \A x \in Address : ByteAt(m_memory', x) = ByteAt(m_memory, x),
             said' \in Data(len),
             \A k \in 1..len, i \in exact' : said'[k][i] = ReadAt(m_memory, p[i], len, end)[k][i]
      PROVE  Flat!Next
  <2>1. \A i \in exact' : i \in Input /\ p[i] \in Address
    BY <1>7, <1>1
  <2>2. PlainBytes' = [i \in exact' |-> PlainBytes[i]]
    BY <1>3, <1>4, <1>7 DEF MemoryOf
  <2>3. said' # <<>> /\ DOMAIN said' = 1..len
    BY <1>7 DEF Data
  <2>4. PlainSaid' = [i \in exact' |-> [k \in 1..len |-> said'[k][i]]]
    BY <2>3 DEF PlainSaid
  <2>5. ASSUME NEW i \in exact'
        PROVE  Flat!Loaded(PlainBytes[i], p[i], len, end) = [k \in 1..len |-> said'[k][i]]
    <3>1. PlainBytes[i] = MemoryOf(m_memory, i)
      BY <1>3, <1>7
    <3>0. i \in Input /\ p[i] \in Address /\ len \in Nat
      BY <2>1
    <3>2. Flat!Loaded(PlainBytes[i], p[i], len, end) = ValueOf(ReadAt(m_memory, p[i], len, end), i)
      <4>1. Flat!Loaded(MemoryOf(m_memory, i), p[i], len, end)
              = ValueOf(ReadAt(m_memory, p[i], len, end), i)
        <5> HIDE ConstantsType, AddressNat
        <5> QED BY <3>0, <1>1, FlatLoaded
      <4> QED BY <3>1, <4>1
    <3>3. DOMAIN ReadAt(m_memory, p[i], len, end) = 1..len
      BY DEF ReadAt
    <3> QED BY <3>2, <3>3, <1>7 DEF ValueOf
  <2>6. PlainSaid' = [i \in exact' |-> Flat!Loaded(PlainBytes[i], p[i], len, end)]
    BY <2>4, <2>5
  <2>7. Flat!Load(p, len, end)
    BY <2>2, <2>6, <1>2, <1>7 DEF Flat!Load
  <2> QED BY <2>7, <1>7 DEF Flat!Next, Endian
<1>8. ASSUME NEW p \in [Input -> Address], NEW v \in Value, NEW end \in Endian,
             p \in Pointer \cup {Const(a) : a \in Address},
             Call, exact' \in Flat!Kept(p), exact' \subseteq exact, said' = <<>>,
             \A x \in Address, i \in exact' : ByteAt(m_memory', x)[i] =
               IF x \in Span(p[i], Len(v)) THEN v[Where(x, p[i], Len(v), end)][i]
               ELSE ByteAt(m_memory, x)[i]
      PROVE  Flat!Next
  <2>1. ASSUME NEW i \in exact'
        PROVE  MemoryOf(m_memory', i) = Flat!Stored(PlainBytes[i], p[i], ValueOf(v, i), end)
    <3>1. i \in Input /\ p[i] \in Address /\ PlainBytes[i] = MemoryOf(m_memory, i)
      BY <1>1, <1>3, <1>8
    <3>2. Len(v) \in Nat /\ v \in Data(Len(v))
      BY ConstantsType
    <3>3. Flat!Stored(MemoryOf(m_memory, i), p[i], ValueOf(v, i), end) =
            [x \in Address |-> IF x \in Span(p[i], Len(v)) THEN v[Where(x, p[i], Len(v), end)][i]
                               ELSE ByteAt(m_memory, x)[i]]
      <4> HIDE ConstantsType, AddressNat
      <4> QED BY <3>1, <3>2, <1>1, FlatStored
    <3> QED BY <3>1, <3>3, <1>8 DEF MemoryOf
  <2>2. PlainBytes' = [i \in exact' |-> Flat!Stored(PlainBytes[i], p[i], ValueOf(v, i), end)]
    BY <1>4, <1>8, <2>1
  <2>3. PlainSaid' = <<>>
    BY <1>8 DEF PlainSaid
  <2>4. Flat!Store(p, v, end)
    BY <2>2, <2>3, <1>2, <1>8 DEF Flat!Store, ValueOf
  <2> QED BY <2>4, <1>8 DEF Flat!Next, Endian
<1>9. ASSUME NEW a \in Address
      PROVE  /\ Const(a) \in [Input -> Address] /\ \A i \in exact : Const(a)[i] = a
             /\ exact \in Flat!Kept(Const(a))
  <2>1. exact \subseteq Input
    BY <1>1
  <2> QED BY <2>1, <1>5 DEF Const, Flat!Kept
<1>10. ASSUME NEW a \in Address, NEW len \in 0..MaxLen, NEW end \in Endian, Read(a, len, end)
       PROVE  Flat!Next
  <2>1. /\ Call /\ len \in 1..MaxLen /\ exact' = exact
        /\ m_memory' = Touched(m_memory, {a}, len) /\ said' = ReadAt(m_memory, a, len, end)
    BY <1>10 DEF Read
  <2>2. m_memory' \in Memories /\ \A x \in Address : ByteAt(m_memory', x) = ByteAt(m_memory, x)
    <3>1. {a} \in SUBSET Address /\ len \in Nat
      OBVIOUS
    <3> QED BY <3>1, <2>1, <1>1, TouchedIsSame
  <2>3. said' \in Data(len)
    BY <2>1, <1>1, ReadAtType
  <2>4. \A k \in 1..len, i \in exact' :
          said'[k][i] = ReadAt(m_memory, Const(a)[i], len, end)[k][i]
    BY <1>9, <2>1
  <2>5. Const(a) \in [Input -> Address] /\ exact' \in Flat!Kept(Const(a)) /\ exact' \subseteq exact
        /\ Const(a) \in Pointer \cup {Const(b) : b \in Address}
    BY <1>9, <2>1
  <2> HIDE ConstantsType
  <2> QED BY <2>1, <2>2, <2>3, <2>4, <2>5, <1>7
<1>11. ASSUME NEW a \in Address, NEW v \in Value, NEW end \in Endian, Write(a, v, end)
       PROVE  Flat!Next
  <2>1. Call /\ exact' = exact /\ m_memory' = WriteAt(m_memory, a, v, end) /\ said' = <<>>
    BY <1>11 DEF Write
  <2>2. \A x \in Address : ByteAt(m_memory', x) =
          IF x \in Span(a, Len(v)) THEN v[Where(x, a, Len(v), end)] ELSE ByteAt(m_memory, x)
    BY <2>1, <1>1, WriteAtIs
  <2>3. \A x \in Address, i \in exact' : ByteAt(m_memory', x)[i] =
          IF x \in Span(Const(a)[i], Len(v)) THEN v[Where(x, Const(a)[i], Len(v), end)][i]
          ELSE ByteAt(m_memory, x)[i]
    BY <2>1, <2>2, <1>9
  <2> QED BY <1>9, <2>1, <2>3, <1>8
<1>12. ASSUME NEW p \in Pointer, NEW q \in Targets(p), AccessedAt(p, q)
       PROVE  /\ p \in [Input -> Address] /\ Enumerated(p, q)
              /\ exact' \in Flat!Kept(p) /\ exact' \subseteq exact
              /\ \A i \in exact' : i \in Input /\ p[i] \in ToSet(q)
  <2>1. p \in [Input -> Address]
    BY ConstantsType
  <2>2. Enumerated(p, q)
    BY <2>1, <1>1, TargetsAre
  <2> QED BY <2>1, <2>2, <1>1, <1>12, KeptInputs DEF AccessedAt
<1>13. ASSUME NEW p \in Pointer, NEW len \in 0..MaxLen, NEW end \in Endian, ReadSym(p, len, end)
       PROVE  Flat!Next
  <2>1. PICK q \in Targets(p) :
          /\ said' = ReadEach(p, q, len, end)
          /\ m_memory' = Touched(m_memory, ToSet(q), len) /\ AccessedAt(p, q)
    BY <1>13 DEF ReadSym, ReadEach
  <2>0. Call /\ len > 0
    BY <1>13 DEF ReadSym
  <2>2. Call /\ len \in 1..MaxLen /\ len \in Nat
    BY <2>0
  <2>3. Enumerated(p, q) /\ q \in Seq(Address) /\ q # <<>> /\ ToSet(q) \in SUBSET Address
    <3>1. Enumerated(p, q)
      BY <2>1, <1>12
    <3> QED BY <3>1 DEF Enumerated, ToSet
  <2>4. m_memory' \in Memories /\ \A x \in Address : ByteAt(m_memory', x) = ByteAt(m_memory, x)
    BY <2>1, <2>2, <2>3, <1>1, TouchedIsSame
  <2>5. said' \in Data(len) /\ ReadsFor(said', p, ToSet(q), len, end)
    BY <2>1, <2>2, <2>3, <1>1, ReadEachIs
  <2>6. \A k \in 1..len, i \in exact' : said'[k][i] = ReadAt(m_memory, p[i], len, end)[k][i]
    BY <2>1, <2>5, <1>12 DEF ReadsFor
  <2> QED BY <2>1, <2>2, <2>4, <2>5, <2>6, <1>12, <1>7
<1>14. ASSUME NEW p \in Pointer, NEW v \in Value, NEW end \in Endian, WriteSym(p, v, end)
       PROVE  Flat!Next
  <2>1. PICK q \in Targets(p) : m_memory' = WriteEach(p, q, v, end) /\ AccessedAt(p, q)
    BY <1>14 DEF WriteSym
  <2>2. Call /\ said' = <<>>
    BY <1>14 DEF WriteSym
  <2>3. q \in Seq(Address) /\ Len(v) \in Nat /\ v \in Data(Len(v))
    BY <2>1, <1>12 DEF Enumerated
  <2>4. WritesAll(m_memory', m_memory, p, ToSet(q), Len(v), v, end)
    BY <2>1, <2>3, <1>1, WriteEachIs
  <2>5. \A x \in Address, i \in exact' : ByteAt(m_memory', x)[i] =
          IF x \in Span(p[i], Len(v)) THEN v[Where(x, p[i], Len(v), end)][i]
          ELSE ByteAt(m_memory, x)[i]
    BY <2>1, <2>4, <1>12 DEF WritesAll
  <2> QED BY <2>1, <2>2, <2>5, <1>12, <1>8
<1>15. ASSUME NEW c \in Constraint, Branch(c)
       PROVE  Flat!Next
  <2>1. Call /\ exact' \in SUBSET exact /\ said' = <<>> /\ m_memory' = m_memory
    BY <1>15 DEF Branch
  <2>2. PlainBytes' = [i \in exact' |-> PlainBytes[i]] /\ PlainSaid' = <<>> /\ timeouts' = timeouts
    BY <2>1, <1>2, <1>3, <1>4 DEF PlainSaid
  <2>3. Flat!Branch
    BY <2>1, <2>2, <1>5 DEF Flat!Branch
  <2> QED BY <2>3 DEF Flat!Next
<1>16. CASE UNCHANGED vars
  BY <1>16 DEF vars, Flat!vars, PlainBytes, PlainSaid, ByteAt
<1>17. CASE UnsatAccess \/ LostAccess
  BY <1>17, <1>6 DEF UnsatAccess, LostAccess
<1>18. CASE \E a \in Address, len \in 0..MaxLen : Fail(a, len)
  BY <1>18, <1>6 DEF Fail
<1>19. CASE \E p \in Pointer, len \in 0..MaxLen : FailSym(p, len)
  BY <1>19, <1>6 DEF FailSym
<1>20. CASE Done
  BY <1>20, <1>16 DEF Done
<1> QED
  BY <1>10, <1>11, <1>13, <1>14, <1>15, <1>16, <1>17, <1>18, <1>19, <1>20 DEF Next, Endian

\* For each input that stays, symbolic memory behaves as a plain memory: every read is
\* what the writes before it, at that input's own addresses, have left.
THEOREM MemoryIsPlain == Spec => ImplementsFlat
<1> QED BY FlatInit, FlatNext, Invariant, PTL DEF Spec, ImplementsFlat, Flat!Spec
=============================================================================
