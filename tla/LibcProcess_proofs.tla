------------------------- MODULE LibcProcess_proofs -------------------------
(***************************************************************************)
(* What the libc models keep, for every program, every set of inputs and   *)
(* every size of memory: each input is in one path, blocks keep their      *)
(* bytes, and an undisturbed generator draws the numbers of C's.           *)
(***************************************************************************)
EXTENDS LibcProcess, Loops_proofs, SequenceTheorems

\* A byte of memory.
Letter == [Input -> 0..255]
Cell   == Letter \cup {Unset}

BlockType ==
  [ptr: Nat, size: Nat \ {0}, want: UNION {[D -> Cell] : D \in SUBSET Nat}, live: BOOLEAN]

ArgString == Seq(Letter)
ArgType == [only: DOMAIN Admits \cup {"fixed"}, bytes: Seq(Letter)]

HeapTypes ==
  /\ alive \in SUBSET Path
  /\ mem \in [Path -> [0..MaxAddr -> Cell]]
  /\ heap_ptr \in [Path -> Nat]
  /\ blocks \in [Path -> Seq(BlockType)]
  /\ m_argv \in Seq(ArgString) \ {<<>>}
  /\ argv \in [Path -> Nat]

InputTypes ==
  /\ printable_stdin \in BOOLEAN
  /\ allowed \in SUBSET Input
  /\ inputs \in [Path -> SUBSET Input]
  /\ offset \in [Path -> Nat]

-----------------------------------------------------------------------------
(***************************************************************************)
(* Inputs.  OnePathPerInput is inductive with the types it needs.          *)
(***************************************************************************)
PathInv == alive \in SUBSET Path /\ InputTypes /\ OnePathPerInput

\* The actions that leave every input where it is.
LEMMA InputsStay ==
  ASSUME PathInv, UNCHANGED <<alive, printable_stdin, allowed, inputs, offset>>
  PROVE  PathInv'
BY DEF PathInv, InputTypes, OnePathPerInput

LEMMA PathInit == Init => PathInv
<1> SUFFICES ASSUME Init
             PROVE  PathInv
  OBVIOUS
<1>1. PICK args \in Args :
        /\ m_argv = [i \in DOMAIN args |-> Terminated(args[i].bytes)]
        /\ inputs = [p \in Path |-> IF p = FirstPath THEN admitted(args) ELSE {}]
        /\ allowed = {i \in Input : \A k \in DOMAIN args : Asked(args[k], m_argv[k], i)}
  BY DEF Init, set_argv
<1>2. args \in Seq(ArgType)
  BY HeapAssumption DEF ArgType, Letter
<1>3. alive = {FirstPath} /\ FirstPath \in Path /\ printable_stdin \in BOOLEAN
      /\ offset = [p \in Path |-> 0]
  BY InputAssumption DEF Init
<1>4. ASSUME NEW k \in DOMAIN args, NEW i \in Input
      PROVE  Asked(args[k], m_argv[k], i) <=>
             (args[k].only # "fixed" =>
                \A n \in DOMAIN args[k].bytes : args[k].bytes[n][i] \in Admits[args[k].only])
  <2> DEFINE bytes == args[k].bytes
             text  == m_argv[k]
  <2>1. args[k] \in ArgType
    BY <1>2
  <2>2. text = Append(bytes, Byte(0)) /\ bytes \in Seq(Letter)
    BY <1>1, <2>1 DEF Terminated, ArgType
  <2> HIDE DEF bytes, text
  <2>3. Len(text) - 1 = Len(bytes) /\ \A n \in 1..Len(bytes) : text[n] = bytes[n]
    BY <2>2
  <2>4. {text[n][i] : n \in 1..(Len(text) - 1)} = {bytes[n][i] : n \in DOMAIN bytes}
    BY <2>2, <2>3
  <2> QED BY <2>4 DEF Asked, bytes, text
<1>5. admitted(args) = allowed /\ allowed \in SUBSET Input
  BY <1>1, <1>4 DEF admitted
<1>6. inputs = [p \in Path |-> IF p = FirstPath THEN allowed ELSE {}]
  BY <1>1, <1>5
<1>7. OnePathPerInput
  BY <1>3, <1>5, <1>6 DEF OnePathPerInput
<1> QED BY <1>3, <1>5, <1>6, <1>7 DEF PathInv, InputTypes

\* A read leaves out the inputs that are not printable there, and no other.
LEMMA PathRead ==
  ASSUME PathInv, NEW p \in Path, ReadStdin(p), UNCHANGED <<printable_stdin, allowed>>
  PROVE  PathInv'
<1>1. PICK n \in Nat :
        /\ n >= 1 /\ offset[p] + n <= StdinLength
        /\ inputs' = [inputs EXCEPT ![p] = constrained(p, n)]
        /\ offset' = [offset EXCEPT ![p] = @ + n]
  <2>1. PICK b \in DOMAIN blocks[p] : \E n \in 1..blocks[p][b].size :
          /\ offset[p] + n <= StdinLength
          /\ inputs' = [inputs EXCEPT ![p] = constrained(p, n)]
          /\ offset' = [offset EXCEPT ![p] = @ + n]
    BY DEF ReadStdin
  <2>2. PICK n \in 1..blocks[p][b].size :
          /\ offset[p] + n <= StdinLength
          /\ inputs' = [inputs EXCEPT ![p] = constrained(p, n)]
          /\ offset' = [offset EXCEPT ![p] = @ + n]
    BY <2>1
  <2>3. n \in Nat /\ n >= 1
    OBVIOUS
  <2> QED BY <2>2, <2>3
<1>2. alive' = alive /\ p \in alive
  BY DEF ReadStdin, Fill
<1>3. offset[p] \in Nat /\ inputs[p] \in SUBSET Input /\ constrained(p, n) \subseteq inputs[p]
  BY DEF PathInv, InputTypes, constrained
<1>4. InputTypes'
  BY <1>1, <1>3 DEF PathInv, InputTypes
<1>5. \A q \in alive : inputs'[q] = IF q = p THEN constrained(p, n) ELSE inputs[q]
  BY <1>1 DEF PathInv, InputTypes
<1>6. \A q \in alive : offset'[q] = IF q = p THEN offset[p] + n ELSE offset[q]
  BY <1>1 DEF PathInv, InputTypes
<1>7. \A q, r \in alive' : q # r => inputs'[q] \cap inputs'[r] = {}
  BY <1>2, <1>3, <1>5 DEF PathInv, OnePathPerInput
<1>8. ASSUME NEW i \in allowed, printable_stdin => \A k \in DOMAIN i.stdin : i.stdin[k] \in Printable
      PROVE  \E q \in alive : i \in inputs'[q]
  <2>1. PICK q \in alive : i \in inputs[q]
    BY <1>8 DEF PathInv, OnePathPerInput
  <2>2. CASE q = p
    <3>1. i \in Input /\ i.stdin \in Seq(0..255) /\ Len(i.stdin) = StdinLength
      BY InputAssumption DEF PathInv, InputTypes, StdinLength
    <3>2. ASSUME NEW k \in 1..n
          PROVE  offset[p] + k \in DOMAIN i.stdin
      BY <1>1, <1>3, <3>1
    <3>3. i \in constrained(p, n)
      BY <1>8, <2>1, <2>2, <3>2 DEF constrained
    <3> QED BY <1>5, <2>2, <3>3
  <2>3. CASE q # p
    BY <1>5, <2>1, <2>3
  <2> QED BY <2>2, <2>3
<1>9. \A q \in alive : inputs'[q] \subseteq allowed
  BY <1>3, <1>5 DEF PathInv, OnePathPerInput
<1>10. ASSUME printable_stdin, NEW q \in alive, NEW i \in inputs'[q], NEW k \in 1..offset'[q]
       PROVE  i.stdin[k] \in Printable
  <2>1. CASE q = p
    <3>1. i \in constrained(p, n) /\ k \in 1..(offset[p] + n)
      BY <1>5, <1>6, <1>10, <2>1
    <3>2. CASE k <= offset[p]
      <4>1. k \in 1..offset[p] /\ i \in inputs[p]
        BY <1>3, <3>1, <3>2
      <4> QED BY <1>2, <1>10, <4>1 DEF PathInv, OnePathPerInput
    <3>3. CASE k > offset[p]
      <4> DEFINE m == k - offset[p]
      <4>1. m \in 1..n /\ offset[p] + m = k
        BY <1>1, <1>3, <3>1, <3>3
      <4> HIDE DEF m
      <4>2. i.stdin[offset[p] + m] \in Printable
        BY <1>10, <3>1, <4>1 DEF constrained
      <4> QED BY <4>1, <4>2
    <3> QED BY <1>3, <3>1, <3>2, <3>3
  <2>2. CASE q # p
    BY <1>5, <1>6, <1>10, <2>2 DEF PathInv, OnePathPerInput
  <2> QED BY <2>1, <2>2
<1>11. OnePathPerInput'
  BY <1>2, <1>7, <1>8, <1>9, <1>10 DEF OnePathPerInput
<1> QED BY <1>2, <1>4, <1>11 DEF PathInv

\* A branch divides the inputs of a path between it and its clone.
LEMMA PathBranch ==
  ASSUME PathInv, NEW p \in Path, NEW q \in Path, Branch(p, q), UNCHANGED <<printable_stdin, allowed>>
  PROVE  PathInv'
<1>1. PICK yes \in SUBSET inputs[p] :
        inputs' = [inputs EXCEPT ![p] = yes, ![q] = inputs[p] \ yes]
  BY DEF Branch
<1>2. /\ p \in alive /\ q \notin alive /\ p # q
      /\ alive' = alive \cup {q} /\ offset' = [offset EXCEPT ![q] = offset[p]]
  BY DEF Branch
<1>3. offset[p] \in Nat /\ inputs[p] \in SUBSET Input
  BY DEF PathInv, InputTypes
<1>4. InputTypes'
  BY <1>1, <1>2, <1>3 DEF PathInv, InputTypes
<1>5. \A r \in Path : /\ inputs'[r] = IF r = p THEN yes ELSE IF r = q THEN inputs[p] \ yes ELSE inputs[r]
                      /\ offset'[r] = IF r = q THEN offset[p] ELSE offset[r]
  BY <1>1, <1>2 DEF PathInv, InputTypes
<1>6. alive' \in SUBSET Path /\ \A r \in alive' : r \in alive \/ r = q
  BY <1>2 DEF PathInv
<1>7. \A r, s \in alive' : r # s => inputs'[r] \cap inputs'[s] = {}
  <2> SUFFICES ASSUME NEW r \in alive', NEW s \in alive', r # s, NEW i, i \in inputs'[r], i \in inputs'[s]
               PROVE  FALSE
    OBVIOUS
  <2> DEFINE Old(x) == IF x = q THEN p ELSE x
  <2>1. i \in inputs[Old(r)] /\ i \in inputs[Old(s)] /\ Old(r) \in alive /\ Old(s) \in alive
    BY <1>2, <1>5, <1>6
  <2>2. Old(r) = Old(s)
    BY <2>1 DEF PathInv, OnePathPerInput
  <2> QED BY <1>2, <1>5, <1>6, <2>2
<1>8. ASSUME NEW i \in allowed, printable_stdin => \A k \in DOMAIN i.stdin : i.stdin[k] \in Printable
      PROVE  \E r \in alive' : i \in inputs'[r]
  <2>1. PICK r \in alive : i \in inputs[r]
    BY <1>8 DEF PathInv, OnePathPerInput
  <2>2. i \in inputs'[r] \/ i \in inputs'[q]
    BY <1>2, <1>5, <1>6, <2>1 DEF PathInv
  <2> QED BY <1>2, <2>1, <2>2
<1>9. \A r \in alive' : inputs'[r] \subseteq allowed
  BY <1>2, <1>5, <1>6 DEF PathInv, OnePathPerInput
<1>10. ASSUME printable_stdin, NEW r \in alive', NEW i \in inputs'[r], NEW k \in 1..offset'[r]
       PROVE  i.stdin[k] \in Printable
  <2>1. PICK s \in alive : i \in inputs[s] /\ offset'[r] = offset[s]
    BY <1>2, <1>5, <1>6, <1>10
  <2> QED BY <1>10, <2>1 DEF PathInv, OnePathPerInput
<1>11. OnePathPerInput'
  BY <1>7, <1>8, <1>9, <1>10, <1>2 DEF OnePathPerInput
<1> QED BY <1>4, <1>6, <1>11 DEF PathInv

LEMMA PathStep == PathInv /\ [Next]_vars => PathInv'
<1> SUFFICES ASSUME PathInv, [Next]_vars
             PROVE  PathInv'
  OBVIOUS
<1>1. CASE UNCHANGED vars
  BY <1>1, InputsStay DEF vars
<1>2. ASSUME NEW p \in Path, Call, Heap(p)
      PROVE  PathInv'
  <2>1. alive' = alive
    BY <1>2 DEF Heap, HeapStep, Malloc, Calloc, Realloc, Free, Store, StartMain, Give, Fill
  <2> QED BY <1>2, <2>1, InputsStay DEF Call, Heap
<1>3. ASSUME NEW p \in Path, Call, ReadStdin(p)
      PROVE  PathInv'
  BY <1>3, PathRead DEF Call
<1>4. ASSUME NEW p \in Path, Call, Rand(p) \/ Srand(p)
      PROVE  PathInv'
  BY <1>4, InputsStay DEF Call, Rand, Srand
<1>5. ASSUME NEW p \in Path, NEW q \in Path, Call, Branch(p, q)
      PROVE  PathInv'
  BY <1>5, PathBranch DEF Call
<1> QED BY <1>1, <1>2, <1>3, <1>4, <1>5 DEF Next

\* Every input that may be given is in exactly one path, with the bytes asked for
\* as far as they have been read: set_argv, read, srand, rand and the branches of
\* the program lose none and double none.
THEOREM InputsInOnePath == Spec => []OnePathPerInput
<1>1. PathInv => OnePathPerInput
  BY DEF PathInv
<1> QED BY <1>1, PathInit, PathStep, PTL DEF Spec

-----------------------------------------------------------------------------
(***************************************************************************)
(* Blocks.  What is known of a memory m, the blocks bs that were allocated *)
(* in it and the heap pointer top: a block begins at least its own size    *)
(* behind the ones before it, so that blocks which never shrink are apart. *)
(***************************************************************************)
Memory == [0..MaxAddr -> Cell]
Bytes  == UNION {[D -> Cell] : D \in SUBSET Nat}

GrowingIn(bs)  == \A i \in 2..Len(bs) : bs[i - 1].size <= bs[i].size
Sorted(bs)     == \A i, j \in DOMAIN bs : i <= j => bs[i].size <= bs[j].size
AllFit(bs)     == \A i \in DOMAIN bs : Fits(bs[i].ptr, bs[i].size)
HoldsIn(m, b)  == \A k \in DOMAIN b.want : m[b.ptr + k] = b.want[k]
LiveHold(m, bs) == \A i \in DOMAIN bs : bs[i].live => HoldsIn(m, bs[i])

Placed(bs, top) ==
  \A i \in DOMAIN bs :
    /\ DOMAIN bs[i].want \subseteq 0..(bs[i].size - 1)
    /\ bs[i].ptr <= top
    /\ \A j \in DOMAIN bs : i < j => bs[i].ptr + bs[j].size <= bs[j].ptr

Kept(m, top, bs) ==
  Placed(bs, top) /\ (AllFit(bs) /\ GrowingIn(bs) => Sorted(bs) /\ LiveHold(m, bs))

HeapInv ==
  HeapTypes /\ \A p \in alive : AllFit(blocks[p]) /\ Kept(mem[p], heap_ptr[p], blocks[p])

LEMMA BlockFields ==
  ASSUME NEW b \in BlockType
  PROVE  b.ptr \in Nat /\ b.size \in Nat \ {0} /\ b.want \in Bytes /\ b.live \in BOOLEAN
BY DEF BlockType, Bytes

LEMMA NoBytes == <<>> \in Bytes /\ DOMAIN <<>> = {}
<1>1. <<>> \in [{} -> Cell]
  OBVIOUS
<1> QED BY <1>1 DEF Bytes

LEMMA BytesIs ==
  ASSUME NEW D \in SUBSET Nat, NEW f \in [D -> Cell]
  PROVE  f \in Bytes
BY DEF Bytes

LEMMA StoredIs ==
  ASSUME NEW m \in Memory, NEW a \in Nat, NEW bytes \in Bytes
  PROVE  /\ Stored(m, a, bytes) \in Memory
         /\ \A x \in 0..MaxAddr :
              Stored(m, a, bytes)[x] = IF x - a \in DOMAIN bytes THEN bytes[x - a] ELSE m[x]
<1>1. PICK D \in SUBSET Nat : bytes \in [D -> Cell]
  BY DEF Bytes
<1> HIDE DEF Cell
<1> QED BY <1>1 DEF Stored, Memory

\* Blocks that never shrink are apart.
LEMMA Apart ==
  ASSUME NEW bs \in Seq(BlockType), NEW top, Placed(bs, top), Sorted(bs),
         NEW i \in DOMAIN bs, NEW j \in DOMAIN bs, i # j,
         NEW k \in 0..(bs[i].size - 1), NEW l \in 0..(bs[j].size - 1)
  PROVE  bs[i].ptr + k # bs[j].ptr + l
<1>1. bs[i] \in BlockType /\ bs[j] \in BlockType /\ i \in Nat /\ j \in Nat
  OBVIOUS
<1>2. bs[i].ptr \in Nat /\ bs[j].ptr \in Nat /\ bs[i].size \in Nat /\ bs[j].size \in Nat
  BY <1>1, BlockFields
<1>3. CASE i < j
  <2>1. bs[i].ptr + bs[j].size <= bs[j].ptr /\ bs[i].size <= bs[j].size
    BY <1>1, <1>3 DEF Placed, Sorted
  <2> QED BY <1>2, <2>1
<1>4. CASE j < i
  <2>1. bs[j].ptr + bs[i].size <= bs[i].ptr /\ bs[j].size <= bs[i].size
    BY <1>1, <1>4 DEF Placed, Sorted
  <2> QED BY <1>2, <2>1
<1> QED BY <1>1, <1>3, <1>4

\* Writing to one of them leaves the others what they hold.
LEMMA StoreKeeps ==
  ASSUME NEW m \in Memory, NEW bs \in Seq(BlockType), NEW top, Placed(bs, top), Sorted(bs), AllFit(bs),
         NEW i \in DOMAIN bs, NEW j \in DOMAIN bs, i # j, HoldsIn(m, bs[j]),
         NEW bytes \in Bytes, DOMAIN bytes \subseteq 0..(bs[i].size - 1)
  PROVE  HoldsIn(Stored(m, bs[i].ptr, bytes), bs[j])
<1>1. bs[i] \in BlockType /\ bs[j] \in BlockType
  OBVIOUS
<1>2. bs[i].ptr \in Nat /\ bs[j].ptr \in Nat /\ bs[i].size \in Nat /\ bs[j].size \in Nat
  BY <1>1, BlockFields
<1> SUFFICES ASSUME NEW k \in DOMAIN bs[j].want
             PROVE  Stored(m, bs[i].ptr, bytes)[bs[j].ptr + k] = bs[j].want[k]
  BY DEF HoldsIn
<1>3. k \in 0..(bs[j].size - 1)
  BY DEF Placed
<1>4. bs[j].ptr + k \in 0..MaxAddr
  <2>1. bs[j].ptr + bs[j].size - 1 <= MaxAddr /\ MaxAddr \in Nat
    BY HeapAssumption DEF AllFit, Fits
  <2> QED BY <1>2, <1>3, <2>1
<1>5. (bs[j].ptr + k) - bs[i].ptr \notin DOMAIN bytes
  <2> SUFFICES ASSUME (bs[j].ptr + k) - bs[i].ptr \in DOMAIN bytes
               PROVE  FALSE
    OBVIOUS
  <2> DEFINE l == (bs[j].ptr + k) - bs[i].ptr
  <2>1. l \in 0..(bs[i].size - 1)
    OBVIOUS
  <2>2. bs[i].ptr + l # bs[j].ptr + k
    BY <2>1, <1>3, Apart
  <2> QED BY <1>2, <1>3, <2>2
<1>6. m[bs[j].ptr + k] = bs[j].want[k]
  BY DEF HoldsIn
<1>7. \A x \in 0..MaxAddr :
        Stored(m, bs[i].ptr, bytes)[x] = IF x - bs[i].ptr \in DOMAIN bytes THEN bytes[x - bs[i].ptr] ELSE m[x]
  BY <1>2, StoredIs
<1> QED BY <1>4, <1>5, <1>6, <1>7

\* A block holds what is stored in it, and what it held where that is not.
LEMMA StoreHolds ==
  ASSUME NEW m \in Memory, NEW a \in Nat, NEW n \in Nat, Fits(a, n), NEW bytes \in Bytes,
         NEW k \in 0..(n - 1)
  PROVE  Stored(m, a, bytes)[a + k] = IF k \in DOMAIN bytes THEN bytes[k] ELSE m[a + k]
<1>1. a + k \in 0..MaxAddr /\ (a + k) - a = k
  BY HeapAssumption DEF Fits
<1> QED BY <1>1, StoredIs

\* A block at the end.
LEMMA PlacedAppend ==
  ASSUME NEW bs \in Seq(BlockType), NEW top \in Nat, Placed(bs, top),
         NEW b \in BlockType, b.ptr = top + b.size, DOMAIN b.want \subseteq 0..(b.size - 1)
  PROVE  /\ Placed(Append(bs, b), b.ptr)
         /\ AllFit(Append(bs, b)) <=> AllFit(bs) /\ Fits(b.ptr, b.size)
         /\ GrowingIn(Append(bs, b)) => GrowingIn(bs)
         /\ Sorted(bs) /\ GrowingIn(Append(bs, b)) => Sorted(Append(bs, b))
<1> DEFINE cs == Append(bs, b)
           n == Len(bs)
<1>1. n \in Nat /\ DOMAIN bs = 1..n /\ DOMAIN cs = 1..(n + 1) /\ Len(cs) = n + 1 /\ cs[n + 1] = b
      /\ \A i \in 1..n : cs[i] = bs[i] /\ bs[i] \in BlockType
  OBVIOUS
<1>2. b.ptr \in Nat /\ b.size \in Nat /\ \A i \in 1..n : bs[i].ptr \in Nat /\ bs[i].size \in Nat
  BY <1>1, BlockFields
<1> HIDE DEF cs, n
<1>3. Placed(cs, b.ptr)
  <2>1. ASSUME NEW i \in 1..n
        PROVE  /\ DOMAIN cs[i].want \subseteq 0..(cs[i].size - 1)
               /\ cs[i].ptr <= b.ptr /\ cs[i].ptr + b.size <= b.ptr
               /\ \A j \in 1..n : i < j => cs[i].ptr + cs[j].size <= cs[j].ptr
    <3>1. cs[i] = bs[i] /\ i \in DOMAIN bs
      BY <1>1
    <3>2. DOMAIN bs[i].want \subseteq 0..(bs[i].size - 1) /\ bs[i].ptr <= top
      BY <3>1 DEF Placed
    <3>3. bs[i].ptr <= b.ptr /\ bs[i].ptr + b.size <= b.ptr
      BY <1>2, <3>2
    <3>4. \A j \in 1..n : i < j => cs[i].ptr + cs[j].size <= cs[j].ptr
      BY <1>1, <3>1 DEF Placed
    <3> QED BY <3>1, <3>2, <3>3, <3>4
  <2>2. ASSUME NEW i \in 1..(n + 1)
        PROVE  /\ DOMAIN cs[i].want \subseteq 0..(cs[i].size - 1)
               /\ cs[i].ptr <= b.ptr
               /\ \A j \in 1..(n + 1) : i < j => cs[i].ptr + cs[j].size <= cs[j].ptr
    <3>1. CASE i = n + 1
      <4>1. cs[i] = b /\ \A j \in 1..(n + 1) : ~(i < j)
        BY <1>1, <3>1
      <4> QED BY <1>2, <4>1
    <3>2. CASE i # n + 1
      <4>1. i \in 1..n /\ \A j \in 1..(n + 1) : j \in 1..n \/ j = n + 1
        BY <1>1, <3>2
      <4>2. cs[n + 1] = b
        BY <1>1
      <4> QED BY <2>1, <4>1, <4>2
    <3> QED BY <3>1, <3>2
  <2>3. DOMAIN cs = 1..(n + 1)
    BY <1>1
  <2> QED BY <2>2, <2>3 DEF Placed
<1>4. AllFit(cs) <=> AllFit(bs) /\ Fits(b.ptr, b.size)
  BY <1>1 DEF AllFit
<1>5. GrowingIn(cs) => GrowingIn(bs) /\ (n > 0 => bs[n].size <= b.size)
  <2> SUFFICES ASSUME GrowingIn(cs)
               PROVE  GrowingIn(bs) /\ (n > 0 => bs[n].size <= b.size)
    OBVIOUS
  <2>1. \A i \in 2..n : i \in 2..(n + 1) /\ i - 1 \in 1..n /\ i \in 1..n
    BY <1>1
  <2>2. GrowingIn(bs)
    BY <1>1, <2>1 DEF GrowingIn, n
  <2>3. n > 0 => n + 1 \in 2..(n + 1) /\ (n + 1) - 1 = n /\ n \in 1..n
    BY <1>1
  <2> QED BY <1>1, <2>2, <2>3 DEF GrowingIn
<1>6. Sorted(bs) /\ GrowingIn(cs) => Sorted(cs)
  <2> SUFFICES ASSUME Sorted(bs), GrowingIn(cs)
               PROVE  Sorted(cs)
    OBVIOUS
  <2>1. \A i \in 1..n : bs[i].size <= b.size
    <3> SUFFICES ASSUME NEW i \in 1..n
                 PROVE  bs[i].size <= b.size
      OBVIOUS
    <3>1. n \in 1..n /\ i <= n /\ n > 0
      BY <1>1
    <3>2. bs[i].size <= bs[n].size /\ bs[n].size <= b.size
      BY <1>1, <1>5, <3>1 DEF Sorted
    <3> QED BY <1>2, <3>1, <3>2
  <2>2. \A i \in 1..(n + 1) : i \in 1..n \/ i = n + 1
    BY <1>1
  <2>3. \A j \in 1..n : ~(n + 1 <= j)
    BY <1>1
  <2> QED BY <1>1, <1>2, <2>1, <2>2, <2>3 DEF Sorted
<1> QED BY <1>3, <1>4, <1>5, <1>6 DEF cs

\* An allocation: nothing that was there is written, and the new block holds
\* what is stored in it.
LEMMA GiveKeeps ==
  ASSUME NEW m \in Memory, NEW bs \in Seq(BlockType), NEW top \in Nat, NEW n \in Nat \ {0}, Kept(m, top, bs),
         NEW bytes \in Bytes, DOMAIN bytes \subseteq 0..(n - 1),
         NEW want \in Bytes, DOMAIN want \subseteq DOMAIN bytes,
         AllFit(bs) /\ GrowingIn(bs) => \A k \in DOMAIN want : want[k] = bytes[k]
  PROVE  /\ Append(bs, Block(top + n, n, want)) \in Seq(BlockType)
         /\ Kept(Stored(m, top + n, bytes), top + n, Append(bs, Block(top + n, n, want)))
<1> DEFINE b == Block(top + n, n, want)
           cs == Append(bs, b)
           m2 == Stored(m, top + n, bytes)
<1>1. b \in BlockType /\ b.ptr = top + n /\ b.size = n /\ b.want = want
  BY DEF Block, BlockType, Bytes
<1> HIDE DEF b
<1>2. cs \in Seq(BlockType) /\ Len(bs) \in Nat /\ DOMAIN bs = 1..Len(bs)
      /\ DOMAIN cs = 1..(Len(bs) + 1) /\ cs[Len(bs) + 1] = b /\ \A i \in 1..Len(bs) : cs[i] = bs[i]
  BY <1>1
<1>3. /\ Placed(cs, b.ptr)
      /\ AllFit(cs) <=> AllFit(bs) /\ Fits(b.ptr, b.size)
      /\ GrowingIn(cs) => GrowingIn(bs)
      /\ Sorted(bs) /\ GrowingIn(cs) => Sorted(cs)
  <2>1. Placed(bs, top)
    BY DEF Kept
  <2>2. b.ptr = top + b.size /\ DOMAIN b.want \subseteq 0..(b.size - 1)
    BY <1>1
  <2> QED BY <1>1, <2>1, <2>2, PlacedAppend
<1> HIDE DEF cs
<1>4. ASSUME AllFit(cs), GrowingIn(cs)
      PROVE  Sorted(cs) /\ LiveHold(m2, cs)
  <2>1. AllFit(bs) /\ GrowingIn(bs) /\ Fits(top + n, n) /\ Sorted(cs) /\ LiveHold(m, bs)
    BY <1>1, <1>3, <1>4 DEF Kept
  <2>2. ASSUME NEW i \in 1..Len(bs), cs[i].live
        PROVE  HoldsIn(m2, cs[i])
    <3>1. HoldsIn(m, cs[i]) /\ i # Len(bs) + 1 /\ i \in DOMAIN cs /\ Len(bs) + 1 \in DOMAIN cs
      BY <1>2, <2>1, <2>2 DEF LiveHold
    <3>2. DOMAIN bytes \subseteq 0..(cs[Len(bs) + 1].size - 1) /\ cs[Len(bs) + 1].ptr = top + n
      BY <1>1, <1>2
    <3>3. HoldsIn(Stored(m, cs[Len(bs) + 1].ptr, bytes), cs[i])
      BY <1>2, <1>3, <1>4, <2>1, <3>1, <3>2, StoreKeeps
    <3> QED BY <3>2, <3>3
  <2>3. HoldsIn(m2, b)
    <3> SUFFICES ASSUME NEW k \in DOMAIN want
                 PROVE  m2[top + n + k] = want[k]
      BY <1>1 DEF HoldsIn
    <3>1. k \in 0..(n - 1) /\ k \in DOMAIN bytes /\ top + n \in Nat
      OBVIOUS
    <3>2. m2[top + n + k] = bytes[k]
      BY <2>1, <3>1, StoreHolds
    <3> QED BY <2>1, <3>2
  <2> QED BY <1>2, <2>1, <2>2, <2>3 DEF LiveHold
<1> HIDE DEF m2
<1>5. Kept(m2, top + n, cs)
  BY <1>1, <1>3, <1>4 DEF Kept
<1> QED BY <1>2, <1>5 DEF m2, cs, b

LEMMA SameSizes ==
  ASSUME NEW bs, NEW cs, NEW top, Len(bs) = Len(cs), DOMAIN bs = DOMAIN cs, DOMAIN bs = 1..Len(bs),
         Len(bs) \in Nat,
         \A i \in DOMAIN bs : bs[i].ptr = cs[i].ptr /\ bs[i].size = cs[i].size
  PROVE  /\ AllFit(bs) <=> AllFit(cs)
         /\ GrowingIn(bs) <=> GrowingIn(cs)
         /\ Sorted(bs) <=> Sorted(cs)
<1>1. \A i \in 2..Len(bs) : i \in DOMAIN bs /\ i - 1 \in DOMAIN bs
  OBVIOUS
<1>2. GrowingIn(bs) <=> GrowingIn(cs)
  BY <1>1 DEF GrowingIn
<1>3. AllFit(bs) <=> AllFit(cs)
  BY DEF AllFit
<1>4. Sorted(bs) <=> Sorted(cs)
  BY DEF Sorted
<1> QED BY <1>2, <1>3, <1>4

\* free, and realloc's old block: it is no longer the program's.
LEMMA FreeKeeps ==
  ASSUME NEW m, NEW top, NEW bs \in Seq(BlockType), Kept(m, top, bs), NEW b \in DOMAIN bs
  PROVE  LET cs == [bs EXCEPT ![b].live = FALSE]
         IN  /\ cs \in Seq(BlockType) /\ Kept(m, top, cs)
             /\ (AllFit(cs) <=> AllFit(bs)) /\ (GrowingIn(cs) => GrowingIn(bs))
<1> DEFINE cs == [bs EXCEPT ![b].live = FALSE]
<1>1. bs[b] \in BlockType /\ Len(bs) \in Nat /\ DOMAIN bs = 1..Len(bs)
  OBVIOUS
<1>2. cs = [bs EXCEPT ![b] = [bs[b] EXCEPT !.live = FALSE]] /\ [bs[b] EXCEPT !.live = FALSE] \in BlockType
  BY <1>1 DEF BlockType
<1>3. cs \in Seq(BlockType) /\ Len(cs) = Len(bs) /\ DOMAIN cs = DOMAIN bs
  BY <1>1, <1>2
<1>4. \A i \in DOMAIN bs : /\ cs[i].ptr = bs[i].ptr /\ cs[i].size = bs[i].size /\ cs[i].want = bs[i].want
                           /\ cs[i].live => bs[i].live
  <2> SUFFICES ASSUME NEW i \in DOMAIN bs
               PROVE  /\ cs[i].ptr = bs[i].ptr /\ cs[i].size = bs[i].size /\ cs[i].want = bs[i].want
                      /\ cs[i].live => bs[i].live
    OBVIOUS
  <2>1. CASE i = b
    BY <1>1, <2>1 DEF BlockType
  <2>2. CASE i # b
    BY <2>2
  <2> QED BY <2>1, <2>2
<1> HIDE DEF cs
<1>5. (AllFit(cs) <=> AllFit(bs)) /\ (GrowingIn(cs) <=> GrowingIn(bs)) /\ (Sorted(cs) <=> Sorted(bs))
  BY <1>1, <1>3, <1>4, SameSizes
<1>6. Placed(cs, top)
  BY <1>3, <1>4 DEF Placed, Kept
<1>7. LiveHold(m, bs) => LiveHold(m, cs)
  BY <1>3, <1>4 DEF LiveHold, HoldsIn
<1>8. Kept(m, top, cs)
  BY <1>5, <1>6, <1>7 DEF Kept
<1> QED BY <1>3, <1>5, <1>8 DEF cs

LEMMA OverBytes ==
  ASSUME NEW f \in Bytes, NEW g \in Bytes
  PROVE  Over(f, g) \in Bytes
<1>1. PICK D \in SUBSET Nat : f \in [D -> Cell]
  BY DEF Bytes
<1>2. PICK E \in SUBSET Nat : g \in [E -> Cell]
  BY DEF Bytes
<1>3. Over(f, g) \in [D \cup E -> Cell]
  BY <1>1, <1>2 DEF Over
<1> QED BY <1>3, BytesIs

\* The program writes to a block of its own: no other block is written.
LEMMA FillKeeps ==
  ASSUME NEW m \in Memory, NEW top, NEW bs \in Seq(BlockType), Kept(m, top, bs), NEW b \in DOMAIN bs,
         NEW bytes \in Bytes, DOMAIN bytes \subseteq 0..(bs[b].size - 1)
  PROVE  LET cs == [bs EXCEPT ![b].want = Over(bytes, @)]
         IN  /\ cs \in Seq(BlockType) /\ Kept(Stored(m, bs[b].ptr, bytes), top, cs)
             /\ (AllFit(cs) <=> AllFit(bs))
<1> DEFINE want == Over(bytes, bs[b].want)
           cs == [bs EXCEPT ![b].want = Over(bytes, @)]
           a  == bs[b].ptr
           m2 == Stored(m, a, bytes)
<1>1. bs[b] \in BlockType /\ Len(bs) \in Nat /\ DOMAIN bs = 1..Len(bs)
  OBVIOUS
<1>2. a \in Nat /\ bs[b].size \in Nat /\ bs[b].want \in Bytes
  BY <1>1, BlockFields
<1>3. /\ want \in Bytes /\ DOMAIN want = DOMAIN bytes \cup DOMAIN bs[b].want
      /\ \A k \in DOMAIN want : want[k] = IF k \in DOMAIN bytes THEN bytes[k] ELSE bs[b].want[k]
  <2> DEFINE old == bs[b].want
  <2>1. old \in Bytes /\ want = Over(bytes, old)
    BY <1>2
  <2> HIDE DEF want, old
  <2>2. want \in Bytes
    BY <2>1, OverBytes
  <2>3. /\ DOMAIN want = DOMAIN bytes \cup DOMAIN old
        /\ \A k \in DOMAIN want : want[k] = IF k \in DOMAIN bytes THEN bytes[k] ELSE old[k]
    BY <2>1 DEF Over
  <2> QED BY <2>2, <2>3 DEF old
<1> HIDE DEF want
<1>4. cs = [bs EXCEPT ![b] = [bs[b] EXCEPT !.want = want]] /\ [bs[b] EXCEPT !.want = want] \in BlockType
  BY <1>1, <1>3 DEF BlockType, Bytes, want
<1>5. cs \in Seq(BlockType) /\ Len(cs) = Len(bs) /\ DOMAIN cs = DOMAIN bs
  BY <1>1, <1>4
<1>6. \A i \in DOMAIN bs : /\ cs[i].ptr = bs[i].ptr /\ cs[i].size = bs[i].size /\ cs[i].live = bs[i].live
                           /\ cs[i].want = IF i = b THEN want ELSE bs[i].want
  <2> SUFFICES ASSUME NEW i \in DOMAIN bs
               PROVE  /\ cs[i].ptr = bs[i].ptr /\ cs[i].size = bs[i].size /\ cs[i].live = bs[i].live
                      /\ cs[i].want = IF i = b THEN want ELSE bs[i].want
    OBVIOUS
  <2> HIDE DEF cs
  <2>1. CASE i = b
    <3>1. cs[i] = [bs[b] EXCEPT !.want = want]
      BY <1>4, <2>1
    <3> QED BY <1>1, <2>1, <3>1 DEF BlockType
  <2>2. CASE i # b
    BY <1>4, <2>2
  <2> QED BY <2>1, <2>2
<1> HIDE DEF cs
<1>7. (AllFit(cs) <=> AllFit(bs)) /\ (GrowingIn(cs) <=> GrowingIn(bs)) /\ (Sorted(cs) <=> Sorted(bs))
  BY <1>1, <1>5, <1>6, SameSizes
<1>8. \A i \in DOMAIN bs : DOMAIN cs[i].want \subseteq 0..(cs[i].size - 1)
  BY <1>3, <1>6 DEF Placed, Kept
<1>9. Placed(cs, top)
  BY <1>5, <1>6, <1>8 DEF Placed, Kept
<1>10. ASSUME AllFit(bs), GrowingIn(bs), NEW i \in DOMAIN bs, bs[i].live
       PROVE  HoldsIn(m2, cs[i])
  <2>1. Sorted(bs) /\ HoldsIn(m, bs[i]) /\ Placed(bs, top)
    BY <1>10 DEF Kept, LiveHold
  <2>2. CASE i # b
    <3>1. HoldsIn(m2, bs[i])
      BY <1>10, <2>1, <2>2, StoreKeeps
    <3> QED BY <1>6, <2>2, <3>1 DEF HoldsIn
  <2>3. CASE i = b
    <3> SUFFICES ASSUME NEW k \in DOMAIN want
                 PROVE  m2[a + k] = want[k]
      BY <1>6, <2>3 DEF HoldsIn
    <3>1. k \in 0..(bs[b].size - 1) /\ Fits(a, bs[b].size)
      BY <1>6, <1>8, <1>10, <2>3 DEF AllFit
    <3>2. m2[a + k] = IF k \in DOMAIN bytes THEN bytes[k] ELSE m[a + k]
      BY <1>2, <3>1, StoreHolds
    <3>3. k \notin DOMAIN bytes => m[a + k] = bs[b].want[k]
      BY <1>3, <2>1, <2>3 DEF HoldsIn
    <3> QED BY <1>3, <3>2, <3>3
  <2> QED BY <2>2, <2>3
<1> HIDE DEF m2, a
<1>11. AllFit(bs) /\ GrowingIn(bs) => LiveHold(m2, cs)
  BY <1>5, <1>6, <1>10 DEF LiveHold
<1>12. Kept(m2, top, cs)
  BY <1>7, <1>9, <1>11 DEF Kept
<1> QED BY <1>5, <1>7, <1>12 DEF cs, m2, a

-----------------------------------------------------------------------------
(***************************************************************************)
(* The actions, for the heap of one path.                                  *)
(***************************************************************************)
LEMMA OnePathsHeap ==
  ASSUME HeapInv, NEW p \in Path, NEW m \in Memory, NEW top \in Nat, NEW bs \in Seq(BlockType),
         NEW v \in Nat, UNCHANGED <<alive, m_argv>>,
         mem' = [mem EXCEPT ![p] = m], heap_ptr' = [heap_ptr EXCEPT ![p] = top],
         blocks' = [blocks EXCEPT ![p] = bs], argv' = [argv EXCEPT ![p] = v],
         AllFit(bs), Kept(m, top, bs)
  PROVE  HeapInv'
<1>1. HeapTypes'
  BY DEF HeapInv, HeapTypes, Memory
<1>2. /\ mem'[p] = m /\ heap_ptr'[p] = top /\ blocks'[p] = bs
      /\ \A q \in Path \ {p} : mem'[q] = mem[q] /\ heap_ptr'[q] = heap_ptr[q] /\ blocks'[q] = blocks[q]
  BY DEF HeapInv, HeapTypes
<1>3. ASSUME NEW q \in alive
      PROVE  AllFit(blocks'[q]) /\ Kept(mem'[q], heap_ptr'[q], blocks'[q])
  <2>1. CASE q = p
    BY <1>2, <2>1
  <2>2. CASE q # p
    <3>1. q \in Path \ {p}
      BY <2>2 DEF HeapInv, HeapTypes
    <3> QED BY <1>2, <3>1 DEF HeapInv
  <2> QED BY <2>1, <2>2
<1> QED BY <1>1, <1>3 DEF HeapInv, AllFit, Kept, Placed, GrowingIn, Sorted, LiveHold, HoldsIn

\* What is known of one path.
LEMMA HeapOf ==
  ASSUME HeapInv, NEW p \in alive
  PROVE  /\ p \in Path /\ mem[p] \in Memory /\ heap_ptr[p] \in Nat /\ blocks[p] \in Seq(BlockType)
         /\ argv[p] \in Nat /\ AllFit(blocks[p]) /\ Kept(mem[p], heap_ptr[p], blocks[p])
         /\ \A b \in DOMAIN blocks[p] : blocks[p][b] \in BlockType
<1>1. p \in Path /\ mem[p] \in Memory /\ heap_ptr[p] \in Nat /\ argv[p] \in Nat
  BY DEF HeapInv, HeapTypes, Memory
<1>2. blocks[p] \in Seq(BlockType)
  BY <1>1 DEF HeapInv, HeapTypes
<1>3. \A b \in DOMAIN blocks[p] : blocks[p][b] \in BlockType
  BY <1>2
<1> QED BY <1>1, <1>2, <1>3 DEF HeapInv

LEMMA GiveStep ==
  ASSUME HeapInv, NEW p \in alive, NEW n \in Nat \ {0}, NEW bytes \in Bytes, DOMAIN bytes \subseteq 0..(n - 1),
         Give(p, n, bytes)
  PROVE  HeapInv'
<1> DEFINE top == heap_ptr[p] + n
           m   == Stored(mem[p], top, bytes)
           bs  == Append(blocks[p], Block(top, n, bytes))
<1>1. /\ Fits(top, n) /\ mem' = [mem EXCEPT ![p] = m] /\ heap_ptr' = [heap_ptr EXCEPT ![p] = top]
      /\ blocks' = [blocks EXCEPT ![p] = bs] /\ UNCHANGED <<alive, m_argv, argv>>
  BY DEF Give, allocate
<1>2. /\ p \in Path /\ mem[p] \in Memory /\ heap_ptr[p] \in Nat /\ blocks[p] \in Seq(BlockType)
      /\ argv[p] \in Nat /\ AllFit(blocks[p]) /\ Kept(mem[p], heap_ptr[p], blocks[p])
  BY HeapOf
<1>3. bs \in Seq(BlockType) /\ Kept(m, top, bs)
  BY <1>2, GiveKeeps
<1>4. top \in Nat /\ m \in Memory
  BY <1>2, StoredIs
<1>5. Block(top, n, bytes) \in BlockType /\ Block(top, n, bytes).ptr = top /\ Block(top, n, bytes).size = n
  BY <1>4 DEF Block, BlockType, Bytes
<1>6. AllFit(bs)
  <2> HIDE DEF top
  <2>1. \A i \in DOMAIN bs : \/ i \in DOMAIN blocks[p] /\ bs[i] = blocks[p][i]
                            \/ bs[i] = Block(top, n, bytes)
    BY <1>2, <1>5
  <2> QED BY <1>1, <1>2, <1>5, <2>1 DEF AllFit
<1>7. argv' = [argv EXCEPT ![p] = argv[p]]
  BY <1>1 DEF HeapInv, HeapTypes
<1> HIDE DEF top, m, bs
<1> QED BY <1>1, <1>2, <1>3, <1>4, <1>6, <1>7, OnePathsHeap

Same(n, v) == [k \in 0..(n - 1) |-> Byte(v)]

LEMMA SomeBytes ==
  ASSUME NEW n \in Nat, NEW v \in 0..255
  PROVE  Same(n, v) \in Bytes /\ DOMAIN Same(n, v) = 0..(n - 1)
<1>1. Byte(v) \in Cell
  BY DEF Byte, Cell, Letter
<1>2. 0..(n - 1) \in SUBSET Nat /\ Same(n, v) \in [0..(n - 1) -> Cell]
  BY <1>1 DEF Same
<1> QED BY <1>2, BytesIs

LEMMA MallocStep ==
  ASSUME HeapInv, NEW p \in Path, Malloc(p) \/ Calloc(p)
  PROVE  HeapInv'
<1>1. p \in alive /\ Sizes \subseteq Nat \ {0}
  BY HeapAssumption DEF Malloc, Calloc, Room
<1>2. CASE Malloc(p)
  <2>1. PICK n \in Sizes : Give(p, n, <<>>)
    BY <1>2 DEF Malloc
  <2>2. DOMAIN <<>> \subseteq 0..(n - 1)
    BY NoBytes
  <2> QED BY <1>1, <2>1, <2>2, NoBytes, GiveStep
<1>3. CASE Calloc(p)
  <2>1. PICK n \in Sizes : Give(p, n, Zeros(n))
    BY <1>3 DEF Calloc
  <2>2. Zeros(n) \in Bytes /\ DOMAIN Zeros(n) \subseteq 0..(n - 1)
    <3>1. Zeros(n) = Same(n, 0) /\ n \in Nat /\ 0 \in 0..255
      BY <1>1 DEF Zeros, Same
    <3> QED BY <3>1, SomeBytes
  <2> QED BY <1>1, <2>1, <2>2, GiveStep
<1> QED BY <1>2, <1>3

LEMMA ContentsBytes ==
  ASSUME NEW m \in Memory, NEW a \in Nat, NEW n \in Nat, Fits(a, n)
  PROVE  Contents(m, a, n) \in Bytes /\ DOMAIN Contents(m, a, n) = 0..(n - 1)
         /\ \A k \in 0..(n - 1) : Contents(m, a, n)[k] = m[a + k]
<1>1. \A k \in 0..(n - 1) : a + k \in 0..MaxAddr
  BY HeapAssumption DEF Fits
<1>2. \A k \in 0..(n - 1) : m[a + k] \in Cell
  <2> HIDE DEF Cell
  <2> QED BY <1>1 DEF Memory
<1>3. 0..(n - 1) \in SUBSET Nat /\ Contents(m, a, n) \in [0..(n - 1) -> Cell]
  BY <1>2 DEF Contents
<1> QED BY <1>3, BytesIs DEF Contents

\* The new block is behind the old one, which still holds what it held when
\* it is copied.
LEMMA ReallocStep ==
  ASSUME HeapInv, NEW p \in Path, Realloc(p)
  PROVE  HeapInv'
<1>1. p \in alive /\ Sizes \subseteq Nat \ {0}
  BY HeapAssumption DEF Realloc, Room
<1>2. PICK b \in DOMAIN blocks[p] : \E n \in Sizes :
        LET old == blocks[p][b]
            a   == allocate(heap_ptr[p], n)
        IN  /\ old.live
            /\ Fits(a.ptr, n) /\ Fits(old.ptr, n)
            /\ mem' = [mem EXCEPT ![p] = Stored(@, a.ptr, Contents(@, old.ptr, n))]
            /\ heap_ptr' = [heap_ptr EXCEPT ![p] = a.next]
            /\ blocks' = [blocks EXCEPT ![p] =
                 Append([@ EXCEPT ![b].live = FALSE], Block(a.ptr, n, Clipped(old.want, n)))]
  BY DEF Realloc
<1> DEFINE old == blocks[p][b]
           freed == [blocks[p] EXCEPT ![b].live = FALSE]
<1>3. PICK n \in Sizes :
        /\ old.live /\ Fits(heap_ptr[p] + n, n) /\ Fits(old.ptr, n)
        /\ mem' = [mem EXCEPT ![p] = Stored(mem[p], heap_ptr[p] + n, Contents(mem[p], old.ptr, n))]
        /\ heap_ptr' = [heap_ptr EXCEPT ![p] = heap_ptr[p] + n]
        /\ blocks' = [blocks EXCEPT ![p] =
             Append(freed, Block(heap_ptr[p] + n, n, Clipped(old.want, n)))]
  BY <1>2 DEF allocate
<1> DEFINE top   == heap_ptr[p] + n
           bytes == Contents(mem[p], old.ptr, n)
           want  == Clipped(old.want, n)
           m     == Stored(mem[p], top, bytes)
           bs    == Append(freed, Block(top, n, want))
<1>4. /\ mem[p] \in Memory /\ heap_ptr[p] \in Nat /\ blocks[p] \in Seq(BlockType)
      /\ argv[p] \in Nat /\ AllFit(blocks[p]) /\ Kept(mem[p], heap_ptr[p], blocks[p])
      /\ old \in BlockType
  BY <1>1, HeapOf
<1>5. n \in Nat \ {0} /\ top \in Nat /\ old.ptr \in Nat /\ old.want \in Bytes
  BY <1>1, <1>4, BlockFields
<1>6. freed \in Seq(BlockType) /\ Kept(mem[p], heap_ptr[p], freed) /\ AllFit(freed)
      /\ (GrowingIn(freed) => GrowingIn(blocks[p]))
  BY <1>4, FreeKeeps
<1>7. bytes \in Bytes /\ DOMAIN bytes = 0..(n - 1) /\ \A k \in 0..(n - 1) : bytes[k] = mem[p][old.ptr + k]
  <2>1. Fits(old.ptr, n)
    BY <1>3
  <2> HIDE DEF old
  <2> QED BY <1>4, <1>5, <2>1, ContentsBytes
<1>8. DOMAIN old.want \subseteq 0..(old.size - 1)
  BY <1>4 DEF Kept, Placed
<1>9. want \in Bytes /\ DOMAIN want \subseteq DOMAIN bytes
      /\ \A k \in DOMAIN want : k \in DOMAIN old.want /\ want[k] = old.want[k]
  <2>1. PICK D \in SUBSET Nat : old.want \in [D -> Cell]
    BY <1>5 DEF Bytes
  <2>2. want \in [{k \in D : k < n} -> Cell] /\ {k \in D : k < n} \in SUBSET Nat
    BY <2>1 DEF Clipped
  <2>3. want \in Bytes
    <3> HIDE DEF want, Cell
    <3> QED BY <2>2, BytesIs
  <2>4. {k \in D : k < n} \subseteq 0..(n - 1)
    <3> SUFFICES ASSUME NEW k \in D, k < n
                 PROVE  k \in 0..(n - 1)
      OBVIOUS
    <3> QED BY <1>5
  <2> HIDE DEF bytes
  <2> QED BY <1>7, <2>1, <2>2, <2>3, <2>4 DEF Clipped
<1>10. AllFit(freed) /\ GrowingIn(freed) => \A k \in DOMAIN want : want[k] = bytes[k]
  <2> SUFFICES ASSUME GrowingIn(freed), NEW k \in DOMAIN want
               PROVE  want[k] = bytes[k]
    OBVIOUS
  <2>1. HoldsIn(mem[p], old)
    BY <1>3, <1>4, <1>6 DEF Kept, LiveHold
  <2>2. k \in DOMAIN old.want /\ want[k] = old.want[k] /\ k \in 0..(n - 1)
    BY <1>7, <1>9
  <2> HIDE DEF bytes, want, old
  <2> QED BY <1>7, <2>1, <2>2 DEF HoldsIn
<1> HIDE DEF old, freed, bytes, want
<1>11. bs \in Seq(BlockType) /\ Kept(m, top, bs)
  BY <1>4, <1>5, <1>6, <1>7, <1>9, <1>10, GiveKeeps
<1>12. m \in Memory
  BY <1>4, <1>5, <1>7, StoredIs
<1>13. Block(top, n, want) \in BlockType /\ Block(top, n, want).ptr = top /\ Block(top, n, want).size = n
  BY <1>5, <1>9 DEF Block, BlockType, Bytes
<1>14. AllFit(bs)
  <2>1. \A i \in DOMAIN bs : \/ i \in DOMAIN freed /\ bs[i] = freed[i]
                            \/ bs[i] = Block(top, n, want)
    BY <1>6, <1>13
  <2> QED BY <1>3, <1>6, <1>13, <2>1 DEF AllFit
<1>15. argv' = [argv EXCEPT ![p] = argv[p]] /\ UNCHANGED <<alive, m_argv>>
  BY DEF HeapInv, HeapTypes, Realloc
<1>16. mem' = [mem EXCEPT ![p] = m] /\ blocks' = [blocks EXCEPT ![p] = bs]
       /\ heap_ptr' = [heap_ptr EXCEPT ![p] = top]
  BY <1>3 DEF bytes, want
<1> HIDE DEF top, m, bs
<1> QED BY <1>4, <1>5, <1>11, <1>12, <1>14, <1>15, <1>16, OnePathsHeap

LEMMA FreeStep ==
  ASSUME HeapInv, NEW p \in Path, Free(p)
  PROVE  HeapInv'
<1>1. PICK b \in DOMAIN blocks[p] : blocks' = [blocks EXCEPT ![p][b].live = FALSE]
  BY DEF Free
<1> DEFINE bs == [blocks[p] EXCEPT ![b].live = FALSE]
<1>2. p \in alive /\ UNCHANGED <<alive, mem, heap_ptr, m_argv, argv>>
  BY DEF Free
<1>3. /\ mem[p] \in Memory /\ heap_ptr[p] \in Nat /\ blocks[p] \in Seq(BlockType)
      /\ argv[p] \in Nat /\ AllFit(blocks[p]) /\ Kept(mem[p], heap_ptr[p], blocks[p])
  BY <1>2, HeapOf
<1>4. bs \in Seq(BlockType) /\ Kept(mem[p], heap_ptr[p], bs) /\ AllFit(bs)
  BY <1>3, FreeKeeps
<1>5. blocks' = [blocks EXCEPT ![p] = bs]
  BY <1>1
<1>6. mem' = [mem EXCEPT ![p] = mem[p]] /\ heap_ptr' = [heap_ptr EXCEPT ![p] = heap_ptr[p]]
      /\ argv' = [argv EXCEPT ![p] = argv[p]]
  BY <1>2 DEF HeapInv, HeapTypes
<1> HIDE DEF bs
<1> QED BY <1>2, <1>3, <1>4, <1>5, <1>6, OnePathsHeap

LEMMA FillStep ==
  ASSUME HeapInv, NEW p \in alive, NEW b \in DOMAIN blocks[p], NEW bytes \in Bytes, Fill(p, b, bytes)
  PROVE  HeapInv'
<1> DEFINE bs == [blocks[p] EXCEPT ![b].want = Over(bytes, @)]
           m  == Stored(mem[p], blocks[p][b].ptr, bytes)
<1>1. /\ DOMAIN bytes \subseteq 0..(blocks[p][b].size - 1)
      /\ mem' = [mem EXCEPT ![p] = m] /\ blocks' = [blocks EXCEPT ![p] = bs]
      /\ UNCHANGED <<alive, heap_ptr, m_argv, argv>>
  BY DEF Fill
<1>2. /\ p \in Path /\ mem[p] \in Memory /\ heap_ptr[p] \in Nat /\ blocks[p] \in Seq(BlockType)
      /\ argv[p] \in Nat /\ AllFit(blocks[p]) /\ Kept(mem[p], heap_ptr[p], blocks[p])
      /\ blocks[p][b] \in BlockType
  BY HeapOf
<1>3. bs \in Seq(BlockType) /\ Kept(m, heap_ptr[p], bs) /\ AllFit(bs)
  BY <1>1, <1>2, FillKeeps
<1>4. m \in Memory
  BY <1>2, BlockFields, StoredIs
<1>5. heap_ptr' = [heap_ptr EXCEPT ![p] = heap_ptr[p]] /\ argv' = [argv EXCEPT ![p] = argv[p]]
  BY <1>1 DEF HeapInv, HeapTypes
<1> HIDE DEF bs, m
<1> QED BY <1>1, <1>2, <1>3, <1>4, <1>5, OnePathsHeap

LEMMA StoreStep ==
  ASSUME HeapInv, NEW p \in Path, Store(p)
  PROVE  HeapInv'
<1>1. PICK b \in DOMAIN blocks[p] : Fill(p, b, Same(blocks[p][b].size, 7))
  BY DEF Store, Same
<1>2. p \in alive
  BY DEF Store
<1>3. blocks[p][b].size \in Nat
  BY <1>2, HeapOf, BlockFields
<1>4. Same(blocks[p][b].size, 7) \in Bytes
  <2>1. 7 \in 0..255
    OBVIOUS
  <2> QED BY <1>3, <2>1, SomeBytes
<1> QED BY <1>1, <1>2, <1>4, FillStep

\* The bytes read are those of each input.
LEMMA ReadHeap ==
  ASSUME HeapInv, PathInv, NEW p \in Path, ReadStdin(p)
  PROVE  HeapInv'
<1>1. p \in alive
  BY DEF ReadStdin
<1>2. PICK b \in DOMAIN blocks[p] : \E n \in 1..blocks[p][b].size :
        offset[p] + n <= StdinLength /\ Fill(p, b, Stdin(offset[p], n))
  BY DEF ReadStdin
<1>3. PICK n \in 1..blocks[p][b].size : offset[p] + n <= StdinLength /\ Fill(p, b, Stdin(offset[p], n))
  BY <1>2
<1>4. n \in Nat /\ offset[p] \in Nat
  BY DEF PathInv, InputTypes
<1>5. ASSUME NEW k \in 0..(n - 1)
      PROVE  StdinByte(offset[p] + k) \in Cell
  <2>1. ASSUME NEW i \in Input
        PROVE  i.stdin[offset[p] + k + 1] \in 0..255
    <3>1. i.stdin \in Seq(0..255) /\ Len(i.stdin) = StdinLength
      BY InputAssumption DEF StdinLength
    <3>2. offset[p] + k + 1 \in 1..Len(i.stdin)
      BY <1>3, <1>4, <3>1
    <3> QED BY <3>1, <3>2, ElementOfSeq
  <2> QED BY <2>1 DEF StdinByte, Cell, Letter
<1>6. 0..(n - 1) \in SUBSET Nat /\ Stdin(offset[p], n) \in [0..(n - 1) -> Cell]
  BY <1>4, <1>5 DEF Stdin
<1>7. Stdin(offset[p], n) \in Bytes
  <2> HIDE DEF Cell
  <2> QED BY <1>6, BytesIs
<1> QED BY <1>1, <1>3, <1>7, FillStep

-----------------------------------------------------------------------------
(***************************************************************************)
(* __libc_start_main: after k arguments there are k + 1 blocks, and the    *)
(* next slot is in the first one, the vector.                              *)
(***************************************************************************)
Laid      == [heap: Nat, mem: Memory, blocks: Seq(BlockType) \ {<<>>}]
Vector(acc, q) == FoldLeft(PutArg, acc, q)

LEMMA TextBytes ==
  ASSUME NEW s \in ArgString
  PROVE  Text(s) \in Bytes /\ DOMAIN Text(s) = 0..Len(s) /\ Len(s) \in Nat
<1>1. Byte(0) \in Letter
  BY DEF Byte, Letter
<1>2. Len(s) \in Nat /\ Terminated(s) \in Seq(Letter) /\ Len(Terminated(s)) = Len(s) + 1
  BY <1>1 DEF ArgString, Terminated
<1>3. \A k \in 0..Len(s) : k + 1 \in 1..Len(Terminated(s))
  BY <1>2
<1>4. \A k \in 0..Len(s) : Terminated(s)[k + 1] \in Cell
  BY <1>2, <1>3, ElementOfSeq DEF Cell
<1>5. 0..Len(s) \in SUBSET Nat /\ Text(s) \in [0..Len(s) -> Cell]
  BY <1>2, <1>4 DEF Text
<1> QED BY <1>2, <1>5, BytesIs

LEMMA LittleBytes ==
  ASSUME NEW v \in Nat
  PROVE  Little(v) \in Bytes /\ DOMAIN Little(v) = 0..(PtrBytes - 1)
         /\ \A k \in 0..(PtrBytes - 1) : Little(v)[k] \in Cell
<1>1. \A k \in 0..(PtrBytes - 1) : (v \div 256^k) % 256 \in 0..255
  OBVIOUS
<1> DEFINE digit(k) == Byte((v \div 256^k) % 256)
<1>2. \A k \in 0..(PtrBytes - 1) : digit(k) \in Cell
  BY <1>1 DEF Byte, Cell, Letter
<1>3. 0..(PtrBytes - 1) \in SUBSET Nat /\ Little(v) \in [0..(PtrBytes - 1) -> Cell]
  <2>1. Little(v) = [k \in 0..(PtrBytes - 1) |-> digit(k)]
    BY DEF Little
  <2> HIDE DEF digit
  <2> QED BY <1>2, <2>1
<1> QED BY <1>3, BytesIs

LEMMA AppendExcept ==
  ASSUME NEW S, NEW q \in Seq(S), 1 \in DOMAIN q, NEW x \in S, NEW e \in S
  PROVE  Append([q EXCEPT ![1] = x], e) = [Append(q, e) EXCEPT ![1] = x]
<1> DEFINE s == Append([q EXCEPT ![1] = x], e)
           t == [Append(q, e) EXCEPT ![1] = x]
<1>1. s \in Seq(S) /\ t \in Seq(S) /\ Len(s) = Len(q) + 1 /\ Len(t) = Len(q) + 1 /\ Len(q) \in Nat
  OBVIOUS
<1> DEFINE r == [q EXCEPT ![1] = x]
<1>2. r \in Seq(S) /\ Len(r) = Len(q) /\ \A j \in 1..Len(q) : r[j] = IF j = 1 THEN x ELSE q[j]
  BY ExceptSeq
<1>3. ASSUME NEW i \in 1..Len(q) + 1
      PROVE  s[i] = t[i]
  <2>1. /\ \A j \in 1..Len(q) : Append(q, e)[j] = q[j] /\ Append(r, e)[j] = r[j]
        /\ Append(q, e)[Len(q) + 1] = e /\ Append(r, e)[Len(q) + 1] = e
        /\ Append(q, e) \in Seq(S) /\ DOMAIN Append(q, e) = 1..Len(q) + 1
    <3> HIDE DEF r
    <3> QED BY <1>2, AppendProperties
  <2>2. t[i] = IF i = 1 THEN x ELSE Append(q, e)[i]
    <3> DEFINE u == Append(q, e)
    <3>1. DOMAIN u = 1..Len(q) + 1
      BY <2>1
    <3> HIDE DEF u
    <3>2. [u EXCEPT ![1] = x][i] = IF i = 1 THEN x ELSE u[i]
      BY <3>1
    <3> QED BY <3>2 DEF u
  <2>3. i \in 1..Len(q) \/ i = Len(q) + 1
    BY <1>1
  <2>4. 1 # Len(q) + 1
    BY <1>1
  <2> HIDE DEF r, t
  <2>5. s = Append(r, e)
    BY DEF r
  <2> HIDE DEF s
  <2> QED BY <1>2, <2>1, <2>2, <2>3, <2>4, <2>5
<1> HIDE DEF s, t
<1>4. s = t
  BY <1>1, <1>3, SeqEqual
<1> QED BY <1>4 DEF s, t

\* One argument: its string in a block of its own, its address in the vector.
LEMMA PutArgKeeps ==
  ASSUME NEW acc \in Laid, NEW s \in ArgString
  PROVE  /\ PutArg(acc, s) \in Laid
         /\ Kept(acc.mem, acc.heap, acc.blocks) /\ Len(acc.blocks) * PtrBytes <= acc.blocks[1].size =>
              /\ Kept(PutArg(acc, s).mem, PutArg(acc, s).heap, PutArg(acc, s).blocks)
              /\ Len(PutArg(acc, s).blocks) = Len(acc.blocks) + 1
              /\ PutArg(acc, s).blocks[1].size = acc.blocks[1].size
<1> DEFINE n == Len(s) + 1
           top == acc.heap + n
           i == Len(acc.blocks) - 1
           base == i * PtrBytes
           D == {k + base : k \in 0..(PtrBytes - 1)}
           slot == acc.blocks[1].ptr + base
           vector == [k \in D |-> Little(top)[k - base]]
           new == Block(top, n, Text(s))
           m1 == Stored(acc.mem, top, Text(s))
           m2 == Stored(m1, slot, Little(top))
           bs1 == Append(acc.blocks, new)
           b1 == [acc.blocks[1] EXCEPT !.want = Over(vector, @)]
           first == [acc.blocks EXCEPT ![1].want = Over(vector, @)]
           bs2 == Append(first, new)
<1>1. PutArg(acc, s) = [heap |-> top, mem |-> m2, blocks |-> bs2]
  BY DEF PutArg, allocate
<1>2. /\ acc.heap \in Nat /\ acc.mem \in Memory /\ acc.blocks \in Seq(BlockType) /\ acc.blocks # <<>>
      /\ n \in Nat \ {0} /\ top \in Nat
  BY TextBytes DEF Laid
<1>3. i \in Nat /\ 1 \in DOMAIN acc.blocks /\ acc.blocks[1] \in BlockType /\ PtrBytes \in Nat
      /\ Len(acc.blocks) = i + 1
  BY <1>2, HeapAssumption
<1>4. acc.blocks[1].ptr \in Nat /\ acc.blocks[1].size \in Nat /\ acc.blocks[1].want \in Bytes
  BY <1>3, BlockFields
<1>5. base \in Nat /\ (i + 1) * PtrBytes = base + PtrBytes
  BY <1>3
<1> HIDE DEF base, i, top, n
<1>6. D \in SUBSET Nat /\ \A k \in D : k - base \in 0..(PtrBytes - 1)
  BY <1>3, <1>5
<1>7. vector \in Bytes /\ DOMAIN vector = D
  <2>1. vector \in [D -> Cell]
    <3> HIDE DEF D, Cell
    <3> QED BY <1>2, <1>6, LittleBytes
  <2> HIDE DEF D, Cell
  <2> QED BY <1>6, <2>1, BytesIs
<1>8. Text(s) \in Bytes /\ DOMAIN Text(s) \subseteq 0..(n - 1)
  BY TextBytes DEF n
<1>9. new \in BlockType
  BY <1>2, <1>8 DEF Block, BlockType, Bytes
<1>10. m1 \in Memory /\ m2 \in Memory
  <2>1. m1 \in Memory
    BY <1>2, <1>8, StoredIs
  <2>2. slot \in Nat /\ Little(top) \in Bytes
    BY <1>2, <1>4, <1>5, LittleBytes
  <2> HIDE DEF m1, slot
  <2> QED BY <2>1, <2>2, StoredIs
<1>11. /\ first = [acc.blocks EXCEPT ![1] = b1] /\ bs2 = Append([acc.blocks EXCEPT ![1] = b1], new)
       /\ b1 \in BlockType /\ b1.size = acc.blocks[1].size
  <2>1. Over(vector, acc.blocks[1].want) \in Bytes
    <3> HIDE DEF vector
    <3> QED BY <1>4, <1>7, OverBytes
  <2> HIDE DEF vector
  <2>2. b1 \in BlockType /\ b1.size = acc.blocks[1].size
    BY <1>3, <2>1 DEF BlockType, Bytes
  <2>3. first = [acc.blocks EXCEPT ![1] = b1]
    OBVIOUS
  <2> QED BY <2>2, <2>3
<1> HIDE DEF new, vector, first, D, b1
<1>12. bs2 \in Seq(BlockType) /\ bs2 # <<>> /\ bs1 \in Seq(BlockType) /\ 1 \in DOMAIN bs1
       /\ bs1[1] = acc.blocks[1] /\ Len(bs2) = Len(acc.blocks) + 1 /\ bs2[1] = b1
  <2> DEFINE q == [acc.blocks EXCEPT ![1] = b1]
  <2>1. q \in Seq(BlockType) /\ Len(q) = Len(acc.blocks) /\ q[1] = b1 /\ Len(acc.blocks) \in Nat
    BY <1>2, <1>3, <1>11
  <2>2. bs2 = Append(q, new)
    BY <1>11
  <2> HIDE DEF q, bs2
  <2>3. bs2 \in Seq(BlockType) /\ bs2 # <<>> /\ Len(bs2) = Len(acc.blocks) + 1 /\ bs2[1] = b1
    BY <1>3, <1>9, <2>1, <2>2
  <2>4. bs1 \in Seq(BlockType) /\ 1 \in DOMAIN bs1 /\ bs1[1] = acc.blocks[1]
    BY <1>2, <1>3, <1>9
  <2> QED BY <2>3, <2>4
<1>13. PutArg(acc, s) \in Laid
  <2> HIDE DEF m2, bs2
  <2> QED BY <1>1, <1>2, <1>10, <1>12 DEF Laid
<1>14. bs2 = [bs1 EXCEPT ![1].want = Over(vector, @)]
  <2>1. Append([acc.blocks EXCEPT ![1] = b1], new) = [Append(acc.blocks, new) EXCEPT ![1] = b1]
    BY <1>2, <1>3, <1>9, <1>11, AppendExcept
  <2> HIDE DEF bs2
  <2>2. bs2 = [bs1 EXCEPT ![1] = b1]
    BY <1>11, <2>1
  <2>3. b1 = [bs1[1] EXCEPT !.want = Over(vector, @)]
    BY <1>12 DEF b1
  <2> HIDE DEF bs1
  <2> QED BY <2>2, <2>3
<1>15. m2 = Stored(m1, bs1[1].ptr, vector)
  <2> DEFINE a == acc.blocks[1].ptr
  <2>1. \A b \in 0..MaxAddr : /\ b - slot \in 0..(PtrBytes - 1) <=> b - a \in D
                              /\ (b - a) - base = b - slot
    <3> SUFFICES ASSUME NEW b \in 0..MaxAddr
                 PROVE  (b - slot \in 0..(PtrBytes - 1) <=> b - a \in D) /\ (b - a) - base = b - slot
      OBVIOUS
    <3>1. b \in Int /\ (b - a) - base = b - slot
      BY <1>4, <1>5, HeapAssumption
    <3>2. ASSUME b - slot \in 0..(PtrBytes - 1)
          PROVE  b - a \in D
      <4>1. b - a = (b - slot) + base
        BY <1>4, <1>5, <3>1
      <4> QED BY <3>2, <4>1 DEF D
    <3>3. ASSUME b - a \in D
          PROVE  b - slot \in 0..(PtrBytes - 1)
      BY <1>6, <3>1, <3>3
    <3> QED BY <3>1, <3>2, <3>3
  <2>2. DOMAIN Little(top) = 0..(PtrBytes - 1)
    BY <1>2, LittleBytes
  <2>3. DOMAIN m1 = 0..MaxAddr
    BY <1>10 DEF Memory
  <2> HIDE DEF m1, slot
  <2>4. ASSUME NEW b \in DOMAIN m1
        PROVE  (IF b - slot \in DOMAIN Little(top) THEN Little(top)[b - slot] ELSE m1[b])
               = IF b - a \in DOMAIN vector THEN vector[b - a] ELSE m1[b]
    <3>1. CASE b - slot \in 0..(PtrBytes - 1)
      BY <1>7, <2>1, <2>2, <2>3, <3>1 DEF vector
    <3>2. CASE b - slot \notin 0..(PtrBytes - 1)
      BY <1>7, <2>1, <2>2, <2>3, <3>2
    <3> QED BY <3>1, <3>2
  <2>5. bs1[1].ptr = a
    BY <1>12
  <2> HIDE DEF a
  <2> QED BY <2>4, <2>5 DEF Stored
<1>16. ASSUME Kept(acc.mem, acc.heap, acc.blocks), Len(acc.blocks) * PtrBytes <= acc.blocks[1].size
       PROVE  Kept(m2, top, bs2) /\ bs2[1].size = acc.blocks[1].size
  <2>1. Kept(m1, top, bs1)
    <3>1. \A k \in DOMAIN Text(s) : Text(s)[k] = Text(s)[k]
      OBVIOUS
    <3> QED BY <1>2, <1>8, <1>16, GiveKeeps DEF top, new
  <2>2. DOMAIN vector \subseteq 0..(bs1[1].size - 1)
    <3>1. \A k \in D : k \in Nat /\ k - base \in 0..(PtrBytes - 1)
      BY <1>6
    <3>2. base + PtrBytes <= acc.blocks[1].size
      BY <1>3, <1>5, <1>16
    <3>3. \A k \in D : k \in 0..(acc.blocks[1].size - 1)
      BY <1>3, <1>4, <1>5, <3>1, <3>2
    <3> QED BY <1>7, <1>12, <3>3
  <2> HIDE DEF m1, m2, bs1, bs2
  <2>3. Kept(Stored(m1, bs1[1].ptr, vector), top, [bs1 EXCEPT ![1].want = Over(vector, @)])
    BY <1>7, <1>10, <1>12, <2>1, <2>2, FillKeeps
  <2>4. bs2[1].size = acc.blocks[1].size
    BY <1>11, <1>12
  <2> QED BY <1>14, <1>15, <2>3, <2>4
<1> HIDE DEF m2, bs2
<1> QED BY <1>1, <1>12, <1>13, <1>16

\* FoldLeft, argument by argument.
ArgLoop(acc, q) ==
  \E G : /\ Vector(acc, q) = G[1..Len(q)] /\ G[{}] = acc
         /\ \A k \in 1..Len(q) : G[1..k] = PutArg(G[1..k - 1], q[k])

LEMMA ArgLoopSteps ==
  ASSUME NEW acc \in Laid, NEW q \in Seq(ArgString)
  PROVE  ArgLoop(acc, q)
<1> DEFINE N == Len(q)
           op == [r \in Laid \X ArgString |-> PutArg(r[1], r[2])]
           Folded(g, s) == IF s = {} THEN acc ELSE PutArg(g[s \ {Max(s)}], q[Max(s)])
           G == CHOOSE g : g = [s \in SUBSET (1..N) |-> Folded(g, s)]
<1>1. N \in Nat /\ DOMAIN q = 1..N /\ \A k \in 1..N : q[k] \in ArgString
  OBVIOUS
<1>2. op \in [Laid \X ArgString -> Laid]
  BY PutArgKeeps
<1>3. PICK F \in [SUBSET (1..N) -> Laid] : \A s \in SUBSET (1..N) :
        F[s] = IF s = {} THEN acc ELSE op[<<F[s \ {Max(s)}], q[Max(s)]>>]
  <2> HIDE DEF op, N
  <2>1. Foldable(Laid, ArgString, acc, op, q, N)
    BY <1>1, <1>2 DEF Foldable
  <2>2. Folds(Laid, acc, op, q, N)
    BY <2>1, <1>1, LoopExists
  <2> QED BY <2>2 DEF Folds
<1>4. ASSUME NEW s \in SUBSET (1..N)
      PROVE  F[s] = Folded(F, s)
  <2>1. CASE s = {}
    BY <2>1, <1>3
  <2>2. CASE s # {}
    <3>1. Max(s) \in 1..N
      BY <2>2, <1>1, MaxInSet
    <3>2. F[s \ {Max(s)}] \in Laid /\ q[Max(s)] \in ArgString
      BY <3>1, <1>1
    <3>3. op[<<F[s \ {Max(s)}], q[Max(s)]>>] = PutArg(F[s \ {Max(s)}], q[Max(s)])
      BY <3>2
    <3> HIDE DEF op
    <3> QED BY <3>3, <2>2, <1>3
  <2> QED BY <2>1, <2>2
<1>5. F = [s \in SUBSET (1..N) |-> Folded(F, s)]
  <2> HIDE DEF Folded
  <2> QED BY <1>4
<1>6. G = [s \in SUBSET (1..N) |-> Folded(G, s)]
  <2> HIDE DEF Folded
  <2> QED BY <1>5
<1>7. Vector(acc, q) = G[1..N]
  BY <1>1 DEF Vector, FoldLeft, MapThenFoldSet
<1>8. G[{}] = acc
  <2>1. G[{}] = Folded(G, {})
    <3> HIDE DEF Folded, G
    <3> QED BY <1>6
  <2> HIDE DEF G
  <2> QED BY <2>1
<1>9. ASSUME NEW k \in 1..N
      PROVE  G[1..k] = PutArg(G[1..k - 1], q[k])
  <2>1. 1..k \in SUBSET (1..N) /\ k \in Nat \ {0}
    BY <1>1
  <2>2. G[1..k] = Folded(G, 1..k)
    <3> HIDE DEF Folded, G
    <3> QED BY <2>1, <1>6
  <2>3. 1..k # {} /\ Max(1..k) = k /\ (1..k) \ {Max(1..k)} = 1..k - 1
    BY <2>1, MaxOfPrefix
  <2> HIDE DEF G
  <2> QED BY <2>2, <2>3
<1> HIDE DEF G
<1> QED BY <1>7, <1>8, <1>9 DEF ArgLoop

\* All the arguments: what has been laid out is kept.
LEMMA VectorKeeps ==
  ASSUME NEW acc \in Laid, NEW q \in Seq(ArgString), Kept(acc.mem, acc.heap, acc.blocks),
         Len(acc.blocks) = 1, acc.blocks[1].size = Len(q) * PtrBytes
  PROVE  Vector(acc, q) \in Laid
         /\ Kept(Vector(acc, q).mem, Vector(acc, q).heap, Vector(acc, q).blocks)
<1> DEFINE N == Len(q)
<1>1. PICK G : /\ Vector(acc, q) = G[1..N] /\ G[{}] = acc
               /\ \A k \in 1..N : G[1..k] = PutArg(G[1..k - 1], q[k])
  BY ArgLoopSteps DEF ArgLoop
<1>2. N \in Nat /\ PtrBytes \in Nat /\ \A k \in 1..N : q[k] \in ArgString
  BY HeapAssumption
<1> HIDE DEF N
<1> DEFINE Good(g, k) == /\ g \in Laid /\ Kept(g.mem, g.heap, g.blocks)
                         /\ Len(g.blocks) = k + 1 /\ g.blocks[1].size = N * PtrBytes
           S == {k \in 0..N : Good(G[1..k], k)}
<1>3. 0 \in S
  <2>1. 1..0 = {}
    OBVIOUS
  <2>2. Good(acc, 0)
    BY DEF N
  <2> HIDE DEF Good
  <2> QED BY <1>1, <1>2, <2>1, <2>2
<1>4. ASSUME NEW k \in 0..N - 1, k \in S
      PROVE  k + 1 \in S
  <2> DEFINE g == G[1..k]
             h == G[1..k + 1]
  <2>1. Good(g, k) /\ k + 1 \in 1..N /\ (k + 1) - 1 = k /\ k + 1 \in 0..N /\ k \in Nat
    BY <1>2, <1>4
  <2>2. h = PutArg(g, q[k + 1]) /\ q[k + 1] \in ArgString
    BY <1>1, <1>2, <2>1
  <2> HIDE DEF g, h
  <2>3. (k + 1) * PtrBytes <= N * PtrBytes
    <3>1. (N - (k + 1)) \in Nat /\ (N - (k + 1)) * PtrBytes \in Nat
      BY <1>2, <2>1
    <3>2. N * PtrBytes = (k + 1) * PtrBytes + (N - (k + 1)) * PtrBytes
      BY <1>2, <2>1
    <3>3. N * PtrBytes \in Nat /\ (k + 1) * PtrBytes \in Nat
      BY <1>2, <2>1
    <3> QED BY <3>1, <3>2, <3>3
  <2>4. Len(g.blocks) * PtrBytes <= g.blocks[1].size
    BY <2>1, <2>3
  <2>5. Good(h, k + 1)
    BY <2>1, <2>2, <2>4, PutArgKeeps
  <2> HIDE DEF Good
  <2> QED BY <2>1, <2>5 DEF h
<1>5. N \in S
  <2> HIDE DEF S
  <2>1. 0..N \subseteq S
    BY <1>2, <1>3, <1>4, SetInduction
  <2> QED BY <1>2, <2>1
<1> QED BY <1>1, <1>5

\* What main is given.
LEMMA StartMainStep ==
  ASSUME HeapInv, NEW p \in Path, StartMain(p)
  PROVE  HeapInv'
<1> DEFINE n     == Len(m_argv) * PtrBytes
           top   == heap_ptr[p] + n
           first == [heap |-> top, mem |-> mem[p], blocks |-> <<Block(top, n, <<>>)>>]
           last  == Vector(first, m_argv)
<1>1. /\ p \in alive /\ UNCHANGED <<alive, m_argv>>
      /\ \A i \in DOMAIN last.blocks : Fits(last.blocks[i].ptr, last.blocks[i].size)
      /\ mem' = [mem EXCEPT ![p] = last.mem] /\ heap_ptr' = [heap_ptr EXCEPT ![p] = last.heap]
      /\ blocks' = [blocks EXCEPT ![p] = last.blocks] /\ argv' = [argv EXCEPT ![p] = top]
  BY DEF StartMain, allocate, Vector
<1>2. p \in Path /\ mem[p] \in Memory /\ heap_ptr[p] \in Nat /\ m_argv \in Seq(ArgString)
  BY <1>1, HeapOf DEF HeapInv, HeapTypes
<1>3. n \in Nat \ {0} /\ top \in Nat
  <2>1. Len(m_argv) \in Nat \ {0} /\ PtrBytes \in Nat \ {0}
    BY HeapAssumption DEF HeapInv, HeapTypes
  <2>2. n \in Nat \ {0}
    BY <2>1
  <2> HIDE DEF n
  <2> QED BY <1>2, <2>2
<1> HIDE DEF n, top
<1> DEFINE b == Block(top, n, <<>>)
<1>4. b \in BlockType /\ b.ptr = top /\ b.size = n /\ b.want = <<>>
  BY <1>3, NoBytes DEF Block, BlockType, Bytes
<1>5. first \in Laid /\ first.mem = mem[p] /\ first.heap = top /\ first.blocks = <<b>>
  <2> HIDE DEF b
  <2> QED BY <1>2, <1>3, <1>4 DEF Laid, b
<1>6. Kept(mem[p], top, <<b>>)
  <2> HIDE DEF b
  <2>1. DOMAIN <<b>> = {1} /\ <<b>>[1] = b /\ Len(<<b>>) = 1
    OBVIOUS
  <2>2. Placed(<<b>>, top)
    BY <1>3, <1>4, <2>1, NoBytes DEF Placed
  <2>3. Sorted(<<b>>) /\ LiveHold(mem[p], <<b>>)
    BY <1>3, <1>4, <2>1, NoBytes DEF Sorted, LiveHold, HoldsIn
  <2> QED BY <2>2, <2>3 DEF Kept
<1> HIDE DEF b
<1>7. Len(first.blocks) = 1 /\ first.blocks[1].size = Len(m_argv) * PtrBytes
  BY <1>4, <1>5 DEF n
<1> HIDE DEF first
<1>8. last \in Laid /\ Kept(last.mem, last.heap, last.blocks)
  BY <1>2, <1>5, <1>6, <1>7, VectorKeeps
<1> HIDE DEF last
<1>9. last.mem \in Memory /\ last.heap \in Nat /\ last.blocks \in Seq(BlockType)
  BY <1>8 DEF Laid
<1>10. AllFit(last.blocks)
  BY <1>1 DEF AllFit
<1> QED BY <1>1, <1>2, <1>3, <1>8, <1>9, <1>10, OnePathsHeap

-----------------------------------------------------------------------------
LEMMA HeapInitInv == Init => HeapInv
<1> SUFFICES ASSUME Init
             PROVE  HeapInv
  OBVIOUS
<1>1. PICK args \in Args : m_argv = [i \in DOMAIN args |-> Terminated(args[i].bytes)]
  BY DEF Init, set_argv
<1>2. args \in Seq(ArgType)
  BY HeapAssumption DEF ArgType, Letter
<1>3. \A i \in DOMAIN args : args[i] \in ArgType
  BY <1>2
<1>4. Byte(0) \in Letter
  BY DEF Byte, Letter
<1>5. ASSUME NEW i \in DOMAIN args
      PROVE  Terminated(args[i].bytes) \in ArgString
  <2>1. args[i].bytes \in Seq(Letter)
    BY <1>3 DEF ArgType
  <2> QED BY <1>4, <2>1 DEF Terminated, ArgString
<1>6. m_argv \in Seq(ArgString) \ {<<>>}
  <2>1. DOMAIN args = 1..Len(args) /\ Len(args) \in Nat \ {0}
    BY <1>2, HeapAssumption
  <2>2. m_argv \in [1..Len(args) -> ArgString]
    BY <1>1, <1>5, <2>1
  <2> QED BY <2>1, <2>2
<1>7. alive = {FirstPath} /\ FirstPath \in Path /\ HeapInit
  BY InputAssumption DEF Init
<1>8. /\ mem \in [Path -> [0..MaxAddr -> Cell]] /\ heap_ptr \in [Path -> Nat]
      /\ blocks = [p \in Path |-> <<>>] /\ argv \in [Path -> Nat]
  BY <1>7, HeapAssumption DEF HeapInit, Cell
<1>9. HeapTypes
  <2>1. <<>> \in Seq(BlockType)
    OBVIOUS
  <2> QED BY <1>6, <1>7, <1>8, <2>1 DEF HeapTypes
<1>10. \A p \in alive : blocks[p] = <<>>
  BY <1>7, <1>8
<1> QED BY <1>9, <1>10 DEF HeapInv, AllFit, Kept, Placed, Sorted, LiveHold

LEMMA BranchHeap ==
  ASSUME HeapInv, NEW p \in Path, NEW q \in Path, Branch(p, q)
  PROVE  HeapInv'
<1>1. /\ p \in alive /\ q \notin alive /\ alive' = alive \cup {q} /\ UNCHANGED m_argv
      /\ mem' = [mem EXCEPT ![q] = mem[p]] /\ heap_ptr' = [heap_ptr EXCEPT ![q] = heap_ptr[p]]
      /\ blocks' = [blocks EXCEPT ![q] = blocks[p]] /\ argv' = [argv EXCEPT ![q] = argv[p]]
  BY DEF Branch, HeapFork
<1>2. /\ mem[p] \in Memory /\ heap_ptr[p] \in Nat /\ blocks[p] \in Seq(BlockType)
      /\ argv[p] \in Nat /\ AllFit(blocks[p]) /\ Kept(mem[p], heap_ptr[p], blocks[p])
  BY <1>1, HeapOf
<1>3. HeapTypes'
  BY <1>1, <1>2 DEF HeapInv, HeapTypes, Memory
<1>4. \A r \in Path : LET o == IF r = q THEN p ELSE r
                      IN  mem'[r] = mem[o] /\ heap_ptr'[r] = heap_ptr[o] /\ blocks'[r] = blocks[o]
  BY <1>1 DEF HeapInv, HeapTypes
<1>5. ASSUME NEW r \in alive'
      PROVE  AllFit(blocks'[r]) /\ Kept(mem'[r], heap_ptr'[r], blocks'[r])
  <2>1. CASE r = q
    BY <1>2, <1>4, <2>1
  <2>2. CASE r # q
    <3>1. r \in alive /\ r \in Path
      BY <1>1, <2>2 DEF HeapInv, HeapTypes
    <3> QED BY <1>4, <2>2, <3>1 DEF HeapInv
  <2> QED BY <2>1, <2>2
<1> QED BY <1>3, <1>5 DEF HeapInv, AllFit, Kept, Placed, GrowingIn, Sorted, LiveHold, HoldsIn

LEMMA HeapInvStep == HeapInv /\ PathInv /\ [Next]_vars => HeapInv'
<1> SUFFICES ASSUME HeapInv, PathInv, [Next]_vars
             PROVE  HeapInv'
  OBVIOUS
<1>1. ASSUME UNCHANGED <<alive, heapVars>>
      PROVE  HeapInv'
  <2>1. /\ alive' = alive /\ mem' = mem /\ heap_ptr' = heap_ptr /\ blocks' = blocks
        /\ m_argv' = m_argv /\ argv' = argv
    BY <1>1 DEF heapVars
  <2>2. HeapTypes'
    BY <2>1 DEF HeapInv, HeapTypes
  <2>3. \A p \in alive' : AllFit(blocks'[p]) /\ Kept(mem'[p], heap_ptr'[p], blocks'[p])
    BY <2>1 DEF HeapInv
  <2> QED BY <2>2, <2>3 DEF HeapInv, AllFit, Kept, Placed, GrowingIn, Sorted, LiveHold, HoldsIn
<1>2. CASE UNCHANGED vars
  BY <1>1, <1>2 DEF vars
<1>3. ASSUME NEW p \in Path, Heap(p)
      PROVE  HeapInv'
  BY <1>3, MallocStep, ReallocStep, FreeStep, StoreStep, StartMainStep DEF Heap, HeapStep
<1>4. ASSUME NEW p \in Path, ReadStdin(p)
      PROVE  HeapInv'
  BY <1>4, ReadHeap
<1>5. ASSUME NEW p \in Path, Rand(p) \/ Srand(p)
      PROVE  HeapInv'
  BY <1>1, <1>5 DEF Rand, Srand
<1>6. ASSUME NEW p \in Path, NEW q \in Path, Branch(p, q)
      PROVE  HeapInv'
  BY <1>6, BranchHeap
<1> QED BY <1>2, <1>3, <1>4, <1>5, <1>6 DEF Next

LEMMA HeapKeeps == HeapInv => BlocksKeep
<1> SUFFICES ASSUME HeapInv, NEW p \in alive, Growing(p), NEW i \in DOMAIN blocks[p], blocks[p][i].live
             PROVE  Holds(p, blocks[p][i])
  BY DEF BlocksKeep
<1>1. AllFit(blocks[p]) /\ Kept(mem[p], heap_ptr[p], blocks[p]) /\ GrowingIn(blocks[p])
  BY DEF HeapInv, Growing, GrowingIn
<1> QED BY <1>1 DEF Kept, LiveHold, HoldsIn, Holds

\* State::allocate returns the end of the bytes it has reserved.  All the same, as long
\* as no block is smaller than the one before it, a block the program has holds what
\* was stored in it: blocks, strings of arguments and the vector never overlap, and
\* realloc copies all of the old block.
THEOREM BlocksHold == Spec => []BlocksKeep
BY PathInit, PathStep, HeapInitInv, HeapInvStep, HeapKeeps, PTL DEF Spec

-----------------------------------------------------------------------------
(***************************************************************************)
(* The generator.  The table is a ring with the last Deg numbers of the    *)
(* sequence, the oldest one at fptr, and rptr is Sep places behind.        *)
(***************************************************************************)
Words     == [0..(Deg - 1) -> Nat]
Behind(f) == IF f >= Sep THEN f - Sep ELSE f + Deg - Sep
At(f, j)  == IF f + j < Deg THEN f + j ELSE f + j - Deg
Gen       == {g \in [tbl: Words, fptr: 0..(Deg - 1), rptr: 0..(Deg - 1), res: Nat] :
                g.rptr = Behind(g.fptr)}
Numbers   == {z \in Seq(Nat) : Len(z) >= Deg}

Aligned(tbl, f, z) == \A j \in 0..(Deg - 1) : tbl[At(f, j)] = z[Len(z) - Deg + 1 + j]

NextNumber(z) == (z[Len(z) + 1 - Deg] + z[Len(z) + 1 - Sep]) % WordValues

LEMMA GenFields ==
  ASSUME NEW g \in Gen
  PROVE  /\ g.tbl \in Words /\ g.fptr \in 0..(Deg - 1) /\ g.rptr \in 0..(Deg - 1) /\ g.res \in Nat
         /\ g.rptr = Behind(g.fptr)
BY DEF Gen

LEMMA NextNumberIs ==
  ASSUME NEW z \in Numbers
  PROVE  /\ NextNumber(z) \in Nat /\ WithNext(z) = Append(z, NextNumber(z)) /\ WithNext(z) \in Numbers
         /\ Len(WithNext(z)) = Len(z) + 1 /\ Len(z) \in Nat
         /\ \A k \in 1..Len(z) : WithNext(z)[k] = z[k]
         /\ WithNext(z)[Len(z) + 1] = NextNumber(z) /\ Last(WithNext(z)) = NextNumber(z)
<1>1. z \in Seq(Nat) /\ Len(z) \in Nat /\ Len(z) >= Deg /\ Deg \in Nat /\ Sep \in 1..(Deg - 1)
      /\ WordValues \in Nat \ {0}
  BY RandAssumption DEF Numbers
<1>2. Len(z) + 1 - Deg \in 1..Len(z) /\ Len(z) + 1 - Sep \in 1..Len(z)
  BY <1>1
<1>3. z[Len(z) + 1 - Deg] \in Nat /\ z[Len(z) + 1 - Sep] \in Nat
  BY <1>1, <1>2, ElementOfSeq
<1>4. NextNumber(z) \in Nat
  <2>1. z[Len(z) + 1 - Deg] + z[Len(z) + 1 - Sep] \in Nat
    BY <1>3
  <2> QED BY <1>1, <2>1 DEF NextNumber
<1>5. WithNext(z) = Append(z, NextNumber(z))
  BY DEF WithNext, NextNumber
<1> DEFINE y == Append(z, NextNumber(z))
<1>6. y \in Seq(Nat) /\ Len(y) = Len(z) + 1 /\ \A k \in 1..Len(z) : y[k] = z[k]
  BY <1>1, <1>4, AppendProperties
<1>7. y[Len(z) + 1] = NextNumber(z)
  BY <1>1, <1>4, AppendProperties
<1> HIDE DEF y
<1>8. Last(y) = NextNumber(z)
  BY <1>6, <1>7 DEF Last
<1>9. y \in Numbers
  BY <1>1, <1>6 DEF Numbers
<1> QED BY <1>1, <1>4, <1>5, <1>6, <1>7, <1>8, <1>9 DEF y

\* A draw keeps the generator's pointers apart and moves both on.
LEMMA DrawMoves ==
  ASSUME NEW g \in Gen
  PROVE  /\ __random_r(g) \in Gen
         /\ __random_r(g).fptr = (IF g.fptr + 1 = Deg THEN 0 ELSE g.fptr + 1)
         /\ __random_r(g).rptr = (IF g.rptr + 1 = Deg THEN 0 ELSE g.rptr + 1)
<1> DEFINE val  == (g.tbl[g.fptr] + g.tbl[g.rptr]) % WordValues
           last == g.fptr + 1 >= Deg
           f    == IF last THEN 0 ELSE g.fptr + 1
           r    == IF ~last /\ g.rptr + 1 >= Deg THEN 0 ELSE g.rptr + 1
           tbl  == [g.tbl EXCEPT ![g.fptr] = val]
<1>1. __random_r(g) = [tbl |-> tbl, fptr |-> f, rptr |-> r, res |-> val \div 2]
  BY DEF __random_r
<1>2. /\ g.tbl \in Words /\ g.fptr \in 0..(Deg - 1) /\ g.rptr \in 0..(Deg - 1)
      /\ g.rptr = Behind(g.fptr)
  BY GenFields
<1>3. Deg \in Nat /\ Sep \in 1..(Deg - 1) /\ WordValues \in Nat \ {0}
  BY RandAssumption
<1>4. val \in Nat
  <2>1. g.tbl[g.fptr] \in Nat /\ g.tbl[g.rptr] \in Nat
    BY <1>2 DEF Words
  <2>2. g.tbl[g.fptr] + g.tbl[g.rptr] \in Nat
    BY <2>1
  <2> QED BY <1>3, <2>2
<1>5. val \div 2 \in Nat
  <2> HIDE DEF val
  <2> QED BY <1>4
<1>6. tbl \in Words
  <2> HIDE DEF val
  <2> QED BY <1>2, <1>4 DEF Words
<1>7. /\ f \in 0..(Deg - 1) /\ r \in 0..(Deg - 1) /\ r = Behind(f)
      /\ f = (IF g.fptr + 1 = Deg THEN 0 ELSE g.fptr + 1)
      /\ r = (IF g.rptr + 1 = Deg THEN 0 ELSE g.rptr + 1)
  BY <1>2, <1>3 DEF Behind
<1> HIDE DEF val, last, f, r, tbl
<1> QED BY <1>1, <1>5, <1>6, <1>7 DEF Gen

\* A draw yields the next number of the sequence and puts it in place of the
\* oldest.
LEMMA DrawIsNext ==
  ASSUME NEW g \in Gen, NEW z \in Numbers, Aligned(g.tbl, g.fptr, z)
  PROVE  /\ Aligned(__random_r(g).tbl, __random_r(g).fptr, WithNext(z))
         /\ __random_r(g).res = NextNumber(z) \div 2
<1> DEFINE L == Len(z)
           y == WithNext(z)
           f == g.fptr
           tbl == __random_r(g).tbl
           f2 == __random_r(g).fptr
<1>1. /\ Deg \in Nat /\ Sep \in 1..(Deg - 1) /\ L \in Nat /\ L >= Deg
      /\ f \in 0..(Deg - 1) /\ g.rptr = Behind(f) /\ DOMAIN g.tbl = 0..(Deg - 1)
  BY RandAssumption, GenFields, NextNumberIs DEF Numbers, Words
<1>2. f2 = (IF f + 1 = Deg THEN 0 ELSE f + 1)
  BY DrawMoves
<1>3. Len(y) = L + 1 /\ y[L + 1] = NextNumber(z) /\ \A k \in 1..L : y[k] = z[k]
  BY NextNumberIs
<1>4. (g.tbl[f] + g.tbl[g.rptr]) % WordValues = NextNumber(z)
  <2>1. At(f, 0) = f /\ 0 \in 0..(Deg - 1)
    BY <1>1 DEF At
  <2>2. At(f, Deg - Sep) = g.rptr /\ Deg - Sep \in 0..(Deg - 1)
    BY <1>1 DEF At, Behind
  <2>3. g.tbl[f] = z[L - Deg + 1 + 0] /\ g.tbl[g.rptr] = z[L - Deg + 1 + (Deg - Sep)]
    BY <2>1, <2>2 DEF Aligned
  <2>4. L - Deg + 1 + 0 = L + 1 - Deg /\ L - Deg + 1 + (Deg - Sep) = L + 1 - Sep
    BY <1>1
  <2> HIDE DEF f
  <2> QED BY <2>3, <2>4 DEF NextNumber
<1>5. tbl = [g.tbl EXCEPT ![f] = NextNumber(z)] /\ __random_r(g).res = NextNumber(z) \div 2
  BY <1>4 DEF __random_r
<1> HIDE DEF f, y, tbl, f2, L
<1>6. ASSUME NEW j \in 0..(Deg - 1)
      PROVE  tbl[At(f2, j)] = y[(L + 1) - Deg + 1 + j]
  <2>1. CASE j = Deg - 1
    <3>1. At(f2, j) = f /\ (L + 1) - Deg + 1 + j = L + 1
      BY <1>1, <1>2, <2>1 DEF At
    <3> QED BY <1>1, <1>3, <1>5, <3>1
  <2>2. CASE j # Deg - 1
    <3>1. j + 1 \in 0..(Deg - 1) /\ At(f2, j) = At(f, j + 1) /\ At(f, j + 1) # f
          /\ At(f, j + 1) \in 0..(Deg - 1)
      BY <1>1, <1>2, <2>2 DEF At
    <3>2. (L + 1) - Deg + 1 + j = L - Deg + 1 + (j + 1) /\ L - Deg + 1 + (j + 1) \in 1..L
      BY <1>1, <3>1
    <3>3. g.tbl[At(f, j + 1)] = z[L - Deg + 1 + (j + 1)]
      BY <3>1 DEF Aligned, f, L
    <3>4. tbl[At(f, j + 1)] = g.tbl[At(f, j + 1)]
      BY <1>1, <1>5, <3>1
    <3> QED BY <1>3, <3>1, <3>2, <3>3, <3>4
  <2> QED BY <2>1, <2>2
<1>7. Aligned(tbl, f2, y)
  BY <1>3, <1>6 DEF Aligned
<1> QED BY <1>5, <1>7 DEF tbl, f2, y

\* The table that srand fills is one of words.
LEMMA FilledIs ==
  ASSUME NEW seed \in Nat
  PROVE  Filled(seed) \in Words
<1> DEFINE D == 0..(Deg - 1)
           first == IF seed = 0 THEN 1 ELSE seed
           next == [x \in Nat |-> (Multiplier * x) % Modulus]
           Rec(w) == [i \in D |-> IF i = 0 THEN first ELSE (Multiplier * w[i - 1]) % Modulus]
           W == CHOOSE w : w = Rec(w)
<1>1. Deg \in Nat /\ Deg - 1 \in Nat /\ Multiplier \in Nat /\ Modulus \in Nat \ {0} /\ first \in Nat
  BY RandAssumption
<1>2. next \in [Nat -> Nat]
  <2>1. ASSUME NEW x \in Nat
        PROVE  (Multiplier * x) % Modulus \in Nat
    <3>1. Multiplier * x \in Nat
      BY <1>1
    <3> QED BY <1>1, <3>1
  <2> QED BY <2>1
<1>3. PICK f \in [0..(Deg - 1) -> Nat] :
        f[0] = first /\ \A k \in 1..(Deg - 1) : f[k] = next[f[k - 1]]
  <2> HIDE DEF first, next
  <2>1. Iterable(Nat, first, next)
    BY <1>1, <1>2 DEF Iterable
  <2>2. Iterated(Nat, first, next, Deg - 1)
    BY <1>1, <2>1, Iterates
  <2> QED BY <2>2 DEF Iterated
<1>4. ASSUME NEW i \in D
      PROVE  f[i] = IF i = 0 THEN first ELSE (Multiplier * f[i - 1]) % Modulus
  <2>1. CASE i = 0
    BY <1>3, <2>1
  <2>2. CASE i # 0
    <3>1. i \in 1..(Deg - 1) /\ f[i - 1] \in Nat
      BY <1>1, <1>3, <2>2
    <3>2. f[i] = next[f[i - 1]]
      BY <1>3, <3>1
    <3> QED BY <2>2, <3>1, <3>2
  <2> QED BY <2>1, <2>2
<1>5. f = Rec(f)
  <2> HIDE DEF first, next
  <2> QED BY <1>4
<1>6. W = Rec(W)
  <2> HIDE DEF Rec
  <2> QED BY <1>5
<1>7. Filled(seed) = W
  BY DEF Filled
<1>8. ASSUME NEW n \in 0..(Deg - 2), W[n] \in Nat
      PROVE  W[n + 1] \in Nat
  <2>1. n + 1 \in D /\ n + 1 # 0 /\ (n + 1) - 1 = n
    BY <1>1
  <2>2. W[n + 1] = (Multiplier * W[n]) % Modulus
    <3> HIDE DEF W, first
    <3> QED BY <1>6, <2>1
  <2>3. Multiplier * W[n] \in Nat
    <3> HIDE DEF W
    <3> QED BY <1>1, <1>8
  <2> HIDE DEF W
  <2> QED BY <1>1, <2>2, <2>3
<1>9. W[0] \in Nat
  <2> HIDE DEF W, first
  <2> QED BY <1>1, <1>6
<1>10. \A i \in D : W[i] \in Nat
  <2> HIDE DEF W
  <2> DEFINE S == {n \in D : W[n] \in Nat}
  <2>1. 0 \in S /\ \A n \in 0..(Deg - 1) - 1 : n \in S => n + 1 \in S
    BY <1>1, <1>8, <1>9
  <2>2. 0..(Deg - 1) \subseteq S
    <3> HIDE DEF S
    <3> QED BY <1>1, <2>1, SetInduction
  <2> QED BY <2>2
<1>11. W \in Words
  <2> HIDE DEF W, first
  <2> QED BY <1>6, <1>10 DEF Words
<1> QED BY <1>7, <1>11

\* Draw by draw.
DrawLoop(g, n) ==
  \E f \in [0..n -> Gen] :
    Drawn(g, n) = f[n] /\ f[0] = g /\ \A k \in 1..n : f[k] = __random_r(f[k - 1])

LEMMA DrawnSteps ==
  ASSUME NEW g \in Gen, NEW n \in Nat
  PROVE  DrawLoop(g, n)
<1> DEFINE next == [x \in Gen |-> __random_r(x)]
           Rec(w) == [k \in 0..n |-> IF k = 0 THEN g ELSE __random_r(w[k - 1])]
           W == CHOOSE w : w = Rec(w)
<1>1. next \in [Gen -> Gen]
  BY DrawMoves
<1>2. PICK f \in [0..n -> Gen] : f[0] = g /\ \A k \in 1..n : f[k] = next[f[k - 1]]
  <2> HIDE DEF next
  <2>1. Iterable(Gen, g, next)
    BY <1>1 DEF Iterable
  <2>2. Iterated(Gen, g, next, n)
    BY <2>1, Iterates
  <2> QED BY <2>2 DEF Iterated
<1>3. ASSUME NEW k \in 0..n
      PROVE  f[k] = IF k = 0 THEN g ELSE __random_r(f[k - 1])
  <2>1. CASE k = 0
    BY <1>2, <2>1
  <2>2. CASE k # 0
    <3>1. k \in 1..n /\ f[k - 1] \in Gen
      BY <1>2, <2>2
    <3>2. f[k] = next[f[k - 1]]
      BY <1>2, <3>1
    <3> QED BY <2>2, <3>1, <3>2
  <2> QED BY <2>1, <2>2
<1>4. f = Rec(f)
  BY <1>3
<1>5. W = Rec(W)
  <2> HIDE DEF Rec
  <2> QED BY <1>4
<1>6. Drawn(g, n) = W[n]
  BY DEF Drawn
<1>7. DOMAIN W = 0..n /\ W[0] = g /\ \A k \in 1..n : W[k] = __random_r(W[k - 1])
  <2> HIDE DEF W
  <2> QED BY <1>5
<1>8. \A k \in 0..n : W[k] \in Gen
  <2> HIDE DEF W
  <2> DEFINE S == {k \in 0..n : W[k] \in Gen}
  <2>1. 0 \in S
    BY <1>7
  <2>2. ASSUME NEW k \in 0..n - 1, k \in S
        PROVE  k + 1 \in S
    <3>1. k + 1 \in 1..n /\ (k + 1) - 1 = k
      OBVIOUS
    <3>2. W[k + 1] = __random_r(W[k])
      BY <1>7, <3>1
    <3> QED BY <2>2, <3>1, <3>2, DrawMoves
  <2>3. 0..n \subseteq S
    <3> HIDE DEF S
    <3> QED BY <2>1, <2>2, SetInduction
  <2> QED BY <2>3
<1>9. W \in [0..n -> Gen]
  <2> HIDE DEF W
  <2> QED BY <1>5, <1>8
<1> HIDE DEF W
<1> QED BY <1>6, <1>7, <1>9 DEF DrawLoop

\* Number by number: FoldLeft again.
Extended(z, m) == FoldLeft(LAMBDA y, k : WithNext(y), z, [k \in 1..m |-> k])

SumLoop(z, m) ==
  \E f \in [0..m -> Numbers] :
    Extended(z, m) = f[m] /\ f[0] = z /\ \A k \in 1..m : f[k] = WithNext(f[k - 1])

LEMMA SumSteps ==
  ASSUME NEW z \in Numbers, NEW m \in Nat
  PROVE  SumLoop(z, m)
<1> DEFINE q == [k \in 1..m |-> k]
           op == [r \in Numbers \X Nat |-> WithNext(r[1])]
           Folded(g, s) == IF s = {} THEN z ELSE WithNext(g[s \ {Max(s)}])
           G == CHOOSE g : g = [s \in SUBSET (1..m) |-> Folded(g, s)]
<1>1. DOMAIN q = 1..m /\ \A k \in 1..m : q[k] \in Nat
  OBVIOUS
<1>2. op \in [Numbers \X Nat -> Numbers]
  BY NextNumberIs
<1>3. PICK F \in [SUBSET (1..m) -> Numbers] : \A s \in SUBSET (1..m) :
        F[s] = IF s = {} THEN z ELSE op[<<F[s \ {Max(s)}], q[Max(s)]>>]
  <2> HIDE DEF op, q
  <2>1. Foldable(Numbers, Nat, z, op, q, m)
    BY <1>1, <1>2 DEF Foldable
  <2>2. Folds(Numbers, z, op, q, m)
    BY <2>1, LoopExists
  <2> QED BY <2>2 DEF Folds
<1>4. ASSUME NEW s \in SUBSET (1..m)
      PROVE  F[s] = Folded(F, s)
  <2>1. CASE s = {}
    BY <2>1, <1>3
  <2>2. CASE s # {}
    <3>1. Max(s) \in 1..m
      BY <2>2, MaxInSet
    <3>2. F[s \ {Max(s)}] \in Numbers /\ q[Max(s)] \in Nat
      BY <1>1, <3>1
    <3>3. op[<<F[s \ {Max(s)}], q[Max(s)]>>] = WithNext(F[s \ {Max(s)}])
      <4> HIDE DEF q
      <4> QED BY <3>2
    <3> HIDE DEF op, q
    <3> QED BY <3>3, <2>2, <1>3
  <2> QED BY <2>1, <2>2
<1>5. F = [s \in SUBSET (1..m) |-> Folded(F, s)]
  <2> HIDE DEF Folded
  <2> QED BY <1>4
<1>6. G = [s \in SUBSET (1..m) |-> Folded(G, s)]
  <2> HIDE DEF Folded
  <2> QED BY <1>5
<1>7. Extended(z, m) = G[1..m]
  BY DEF Extended, FoldLeft, MapThenFoldSet
<1>8. G[{}] = z
  <2>1. G[{}] = Folded(G, {})
    <3> HIDE DEF Folded, G
    <3> QED BY <1>6
  <2> HIDE DEF G
  <2> QED BY <2>1
<1>9. ASSUME NEW k \in 1..m
      PROVE  G[1..k] = WithNext(G[1..k - 1])
  <2>1. 1..k \in SUBSET (1..m) /\ k \in Nat \ {0}
    OBVIOUS
  <2>2. G[1..k] = Folded(G, 1..k)
    <3> HIDE DEF Folded, G
    <3> QED BY <2>1, <1>6
  <2>3. 1..k # {} /\ Max(1..k) = k /\ (1..k) \ {Max(1..k)} = 1..k - 1
    BY <2>1, MaxOfPrefix
  <2> HIDE DEF G
  <2> QED BY <2>2, <2>3
<1> HIDE DEF G
<1> DEFINE f == [k \in 0..m |-> G[1..k]]
<1>10. f[0] = z /\ f[m] = Extended(z, m) /\ \A k \in 1..m : f[k] = WithNext(f[k - 1])
  <2>1. 1..0 = {} /\ 0 \in 0..m /\ m \in 0..m
    OBVIOUS
  <2>2. f[0] = z /\ f[m] = Extended(z, m)
    BY <1>7, <1>8, <2>1
  <2>3. ASSUME NEW k \in 1..m
        PROVE  f[k] = WithNext(f[k - 1])
    <3>1. k \in 0..m /\ k - 1 \in 0..m
      OBVIOUS
    <3> QED BY <1>9, <3>1
  <2> QED BY <2>2, <2>3
<1> DEFINE S == {k \in 0..m : f[k] \in Numbers}
<1>11. 0 \in S
  <2> HIDE DEF f
  <2> QED BY <1>10
<1>12. ASSUME NEW k \in 0..m - 1, k \in S
       PROVE  k + 1 \in S
  <2> HIDE DEF f
  <2>1. k + 1 \in 1..m /\ k + 1 \in 0..m /\ (k + 1) - 1 = k
    OBVIOUS
  <2>2. f[k + 1] = WithNext(f[k])
    BY <1>10, <2>1
  <2> QED BY <1>12, <2>1, <2>2, NextNumberIs
<1>13. \A k \in 0..m : f[k] \in Numbers
  <2>1. 0..m \subseteq S
    <3> HIDE DEF S
    <3> QED BY <1>11, <1>12, SetInduction
  <2> HIDE DEF f
  <2> QED BY <2>1
<1>14. f \in [0..m -> Numbers]
  BY <1>13
<1> HIDE DEF f
<1> QED BY <1>10, <1>14 DEF SumLoop

\* One number more.
LEMMA ExtendedNext ==
  ASSUME NEW z \in Numbers, NEW m \in Nat
  PROVE  Extended(z, m) \in Numbers /\ Extended(z, m + 1) = WithNext(Extended(z, m))
<1>1. PICK f \in [0..m -> Numbers] :
        Extended(z, m) = f[m] /\ f[0] = z /\ \A k \in 1..m : f[k] = WithNext(f[k - 1])
  BY SumSteps DEF SumLoop
<1>2. PICK h \in [0..m + 1 -> Numbers] :
        Extended(z, m + 1) = h[m + 1] /\ h[0] = z /\ \A k \in 1..m + 1 : h[k] = WithNext(h[k - 1])
  <2>1. SumLoop(z, m + 1)
    BY SumSteps
  <2> QED BY <2>1 DEF SumLoop
<1> DEFINE S == {k \in 0..m : h[k] = f[k]}
<1>3. 0 \in S
  BY <1>1, <1>2
<1>4. ASSUME NEW k \in 0..m - 1, k \in S
      PROVE  k + 1 \in S
  <2>1. k + 1 \in 1..m /\ k + 1 \in 1..m + 1 /\ (k + 1) - 1 = k
    OBVIOUS
  <2>2. h[k + 1] = WithNext(h[k]) /\ f[k + 1] = WithNext(f[k]) /\ h[k] = f[k]
    BY <1>1, <1>2, <1>4, <2>1
  <2> QED BY <2>1, <2>2
<1>5. h[m] = f[m]
  <2>1. 0..m \subseteq S /\ m \in 0..m
    <3> HIDE DEF S
    <3> QED BY <1>3, <1>4, SetInduction
  <2> QED BY <2>1
<1>6. m \in 0..m /\ m + 1 \in 1..m + 1 /\ (m + 1) - 1 = m
  OBVIOUS
<1>7. h[m + 1] = WithNext(h[m])
  BY <1>2, <1>6
<1> QED BY <1>1, <1>2, <1>5, <1>6, <1>7

LEMMA Remainder ==
  ASSUME NEW D \in Nat \ {0}, NEW x \in Nat
  PROVE  (x < D => x % D = x) /\ (D <= x /\ x < D + D => x % D = x - D)
OBVIOUS

\* What a seed fills the table with, as the beginning of the sequence.
Start(seed) == [i \in 1..Deg |-> Filled(seed)[(Sep + i - 1) % Deg]]

Seeded(seed) == [tbl |-> Filled(seed), fptr |-> Sep, rptr |-> 0, res |-> 0]

LEMMA StartIs ==
  ASSUME NEW seed \in Nat
  PROVE  /\ Start(seed) \in Numbers /\ Seeded(seed) \in Gen
         /\ Aligned(Seeded(seed).tbl, Seeded(seed).fptr, Start(seed))
<1> DEFINE w == Filled(seed)
           z == Start(seed)
<1>1. Deg \in Nat /\ Sep \in 1..(Deg - 1) /\ w \in [0..(Deg - 1) -> Nat]
  BY RandAssumption, FilledIs DEF Words
<1>2. ASSUME NEW j \in 0..(Deg - 1)
      PROVE  (Sep + (j + 1) - 1) % Deg = At(Sep, j) /\ At(Sep, j) \in 0..(Deg - 1)
  <2>1. CASE Sep + j < Deg
    <3>1. At(Sep, j) = Sep + j /\ Sep + (j + 1) - 1 = Sep + j /\ Sep + j \in 0..(Deg - 1)
      BY <1>1, <2>1 DEF At
    <3>2. Sep + j \in Nat /\ Deg \in Nat \ {0}
      BY <1>1
    <3>3. (Sep + j) % Deg = Sep + j
      BY <2>1, <3>2, Remainder
    <3> QED BY <3>1, <3>3
  <2>2. CASE ~(Sep + j < Deg)
    <3>1. At(Sep, j) = Sep + j - Deg /\ Sep + (j + 1) - 1 = Sep + j
          /\ Sep + j - Deg \in 0..(Deg - 1)
      BY <1>1, <2>2 DEF At
    <3> DEFINE x == Sep + j
    <3>2. x \in Nat /\ Deg \in Nat \ {0} /\ Deg <= x /\ x < Deg + Deg
      BY <1>1, <2>2
    <3>3. x % Deg = x - Deg
      <4> HIDE DEF x
      <4> QED BY <3>2, Remainder
    <3>4. Sep + (j + 1) - 1 = x /\ At(Sep, j) = x - Deg
      BY <1>1, <3>1
    <3> HIDE DEF x
    <3> QED BY <3>1, <3>3, <3>4
  <2> QED BY <2>1, <2>2
<1>3. ASSUME NEW j \in 0..(Deg - 1)
      PROVE  z[j + 1] = w[At(Sep, j)] /\ z[j + 1] \in Nat
  <2>1. j + 1 \in 1..Deg
    BY <1>1
  <2>2. z[j + 1] = w[(Sep + (j + 1) - 1) % Deg]
    BY <2>1 DEF Start
  <2> HIDE DEF w, z
  <2> QED BY <1>1, <1>2, <2>2
<1>4. DOMAIN z = 1..Deg /\ \A i \in 1..Deg : z[i] \in Nat
  <2>1. \A i \in 1..Deg : i - 1 \in 0..(Deg - 1) /\ (i - 1) + 1 = i
    BY <1>1
  <2>2. DOMAIN z = 1..Deg
    BY DEF Start
  <2> HIDE DEF z, w
  <2> QED BY <1>3, <2>1, <2>2
<1>5. z \in [1..Deg -> Nat]
  <2>1. z = [i \in 1..Deg |-> z[i]]
    BY DEF Start
  <2> HIDE DEF z
  <2> QED BY <1>4, <2>1
<1>6. z \in Seq(Nat) /\ Len(z) = Deg
  <2> HIDE DEF z
  <2> QED BY <1>1, <1>5
<1>7. z \in Numbers
  <2> HIDE DEF z
  <2> QED BY <1>1, <1>6 DEF Numbers
<1>8. Aligned(w, Sep, z)
  <2>1. ASSUME NEW j \in 0..(Deg - 1)
        PROVE  w[At(Sep, j)] = z[Len(z) - Deg + 1 + j]
    <3>1. Len(z) - Deg + 1 + j = j + 1
      <4> HIDE DEF z
      <4> QED BY <1>1, <1>6
    <3> HIDE DEF z, w
    <3> QED BY <1>3, <3>1
  <2> HIDE DEF z, w
  <2> QED BY <2>1 DEF Aligned
<1>9. Seeded(seed) \in Gen
  <2>1. Sep \in 0..(Deg - 1) /\ 0 \in 0..(Deg - 1) /\ Behind(Sep) = 0
    BY <1>1 DEF Behind
  <2> QED BY <1>1, <2>1 DEF Seeded, Gen, Words
<1> QED BY <1>7, <1>8, <1>9 DEF Seeded

LEMMA SumsAre ==
  ASSUME NEW seed \in Nat, NEW n \in Nat
  PROVE  /\ Sums(seed, n) = Extended(Start(seed), 10 * Deg + n)
         /\ Sums(seed, n) \in Numbers /\ Sums(seed, n + 1) = WithNext(Sums(seed, n))
<1>1. Sums(seed, n) = Extended(Start(seed), 10 * Deg + n)
  BY DEF Sums, Extended, Start
<1>2. Sums(seed, n + 1) = Extended(Start(seed), 10 * Deg + (n + 1))
  BY DEF Sums, Extended, Start
<1>3. 10 * Deg + n \in Nat /\ 10 * Deg + (n + 1) = (10 * Deg + n) + 1
  BY RandAssumption
<1>4. Start(seed) \in Numbers
  BY StartIs
<1> QED BY <1>1, <1>2, <1>3, <1>4, ExtendedNext

\* The numbers thrown away: they are drawn in rounds of Deg, so that the
\* pointers end where they began.
Rounds == {0, Deg, 2 * Deg, 3 * Deg, 4 * Deg, 5 * Deg, 6 * Deg, 7 * Deg, 8 * Deg, 9 * Deg, 10 * Deg}

LEMMA SeedIs ==
  ASSUME NEW seed \in Nat
  PROVE  /\ __srandom_r(seed) \in Gen /\ __srandom_r(seed).fptr = Sep
         /\ __srandom_r(seed).rptr = 0
         /\ Aligned(__srandom_r(seed).tbl, Sep, Sums(seed, 0))
<1> DEFINE M == 10 * Deg
<1>1. Deg \in Nat /\ Sep \in 1..(Deg - 1) /\ M \in Nat /\ M + 0 = M
  BY RandAssumption
<1>2. /\ Start(seed) \in Numbers /\ Seeded(seed) \in Gen
      /\ Aligned(Seeded(seed).tbl, Seeded(seed).fptr, Start(seed))
  BY StartIs
<1>3. PICK f \in [0..M -> Gen] : /\ Drawn(Seeded(seed), M) = f[M] /\ f[0] = Seeded(seed)
                                 /\ \A k \in 1..M : f[k] = __random_r(f[k - 1])
  <2> HIDE DEF M
  <2>1. DrawLoop(Seeded(seed), M)
    BY <1>1, <1>2, DrawnSteps
  <2> QED BY <2>1 DEF DrawLoop
<1>4. PICK h \in [0..M -> Numbers] : /\ Extended(Start(seed), M) = h[M] /\ h[0] = Start(seed)
                                     /\ \A k \in 1..M : h[k] = WithNext(h[k - 1])
  <2> HIDE DEF M
  <2>1. SumLoop(Start(seed), M)
    BY <1>1, <1>2, SumSteps
  <2> QED BY <2>1 DEF SumLoop
<1> DEFINE Good(k) == Aligned(f[k].tbl, f[k].fptr, h[k]) /\ \E b \in Rounds : f[k].rptr = k - b
           S == {k \in 0..M : Good(k)}
<1>5. 0 \in S
  <2>1. Aligned(f[0].tbl, f[0].fptr, h[0])
    BY <1>2, <1>3, <1>4
  <2>2. f[0].rptr = 0 - 0 /\ 0 \in Rounds
    BY <1>3 DEF Seeded, Rounds
  <2>3. 0 \in 0..M
    BY <1>1
  <2>4. Good(0)
    BY <2>1, <2>2
  <2> HIDE DEF Good, M
  <2> QED BY <2>3, <2>4
<1>6. ASSUME NEW k \in 0..M - 1, k \in S
      PROVE  k + 1 \in S
  <2>1. k + 1 \in 1..M /\ k + 1 \in 0..M /\ k \in 0..M /\ (k + 1) - 1 = k
    BY <1>1
  <2>2. Aligned(f[k].tbl, f[k].fptr, h[k])
    BY <1>6
  <2>3. PICK b \in Rounds : f[k].rptr = k - b
    BY <1>6
  <2>4. f[k] \in Gen /\ h[k] \in Numbers /\ f[k + 1] = __random_r(f[k]) /\ h[k + 1] = WithNext(h[k])
    <3> HIDE DEF M
    <3> QED BY <1>3, <1>4, <2>1
  <2>5. Aligned(f[k + 1].tbl, f[k + 1].fptr, h[k + 1])
    BY <2>2, <2>4, DrawIsNext
  <2>6. f[k].rptr \in 0..(Deg - 1)
        /\ f[k + 1].rptr = (IF f[k].rptr + 1 = Deg THEN 0 ELSE f[k].rptr + 1)
    BY <2>4, DrawMoves, GenFields
  <2>7. \E c \in Rounds : f[k + 1].rptr = (k + 1) - c
    <3>0. b \in Nat
      BY <1>1 DEF Rounds
    <3>1. CASE f[k].rptr + 1 = Deg
      <4>1. b + Deg = k + 1 /\ f[k + 1].rptr = (k + 1) - (b + Deg)
        BY <1>1, <2>3, <2>6, <3>0, <3>1
      <4>2. b + Deg <= M
        BY <1>1, <4>1
      <4>3. b + Deg \in Rounds
        BY <1>1, <4>2 DEF Rounds
      <4> QED BY <4>1, <4>3
    <3>2. CASE f[k].rptr + 1 # Deg
      <4>1. f[k + 1].rptr = (k + 1) - b
        BY <1>1, <2>3, <2>6, <3>0, <3>2
      <4> QED BY <4>1
    <3> QED BY <3>1, <3>2
  <2>8. Good(k + 1)
    BY <2>5, <2>7
  <2> HIDE DEF Good, M
  <2> QED BY <2>1, <2>8
<1>7. Good(M)
  <2>1. 0..M \subseteq S
    <3> HIDE DEF S, M
    <3> QED BY <1>1, <1>5, <1>6, SetInduction
  <2>2. M \in 0..M
    <3> HIDE DEF M
    <3> QED BY <1>1
  <2> HIDE DEF Good, M
  <2> QED BY <2>1, <2>2
<1>8. f[M] \in Gen /\ f[M].rptr \in 0..(Deg - 1) /\ f[M].fptr \in 0..(Deg - 1)
      /\ f[M].rptr = Behind(f[M].fptr)
  <2>1. M \in 0..M
    BY <1>1
  <2> HIDE DEF M
  <2>2. f[M] \in Gen
    BY <2>1
  <2> QED BY <2>2, GenFields
<1>9. f[M].rptr = 0
  <2>1. PICK b \in Rounds : f[M].rptr = M - b
    BY <1>7
  <2> QED BY <1>1, <1>8, <2>1 DEF Rounds
<1>10. f[M].fptr = Sep
  BY <1>1, <1>8, <1>9 DEF Behind
<1>11. __srandom_r(seed) = f[M]
  BY <1>3 DEF __srandom_r, Seeded
<1>12. Sums(seed, 0) = h[M]
  <2>1. Sums(seed, 0) = Extended(Start(seed), M + 0)
    BY SumsAre
  <2> HIDE DEF M
  <2> QED BY <1>1, <1>4, <2>1
<1>13. Aligned(f[M].tbl, f[M].fptr, h[M])
  BY <1>7
<1> HIDE DEF M, Good
<1> QED BY <1>8, <1>9, <1>10, <1>11, <1>12, <1>13

-----------------------------------------------------------------------------
(***************************************************************************)
(* The plugins.  The table is one for all paths; it is a ring for the      *)
(* pointers of a path as long as no other path has drawn or seeded.        *)
(***************************************************************************)
PointerPairs == {d \in [fptr: 0..(Deg - 1), rptr: 0..(Deg - 1)] : d.rptr = Behind(d.fptr)}

Plugins == {<<>>} \cup {<<d>> : d \in PointerPairs}

Drawing(p) ==
  /\ Aligned(randtbl, State(p).fptr, Sums(series[p].seed, series[p].n))
  /\ series[p].n > 0 => result[p] = Random(series[p].seed, series[p].n)

DrawTypes ==
  /\ randtbl \in Words
  /\ plugin \in [Path -> Plugins]
  /\ result \in [Path -> Int]
  /\ series \in [Path -> [seed: Nat, n: Nat]]
  /\ disturbed \in SUBSET Path

DrawInv == DrawTypes /\ \A p \in Path \ disturbed : Drawing(p)

\* The state of a generator as Draw and Seed leave it.
LEMMA PairOf ==
  ASSUME NEW g \in Gen
  PROVE  Pointers(g) \in PointerPairs /\ Pointers(g).fptr = g.fptr
         /\ <<Pointers(g)>> \in Plugins /\ <<Pointers(g)>> # <<>>
<1>1. Pointers(g) \in PointerPairs /\ Pointers(g).fptr = g.fptr
  BY GenFields DEF Pointers, PointerPairs
<1> HIDE DEF Pointers
<1> QED BY <1>1 DEF Plugins

LEMMA StateIs ==
  ASSUME DrawTypes, NEW p \in Path
  PROVE  State(p) \in PointerPairs
<1>1. CASE plugin[p] = <<>>
  <2>1. state_template \in PointerPairs
    BY RandAssumption DEF state_template, PointerPairs, Behind
  <2> QED BY <1>1, <2>1 DEF State
<1>2. CASE plugin[p] # <<>>
  <2>1. PICK d \in PointerPairs : plugin[p] = <<d>>
    BY <1>2 DEF DrawTypes, Plugins
  <2> QED BY <1>2, <2>1 DEF State
<1> QED BY <1>1, <1>2

\* What Draw and Seed have in common: every path but p is disturbed.
LEMMA OneDraws ==
  ASSUME DrawInv, NEW p \in Path, NEW g \in Gen, NEW s \in [seed: Nat, n: Nat],
         randtbl' = g.tbl, plugin' = [plugin EXCEPT ![p] = <<Pointers(g)>>],
         result' \in [Path -> Int], series' = [series EXCEPT ![p] = s],
         disturbed' \in SUBSET Path, Path \ {p} \subseteq disturbed',
         p \notin disturbed' =>
           /\ Aligned(g.tbl, g.fptr, Sums(s.seed, s.n))
           /\ s.n > 0 => result'[p] = Random(s.seed, s.n)
  PROVE  DrawInv'
<1>1. g.tbl \in Words /\ Pointers(g).fptr = g.fptr
      /\ <<Pointers(g)>> \in Plugins /\ <<Pointers(g)>> # <<>>
  BY PairOf, GenFields
<1>2. DrawTypes'
  BY <1>1 DEF DrawInv, DrawTypes
<1>3. plugin'[p] = <<Pointers(g)>> /\ series'[p] = s
  BY DEF DrawInv, DrawTypes
<1>4. State(p)' = Pointers(g)
  BY <1>1, <1>3 DEF State
<1>5. ASSUME p \notin disturbed'
      PROVE  Drawing(p)'
  BY <1>1, <1>3, <1>4, <1>5 DEF Drawing
<1>6. \A r \in Path \ disturbed' : r = p
  OBVIOUS
<1>7. \A r \in (Path \ disturbed)' : Drawing(r)'
  BY <1>5, <1>6
<1> QED BY <1>2, <1>7 DEF DrawInv

LEMMA DrawStep ==
  ASSUME DrawInv, NEW p \in Path, Draw(p)
  PROVE  DrawInv'
<1> DEFINE d  == State(p)
           g0 == [tbl |-> randtbl, fptr |-> d.fptr, rptr |-> d.rptr, res |-> 0]
           g  == __random_r(g0)
           s  == [seed |-> series[p].seed, n |-> series[p].n + 1]
           z  == Sums(series[p].seed, series[p].n)
<1>1. /\ randtbl' = g.tbl /\ plugin' = [plugin EXCEPT ![p] = <<Pointers(g)>>]
      /\ result' = [result EXCEPT ![p] = g.res]
      /\ series' = [series EXCEPT ![p].n = @ + 1]
      /\ disturbed' = disturbed \cup (Path \ {p})
  BY DEF Draw
<1>2. /\ d \in PointerPairs /\ randtbl \in Words /\ result \in [Path -> Int]
      /\ series[p].seed \in Nat /\ series[p].n \in Nat /\ series \in [Path -> [seed: Nat, n: Nat]]
      /\ disturbed \in SUBSET Path
  BY StateIs DEF DrawInv, DrawTypes
<1>3. g0 \in Gen
  <2> HIDE DEF d
  <2> QED BY <1>2 DEF PointerPairs, Gen
<1>4. g \in Gen /\ g.res \in Nat
  BY <1>3, DrawMoves, GenFields
<1>5. s \in [seed: Nat, n: Nat] /\ s.seed = series[p].seed /\ s.n = series[p].n + 1
  BY <1>2
<1>6. series' = [series EXCEPT ![p] = s]
  <2>1. [series[p] EXCEPT !.n = series[p].n + 1] = s
    BY <1>2
  <2>2. series' = [series EXCEPT ![p] = [series[p] EXCEPT !.n = series[p].n + 1]]
    BY <1>1
  <2> HIDE DEF s
  <2> QED BY <2>1, <2>2
<1>7. result' \in [Path -> Int] /\ result'[p] = g.res
  <2> HIDE DEF g
  <2> QED BY <1>1, <1>2, <1>4
<1>8. z \in Numbers /\ Sums(series[p].seed, series[p].n + 1) = WithNext(z)
  BY <1>2, SumsAre
<1>9. ASSUME p \notin disturbed'
      PROVE  /\ Aligned(g.tbl, g.fptr, Sums(s.seed, s.n))
             /\ result'[p] = Random(s.seed, s.n)
  <2>1. p \notin disturbed
    BY <1>1, <1>9
  <2>2. Aligned(g0.tbl, g0.fptr, z)
    BY <2>1 DEF DrawInv, Drawing
  <2> HIDE DEF g0, z
  <2>3. Aligned(g.tbl, g.fptr, WithNext(z)) /\ g.res = NextNumber(z) \div 2
    BY <1>3, <1>8, <2>2, DrawIsNext
  <2>4. Random(s.seed, s.n) = NextNumber(z) \div 2
    BY <1>5, <1>8, NextNumberIs DEF Random
  <2> HIDE DEF g, s
  <2> QED BY <1>5, <1>7, <1>8, <2>3, <2>4
<1>10. disturbed' \in SUBSET Path /\ Path \ {p} \subseteq disturbed'
  BY <1>1, <1>2
<1> HIDE DEF g, s
<1> QED BY <1>1, <1>4, <1>5, <1>6, <1>7, <1>9, <1>10, OneDraws

LEMMA SeedStep ==
  ASSUME DrawInv, NEW p \in Path, NEW seed \in Nat, Seed(p, seed)
  PROVE  DrawInv'
<1> DEFINE g == __srandom_r(seed)
           s == [seed |-> seed, n |-> 0]
<1>1. /\ randtbl' = g.tbl /\ plugin' = [plugin EXCEPT ![p] = <<Pointers(g)>>]
      /\ result' = result /\ series' = [series EXCEPT ![p] = s]
      /\ disturbed' = (disturbed \ {p}) \cup (Path \ {p})
  BY DEF Seed
<1>2. g \in Gen /\ g.fptr = Sep /\ Aligned(g.tbl, g.fptr, Sums(s.seed, s.n))
  BY SeedIs
<1>3. /\ s \in [seed: Nat, n: Nat] /\ ~(s.n > 0)
      /\ result' \in [Path -> Int] /\ disturbed' \in SUBSET Path /\ Path \ {p} \subseteq disturbed'
  BY <1>1 DEF DrawInv, DrawTypes
<1> HIDE DEF g, s
<1> QED BY <1>1, <1>2, <1>3, OneDraws

\* A fork: the new path goes on like the one it was forked from.
LEMMA ForkStep ==
  ASSUME DrawInv, NEW p \in Path, NEW q \in Path, RandFork(p, q)
  PROVE  DrawInv'
<1>1. /\ plugin' = [plugin EXCEPT ![q] = plugin[p]] /\ result' = [result EXCEPT ![q] = result[p]]
      /\ series' = [series EXCEPT ![q] = series[p]] /\ randtbl' = randtbl
      /\ disturbed' = IF p \in disturbed THEN disturbed \cup {q} ELSE disturbed \ {q}
  BY DEF RandFork, clone
<1>2. DrawTypes'
  BY <1>1 DEF DrawInv, DrawTypes
<1>3. ASSUME NEW r \in Path \ disturbed'
      PROVE  Drawing(r)'
  <2> DEFINE o == IF r = q THEN p ELSE r
  <2>1. o \in Path \ disturbed
    BY <1>1
  <2>2. plugin'[r] = plugin[o] /\ result'[r] = result[o] /\ series'[r] = series[o]
    BY <1>1 DEF DrawInv, DrawTypes
  <2> HIDE DEF o
  <2>3. State(r)' = State(o)
    BY <2>2 DEF State
  <2>4. Drawing(o)
    BY <2>1 DEF DrawInv
  <2> QED BY <1>1, <2>2, <2>3, <2>4 DEF Drawing
<1>4. \A r \in (Path \ disturbed)' : Drawing(r)'
  BY <1>3
<1> QED BY <1>2, <1>4 DEF DrawInv

LEMMA DrawStays ==
  ASSUME DrawInv, UNCHANGED rand
  PROVE  DrawInv'
<1>1. /\ randtbl' = randtbl /\ plugin' = plugin /\ result' = result /\ series' = series
      /\ disturbed' = disturbed
  BY DEF rand
<1>2. DrawTypes'
  BY <1>1 DEF DrawInv, DrawTypes
<1>3. ASSUME NEW r \in Path \ disturbed
      PROVE  Drawing(r)'
  <2>1. State(r)' = State(r)
    BY <1>1 DEF State
  <2> QED BY <1>1, <2>1 DEF DrawInv, Drawing
<1> QED BY <1>1, <1>2, <1>3 DEF DrawInv

LEMMA DrawInit == Init => DrawInv
<1> SUFFICES ASSUME Init
             PROVE  DrawInv
  OBVIOUS
<1>1. /\ randtbl = __srandom_r(1).tbl /\ plugin = [p \in Path |-> <<>>]
      /\ result = [p \in Path |-> -1] /\ series = [p \in Path |-> [seed |-> 1, n |-> 0]]
      /\ disturbed = {}
  BY DEF Init, RandInit
<1>2. randtbl \in Words /\ Aligned(randtbl, Sep, Sums(1, 0))
  BY <1>1, SeedIs, GenFields
<1>3. DrawTypes
  BY <1>1, <1>2 DEF DrawTypes, Plugins
<1>4. ASSUME NEW p \in Path
      PROVE  Drawing(p)
  <2>1. State(p).fptr = Sep /\ series[p].seed = 1 /\ series[p].n = 0
    BY <1>1 DEF State, state_template
  <2> QED BY <1>2, <2>1 DEF Drawing
<1> QED BY <1>3, <1>4 DEF DrawInv

LEMMA DrawInvStep == DrawInv /\ HeapInv /\ PathInv /\ [Next]_vars => DrawInv'
<1> SUFFICES ASSUME DrawInv, HeapInv, PathInv, [Next]_vars
             PROVE  DrawInv'
  OBVIOUS
<1>1. CASE UNCHANGED vars
  BY <1>1, DrawStays DEF vars
<1>2. ASSUME NEW p \in Path, Heap(p) \/ ReadStdin(p)
      PROVE  DrawInv'
  BY <1>2, DrawStays DEF Heap, ReadStdin
<1>3. ASSUME NEW p \in Path, Rand(p)
      PROVE  DrawInv'
  BY <1>3, DrawStep DEF Rand
<1>4. ASSUME NEW p \in Path, Srand(p)
      PROVE  DrawInv'
  <2>1. CASE \E seed \in Seeds : Seed(p, seed)
    BY <2>1, RandAssumption, SeedStep
  <2>2. ASSUME NEW b \in DOMAIN blocks[p], NEW i \in inputs[p],
               mem[p][blocks[p][b].ptr] # Unset, Seed(p, mem[p][blocks[p][b].ptr][i])
        PROVE  DrawInv'
    <3> DEFINE byte == mem[p][blocks[p][b].ptr]
    <3>1. p \in alive
      BY <1>4 DEF Srand
    <3>2. mem[p] \in Memory /\ blocks[p][b] \in BlockType /\ AllFit(blocks[p])
      BY <3>1, HeapOf
    <3>3. blocks[p][b].ptr \in 0..MaxAddr
      BY <3>2, HeapAssumption, BlockFields DEF AllFit, Fits
    <3>4. byte \in Letter
      BY <2>2, <3>2, <3>3 DEF Memory, Cell
    <3>5. i \in Input
      BY DEF PathInv, InputTypes
    <3>6. byte[i] \in Nat
      <4> HIDE DEF byte
      <4> QED BY <3>4, <3>5 DEF Letter
    <3> QED BY <2>2, <3>6, SeedStep
  <2> QED BY <1>4, <2>1, <2>2 DEF Srand
<1>5. ASSUME NEW p \in Path, NEW q \in Path, Branch(p, q)
      PROVE  DrawInv'
  BY <1>5, ForkStep DEF Branch
<1> QED BY <1>1, <1>2, <1>3, <1>4, <1>5 DEF Next

LEMMA DrawKeeps == DrawInv => DrawsAsC
BY DEF DrawInv, Drawing, DrawsAsC

\* The table is static while the pointers into it are a plugin of each state.  A path
\* that no other has drawn or seeded after, since it was seeded itself, gets the numbers
\* of C's generator for its seed, also over forks: what the draws of srand throw away
\* leaves the pointers where they began, and each draw replaces the oldest number.
THEOREM UndisturbedDraws == Spec => []DrawsAsC
BY PathInit, PathStep, HeapInitInv, HeapInvStep, DrawInit, DrawInvStep, DrawKeeps, PTL DEF Spec
=============================================================================
