------------------------------ MODULE LibcStrings ------------------------------
(***************************************************************************)
(* models/libc/string.cpp and string_utils.cpp: the string functions on    *)
(* memory whose bytes depend on the input.  resolve_string forks the       *)
(* caller's state at every place where the string may end, a byte at a     *)
(* time; each function then finishes each of these states.                 *)
(*                                                                         *)
(* A byte is a function of the inputs, a string a sequence of bytes.       *)
(***************************************************************************)
EXTENDS Integers, FiniteSets, SequencesExt

CONSTANTS
  Input,       \* the inputs
  Width,       \* addresses are 0..Width - 1 (uint64_t: 2^64)
  Byte,        \* what a byte can be
  Memory,      \* the contents of memory before the first call
  Request,     \* the calls the program may make
  Id,          \* identities of State objects
  MaxForks,    \* max_forks of strlen, strcpy and strncpy (32)
  MaxForksCat, \* max_forks of strcat (8)
  MaxCmp,      \* max_size of strcmp (256)
  IntLimit,    \* numbers from here on are negative as an int (2^31)
  MaxCalls     \* bound of the number of calls

Address == 0..Width - 1
Function == {"strlen", "strcpy", "strncpy", "strcat", "strcmp", "memcmp"}

ASSUME StringAssumption ==
  /\ Width \in Nat \ {0} /\ 0 \in Byte /\ Byte \subseteq Nat
  /\ Memory \subseteq [Address -> [Input -> Byte]]
  /\ Request \subseteq [fn: Function, dst: Address, src: Address, n: 0..Width]
  /\ IsFiniteSet(Id) /\ Id # {} /\ Id = 1..Cardinality(Id)
  /\ MaxForks \in Nat /\ MaxForksCat \in Nat /\ MaxCmp \in Nat /\ MaxCalls \in Nat
  /\ IntLimit \in Nat \ {0}

VARIABLES
  z3,       \* whether the builder folds constants and Z3 gives up; never changes
  heap,     \* the State objects: memory, path constraint, RAX
  used,     \* how many of them there are
  request,  \* the call under execution
  before,   \* the state it was made in
  loop,     \* the variables of resolve_string, or of strcmp's loop
  res,      \* resolve_string's result
  srcs,     \* strcat: the resolved source strings still to do
  out,      \* o_successors.active
  phase,    \* where the function is
  calls     \* number of calls so far

vars == <<z3, heap, used, request, before, loop, res, srcs, out, phase, calls>>

Const(v) == [i \in Input |-> v]
At(st, a) == st.mem[a % Width]

\* Whether the expression e has been reduced to the constant v.
FoldsTo(e, v) == {b \in BOOLEAN : /\ b => e = Const(v)
                                  /\ z3.folds /\ e = Const(v) => b}

\* What Z3 may say about inputs S of a path: on an infeasible one, anything.
Verdicts(S, pi) ==
  (IF pi = {} THEN {"SAT", "UNSAT"} ELSE IF S = {} THEN {"UNSAT"} ELSE {"SAT"})
    \cup (IF z3.timeouts THEN {"UNKNOWN"} ELSE {})

Written(mem, a, str) ==
  [x \in Address |-> IF \E k \in DOMAIN str : x = (a + k - 1) % Width
                     THEN str[CHOOSE k \in DOMAIN str : x = (a + k - 1) % Width]
                     ELSE mem[x]]

NoRequest == [fn |-> "none", dst |-> 0, src |-> 0, n |-> 0]
Idle      == [id |-> 1, curr |-> 0, str |-> <<>>, forks |-> 0, size |-> 0, same |-> {}]
Unlimited == -1

\* strncpy's uint64_t, made the int of resolve_string: every negative one is no limit.
AsInt(n) == LET low == n % (2 * IntLimit) IN IF low < IntLimit THEN low ELSE Unlimited
-----------------------------------------------------------------------------
Init ==
  /\ z3 \in [folds: BOOLEAN, timeouts: BOOLEAN]
  /\ \E mem \in Memory :
       LET first == [mem |-> mem, pi |-> Input, rax |-> Const(0)]
       IN heap = [id \in Id |-> first] /\ before = first
  /\ used = 1
  /\ request = NoRequest
  /\ loop = Idle /\ res = <<>> /\ srcs = <<>>
  /\ out = <<1>>
  /\ phase = "idle"
  /\ calls = 0

\* resolve_string is called; size is Unlimited by default.
Resolving(id, a, forks, size) ==
  /\ loop' = [Idle EXCEPT !.id = id, !.curr = a, !.forks = forks, !.size = size]
  /\ res' = <<>>
  /\ phase' = "resolve"

\* One of the states the last call left calls a function.  The copying ones set their
\* result first; strcmp and memcmp ask for no string.
Begin ==
  /\ phase = "idle" /\ calls < MaxCalls /\ calls' = calls + 1
  /\ \E k \in DOMAIN out, r \in Request :
       /\ request' = r
       /\ before' = heap[out[k]]
       /\ heap' = [id \in Id |->
            IF r.fn \in {"strcpy", "strncpy", "strcat"}
            THEN [before' EXCEPT !.rax = Const(r.dst)] ELSE before']
       /\ CASE r.fn \in {"strlen", "strcpy"} -> Resolving(1, r.src, MaxForks, Unlimited)
            [] r.fn = "strncpy" -> Resolving(1, r.src, MaxForks, AsInt(r.n))
            [] r.fn = "strcat" -> Resolving(1, r.src, MaxForksCat, Unlimited)
            [] OTHER -> /\ loop' = [Idle EXCEPT !.same = Input]
                        /\ res' = <<>>
                        /\ phase' = r.fn
  /\ used' = 1 /\ srcs' = <<>> /\ out' = <<>>
  /\ UNCHANGED z3

\* Mutant: no limit counts down as well.
OneLessAlways(size) == size - 1

OneLess(size) == IF size > 0 THEN size - 1 ELSE Unlimited

B == At(heap[loop.id], loop.curr)
Str == Append(loop.str, B)
Zero == {i \in heap[loop.id].pi : B[i] = 0}

\* No string is as long as memory: the model ends there.
TooLong == phase = "resolve" /\ Len(loop.str) = Width
Reading == phase = "resolve" /\ loop.size # 0 /\ ~TooLong

Result(id, str) == [id |-> id, str |-> str]
GoOn == loop' = [loop EXCEPT !.curr = @ + 1, !.str = Str, !.size = OneLess(@)]

Resolved(r) == res' = r /\ phase' = "resolved" /\ UNCHANGED loop

\* A byte that is a constant, or that Z3 does not say may be zero.
NotZero ==
  /\ Reading
  /\ \/ \E v \in Byte \ {0} : TRUE \in FoldsTo(B, v)
     \/ /\ \A v \in Byte : FALSE \in FoldsTo(B, v)
        /\ Verdicts(Zero, heap[loop.id].pi) # {"SAT"}
  /\ GoOn
  /\ UNCHANGED <<z3, heap, used, request, before, res, srcs, out, phase, calls>>

\* The constant zero, or as many bytes as asked for: the string ends in this state.
EndOfString ==
  /\ \/ Reading /\ TRUE \in FoldsTo(B, 0) /\ Resolved(Append(res, Result(loop.id, Str)))
     \/ /\ phase = "resolve" /\ loop.size = 0
        /\ Resolved(Append(res, Result(loop.id, loop.str)))
  /\ UNCHANGED <<z3, heap, used, request, before, srcs, out, calls>>

MayEnd == /\ Reading
          /\ \A v \in Byte : FALSE \in FoldsTo(B, v)
          /\ "SAT" \in Verdicts(Zero, heap[loop.id].pi)

\* A state in which the string ends here: the byte is zero, and written as such.
Ending(st) == [st EXCEPT !.pi = Zero, !.mem = Written(@, loop.curr, <<Const(0)>>)]

\* Mutant: the last fork is not made.
NoForkLeftEarly == loop.forks <= 1

NoForkLeft == loop.forks <= 0

\* No fork is left: the string ends here, and the inputs for which it does not are lost.
LastEnd ==
  /\ MayEnd /\ NoForkLeft
  /\ heap' = [heap EXCEPT ![loop.id] = Ending(@)]
  /\ Resolved(Append(res, Result(loop.id, Str)))
  /\ UNCHANGED <<z3, used, request, before, srcs, out, calls>>

\* Mutant: the state keeps the inputs of its clone.
LongerToo(st) == st

Longer(st) == [st EXCEPT !.pi = @ \ Zero]

\* A clone for the string that ends here; the state goes on with longer ones, if Z3
\* says there are any.
ForkEnd ==
  /\ MayEnd /\ ~NoForkLeft /\ used + 1 \in Id
  /\ used' = used + 1
  /\ LET st  == heap[loop.id]
         end == Append(res, Result(used', Str))
     IN \/ /\ "SAT" \in Verdicts(st.pi \ Zero, st.pi)
           /\ heap' = [heap EXCEPT ![used'] = Ending(st), ![loop.id] = Longer(@)]
           /\ loop' = [loop EXCEPT !.curr = @ + 1, !.str = Str, !.size = OneLess(@),
                                   !.forks = @ - 1]
           /\ res' = end
           /\ UNCHANGED phase
        \/ /\ Verdicts(st.pi \ Zero, st.pi) # {"SAT"}
           /\ heap' = [heap EXCEPT ![used'] = Ending(st)]
           /\ Resolved(end)
  /\ UNCHANGED <<z3, request, before, srcs, out, calls>>
-----------------------------------------------------------------------------
Ids(r) == [k \in DOMAIN r |-> r[k].id]

\* Each resolved string's state is changed by Finish and returns.
ReturnAll(Finish(_, _)) ==
  /\ heap' = [id \in Id |-> IF \E k \in DOMAIN res : res[k].id = id
                            THEN Finish(heap[id], res[CHOOSE k \in DOMAIN res : res[k].id = id].str)
                            ELSE heap[id]]
  /\ out' = Ids(res)
  /\ phase' = "idle"
  /\ UNCHANGED <<z3, used, request, before, loop, res, srcs, calls>>

\* Mutant: the terminator counts.
LengthWithEnd(st, str) == [st EXCEPT !.rax = Const(Len(str))]

Length(st, str) == [st EXCEPT !.rax = Const(Len(str) - 1)]

Copied(st, str) == [st EXCEPT !.mem = Written(@, request.dst, str)]

Strlen == phase = "resolved" /\ request.fn = "strlen" /\ ReturnAll(Length)

\* With n = 0 there is no string to write: strncpy dereferences a null pointer.
Strcpy == /\ phase = "resolved" /\ request.fn \in {"strcpy", "strncpy"}
          /\ \A k \in DOMAIN res : res[k].str # <<>>
          /\ ReturnAll(Copied)

\* strcat: the source is resolved first, then the destination in each of its states.
StrcatSource ==
  /\ phase = "resolved" /\ request.fn = "strcat" /\ srcs = <<>>
  /\ srcs' = res
  /\ Resolving(res[1].id, request.dst, MaxForksCat, Unlimited)
  /\ UNCHANGED <<z3, heap, used, request, before, out, calls>>

\* The string goes to the state in which the source was resolved, behind the terminator
\* of the destination, and the state in which the destination was resolved returns.
StrcatDest ==
  /\ phase = "resolved" /\ request.fn = "strcat" /\ srcs # <<>>
  /\ heap' = [heap EXCEPT ![srcs[1].id].mem =
       FoldLeft(LAMBDA m, ee : Written(m, request.dst + Len(ee.str), srcs[1].str), @, res)]
  /\ out' = out \o Ids(res)
  /\ srcs' = Tail(srcs)
  /\ IF Len(srcs) > 1 THEN Resolving(srcs[2].id, request.dst, MaxForksCat, Unlimited)
     ELSE phase' = "idle" /\ UNCHANGED <<loop, res>>
  /\ UNCHANGED <<z3, used, request, before, calls>>

Returning(differ) ==
  /\ heap' = [heap EXCEPT ![1].rax = [i \in Input |-> IF i \in differ THEN 1 ELSE 0]]
  /\ out' = <<1>>
  /\ phase' = "idle"
  /\ UNCHANGED loop

\* strcmp, a byte at a time: loop.same holds the inputs for which all were equal.
Strcmp ==
  /\ phase = "strcmp"
  /\ LET b1 == At(heap[1], request.dst + loop.curr)
         b2 == At(heap[1], request.src + loop.curr)
         same == {i \in Input : b1[i] = b2[i]}
         equal == loop.same \cap same
         c == [i \in Input |-> IF i \in same THEN 1 ELSE 0]
     IN \/ loop.curr = MaxCmp /\ Returning(Input \ loop.same)
        \/ loop.curr < MaxCmp /\ TRUE \in FoldsTo(c, 0) /\ Returning(Input)
        \/ /\ loop.curr < MaxCmp /\ FALSE \in FoldsTo(c, 0)
           /\ TRUE \in FoldsTo(b1, 0) \cup FoldsTo(b2, 0)
           /\ Returning(Input \ equal)
        \/ /\ loop.curr < MaxCmp /\ FALSE \in FoldsTo(c, 0)
           /\ FALSE \in FoldsTo(b1, 0) /\ FALSE \in FoldsTo(b2, 0)
           /\ loop' = [loop EXCEPT !.curr = @ + 1, !.same = equal]
           /\ UNCHANGED <<heap, out, phase>>
  /\ UNCHANGED <<z3, used, request, before, res, srcs, calls>>

Memcmp ==
  /\ phase = "memcmp" /\ request.n > 0
  /\ Returning({i \in Input : \E k \in 0..request.n - 1 :
                  At(heap[1], request.dst + k)[i] # At(heap[1], request.src + k)[i]})
  /\ UNCHANGED <<z3, used, request, before, res, srcs, calls>>

\* memcmp of no byte ends the engine, and strncpy of none crashes it.
Fail ==
  /\ \/ phase = "memcmp" /\ request.n = 0
     \/ /\ phase = "resolved" /\ request.fn = "strncpy"
        /\ \E k \in DOMAIN res : res[k].str = <<>>
  /\ phase' = "failed"
  /\ UNCHANGED <<z3, heap, used, request, before, loop, res, srcs, out, calls>>

Done == /\ phase = "failed" \/ TooLong \/ (phase = "idle" /\ calls = MaxCalls)
        /\ UNCHANGED vars

Next == \/ Begin \/ NotZero \/ EndOfString \/ LastEnd \/ ForkEnd
        \/ Strlen \/ Strcpy \/ StrcatSource \/ StrcatDest \/ Strcmp \/ Memcmp
        \/ Fail \/ Done

Spec == Init /\ [][Next]_vars
-----------------------------------------------------------------------------
TypeOK ==
  /\ \A id \in Id : /\ heap[id].mem \in [Address -> [Input -> Byte]]
                     /\ heap[id].pi \subseteq Input /\ heap[id].rax \in [Input -> Nat]
  /\ used \in Id /\ loop.id \in 1..used /\ \A k \in DOMAIN out : out[k] \in 1..used
  /\ loop.size \in Nat \cup {Unlimited} /\ loop.forks \in 0..MaxForks \cup 0..MaxForksCat
  /\ loop.same \subseteq Input /\ Len(loop.str) <= Width

Returned == phase = "idle" /\ request.fn # "none"

\* The memory of input i in a state, and the length of a string in it: Width, if it has
\* no end.
MemOf(st, i) == [a \in Address |-> st.mem[a][i]]
LenIn(m, a) ==
  CHOOSE k \in 0..Width : /\ k = Width \/ m[(a + k) % Width] = 0
                          /\ \A j \in 0..k - 1 : m[(a + j) % Width] # 0

\* However a call forks, its states divide the inputs of the caller's: no input goes on
\* in two of them, and none comes from elsewhere.
DividesInputs ==
  Returned => /\ \A k \in DOMAIN out : heap[out[k]].pi \subseteq before.pi
              /\ \A k, l \in DOMAIN out :
                   k # l => out[k] # out[l] /\ heap[out[k]].pi \cap heap[out[l]].pi = {}

\* The ways a string of at most n bytes may end, on the caller's path.
Ends(a, n) == {LET len == LenIn(MemOf(before, i), a) IN IF len < n THEN len ELSE n : i \in before.pi}

\* The bytes that strncpy really looks at, at most.
MostBytes(r) == IF AsInt(r.n) = Unlimited THEN Width ELSE AsInt(r.n)

FewEnds ==
  CASE request.fn \in {"strlen", "strcpy"} -> Cardinality(Ends(request.src, Width)) <= MaxForks + 1
    [] request.fn = "strncpy" -> Cardinality(Ends(request.src, MostBytes(request))) <= MaxForks + 1
    [] request.fn = "strcat" -> /\ Cardinality(Ends(request.src, Width)) <= MaxForksCat + 1
                                /\ Cardinality(Ends(request.dst, Width)) <= MaxForksCat + 1
    [] OTHER -> TRUE

\* As long as Z3 answers and there are no more ends than forks allow (one more, the last,
\* needs none), every input of the caller's state goes on in one of the states returned.
EveryInputReturns ==
  Returned /\ ~z3.timeouts /\ FewEnds =>
    before.pi \subseteq UNION {heap[out[k]].pi : k \in DOMAIN out}

\* The functions of C on a plain memory m; a comparison tells equal from different (by 0
\* and 1) only, strcmp looks at MaxCmp bytes at most, and strncpy pads with nothing.
Copy(m, dst, src, len) ==
  [x \in Address |-> IF \E k \in 0..len - 1 : x = (dst + k) % Width
                     THEN m[(src + CHOOSE k \in 0..len - 1 : x = (dst + k) % Width) % Width]
                     ELSE m[x]]
Differ(m, a, b, len) == IF \E k \in 0..len - 1 : m[(a + k) % Width] # m[(b + k) % Width] THEN 1 ELSE 0
Least(a, b) == IF a < b THEN a ELSE b

InC(r, m) ==
  CASE r.fn = "strlen" -> [mem |-> m, rax |-> LenIn(m, r.src)]
    [] r.fn = "strcpy" -> [mem |-> Copy(m, r.dst, r.src, LenIn(m, r.src) + 1), rax |-> r.dst]
    [] r.fn = "strncpy" -> [mem |-> Copy(m, r.dst, r.src, Least(r.n, LenIn(m, r.src) + 1)),
                            rax |-> r.dst]
    [] r.fn = "strcat" -> [mem |-> Copy(m, r.dst + LenIn(m, r.dst), r.src, LenIn(m, r.src) + 1),
                           rax |-> r.dst]
    [] r.fn = "strcmp" -> [mem |-> m, rax |-> Differ(m, r.dst, r.src,
                                                     Least(MaxCmp, LenIn(m, r.dst) + 1))]
    [] r.fn = "memcmp" -> [mem |-> m, rax |-> Differ(m, r.dst, r.src, r.n)]

AsInC == \A k \in DOMAIN out : \A i \in heap[out[k]].pi :
           LET st == heap[out[k]]
           IN [mem |-> MemOf(st, i), rax |-> st.rax[i]] = InC(request, MemOf(before, i))

\* A string whose bytes are constants.
Literal(a) == \E k \in 0..Width : /\ At(before, a + k) = Const(0)
                                   /\ \A j \in 0..k - 1 : \E v \in Byte \ {0} : At(before, a + j) = Const(v)

\* In every state a call returns, it has done for each input what C says, on memory
\* with a symbolic string, a literal, or two overlapping strings.  strcmp compares
\* what lies behind the end of two symbolic strings ("FIXME: the semantics of strcmp is
\* different"): it is right when one is a literal, and never takes different strings for equal.
\* strncpy is asked for no more bytes than an int can count.
ResultsAsInC ==
  Returned /\ ~z3.timeouts /\ request.fn # "strcat" /\ (request.fn = "strncpy" => request.n < IntLimit) =>
    IF request.fn = "strcmp" /\ ~(z3.folds /\ (Literal(request.dst) \/ Literal(request.src)))
    THEN \A i \in heap[1].pi :
           heap[1].rax[i] = 0 => InC(request, MemOf(before, i)).rax = 0
    ELSE AsInC

\* "strcat(p_str, "pollo"); ... if (strcmp(argv[1], p_str) == 0)"
\* (tests/programs/strings_api_3.c:12-16): strcat appends to the string at dst.
StrcatAppends == Returned /\ ~z3.timeouts /\ request.fn = "strcat" => AsInC
=============================================================================
