------------------------------ MODULE PCodeOps ------------------------------
(***************************************************************************)
(* executor/PCodeExecutor.cpp, the data operations of P-code: registers    *)
(* hold expressions over the program's input, a byte each, and every       *)
(* operation reads its varnodes, builds an expression with ExprBuilder and *)
(* writes it back (execute_pcodeop, resolve_varnode, write_to_varnode).    *)
(* Control flow is in PCodeExecutor, symbolic addresses are in MapMemory.  *)
(***************************************************************************)
EXTENDS ExprValue, FiniteSets

CONSTANTS
  Files,      \* the register contents to begin with: [0..RegBytes-1 -> node]
  Menu,       \* Menu[i]: the operations the i-th may be
  Inputs,     \* the assignments of the input: functions from symbols to values
  Builds      \* what is left open: the junk in an unset field, the order of addresses

VARIABLES
  regs,       \* m_regs, by byte
  count,      \* operations executed
  last,       \* the latest operation: its name, operands, output and result
  status      \* "running", or "exited" once the process has ended

vars == <<regs, count, last, status, junk, upwards>>

bytes(n) == n * ByteBits

\* A varnode is a place in a space and a size in bytes.
Reg(off, size)   == [space |-> "register", off |-> off, size |-> size]
Const(val, size) == [space |-> "const", off |-> val, size |-> size]

(***************************************************************************)
(* MapMemory::read and write at a known address, little endian.            *)
(***************************************************************************)

\* Mutant: the other way round.
reg_read_big(off, size) ==
  FoldLeft(LAMBDA res, i : mk_concat(res, regs[off + i]), regs[off],
           [i \in 1..(size - 1) |-> i])

reg_read(off, size) ==
  FoldLeft(LAMBDA res, i : mk_concat(regs[off + i], res), regs[off],
           [i \in 1..(size - 1) |-> i])

reg_write(off, value) ==
  [b \in DOMAIN regs |->
     IF b >= off /\ bytes(b - off) < value.size
       THEN mk_extract(value, bytes(b - off) + ByteBits - 1, bytes(b - off))
       ELSE regs[b]]

resolve_varnode(v) ==
  IF v.space = "const" THEN mk_const(v.off, bytes(v.size)) ELSE reg_read(v.off, v.size)

\* The value written is refused if its size is not that of the varnode.
write_to_varnode(op, in, out, value) ==
  /\ last' = [op |-> op, in |-> in, out |-> out, res |-> value]
  /\ count' = count + 1
  /\ UNCHANGED <<junk, upwards>>
  /\ IF Aborted(value) \/ value.size # bytes(out.size)
       THEN status' = "exited" /\ UNCHANGED regs
       ELSE regs' = reg_write(out.off, value) /\ UNCHANGED status

(***************************************************************************)
(* The expression each operation builds; out is the output's size in bits. *)
(***************************************************************************)
Comparisons == {"INT_EQUAL", "INT_NOTEQUAL", "INT_LESS", "INT_LESSEQUAL",
                "INT_SLESS", "INT_SLESSEQUAL"}

comparison(op, x, y) ==
  bool_to_bv(CASE op = "INT_EQUAL"      -> mk_eq(x, y)
               [] op = "INT_NOTEQUAL"   -> mk_neq(x, y)
               [] op = "INT_LESS"       -> mk_ult(x, y)
               [] op = "INT_LESSEQUAL"  -> mk_ule(x, y)
               [] op = "INT_SLESS"      -> mk_slt(x, y)
               [] op = "INT_SLESSEQUAL" -> mk_sle(x, y))

Booleans == {"BOOL_NEGATE", "BOOL_AND", "BOOL_OR"}

boolean(op, x, y) ==
  bool_to_bv(CASE op = "BOOL_NEGATE" -> mk_not(bv_to_bool(x))
               [] op = "BOOL_AND"    -> mk_bool_and(bv_to_bool(x), bv_to_bool(y))
               [] op = "BOOL_OR"     -> mk_bool_or(bv_to_bool(x), bv_to_bool(y)))

\* The second operand of SUBPIECE is a number of bytes in the operation itself.
Moves == {"COPY", "SUBPIECE", "INT_ZEXT", "INT_SEXT"}

piece(op, x, y, out) ==
  CASE op = "COPY"     -> x
    [] op = "SUBPIECE" -> mk_extract(x, out + bytes(Val(y)) - 1, bytes(Val(y)))
    [] op = "INT_ZEXT" -> mk_zext(x, out)
    [] op = "INT_SEXT" -> mk_sext(x, out)

Bitwises == {"INT_NEGATE", "INT_XOR", "INT_AND", "INT_OR"}

bitwise(op, x, y) ==
  CASE op = "INT_NEGATE" -> mk_bv_not(x)
    [] op = "INT_XOR"    -> mk_xor(x, y)
    [] op = "INT_AND"    -> mk_and(x, y)
    [] op = "INT_OR"     -> mk_or(x, y)

\* The amount is widened to the size of what is shifted; a wider one cannot be.
Shifts == {"INT_LEFT", "INT_RIGHT", "INT_SRIGHT"}

shift(op, x, y) ==
  LET by == mk_zext(y, x.size)
  IN  CASE op = "INT_LEFT"   -> mk_shl(x, by)
        [] op = "INT_RIGHT"  -> mk_lshr(x, by)
        [] op = "INT_SRIGHT" -> mk_ashr(x, by)

Sums == {"INT_2COMP", "INT_ADD", "INT_SUB", "INT_MULT"}

sum(op, x, y) ==
  CASE op = "INT_2COMP" -> mk_neg(x)
    [] op = "INT_ADD"   -> mk_add(x, y)
    [] op = "INT_SUB"   -> mk_sub(x, y)
    [] op = "INT_MULT"  -> mk_mul(x, y)

Carries == {"INT_CARRY", "INT_SBORROW", "INT_SCARRY"}

carry(op, x, y) ==
  LET a    == sign_bit(x)
      b    == sign_bit(y)
      r    == sign_bit(mk_sub(x, y))
      flip(e) == mk_xor(e, mk_const(1, 1))
  IN  CASE op = "INT_CARRY"   -> bool_to_bv(mk_uge(x, y))
        [] op = "INT_SBORROW" -> mk_zext(mk_and(mk_xor(a, r), flip(mk_xor(r, b))), ByteBits)
        [] op = "INT_SCARRY"  -> mk_zext(mk_and(mk_xor(r, a), flip(mk_xor(a, b))), ByteBits)

popcount(x, out) ==
  LET one(i) == mk_zext(mk_extract(x, i, i), out)
  IN  FoldLeft(LAMBDA res, i : mk_add(res, one(i)), one(0), [i \in 1..(x.size - 1) |-> i])

\* ExprBuilder divides although execute_pcodeop knows no division.
Divisions == Quotients

division(op, x, y) ==
  CASE op = "SDIV" -> mk_sdiv(x, y)
    [] op = "UDIV" -> mk_udiv(x, y)
    [] op = "SREM" -> mk_srem(x, y)
    [] op = "UREM" -> mk_urem(x, y)

(***************************************************************************)
(* The steps: the next operation is one of a group.                        *)
(***************************************************************************)
build(op, x, y, out) ==
  CASE op \in Comparisons -> comparison(op, x, y)
    [] op \in Booleans    -> boolean(op, x, y)
    [] op \in Moves       -> piece(op, x, y, out)
    [] op \in Bitwises    -> bitwise(op, x, y)
    [] op \in Shifts      -> shift(op, x, y)
    [] op \in Sums        -> sum(op, x, y)
    [] op \in Carries     -> carry(op, x, y)
    [] op = "POPCOUNT"    -> popcount(x, out)
    [] op \in Divisions   -> division(op, x, y)

execute_pcodeop(Group) ==
  /\ status = "running"
  /\ count < Len(Menu)
  /\ \E i \in {i \in Menu[count + 1] : i.op \in Group} :
       LET x == resolve_varnode(i.in[1])
           y == resolve_varnode(i.in[Len(i.in)])
       IN  write_to_varnode(i.op, <<x, y>>, i.out, build(i.op, x, y, bytes(i.out.size)))

Compare  == execute_pcodeop(Comparisons)
Decide   == execute_pcodeop(Booleans)
Move     == execute_pcodeop(Moves)
Mask     == execute_pcodeop(Bitwises)
Shift    == execute_pcodeop(Shifts)
Add      == execute_pcodeop(Sums)
Carry    == execute_pcodeop(Carries)
Popcount == execute_pcodeop({"POPCOUNT"})
Divide   == execute_pcodeop(Divisions)

NoOp == [op |-> "none", in |-> <<>>, out |-> Reg(0, 1), res |-> Abort]

Init ==
  /\ regs \in Files
  /\ \E b \in Builds : junk = b.junk /\ upwards = b.upwards
  /\ count = 0
  /\ last = NoOp
  /\ status = "running"

Next == Compare \/ Decide \/ Move \/ Mask \/ Shift \/ Add \/ Carry \/ Popcount \/ Divide

Spec == Init /\ [][Next]_vars

(***************************************************************************)
(* What P-code says an operation computes, of operands of n bits; for the  *)
(* divisions, what Z3 says.                                                *)
(***************************************************************************)
Meaning(op, x, y, n, out) ==
  CASE op = "INT_EQUAL"      -> One(x = y)
    [] op = "INT_NOTEQUAL"   -> One(x # y)
    [] op = "INT_LESS"       -> One(x < y)
    [] op = "INT_LESSEQUAL"  -> One(x <= y)
    [] op = "INT_SLESS"      -> One(Signed(x, n) < Signed(y, n))
    [] op = "INT_SLESSEQUAL" -> One(Signed(x, n) <= Signed(y, n))
    [] op = "BOOL_NEGATE"    -> One(x = 0)
    [] op = "BOOL_AND"       -> One(x # 0 /\ y # 0)
    [] op = "BOOL_OR"        -> One(x # 0 \/ y # 0)
    [] op \in {"COPY", "INT_ZEXT"} -> x
    [] op = "SUBPIECE"       -> (x \div 2^bytes(y)) % 2^out
    [] op = "INT_SEXT"       -> Signed(x, n) % 2^out
    [] op = "INT_NEGATE"     -> 2^n - 1 - x
    [] op = "INT_XOR"        -> bxor(x, y)
    [] op = "INT_AND"        -> band(x, y)
    [] op = "INT_OR"         -> bor(x, y)
    [] op = "INT_LEFT"       -> bvshl(x, y, n)
    [] op = "INT_RIGHT"      -> bvlshr(x, y, n)
    [] op = "INT_SRIGHT"     -> bvashr(x, y, n)
    [] op = "INT_2COMP"      -> (-x) % 2^n
    [] op = "INT_ADD"        -> (x + y) % 2^n
    [] op = "INT_SUB"        -> (x - y) % 2^n
    [] op = "INT_MULT"       -> (x * y) % 2^n
    [] op = "INT_CARRY"      -> One(x + y >= 2^n)
    [] op = "INT_SBORROW"    -> One(Signed(x, n) - Signed(y, n) \notin -(2^(n-1))..(2^(n-1) - 1))
    [] op = "INT_SCARRY"     -> One(Signed(x, n) + Signed(y, n) \notin -(2^(n-1))..(2^(n-1) - 1))
    [] op = "POPCOUNT"       -> Cardinality({i \in 0..(n - 1) : bit(x, i) = 1})
    [] op = "SDIV"           -> bvsdiv(x, y, n)
    [] op = "UDIV"           -> bvudiv(x, y, n)
    [] op = "SREM"           -> bvsmod(x, y, n)
    [] op = "UREM"           -> bvurem(x, y)

(***************************************************************************)
(* Where the code is known to compute something else (README, "Findings"). *)
(***************************************************************************)
Negative(v, n) == v >= 2^(n - 1)

Diverges(op, x, y, vx, vy) ==
  LET n    == x.size
      both == BothConst(x, y)
  IN
  \* the carries of an addition are computed from a comparison, a subtraction
  \/ op \in {"INT_CARRY", "INT_SCARRY"}
  \* large constants: order of different signs, amounts of shifts
  \/ is_big(n) /\ both /\ op \in {"INT_SLESS", "INT_SLESSEQUAL"} /\ Negative(vx, n) # Negative(vy, n)
  \/ is_big(n) /\ op \in Shifts /\ IsConst(y) /\ vy # 0
  \* the machine masks the amount of an arithmetic shift
  \/ op = "INT_SRIGHT" /\ both /\ vy >= Word
  \* a negative number divided by zero, zero divided by itself
  \/ op = "SDIV" /\ ZeroDivisor(y) /\ Negative(vx, n)
  \/ op \in {"SDIV", "UDIV"} /\ x = y /\ vx = 0
  \* the remainder of a division by one; its sign
  \/ op \in {"SREM", "UREM"} /\ OneDivisor(y) /\ ~both
  \/ op = "SREM" /\ both /\ Negative(vx, n) # Negative(vy, n)

\* Nodes that evaluate() may give another value than Z3 does, for the same
\* reasons.
Sensitive(e) ==
  \E f \in Nodes(e) :
    \/ f.k \in {"SDIV", "UDIV", "SREM", "UREM"}
    \/ f.k \in {"SHL", "LSHR", "ASHR"} /\ is_big(f.size)
    \/ f.k = "ASHR" /\ f.size = Word
    \/ f.k \in {"SLT", "SLE", "SGT", "SGE"} /\ is_big(f.ch[1].size)

-----------------------------------------------------------------------------
(***************************************************************************)
(* Properties                                                              *)
(***************************************************************************)

\* Every byte of the registers holds an expression of the size of a byte,
\* and every expression is one Z3 accepts: no extract past the end, no
\* operands of two sizes (mk_extract, mk_concat, write_byte).
TypeOK ==
  /\ count \in 0..Len(Menu)
  /\ status \in {"running", "exited"}
  /\ [junk |-> junk, upwards |-> upwards] \in Builds
  /\ \A b \in DOMAIN regs : regs[b].size = ByteBits /\ WellSized(regs[b])

\* The expression an operation leaves has, under every input, the value that
\* P-code gives the operation on the values of its operands, however the
\* builder has rewritten it.
OpExact ==
  last.op # "none" /\ ~Aborted(last.res) =>
    \A a \in Inputs :
      LET vx == Z3Value(last.in[1], a)
          vy == Z3Value(last.in[2], a)
      IN  \/ Diverges(last.op, last.in[1], last.in[2], vx, vy)
          \/ Z3Value(last.res, a) =
               Meaning(last.op, vx, vy, last.in[1].size, bytes(last.out.size))

\* Reading a varnode back, byte by byte, gives the value that was written to
\* it byte by byte (mk_extract in MapMemory::write, mk_concat in read).
WrittenIsRead ==
  last.op # "none" /\ status = "running" =>
    LET read == reg_read(last.out.off, last.out.size)
    IN  \A a \in Inputs : Z3Value(read, a) = Z3Value(last.res, a)

\* evaluate() under a part of an assignment keeps the value Z3 gives under
\* the whole of it; under the whole assignment it is a constant.
EvaluateExact ==
  last.op # "none" /\ ~Aborted(last.res) /\ ~Sensitive(last.res) =>
    \A a \in Inputs : \A known \in SUBSET DOMAIN a :
      LET e == evaluate(last.res, [s \in known |-> a[s]], FALSE)
      IN  /\ Z3Value(e, a) = Z3Value(last.res, a)
          /\ known = DOMAIN a => IsConst(e)

\* Two nodes are eq() only if they are the same: get_or_create never gives
\* out another expression than the one asked for.
InterningExact ==
  LET made == UNION ({Nodes(last.res)} \cup {Nodes(regs[b]) : b \in DOMAIN regs})
  IN  \A e, f \in made \ {Abort} : eq(e, f) <=> e = f

\* "we are consistent with Z3..." (mk_sdiv, mk_udiv, mk_srem, mk_urem, where
\* the divisor is the constant zero).
ConsistentWithZ3 ==
  last.op \in Divisions /\ ZeroDivisor(last.in[2]) =>
    \A a \in Inputs :
      Z3Value(last.res, a) =
        Meaning(last.op, Z3Value(last.in[1], a), 0, last.in[1].size, bytes(last.out.size))
=============================================================================
