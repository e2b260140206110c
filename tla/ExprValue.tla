------------------------------ MODULE ExprValue -----------------------------
(***************************************************************************)
(* The two ways the code gives an expression its value: evaluate()         *)
(* (expr/util.cpp), which puts constants in the place of symbols and       *)
(* builds the expression again, and the translation for Z3                 *)
(* (solver/Z3Solver.cpp, to_z3_inner) with what the operations it          *)
(* translates to mean in the theory of bit vectors.                        *)
(***************************************************************************)
EXTENDS ExprBuilder

\* Below, a is an assignment: a function from identities of symbols to values.

\* An expression built again from its children, one operator for each group
\* of kinds; val are the children as evaluated.
rebuild_piece(e, val) ==
  CASE Is(e, "EXTRACT") -> mk_extract(val[1], High(e), Low(e))
    [] Is(e, "CONCAT")  -> FoldLeft(mk_concat, val[1], Tail(val))
    [] Is(e, "ZEXT")    -> mk_zext(val[1], e.size)
    [] Is(e, "SEXT")    -> mk_sext(val[1], e.size)
    [] Is(e, "ITE")     -> mk_ite(val[1], val[2], val[3])

rebuild_shift(e, val) ==
  CASE Is(e, "SHL")  -> mk_shl(val[1], val[2])
    [] Is(e, "LSHR") -> mk_lshr(val[1], val[2])
    [] Is(e, "ASHR") -> mk_ashr(val[1], val[2])
    [] Is(e, "NEG")  -> mk_neg(val[1])
    [] Is(e, "NOT")  -> mk_bv_not(val[1])

\* Mutant: every n-ary expression that is not a product or a mask is a sum.
rebuild_nary_sum(e, val) ==
  CASE Is(e, "AND") -> FoldLeft(mk_and, val[1], Tail(val))
    [] Is(e, "OR")  -> FoldLeft(mk_or, val[1], Tail(val))
    [] Is(e, "MUL") -> FoldLeft(mk_mul, val[1], Tail(val))
    [] OTHER        -> FoldLeft(mk_add, val[1], Tail(val))

rebuild_nary(e, val) ==
  CASE Is(e, "AND") -> FoldLeft(mk_and, val[1], Tail(val))
    [] Is(e, "OR")  -> FoldLeft(mk_or, val[1], Tail(val))
    [] Is(e, "XOR") -> FoldLeft(mk_xor, val[1], Tail(val))
    [] Is(e, "ADD") -> FoldLeft(mk_add, val[1], Tail(val))
    [] Is(e, "MUL") -> FoldLeft(mk_mul, val[1], Tail(val))

rebuild_division(e, val) ==
  CASE Is(e, "SDIV") -> mk_sdiv(val[1], val[2])
    [] Is(e, "UDIV") -> mk_udiv(val[1], val[2])
    [] Is(e, "SREM") -> mk_srem(val[1], val[2])
    [] Is(e, "UREM") -> mk_urem(val[1], val[2])

rebuild_logical(e, val) ==
  CASE Is(e, "ULT") -> mk_ult(val[1], val[2])
    [] Is(e, "ULE") -> mk_ule(val[1], val[2])
    [] Is(e, "UGT") -> mk_ugt(val[1], val[2])
    [] Is(e, "UGE") -> mk_uge(val[1], val[2])
    [] Is(e, "SLT") -> mk_slt(val[1], val[2])
    [] Is(e, "SLE") -> mk_sle(val[1], val[2])
    [] Is(e, "SGT") -> mk_sgt(val[1], val[2])
    [] Is(e, "SGE") -> mk_sge(val[1], val[2])
    [] Is(e, "EQ")  -> mk_eq(val[1], val[2])

rebuild_bool(e, val) ==
  CASE Is(e, "BOOL_NOT") -> mk_not(val[1])
    [] Is(e, "BOOL_AND") -> FoldLeft(mk_bool_and, val[1], Tail(val))
    [] Is(e, "BOOL_OR")  -> FoldLeft(mk_bool_or, val[1], Tail(val))

RECURSIVE evaluate(_, _, _)
evaluate(e, a, completion) ==
  LET val == [i \in DOMAIN e.ch |-> evaluate(e.ch[i], a, completion)] IN
  CASE Is(e, "SYM") -> IF Val(e) \in DOMAIN a THEN mk_const(a[Val(e)], e.size)
                       ELSE IF completion THEN mk_const(0, e.size)
                       ELSE e
    [] e.k \in Pieces      -> rebuild_piece(e, val)
    [] e.k \in ShiftsAndSigns     -> rebuild_shift(e, val)
    [] e.k \in Naries      -> rebuild_nary(e, val)
    [] e.k \in Quotients   -> rebuild_division(e, val)
    [] e.k \in Logicals    -> rebuild_logical(e, val)
    [] e.k \in Connectives -> rebuild_bool(e, val)
    [] OTHER               -> e

(***************************************************************************)
(* SMT-LIB's bit vectors.  A Boolean is 0 or 1.                            *)
(***************************************************************************)
Signed(v, n) == IF v >= 2^(n - 1) THEN v - 2^n ELSE v
One(b)       == IF b THEN 1 ELSE 0

bvudiv(v, w, n) == IF w = 0 THEN 2^n - 1 ELSE v \div w
bvurem(v, w)    == IF w = 0 THEN v ELSE v % w

bvsdiv(v, w, n) ==
  LET a == Signed(v, n)
      b == Signed(w, n)
      q == (IF a < 0 THEN -a ELSE a) \div (IF b < 0 THEN -b ELSE b)
  IN  (IF w = 0 THEN IF a < 0 THEN 1 ELSE -1
       ELSE IF (a < 0) = (b < 0) THEN q ELSE -q) % 2^n

\* The remainder has the sign of the divisor.
bvsmod(v, w, n) ==
  LET a == Signed(v, n)
      b == Signed(w, n)
  IN  (IF w = 0 THEN a ELSE IF b > 0 THEN a % b ELSE -((-a) % (-b))) % 2^n

bvshl(v, w, n)  == IF w >= n THEN 0 ELSE (v * 2^w) % 2^n
bvlshr(v, w, n) == IF w >= n THEN 0 ELSE v \div 2^w
bvashr(v, w, n) ==
  (IF w >= n THEN IF Signed(v, n) < 0 THEN -1 ELSE 0 ELSE Signed(v, n) \div 2^w) % 2^n

(***************************************************************************)
(* The value Z3 gives the translation of e.                                *)
(***************************************************************************)
to_z3_piece(e, val) ==
  CASE Is(e, "EXTRACT") -> (val[1] \div 2^Low(e)) % 2^e.size
    [] Is(e, "CONCAT")  -> FoldLeft(LAMBDA w, i : w * 2^e.ch[i].size + val[i], 0,
                                    [i \in DOMAIN val |-> i])
    [] Is(e, "ZEXT")    -> val[1]
    [] Is(e, "SEXT")    -> Signed(val[1], e.ch[1].size) % 2^e.size
    [] Is(e, "ITE")     -> IF val[1] = 1 THEN val[2] ELSE val[3]

to_z3_shift(e, val) ==
  CASE Is(e, "SHL")  -> bvshl(val[1], val[2], e.size)
    [] Is(e, "LSHR") -> bvlshr(val[1], val[2], e.size)
    [] Is(e, "ASHR") -> bvashr(val[1], val[2], e.size)
    [] Is(e, "NEG")  -> (-val[1]) % 2^e.size
    [] Is(e, "NOT")  -> (-val[1] - 1) % 2^e.size

to_z3_nary(e, val) ==
  CASE Is(e, "AND") -> FoldLeft(band, val[1], Tail(val))
    [] Is(e, "OR")  -> FoldLeft(bor, val[1], Tail(val))
    [] Is(e, "XOR") -> FoldLeft(bxor, val[1], Tail(val))
    [] Is(e, "ADD") -> FoldLeft(LAMBDA v, w : (v + w) % 2^e.size, val[1], Tail(val))
    [] Is(e, "MUL") -> FoldLeft(LAMBDA v, w : (v * w) % 2^e.size, val[1], Tail(val))

to_z3_division(e, val) ==
  CASE Is(e, "SDIV") -> bvsdiv(val[1], val[2], e.size)
    [] Is(e, "UDIV") -> bvudiv(val[1], val[2], e.size)
    [] Is(e, "SREM") -> bvsmod(val[1], val[2], e.size)
    [] Is(e, "UREM") -> bvurem(val[1], val[2])

to_z3_logical(e, val) ==
  LET n == e.ch[1].size
      v == val[1]
      w == val[2]
  IN  One(CASE Is(e, "ULT") -> v < w
            [] Is(e, "ULE") -> v <= w
            [] Is(e, "UGT") -> v > w
            [] Is(e, "UGE") -> v >= w
            [] Is(e, "SLT") -> Signed(v, n) < Signed(w, n)
            [] Is(e, "SLE") -> Signed(v, n) <= Signed(w, n)
            [] Is(e, "SGT") -> Signed(v, n) > Signed(w, n)
            [] Is(e, "SGE") -> Signed(v, n) >= Signed(w, n)
            [] Is(e, "EQ")  -> v = w)

to_z3_bool(e, val) ==
  CASE Is(e, "BOOL_NOT") -> 1 - val[1]
    [] Is(e, "BOOL_AND") -> One(\A i \in DOMAIN val : val[i] = 1)
    [] Is(e, "BOOL_OR")  -> One(\E i \in DOMAIN val : val[i] = 1)

RECURSIVE Z3Value(_, _)
Z3Value(e, a) ==
  LET val == [i \in DOMAIN e.ch |-> Z3Value(e.ch[i], a)] IN
  CASE Is(e, "SYM") -> a[Val(e)]
    [] e.k \in {"CONST", "BOOL_CONST"} -> Val(e)
    [] e.k \in Pieces      -> to_z3_piece(e, val)
    [] e.k \in ShiftsAndSigns     -> to_z3_shift(e, val)
    [] e.k \in Naries      -> to_z3_nary(e, val)
    [] e.k \in Quotients   -> to_z3_division(e, val)
    [] e.k \in Logicals    -> to_z3_logical(e, val)
    [] e.k \in Connectives -> to_z3_bool(e, val)

\* Sizes that Z3 accepts: it refuses an extract past the end of what it
\* extracts from, and operands of two sizes.
WellSized(e) ==
  \A f \in Nodes(e) :
    /\ f # Abort
    /\ Is(f, "ITE") => f.ch[2].size = f.size /\ f.ch[3].size = f.size
    /\ f.k \in ShiftsAndSigns \cup Naries \cup Quotients =>
         \A i \in DOMAIN f.ch : f.ch[i].size = f.size
    /\ f.k \in Logicals => f.ch[1].size = f.ch[2].size
    /\ f.k \in {"ZEXT", "SEXT"} => f.ch[1].size < f.size
    /\ Is(f, "EXTRACT") => Low(f) <= High(f) /\ High(f) < f.ch[1].size
=============================================================================
