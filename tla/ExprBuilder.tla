----------------------------- MODULE ExprBuilder ----------------------------
(***************************************************************************)
(* expr/ExprBuilder.cpp: how expressions are made.  Each mk_ operator      *)
(* simplifies what it is about to build; "identical" subexpressions are    *)
(* the same node.  Floating point is left out.                             *)
(***************************************************************************)
EXTENDS Expr

CONSTANT ByteBits    \* bits of a byte (8)

ASSUME ByteAssumption == ByteBits \in Nat \ {0}

\* Which way the addresses of nodes go: no one chooses them.
VARIABLE upwards

mk_true  == BoolConst(TRUE)
mk_false == BoolConst(FALSE)
Truth(b) == IF b THEN mk_true ELSE mk_false

mk_const(v, n) == ConstExpr(v, n)

\* check_size_or_fail
SameSize(lhs, rhs) == lhs.size = rhs.size

BothConst(lhs, rhs) == IsConst(lhs) /\ IsConst(rhs)

\* The arguments of an n-ary operator: nested ones are flattened.
Flatten(k, lhs, rhs) ==
  (IF Is(lhs, k) THEN lhs.ch ELSE <<lhs>>) \o (IF Is(rhs, k) THEN rhs.ch ELSE <<rhs>>)

\* std::sort(children): by address, so that equal lists of children end up the
\* same.  Of the orders the addresses can have, the model has one and its reverse.
RECURSIVE Listed(_)
Listed(S) ==
  IF S = {} THEN <<>>
  ELSE LET x == CHOOSE x \in S : TRUE
           rest == Listed(S \ {x})
       IN  IF upwards THEN <<x>> \o rest ELSE Append(rest, x)

Count(s, x) == Len(SelectSeq(s, LAMBDA y : y = x))

Sorted(s) ==
  LET order == Listed(ToSet(s))
  IN  FlattenSeq([i \in DOMAIN order |->
                    [j \in 1..Count(s, order[i]) |-> order[i]]])

Constants(els)    == SelectSeq(els, LAMBDA e : IsConst(e))
NotConstants(els) == SelectSeq(els, LAMBDA e : ~IsConst(e))

mk_zext(e, n) ==
  IF n < e.size THEN Abort
  ELSE IF n = e.size THEN e
  ELSE IF Is(e, "ZEXT") THEN ZextExpr(e.ch[1], n)
  ELSE IF IsConst(e) THEN mk_const(Val(e), n)
  ELSE ZextExpr(e, n)

mk_sext(e, n) ==
  IF n < e.size THEN Abort
  ELSE IF n = e.size THEN e
  ELSE IF Is(e, "SEXT") THEN SextExpr(e.ch[1], n)
  ELSE IF IsConst(e) THEN mk_const(sext(Val(e), e.size, n), n)
  ELSE SextExpr(e, n)

\* Mutant: it is enough that the part holds the lowest bit.
PartOfLowest(els, high, low) ==
  LET off(i) == FoldLeft(LAMBDA n, e : n + e.size, 0, SubSeq(els, i + 1, Len(els)))
  IN  {<<i, off(i)>> : i \in {i \in DOMAIN els :
         off(i) <= low /\ low <= off(i) + els[i].size - 1}}

\* The part of a concatenation that holds bits low..high, if one does: its
\* index and the bits below it.
PartOf(els, high, low) ==
  LET off(i) == FoldLeft(LAMBDA n, e : n + e.size, 0, SubSeq(els, i + 1, Len(els)))
  IN  {<<i, off(i)>> : i \in {i \in DOMAIN els :
         off(i) <= low /\ high <= off(i) + els[i].size - 1}}

RECURSIVE mk_extract(_, _, _)
mk_extract(e, high, low) ==
  LET inner == e.ch[1]
      parts == IF Is(e, "CONCAT") THEN PartOf(e.ch, high, low) ELSE {}
      sign  == mk_extract(inner, inner.size - 1, inner.size - 1)
  IN
  IF high < low THEN Abort
  ELSE IF low = 0 /\ high = e.size - 1 THEN e
  ELSE IF IsConst(e) THEN mk_const(extract(Val(e), high, low), high - low + 1)
  ELSE IF Is(e, "EXTRACT") THEN ExtractExpr(inner, high + Low(e), low + Low(e))
  ELSE IF parts # {} THEN LET part == CHOOSE q \in parts : TRUE
                     IN  mk_extract(e.ch[part[1]], high - part[2], low - part[2])
  ELSE IF Is(e, "ZEXT") THEN
         IF low = 0 /\ high = inner.size - 1 THEN inner
         ELSE IF low >= inner.size THEN mk_const(0, high - low + 1)
         ELSE \* the bound is the size of the extension, not of what it extends
              mk_zext(mk_extract(inner, IF high < e.size - 1 THEN high ELSE e.size - 1, low),
                      high - low + 1)
  ELSE IF Is(e, "SEXT") /\ low = 0 /\ high = inner.size - 1 THEN inner
  ELSE IF Is(e, "SEXT") /\ low >= inner.size /\ IsConst(sign) THEN
         mk_const(IF Val(sign) = 0 THEN 0 ELSE -1, high - low + 1)
  ELSE ExtractExpr(e, high, low)

sign_bit(e) == mk_extract(e, e.size - 1, e.size - 1)

mk_ite(guard, a, b) ==
  IF ~SameSize(a, b) THEN Abort
  ELSE IF Is(guard, "BOOL_CONST") THEN IF guard = mk_true THEN a ELSE b
  ELSE ITEExpr(guard, a, b)

(***************************************************************************)
(* mk_concat.  The upper part of a sign extension next to the number it    *)
(* extends is the extension again; neighbouring constants become one, and  *)
(* so do neighbouring extracts of one expression.                          *)
(***************************************************************************)
ExtendsRight(left, right) ==
  /\ Is(left, "EXTRACT")
  /\ Low(left) = right.size
  /\ Is(left.ch[1], "SEXT")
  /\ \/ left.ch[1].ch[1] = right
     \/ Is(right, "SEXT") /\ left.ch[1].ch[1] = right.ch[1]

RECURSIVE MergeConstants(_)
MergeConstants(els) ==
  IF Len(els) < 2 THEN els
  ELSE IF BothConst(els[1], els[2])
    THEN MergeConstants(<<mk_const(concat(Val(els[1]), Val(els[2]), els[2].size),
                                   els[1].size + els[2].size)>> \o SubSeq(els, 3, Len(els)))
    ELSE <<els[1]>> \o MergeConstants(Tail(els))

\* els[j] goes on where the extracts before it, down to bit low of e, end.
Continues(els, j, e, low) ==
  j <= Len(els) /\ Is(els[j], "EXTRACT") /\ els[j].ch[1] = e /\ low = High(els[j]) + 1

\* The list walked is merged, the list in which the neighbours are looked up
\* (all) is the one from before the constants were merged.
RECURSIVE MergeExtracts(_, _, _)
MergeExtracts(merged, all, i) ==
  LET e == merged[i]
      lowAt(j) == IF j = i + 1 THEN Low(e) ELSE Low(all[j - 1])
      end == CHOOSE j \in (i + 1)..(Len(all) + 1) :
               /\ ~Continues(all, j, e.ch[1], lowAt(j))
               /\ \A k \in (i + 1)..(j - 1) : Continues(all, k, e.ch[1], lowAt(k))
  IN  IF i > Len(merged) THEN <<>>
      ELSE IF ~Is(e, "EXTRACT") THEN <<e>> \o MergeExtracts(merged, all, i + 1)
      ELSE <<mk_extract(e.ch[1], High(e), lowAt(end))>> \o MergeExtracts(merged, all, end)

mk_concat(left, right) ==
  LET els      == Flatten("CONCAT", left, right)
      children == MergeExtracts(MergeConstants(els), els, 1)
  IN  IF ExtendsRight(left, right)
        THEN mk_sext(IF left.ch[1].ch[1] = right THEN right ELSE right.ch[1],
                     left.size + right.size)
      ELSE IF Len(children) = 1 THEN children[1]
      ELSE ConcatExpr(children)

(***************************************************************************)
(* Shifts.  as_u64 of an amount that does not fit ends the process.        *)
(***************************************************************************)
mk_shl(e, val) ==
  LET n == e.size IN
  IF ~SameSize(e, val) THEN Abort
  ELSE IF BothConst(e, val) THEN
         mk_const(IF fit_in_u64(Val(val), n)
                  THEN shl(Val(e), n, Amount(as_u64(Val(val), n))) ELSE 0, n)
  ELSE IF IsConst(val) /\ Val(val) = 0 THEN e
  ELSE IF IsConst(val) /\ ~fit_in_u64(Val(val), n) THEN Abort
  ELSE IF IsConst(val) /\ as_u64(Val(val), n) >= n THEN mk_const(0, n)
  ELSE ShlExpr(e, val)

mk_lshr(e, val) ==
  LET n == e.size IN
  IF ~SameSize(e, val) THEN Abort
  ELSE IF BothConst(e, val) THEN
         mk_const(IF fit_in_u64(Val(val), n)
                  THEN lshr(Val(e), n, Amount(as_u64(Val(val), n))) ELSE 0, n)
  ELSE IF IsConst(val) /\ Val(val) = 0 THEN e
  ELSE IF IsConst(val) /\ ~fit_in_u64(Val(val), n) THEN Abort
  ELSE IF IsConst(val) /\ as_u64(Val(val), n) >= n THEN mk_const(0, n)
  ELSE LShrExpr(e, val)

\* For an amount beyond 64 bits the sign looked at is that of the amount.
mk_ashr(e, val) ==
  LET n    == e.size
      sign == sign_bit(e)
      fill(b) == mk_const(IF b = 0 THEN 0 ELSE -1, n)
  IN
  IF ~SameSize(e, val) THEN Abort
  ELSE IF BothConst(e, val) THEN
         IF fit_in_u64(Val(val), n)
         THEN mk_const(ashr(Val(e), n, Amount(as_u64(Val(val), n))), n)
         ELSE fill(bit(Val(val), n - 1))
  ELSE IF IsConst(val) /\ Val(val) = 0 THEN e
  ELSE IF IsConst(val) /\ ~fit_in_u64(Val(val), n) THEN Abort
  ELSE IF IsConst(val) /\ as_u64(Val(val), n) >= n /\ IsConst(sign) THEN fill(Val(sign))
  ELSE AShrExpr(e, val)

mk_neg(e)    == IF IsConst(e) THEN mk_const(neg(Val(e), e.size), e.size) ELSE NegExpr(e)
mk_bv_not(e) == IF IsConst(e) THEN mk_const(bit_not(Val(e), e.size), e.size) ELSE NotExpr(e)

\* The children of a sum, a product, ... and the constant they leave; none
\* at all is the constant, a single one stands for itself.  The operators
\* choose the node among these three.
WithConstant(els, v, n, neutral) ==
  els \o (IF v = neutral THEN <<>> ELSE <<mk_const(v, n)>>)

mk_mul(lhs, rhs) ==
  LET n        == lhs.size
      els      == Flatten("MUL", lhs, rhs)
      children == NotConstants(els)
      v        == FoldLeft(LAMBDA w, e : mul(w, Val(e), n), adjust_bits(1, n), Constants(els))
      all      == WithConstant(children, v, n, 1)
  IN
  IF ~SameSize(lhs, rhs) THEN Abort
  ELSE IF (children = <<>> \/ v = 0) THEN mk_const(v, n)
  ELSE IF Len(all) = 1 THEN all[1] ELSE MulExpr(Sorted(all))

(***************************************************************************)
(* mk_add: addends that occur negated cancel out one by one, and what      *)
(* occurs more than once is multiplied by the number of times.  A NEG is   *)
(* always kept as what it negates: its own negation does not cancel it.    *)
(***************************************************************************)
Plain(e)    == IF Is(e, "NEG") THEN e.ch[1] ELSE e
Net(els, e) == (IF Is(e, "NEG") THEN 0 ELSE Count(els, e)) - Count(els, NegExpr(e))

Times(e, k) == IF k = 1 THEN e ELSE mk_mul(e, mk_const(k, e.size))

Pruned(els) ==
  LET keys     == {Plain(els[i]) : i \in DOMAIN els}
      negated  == Listed({e \in keys : Net(els, e) < 0})
      normal   == Listed({e \in keys : Net(els, e) > 0})
  IN  [i \in DOMAIN negated |-> Times(mk_neg(negated[i]), -Net(els, negated[i]))]
        \o [i \in DOMAIN normal |-> Times(normal[i], Net(els, normal[i]))]

mk_add(lhs, rhs) ==
  LET n      == lhs.size
      els    == Flatten("ADD", lhs, rhs)
      pruned == Pruned(NotConstants(els))
      v      == FoldLeft(LAMBDA w, e : add(w, Val(e), n), 0, Constants(els))
      all    == WithConstant(pruned, v, n, 0)
  IN
  IF ~SameSize(lhs, rhs) THEN Abort
  ELSE IF pruned = <<>> THEN mk_const(v, n)
  ELSE IF Len(all) = 1 THEN all[1] ELSE AddExpr(Sorted(all))

mk_sub(lhs, rhs) ==
  IF ~SameSize(lhs, rhs) THEN Abort
  ELSE IF BothConst(lhs, rhs) THEN mk_const(sub(Val(lhs), Val(rhs), lhs.size), lhs.size)
  ELSE mk_add(lhs, mk_neg(rhs))

mk_and(lhs, rhs) ==
  LET n        == lhs.size
      els      == Flatten("AND", lhs, rhs)
      children == NotConstants(els)
      v        == FoldLeft(LAMBDA w, e : band(w, Val(e)), all_ones(n), Constants(els))
      all      == WithConstant(children, v, n, all_ones(n))
  IN
  IF ~SameSize(lhs, rhs) THEN Abort
  ELSE IF \E i \in DOMAIN els : els[i] = mk_const(0, n) THEN mk_const(0, n)
  ELSE IF children = <<>> THEN mk_const(v, n)
  ELSE IF Len(all) = 1 THEN all[1] ELSE AndExpr(Sorted(all))

mk_or(lhs, rhs) ==
  LET n        == lhs.size
      els      == Flatten("OR", lhs, rhs)
      children == NotConstants(els)
      v        == FoldLeft(LAMBDA w, e : bor(w, Val(e)), 0, Constants(els))
      all      == WithConstant(children, v, n, 0)
  IN
  IF ~SameSize(lhs, rhs) THEN Abort
  ELSE IF \E i \in DOMAIN els : els[i] = mk_const(-1, n) THEN mk_const(-1, n)
  ELSE IF children = <<>> THEN mk_const(v, n)
  ELSE IF Len(all) = 1 THEN all[1] ELSE OrExpr(Sorted(all))

\* What occurs an even number of times is dropped.
mk_xor(lhs, rhs) ==
  LET n      == lhs.size
      els    == Flatten("XOR", lhs, rhs)
      odd    == {e \in ToSet(NotConstants(els)) : Count(els, e) % 2 = 1}
      v      == FoldLeft(LAMBDA w, e : bxor(w, Val(e)), 0, Constants(els))
      all    == WithConstant(Listed(odd), v, n, 0)
  IN
  IF ~SameSize(lhs, rhs) THEN Abort
  ELSE IF odd = {} THEN mk_const(v, n)
  ELSE IF Len(all) = 1 THEN all[1] ELSE XorExpr(Sorted(all))

(***************************************************************************)
(* Comparisons: constants are compared at once.                            *)
(***************************************************************************)
Compared(k, lhs, rhs, b) ==
  IF ~SameSize(lhs, rhs) THEN Abort
  ELSE IF BothConst(lhs, rhs) THEN Truth(b)
  ELSE LogicalExpr(k, lhs, rhs)

mk_ult(lhs, rhs) == Compared("ULT", lhs, rhs, ult(Val(lhs), Val(rhs)))
mk_ule(lhs, rhs) == Compared("ULE", lhs, rhs, ule(Val(lhs), Val(rhs)))
mk_ugt(lhs, rhs) == Compared("UGT", lhs, rhs, ~ule(Val(lhs), Val(rhs)))
mk_uge(lhs, rhs) == Compared("UGE", lhs, rhs, ~ult(Val(lhs), Val(rhs)))
mk_slt(lhs, rhs) == Compared("SLT", lhs, rhs, slt(Val(lhs), Val(rhs), lhs.size))
mk_sle(lhs, rhs) == Compared("SLE", lhs, rhs, sle(Val(lhs), Val(rhs), lhs.size))
mk_sgt(lhs, rhs) == Compared("SGT", lhs, rhs, ~sle(Val(lhs), Val(rhs), lhs.size))
mk_sge(lhs, rhs) == Compared("SGE", lhs, rhs, ~slt(Val(lhs), Val(rhs), lhs.size))

\* Mutant: the constant is moved to the other side as it is.
MovedAsIs(els) ==
  FoldLeft(LAMBDA acc, a :
             IF acc.rhs = <<>> /\ Is(a, "NEG") THEN [acc EXCEPT !.rhs = <<a.ch[1]>>]
             ELSE IF IsConst(a)
               THEN [rhs   |-> <<a>>,
                     other |-> acc.other \o [i \in DOMAIN acc.rhs |-> mk_neg(acc.rhs[i])]]
             ELSE [acc EXCEPT !.other = Append(@, a)],
           [rhs |-> <<>>, other |-> <<>>], els)

\* a + -b + ... = 0 becomes a + ... = b, and a + c = 0 becomes a = -c: the
\* first negated addend moves to the right, a constant takes its place.
Moved(els) ==
  FoldLeft(LAMBDA acc, a :
             IF acc.rhs = <<>> /\ Is(a, "NEG") THEN [acc EXCEPT !.rhs = <<a.ch[1]>>]
             ELSE IF IsConst(a)
               THEN [rhs   |-> <<mk_neg(a)>>,
                     other |-> acc.other \o [i \in DOMAIN acc.rhs |-> mk_neg(acc.rhs[i])]]
             ELSE [acc EXCEPT !.other = Append(@, a)],
           [rhs |-> <<>>, other |-> <<>>], els)

mk_eq(lhs, rhs) ==
  LET sides == Moved(lhs.ch)
      zero  == Is(lhs, "ADD") /\ IsConst(rhs) /\ Val(rhs) = 0
  IN  IF SameSize(lhs, rhs) /\ zero /\ sides.rhs # <<>>
        THEN LogicalExpr("EQ", IF Len(sides.other) = 1 THEN sides.other[1]
                                                        ELSE AddExpr(sides.other),
                         sides.rhs[1])
        ELSE Compared("EQ", lhs, rhs, Val(lhs) = Val(rhs))

(***************************************************************************)
(* Booleans.                                                               *)
(***************************************************************************)
mk_not(e) ==
  IF Is(e, "BOOL_CONST") THEN Truth(e = mk_false)
  ELSE IF Is(e, "BOOL_NOT") THEN e.ch[1]
  ELSE BoolNotExpr(e)

mk_neq(lhs, rhs) == mk_not(mk_eq(lhs, rhs))

mk_bool_and(lhs, rhs) ==
  LET els == ToSet(Flatten("BOOL_AND", lhs, rhs))
      all == Listed(els \ {mk_true})
  IN  IF mk_false \in els THEN mk_false
      ELSE IF all = <<>> THEN mk_true
      ELSE IF Len(all) = 1 THEN all[1]
      ELSE BoolAndExpr(all)

mk_bool_or(lhs, rhs) ==
  LET els == ToSet(Flatten("BOOL_OR", lhs, rhs))
      all == Listed(els \ {mk_false})
  IN  IF mk_true \in els THEN mk_true
      ELSE IF all = <<>> THEN mk_false
      ELSE IF Len(all) = 1 THEN all[1]
      ELSE BoolOrExpr(all)

bool_to_bv(e) == mk_ite(e, mk_const(1, ByteBits), mk_const(0, ByteBits))

bv_to_bool(e) ==
  IF Is(e, "ITE") /\ e.ch[2] = mk_const(1, e.size) /\ e.ch[3] = mk_const(0, e.size)
    THEN e.ch[1]
    ELSE mk_ugt(e, mk_const(0, e.size))

(***************************************************************************)
(* Division.  The comments of the code promise what Z3 says of a division  *)
(* by zero.                                                                *)
(***************************************************************************)
ZeroDivisor(rhs) == IsConst(rhs) /\ Val(rhs) = 0
OneDivisor(rhs)  == IsConst(rhs) /\ Val(rhs) = 1

mk_sdiv(lhs, rhs) ==
  LET n == lhs.size IN
  IF ~SameSize(lhs, rhs) THEN Abort
  ELSE IF ZeroDivisor(rhs)
    THEN mk_ite(mk_sge(lhs, mk_const(0, n)), mk_const(-1, n), mk_const(0, n))
  ELSE IF BothConst(lhs, rhs)
    THEN IF DivisionTraps(Val(lhs), Val(rhs), n) THEN Abort
         ELSE mk_const(sdiv(Val(lhs), Val(rhs), n), n)
  ELSE IF lhs = rhs THEN mk_const(1, n)
  ELSE SDivExpr(lhs, rhs)

mk_udiv(lhs, rhs) ==
  LET n == lhs.size IN
  IF ~SameSize(lhs, rhs) THEN Abort
  ELSE IF ZeroDivisor(rhs) THEN mk_const(-1, n)
  ELSE IF BothConst(lhs, rhs) THEN mk_const(udiv(Val(lhs), Val(rhs)), n)
  ELSE IF lhs = rhs THEN mk_const(1, n)
  ELSE UDivExpr(lhs, rhs)

\* What is left after a division by one is taken to be the dividend.
mk_srem(lhs, rhs) ==
  LET n == lhs.size IN
  IF ~SameSize(lhs, rhs) THEN Abort
  ELSE IF ZeroDivisor(rhs) THEN lhs
  ELSE IF BothConst(lhs, rhs)
    THEN IF DivisionTraps(Val(lhs), Val(rhs), n) THEN Abort
         ELSE mk_const(srem(Val(lhs), Val(rhs), n), n)
  ELSE IF OneDivisor(rhs) THEN lhs
  ELSE SRemExpr(lhs, rhs)

mk_urem(lhs, rhs) ==
  LET n == lhs.size IN
  IF ~SameSize(lhs, rhs) THEN Abort
  ELSE IF ZeroDivisor(rhs) THEN lhs
  ELSE IF BothConst(lhs, rhs) THEN mk_const(urem(Val(lhs), Val(rhs)), n)
  ELSE IF OneDivisor(rhs) THEN lhs
  ELSE URemExpr(lhs, rhs)
=============================================================================
