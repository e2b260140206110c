-------------------------------- MODULE Expr --------------------------------
(***************************************************************************)
(* expr/Expr.hpp, Expr.cpp: the nodes of an expression.  A node is its     *)
(* kind, its size in bits (0 for a Boolean), its children, and the         *)
(* integers it keeps itself: a symbol's identity, a constant's value, the  *)
(* bounds of an extract.                                                   *)
(***************************************************************************)
EXTENDS BitVectors, Sequences, SequencesExt

\* ExprBuilder::get_or_create: a node is made once, so that comparing
\* pointers compares nodes.  Node(...) = Node(...) is that comparison.
Node(k, size, ch, p) == [k |-> k, size |-> size, ch |-> ch, p |-> p]

SymExpr(id, n)             == Node("SYM", n, <<>>, <<id>>)
ConstExpr(v, n)            == Node("CONST", n, <<>>, <<adjust_bits(v, n)>>)
ITEExpr(guard, a, b)       == Node("ITE", a.size, <<guard, a, b>>, <<>>)
ExtractExpr(e, high, low)  == Node("EXTRACT", high - low + 1, <<e>>, <<high, low>>)
ZextExpr(e, n)             == Node("ZEXT", n, <<e>>, <<>>)
SextExpr(e, n)             == Node("SEXT", n, <<e>>, <<>>)
NegExpr(e)                 == Node("NEG", e.size, <<e>>, <<>>)
NotExpr(e)                 == Node("NOT", e.size, <<e>>, <<>>)
ShlExpr(e, val)            == Node("SHL", e.size, <<e, val>>, <<>>)
LShrExpr(e, val)           == Node("LSHR", e.size, <<e, val>>, <<>>)
AShrExpr(e, val)           == Node("ASHR", e.size, <<e, val>>, <<>>)
AddExpr(els)               == Node("ADD", els[1].size, els, <<>>)
MulExpr(els)               == Node("MUL", els[1].size, els, <<>>)
SDivExpr(lhs, rhs)         == Node("SDIV", lhs.size, <<lhs, rhs>>, <<>>)
UDivExpr(lhs, rhs)         == Node("UDIV", lhs.size, <<lhs, rhs>>, <<>>)
SRemExpr(lhs, rhs)         == Node("SREM", lhs.size, <<lhs, rhs>>, <<>>)
URemExpr(lhs, rhs)         == Node("UREM", lhs.size, <<lhs, rhs>>, <<>>)
AndExpr(els)               == Node("AND", els[1].size, els, <<>>)
OrExpr(els)                == Node("OR", els[1].size, els, <<>>)
XorExpr(els)               == Node("XOR", els[1].size, els, <<>>)
BoolConst(b)               == Node("BOOL_CONST", 0, <<>>, <<IF b THEN 1 ELSE 0>>)
BoolNotExpr(e)             == Node("BOOL_NOT", 0, <<e>>, <<>>)
BoolAndExpr(els)           == Node("BOOL_AND", 0, els, <<>>)
BoolOrExpr(els)            == Node("BOOL_OR", 0, els, <<>>)

\* ULT, ULE, UGT, UGE, SLT, SLE, SGT, SGE and EQ come from one macro.
LogicalExpr(k, lhs, rhs)   == Node(k, 0, <<lhs, rhs>>, <<>>)

ConcatExpr(els) ==
  Node("CONCAT", FoldLeft(LAMBDA n, e : n + e.size, 0, els), els, <<>>)

\* Not a node of the code: what an operation leaves when the process ends in
\* it, with exit_fail() or on a trap.
Abort == Node("ABORT", 0, <<>>, <<>>)

\* The kinds, in the groups in which the code goes through them.
Pieces         == {"ITE", "EXTRACT", "CONCAT", "ZEXT", "SEXT"}
ShiftsAndSigns == {"NEG", "NOT", "SHL", "LSHR", "ASHR"}
Naries         == {"ADD", "MUL", "AND", "OR", "XOR"}
Quotients      == {"SDIV", "UDIV", "SREM", "UREM"}
Connectives    == {"BOOL_NOT", "BOOL_AND", "BOOL_OR"}
Logicals       == {"ULT", "ULE", "UGT", "UGE", "SLT", "SLE", "SGT", "SGE", "EQ"}

Is(e, k)   == e.k = k
Val(e)     == e.p[1]
IsConst(e) == Is(e, "CONST")
High(e)    == e.p[1]
Low(e)     == e.p[2]

(***************************************************************************)
(* What the eq() of each class compares of two nodes of its kind; children *)
(* are compared by address.  get_or_create returns the first node of the   *)
(* bucket that is eq() to the one asked for.                               *)
(***************************************************************************)
eq_leaf(a, b) ==
  IF Is(a, "SYM") THEN a.p = b.p ELSE a.size = b.size /\ a.p = b.p

\* Mutant: the upper bound of an extract is not compared.
eq_piece_low(a, b) ==
  IF Is(a, "EXTRACT") THEN Low(a) = Low(b) /\ a.ch = b.ch
  ELSE a.size = b.size /\ a.ch = b.ch

eq_piece(a, b) ==
  IF Is(a, "EXTRACT") THEN a.p = b.p /\ a.ch = b.ch
  ELSE a.size = b.size /\ a.ch = b.ch

eq_shift(a, b)    == a.size = b.size /\ a.ch = b.ch
eq_sum(a, b)      == a.size = b.size /\ a.ch = b.ch
eq_division(a, b) == a.size = b.size /\ a.ch = b.ch
eq_bitwise(a, b)  == a.size = b.size /\ a.ch = b.ch

eq_bool(a, b) ==
  IF Is(a, "BOOL_CONST") THEN a.p = b.p ELSE a.ch = b.ch

eq_logical(a, b) == a.ch = b.ch

eq(a, b) ==
  /\ a.k = b.k
  /\ CASE a.k \in {"SYM", "CONST"}       -> eq_leaf(a, b)
       [] a.k \in Pieces                 -> eq_piece(a, b)
       [] a.k \in ShiftsAndSigns                -> eq_shift(a, b)
       [] a.k \in {"ADD", "MUL"}         -> eq_sum(a, b)
       [] a.k \in Quotients              -> eq_division(a, b)
       [] a.k \in {"AND", "OR", "XOR"}   -> eq_bitwise(a, b)
       [] a.k \in Connectives \cup {"BOOL_CONST"} -> eq_bool(a, b)
       [] a.k \in Logicals               -> eq_logical(a, b)

\* A node and everything below it.
RECURSIVE Nodes(_)
Nodes(e) == {e} \cup UNION {Nodes(e.ch[i]) : i \in DOMAIN e.ch}

Aborted(e) == Abort \in Nodes(e)
=============================================================================
