----------------------------- MODULE MCPCodeOps -----------------------------
(***************************************************************************)
(* P-code on a machine of 2-bit bytes, 4-bit words and a register file of  *)
(* 4 bytes (twice the word, so its whole is a "large" number): sequences   *)
(* of operations over two bytes of input.                                  *)
(***************************************************************************)
EXTENDS PCodeOps, TLC

x == SymExpr(0, ByteBits)
y == SymExpr(1, ByteBits)
K(v) == mk_const(v, ByteBits)

File(a, b, c, d) == (0 :> a) @@ (1 :> b) @@ (2 :> c) @@ (3 :> d)

MCFiles  == {File(x, y, K(1), K(2)), File(K(1), K(2), K(3), x)}
MCInputs == [{0, 1} -> 0..3]
MCBuilds == {[junk |-> 3, upwards |-> TRUE], [junk |-> 9, upwards |-> FALSE]}

Bytes  == {Reg(0, 1), Reg(1, 1), Reg(3, 1), Const(1, 1)}
Words  == {Reg(0, 2), Reg(2, 2), Const(8, 2), Const(1, 2)}
Quads  == {Reg(0, 4), Const(128, 4)}
Places == <<Reg(3, 1), Reg(2, 2), Reg(2, 2), Reg(0, 4)>>

Op(name, in, out) == [op |-> name, in |-> in, out |-> out]

Same     == {<<a, b>> : a, b \in Bytes} \cup {<<a, b>> : a, b \in Words} \cup {<<a, b>> : a, b \in Quads}
SizeOf(in) == in[1].size

ToByte(ops) == {Op(o, in, Reg(3, 1)) : o \in ops, in \in Same}
ToSame(ops) == {Op(o, in, Places[SizeOf(in)]) : o \in ops, in \in Same}

All ==
  ToByte(Comparisons \cup Carries)
    \cup ToSame({"INT_XOR", "INT_AND", "INT_OR", "INT_ADD", "INT_SUB", "INT_MULT"} \cup Shifts \cup Divisions)
    \cup {Op(o, <<Reg(0, n), Const(0, n)>>, Places[n]) : o \in Divisions, n \in {1, 2, 4}}
    \cup {Op(o, <<v>>, Places[v.size]) : o \in {"COPY", "INT_NEGATE", "INT_2COMP"}, v \in Bytes \cup Words \cup Quads}
    \cup {Op(o, <<Reg(a, 1), Reg(b, 1)>>, Reg(2, 1)) : o \in Booleans, a, b \in {0, 3}}
    \cup {Op("SUBPIECE", <<Reg(0, 4), Const(k, 1)>>, Reg(2, 2)) : k \in 0..2}
    \cup {Op(o, <<Reg(k, 1)>>, Reg(0, 4)) : o \in {"INT_ZEXT", "INT_SEXT"}, k \in {0, 3}}
    \cup {Op(o, <<Reg(k, 2)>>, Reg(0, 4)) : o \in {"INT_ZEXT", "INT_SEXT"}, k \in {0, 2}}
    \cup {Op("POPCOUNT", <<v>>, Places[v.size]) : v \in {Reg(0, 1), Reg(0, 2)}}
    \cup {Op(o, <<Reg(0, 1), Reg(0, 2)>>, Reg(2, 1)) : o \in Shifts}

\* What may follow: operations that find the result of the first among their
\* operands, and rewrite it.
Then ==
  {Op(o, <<Reg(3, 1), Reg(0, 1)>>, Reg(2, 1)) :
     o \in {"INT_SUB", "INT_ADD", "INT_XOR", "INT_AND", "INT_OR", "INT_MULT", "INT_SLESS", "BOOL_AND"}}
    \cup {Op(o, <<Reg(3, 1), Const(0, 1)>>, Reg(2, 1)) : o \in {"INT_EQUAL", "INT_NOTEQUAL"}}
    \cup {Op("INT_EQUAL", <<Reg(2, 2), Const(0, 2)>>, Reg(3, 1)),
          Op("INT_SUB", <<Reg(0, 2), Reg(2, 2)>>, Reg(0, 2)),
          Op("INT_SUB", <<Reg(3, 1), Reg(3, 1)>>, Reg(2, 1)),
          Op("INT_LEFT", <<Reg(2, 2), Const(1, 1)>>, Reg(2, 2)),
          Op("INT_SRIGHT", <<Reg(2, 2), Reg(0, 1)>>, Reg(2, 2)),
          Op("INT_SEXT", <<Reg(3, 1)>>, Reg(2, 2)),
          Op("SUBPIECE", <<Reg(0, 4), Const(1, 1)>>, Reg(2, 2)),
          Op("POPCOUNT", <<Reg(2, 2)>>, Reg(0, 2)),
          Op("BOOL_NEGATE", <<Reg(3, 1)>>, Reg(3, 1)),
          Op("INT_2COMP", <<Reg(2, 2)>>, Reg(0, 2)),
          Op("INT_SLESS", <<Reg(0, 4), Const(1, 4)>>, Reg(1, 1))}

MCMenu == <<All, Then>>
=============================================================================
