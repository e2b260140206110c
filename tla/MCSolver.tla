------------------------------ MODULE MCSolver ------------------------------
(***************************************************************************)
(* Three symbols of one bit: two that constraints link in several ways,    *)
(* and one that a constraint mentions without restricting it.              *)
(***************************************************************************)
EXTENDS Solver

MCSym  == {"x", "y", "d"}
MCBits == {0, 1}

Over(S, P(_)) == [syms |-> S, holds |-> {a \in [MCSym -> MCBits] : P(a)}]
Equal(a)     == a["x"] = a["y"]
Implies(a)   == a["x"] = 1 => a["d"] = 1
XSet(a)      == a["x"] = 1
YClear(a)    == a["y"] = 0
Anything(a)  == TRUE
Nothing(a)   == FALSE

MCConstraint == {Over({"x", "y"}, Equal), Over({"x", "d"}, Implies), Over({"x"}, XSet),
                 Over({"y"}, YClear), Over({"d"}, Anything), Over({}, Nothing)}

MCFolding == {{}, {Over({"d"}, Anything)}, MCConstraint}

Of(S, V(_)) == [syms |-> S, val |-> [a \in [MCSym -> MCBits] |-> V(a)]]
X(a)  == a["x"]
YD(a) == 2 * a["y"] + a["d"]

MCExpr == {Of({"x"}, X), Of({"y", "d"}, YD)}
=============================================================================
