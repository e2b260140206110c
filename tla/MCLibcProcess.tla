---------------------------- MODULE MCLibcProcess ----------------------------
(* Two paths over inputs of two symbolic bytes of arguments and two of      *)
(* standard input, with pointers of one byte.                               *)
EXTENDS LibcProcess

CONSTANTS p1, p2

MCAdmits == [any |-> {0, 33, 65}, print |-> {33, 65}, anum |-> {65}, nozero |-> {33, 65}]

SmallInputs == [arg: {<<0, 65>>, <<33, 0>>, <<33, 65>>},
                stdin: {<<0, 33>>, <<33, 0>>, <<33, 33>>}]

Fixed(bytes)  == [only |-> "fixed", bytes |-> bytes]
Symbolic(n, only) ==
  [only |-> only, bytes |-> [k \in 1..n |-> [i \in Input |-> i.arg[k]]]]

\* The vector is the smallest block.
LongArgs == {<<Fixed(<<Byte(97)>>), Symbolic(2, "nozero")>>, <<Symbolic(2, "any")>>}

\* Strings shorter than the vector.
ShortArgs == {<<Fixed(<<>>), Fixed(<<>>), Fixed(<<>>)>>}
==============================================================================
