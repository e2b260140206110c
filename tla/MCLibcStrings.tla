---------------------------- MODULE MCLibcStrings ----------------------------
(***************************************************************************)
(* Six bytes, four inputs.  The string at 0 has three possible ends in the *)
(* first memory, one more than MaxForks allows for, that at 1 two; there   *)
(* is a literal at 3 in the first memory, two symbolic strings in the      *)
(* other.                                                                  *)
(***************************************************************************)
EXTENDS LibcStrings

MCInput == 0..3
C(v)   == [i \in MCInput |-> v]
Low    == [i \in MCInput |-> i % 2]
High   == [i \in MCInput |-> i \div 2]

Bytes(q) == [a \in 0..5 |-> q[a + 1]]
MCMemory == {Bytes(<<Low, High, C(0), C(1), C(1), C(0)>>),
             Bytes(<<C(1), Low, C(0), C(1), High, C(0)>>)}

R(f, d, s, n) == [fn |-> f, dst |-> d, src |-> s, n |-> n]
MCRequest == {R("strlen", 0, a, 0) : a \in {0, 1, 3}}
               \cup {R("strcpy", d, s, 0) : d \in {3}, s \in {0, 1}}
               \cup {R("strncpy", d, s, n) : d \in {2}, s \in {0, 1}, n \in {0, 1, 2, 4, 6}}
               \cup {R("strcat", 3, s, 0) : s \in {1}}
               \cup {R(f, 0, s, 2) : f \in {"strcmp", "memcmp"}, s \in {2, 3}}
               \cup {R("memcmp", 0, 1, 0)}
=============================================================================
