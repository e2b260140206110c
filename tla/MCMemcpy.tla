------------------------------- MODULE MCMemcpy -------------------------------
(***************************************************************************)
(* Copies of two bytes in the memory of MCMapMemory.                       *)
(***************************************************************************)
EXTENDS LibcMemory

MCInput == 0..3
MCImage == [a \in {2} |-> 1]
MCUnknown == [a \in 0..3 |-> [i \in MCInput |-> IF a = 0 THEN i \div 2 ELSE i % 2]]
=============================================================================
