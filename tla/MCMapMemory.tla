----------------------------- MODULE MCMapMemory -----------------------------
(***************************************************************************)
(* Four addresses, one of them in the binary; a pointer that may be any-  *)
(* where, more often than MaxRead allows until the path branches; a value  *)
(* of two bytes, so that what is written at different addresses overlaps.  *)
(***************************************************************************)
EXTENDS MapMemory

MCInput == 0..3
MCImage == [a \in {2} |-> 1]
MCUnknown == [a \in 0..3 |-> [i \in MCInput |-> IF a = 0 THEN i \div 2 ELSE i % 2]]
MCPointer == {[i \in MCInput |-> i]}
MCValue == {<<[i \in MCInput |-> i % 2], [i \in MCInput |-> 1]>>}
MCConstraint == {{0, 1}}
=============================================================================
