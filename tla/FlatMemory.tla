------------------------------ MODULE FlatMemory ------------------------------
(***************************************************************************)
(* What MapMemory promises: for each input of a path, a plain memory with  *)
(* one byte at every address, read and written at the one address that the *)
(* pointer has for that input.                                             *)
(***************************************************************************)
EXTENDS Naturals, FiniteSets, Sequences

CONSTANTS
  Input,       \* the inputs
  Width,       \* addresses are 0..Width - 1, and wrap around
  Byte,        \* what a byte of memory can be
  Pointer,     \* pointers: what they are for each input
  Value,       \* what may be written: sequences of bytes, for each input
  MaxLen,      \* bound of the length of an access
  MaxRead      \* a path goes on with at most this many targets of one access

VARIABLES
  bytes,       \* bytes[i]: the memory for input i.  Its domain: the inputs left
  said,        \* what the last access read for each input
  timeouts     \* inputs may be lost to Z3's timeout

vars == <<bytes, said, timeouts>>

Address == 0..Width - 1
Left    == DOMAIN bytes

\* The place, from 0, of byte k (the most significant first) of a value.
Place(k, len, end) == IF end = "BIG" THEN k - 1 ELSE len - k

Loaded(m, a, len, end) == [k \in 1..len |-> m[(a + Place(k, len, end)) % Width]]

Stored(m, a, v, end) ==
  [x \in Address |->
     IF \E k \in DOMAIN v : x = (a + Place(k, Len(v), end)) % Width
     THEN v[CHOOSE k \in DOMAIN v : x = (a + Place(k, Len(v), end)) % Width]
     ELSE m[x]]

\* The inputs that go on: all of them, or those for which p is one of MaxRead
\* addresses; any, if Z3 gives up.
Kept(p) ==
  {Left} \cup (IF timeouts THEN SUBSET Left ELSE {})
    \cup {{i \in Left : p[i] \in A} :
            A \in {B \in SUBSET {p[i] : i \in Left} : Cardinality(B) = MaxRead}}

Init == /\ bytes \in [Input -> [Address -> Byte]]
        /\ timeouts \in BOOLEAN
        /\ said = <<>>

Load(p, len, end) ==
  \E S \in Kept(p) :
    /\ bytes' = [i \in S |-> bytes[i]]
    /\ said' = [i \in S |-> Loaded(bytes[i], p[i], len, end)]
    /\ UNCHANGED timeouts

Store(p, v, end) ==
  \E S \in Kept(p) :
    /\ bytes' = [i \in S |-> Stored(bytes[i], p[i], [k \in DOMAIN v |-> v[k][i]], end)]
    /\ said' = <<>>
    /\ UNCHANGED timeouts

\* A branch leaves some of the inputs.
Branch == \E S \in SUBSET Left : /\ bytes' = [i \in S |-> bytes[i]]
                                 /\ said' = <<>>
                                 /\ UNCHANGED timeouts

Next == \/ \E p \in Pointer, end \in {"BIG", "LITTLE"} :
             \/ \E len \in 1..MaxLen : Load(p, len, end)
             \/ \E v \in Value : Store(p, v, end)
        \/ Branch

Spec == Init /\ [][Next]_vars
=============================================================================
