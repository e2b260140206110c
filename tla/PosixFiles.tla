------------------------------ MODULE PosixFiles ------------------------------
(***************************************************************************)
(* What FileSystem promises each path: the files of a machine on which     *)
(* every file exists, is endless and holds the input in question, without  *)
(* File objects, sizes or bytes made up on demand.                         *)
(***************************************************************************)
EXTENDS Naturals, Sequences

CONSTANTS
  Path,     \* the symbolic states an execution may fork into
  Name,     \* file names
  Chunk,    \* what a program may write: sequences of bytes
  MaxFd,    \* bound of the descriptors
  MaxOff    \* the offsets looked at are below MaxOff

VARIABLES
  disk,     \* disk[p][n][o]: byte o of file n, for path p
  handles,  \* handles[p]: the open descriptors of path p
  said      \* what the last call returned

vars == <<disk, handles, said>>

Nothing == [none |-> 0]
Offset == 0..MaxOff - 1

\* Byte o of file n, as it was in the beginning.
Original(n, o) == <<n, o>>

Init == /\ disk = [p \in Path |-> [n \in Name |-> [o \in Offset |-> Original(n, o)]]]
        /\ handles \in [Path -> [0..2 -> [name: Name, off: {0}]]]
        /\ said = Nothing

\* The descriptor of an open file is one that was not in use.
Open(p, n) ==
  /\ \E fd \in 0..MaxFd \ DOMAIN handles[p] :
       /\ handles' = [handles EXCEPT ![p] =
            [d \in DOMAIN @ \cup {fd} |-> IF d = fd THEN [name |-> n, off |-> 0] ELSE @[d]]]
       /\ said' = [fd |-> fd]
  /\ UNCHANGED disk

Close(p, fd) ==
  /\ handles' = [handles EXCEPT ![p] = [d \in DOMAIN @ \ {fd} |-> @[d]]]
  /\ said' = Nothing
  /\ UNCHANGED disk

Seek(p, fd, off) ==
  /\ handles' = [handles EXCEPT ![p][fd].off = off]
  /\ said' = Nothing
  /\ UNCHANGED disk

Read(p, fd, len) ==
  LET h == handles[p][fd]
  IN /\ h.off + len <= MaxOff
     /\ said' = [bytes |-> [k \in 1..len |-> disk[p][h.name][h.off + k - 1]]]
     /\ handles' = [handles EXCEPT ![p][fd].off = @ + len]
     /\ UNCHANGED disk

Write(p, fd, data) ==
  LET h == handles[p][fd]
  IN /\ h.off + Len(data) <= MaxOff
     /\ disk' = [disk EXCEPT ![p][h.name] =
          [o \in Offset |-> IF o \in h.off..h.off + Len(data) - 1
                            THEN data[o - h.off + 1] ELSE @[o]]]
     /\ handles' = [handles EXCEPT ![p][fd].off = @ + Len(data)]
     /\ said' = Nothing

\* Path q becomes a copy of p, whatever it was before.
Fork(p, q) ==
  /\ disk' = [disk EXCEPT ![q] = disk[p]]
  /\ handles' = [handles EXCEPT ![q] = handles[p]]
  /\ said' = Nothing

\* The beginning of file n as p sees it.
Dump(p, n) ==
  /\ \E len \in 1..MaxOff : said' = [bytes |-> [k \in 1..len |-> disk[p][n][k - 1]]]
  /\ UNCHANGED <<disk, handles>>

Next ==
  \E p \in Path :
    \/ \E n \in Name : Open(p, n) \/ Dump(p, n)
    \/ \E fd \in DOMAIN handles[p] :
         \/ Close(p, fd)
         \/ \E off \in 0..MaxOff : Seek(p, fd, off)
         \/ \E len \in 1..MaxOff : Read(p, fd, len)
         \/ \E data \in Chunk : Write(p, fd, data)
    \/ \E q \in Path \ {p} : Fork(p, q)

Spec == Init /\ [][Next]_vars
=============================================================================
