------------------------------ MODULE FileSystem ------------------------------
(***************************************************************************)
(* state/FileSystem.cpp and state/File.cpp: the files of each symbolic     *)
(* state.  A file's bytes are made up when they are first read: byte o of  *)
(* file n is then the symbol "n+o", an input of the path.  A fork of the   *)
(* state clones its FileSystem, and with it every File object.             *)
(***************************************************************************)
EXTENDS Integers, FiniteSets, Sequences

CONSTANTS
  Path,      \* the symbolic states
  FirstPath, \* the one the execution starts with
  Name,      \* file names, the three standard ones included
  StdIn, StdOut, StdErr,
  Chunk,     \* what a program may write: sequences of bytes
  MaxOff,    \* bound of the offsets
  MaxFd,     \* bound of the descriptors
  MaxCalls   \* bound of the number of calls

ASSUME NameAssumption == {StdIn, StdOut, StdErr} \subseteq Name /\ FirstPath \in Path
\* What the program writes is told apart from what it reads.
ASSUME ChunkAssumption ==
  \A c \in Chunk : c \in Seq({c[k] : k \in DOMAIN c}) /\ c # <<>>
                  /\ \A k \in DOMAIN c : c[k] \notin Name \X (0..MaxOff)
ASSUME BoundAssumption == MaxOff \in Nat /\ MaxFd \in Nat /\ MaxCalls \in Nat

VARIABLES
  alive,         \* the states there are
  file,          \* the File objects, by identity
  m_files,       \* of each path: the File object of each name it has opened
  m_open_files,  \* of each path: its FileHandles
  m_free_fd,     \* of each path
  said,          \* what the last call returned
  input,         \* of each path: the input bytes that reads have returned
  failed,        \* exit_fail() has ended the engine
  calls          \* number of calls so far

fs   == <<file, m_files, m_open_files, m_free_fd>>
vars == <<alive, fs, said, input, failed, calls>>

Offset == 0..MaxOff
Symbol == Name \X Offset
Object == Path \X Name
Byte   == Symbol \cup UNION {{c[k] : k \in DOMAIN c} : c \in Chunk}
File   == [size: Offset, content: UNION {[D -> Byte] : D \in SUBSET Offset}]
Handle == [name: Name, off: Offset]

Nothing == [none |-> 0]
NoFile == [size |-> 0, content |-> <<>>]

Put(f, k, v) == [x \in DOMAIN f \cup {k} |-> IF x = k THEN v ELSE f[x]]
Larger(a, b) == IF a > b THEN a ELSE b

\* The file object a descriptor of p stands for.
Of(p, fd) == m_files[p][m_open_files[p][fd].name]

Call == ~failed /\ calls < MaxCalls /\ calls' = calls + 1
-----------------------------------------------------------------------------
\* The constructor of FileSystem opens the standard files.
Init ==
  /\ alive = {FirstPath}
  /\ file = [o \in Object |-> NoFile]
  /\ m_files = [p \in Path |->
                  [n \in {StdIn, StdOut, StdErr} |-> <<p, n>>]]
  /\ m_open_files = [p \in Path |->
                       [fd \in 0..2 |->
                          [name |-> <<StdIn, StdOut, StdErr>>[fd + 1], off |-> 0]]]
  /\ m_free_fd = [p \in Path |-> 3]
  /\ said = Nothing
  /\ input = [p \in Path |-> {}]
  /\ failed = FALSE
  /\ calls = 0

\* open: emplace keeps the handle that is there, if there is one.
Open(p, n) ==
  LET fd == m_free_fd[p]
  IN /\ Call /\ fd < MaxFd
     /\ m_files' = [m_files EXCEPT ![p] =
          IF n \in DOMAIN @ THEN @ ELSE Put(@, n, <<p, n>>)]
     /\ file' = IF n \in DOMAIN m_files[p] THEN file ELSE [file EXCEPT ![<<p, n>>] = NoFile]
     /\ m_open_files' = [m_open_files EXCEPT ![p] =
          IF fd \in DOMAIN @ THEN @ ELSE Put(@, fd, [name |-> n, off |-> 0])]
     /\ m_free_fd' = [m_free_fd EXCEPT ![p] = @ + 1]
     /\ said' = [fd |-> fd]
     /\ UNCHANGED <<alive, input, failed>>

\* Mutant: the next descriptor is the one just closed.
LowerAlways(p, fd) == m_free_fd' = [m_free_fd EXCEPT ![p] = fd]

\* The last descriptor given is the next one again.
Lower(p, fd) ==
  m_free_fd' = [m_free_fd EXCEPT ![p] = IF fd = @ - 1 THEN @ - 1 ELSE @]

Close(p, fd) ==
  /\ Call /\ fd \in DOMAIN m_open_files[p]
  /\ m_open_files' = [m_open_files EXCEPT ![p] = [d \in DOMAIN @ \ {fd} |-> @[d]]]
  /\ Lower(p, fd)
  /\ said' = Nothing
  /\ UNCHANGED <<alive, file, m_files, input, failed>>

\* seek enlarges the file.
Seek(p, fd, off) ==
  /\ Call /\ fd \in DOMAIN m_open_files[p]
  /\ m_open_files' = [m_open_files EXCEPT ![p][fd].off = off]
  /\ file' = [file EXCEPT ![Of(p, fd)].size = Larger(@, off)]
  /\ said' = Nothing
  /\ UNCHANGED <<alive, m_files, m_free_fd, input, failed>>

\* MapMemory::read_byte: what is stored, or the symbol of the place.
ByteAt(content, n, o) == IF o \in DOMAIN content THEN content[o] ELSE <<n, o>>

\* Mutant: the size stays.
FilledOnly(f, n, off, len) ==
  [f EXCEPT !.content = [o \in DOMAIN @ \cup off..off + len - 1 |-> ByteAt(@, n, o)]]

\* File::read stores the symbols it makes up, and the file grows to hold them.
Filled(f, n, off, len) ==
  [f EXCEPT !.content = [o \in DOMAIN @ \cup off..off + len - 1 |-> ByteAt(@, n, o)],
            !.size = Larger(@, off + len)]

Bytes(f, n, off, len) == [k \in 1..len |-> ByteAt(f.content, n, off + k - 1)]

Read(p, fd, len) ==
  /\ Call /\ fd \in DOMAIN m_open_files[p] /\ len > 0
  /\ LET h == m_open_files[p][fd]
         f == file[Of(p, fd)]
     IN /\ h.off + len <= MaxOff
        /\ file' = [file EXCEPT ![Of(p, fd)] = Filled(f, h.name, h.off, len)]
        /\ said' = [bytes |-> Bytes(f, h.name, h.off, len)]
        /\ input' = [input EXCEPT ![p] = @ \cup ({said'.bytes[k] : k \in 1..len} \cap Symbol)]
        /\ m_open_files' = [m_open_files EXCEPT ![p][fd].off = h.off + len]
  /\ UNCHANGED <<alive, m_files, m_free_fd, failed>>

\* File::write.
Written(f, off, data) ==
  LET end == off + Len(data)
  IN [size |-> Larger(f.size, end),
      content |-> [o \in DOMAIN f.content \cup off..end - 1 |->
                     IF o \in off..end - 1 THEN data[o - off + 1] ELSE f.content[o]]]

Write(p, fd, data) ==
  /\ Call /\ fd \in DOMAIN m_open_files[p]
  /\ LET off == m_open_files[p][fd].off
         end == off + Len(data)
     IN /\ end <= MaxOff
        /\ file' = [file EXCEPT ![Of(p, fd)] = Written(@, off, data)]
        /\ m_open_files' = [m_open_files EXCEPT ![p][fd].off = end]
  /\ said' = Nothing
  /\ UNCHANGED <<alive, m_files, m_free_fd, input, failed>>

\* exit_fail(): the descriptor is not open, or a read asks for no byte.
Fail(p, fd, len) ==
  /\ Call
  /\ fd \notin DOMAIN m_open_files[p] \/ len = 0
  /\ failed' = TRUE
  /\ UNCHANGED <<alive, fs, said, input>>

\* Mutant: the clone shares the File objects.
CopiesShared(p, q) == m_files[p]

\* Mutant: the files opened later are left out.
CopiesStandard(p, q) == [n \in {StdIn, StdOut, StdErr} |-> <<q, n>>]

\* FileSystem(const FileSystem&): q gets File objects of its own.
Copies(p, q) == [n \in DOMAIN m_files[p] |-> <<q, n>>]

\* State::clone.
Fork(p, q) ==
  /\ Call
  /\ alive' = alive \cup {q}
  /\ m_files' = [m_files EXCEPT ![q] = Copies(p, q)]
  /\ file' = [o \in Object |->
                IF o[1] = q /\ o[2] \in DOMAIN m_files[p] THEN file[m_files[p][o[2]]]
                ELSE file[o]]
  /\ m_open_files' = [m_open_files EXCEPT ![q] = m_open_files[p]]
  /\ m_free_fd' = [m_free_fd EXCEPT ![q] = m_free_fd[p]]
  /\ input' = [input EXCEPT ![q] = input[p]]
  /\ said' = Nothing
  /\ UNCHANGED failed

\* State::dump prints every file that is not empty: read_all.
Dump(p, n) ==
  /\ Call /\ n \in DOMAIN m_files[p]
  /\ LET f == file[m_files[p][n]]
     IN /\ f.size > 0
        /\ said' = [bytes |-> Bytes(f, n, 0, f.size)]
        /\ file' = [file EXCEPT ![m_files[p][n]] = Filled(f, n, 0, f.size)]
  /\ UNCHANGED <<alive, m_files, m_open_files, m_free_fd, input, failed>>

Done == (failed \/ calls = MaxCalls) /\ UNCHANGED vars

Next ==
  \/ \E p \in alive :
       \/ \E n \in Name : Open(p, n) \/ Dump(p, n)
       \/ \E fd \in 0..MaxFd :
            \/ Close(p, fd)
            \/ \E off \in Offset : Seek(p, fd, off) \/ Read(p, fd, off) \/ Fail(p, fd, off)
            \/ \E data \in Chunk : Write(p, fd, data)
       \/ \E q \in Path \ alive : Fork(p, q)
  \/ Done

Spec == Init /\ [][Next]_vars
-----------------------------------------------------------------------------
TypeOK ==
  /\ alive \subseteq Path
  /\ file \in [Object -> File]
  /\ \A p \in Path :
       /\ DOMAIN m_files[p] \subseteq Name
       /\ \A n \in DOMAIN m_files[p] : m_files[p][n] \in Object
       /\ DOMAIN m_open_files[p] \subseteq Nat
       /\ \A fd \in DOMAIN m_open_files[p] :
            m_open_files[p][fd] \in Handle /\ m_open_files[p][fd].name \in DOMAIN m_files[p]
  /\ m_free_fd \in [Path -> Nat]
  /\ input \in [Path -> SUBSET Symbol]
  /\ failed \in BOOLEAN /\ calls \in 0..MaxCalls

\* A descriptor that open is about to give is not open: it would keep the old file's
\* handle and give the program two names for it.  close may lower m_free_fd.
FreshDescriptor ==
  \A p \in Path : \A fd \in DOMAIN m_open_files[p] : fd < m_free_fd[p]

\* What dump prints for a file has every input byte the path has read, at its offset,
\* but for those the program wrote over: sizes grow with reads, of any handle of the
\* file and in any clone.
DumpShowsInput ==
  \A p \in Path : \A x \in input[p] :
    LET f == file[m_files[p][x[1]]]
    IN /\ x[2] < f.size
       /\ x[2] \in DOMAIN f.content
       /\ f.content[x[2]] \in Symbol => f.content[x[2]] = x

\* Byte o of file n, for path p.
DiskByte(p, n, o) ==
  IF n \in DOMAIN m_files[p] THEN ByteAt(file[m_files[p][n]].content, n, o) ELSE <<n, o>>
Disk == [p \in Path |-> [n \in Name |-> [o \in 0..MaxOff - 1 |-> DiskByte(p, n, o)]]]

\* Each path has files and offsets of its own, whose contents never depend on when a
\* byte was first read or through which handle.
Posix == INSTANCE PosixFiles WITH disk <- Disk, handles <- m_open_files
ImplementsPosix == Posix!Spec
=============================================================================
