--------------------------- MODULE FileSystem_proofs ---------------------------
(***************************************************************************)
(* Files and descriptors, for any number of paths, names, calls and forks: *)
(* open never gives a descriptor that is in use, whatever was opened and   *)
(* closed before; what a path has read is in the files that dump prints;   *)
(* and the file system implements PosixFiles, whose files are there, with  *)
(* all their bytes, from the beginning.                                    *)
(***************************************************************************)
EXTENDS FileSystem, TLAPS

\* What FreshDescriptor needs to be inductive: descriptors are numbers.
Descriptors ==
  /\ m_free_fd \in [Path -> Nat]
  /\ m_open_files = [p \in Path |-> m_open_files[p]]
  /\ \A p \in Path : DOMAIN m_open_files[p] \subseteq Nat

FInv == alive \subseteq Path /\ Descriptors /\ FreshDescriptor

LEMMA FInit == Init => FInv
<1>1. SUFFICES ASSUME Init PROVE FInv
  OBVIOUS
<1>2. /\ m_open_files = [p \in Path |->
           [fd \in 0..2 |-> [name |-> <<StdIn, StdOut, StdErr>>[fd + 1], off |-> 0]]]
      /\ m_free_fd = [p \in Path |-> 3]
  BY <1>1 DEF Init
<1>3. \A p \in Path : DOMAIN m_open_files[p] = 0..2 /\ m_free_fd[p] = 3
  BY <1>2
<1>4. Descriptors
  <2>1. m_free_fd \in [Path -> Nat]
    BY <1>2
  <2>2. m_open_files = [p \in Path |-> m_open_files[p]]
    BY <1>2
  <2>3. QED
    BY <1>3, <2>1, <2>2 DEF Descriptors
<1>5. FreshDescriptor
  BY <1>3 DEF FreshDescriptor
<1>6. alive \subseteq Path
  BY <1>1, NameAssumption DEF Init
<1>7. QED
  BY <1>4, <1>5, <1>6 DEF FInv

\* Each call changes the descriptors of one path p: its new ones are below its new
\* m_free_fd.
LEMMA FStep ==
  ASSUME FInv, NEW p \in Path, NEW g \in Nat, NEW H,
         alive' \subseteq Path,
         m_free_fd' = [m_free_fd EXCEPT ![p] = g],
         m_open_files' = [m_open_files EXCEPT ![p] = H],
         \A fd \in DOMAIN H : fd \in Nat /\ fd < g
  PROVE  FInv'
<1>1. /\ m_free_fd'[p] = g
      /\ \A q \in Path \ {p} : m_free_fd'[q] = m_free_fd[q]
  BY DEF FInv, Descriptors
<1>2. /\ m_open_files'[p] = H
      /\ \A q \in Path \ {p} : m_open_files'[q] = m_open_files[q]
  BY DEF FInv, Descriptors
<1>3. m_free_fd' \in [Path -> Nat]
  BY DEF FInv, Descriptors
<1>4. m_open_files' = [q \in Path |-> m_open_files'[q]]
  BY DEF FInv, Descriptors
<1>5. \A q \in Path : \A fd \in DOMAIN m_open_files'[q] : fd \in Nat /\ fd < m_free_fd'[q]
  BY <1>1, <1>2 DEF FInv, Descriptors, FreshDescriptor
<1>6. QED
  BY <1>3, <1>4, <1>5 DEF FInv, Descriptors, FreshDescriptor

LEMMA FNext == FInv /\ [Next]_vars => FInv'
<1> SUFFICES ASSUME FInv, [Next]_vars PROVE FInv'
  OBVIOUS
<1> USE DEF FInv
<1>a. ASSUME UNCHANGED <<alive, m_free_fd, m_open_files>> PROVE FInv'
  BY <1>a DEF Descriptors, FreshDescriptor
<1>b. \A p \in Path : \A fd \in DOMAIN m_open_files[p] : fd \in Nat /\ fd < m_free_fd[p]
  BY DEF Descriptors, FreshDescriptor
<1>c. \A p \in Path : m_free_fd[p] \in Nat
  BY DEF Descriptors
\* A call that moves a handle leaves the set of descriptors as it is.
<1>d. ASSUME NEW p \in Path, NEW fd, NEW off, alive' = alive, m_free_fd' = m_free_fd,
             m_open_files' = [m_open_files EXCEPT ![p][fd].off = off]
      PROVE  FInv'
  <2> DEFINE H == [m_open_files[p] EXCEPT ![fd].off = off]
  <2>1. m_open_files' = [m_open_files EXCEPT ![p] = H]
    BY <1>d
  <2>2. m_free_fd' = [m_free_fd EXCEPT ![p] = m_free_fd[p]]
    BY <1>d DEF Descriptors
  <2>3. DOMAIN H = DOMAIN m_open_files[p]
    OBVIOUS
  <2>4. \A d \in DOMAIN H : d \in Nat /\ d < m_free_fd[p]
    BY <1>b, <2>3
  <2> HIDE DEF H
  <2>5. QED
    BY <1>c, <1>d, <2>1, <2>2, <2>4, FStep
<1>1. CASE UNCHANGED vars
  BY <1>1, <1>a DEF vars, fs
<1>2. CASE Done
  BY <1>2, <1>a DEF Done, vars, fs
<1>3. ASSUME NEW p \in Path, NEW n \in Name, Open(p, n) PROVE FInv'
  <2> DEFINE fd == m_free_fd[p]
             H == IF fd \in DOMAIN m_open_files[p] THEN m_open_files[p]
                  ELSE Put(m_open_files[p], fd, [name |-> n, off |-> 0])
  <2>1. m_open_files' = [m_open_files EXCEPT ![p] = H]
    BY <1>3 DEF Open
  <2>2. m_free_fd' = [m_free_fd EXCEPT ![p] = fd + 1]
    BY <1>3 DEF Open
  <2>3. DOMAIN H = DOMAIN m_open_files[p] \cup {fd}
    BY DEF Put
  <2>4. \A d \in DOMAIN H : d \in Nat /\ d < fd + 1
    BY <1>b, <1>c, <2>3
  <2>5. fd + 1 \in Nat
    BY <1>c
  <2>6. alive' = alive
    BY <1>3 DEF Open
  <2> HIDE DEF H, fd
  <2>7. QED
    BY <2>1, <2>2, <2>4, <2>5, <2>6, FStep
<1>4. ASSUME NEW p \in Path, NEW fd, Close(p, fd) PROVE FInv'
  <2> DEFINE H == [d \in DOMAIN m_open_files[p] \ {fd} |-> m_open_files[p][d]]
             g == IF fd = m_free_fd[p] - 1 THEN m_free_fd[p] - 1 ELSE m_free_fd[p]
  <2>1. m_open_files' = [m_open_files EXCEPT ![p] = H]
    BY <1>4 DEF Close
  <2>2. m_free_fd' = [m_free_fd EXCEPT ![p] = g]
    BY <1>4 DEF Close, Lower
  <2>3. fd \in Nat /\ fd < m_free_fd[p]
    BY <1>4, <1>b DEF Close
  <2>4. g \in Nat
    BY <1>c, <2>3
  <2>5. \A d \in DOMAIN H : d \in Nat /\ d < g
    BY <1>b, <1>c, <2>3
  <2>6. alive' = alive
    BY <1>4 DEF Close
  <2> HIDE DEF H, g
  <2>7. QED
    BY <2>1, <2>2, <2>4, <2>5, <2>6, FStep
<1>5. ASSUME NEW p \in Path, NEW fd, NEW off, Seek(p, fd, off) PROVE FInv'
  BY <1>5, <1>d DEF Seek
<1>6. ASSUME NEW p \in Path, NEW fd, NEW len, Read(p, fd, len) PROVE FInv'
  <2> DEFINE off == m_open_files[p][fd].off + len
  <2>1. m_open_files' = [m_open_files EXCEPT ![p][fd].off = off]
    BY <1>6 DEF Read
  <2>2. m_free_fd' = m_free_fd
    BY <1>6 DEF Read
  <2>3. alive' = alive
    BY <1>6 DEF Read
  <2> HIDE DEF off
  <2>4. QED
    BY <1>d, <2>1, <2>2, <2>3
<1>7. ASSUME NEW p \in Path, NEW fd, NEW data, Write(p, fd, data) PROVE FInv'
  <2> DEFINE off == m_open_files[p][fd].off + Len(data)
  <2>1. m_open_files' = [m_open_files EXCEPT ![p][fd].off = off]
    BY <1>7 DEF Write
  <2>2. m_free_fd' = m_free_fd
    BY <1>7 DEF Write
  <2>3. alive' = alive
    BY <1>7 DEF Write
  <2> HIDE DEF off
  <2>4. QED
    BY <1>d, <2>1, <2>2, <2>3
<1>8. ASSUME NEW p \in Path, NEW fd, NEW len, Fail(p, fd, len) PROVE FInv'
  BY <1>8, <1>a DEF Fail, fs
<1>9. ASSUME NEW p \in Path, NEW n, Dump(p, n) PROVE FInv'
  BY <1>9, <1>a DEF Dump
<1>10. ASSUME NEW p \in Path, NEW q \in Path, Fork(p, q) PROVE FInv'
  <2>1. /\ m_open_files' = [m_open_files EXCEPT ![q] = m_open_files[p]]
        /\ m_free_fd' = [m_free_fd EXCEPT ![q] = m_free_fd[p]]
    BY <1>10 DEF Fork
  <2>2. alive' \subseteq Path
    BY <1>10 DEF Fork
  <2>3. QED
    BY <1>b, <1>c, <2>1, <2>2, FStep
<1>11. QED
  BY <1>1, <1>2, <1>3, <1>4, <1>5, <1>6, <1>7, <1>8, <1>9,
     <1>10 DEF Next

\* FileSystem::open (FileSystem.cpp:32-40) never gives out a descriptor that is still
\* open, although close (42-52) lowers the counter it takes them from: m_free_fd is
\* above every open descriptor of the path, in every fork.
THEOREM FreshDescriptors == Spec => []FreshDescriptor
<1>1. FInv => FreshDescriptor
  BY DEF FInv
<1>2. QED
  BY FInit, FNext, <1>1, PTL DEF Spec

-----------------------------------------------------------------------------
(***************************************************************************)
(* The contents of the files.  The inductive invariant says whose File     *)
(* objects the paths have, which symbols are in them, and that they hold   *)
(* what has been read.                                                     *)
(***************************************************************************)
\* m_files and m_open_files are maps.
PartialMap(K, V) == UNION {[D -> V] : D \in SUBSET K}
Maps ==
  /\ m_files \in [Path -> PartialMap(Name, Object)]
  /\ m_open_files \in [Path -> PartialMap(Nat, Handle)]

\* No two paths, and no two names, share a File object.
OwnFiles == \A p \in Path : \A n \in DOMAIN m_files[p] : m_files[p][n] = <<p, n>>

\* A symbol in a file is the one of its place.
SymbolsInPlace(f, n) == \A o \in DOMAIN f.content : f.content[o] \in Symbol => f.content[o] = <<n, o>>
OwnSymbols == \A p \in Path, n \in Name : SymbolsInPlace(file[<<p, n>>], n)

\* File f has the input byte of offset o.
Has(f, o) == o < f.size /\ o \in DOMAIN f.content
InputKept == \A p \in Path : \A x \in input[p] :
               x[1] \in DOMAIN m_files[p] /\ Has(file[<<p, x[1]>>], x[2])

FilesInv == TypeOK /\ Maps /\ OwnFiles /\ OwnSymbols /\ InputKept

LEMMA FilesTypes ==
  ASSUME FilesInv
  PROVE  /\ MaxOff \in Nat
         /\ \A p \in Path, n \in Name : <<p, n>> \in Object /\ file[<<p, n>>] \in File
         /\ \A p \in Path : \A n \in DOMAIN m_files[p] : n \in Name
         /\ \A p \in Path : \A fd \in DOMAIN m_open_files[p] :
              /\ m_open_files[p][fd] \in Handle
              /\ m_open_files[p][fd].name \in DOMAIN m_files[p]
              /\ Of(p, fd) = <<p, m_open_files[p][fd].name>>
BY BoundAssumption DEF FilesInv, TypeOK, Object, OwnFiles, Of

LEMMA FileType ==
  ASSUME NEW f \in File
  PROVE  /\ f.size \in Offset /\ DOMAIN f.content \subseteq Offset
         /\ \A o \in DOMAIN f.content : f.content[o] \in Byte
BY DEF File

LEMMA FileFrom ==
  ASSUME NEW size \in Offset, NEW D \in SUBSET Offset, NEW c \in [D -> Byte]
  PROVE  [size |-> size, content |-> c] \in File
BY DEF File

\* Moving a handle of p, or not.
Moved(p) == \/ m_open_files' = m_open_files
            \/ \E fd \in DOMAIN m_open_files[p], off \in Offset :
                 m_open_files' = [m_open_files EXCEPT ![p][fd].off = off]

LEMMA MovedHandles ==
  ASSUME FilesInv, NEW p \in Path, Moved(p)
  PROVE  /\ m_open_files' \in [Path -> PartialMap(Nat, Handle)]
         /\ \A q \in Path : DOMAIN m_open_files'[q] = DOMAIN m_open_files[q]
         /\ \A q \in Path : \A fd \in DOMAIN m_open_files[q] :
              /\ m_open_files'[q][fd] \in Handle
              /\ m_open_files'[q][fd].name = m_open_files[q][fd].name
<1>0. m_open_files \in [Path -> PartialMap(Nat, Handle)]
  BY DEF FilesInv, Maps
<1>1. CASE m_open_files' = m_open_files
  BY <1>0, <1>1, FilesTypes
<1>2. CASE \E fd \in DOMAIN m_open_files[p], off \in Offset :
             m_open_files' = [m_open_files EXCEPT ![p][fd].off = off]
  <2>1. PICK fd \in DOMAIN m_open_files[p], off \in Offset :
          m_open_files' = [m_open_files EXCEPT ![p][fd].off = off]
    BY <1>2
  <2> DEFINE D == DOMAIN m_open_files[p]
             h == [m_open_files[p][fd] EXCEPT !.off = off]
             H == [m_open_files[p] EXCEPT ![fd] = h]
  <2>2. D \in SUBSET Nat /\ m_open_files[p] \in [D -> Handle]
    <3>1. m_open_files[p] \in PartialMap(Nat, Handle)
      BY <1>0
    <3>2. PICK E \in SUBSET Nat : m_open_files[p] \in [E -> Handle]
      BY <3>1 DEF PartialMap
    <3> QED BY <3>2
  <2>3. h \in Handle /\ h.name = m_open_files[p][fd].name
    BY <2>2 DEF Handle
  <2> HIDE DEF h
  <2>4. H \in [D -> Handle] /\ H[fd] = h /\ \A d \in D : d # fd => H[d] = m_open_files[p][d]
    BY <2>2, <2>3
  <2>5. m_open_files' = [m_open_files EXCEPT ![p] = H]
    BY <2>1 DEF h
  <2> HIDE DEF H, D
  <2>6. m_open_files'[p] = H /\ \A q \in Path : q # p => m_open_files'[q] = m_open_files[q]
    BY <1>0, <2>5
  <2>7. m_open_files' \in [Path -> PartialMap(Nat, Handle)]
    <3>1. H \in PartialMap(Nat, Handle)
      BY <2>2, <2>4 DEF PartialMap
    <3> QED BY <1>0, <2>5, <3>1
  <2>8. \A q \in Path : DOMAIN m_open_files'[q] = DOMAIN m_open_files[q]
    BY <2>4, <2>6 DEF D
  <2>9. ASSUME NEW q \in Path, NEW d \in DOMAIN m_open_files[q]
        PROVE  /\ m_open_files'[q][d] \in Handle
               /\ m_open_files'[q][d].name = m_open_files[q][d].name
    BY <2>3, <2>4, <2>6, FilesTypes DEF D
  <2> QED BY <2>7, <2>8, <2>9
<1> QED BY <1>1, <1>2 DEF Moved

LEMMA CallCounts == FilesInv /\ Call => calls' \in 0..MaxCalls
BY BoundAssumption DEF Call, FilesInv, TypeOK

\* A call that makes g of one file of p: the file grows, keeps what it had a byte of,
\* and has the bytes that were read from it.
Grows(p, n, g) ==
  /\ g \in File /\ SymbolsInPlace(g, n)
  /\ file' = [file EXCEPT ![<<p, n>>] = g]
  /\ file[<<p, n>>].size <= g.size
  /\ DOMAIN file[<<p, n>>].content \subseteq DOMAIN g.content
  /\ input' \in [Path -> SUBSET Symbol]
  /\ \A q \in Path : \A x \in input'[q] :
       x \in input[q] \/ (q = p /\ x[1] = n /\ Has(g, x[2]))
  /\ UNCHANGED <<alive, m_files, m_free_fd, failed>>

LEMMA FileUpdate ==
  ASSUME FilesInv, NEW p \in Path, NEW n \in DOMAIN m_files[p], NEW g,
         Call, Moved(p), Grows(p, n, g)
  PROVE  FilesInv'
<1> USE DEF Grows
<1>1. /\ file'[<<p, n>>] = g /\ n \in Name
      /\ \A q \in Path, m \in Name : <<q, m>> # <<p, n>> => file'[<<q, m>>] = file[<<q, m>>]
      /\ file' \in [Object -> File]
  BY FilesTypes DEF FilesInv, TypeOK
<1>2. TypeOK'
  BY <1>1, CallCounts, MovedHandles, FilesTypes DEF FilesInv, TypeOK
<1>3. Maps' /\ OwnFiles'
  BY MovedHandles DEF FilesInv, Maps, OwnFiles
<1>4. OwnSymbols'
  <2> SUFFICES ASSUME NEW q \in Path, NEW m \in Name
               PROVE  SymbolsInPlace(file'[<<q, m>>], m)
    BY DEF OwnSymbols
  <2>1. CASE <<q, m>> = <<p, n>>
    BY <1>1, <2>1
  <2>2. CASE <<q, m>> # <<p, n>>
    BY <1>1, <2>2 DEF FilesInv, OwnSymbols
  <2> QED BY <2>1, <2>2
<1>5. InputKept'
  <2> SUFFICES ASSUME NEW q \in Path, NEW x \in input'[q]
               PROVE  x[1] \in DOMAIN m_files[q] /\ Has(file'[<<q, x[1]>>], x[2])
    BY DEF InputKept
  <2>1. CASE x \in input[q]
    <3>1. x[1] \in DOMAIN m_files[q] /\ x[1] \in Name /\ Has(file[<<q, x[1]>>], x[2])
      BY <2>1, FilesTypes DEF FilesInv, InputKept
    <3>2. CASE <<q, x[1]>> = <<p, n>>
      <4>1. x[2] < file[<<p, n>>].size /\ x[2] \in DOMAIN g.content
        BY <3>1, <3>2 DEF Has
      <4>2. /\ file[<<p, n>>].size \in Nat /\ g.size \in Nat
            /\ x[2] \in Nat
        BY <1>1, <4>1, FilesTypes, FileType DEF Offset
      <4> QED BY <1>1, <3>1, <3>2, <4>1, <4>2 DEF Has
    <3>3. CASE <<q, x[1]>> # <<p, n>>
      BY <1>1, <3>1, <3>3
    <3> QED BY <3>1, <3>2, <3>3
  <2>2. CASE q = p /\ x[1] = n /\ Has(g, x[2])
    BY <1>1, <2>2
  <2> QED BY <2>1, <2>2
<1> QED BY <1>2, <1>3, <1>4, <1>5 DEF FilesInv

\* Reading, by read or by dump: the file keeps the bytes it had and the new ones are
\* the symbols of their places.
LEMMA FilledFile ==
  ASSUME NEW f \in File, NEW n \in Name, SymbolsInPlace(f, n),
         NEW off \in Nat, NEW len \in Nat, off + len <= MaxOff
  PROVE  LET g == Filled(f, n, off, len)
         IN /\ g \in File /\ SymbolsInPlace(g, n)
            /\ f.size <= g.size /\ off + len <= g.size
            /\ DOMAIN g.content = DOMAIN f.content \cup off..off + len - 1
            /\ \A o \in Offset : ByteAt(g.content, n, o) = ByteAt(f.content, n, o)
<1> DEFINE D == DOMAIN f.content \cup off..off + len - 1
           c == [o \in D |-> ByteAt(f.content, n, o)]
           size == Larger(f.size, off + len)
           g == Filled(f, n, off, len)
<1>0. MaxOff \in Nat
  BY BoundAssumption
<1>1. f.size \in Offset /\ DOMAIN f.content \subseteq Offset
      /\ \A o \in DOMAIN f.content : f.content[o] \in Byte
  BY FileType
<1>2. D \subseteq Offset
  BY <1>0, <1>1 DEF Offset
<1>3. c \in [D -> Byte]
  BY <1>1, <1>2 DEF ByteAt, Byte, Symbol
<1>4. size \in Offset /\ f.size <= size /\ off + len <= size
  BY <1>0, <1>1 DEF Offset, Larger
<1>5. g = [size |-> size, content |-> c]
  <2>1. g = [f EXCEPT !.content = c, !.size = size]
    BY DEF Filled
  <2> HIDE DEF D, c, size, g
  <2> QED BY <2>1 DEF File
<1> HIDE DEF D, c, size, g
<1>6. g \in File /\ g.size = size /\ g.content = c
  BY <1>2, <1>3, <1>4, <1>5, FileFrom
<1>7. \A o \in D : c[o] = ByteAt(f.content, n, o)
  BY DEF c
<1>8. DOMAIN c = D /\ DOMAIN f.content \subseteq D
  BY DEF c, D
<1>9. \A o \in Offset : ByteAt(c, n, o) = ByteAt(f.content, n, o)
  BY <1>7, <1>8 DEF ByteAt
<1>10. SymbolsInPlace(g, n)
  BY <1>6, <1>7, <1>8 DEF SymbolsInPlace, ByteAt
<1> QED BY <1>4, <1>6, <1>8, <1>9, <1>10 DEF D, g

LEMMA SeekFiles ==
  ASSUME FilesInv, NEW p \in Path, NEW fd \in Nat, NEW off \in Offset, Seek(p, fd, off)
  PROVE  FilesInv'
<1> DEFINE n == m_open_files[p][fd].name
           f == file[<<p, n>>]
           g == [f EXCEPT !.size = Larger(@, off)]
<1>1. fd \in DOMAIN m_open_files[p] /\ n \in DOMAIN m_files[p] /\ Of(p, fd) = <<p, n>>
      /\ f \in File
  BY FilesTypes DEF Seek
<1>2. file' = [file EXCEPT ![<<p, n>>] = g]
  BY <1>1 DEF Seek
<1>3. g \in File /\ f.size <= g.size /\ g.content = f.content
  <2>1. f.size \in Offset /\ MaxOff \in Nat
    BY <1>1, FileType, BoundAssumption
  <2>2. Larger(f.size, off) \in Offset /\ f.size <= Larger(f.size, off)
    BY <2>1 DEF Larger, Offset
  <2> HIDE DEF f
  <2> QED BY <1>1, <2>2 DEF File
<1>4. SymbolsInPlace(g, n)
  <2>1. n \in Name
    BY <1>1, FilesTypes
  <2>2. SymbolsInPlace(f, n)
    BY <2>1 DEF FilesInv, OwnSymbols
  <2> HIDE DEF f, g, n
  <2> QED BY <1>3, <2>2 DEF SymbolsInPlace
<1>5. Moved(p)
  BY <1>1 DEF Seek, Moved
<1>6. UNCHANGED <<alive, m_files, m_free_fd, failed, input>> /\ Call
  BY DEF Seek
<1>7. input' \in [Path -> SUBSET Symbol] /\ \A q \in Path : \A x \in input'[q] : x \in input[q]
  BY <1>6 DEF FilesInv, TypeOK
<1> HIDE DEF n, f, g
<1>8. file[<<p, n>>].size <= g.size /\ DOMAIN file[<<p, n>>].content \subseteq DOMAIN g.content
  BY <1>3 DEF f
<1>9. \A q \in Path : \A x \in input'[q] : x \in input[q] \/ (q = p /\ x[1] = n /\ Has(g, x[2]))
  BY <1>7
<1>10. Grows(p, n, g)
  BY <1>2, <1>3, <1>4, <1>6, <1>7, <1>8, <1>9 DEF Grows
<1> QED BY <1>1, <1>5, <1>6, <1>10, FileUpdate

\* The bytes of a read that are symbols lie in the range that has been read.
LEMMA BytesRead ==
  ASSUME NEW f \in File, NEW n \in Name, SymbolsInPlace(f, n),
         NEW off \in Nat, NEW len \in Nat, off + len <= MaxOff,
         NEW x \in {Bytes(f, n, off, len)[k] : k \in 1..len} \cap Symbol
  PROVE  x[1] = n /\ Has(Filled(f, n, off, len), x[2])
<1> DEFINE g == Filled(f, n, off, len)
<1>1. PICK k \in 1..len : x = ByteAt(f.content, n, off + k - 1)
  BY DEF Bytes
<1> DEFINE o == off + k - 1
<1>2. o \in off..off + len - 1 /\ o < off + len
  OBVIOUS
<1>3. x = <<n, o>>
  BY <1>1 DEF ByteAt, SymbolsInPlace
<1>4. off + len <= g.size /\ o \in DOMAIN g.content
  BY <1>2, FilledFile
<1>5. g.size \in Nat
  <2>1. g \in File
    BY FilledFile
  <2> QED BY <2>1, FileType, BoundAssumption DEF Offset
<1> HIDE DEF g
<1>6. Has(g, o)
  BY <1>2, <1>4, <1>5 DEF Has
<1> QED BY <1>3, <1>6 DEF g

LEMMA ReadFiles ==
  ASSUME FilesInv, NEW p \in Path, NEW fd \in Nat, NEW len \in Offset, Read(p, fd, len)
  PROVE  FilesInv'
<1> DEFINE h == m_open_files[p][fd]
           n == h.name
           f == file[<<p, n>>]
           g == Filled(f, n, h.off, len)
           read == {said'.bytes[k] : k \in 1..len} \cap Symbol
<1>1. /\ fd \in DOMAIN m_open_files[p] /\ n \in DOMAIN m_files[p] /\ n \in Name
      /\ Of(p, fd) = <<p, n>> /\ f \in File /\ h \in Handle
  BY FilesTypes DEF Read
<1>2. /\ h.off + len <= MaxOff /\ Call
      /\ file' = [file EXCEPT ![<<p, n>>] = g]
      /\ said' = [bytes |-> Bytes(f, n, h.off, len)]
      /\ input' = [input EXCEPT ![p] = @ \cup read]
      /\ m_open_files' = [m_open_files EXCEPT ![p][fd].off = h.off + len]
      /\ UNCHANGED <<alive, m_files, m_free_fd, failed>>
  BY <1>1 DEF Read
<1>3. h.off \in Nat /\ len \in Nat /\ h.off + len \in Offset
  <2>1. h.off \in Offset
    BY <1>1 DEF Handle
  <2>2. h.off + len <= MaxOff
    BY <1>2
  <2> HIDE DEF h
  <2> QED BY <2>1, <2>2, BoundAssumption DEF Offset
<1>4. SymbolsInPlace(f, n)
  BY <1>1 DEF FilesInv, OwnSymbols
<1>5. Moved(p)
  BY <1>1, <1>2, <1>3 DEF Moved
<1>6. \A x \in read : x[1] = n /\ Has(g, x[2])
  <2>1. read = {Bytes(f, n, h.off, len)[k] : k \in 1..len} \cap Symbol
    BY <1>2
  <2> HIDE DEF read, g, f, n, h
  <2>2. ASSUME NEW x \in {Bytes(f, n, h.off, len)[k] : k \in 1..len} \cap Symbol
        PROVE  x[1] = n /\ Has(Filled(f, n, h.off, len), x[2])
    BY <1>1, <1>2, <1>3, <1>4, <2>2, BytesRead
  <2> QED BY <2>1, <2>2 DEF g
<1>7. /\ g \in File /\ SymbolsInPlace(g, n) /\ f.size <= g.size
      /\ DOMAIN f.content \subseteq DOMAIN g.content
  <2> HIDE DEF f, n, h
  <2> QED BY <1>1, <1>2, <1>3, <1>4, FilledFile
<1>8. read \subseteq Symbol
  OBVIOUS
<1> HIDE DEF read, g, n, h
<1>9. input' \in [Path -> SUBSET Symbol]
      /\ \A q \in Path : \A x \in input'[q] : x \in input[q] \/ (q = p /\ x \in read)
  BY <1>2, <1>8 DEF FilesInv, TypeOK
<1>10. \A q \in Path : \A x \in input'[q] : x \in input[q] \/ (q = p /\ x[1] = n /\ Has(g, x[2]))
  BY <1>6, <1>9
<1>11. Grows(p, n, g)
  BY <1>2, <1>7, <1>9, <1>10 DEF Grows
<1> QED BY <1>1, <1>2, <1>5, <1>11, FileUpdate

LEMMA DumpFiles ==
  ASSUME FilesInv, NEW p \in Path, NEW n \in Name, Dump(p, n)
  PROVE  FilesInv'
<1> DEFINE f == file[<<p, n>>]
           g == Filled(f, n, 0, f.size)
<1>1. n \in DOMAIN m_files[p] /\ m_files[p][n] = <<p, n>> /\ f \in File /\ SymbolsInPlace(f, n)
  BY FilesTypes DEF Dump, FilesInv, OwnFiles, OwnSymbols
<1>2. /\ Call /\ file' = [file EXCEPT ![<<p, n>>] = g]
      /\ UNCHANGED <<alive, m_files, m_open_files, m_free_fd, input, failed>>
  BY <1>1 DEF Dump
<1>3. f.size \in Nat /\ 0 + f.size <= MaxOff
  BY <1>1, FileType, BoundAssumption DEF Offset
<1>4. /\ g \in File /\ SymbolsInPlace(g, n) /\ f.size <= g.size
      /\ DOMAIN f.content \subseteq DOMAIN g.content
  <2> HIDE DEF f
  <2> QED BY <1>1, <1>3, FilledFile
<1>5. input' \in [Path -> SUBSET Symbol] /\ \A q \in Path : \A x \in input'[q] : x \in input[q]
  BY <1>2 DEF FilesInv, TypeOK
<1> HIDE DEF g
<1>6. \A q \in Path : \A x \in input'[q] : x \in input[q] \/ (q = p /\ x[1] = n /\ Has(g, x[2]))
  BY <1>5
<1>7. Grows(p, n, g)
  BY <1>2, <1>4, <1>5, <1>6 DEF Grows
<1>8. Moved(p)
  BY <1>2 DEF Moved
<1> QED BY <1>1, <1>2, <1>7, <1>8, FileUpdate

\* The bytes the program writes are not symbols of a file.
LEMMA WrittenBytes ==
  ASSUME NEW data \in Chunk
  PROVE  /\ Len(data) \in Nat /\ Len(data) > 0
         /\ \A k \in 1..Len(data) : data[k] \in Byte /\ data[k] \notin Symbol
<1>1. /\ data \in Seq({data[k] : k \in DOMAIN data}) /\ data # <<>>
      /\ \A k \in DOMAIN data : data[k] \notin Symbol
  BY ChunkAssumption DEF Symbol, Offset
<1>2. Len(data) \in Nat /\ DOMAIN data = 1..Len(data) /\ Len(data) > 0
  BY <1>1
<1>3. ASSUME NEW k \in DOMAIN data PROVE data[k] \in Byte
  BY DEF Byte
<1> QED BY <1>1, <1>2, <1>3

LEMMA WrittenFile ==
  ASSUME NEW f \in File, NEW n \in Name, SymbolsInPlace(f, n),
         NEW off \in Nat, NEW data \in Chunk, off + Len(data) <= MaxOff
  PROVE  LET g == Written(f, off, data)
         IN /\ g \in File /\ SymbolsInPlace(g, n) /\ f.size <= g.size
            /\ DOMAIN f.content \subseteq DOMAIN g.content
            /\ \A o \in Offset : ByteAt(g.content, n, o) =
                 IF o \in off..off + Len(data) - 1 THEN data[o - off + 1]
                 ELSE ByteAt(f.content, n, o)
<1> DEFINE R == off..off + Len(data) - 1
           D == DOMAIN f.content \cup R
           c == [o \in D |-> IF o \in R THEN data[o - off + 1] ELSE f.content[o]]
           size == Larger(f.size, off + Len(data))
           g == Written(f, off, data)
<1>1. /\ Len(data) \in Nat
      /\ \A k \in 1..Len(data) : data[k] \in Byte /\ data[k] \notin Symbol
  BY WrittenBytes
<1>2. /\ f.size \in Offset /\ DOMAIN f.content \subseteq Offset /\ MaxOff \in Nat
      /\ \A o \in DOMAIN f.content : f.content[o] \in Byte
  BY FileType, BoundAssumption
<1>3. \A o \in R : o \in Offset /\ o - off + 1 \in 1..Len(data)
  BY <1>1, <1>2 DEF Offset
<1>4. size \in Offset /\ f.size <= size
  BY <1>1, <1>2 DEF Offset, Larger
<1>5. D \in SUBSET Offset
  BY <1>2, <1>3
<1>6. \A o \in R : data[o - off + 1] \in Byte /\ data[o - off + 1] \notin Symbol
  BY <1>1, <1>3
<1>7. g = [size |-> size, content |-> c]
  BY DEF Written
<1> HIDE DEF R
<1>8. c \in [D -> Byte]
  BY <1>2, <1>6
<1>9. \A o \in D : c[o] = IF o \in R THEN data[o - off + 1] ELSE f.content[o]
  OBVIOUS
<1> HIDE DEF size, g, c
<1>10. DOMAIN f.content \subseteq D /\ R \subseteq D /\ D = DOMAIN f.content \cup R
  OBVIOUS
<1> HIDE DEF D
<1>11. g \in File /\ g.size = size /\ g.content = c /\ DOMAIN c = D
  BY <1>4, <1>5, <1>7, <1>8, FileFrom
<1>12. SymbolsInPlace(g, n)
  BY <1>6, <1>9, <1>10, <1>11 DEF SymbolsInPlace
<1>13. ASSUME NEW o \in Offset
       PROVE  ByteAt(c, n, o) = IF o \in R THEN data[o - off + 1] ELSE ByteAt(f.content, n, o)
  BY <1>9, <1>10, <1>11 DEF ByteAt
<1> QED BY <1>4, <1>10, <1>11, <1>12, <1>13 DEF g, R

LEMMA WriteFiles ==
  ASSUME FilesInv, NEW p \in Path, NEW fd \in Nat, NEW data \in Chunk, Write(p, fd, data)
  PROVE  FilesInv'
<1> DEFINE h == m_open_files[p][fd]
           n == h.name
           f == file[<<p, n>>]
           g == Written(f, h.off, data)
<1>1. /\ fd \in DOMAIN m_open_files[p] /\ n \in DOMAIN m_files[p] /\ n \in Name
      /\ Of(p, fd) = <<p, n>> /\ f \in File /\ h \in Handle
  BY FilesTypes DEF Write
<1>2. /\ h.off + Len(data) <= MaxOff /\ Call
      /\ file' = [file EXCEPT ![<<p, n>>] = g]
      /\ m_open_files' = [m_open_files EXCEPT ![p][fd].off = h.off + Len(data)]
      /\ UNCHANGED <<alive, m_files, m_free_fd, input, failed>>
  <2>1. file' = [file EXCEPT ![Of(p, fd)] = Written(file[Of(p, fd)], h.off, data)]
    BY DEF Write
  <2>2. file' = [file EXCEPT ![<<p, n>>] = g]
    BY <1>1, <2>1
  <2> HIDE DEF g
  <2> QED BY <2>2 DEF Write
<1>3. h.off \in Nat /\ h.off + Len(data) \in Offset
  BY <1>1, <1>2, WrittenBytes, BoundAssumption DEF Handle, Offset
<1>4. SymbolsInPlace(f, n)
  BY <1>1 DEF FilesInv, OwnSymbols
<1>5. Moved(p)
  BY <1>1, <1>2, <1>3 DEF Moved
<1>6. /\ g \in File /\ SymbolsInPlace(g, n) /\ f.size <= g.size
      /\ DOMAIN f.content \subseteq DOMAIN g.content
  <2> HIDE DEF f, n, h
  <2> QED BY <1>1, <1>2, <1>3, <1>4, WrittenFile
<1>7. input' \in [Path -> SUBSET Symbol] /\ \A q \in Path : \A x \in input'[q] : x \in input[q]
  BY <1>2 DEF FilesInv, TypeOK
<1> HIDE DEF g, h, n
<1>8. \A q \in Path : \A x \in input'[q] : x \in input[q] \/ (q = p /\ x[1] = n /\ Has(g, x[2]))
  BY <1>7
<1>9. Grows(p, n, g)
  BY <1>2, <1>6, <1>7, <1>8 DEF Grows
<1> QED BY <1>1, <1>2, <1>5, <1>9, FileUpdate

\* Maps with one entry more.
LEMMA PutMap ==
  ASSUME NEW K, NEW V, NEW m \in PartialMap(K, V), NEW k \in K, NEW v \in V
  PROVE  /\ Put(m, k, v) \in PartialMap(K, V)
         /\ DOMAIN Put(m, k, v) = DOMAIN m \cup {k}
         /\ \A x \in DOMAIN m \cup {k} : Put(m, k, v)[x] = IF x = k THEN v ELSE m[x]
<1>1. PICK D \in SUBSET K : m \in [D -> V]
  BY DEF PartialMap
<1>2. D \cup {k} \in SUBSET K /\ DOMAIN m = D
  BY <1>1
<1>3. Put(m, k, v) \in [D \cup {k} -> V]
  BY <1>1 DEF Put
<1>4. \E E \in SUBSET K : Put(m, k, v) \in [E -> V]
  BY <1>2, <1>3
<1> QED BY <1>2, <1>4 DEF Put, PartialMap

LEMMA OpenFiles ==
  ASSUME FilesInv, NEW p \in Path, NEW n \in Name, Open(p, n)
  PROVE  FilesInv'
<1> DEFINE fd == m_free_fd[p]
           files == IF n \in DOMAIN m_files[p] THEN m_files[p] ELSE Put(m_files[p], n, <<p, n>>)
           table == IF fd \in DOMAIN m_open_files[p] THEN m_open_files[p]
                    ELSE Put(m_open_files[p], fd, [name |-> n, off |-> 0])
<1>1. /\ Call
      /\ m_files' = [m_files EXCEPT ![p] = files]
      /\ file' = IF n \in DOMAIN m_files[p] THEN file ELSE [file EXCEPT ![<<p, n>>] = NoFile]
      /\ m_open_files' = [m_open_files EXCEPT ![p] = table]
      /\ m_free_fd' = [m_free_fd EXCEPT ![p] = @ + 1]
      /\ UNCHANGED <<alive, input, failed>>
  BY DEF Open
<1>2. /\ fd \in Nat /\ [name |-> n, off |-> 0] \in Handle /\ <<p, n>> \in Object
      /\ m_files[p] \in PartialMap(Name, Object) /\ m_open_files[p] \in PartialMap(Nat, Handle)
  <2>1. m_files[p] \in PartialMap(Name, Object) /\ m_open_files[p] \in PartialMap(Nat, Handle)
    BY DEF FilesInv, Maps
  <2>2. fd \in Nat /\ [name |-> n, off |-> 0] \in Handle /\ <<p, n>> \in Object
    BY BoundAssumption DEF FilesInv, TypeOK, Handle, Offset, Object
  <2> QED BY <2>1, <2>2
<1>3. /\ files \in PartialMap(Name, Object) /\ DOMAIN files = DOMAIN m_files[p] \cup {n}
      /\ \A m \in DOMAIN files : files[m] = <<p, m>>
  <2>1. \A m \in DOMAIN m_files[p] : m_files[p][m] = <<p, m>>
    BY DEF FilesInv, OwnFiles
  <2>2. CASE n \in DOMAIN m_files[p]
    BY <1>2, <2>1, <2>2
  <2>3. CASE n \notin DOMAIN m_files[p]
    <3>1. /\ Put(m_files[p], n, <<p, n>>) \in PartialMap(Name, Object)
          /\ DOMAIN Put(m_files[p], n, <<p, n>>) = DOMAIN m_files[p] \cup {n}
          /\ \A m \in DOMAIN m_files[p] \cup {n} :
               Put(m_files[p], n, <<p, n>>)[m] = IF m = n THEN <<p, n>> ELSE m_files[p][m]
      <4> DEFINE m == m_files[p]
                 v == <<p, n>>
      <4>1. m \in PartialMap(Name, Object) /\ v \in Object /\ n \in Name
        BY <1>2
      <4> HIDE DEF m, v
      <4>2. /\ Put(m, n, v) \in PartialMap(Name, Object)
            /\ DOMAIN Put(m, n, v) = DOMAIN m \cup {n}
            /\ \A x \in DOMAIN m \cup {n} : Put(m, n, v)[x] = IF x = n THEN v ELSE m[x]
        <5>1. Put(m, n, v) \in PartialMap(Name, Object)
          BY <4>1, PutMap
        <5> QED BY <5>1 DEF Put
      <4> QED BY <4>2 DEF m, v
    <3> QED BY <2>1, <2>3, <3>1
  <2> QED BY <2>2, <2>3
<1>4. /\ table \in PartialMap(Nat, Handle)
      /\ \A d \in DOMAIN table : \/ d \in DOMAIN m_open_files[p] /\ table[d] = m_open_files[p][d]
                                 \/ table[d] = [name |-> n, off |-> 0]
  <2>1. CASE fd \in DOMAIN m_open_files[p]
    BY <1>2, <2>1
  <2>2. CASE fd \notin DOMAIN m_open_files[p]
    <3> DEFINE h == [name |-> n, off |-> 0]
    <3>1. /\ Put(m_open_files[p], fd, h) \in PartialMap(Nat, Handle)
          /\ DOMAIN Put(m_open_files[p], fd, h) = DOMAIN m_open_files[p] \cup {fd}
          /\ \A d \in DOMAIN m_open_files[p] \cup {fd} :
               Put(m_open_files[p], fd, h)[d] = IF d = fd THEN h ELSE m_open_files[p][d]
      <4> DEFINE m == m_open_files[p]
      <4>1. m \in PartialMap(Nat, Handle) /\ fd \in Nat /\ h \in Handle
        BY <1>2
      <4> HIDE DEF m, h, fd
      <4>2. /\ Put(m, fd, h) \in PartialMap(Nat, Handle)
            /\ DOMAIN Put(m, fd, h) = DOMAIN m \cup {fd}
            /\ \A x \in DOMAIN m \cup {fd} : Put(m, fd, h)[x] = IF x = fd THEN h ELSE m[x]
        <5>1. PICK D \in SUBSET Nat : m \in [D -> Handle]
          BY <4>1 DEF PartialMap
        <5>2. Put(m, fd, h) = [x \in D \cup {fd} |-> IF x = fd THEN h ELSE m[x]]
          BY <5>1 DEF Put
        <5>3. Put(m, fd, h) \in [D \cup {fd} -> Handle] /\ D \cup {fd} \in SUBSET Nat
          BY <4>1, <5>1, <5>2
        <5> QED BY <5>1, <5>2, <5>3 DEF PartialMap
      <4> QED BY <4>2 DEF m
    <3> QED BY <2>2, <3>1
  <2> QED BY <2>1, <2>2
<1>5. \A d \in DOMAIN table : d \in Nat /\ table[d] \in Handle /\ table[d].name \in DOMAIN files
  <2>1. \A d \in DOMAIN table : d \in Nat
    <3> HIDE DEF table
    <3> QED BY <1>4 DEF PartialMap
  <2>2. ASSUME NEW d \in DOMAIN table PROVE table[d] \in Handle /\ table[d].name \in DOMAIN files
    <3>1. CASE d \in DOMAIN m_open_files[p] /\ table[d] = m_open_files[p][d]
      <4> HIDE DEF files, table
      <4> QED BY <1>3, <3>1, FilesTypes
    <3>2. CASE table[d] = [name |-> n, off |-> 0]
      <4> HIDE DEF files, table
      <4> QED BY <1>2, <1>3, <3>2
    <3> QED BY <1>4, <3>1, <3>2
  <2> QED BY <2>1, <2>2
<1>6. NoFile \in File /\ SymbolsInPlace(NoFile, n)
  <2>1. NoFile.content = <<>> /\ NoFile.size = 0 /\ DOMAIN NoFile.content = {}
    BY DEF NoFile
  <2>2. <<>> \in [{} -> Byte] /\ {} \in SUBSET Offset /\ 0 \in Offset
    BY BoundAssumption DEF Offset
  <2> QED BY <2>1, <2>2, FileFrom DEF NoFile, SymbolsInPlace
<1> HIDE DEF files, table
<1>7. /\ m_files'[p] = files /\ m_open_files'[p] = table
      /\ \A q \in Path : q # p => m_files'[q] = m_files[q] /\ m_open_files'[q] = m_open_files[q]
      /\ m_files' \in [Path -> PartialMap(Name, Object)] /\ m_open_files' \in [Path -> PartialMap(Nat, Handle)]
  <2>1. m_files \in [Path -> PartialMap(Name, Object)] /\ m_open_files \in [Path -> PartialMap(Nat, Handle)]
    BY DEF FilesInv, Maps
  <2> QED BY <1>1, <1>3, <1>4, <2>1
<1>8. /\ file' \in [Object -> File]
      /\ \A q \in Path, m \in Name :
           \/ file'[<<q, m>>] = file[<<q, m>>]
           \/ q = p /\ m = n /\ n \notin DOMAIN m_files[p] /\ file'[<<q, m>>] = NoFile
  BY <1>1, <1>2, <1>6 DEF FilesInv, TypeOK, Object
<1>9. TypeOK'
  <2>1. ASSUME NEW q \in Path
        PROVE  /\ DOMAIN m_files'[q] \subseteq Name
               /\ \A m \in DOMAIN m_files'[q] : m_files'[q][m] \in Object
               /\ DOMAIN m_open_files'[q] \subseteq Nat
               /\ \A d \in DOMAIN m_open_files'[q] :
                    /\ m_open_files'[q][d] \in Handle
                    /\ m_open_files'[q][d].name \in DOMAIN m_files'[q]
    <3>1. CASE q = p
      <4>1. m_files'[q] = files /\ m_open_files'[q] = table /\ DOMAIN files \subseteq Name
        BY <1>3, <1>7, <3>1, FilesTypes
      <4>2. \A m \in DOMAIN files : files[m] \in Object
        BY <1>3, <4>1 DEF Object
      <4> QED BY <1>5, <4>1, <4>2
    <3>2. CASE q # p
      BY <1>7, <3>2 DEF FilesInv, TypeOK
    <3> QED BY <3>1, <3>2
  <2>2. m_free_fd' \in [Path -> Nat] /\ alive' \subseteq Path /\ failed' \in BOOLEAN
        /\ input' \in [Path -> SUBSET Symbol] /\ calls' \in 0..MaxCalls
    BY <1>1, CallCounts DEF FilesInv, TypeOK
  <2> QED BY <1>8, <2>1, <2>2 DEF TypeOK
<1>10. Maps' /\ OwnFiles'
  <2>1. Maps'
    BY <1>7 DEF Maps
  <2>2. OwnFiles'
    BY <1>3, <1>7 DEF FilesInv, OwnFiles
  <2> QED BY <2>1, <2>2
<1>11. OwnSymbols'
  <2> SUFFICES ASSUME NEW q \in Path, NEW m \in Name
               PROVE  SymbolsInPlace(file'[<<q, m>>], m)
    BY DEF OwnSymbols
  <2>1. SymbolsInPlace(file[<<q, m>>], m)
    BY DEF FilesInv, OwnSymbols
  <2> QED BY <1>6, <1>8, <2>1
<1>12. InputKept'
  <2> SUFFICES ASSUME NEW q \in Path, NEW x \in input[q]
               PROVE  x[1] \in DOMAIN m_files'[q] /\ Has(file'[<<q, x[1]>>], x[2])
    BY <1>1 DEF InputKept
  <2>1. x[1] \in DOMAIN m_files[q] /\ x[1] \in Name /\ Has(file[<<q, x[1]>>], x[2])
    BY FilesTypes DEF FilesInv, InputKept
  <2>2. file'[<<q, x[1]>>] = file[<<q, x[1]>>]
    BY <1>8, <2>1
  <2>3. x[1] \in DOMAIN m_files'[q]
    BY <1>3, <1>7, <2>1
  <2> QED BY <2>1, <2>2, <2>3
<1> QED BY <1>9, <1>10, <1>11, <1>12 DEF FilesInv

LEMMA CloseFiles ==
  ASSUME FilesInv, NEW p \in Path, NEW fd \in Nat, Close(p, fd)
  PROVE  FilesInv'
<1> DEFINE table == [d \in DOMAIN m_open_files[p] \ {fd} |-> m_open_files[p][d]]
<1>1. /\ Call
      /\ m_open_files' = [m_open_files EXCEPT ![p] = table]
      /\ m_free_fd' = [m_free_fd EXCEPT ![p] = IF fd = @ - 1 THEN @ - 1 ELSE @]
      /\ UNCHANGED <<alive, file, m_files, input, failed>>
  BY DEF Close, Lower
<1>2. m_free_fd' \in [Path -> Nat]
  BY <1>1 DEF FilesInv, TypeOK
<1>3. table \in PartialMap(Nat, Handle)
  <2>1. PICK D \in SUBSET Nat : m_open_files[p] \in [D -> Handle]
    BY DEF FilesInv, Maps, PartialMap
  <2>2. D \ {fd} \in SUBSET Nat /\ table \in [D \ {fd} -> Handle]
    BY <2>1
  <2> QED BY <2>2 DEF PartialMap
<1>4. DOMAIN table \subseteq DOMAIN m_open_files[p]
      /\ \A d \in DOMAIN table : table[d] = m_open_files[p][d]
  OBVIOUS
<1> HIDE DEF table
<1>5. /\ m_open_files'[p] = table
      /\ \A q \in Path : q # p => m_open_files'[q] = m_open_files[q]
      /\ m_open_files' \in [Path -> PartialMap(Nat, Handle)]
  <2>1. m_open_files \in [Path -> PartialMap(Nat, Handle)]
    BY DEF FilesInv, Maps
  <2> QED BY <1>1, <1>3, <2>1
<1>6. ASSUME NEW q \in Path
      PROVE  /\ DOMAIN m_open_files'[q] \subseteq Nat
             /\ \A d \in DOMAIN m_open_files'[q] :
                  m_open_files'[q][d] \in Handle /\ m_open_files'[q][d].name \in DOMAIN m_files'[q]
  <2>1. CASE q = p
    BY <1>1, <1>4, <1>5, <2>1 DEF FilesInv, TypeOK
  <2>2. CASE q # p
    BY <1>1, <1>5, <2>2 DEF FilesInv, TypeOK
  <2> QED BY <2>1, <2>2
<1>7. TypeOK'
  BY <1>1, <1>2, <1>6, CallCounts DEF FilesInv, TypeOK
<1>8. Maps'
  BY <1>1, <1>5 DEF FilesInv, Maps
<1>9. (OwnFiles /\ OwnSymbols /\ InputKept)'
  BY <1>1 DEF FilesInv, OwnFiles, OwnSymbols, InputKept
<1> QED BY <1>7, <1>8, <1>9 DEF FilesInv

\* A fork: q's files are copies of p's, and every other path keeps its own.
LEMMA ForkFiles ==
  ASSUME FilesInv, NEW p \in alive, NEW q \in Path \ alive, Fork(p, q)
  PROVE  FilesInv'
<1> DEFINE names == DOMAIN m_files[p]
<1>1. p \in Path /\ q # p /\ alive \subseteq Path
  BY DEF FilesInv, TypeOK
<1>2. /\ Call /\ alive' = alive \cup {q}
      /\ m_files' = [m_files EXCEPT ![q] = Copies(p, q)]
      /\ m_open_files' = [m_open_files EXCEPT ![q] = m_open_files[p]]
      /\ m_free_fd' = [m_free_fd EXCEPT ![q] = m_free_fd[p]]
      /\ input' = [input EXCEPT ![q] = input[p]]
      /\ UNCHANGED failed
  BY DEF Fork
<1>3. /\ names \subseteq Name
      /\ \A n \in names : m_files[p][n] = <<p, n>>
  BY <1>1 DEF FilesInv, TypeOK, OwnFiles
<1>4. ASSUME NEW r \in Path, NEW n \in Name
      PROVE  file'[<<r, n>>] = IF r = q /\ n \in names THEN file[<<p, n>>] ELSE file[<<r, n>>]
  <2>1. file' = [o \in Object |-> IF o[1] = q /\ o[2] \in names THEN file[m_files[p][o[2]]]
                                  ELSE file[o]]
    BY DEF Fork
  <2>2. <<r, n>> \in Object
    BY DEF Object
  <2>3. file'[<<r, n>>] = IF r = q /\ n \in names THEN file[m_files[p][n]] ELSE file[<<r, n>>]
    BY <2>1, <2>2
  <2> QED BY <1>3, <2>3
<1>5. file' \in [Object -> File]
  <2>1. ASSUME NEW o \in Object PROVE file'[o] \in File
    <3>1. PICK r \in Path, n \in Name : o = <<r, n>>
      BY DEF Object
    <3> QED BY <1>1, <1>4, <3>1, FilesTypes
  <2>2. file' = [o \in Object |-> file'[o]]
    BY DEF Fork
  <2> QED BY <2>1, <2>2
<1>6. /\ Copies(p, q) \in PartialMap(Name, Object) /\ DOMAIN Copies(p, q) = names
      /\ \A n \in names : Copies(p, q)[n] = <<q, n>>
  <2>1. Copies(p, q) = [n \in names |-> <<q, n>>]
    BY DEF Copies
  <2>2. Copies(p, q) \in [names -> Object]
    BY <1>3, <2>1 DEF Object
  <2> QED BY <1>3, <2>1, <2>2 DEF PartialMap
<1>7. /\ m_files' \in [Path -> PartialMap(Name, Object)] /\ m_open_files' \in [Path -> PartialMap(Nat, Handle)]
      /\ m_files'[q] = Copies(p, q) /\ m_open_files'[q] = m_open_files[p]
      /\ \A r \in Path : r # q => m_files'[r] = m_files[r] /\ m_open_files'[r] = m_open_files[r]
  <2>1. m_files \in [Path -> PartialMap(Name, Object)] /\ m_open_files \in [Path -> PartialMap(Nat, Handle)]
    BY DEF FilesInv, Maps
  <2> QED BY <1>1, <1>2, <1>6, <2>1
<1>8. ASSUME NEW r \in Path
      PROVE  /\ DOMAIN m_files'[r] \subseteq Name
             /\ \A n \in DOMAIN m_files'[r] : m_files'[r][n] = <<r, n>> /\ <<r, n>> \in Object
             /\ DOMAIN m_open_files'[r] \subseteq Nat
             /\ \A d \in DOMAIN m_open_files'[r] :
                  /\ m_open_files'[r][d] \in Handle
                  /\ m_open_files'[r][d].name \in DOMAIN m_files'[r]
  <2>1. CASE r = q
    BY <1>1, <1>3, <1>6, <1>7, <2>1 DEF FilesInv, TypeOK, Object
  <2>2. CASE r # q
    BY <1>7, <2>2 DEF FilesInv, TypeOK, OwnFiles, Object
  <2> QED BY <2>1, <2>2
<1>9. TypeOK'
  <2>1. m_free_fd' \in [Path -> Nat] /\ alive' \subseteq Path /\ failed' \in BOOLEAN
        /\ input' \in [Path -> SUBSET Symbol] /\ calls' \in 0..MaxCalls
    BY <1>1, <1>2, CallCounts DEF FilesInv, TypeOK
  <2>2. \A r \in Path : \A n \in DOMAIN m_files'[r] : m_files'[r][n] \in Object
    BY <1>8
  <2> QED BY <1>5, <1>8, <2>1, <2>2 DEF TypeOK
<1>10. Maps' /\ OwnFiles'
  BY <1>7, <1>8 DEF Maps, OwnFiles
<1>11. OwnSymbols'
  BY <1>1, <1>4 DEF FilesInv, OwnSymbols
<1>12. InputKept'
  <2> SUFFICES ASSUME NEW r \in Path, NEW x \in input'[r]
               PROVE  x[1] \in DOMAIN m_files'[r] /\ Has(file'[<<r, x[1]>>], x[2])
    BY DEF InputKept
  <2>1. CASE r = q
    <3>1. x \in input[p]
      BY <1>2, <2>1 DEF FilesInv, TypeOK
    <3>2. x[1] \in names /\ Has(file[<<p, x[1]>>], x[2])
      BY <1>1, <3>1 DEF FilesInv, InputKept
    <3> QED BY <1>3, <1>4, <1>6, <1>7, <2>1, <3>2
  <2>2. CASE r # q
    <3>1. x \in input[r]
      BY <1>2, <2>2 DEF FilesInv, TypeOK
    <3>2. x[1] \in DOMAIN m_files[r] /\ x[1] \in Name /\ Has(file[<<r, x[1]>>], x[2])
      BY <3>1, FilesTypes DEF FilesInv, InputKept
    <3> QED BY <1>4, <1>7, <2>2, <3>2
  <2> QED BY <2>1, <2>2
<1> QED BY <1>9, <1>10, <1>11, <1>12 DEF FilesInv

LEMMA FilesInit == Init => FilesInv
<1> SUFFICES ASSUME Init PROVE FilesInv
  OBVIOUS
<1> DEFINE std == {StdIn, StdOut, StdErr}
<1>1. NoFile \in File /\ \A n \in Name : SymbolsInPlace(NoFile, n)
  <2>1. NoFile.content = <<>> /\ NoFile.size = 0 /\ DOMAIN NoFile.content = {}
    BY DEF NoFile
  <2>2. <<>> \in [{} -> Byte] /\ {} \in SUBSET Offset /\ 0 \in Offset
    BY BoundAssumption DEF Offset
  <2> QED BY <2>1, <2>2, FileFrom DEF NoFile, SymbolsInPlace
<1>2. std \subseteq Name
  BY NameAssumption
<1>3. ASSUME NEW p \in Path
      PROVE  /\ m_files[p] = [n \in std |-> <<p, n>>]
             /\ m_files[p] \in [std -> Object]
  BY <1>2 DEF Init, Object
<1>4. ASSUME NEW p \in Path
      PROVE  /\ DOMAIN m_open_files[p] = 0..2
             /\ \A fd \in 0..2 : m_open_files[p][fd] \in Handle /\ m_open_files[p][fd].name \in std
             /\ m_open_files[p] \in [0..2 -> Handle]
  <2>1. ASSUME NEW fd \in 0..2
        PROVE <<StdIn, StdOut, StdErr>>[fd + 1] \in std
    <3>1. fd = 0 \/ fd = 1 \/ fd = 2
      OBVIOUS
    <3> QED BY <3>1
  <2>2. m_open_files[p] = [fd \in 0..2 |-> [name |-> <<StdIn, StdOut, StdErr>>[fd + 1], off |-> 0]]
    BY DEF Init
  <2>3. ASSUME NEW fd \in 0..2
        PROVE  /\ m_open_files[p][fd].name \in std /\ m_open_files[p][fd] \in Handle
    BY <1>2, <2>1, <2>2, BoundAssumption DEF Handle, Offset
  <2> QED BY <2>2, <2>3
<1>5. TypeOK
  <2>1. file \in [Object -> File]
    BY <1>1 DEF Init
  <2>2. alive \subseteq Path /\ failed \in BOOLEAN /\ calls \in 0..MaxCalls
    <3>1. alive = {FirstPath} /\ failed = FALSE /\ calls = 0
      BY DEF Init
    <3>2. alive \subseteq Path /\ calls \in 0..MaxCalls
      BY <3>1, NameAssumption, BoundAssumption
    <3>3. failed \in BOOLEAN
      BY <3>1
    <3> QED BY <3>2, <3>3
  <2>3. m_free_fd \in [Path -> Nat] /\ input \in [Path -> SUBSET Symbol]
    BY DEF Init
  <2>4. ASSUME NEW p \in Path
        PROVE  /\ DOMAIN m_files[p] \subseteq Name
               /\ \A n \in DOMAIN m_files[p] : m_files[p][n] \in Object
               /\ DOMAIN m_open_files[p] \subseteq Nat
               /\ \A fd \in DOMAIN m_open_files[p] :
                    m_open_files[p][fd] \in Handle /\ m_open_files[p][fd].name \in DOMAIN m_files[p]
    <3>1. DOMAIN m_files[p] = std /\ \A n \in std : m_files[p][n] \in Object
      BY <1>3
    <3>2. DOMAIN m_open_files[p] = 0..2
          /\ \A fd \in 0..2 : m_open_files[p][fd] \in Handle /\ m_open_files[p][fd].name \in std
      BY <1>4
    <3> HIDE DEF std
    <3> QED BY <1>2, <3>1, <3>2
  <2> QED BY <2>1, <2>2, <2>3, <2>4 DEF TypeOK
<1>6. Maps
  <2>1. m_files = [p \in Path |-> m_files[p]] /\ m_open_files = [p \in Path |-> m_open_files[p]]
    BY DEF Init
  <2>2. ASSUME NEW p \in Path
        PROVE  /\ m_files[p] \in PartialMap(Name, Object)
               /\ m_open_files[p] \in PartialMap(Nat, Handle)
    <3>1. std \in SUBSET Name /\ 0..2 \in SUBSET Nat
      BY <1>2
    <3> HIDE DEF std
    <3> QED BY <1>3, <1>4, <3>1 DEF PartialMap
  <2> QED BY <2>1, <2>2 DEF Maps
<1>7. OwnFiles /\ OwnSymbols /\ InputKept
  <2>1. OwnFiles
    BY <1>3 DEF OwnFiles
  <2>2. OwnSymbols
    BY <1>1 DEF Init, OwnSymbols, Object
  <2>3. InputKept
    BY DEF Init, InputKept
  <2> QED BY <2>1, <2>2, <2>3
<1> QED BY <1>5, <1>6, <1>7 DEF FilesInv

LEMMA FilesNext == FilesInv /\ [Next]_vars => FilesInv'
<1> SUFFICES ASSUME FilesInv, [Next]_vars PROVE FilesInv'
  OBVIOUS
<1>1. alive \subseteq Path /\ MaxFd \in Nat
  BY BoundAssumption DEF FilesInv, TypeOK
<1>2. CASE UNCHANGED vars
  BY <1>2 DEF vars, fs, FilesInv, TypeOK, Maps, OwnFiles, OwnSymbols, InputKept
<1>3. ASSUME NEW p \in alive, NEW fd, NEW len, Fail(p, fd, len) PROVE FilesInv'
  <2>1. /\ calls' \in 0..MaxCalls /\ failed' \in BOOLEAN
        /\ UNCHANGED <<alive, file, m_files, m_open_files, m_free_fd, input>>
    BY <1>3, CallCounts DEF Fail, fs
  <2> QED BY <2>1 DEF FilesInv, TypeOK, Maps, OwnFiles, OwnSymbols, InputKept
<1>4. CASE Done
  BY <1>2, <1>4 DEF Done
<1> QED BY <1>1, <1>2, <1>3, <1>4, OpenFiles, DumpFiles, CloseFiles, SeekFiles, ReadFiles,
           WriteFiles, ForkFiles DEF Next

\* The files of every path are well formed, in every sequence of calls and forks.
THEOREM TypeCorrect == Spec => []TypeOK
<1>1. FilesInv => TypeOK
  BY DEF FilesInv
<1> QED BY FilesInit, FilesNext, <1>1, PTL DEF Spec

\* State::dump (State.cpp) prints every input byte that the path has read, at its
\* offset, but for those it wrote over: File::read (File.cpp) makes the file grow with
\* the symbols it makes up, and a clone has File objects of its own.
THEOREM DumpHasTheInput == Spec => []DumpShowsInput
<1>1. FilesInv => DumpShowsInput
  <2> SUFFICES ASSUME FilesInv, NEW p \in Path, NEW x \in input[p]
               PROVE  LET f == file[m_files[p][x[1]]]
                      IN /\ x[2] < f.size /\ x[2] \in DOMAIN f.content
                         /\ f.content[x[2]] \in Symbol => f.content[x[2]] = x
    BY DEF DumpShowsInput
  <2>1. /\ x[1] \in DOMAIN m_files[p] /\ x[1] \in Name /\ Has(file[<<p, x[1]>>], x[2])
        /\ x = <<x[1], x[2]>>
    BY FilesTypes DEF FilesInv, TypeOK, InputKept, Symbol
  <2>2. m_files[p][x[1]] = <<p, x[1]>>
    BY <2>1 DEF FilesInv, OwnFiles
  <2>3. SymbolsInPlace(file[<<p, x[1]>>], x[1])
    BY <2>1 DEF FilesInv, OwnSymbols
  <2> QED BY <2>1, <2>2, <2>3 DEF Has, SymbolsInPlace
<1> QED BY FilesInit, FilesNext, <1>1, PTL DEF Spec

-----------------------------------------------------------------------------
(***************************************************************************)
(* FileSystem implements PosixFiles: every call is the call of that name   *)
(* on a machine where the files were there from the beginning.             *)
(***************************************************************************)
RInv == FInv /\ FilesInv

LEMMA DiskIs ==
  ASSUME OwnFiles, NEW p \in Path, NEW n \in Name, NEW o
  PROVE  DiskByte(p, n, o) = IF n \in DOMAIN m_files[p] THEN ByteAt(file[<<p, n>>].content, n, o)
                             ELSE <<n, o>>
BY DEF DiskByte, OwnFiles

LEMMA DiskSame ==
  ASSUME \A p \in Path, n \in Name : \A o \in 0..MaxOff - 1 : DiskByte(p, n, o)' = DiskByte(p, n, o)
  PROVE  Disk' = Disk
BY DEF Disk

\* A file whose bytes are what they were before.
LEMMA DiskKept ==
  ASSUME OwnFiles, NEW p \in Path, NEW n \in Name, NEW g, m_files' = m_files,
         file \in [Object -> File], file' = [file EXCEPT ![<<p, n>>] = g],
         \A o \in Offset : ByteAt(g.content, n, o) = ByteAt(file[<<p, n>>].content, n, o)
  PROVE  Disk' = Disk
<1>0. \A o \in 0..MaxOff - 1 : o \in Offset
  BY BoundAssumption DEF Offset
<1>1. OwnFiles'
  BY DEF OwnFiles
<1>2. ASSUME NEW q \in Path, NEW m \in Name, NEW o \in 0..MaxOff - 1
      PROVE  DiskByte(q, m, o)' = DiskByte(q, m, o)
  <2>1. DiskByte(q, m, o) = IF m \in DOMAIN m_files[q] THEN ByteAt(file[<<q, m>>].content, m, o)
                            ELSE <<m, o>>
    BY DiskIs
  <2>2. DiskByte(q, m, o)' = IF m \in DOMAIN m_files[q] THEN ByteAt(file'[<<q, m>>].content, m, o)
                             ELSE <<m, o>>
    BY <1>1 DEF DiskByte, OwnFiles
  <2>3. ByteAt(file'[<<q, m>>].content, m, o) = ByteAt(file[<<q, m>>].content, m, o)
    <3>1. CASE q = p /\ m = n
      BY <1>0, <3>1 DEF Object
    <3>2. CASE ~(q = p /\ m = n)
      BY <3>2 DEF Object
    <3> QED BY <3>1, <3>2
  <2> QED BY <2>1, <2>2, <2>3
<1> QED BY <1>2, DiskSame

LEMMA PosixInit == Init => Posix!Init
<1> SUFFICES ASSUME Init PROVE Posix!Init
  OBVIOUS
<1>1. ASSUME NEW p \in Path, NEW n \in Name, NEW o \in 0..MaxOff - 1
      PROVE  DiskByte(p, n, o) = <<n, o>>
  <2>1. m_files[p] = [m \in {StdIn, StdOut, StdErr} |-> <<p, m>>] /\ file[<<p, n>>] = NoFile
    BY DEF Init, Object
  <2>2. ByteAt(NoFile.content, n, o) = <<n, o>>
    <3>1. NoFile.content = <<>> /\ DOMAIN <<>> = {}
      BY DEF NoFile
    <3> QED BY <3>1 DEF ByteAt
  <2> QED BY <2>1, <2>2 DEF DiskByte
<1>2. Disk = [p \in Path |-> [n \in Name |-> [o \in 0..MaxOff - 1 |-> <<n, o>>]]]
  BY <1>1 DEF Disk
<1>3. m_open_files \in [Path -> [0..2 -> [name: Name, off: {0}]]]
  <2>1. ASSUME NEW fd \in 0..2
        PROVE  [name |-> <<StdIn, StdOut, StdErr>>[fd + 1], off |-> 0] \in [name: Name, off: {0}]
    <3>1. fd = 0 \/ fd = 1 \/ fd = 2
      OBVIOUS
    <3>2. <<StdIn, StdOut, StdErr>>[fd + 1] \in Name
      BY <3>1, NameAssumption
    <3> QED BY <3>2
  <2>2. m_open_files = [p \in Path |-> [fd \in 0..2 |->
                          [name |-> <<StdIn, StdOut, StdErr>>[fd + 1], off |-> 0]]]
    BY DEF Init
  <2> QED BY <2>1, <2>2
<1>4. said = [none |-> 0]
  BY DEF Init, Nothing
<1> QED BY <1>2, <1>3, <1>4 DEF Posix!Init, Posix!Nothing, Posix!Original, Posix!Offset

LEMMA PosixOpen ==
  ASSUME RInv, NEW p \in Path, NEW n \in Name, Open(p, n)
  PROVE  Posix!Open(p, n)
<1> DEFINE fd == m_free_fd[p]
           h == [name |-> n, off |-> 0]
<1>1. fd \in 0..MaxFd /\ fd \notin DOMAIN m_open_files[p]
  <2>1. fd \in Nat /\ \A d \in DOMAIN m_open_files[p] : d \in Nat /\ d < fd
    BY DEF RInv, FInv, FreshDescriptor, FilesInv, TypeOK
  <2>2. fd < MaxFd
    BY DEF Open
  <2> QED BY <2>1, <2>2, BoundAssumption
<1>2. m_open_files' = [m_open_files EXCEPT ![p] =
         [d \in DOMAIN m_open_files[p] \cup {fd} |-> IF d = fd THEN h ELSE m_open_files[p][d]]]
  BY <1>1 DEF Open, Put
<1>3. said' = [fd |-> fd]
  BY DEF Open
<1>4. Disk' = Disk
  <2>1. OwnFiles /\ OwnFiles'
    BY OpenFiles DEF RInv, FilesInv
  <2>2. ASSUME NEW q \in Path, NEW m \in Name, NEW o \in 0..MaxOff - 1
        PROVE  DiskByte(q, m, o)' = DiskByte(q, m, o)
    <3>1. DiskByte(q, m, o) = IF m \in DOMAIN m_files[q] THEN ByteAt(file[<<q, m>>].content, m, o)
                              ELSE <<m, o>>
      BY <2>1, DiskIs
    <3>2. DiskByte(q, m, o)' = IF m \in DOMAIN m_files'[q] THEN ByteAt(file'[<<q, m>>].content, m, o)
                               ELSE <<m, o>>
      BY <2>1 DEF DiskByte, OwnFiles
    <3>3. CASE q = p /\ m = n /\ n \notin DOMAIN m_files[p]
      <4>1. file'[<<q, m>>] = NoFile
        BY <3>3 DEF Open, RInv, FilesInv, TypeOK, Object
      <4>2. ByteAt(NoFile.content, m, o) = <<m, o>>
        <5>1. NoFile.content = <<>> /\ DOMAIN <<>> = {}
          BY DEF NoFile
        <5> QED BY <5>1 DEF ByteAt
      <4> QED BY <3>1, <3>2, <3>3, <4>1, <4>2
    <3>4. CASE ~(q = p /\ m = n /\ n \notin DOMAIN m_files[p])
      <4>1. file'[<<q, m>>] = file[<<q, m>>]
        BY <3>4 DEF Open, RInv, FilesInv, TypeOK, Object
      <4>2. m \in DOMAIN m_files'[q] <=> m \in DOMAIN m_files[q]
        BY <3>4 DEF Open, RInv, FilesInv, Maps, Put
      <4> QED BY <3>1, <3>2, <4>1, <4>2
    <3> QED BY <3>3, <3>4
  <2> QED BY <2>2, DiskSame
<1> HIDE DEF fd
<1> QED BY <1>1, <1>2, <1>3, <1>4 DEF Posix!Open

LEMMA PosixDump ==
  ASSUME RInv, NEW p \in Path, NEW n \in Name, Dump(p, n)
  PROVE  Posix!Dump(p, n)
<1> DEFINE f == file[<<p, n>>]
           g == Filled(f, n, 0, f.size)
<1>1. n \in DOMAIN m_files[p] /\ m_files[p][n] = <<p, n>> /\ f \in File /\ SymbolsInPlace(f, n)
  BY FilesTypes DEF Dump, RInv, FilesInv, OwnFiles, OwnSymbols
<1>2. /\ file' = [file EXCEPT ![<<p, n>>] = g] /\ f.size > 0
      /\ said' = [bytes |-> Bytes(f, n, 0, f.size)]
      /\ UNCHANGED <<m_files, m_open_files>>
  BY <1>1 DEF Dump
<1>3. f.size \in 1..MaxOff /\ f.size \in Nat /\ 0 + f.size <= MaxOff
  BY <1>1, <1>2, FileType, BoundAssumption DEF Offset
<1>4. \A o \in Offset : ByteAt(g.content, n, o) = ByteAt(f.content, n, o)
  <2> HIDE DEF f
  <2> QED BY <1>1, <1>3, FilledFile
<1>5. OwnFiles /\ file \in [Object -> File]
  BY DEF RInv, FilesInv, TypeOK
<1>6. Disk' = Disk
  <2> HIDE DEF g
  <2> QED BY <1>2, <1>4, <1>5, DiskKept
<1>7. Bytes(f, n, 0, f.size) = [k \in 1..f.size |-> Disk[p][n][k - 1]]
  <2>1. ASSUME NEW k \in 1..f.size
        PROVE  ByteAt(f.content, n, 0 + k - 1) = Disk[p][n][k - 1]
    <3>1. k - 1 \in 0..MaxOff - 1 /\ 0 + k - 1 = k - 1
      <4> HIDE DEF f
      <4> QED BY <1>3, BoundAssumption
    <3>2. Disk[p][n][k - 1] = DiskByte(p, n, k - 1)
      BY <3>1 DEF Disk
    <3> QED BY <1>1, <1>5, <3>1, <3>2, DiskIs
  <2> QED BY <2>1 DEF Bytes
<1> HIDE DEF f, g
<1> QED BY <1>2, <1>3, <1>6, <1>7 DEF Posix!Dump

LEMMA PosixRead ==
  ASSUME RInv, NEW p \in Path, NEW fd \in Nat, NEW len \in Offset, Read(p, fd, len)
  PROVE  Posix!Read(p, fd, len) /\ len \in 1..MaxOff /\ fd \in DOMAIN m_open_files[p]
<1> DEFINE h == m_open_files[p][fd]
           n == h.name
           f == file[<<p, n>>]
           g == Filled(f, n, h.off, len)
<1>1. /\ fd \in DOMAIN m_open_files[p] /\ n \in DOMAIN m_files[p] /\ n \in Name
      /\ Of(p, fd) = <<p, n>> /\ f \in File /\ h \in Handle
  BY FilesTypes DEF Read, RInv
<1>2. /\ h.off + len <= MaxOff /\ len > 0
      /\ file' = [file EXCEPT ![<<p, n>>] = g]
      /\ said' = [bytes |-> Bytes(f, n, h.off, len)]
      /\ m_open_files' = [m_open_files EXCEPT ![p][fd].off = h.off + len]
      /\ UNCHANGED m_files
  BY <1>1 DEF Read
<1>3. h.off \in Nat /\ len \in Nat /\ MaxOff \in Nat
  BY <1>1, BoundAssumption DEF Handle, Offset
<1>4. SymbolsInPlace(f, n) /\ OwnFiles /\ file \in [Object -> File]
  BY <1>1 DEF RInv, FilesInv, OwnSymbols, TypeOK
<1>5. \A o \in Offset : ByteAt(g.content, n, o) = ByteAt(f.content, n, o)
  <2> HIDE DEF f, n, h
  <2> QED BY <1>1, <1>2, <1>3, <1>4, FilledFile
<1>6. Disk' = Disk
  <2> HIDE DEF g, n
  <2> QED BY <1>1, <1>2, <1>4, <1>5, DiskKept
<1>7. Bytes(f, n, h.off, len) = [k \in 1..len |-> Disk[p][n][h.off + k - 1]]
  <2>1. ASSUME NEW k \in 1..len
        PROVE  ByteAt(f.content, n, h.off + k - 1) = Disk[p][n][h.off + k - 1]
    <3> DEFINE o == h.off + k - 1
    <3>1. o \in 0..MaxOff - 1
      <4> HIDE DEF h
      <4> QED BY <1>2, <1>3
    <3> HIDE DEF o, n
    <3>2. Disk[p][n][o] = DiskByte(p, n, o)
      BY <1>1, <3>1 DEF Disk
    <3>3. ByteAt(f.content, n, o) = Disk[p][n][o]
      BY <1>1, <1>4, <3>2, DiskIs
    <3> QED BY <3>3 DEF o, n
  <2> QED BY <2>1 DEF Bytes
<1>8. m_open_files' = [m_open_files EXCEPT ![p][fd].off = @ + len]
  BY <1>2
<1>9. len \in 1..MaxOff
  <2> HIDE DEF h
  <2> QED BY <1>2, <1>3
<1> HIDE DEF f, g
<1> QED BY <1>1, <1>2, <1>6, <1>7, <1>8, <1>9 DEF Posix!Read

LEMMA PosixWrite ==
  ASSUME RInv, NEW p \in Path, NEW fd \in Nat, NEW data \in Chunk, Write(p, fd, data)
  PROVE  Posix!Write(p, fd, data) /\ fd \in DOMAIN m_open_files[p]
<1> DEFINE h == m_open_files[p][fd]
           n == h.name
           f == file[<<p, n>>]
           g == Written(f, h.off, data)
           R == h.off..h.off + Len(data) - 1
           B == [o \in 0..MaxOff - 1 |-> IF o \in R THEN data[o - h.off + 1] ELSE Disk[p][n][o]]
<1>1. /\ fd \in DOMAIN m_open_files[p] /\ n \in DOMAIN m_files[p] /\ n \in Name
      /\ Of(p, fd) = <<p, n>> /\ f \in File /\ h \in Handle
  BY FilesTypes DEF Write, RInv
<1>2. /\ h.off + Len(data) <= MaxOff
      /\ file' = [file EXCEPT ![<<p, n>>] = g]
      /\ m_open_files' = [m_open_files EXCEPT ![p][fd].off = h.off + Len(data)]
      /\ said' = Nothing
      /\ UNCHANGED m_files
  <2>1. file' = [file EXCEPT ![Of(p, fd)] = Written(file[Of(p, fd)], h.off, data)]
    BY DEF Write
  <2>2. file' = [file EXCEPT ![<<p, n>>] = g]
    BY <1>1, <2>1
  <2> HIDE DEF g
  <2> QED BY <2>2 DEF Write
<1>3. h.off \in Nat /\ MaxOff \in Nat
  BY <1>1, BoundAssumption DEF Handle, Offset
<1>4. SymbolsInPlace(f, n) /\ OwnFiles /\ file \in [Object -> File]
  BY <1>1 DEF RInv, FilesInv, OwnSymbols, TypeOK
<1>5. ASSUME NEW o \in Offset
      PROVE  ByteAt(g.content, n, o) = IF o \in R THEN data[o - h.off + 1]
                                       ELSE ByteAt(f.content, n, o)
  <2> HIDE DEF f, n, h
  <2> QED BY <1>1, <1>2, <1>3, <1>4, WrittenFile
<1>6. ASSUME NEW q \in Path, NEW m \in Name, NEW o \in 0..MaxOff - 1
      PROVE  DiskByte(q, m, o)' = IF q = p /\ m = n THEN B[o] ELSE DiskByte(q, m, o)
  <2>1. DiskByte(q, m, o) = IF m \in DOMAIN m_files[q] THEN ByteAt(file[<<q, m>>].content, m, o)
                            ELSE <<m, o>>
    BY <1>4, DiskIs
  <2>2. DiskByte(q, m, o)' = IF m \in DOMAIN m_files[q] THEN ByteAt(file'[<<q, m>>].content, m, o)
                             ELSE <<m, o>>
    <3>1. m_files' = m_files /\ (m \in DOMAIN m_files[q] => m_files[q][m] = <<q, m>>)
      BY <1>2, <1>4 DEF OwnFiles
    <3> QED BY <3>1 DEF DiskByte
  <2>3. CASE q = p /\ m = n
    <3>1. file'[<<q, m>>] = g
      <4> HIDE DEF g
      <4> QED BY <1>1, <1>2, <1>4, <2>3 DEF Object
    <3>2. o \in Offset
      BY <1>3 DEF Offset
    <3>3. Disk[p][n][o] = DiskByte(p, n, o)
      BY <1>1 DEF Disk
    <3>4. B[o] = IF o \in R THEN data[o - h.off + 1] ELSE Disk[p][n][o]
      OBVIOUS
    <3> HIDE DEF g, B, R, n
    <3> QED BY <1>1, <1>5, <2>1, <2>2, <2>3, <3>1, <3>2, <3>3, <3>4
  <2>4. CASE ~(q = p /\ m = n)
    <3>1. file'[<<q, m>>] = file[<<q, m>>]
      <4> HIDE DEF g
      <4> QED BY <1>1, <1>2, <1>4, <2>4 DEF Object
    <3> HIDE DEF B, n
    <3> QED BY <2>1, <2>2, <2>4, <3>1
  <2> QED BY <2>3, <2>4
<1>7. Disk' = [Disk EXCEPT ![p][n] = B]
  <2>1. B = [o \in 0..MaxOff - 1 |-> B[o]]
    OBVIOUS
  <2> HIDE DEF B, n
  <2>2. Disk' = [q \in Path |-> [m \in Name |-> [o \in 0..MaxOff - 1 |->
                    IF q = p /\ m = n THEN B[o] ELSE DiskByte(q, m, o)]]]
    BY <1>6 DEF Disk
  <2>3. ASSUME NEW q \in Path, NEW m \in Name
        PROVE  [o \in 0..MaxOff - 1 |-> IF q = p /\ m = n THEN B[o] ELSE DiskByte(q, m, o)]
               = IF q = p /\ m = n THEN B ELSE Disk[q][m]
    BY <2>1 DEF Disk
  <2>4. Disk' = [q \in Path |-> [m \in Name |-> IF q = p /\ m = n THEN B ELSE Disk[q][m]]]
    BY <2>2, <2>3
  <2>5. ASSUME NEW q \in Path
        PROVE  /\ DOMAIN Disk = Path /\ Disk[q] = [m \in Name |-> Disk[q][m]]
               /\ [m \in Name |-> IF q = p /\ m = n THEN B ELSE Disk[q][m]]
                  = IF q = p THEN [Disk[p] EXCEPT ![n] = B] ELSE Disk[q]
    <3>1. DOMAIN Disk = Path /\ Disk[q] = [m \in Name |-> Disk[q][m]]
      BY DEF Disk
    <3> QED BY <3>1
  <2>6. Disk' = [q \in Path |-> IF q = p THEN [Disk[p] EXCEPT ![n] = B] ELSE Disk[q]]
    BY <2>4, <2>5
  <2>7. DOMAIN Disk = Path
    BY DEF Disk
  <2>8. [Disk EXCEPT ![p] = [Disk[p] EXCEPT ![n] = B]]
        = [q \in Path |-> IF q = p THEN [Disk[p] EXCEPT ![n] = B] ELSE Disk[q]]
    BY <2>7
  <2> QED BY <2>6, <2>8
<1>8. m_open_files' = [m_open_files EXCEPT ![p][fd].off = @ + Len(data)]
  BY <1>2
<1>9. said' = [none |-> 0]
  BY <1>2 DEF Nothing
<1> HIDE DEF f, g
<1> QED BY <1>1, <1>2, <1>7, <1>8, <1>9 DEF Posix!Write, Posix!Nothing, Posix!Offset

LEMMA PosixClose ==
  ASSUME RInv, NEW p \in Path, NEW fd \in Nat, Close(p, fd)
  PROVE  Posix!Close(p, fd) /\ fd \in DOMAIN m_open_files[p]
<1>1. /\ fd \in DOMAIN m_open_files[p]
      /\ m_open_files' = [m_open_files EXCEPT ![p] =
                            [d \in DOMAIN m_open_files[p] \ {fd} |-> m_open_files[p][d]]]
      /\ said' = [none |-> 0] /\ UNCHANGED <<file, m_files>>
  BY DEF Close, Nothing
<1>2. Disk' = Disk
  BY <1>1 DEF Disk, DiskByte
<1> QED BY <1>1, <1>2 DEF Posix!Close, Posix!Nothing

LEMMA PosixSeek ==
  ASSUME RInv, NEW p \in Path, NEW fd \in Nat, NEW off \in Offset, Seek(p, fd, off)
  PROVE  Posix!Seek(p, fd, off) /\ fd \in DOMAIN m_open_files[p]
<1> DEFINE n == m_open_files[p][fd].name
           f == file[<<p, n>>]
           g == [f EXCEPT !.size = Larger(@, off)]
<1>1. /\ fd \in DOMAIN m_open_files[p] /\ n \in Name /\ Of(p, fd) = <<p, n>> /\ f \in File
      /\ OwnFiles /\ file \in [Object -> File]
  BY FilesTypes DEF Seek, RInv, FilesInv, TypeOK
<1>2. file' = [file EXCEPT ![<<p, n>>] = g] /\ m_files' = m_files
  BY <1>1 DEF Seek
<1>3. g.content = f.content
  BY <1>1 DEF File
<1> HIDE DEF g
<1>4. Disk' = Disk
  <2> HIDE DEF n
  <2> QED BY <1>1, <1>2, <1>3, DiskKept
<1>5. said' = [none |-> 0] /\ m_open_files' = [m_open_files EXCEPT ![p][fd].off = off]
  BY DEF Seek, Nothing
<1> QED BY <1>1, <1>4, <1>5 DEF Posix!Seek, Posix!Nothing

LEMMA PosixFork ==
  ASSUME RInv, NEW p \in alive, NEW q \in Path \ alive, Fork(p, q)
  PROVE  Posix!Fork(p, q) /\ p \in Path /\ q \in Path \ {p}
<1>1. /\ p \in Path /\ q # p /\ OwnFiles /\ OwnFiles'
      /\ \A n \in DOMAIN m_files[p] : n \in Name /\ m_files[p][n] = <<p, n>>
  BY ForkFiles DEF RInv, FilesInv, TypeOK, OwnFiles
<1>2. /\ m_files' = [m_files EXCEPT ![q] = Copies(p, q)]
      /\ m_open_files' = [m_open_files EXCEPT ![q] = m_open_files[p]]
      /\ said' = [none |-> 0]
  BY DEF Fork, Nothing
<1>3. ASSUME NEW r \in Path, NEW n \in Name
      PROVE  file'[<<r, n>>] = IF r = q /\ n \in DOMAIN m_files[p] THEN file[<<p, n>>]
                               ELSE file[<<r, n>>]
  BY <1>1 DEF Fork, Object
<1>4. ASSUME NEW r \in Path
      PROVE  DOMAIN m_files'[r] = IF r = q THEN DOMAIN m_files[p] ELSE DOMAIN m_files[r]
  BY <1>2 DEF Copies, RInv, FilesInv, Maps
<1>5. ASSUME NEW r \in Path, NEW n \in Name, NEW o \in 0..MaxOff - 1
      PROVE  DiskByte(r, n, o)' = IF r = q THEN DiskByte(p, n, o) ELSE DiskByte(r, n, o)
  <2>1. DiskByte(r, n, o)' = IF n \in DOMAIN m_files'[r] THEN ByteAt(file'[<<r, n>>].content, n, o)
                             ELSE <<n, o>>
    BY <1>1 DEF DiskByte, OwnFiles
  <2>2. /\ DiskByte(r, n, o) = IF n \in DOMAIN m_files[r] THEN ByteAt(file[<<r, n>>].content, n, o)
                               ELSE <<n, o>>
        /\ DiskByte(p, n, o) = IF n \in DOMAIN m_files[p] THEN ByteAt(file[<<p, n>>].content, n, o)
                               ELSE <<n, o>>
    BY <1>1, DiskIs
  <2> QED BY <1>1, <1>3, <1>4, <2>1, <2>2
<1>6. Disk' = [Disk EXCEPT ![q] = Disk[p]]
  <2>1. ASSUME NEW r \in Path
        PROVE  Disk'[r] = IF r = q THEN Disk[p] ELSE Disk[r]
    BY <1>1, <1>5 DEF Disk
  <2>2. DOMAIN Disk = Path /\ Disk' = [r \in Path |-> Disk'[r]]
    BY DEF Disk
  <2>3. Disk' = [r \in Path |-> IF r = q THEN Disk[p] ELSE Disk[r]]
    BY <2>1, <2>2
  <2> QED BY <2>2, <2>3
<1> QED BY <1>1, <1>2, <1>6 DEF Posix!Fork, Posix!Nothing

LEMMA PosixStutter == UNCHANGED fs /\ UNCHANGED said => UNCHANGED Posix!vars
BY DEF fs, Disk, DiskByte, Posix!vars

LEMMA PosixNext == RInv /\ [Next]_vars => [Posix!Next]_(Posix!vars)
<1> SUFFICES ASSUME RInv, [Next]_vars PROVE [Posix!Next]_(Posix!vars)
  OBVIOUS
<1>1. alive \subseteq Path /\ MaxFd \in Nat
  BY BoundAssumption DEF RInv, FilesInv, TypeOK
<1>2. CASE UNCHANGED vars
  BY <1>2, PosixStutter DEF vars, fs
<1>3. ASSUME NEW p \in alive, NEW n \in Name, Open(p, n) \/ Dump(p, n) PROVE Posix!Next
  BY <1>1, <1>3, PosixOpen, PosixDump DEF Posix!Next
<1>4. ASSUME NEW p \in alive, NEW fd \in 0..MaxFd, Close(p, fd) PROVE Posix!Next
  BY <1>1, <1>4, PosixClose DEF Posix!Next
<1>5. ASSUME NEW p \in alive, NEW fd \in 0..MaxFd, NEW off \in Offset, Seek(p, fd, off)
      PROVE  Posix!Next
  <2>1. Posix!Seek(p, fd, off) /\ fd \in DOMAIN m_open_files[p] /\ off \in 0..MaxOff /\ p \in Path
    BY <1>1, <1>5, PosixSeek DEF Offset
  <2> QED BY <2>1 DEF Posix!Next
<1>6. ASSUME NEW p \in alive, NEW fd \in 0..MaxFd, NEW off \in Offset, Read(p, fd, off)
      PROVE  Posix!Next
  <2>1. Posix!Read(p, fd, off) /\ fd \in DOMAIN m_open_files[p] /\ off \in 1..MaxOff /\ p \in Path
    BY <1>1, <1>6, PosixRead
  <2> QED BY <2>1 DEF Posix!Next
<1>7. ASSUME NEW p \in alive, NEW fd \in 0..MaxFd, NEW data \in Chunk, Write(p, fd, data)
      PROVE  Posix!Next
  <2>1. Posix!Write(p, fd, data) /\ fd \in DOMAIN m_open_files[p] /\ p \in Path
    BY <1>1, <1>7, PosixWrite
  <2> QED BY <2>1 DEF Posix!Next
<1>8. ASSUME NEW p \in alive, NEW fd, NEW len, Fail(p, fd, len) PROVE UNCHANGED Posix!vars
  BY <1>8, PosixStutter DEF Fail
<1>9. ASSUME NEW p \in alive, NEW q \in Path \ alive, Fork(p, q) PROVE Posix!Next
  <2>1. Posix!Fork(p, q) /\ p \in Path /\ q \in Path \ {p}
    BY <1>9, PosixFork
  <2> QED BY <2>1 DEF Posix!Next
<1>10. CASE Done
  BY <1>2, <1>10 DEF Done
<1> QED BY <1>2, <1>3, <1>4, <1>5, <1>6, <1>7, <1>8, <1>9, <1>10 DEF Next

\* What a path sees of its files through open, read, write, seek, close, fork and dump
\* is what it would see on a machine whose files are endless and were there from the
\* beginning, and no path sees what another one does: FileSystem.cpp and File.cpp, which
\* make bytes up when they are first read and clone the File objects at a fork.
THEOREM FilesArePosix == Spec => ImplementsPosix
<1>1. Init => RInv
  BY FInit, FilesInit DEF RInv
<1>2. RInv /\ [Next]_vars => RInv'
  BY FNext, FilesNext DEF RInv
<1> QED BY PosixInit, PosixNext, <1>1, <1>2, PTL DEF Spec, ImplementsPosix, Posix!Spec
=============================================================================
