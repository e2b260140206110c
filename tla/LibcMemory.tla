------------------------------- MODULE LibcMemory -------------------------------
(***************************************************************************)
(* The libc models that copy memory, over MapMemory: models/libc/string.cpp *)
(***************************************************************************)
EXTENDS MapMemory

\* memcpy::exec: State::read in the byte order of the (little-endian) processor, then
\* write_buf, in the order of the bytes.
Memcpy(dst, src, len) ==
  /\ Call /\ len > 0 /\ ~Throws({src}, len)
  /\ m_memory' = WriteAt(Touched(m_memory, {src}, len), dst,
                         ReadAt(m_memory, src, len, "LITTLE"), "BIG")
  /\ said' = <<>>
  /\ UNCHANGED <<pi, exact, phase>>

LibcNext == \/ Next
            \/ \E dst, src \in Address, len \in 1..MaxLen : Memcpy(dst, src, len)

LibcSpec == Init /\ [][LibcNext]_vars
-----------------------------------------------------------------------------
\* "if (heap_buf1[16] != buf[16]) // unreachable", after memcpy(heap_buf1, buf, sizeof
\* buf) (tests/programs/allocs.c:12-16): a copy has each byte where the original has it.
CopyKeepsBytes ==
  [][\A dst, src \in Address, len \in 1..MaxLen :
       Memcpy(dst, src, len) /\ Span(dst, len) \cap Span(src, len) = {} =>
         \A k \in 0..len - 1 :
           m_memory'[(dst + k) % Width] = ByteAt(m_memory, (src + k) % Width)]_vars
=============================================================================
