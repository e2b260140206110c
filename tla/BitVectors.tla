----------------------------- MODULE BitVectors -----------------------------
(***************************************************************************)
(* expr/BVConst.cpp: the constants of the expressions.  A constant is its  *)
(* size and its unsigned value; the operators here take values and the     *)
(* size they share.  Up to Word bits the class keeps the value in a        *)
(* uint64_t (m_small_val), above that in a GMP integer (m_big_val), and    *)
(* the two representations do not always compute the same.                 *)
(***************************************************************************)
EXTENDS Integers
LOCAL INSTANCE Bitwise

CONSTANTS
  Word,      \* bits of a uint64_t (64)
  IntBits    \* bits of the uint32_t a shift amount is passed in (32)

\* What the m_small_val of a large constant holds: no constructor sets it.
VARIABLE junk

ASSUME WordAssumption == /\ Word \in Nat \ {0}
                         /\ IntBits \in 1..Word

is_big(n) == n > Word

adjust_bits(v, n) == v % 2^n
all_ones(n)       == adjust_bits(-1, n)
bit(v, i)         == (v \div 2^i) % 2

\* Two's complement, of either representation.
_sext(v, n) == IF bit(v, n - 1) = 1 THEN v - 2^n ELSE v

ult(v, w) == v < w

\* as_u64 gives up on a large value; of a small enough value of a large
\* constant it returns a field that was never written.
fit_in_u64(v, n) == ~is_big(n) \/ v < 2^Word
as_u64(v, n)     == IF is_big(n) THEN junk ELSE v

add(v, w, n)     == adjust_bits(v + w, n)
sub(v, w, n)     == adjust_bits(v - w, n)
mul(v, w, n)     == adjust_bits(v * w, n)
udiv(v, w)       == v \div w
urem(v, w)       == v % w
neg(v, n)        == adjust_bits(-_sext(v, n), n)
bit_not(v, n)    == adjust_bits(-v - 1, n)
band(v, w)       == v & w
bor(v, w)        == v | w
bxor(v, w)       == v ^^ w

\* Both representations divide towards zero.
Truncated(a, b) ==
  LET q == (IF a < 0 THEN -a ELSE a) \div (IF b < 0 THEN -b ELSE b)
  IN  IF (a < 0) = (b < 0) THEN q ELSE -q

sdiv(v, w, n) == adjust_bits(Truncated(_sext(v, n), _sext(w, n)), n)
srem(v, w, n) ==
  LET a == _sext(v, n)
      b == _sext(w, n)
  IN  adjust_bits(a - b * Truncated(a, b), n)

\* The machine's division traps on the least value divided by -1, which only
\* the full word can hold: narrower ones are divided as words.
DivisionTraps(v, w, n) == n = Word /\ v = 2^(n - 1) /\ w = all_ones(n)

\* A shift amount arrives as a uint32_t.  The machine masks the amount of a
\* word's arithmetic shift; lshr and shl test it first.
Amount(s) == s % 2^IntBits

ashr(v, n, s) ==
  LET by == IF is_big(n) THEN s ELSE s % Word
  IN  IF s = 0 THEN v ELSE adjust_bits(_sext(v, n) \div 2^by, n)

lshr(v, n, s) == IF s >= n THEN 0 ELSE v \div 2^s

\* Shifting a large constant left rewrites the bits from s on and leaves the
\* low s bits as they were.
shl(v, n, s) ==
  IF s >= n THEN 0
  ELSE adjust_bits(v * 2^s, n) + (IF is_big(n) THEN v % 2^s ELSE 0)

concat(v, w, m)       == v * 2^m + w
sext(v, n, m)         == adjust_bits(_sext(v, n), m)
extract(v, high, low) == (v \div 2^low) % 2^(high - low + 1)

\* The comparison of large constants says that a positive one is below a
\* negative one.
slt(v, w, n) ==
  IF ~is_big(n) THEN _sext(v, n) < _sext(w, n)
  ELSE \/ bit(v, n - 1) # bit(w, n - 1)
       \/ v < w
ule(v, w)    == v = w \/ ult(v, w)
sle(v, w, n) == v = w \/ slt(v, w, n)
=============================================================================
