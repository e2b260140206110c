------------------------------ MODULE LibcRand ------------------------------
(***************************************************************************)
(* models/libc/random.cpp: rand and srand, glibc's additive generator over *)
(* a table.  Each path has a plugin with the two pointers into the table;  *)
(* the table itself is static, one for all paths.  The generator is the    *)
(* only one the table is set up for (TYPE_3), seeds are below 2^31.        *)
(* `series` and `disturbed` are not in the code.                           *)
(***************************************************************************)
EXTENDS Integers, Sequences, SequencesExt

CONSTANTS
  Path,
  Deg, Sep,              \* DEG_3 and SEP_3 (31 and 3)
  Multiplier, Modulus,   \* of the seeding (16807 and 2147483647)
  WordValues             \* values of a word (2^32)

VARIABLES
  randtbl,    \* the table
  plugin,     \* "libc::rand" of each path: <<>>, or <<its random_data>>
  result,     \* what rand last returned to each path, -1 before
  series,     \* each path's latest seed, and how many numbers it has drawn since
  disturbed   \* paths whose numbers another path has drawn or replaced

randVars == <<randtbl, plugin, result, series, disturbed>>

\* random_data: fptr and rptr as indices of the table.
state_template == [fptr |-> Sep, rptr |-> 0]

\* __random_r: the table after a draw, the pointers and the number.
__random_r(g) ==
  LET val  == (g.tbl[g.fptr] + g.tbl[g.rptr]) % WordValues
      last == g.fptr + 1 >= Deg
      rptr == g.rptr + 1
  IN  [tbl  |-> [g.tbl EXCEPT ![g.fptr] = val],
       fptr |-> IF last THEN 0 ELSE g.fptr + 1,
       rptr |-> IF ~last /\ rptr >= Deg THEN 0 ELSE rptr,
       res  |-> val \div 2]

\* The generator after n draws.
Drawn(g, n) ==
  LET after[k \in 0..n] == IF k = 0 THEN g ELSE __random_r(after[k - 1])
  IN  after[n]

\* __srandom_r: the table is filled from the seed, and ten times its length
\* is thrown away.
Filled(seed) ==
  LET word[i \in 0..(Deg - 1)] ==
        IF i = 0 THEN IF seed = 0 THEN 1 ELSE seed
        ELSE (Multiplier * word[i - 1]) % Modulus
  IN  word

__srandom_r(seed) ==
  Drawn([tbl |-> Filled(seed), fptr |-> Sep, rptr |-> 0, res |-> 0], 10 * Deg)

Pointers(g) == [fptr |-> g.fptr, rptr |-> g.rptr]

\* The plugin of a path that has none begins where the table did.
State(p) == IF plugin[p] = <<>> THEN state_template ELSE plugin[p][1]

Draw(p) ==
  LET d == State(p)
      g == __random_r([tbl |-> randtbl, fptr |-> d.fptr, rptr |-> d.rptr, res |-> 0])
  IN  /\ randtbl' = g.tbl
      /\ plugin' = [plugin EXCEPT ![p] = <<Pointers(g)>>]
      /\ result' = [result EXCEPT ![p] = g.res]
      /\ series' = [series EXCEPT ![p].n = @ + 1]
      /\ disturbed' = disturbed \cup (Path \ {p})

Seed(p, seed) ==
  LET g == __srandom_r(seed)
  IN  /\ randtbl' = g.tbl
      /\ plugin' = [plugin EXCEPT ![p] = <<Pointers(g)>>]
      /\ series' = [series EXCEPT ![p] = [seed |-> seed, n |-> 0]]
      /\ disturbed' = (disturbed \ {p}) \cup (Path \ {p})
      /\ UNCHANGED result

\* The table is compiled in with what srand(1) leaves.
RandInit ==
  /\ randtbl = __srandom_r(1).tbl
  /\ plugin = [p \in Path |-> <<>>]
  /\ result = [p \in Path |-> -1]
  /\ series = [p \in Path |-> [seed |-> 1, n |-> 0]]
  /\ disturbed = {}

\* Mutant: the clone is a new plugin.
clone_fresh(d) == IF d = <<>> THEN <<>> ELSE <<state_template>>

\* RandPlugin's copy constructor: the pointers are copied, what they point
\* to is shared.
clone(d) == d

\* PluginManager's copy constructor clones each plugin.
RandFork(p, q) ==
  /\ plugin' = [plugin EXCEPT ![q] = clone(plugin[p])]
  /\ result' = [result EXCEPT ![q] = result[p]]
  /\ series' = [series EXCEPT ![q] = series[p]]
  /\ disturbed' = IF p \in disturbed THEN disturbed \cup {q} ELSE disturbed \ {q}
  /\ UNCHANGED randtbl

(***************************************************************************)
(* The sequence itself, without a table: each number is the sum of the     *)
(* ones Deg and Sep before it.                                             *)
(***************************************************************************)
WithNext(z) == Append(z, (z[Len(z) + 1 - Deg] + z[Len(z) + 1 - Sep]) % WordValues)

Sums(seed, n) ==
  LET start == [i \in 1..Deg |-> Filled(seed)[(Sep + i - 1) % Deg]]
  IN  FoldLeft(LAMBDA z, k : WithNext(z), start, [k \in 1..(10 * Deg + n) |-> k])

Random(seed, n) == Last(Sums(seed, n)) \div 2

-----------------------------------------------------------------------------
\* A path whose generator no other path has touched since it was seeded, or
\* since the start, draws the numbers of C's generator, also over forks.
DrawsAsC ==
  \A p \in Path \ disturbed :
    series[p].n > 0 => result[p] = Random(series[p].seed, series[p].n)
=============================================================================
