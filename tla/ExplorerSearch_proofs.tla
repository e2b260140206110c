----------------------- MODULE ExplorerSearch_proofs -----------------------
(***************************************************************************)
(* What the answers of an exploration mean, for every program, every set   *)
(* of inputs and every bound: a state that is found is a witness, and as   *)
(* far as the limits of MapMemory, max_forks and printable_stdin let       *)
(* inputs go on, "state not found" is a proof, the paths reported cover    *)
(* the inputs, and breadth-first search finds the nearest block.  And      *)
(* exploring implements ConcreteRuns: each input follows its own concrete  *)
(* run until it ends, is reported or returned, or is given up for a reason *)
(* ConcreteRuns lists.                                                     *)
(***************************************************************************)
EXTENDS Explorer_proofs

-----------------------------------------------------------------------------
(***************************************************************************)
(* The blocks of a concrete run, in order.                                 *)
(***************************************************************************)
LEMMA Least ==
  ASSUME NEW T, T \subseteq Nat, T # {}
  PROVE  \E n \in T : \A m \in T : n <= m
<1>1. PICK n \in T : \A m \in T : ~ (<<m, n>> \in OpToRel(<, Nat))
  BY NatLessThanWellFounded, WFMin
<1>2. \A m \in T : ~(m < n)
  <2>1. \A m, k \in Nat : m < k => <<m, k>> \in OpToRel(<, Nat)
    BY DEF OpToRel
  <2> QED BY <1>1, <2>1
<1> QED BY <1>2

\* A step stays in the block or starts the next one.
LEMMA StepDepth ==
  ASSUME NEW j \in Job, NEW c \in Config
  PROVE  StepOf(j, c).depth \in {c.depth, c.depth + 1}
<1> DEFINE o == Conf[j].code[c.pc]
<1>1. ASSUME NEW b, b \in [pc: Addr, val: Val, depth: Nat] \/ \E v : b = [c EXCEPT !.val = v],
             b.depth = c.depth
      PROVE  /\ \A a : Goto(b, a).depth = c.depth + 1
             /\ FallThrough(o, b).depth \in {c.depth, c.depth + 1}
  BY <1>1 DEF Goto, FallThrough, Config
<1>2. ASSUME NEW v PROVE [c EXCEPT !.val = v].depth = c.depth
  BY DEF Config
<1>3. /\ \A a : Goto(c, a).depth = c.depth + 1
      /\ FallThrough(o, c).depth \in {c.depth, c.depth + 1}
  BY <1>1 DEF Config
<1>4. ASSUME NEW v
      PROVE  /\ \A a : Goto([c EXCEPT !.val = v], a).depth = c.depth + 1
             /\ FallThrough(o, [c EXCEPT !.val = v]).depth \in {c.depth, c.depth + 1}
  BY <1>1, <1>2
<1> HIDE DEF o
<1> QED BY <1>3, <1>4 DEF StepOf, o

LEMMA RunStep ==
  ASSUME NEW j \in Job, NEW i \in Input, NEW n \in Steps
  PROVE  /\ n \in Nat /\ Run[j][i][n] \in Config
         /\ n + 1 \in Steps => Run[j][i][n + 1] = StepOf(j, Run[j][i][n])
         /\ n + 1 \notin Steps => StepOf(j, Run[j][i][n]) = Run[j][i][n]
         /\ n # 0 => n - 1 \in Steps /\ Run[j][i][n] = StepOf(j, Run[j][i][n - 1])
<1>1. /\ Steps \subseteq Nat /\ (n # 0 => n - 1 \in Steps)
      /\ Run[j][i] \in [Steps -> Config]
      /\ \A m \in Steps : StepOf(j, Run[j][i][m]) =
                           IF m + 1 \in Steps THEN Run[j][i][m + 1] ELSE Run[j][i][m]
  BY RunAssumption
<1>2. n # 0 => (n - 1) + 1 = n
  BY <1>1
<1> QED BY <1>1, <1>2

\* Blocks are counted upwards.
LEMMA DepthGrows ==
  ASSUME NEW j \in Job, NEW i \in Input, NEW n \in Steps, NEW m \in Steps, n <= m
  PROVE  Run[j][i][n].depth <= Run[j][i][m].depth
<1> DEFINE d(k) == Run[j][i][k].depth
           T == {k \in Steps : n <= k /\ ~(d(n) <= d(k))}
<1>1. \A k \in Steps : k \in Nat /\ d(k) \in Nat
  BY RunStep DEF Config
<1> SUFFICES ASSUME T # {} PROVE FALSE
  OBVIOUS
<1>2. PICK k \in T : \A l \in T : k <= l
  BY <1>1, Least
<1>3. k \in Steps /\ n <= k /\ ~(d(n) <= d(k)) /\ k # n
  BY <1>1, <1>2
<1>4. k # 0
  BY <1>1, <1>3
<1>5. k - 1 \in Steps /\ Run[j][i][k] = StepOf(j, Run[j][i][k - 1])
  BY <1>3, <1>4, RunStep
<1>6. d(k) \in {d(k - 1), d(k - 1) + 1}
  BY <1>5, RunStep, StepDepth
<1>7. n <= k - 1 /\ k - 1 \notin T
  BY <1>1, <1>2, <1>3, <1>5
<1>8. d(n) <= d(k - 1)
  BY <1>5, <1>7
<1>9. d(n) \in Nat /\ d(k) \in Nat /\ d(k - 1) \in Nat
  BY <1>1, <1>3, <1>5
<1> HIDE DEF d
<1> QED BY <1>3, <1>6, <1>8, <1>9

\* Once a run stops it has stopped.
LEMMA StopsForGood ==
  ASSUME NEW j \in Job, NEW i \in Input, NEW n \in Steps, NEW m \in Steps, n <= m,
         StepOf(j, Run[j][i][n]) = Run[j][i][n]
  PROVE  Run[j][i][m] = Run[j][i][n]
<1> DEFINE T == {k \in Steps : n <= k /\ Run[j][i][k] # Run[j][i][n]}
<1> SUFFICES ASSUME T # {} PROVE FALSE
  OBVIOUS
<1>1. \A k \in Steps : k \in Nat
  BY RunStep
<1>2. PICK k \in T : \A l \in T : k <= l
  BY <1>1, Least
<1>3. k \in Steps /\ n <= k /\ k # n /\ k # 0
  BY <1>1, <1>2
<1>4. k - 1 \in Steps /\ Run[j][i][k] = StepOf(j, Run[j][i][k - 1])
  BY <1>3, RunStep
<1>5. n <= k - 1 /\ k - 1 \notin T
  BY <1>1, <1>2, <1>3, <1>4
<1>6. Run[j][i][k - 1] = Run[j][i][n]
  BY <1>4, <1>5
<1> QED BY <1>2, <1>4, <1>6

\* Where the blocks of a run start.
LEMMA BlockStartAt ==
  ASSUME TypeOK, NEW i \in Input, NEW c \in BlockStarts(i)
  PROVE  \E n \in Steps : /\ n + 1 \in Steps /\ c = Run[job][i][n + 1]
                          /\ c.depth = Run[job][i][n].depth + 1
<1>1. PICK b \in Reach[job][i] : c = StepOf(job, b) /\ c.depth = b.depth + 1
  BY DEF BlockStarts
<1>2. job \in Job
  BY DEF TypeOK
<1>3. PICK n \in Steps : b = Run[job][i][n]
  BY <1>1, <1>2 DEF Reach
<1>4. b.depth \in Nat
  BY <1>2, <1>3, RunStep DEF Config
<1>5. n + 1 \in Steps
  BY <1>1, <1>2, <1>3, <1>4, RunStep
<1> QED BY <1>1, <1>2, <1>3, <1>5, RunStep

LEMMA BlockStartType ==
  ASSUME TypeOK, NEW i \in Input, NEW c \in BlockStarts(i)
  PROVE  c \in Config /\ c.depth \in Nat \ {0}
<1>1. PICK n \in Steps : /\ n + 1 \in Steps /\ c = Run[job][i][n + 1]
                         /\ c.depth = Run[job][i][n].depth + 1
  BY BlockStartAt
<1>2. job \in Job
  BY DEF TypeOK
<1>3. c \in Config /\ Run[job][i][n].depth \in Nat
  BY <1>1, <1>2, RunStep DEF Config
<1> QED BY <1>1, <1>3 DEF Config

\* There is one block of each depth.
LEMMA BlockStartUnique ==
  ASSUME TypeOK, NEW i \in Input, NEW b \in BlockStarts(i), NEW c \in BlockStarts(i),
         b.depth = c.depth
  PROVE  b = c
<1>1. PICK n \in Steps : /\ n + 1 \in Steps /\ b = Run[job][i][n + 1]
                         /\ b.depth = Run[job][i][n].depth + 1
  BY BlockStartAt
<1>2. PICK m \in Steps : /\ m + 1 \in Steps /\ c = Run[job][i][m + 1]
                         /\ c.depth = Run[job][i][m].depth + 1
  BY BlockStartAt
<1>3. job \in Job /\ n \in Nat /\ m \in Nat
  BY RunStep DEF TypeOK
<1>4. Run[job][i][n].depth \in Nat /\ Run[job][i][m].depth \in Nat
  BY <1>3, RunStep DEF Config
<1>5. ~(n + 1 <= m)
  <2> SUFFICES ASSUME n + 1 <= m PROVE FALSE
    OBVIOUS
  <2>1. Run[job][i][n + 1].depth <= Run[job][i][m].depth
    BY <1>1, <1>2, <1>3, DepthGrows
  <2> QED BY <1>1, <1>2, <1>4, <2>1
<1>6. ~(m + 1 <= n)
  <2> SUFFICES ASSUME m + 1 <= n PROVE FALSE
    OBVIOUS
  <2>1. Run[job][i][m + 1].depth <= Run[job][i][n].depth
    BY <1>1, <1>2, <1>3, DepthGrows
  <2> QED BY <1>1, <1>2, <1>4, <2>1
<1>7. n = m
  BY <1>3, <1>5, <1>6
<1> QED BY <1>1, <1>2, <1>7

\* A step into the next block starts it.
LEMMA BlockStarted ==
  ASSUME TypeOK, NEW i \in Input, NEW b \in Reach[job][i],
         StepOf(job, b).depth = b.depth + 1
  PROVE  StepOf(job, b) \in BlockStarts(i)
<1>1. StepOf(job, b) \in Reach[job][i]
  BY ReachClosed DEF TypeOK
<1> QED BY <1>1 DEF BlockStarts

\* No block starts after the program has ended.
LEMMA NothingAfterTheEnd ==
  ASSUME TypeOK, NEW i \in Input, NEW e \in Reach[job][i], StepOf(job, e) = e,
         NEW c \in BlockStarts(i)
  PROVE  c.depth <= e.depth
<1>1. PICK n \in Steps : /\ n + 1 \in Steps /\ c = Run[job][i][n + 1]
                         /\ c.depth = Run[job][i][n].depth + 1
  BY BlockStartAt
<1>2. job \in Job
  BY DEF TypeOK
<1>3. PICK m \in Steps : e = Run[job][i][m]
  BY <1>2 DEF Reach
<1>4. n \in Nat /\ m \in Nat /\ Run[job][i][n].depth \in Nat
  BY <1>2, RunStep DEF Config
<1>5. CASE n + 1 <= m
  BY <1>1, <1>2, <1>3, <1>5, DepthGrows
<1>6. CASE m <= n
  <2>1. m <= n + 1
    BY <1>4, <1>6
  <2>2. Run[job][i][n] = e /\ Run[job][i][n + 1] = e
    BY <1>1, <1>2, <1>3, <1>6, <2>1, StopsForGood
  <2> QED BY <1>1, <1>4, <2>2
<1> QED BY <1>4, <1>5, <1>6

-----------------------------------------------------------------------------
(***************************************************************************)
(* The inductive invariant of the search, in parts.                        *)
(***************************************************************************)
\* No block of i's run before the d-th one is at an address looked for or avoided.
Passed(i, d) ==
  \A c \in BlockStarts(i) : c.depth < d => c.pc \notin conf.find \cup conf.avoid

\* Between rounds nothing is left of a block, and each mode has its own results.
Shape ==
  /\ phase \in {"select", "exhausted"} => act = <<>> /\ ext = <<>>
  /\ phase \in {"select", "exec", "exhausted"} => keep = <<>>
  /\ phase = "exhausted" => NothingPending(frontier)
  /\ conf.mode = "explore" => reported = {}
  /\ conf.mode = "gen_paths" => exited = {}

\* A successor is at the start of a block not looked at yet; no other state is past
\* a block that would have ended it.
Clean ==
  conf.mode = "explore" /\ phase # "found" =>
    \A id \in Id : \A i \in Own(heap[id]) :
      IF In(act, id) THEN ConfigOf(id, i) \in BlockStarts(i) /\ Passed(i, heap[id].depth)
                     ELSE Passed(i, heap[id].depth + 1)

\* The first block of i's run at which a search may end is one to avoid.
Avoids(i) ==
  \E a \in BlockStarts(i) : a.pc \in conf.avoid \ conf.find /\ Passed(i, a.depth)

\* i's run meets a limit, and no block before at which a search may end.
Capped(i) == \E l \in Limits[job][i] : conf.mode = "explore" => Passed(i, l.depth + 1)

\* Where an input may be without being held by a state.
Settled(i) == (conf.mode = "explore" /\ Avoids(i)) \/ Capped(i)

HeldOrSettled ==
  Exact(job) /\ phase # "found" =>
    \A i \in Input : (\E id \in Id : i \in heap[id].pi) \/ Settled(i)

ReportedFeasible == phase # "found" => \A id \in reported : heap[id].pi # {}

\* Breadth-first search is at block d of every run: what waits is there or one block
\* further, the nearer at the back of the list.
AtLevel(d) ==
  /\ phase = "exec" => heap[cur].depth = d
  /\ \A id \in Id : In(act, id) \/ In(keep, id) => heap[id].depth = d + 1
  /\ \A k \in DOMAIN frontier.main : heap[frontier.main[k]].depth \in {d, d + 1}
  /\ \A k, l \in DOMAIN frontier.main :
       k <= l => heap[frontier.main[l]].depth <= heap[frontier.main[k]].depth

Level ==
  conf.tech = "bfs" /\ phase # "found" =>
    /\ frontier.context = <<>> /\ frontier.other = <<>>
    /\ \E d \in Nat : AtLevel(d)

\* What is said of a run does not change.
LEMMA RunStays ==
  [Next]_vars => \A i, d : /\ BlockStarts(i)' = BlockStarts(i)
                           /\ Passed(i, d)' <=> Passed(i, d)
<1> SUFFICES ASSUME [Next]_vars
             PROVE  \A i, d : /\ BlockStarts(i)' = BlockStarts(i)
                              /\ Passed(i, d)' <=> Passed(i, d)
  OBVIOUS
<1>1. job' = job /\ conf' = conf
  BY JobStays
<1>2. \A i : BlockStarts(i)' = BlockStarts(i)
  BY <1>1 DEF BlockStarts
<1> QED BY <1>1, <1>2 DEF Passed

LEMMA SettledForGood == [Next]_vars => \A i : Settled(i)' <=> Settled(i)
<1> SUFFICES ASSUME [Next]_vars PROVE \A i : Settled(i)' <=> Settled(i)
  OBVIOUS
<1>1. /\ job' = job /\ conf' = conf
      /\ \A i, d : BlockStarts(i)' = BlockStarts(i) /\ (Passed(i, d)' <=> Passed(i, d))
  BY JobStays, RunStays
<1>2. \A i : Avoids(i)' <=> Avoids(i)
  BY <1>1 DEF Avoids
<1>3. \A i : Capped(i)' <=> Capped(i)
  BY <1>1 DEF Capped
<1> QED BY <1>1, <1>2, <1>3 DEF Settled

\* How a step of a block ends.
LEMMA ExecPhases ==
  ExecuteOp => /\ phase' \in {"exec", "sift", "failed"}
               /\ phase' = "exec" => cur' = cur
               /\ phase' = "failed" => heap' = heap /\ act' = act
BY DEF ExecuteOp, DataOp, UnsatState, CBranchLazy, CBranchEager, Branch, DirectJump,
       ConstantIP, SymbolicIP, UnsatIP, UnconstrainedIP, ForkIP, LibReturn, LibExit, ExitFail,
       NoState, Continue, Push, Executing

LEMMA ShapeInit == Init => Shape
<1> SUFFICES ASSUME Init PROVE Shape
  OBVIOUS
<1>1. conf \in JobConf
  BY ConfType DEF Init
<1>2. conf.mode \in {"explore", "gen_paths"}
  BY <1>1 DEF JobConf
<1> QED BY <1>2 DEF Init, Shape

LEMMA ShapeStep == Shape /\ [Next]_vars => Shape'
<1> SUFFICES ASSUME Shape, [Next]_vars PROVE Shape'
  OBVIOUS
<1>1. conf' = conf
  BY JobStays
<1>2. CASE Select \/ Exhaust \/ NextRound \/ Finished \/ UNCHANGED vars
  BY <1>1, <1>2 DEF Shape, Select, Exhaust, NextRound, Finished, vars, exec, manager
<1>3. CASE SiftExited
  BY <1>1, <1>3 DEF Shape, SiftExited
<1>4. CASE ReturnFound \/ DropSuccessor \/ KeepSuccessor \/ AddActive
  BY <1>1, <1>4 DEF Shape, ReturnFound, DropSuccessor, KeepSuccessor, Sifting, AddActive,
                    exec, manager
<1>5. CASE ExecuteBlock
  <2>1. phase = "exec" /\ UNCHANGED manager
    BY <1>5, ExecPhase DEF ExecuteBlock
  <2>2. phase' \in {"exec", "sift", "failed"}
    BY <1>5, <2>1, ExecPhases DEF ExecuteBlock
  <2> QED BY <1>1, <2>1, <2>2 DEF Shape, manager
<1> QED BY <1>2, <1>3, <1>4, <1>5 DEF Next

LEMMA DepthType ==
  ASSUME TypeOK, NEW id \in Id, NEW i \in heap[id].pi
  PROVE  /\ i \in Input /\ heap[id].depth \in Nat
         /\ ConfigOf(id, i).depth = heap[id].depth /\ ConfigOf(id, i).pc = heap[id].pc
BY DEF TypeOK, SymState, ConfigOf, ConfigIn

LEMMA OwnIsHeld ==
  /\ \A st : Own(st) \subseteq st.pi
  /\ IInv /\ Exact(job) => \A id \in Id : Own(heap[id]) = heap[id].pi
  /\ Own(Blank) = {}
BY DEF Own, Blank, IInv, Sound

\* A block that starts at the d-th one's depth is the d-th one.
LEMMA PassedOne ==
  ASSUME TypeOK, NEW i \in Input, NEW b \in BlockStarts(i), Passed(i, b.depth),
         b.pc \notin conf.find \cup conf.avoid
  PROVE  Passed(i, b.depth + 1)
<1> SUFFICES ASSUME NEW c \in BlockStarts(i), c.depth < b.depth + 1
             PROVE  c.pc \notin conf.find \cup conf.avoid
  BY DEF Passed
<1>1. b.depth \in Nat /\ c.depth \in Nat
  BY BlockStartType
<1>2. CASE c.depth = b.depth
  BY <1>2, BlockStartUnique
<1>3. CASE c.depth < b.depth
  BY <1>3 DEF Passed
<1> QED BY <1>1, <1>2, <1>3

LEMMA CleanInit == Init => Clean
<1> SUFFICES ASSUME Init PROVE Clean
  OBVIOUS
<1>1. TypeOK
  BY TypeInit
<1>a. SUFFICES ASSUME NEW id \in Id, NEW i \in Own(heap[id])
               PROVE  Passed(i, heap[id].depth + 1)
  BY DEF Clean, Init, In
<1>2. i \in heap[id].pi
  BY OwnIsHeld
<1>3. heap[id].depth = 0
  BY DEF Init, Blank
<1> SUFFICES ASSUME NEW c \in BlockStarts(i), c.depth < 0 + 1 PROVE FALSE
  BY <1>3 DEF Passed
<1>4. c.depth \in Nat \ {0}
  BY <1>1, <1>2, DepthType, BlockStartType
<1> QED BY <1>4

\* Letting go of states, with the other ones where they were.
LEMMA CleanKept ==
  ASSUME TypeOK, Clean, phase # "found", [Next]_vars, act' = act,
         \A id \in Id : heap'[id] = heap[id] \/ heap'[id] = Blank
  PROVE  Clean'
<1>1. /\ conf' = conf
      /\ \A i, d : BlockStarts(i)' = BlockStarts(i) /\ (Passed(i, d)' <=> Passed(i, d))
  BY JobStays, RunStays
<1> SUFFICES ASSUME conf.mode = "explore", NEW id \in Id, NEW i \in Own(heap'[id])
             PROVE  IF In(act', id)
                    THEN ConfigOf(id, i)' \in BlockStarts(i) /\ Passed(i, heap'[id].depth)
                    ELSE Passed(i, heap'[id].depth + 1)
  BY <1>1 DEF Clean
<1>2. heap'[id] = heap[id]
  BY OwnIsHeld
<1>3. ConfigOf(id, i)' = ConfigOf(id, i) /\ i \in Own(heap[id])
  BY <1>2 DEF ConfigOf
<1> QED BY <1>2, <1>3 DEF Clean

LEMMA CleanExec ==
  ASSUME IInv, OwnerInv, Clean, ExecuteBlock, [Next]_vars
  PROVE  Clean'
<1>1. TypeOK /\ phase = "exec" /\ cur \in Id /\ ExecuteOp /\ UnusedIsEmpty /\ Sound
  BY ExecPhase, OpType DEF ExecuteBlock, IInv
<1>2. CASE phase' = "failed"
  BY <1>1, <1>2, ExecPhases, CleanKept
<1>3. CASE phase' # "failed"
  <2>1. /\ conf' = conf
        /\ \A i, d : BlockStarts(i)' = BlockStarts(i) /\ (Passed(i, d)' <=> Passed(i, d))
    BY JobStays, RunStays
  <2> SUFFICES ASSUME conf.mode = "explore", NEW id \in Id, NEW i \in Own(heap'[id])
               PROVE  IF In(act', id)
                      THEN ConfigOf(id, i)' \in BlockStarts(i) /\ Passed(i, heap'[id].depth)
                      ELSE Passed(i, heap'[id].depth + 1)
    BY <2>1 DEF Clean
  <2>2. Moves
    BY <1>1, ExecMoves
  <2>3. /\ \/ i \in Own(heap[id]) /\ ConfigOf(id, i)' = ConfigOf(id, i)
           \/ i \in Own(heap[cur]) /\ ConfigOf(id, i)' = StepOf(job, ConfigOf(cur, i))
        /\ heap'[id].live # FALSE
    BY <2>2, OwnIsHeld DEF Moves
  <2>4. Evolves(id)
    BY <1>1, <1>3, ExecEvolves
  <2>5. CASE id # cur /\ heap[id].live /\ Untouched(id)
    <3>1. /\ heap'[id] = heap[id] /\ (In(act', id) <=> In(act, id)) /\ i \in Own(heap[id])
          /\ ConfigOf(id, i)' = ConfigOf(id, i)
      BY <2>5 DEF Untouched, ConfigOf
    <3> QED BY <1>1, <3>1 DEF Clean
  <2>6. CASE (id = cur \/ ~heap[id].live) /\ NextBlock(id)
    <3>1. In(act', id) /\ heap'[id].depth = heap[cur].depth + 1
      BY <2>6 DEF NextBlock
    <3>2. heap[cur].depth \in Nat /\ ConfigOf(id, i)'.depth = heap'[id].depth
      BY <1>1 DEF TypeOK, SymState, ConfigOf, ConfigIn
    <3>3. i \in Own(heap[cur]) /\ ConfigOf(id, i)' = StepOf(job, ConfigOf(cur, i))
      <4> SUFFICES ASSUME i \in Own(heap[id]), ConfigOf(id, i)' = ConfigOf(id, i) PROVE FALSE
        BY <2>3
      <4>1. id = cur
        BY <1>1, <2>6, OwnIsHeld DEF UnusedIsEmpty
      <4>2. ConfigOf(id, i).depth = heap[cur].depth
        BY <4>1 DEF ConfigOf, ConfigIn
      <4> QED BY <3>1, <3>2, <4>2
    <3>4. ConfigOf(cur, i) \in Reach[job][i] /\ ConfigOf(cur, i).depth = heap[cur].depth /\ i \in Input
      BY <1>1, <3>3, DepthType, OwnIsHeld DEF Sound
    <3>5. ConfigOf(id, i)' \in BlockStarts(i)
      BY <1>1, <3>1, <3>2, <3>3, <3>4, BlockStarted
    <3>6. ~In(act, cur)
      BY <1>1, NotInAct
    <3>7. Passed(i, heap[cur].depth + 1)
      BY <1>1, <3>3, <3>6 DEF Clean
    <3> QED BY <3>1, <3>5, <3>7
  <2>7. CASE id = cur /\ SameBlock(id)
    <3>1. ~In(act', id) /\ heap'[id].depth = heap[cur].depth /\ i \in Own(heap[cur])
      BY <2>3, <2>7 DEF SameBlock
    <3>2. ~In(act, cur)
      BY <1>1, NotInAct
    <3> QED BY <1>1, <3>1, <3>2 DEF Clean
  <2>8. heap'[id].live \in BOOLEAN
    BY <1>1, TypeStep DEF TypeOK, SymState
  <2> QED BY <2>3, <2>4, <2>5, <2>6, <2>7, <2>8 DEF Evolves
<1> QED BY <1>2, <1>3

\* The first successor is nowhere else.
LEMMA SiftOne ==
  ASSUME TypeOK, OwnerInv, NEW id \in Id, Sifting(id), act' = Tail(act), NEW other \in Id
  PROVE  /\ ~In(Tail(act), id) /\ In(act, id)
         /\ other # id => (In(act', other) <=> In(act, other))
<1>1. act \in Seq(Id) /\ act # <<>> /\ id = Head(act) /\ phase = "sift"
  BY DEF Sifting, TypeOK
<1>2. Tail(act) \in Seq(Id) /\ Count(act, id) = Count(Tail(act), id) + Is(Head(act) = id)
  BY <1>1, CountTail
<1>3. Count(act, id) <= 1
  BY <1>1, OnePlace
<1>4. Count(Tail(act), id) \in Nat /\ (In(Tail(act), id) <=> Count(Tail(act), id) >= 1)
  BY <1>2, InCount
<1>5. ~In(Tail(act), id)
  BY <1>1, <1>2, <1>3, <1>4 DEF Is
<1>6. In(act, id) /\ (other # id => (In(act', other) <=> In(act, other)))
  BY <1>1, InTail
<1> QED BY <1>5, <1>6

LEMMA CleanSift ==
  ASSUME TypeOK, OwnerInv, Clean, DropSuccessor \/ KeepSuccessor, [Next]_vars
  PROVE  Clean'
<1>1. PICK g \in Id :
        /\ Sifting(g) /\ act' = Tail(act)
        /\ \/ heap' = [heap EXCEPT ![g] = Blank]
           \/ heap' = heap /\ ~Wanted(g) /\ ~Avoided(g)
  BY DEF DropSuccessor, KeepSuccessor
<1>2. /\ conf' = conf /\ heap \in [Id -> SymState]
      /\ \A i, d : BlockStarts(i)' = BlockStarts(i) /\ (Passed(i, d)' <=> Passed(i, d))
  BY JobStays, RunStays DEF TypeOK
<1>3. phase # "found"
  BY <1>1 DEF Sifting
<1> SUFFICES ASSUME conf.mode = "explore", NEW id \in Id, NEW i \in Own(heap'[id])
             PROVE  IF In(act', id)
                    THEN ConfigOf(id, i)' \in BlockStarts(i) /\ Passed(i, heap'[id].depth)
                    ELSE Passed(i, heap'[id].depth + 1)
  BY <1>2 DEF Clean
<1>4. heap'[id] = heap[id]
  BY <1>1, <1>2, OwnIsHeld
<1>5. ConfigOf(id, i)' = ConfigOf(id, i) /\ i \in Own(heap[id])
  BY <1>4 DEF ConfigOf
<1>6. CASE id # g
  <2>1. In(act', id) <=> In(act, id)
    BY <1>1, <1>6, SiftOne
  <2> QED BY <1>3, <1>4, <1>5, <2>1 DEF Clean
<1>7. CASE id = g
  <2>1. In(act, g) /\ ~In(act', g)
    BY <1>1, SiftOne
  <2>2. ConfigOf(g, i) \in BlockStarts(i) /\ Passed(i, heap[g].depth)
    BY <1>3, <1>5, <1>7, <2>1 DEF Clean
  <2>3. ~Wanted(g) /\ ~Avoided(g)
    BY <1>1, <1>2, <1>7, OwnIsHeld
  <2>4. heap[g].pc \notin conf.find \cup conf.avoid
    BY <2>3 DEF Wanted, Avoided
  <2>5. i \in Input /\ ConfigOf(g, i).depth = heap[g].depth /\ ConfigOf(g, i).pc = heap[g].pc
    BY <1>5, <1>7, DepthType, OwnIsHeld
  <2>6. Passed(i, heap[g].depth + 1)
    BY <2>2, <2>4, <2>5, PassedOne
  <2> QED BY <1>4, <1>7, <2>1, <2>6
<1> QED BY <1>6, <1>7

LEMMA CleanStep == IInv /\ OwnerInv /\ Clean /\ [Next]_vars => Clean'
<1> SUFFICES ASSUME IInv, OwnerInv, Clean, [Next]_vars PROVE Clean'
  OBVIOUS
<1>1. TypeOK /\ heap \in [Id -> SymState]
  BY DEF IInv, TypeOK
<1>2. CASE ExecuteBlock
  BY <1>2, CleanExec
<1>3. CASE Select \/ Exhaust \/ AddActive \/ NextRound
  <2>1. heap' = heap /\ act' = act /\ phase # "found"
    BY <1>3 DEF Select, Exhaust, AddActive, NextRound, exec
  <2> QED BY <1>1, <2>1, CleanKept
<1>4. CASE Finished \/ UNCHANGED vars
  <2>1. UNCHANGED vars
    BY <1>4 DEF Finished
  <2>2. CASE phase = "found"
    BY <2>1, <2>2 DEF Clean, vars, exec
  <2>3. CASE phase # "found"
    BY <1>1, <2>1, <2>3, CleanKept DEF vars, exec
  <2> QED BY <2>2, <2>3
<1>5. CASE SiftExited
  <2>1. act' = act /\ phase # "found" /\ \A id \in Id : heap'[id] = heap[id] \/ heap'[id] = Blank
    BY <1>1, <1>5 DEF SiftExited
  <2> QED BY <1>1, <2>1, CleanKept
<1>6. CASE ReturnFound
  BY <1>6 DEF ReturnFound, Clean
<1>7. CASE DropSuccessor \/ KeepSuccessor
  BY <1>1, <1>7, CleanSift
<1> QED BY <1>2, <1>3, <1>4, <1>5, <1>6, <1>7 DEF Next

-----------------------------------------------------------------------------
(***************************************************************************)
(* What is found.                                                          *)
(***************************************************************************)
\* Returning a state leaves it, and those that have exited or wait, alone.
LEMMA ReturnKeeps ==
  ASSUME TypeOK, OwnerInv, NEW id \in Id, Sifting(id), NEW other \in Id,
         \/ other = id \/ other \in exited \/ Listed(other),
         heap' = [o \in Id |-> IF \/ \E k \in 2..Len(act) : act[k] = o
                                  \/ \E k \in DOMAIN keep : keep[k] = o
                               THEN Blank ELSE heap[o]]
  PROVE  heap'[other] = heap[other]
<1>1. /\ act \in Seq(Id) /\ act # <<>> /\ id = act[1] /\ phase # "found" /\ keep \in Seq(Id)
      /\ 1 \in DOMAIN act
  BY DEF Sifting, TypeOK
<1>2. In(act, id)
  BY <1>1 DEF In
<1>3. ~In(keep, other)
  BY <1>1, <1>2, OnePlace
<1>4. ASSUME NEW k \in 2..Len(act), act[k] = other
      PROVE  FALSE
  <2>1. k \in DOMAIN act /\ k # 1
    BY <1>1
  <2>2. In(act, other)
    BY <1>4, <2>1 DEF In
  <2>3. other = id /\ Count(act, id) <= 1
    BY <1>1, <2>2, OnePlace
  <2> QED BY <1>1, <1>4, <2>1, <2>3, CountTwice
<1> QED BY <1>3, <1>4 DEF In

\* A search that has found a state is over, and finds one by returning it.
LEMMA FoundIsTheEnd == phase = "found" /\ [Next]_vars => UNCHANGED vars
BY DEF Next, Select, Exhaust, ExecuteBlock, ExecuteOp, DataOp, UnsatState, CBranchLazy,
       CBranchEager, DirectJump, ConstantIP, SymbolicIP, UnsatIP, UnconstrainedIP,
       ForkIP, LibReturn, LibExit, ExitFail, Executing, SiftExited, ReturnFound,
       DropSuccessor, KeepSuccessor, Sifting, AddActive, NextRound, Finished

LEMMA FoundIsReturned == phase # "found" /\ phase' = "found" /\ [Next]_vars => ReturnFound
<1> SUFFICES ASSUME phase # "found", phase' = "found", [Next]_vars PROVE ReturnFound
  OBVIOUS
<1>1. ~ExecuteBlock
  BY ExecPhases DEF ExecuteBlock
<1> QED BY <1>1 DEF Next, Select, Exhaust, SiftExited, DropSuccessor, KeepSuccessor,
           AddActive, NextRound, Finished, vars, exec

LEMMA WitnessStep ==
  IInv /\ OwnerInv /\ Clean /\ FoundIsWitness /\ [Next]_vars => FoundIsWitness'
<1> SUFFICES ASSUME IInv, OwnerInv, Clean, FoundIsWitness, [Next]_vars, phase' = "found"
             PROVE  FoundIsWitness'
  BY DEF FoundIsWitness
<1>1. /\ job' = job /\ conf' = conf
      /\ \A i, d : BlockStarts(i)' = BlockStarts(i)
  BY JobStays, RunStays
<1>2. CASE phase = "found"
  <2>1. UNCHANGED vars
    BY <1>2, FoundIsTheEnd
  <2>2. heap' = heap /\ found' = found
    BY <2>1 DEF vars, exec, manager
  <2> QED BY <1>1, <1>2, <2>2 DEF FoundIsWitness
<1>3. CASE phase # "found"
  <2>1. ReturnFound
    BY <1>3, FoundIsReturned
  <2>2. PICK id \in Id :
          /\ Sifting(id) /\ Wanted(id) /\ "SAT" \in Verdicts(heap[id].pi) /\ found' = id
          /\ heap' = [o \in Id |-> IF \/ \E k \in 2..Len(act) : act[k] = o
                                      \/ \E k \in DOMAIN keep : keep[k] = o
                                   THEN Blank ELSE heap[o]]
    BY <2>1 DEF ReturnFound
  <2>3. TypeOK /\ heap'[id] = heap[id]
    BY <2>2, ReturnKeeps DEF IInv
  <2>4. heap[id].pi # {} /\ heap[id].pc \in conf.find /\ conf.mode = "explore"
    BY <2>2 DEF Verdicts, Wanted
  <2>5. In(act, id)
    <3>1. act \in Seq(Id) /\ act # <<>> /\ id = act[1] /\ 1 \in DOMAIN act
      BY <2>2, <2>3 DEF Sifting, TypeOK
    <3> QED BY <3>1 DEF In
  <2>6. \A i \in Own(heap[id]) : Passed(i, heap[id].depth)
    BY <1>3, <2>4, <2>5 DEF Clean
  <2>7. \A i \in Own(heap[id]) : \A c \in BlockStarts(i) :
          c.depth < heap[id].depth => c.pc \notin conf.find \cup conf.avoid
    BY <2>6 DEF Passed
  <2> QED BY <1>1, <2>2, <2>3, <2>4, <2>7 DEF FoundIsWitness
<1> QED BY <1>2, <1>3

\* A state that explore returns can be reached, is at an address looked for, and has
\* not come through a block where the search should have ended.
THEOREM WhatIsFoundIsAWitness == Spec => []FoundIsWitness
<1>1. Init => FoundIsWitness
  BY DEF Init, FoundIsWitness
<1> QED BY <1>1, OwnerAlways, CleanInit, CleanStep, WitnessStep, PTL DEF Spec

-----------------------------------------------------------------------------
(***************************************************************************)
(* What is not found.                                                      *)
(***************************************************************************)
LEMMA HeldInit == Init => HeldOrSettled
<1> SUFFICES ASSUME Init PROVE HeldOrSettled
  OBVIOUS
<1>1. FirstId \in Id
  BY IdAssumption DEF FirstId
<1> DEFINE first == [Blank EXCEPT !.pi = Input, !.live = TRUE]
<1>2. first.pi = Input
  BY DEF Blank
<1> HIDE DEF first
<1>3. heap[FirstId] = first
  BY <1>1 DEF Init, first
<1> QED BY <1>1, <1>2, <1>3 DEF HeldOrSettled

\* An input leaves the search only where it may.
LEMMA HeldKept ==
  ASSUME HeldOrSettled, [Next]_vars, phase # "found",
         Exact(job) => \A id \in Id : \A i \in heap[id].pi :
                         Settled(i) \/ \E to \in Id : i \in heap'[to].pi
  PROVE  HeldOrSettled'
<1>1. job' = job /\ \A i : Settled(i)' <=> Settled(i)
  BY JobStays, SettledForGood
<1> SUFFICES ASSUME Exact(job), NEW i \in Input
             PROVE  (\E id \in Id : i \in heap'[id].pi) \/ Settled(i)
  BY <1>1 DEF HeldOrSettled
<1> QED BY DEF HeldOrSettled

LEMMA HeldDrop ==
  ASSUME IInv, OwnerInv, Clean, HeldOrSettled, DropSuccessor, [Next]_vars
  PROVE  HeldOrSettled'
<1>1. PICK g \in Id :
        /\ Sifting(g) /\ heap' = [heap EXCEPT ![g] = Blank]
        /\ \/ Wanted(g) /\ Verdicts(heap[g].pi) # {"SAT"}
           \/ Avoided(g)
  BY DEF DropSuccessor
<1>2. TypeOK /\ heap \in [Id -> SymState] /\ phase # "found"
  BY <1>1 DEF IInv, TypeOK, Sifting
<1>3. In(act, g)
  <2>1. act \in Seq(Id) /\ act # <<>> /\ g = act[1] /\ 1 \in DOMAIN act
    BY <1>1, <1>2 DEF Sifting, TypeOK
  <2> QED BY <2>1 DEF In
<1>4. ASSUME Exact(job), NEW i \in heap[g].pi
      PROVE  Settled(i)
  <2>1. Avoided(g)
    BY <1>1, <1>4, OnlyUnsat
  <2>2. conf.mode = "explore" /\ heap[g].pc \in conf.avoid \ conf.find
    BY <2>1 DEF Avoided
  <2>3. ConfigOf(g, i) \in BlockStarts(i) /\ Passed(i, heap[g].depth)
    BY <1>2, <1>3, <1>4, <2>2, OwnIsHeld DEF Clean
  <2>4. ConfigOf(g, i).depth = heap[g].depth /\ ConfigOf(g, i).pc = heap[g].pc
    BY <1>2, DepthType
  <2> QED BY <2>2, <2>3, <2>4 DEF Avoids, Settled
<1>5. \A id \in Id : id # g => heap'[id] = heap[id]
  BY <1>1, <1>2
<1> QED BY <1>2, <1>4, <1>5, HeldKept

LEMMA HeldStep ==
  IInv /\ OwnerInv /\ Clean /\ HeldOrSettled /\ [Next]_vars => HeldOrSettled'
<1> SUFFICES ASSUME IInv, OwnerInv, Clean, HeldOrSettled, [Next]_vars PROVE HeldOrSettled'
  OBVIOUS
<1>1. heap \in [Id -> SymState] /\ TypeOK
  BY DEF IInv, TypeOK
<1>2. CASE ExecuteBlock
  <2>1. phase = "exec" /\ cur \in Id /\ Moves
    BY <1>1, <1>2, ExecPhase, ExecMoves, OpType DEF ExecuteBlock
  <2>2. ASSUME Exact(job), NEW i \in heap[cur].pi, LimitHere(i)
        PROVE  Capped(i)
    <3>1. ConfigOf(cur, i) \in Limits[job][i] /\ ConfigOf(cur, i).depth = heap[cur].depth
      BY <1>1, <2>1, <2>2, LostAtLimit, DepthType
    <3>2. ~In(act, cur) /\ i \in Own(heap[cur])
      BY <1>1, <2>1, <2>2, NotInAct, OwnIsHeld
    <3>3. conf.mode = "explore" => Passed(i, heap[cur].depth + 1)
      BY <2>1, <3>2 DEF Clean
    <3> QED BY <3>1, <3>3 DEF Capped
  <2>3. Exact(job) => \A id \in Id : \A i \in heap[id].pi :
                        Settled(i) \/ \E to \in Id : i \in heap'[to].pi
    BY <2>1, <2>2 DEF Moves, Settled
  <2> QED BY <2>1, <2>3, HeldKept
<1>3. CASE Select \/ Exhaust \/ KeepSuccessor \/ AddActive \/ NextRound
  <2>1. heap' = heap /\ phase # "found"
    BY <1>3 DEF Select, Exhaust, KeepSuccessor, Sifting, AddActive, NextRound, exec
  <2> QED BY <2>1, HeldKept
<1>4. CASE Finished \/ UNCHANGED vars
  <2>1. heap' = heap /\ phase' = phase
    BY <1>4 DEF Finished, vars, exec
  <2> QED BY <2>1, HeldKept DEF HeldOrSettled
<1>5. CASE SiftExited
  <2>1. phase # "found" /\ Head(ext) \in Id
    BY <1>1, <1>5, HeadTailProperties DEF SiftExited, TypeOK
  <2>2. CASE heap' = heap
    BY <2>1, <2>2, HeldKept
  <2>3. CASE /\ Verdicts(heap[Head(ext)].pi) # {"SAT"}
             /\ heap' = [heap EXCEPT ![Head(ext)] = Blank]
    <3>1. Exact(job) => heap[Head(ext)].pi = {}
      BY <2>3, OnlyUnsat
    <3>2. \A id \in Id : id # Head(ext) => heap'[id] = heap[id]
      BY <1>1, <2>3
    <3> QED BY <2>1, <3>1, <3>2, HeldKept
  <2> QED BY <1>5, <2>2, <2>3 DEF SiftExited
<1>6. CASE ReturnFound
  BY <1>6 DEF ReturnFound, HeldOrSettled
<1>7. CASE DropSuccessor
  BY <1>7, HeldDrop
<1> QED BY <1>2, <1>3, <1>4, <1>5, <1>6, <1>7 DEF Next

LEMMA AvoidsNoHits ==
  ASSUME TypeOK, NEW i \in Input, Avoids(i)
  PROVE  Hits(i) = {}
<1>1. PICK a \in BlockStarts(i) : a.pc \in conf.avoid \ conf.find /\ Passed(i, a.depth)
  BY DEF Avoids
<1> SUFFICES ASSUME NEW c \in Hits(i) PROVE FALSE
  OBVIOUS
<1>2. /\ c \in BlockStarts(i) /\ c.pc \in conf.find
      /\ \A b \in BlockStarts(i) : b.depth < c.depth => b.pc \notin conf.avoid \cup conf.find
  BY DEF Hits
<1>3. a.depth \in Nat /\ c.depth \in Nat
  BY <1>1, <1>2, BlockStartType
<1>4. CASE a.depth < c.depth
  BY <1>1, <1>2, <1>4
<1>5. CASE c.depth < a.depth
  BY <1>1, <1>2, <1>5 DEF Passed
<1>6. CASE a.depth = c.depth
  BY <1>1, <1>2, <1>6, BlockStartUnique
<1> QED BY <1>3, <1>4, <1>5, <1>6

LEMMA CappedNoHits ==
  ASSUME TypeOK, NEW i \in Input, conf.mode = "explore", Capped(i)
  PROVE  Hits(i) = {}
<1>1. PICK l \in Limits[job][i] : Passed(i, l.depth + 1)
  BY DEF Capped
<1>2. l \in Config
  BY ReachClosed DEF Limits, TypeOK
<1> SUFFICES ASSUME NEW c \in Hits(i) PROVE FALSE
  OBVIOUS
<1>3. c \in BlockStarts(i) /\ c.pc \in conf.find /\ c.depth <= l.depth
  BY DEF Hits
<1>4. c.depth \in Nat /\ l.depth \in Nat
  BY <1>2, <1>3, BlockStartType DEF Config
<1>5. c.depth < l.depth + 1
  BY <1>3, <1>4
<1> QED BY <1>1, <1>3, <1>5 DEF Passed

LEMMA SettledNoHits ==
  ASSUME TypeOK, NEW i \in Input, conf.mode = "explore", Settled(i)
  PROVE  Hits(i) = {}
BY AvoidsNoHits, CappedNoHits DEF Settled

LEMMA ExitNoHits ==
  ASSUME IInv, OwnerInv, Clean, phase # "found", conf.mode = "explore",
         NEW id \in exited, NEW i \in Own(heap[id]), conf.code[heap[id].pc].kind = "EXIT"
  PROVE  Hits(i) = {}
<1>1. TypeOK /\ id \in Id
  BY DEF IInv, TypeOK
<1>2. i \in Input /\ ConfigOf(id, i).depth = heap[id].depth /\ ConfigOf(id, i).pc = heap[id].pc
      /\ heap[id].depth \in Nat
  BY <1>1, DepthType, OwnIsHeld
<1>3. StepOf(job, ConfigOf(id, i)) = ConfigOf(id, i)
  BY <1>2 DEF StepOf, conf, Direct, Indirect
<1>4. ConfigOf(id, i) \in Reach[job][i]
  BY <1>1 DEF IInv, Sound
<1>5. ~In(act, id)
  BY <1>1, OnePlace
<1>6. Passed(i, heap[id].depth + 1)
  BY <1>1, <1>5 DEF Clean
<1> SUFFICES ASSUME NEW c \in Hits(i) PROVE FALSE
  OBVIOUS
<1>7. c \in BlockStarts(i) /\ c.pc \in conf.find
  BY DEF Hits
<1>8. c.depth <= heap[id].depth /\ c.depth \in Nat
  BY <1>1, <1>2, <1>3, <1>4, <1>7, NothingAfterTheEnd, BlockStartType
<1>9. c.depth < heap[id].depth + 1
  BY <1>2, <1>8
<1> QED BY <1>6, <1>7, <1>9 DEF Passed

\* A state that stands for an input is in use.
LEMMA HolderIsLive ==
  ASSUME IInv, OwnerInv, phase # "found", NEW id \in Id, NEW i \in heap[id].pi
  PROVE  Somewhere(id)
<1>1. heap[id].live
  BY DEF IInv, UnusedIsEmpty
<1> QED BY <1>1, OnePlace DEF IInv

\* When there is nothing left to do, every state has ended.
LEMMA ExhaustedHolds ==
  ASSUME IInv, OwnerInv, Shape, phase = "exhausted", NEW id \in Id, NEW i \in heap[id].pi
  PROVE  id \in exited \/ id \in reported
<1>1. Somewhere(id)
  BY HolderIsLive
<1>2. act = <<>> /\ ext = <<>> /\ keep = <<>> /\ NothingPending(frontier)
  BY DEF Shape
<1>3. frontier.main = <<>> /\ frontier.context = <<>> /\ frontier.other = <<>>
  BY <1>2 DEF NothingPending, NextQueue
<1>4. cur = NoId /\ found = NoId /\ NoId \notin Id
  BY IdAssumption DEF OwnerInv, CurShape
<1> QED BY <1>1, <1>2, <1>3, <1>4 DEF Somewhere, Listed, In

SearchInv == Shape /\ Clean /\ FoundIsWitness /\ HeldOrSettled

LEMMA SearchAlways == Spec => [](IInv /\ OwnerInv /\ SearchInv)
<1>1. Init => FoundIsWitness
  BY DEF Init, FoundIsWitness
<1>2. Init => SearchInv
  BY <1>1, ShapeInit, CleanInit, HeldInit DEF SearchInv
<1>3. IInv /\ OwnerInv /\ SearchInv /\ [Next]_vars => SearchInv'
  BY ShapeStep, CleanStep, WitnessStep, HeldStep DEF SearchInv
<1> QED BY <1>2, <1>3, OwnerAlways, PTL DEF Spec

\* When explore returns "state not found", Z3 has answered every query, no model has
\* mixed the inputs, and the states that exited had reached the end of the program, no
\* input's run comes to an address looked for before one to avoid and before a limit
\* at which the engine gives inputs up.
THEOREM WhatIsNotFoundIsNotThere == Spec => []NotFoundIsProof
<1>1. IInv /\ OwnerInv /\ SearchInv => NotFoundIsProof
  <2> SUFFICES ASSUME IInv, OwnerInv, SearchInv, phase = "exhausted", conf.mode = "explore",
                      Exact(job),
                      \A id \in exited : conf.code[heap[id].pc].kind = "EXIT",
                      NEW i \in Input
               PROVE  Hits(i) = {}
    BY DEF NotFoundIsProof, SearchedAll
  <2>1. Shape /\ Clean /\ HeldOrSettled /\ TypeOK
    BY DEF SearchInv, IInv
  <2>2. CASE Settled(i)
    BY <2>1, <2>2, SettledNoHits
  <2>3. CASE \E id \in Id : i \in heap[id].pi
    <3>1. PICK id \in Id : i \in heap[id].pi
      BY <2>3
    <3>2. id \in exited
      BY <2>1, <3>1, ExhaustedHolds DEF Shape
    <3>3. i \in Own(heap[id])
      BY <3>1, OwnIsHeld
    <3> QED BY <2>1, <3>2, <3>3, ExitNoHits
  <2> QED BY <2>1, <2>2, <2>3 DEF HeldOrSettled
<1> QED BY <1>1, SearchAlways, PTL

-----------------------------------------------------------------------------
(***************************************************************************)
(* The paths that gen_paths reports.                                       *)
(***************************************************************************)
LEMMA ReportedStep ==
  IInv /\ OwnerInv /\ ReportedFeasible /\ [Next]_vars => ReportedFeasible'
<1> SUFFICES ASSUME IInv, OwnerInv, ReportedFeasible, [Next]_vars, phase' # "found",
                    NEW id \in reported'
             PROVE  heap'[id].pi # {}
  BY DEF ReportedFeasible
<1>1. TypeOK /\ TypeOK' /\ id \in Id
  BY TypeStep DEF IInv, TypeOK
<1>2. phase # "found"
  <2> SUFFICES ASSUME phase = "found" PROVE FALSE
    OBVIOUS
  <2> QED BY ExecPhase DEF Next, Select, Exhaust, ExecuteBlock, SiftExited, ReturnFound,
             DropSuccessor, KeepSuccessor, Sifting, AddActive, NextRound, Finished, vars, exec
<1>3. CASE id \in reported
  BY <1>1, <1>2, <1>3, SettledStays DEF ReportedFeasible
<1>4. CASE id \notin reported
  <2>1. SiftExited
    BY <1>4 DEF Next, Select, Exhaust, ExecuteBlock, ReturnFound, DropSuccessor,
                KeepSuccessor, AddActive, NextRound, Finished, vars, exec, manager
  <2>2. id = Head(ext) /\ "SAT" \in Verdicts(heap[id].pi) /\ heap' = heap
    BY <1>4, <2>1 DEF SiftExited
  <2> QED BY <2>2 DEF Verdicts
<1> QED BY <1>3, <1>4

\* When path generation has ended, Z3 has answered every query and no model has mixed
\* the inputs, every input whose run meets no limit is in a state reported, and each
\* state reported has an input.
THEOREM ReportedPathsCoverTheInputs == Spec => []PathsCoverInputs
<1>1. Init => ReportedFeasible
  BY DEF Init, ReportedFeasible
<1>2. IInv /\ OwnerInv /\ SearchInv /\ ReportedFeasible => PathsCoverInputs
  <2> SUFFICES ASSUME IInv, OwnerInv, SearchInv, ReportedFeasible, phase = "exhausted",
                      conf.mode = "gen_paths", Exact(job)
               PROVE  /\ \A i \in Input : \/ \E id \in reported : i \in heap[id].pi
                                          \/ Limits[job][i] # {}
                      /\ \A id \in reported : heap[id].pi # {}
    BY DEF PathsCoverInputs
  <2>1. Shape /\ HeldOrSettled
    BY DEF SearchInv
  <2>2. ASSUME NEW i \in Input, Limits[job][i] = {}
        PROVE  \E id \in reported : i \in heap[id].pi
    <3>1. PICK id \in Id : i \in heap[id].pi
      BY <2>1, <2>2 DEF HeldOrSettled, Settled, Capped
    <3>2. id \in reported
      BY <2>1, <3>1, ExhaustedHolds DEF Shape
    <3> QED BY <3>1, <3>2
  <2>3. \A id \in reported : heap[id].pi # {}
    BY DEF ReportedFeasible
  <2> QED BY <2>2, <2>3
<1> QED BY <1>1, <1>2, ReportedStep, SearchAlways, PTL DEF Spec

-----------------------------------------------------------------------------
(***************************************************************************)
(* Breadth first.                                                          *)
(***************************************************************************)
LEMMA LevelInit == Init => Level
<1> SUFFICES ASSUME Init PROVE Level
  OBVIOUS
<1>1. FirstId \in Id
  BY IdAssumption DEF FirstId
<1>2. heap[FirstId].depth = 0
  BY <1>1 DEF Init, Blank
<1>3. frontier.main = <<FirstId>> /\ frontier.context = <<>> /\ frontier.other = <<>>
  BY DEF Init, FirstFrontier
<1>4. phase # "exec" /\ act = <<>> /\ keep = <<>>
  BY DEF Init
<1>5. AtLevel(0)
  <2>1. \A k \in DOMAIN frontier.main : frontier.main[k] = FirstId
    BY <1>3
  <2>2. \A k \in DOMAIN frontier.main : heap[frontier.main[k]].depth = 0
    BY <1>2, <2>1
  <2>3. \A id \in Id : ~In(act, id) /\ ~In(keep, id)
    BY <1>4 DEF In
  <2> QED BY <1>4, <2>2, <2>3 DEF AtLevel
<1> QED BY <1>3, <1>5 DEF Level

\* The states that wait stay as they are.
LEMMA MainStays ==
  ASSUME TypeOK, OwnerInv, phase # "found", [Next]_vars, NEW k \in DOMAIN frontier.main
  PROVE  heap'[frontier.main[k]] = heap[frontier.main[k]]
<1>1. frontier.main[k] \in Id
  BY DEF TypeOK
<1>2. Listed(frontier.main[k])
  BY DEF Listed, In
<1> QED BY <1>1, <1>2, SettledStays

\* A step that leaves the list alone, and adds to the block's successors ones of the
\* next level.
LEMMA LevelKept ==
  ASSUME TypeOK, OwnerInv, Level, phase # "found", [Next]_vars, frontier' = frontier,
         \A d \in Nat : AtLevel(d) =>
           /\ phase' = "exec" => heap'[cur'].depth = d
           /\ \A id \in Id : In(act', id) \/ In(keep', id) => heap'[id].depth = d + 1
  PROVE  Level'
<1>1. conf' = conf
  BY JobStays
<1> SUFFICES ASSUME conf.tech = "bfs" PROVE Level'
  BY <1>1 DEF Level
<1>2. PICK d \in Nat : AtLevel(d)
  BY DEF Level
<1>3. AtLevel(d)'
  <2>1. \A k \in DOMAIN frontier.main : heap'[frontier.main[k]] = heap[frontier.main[k]]
    BY MainStays
  <2>2. /\ \A k \in DOMAIN frontier.main : heap'[frontier.main[k]].depth \in {d, d + 1}
        /\ \A k, l \in DOMAIN frontier.main :
             k <= l => heap'[frontier.main[l]].depth <= heap'[frontier.main[k]].depth
    BY <1>2, <2>1 DEF AtLevel
  <2> QED BY <1>2, <2>2 DEF AtLevel
<1> QED BY <1>3 DEF Level

\* The current state is in no list yet, and successors are in use.
BlockShape == /\ phase = "exec" => ~In(act, cur) /\ heap[cur].live
              /\ phase # "found" => \A id \in Id : In(act, id) => heap[id].live

LEMMA BlockIsShaped == TypeOK /\ OwnerInv => BlockShape
<1> SUFFICES ASSUME TypeOK, OwnerInv PROVE BlockShape
  OBVIOUS
<1>1. \A id \in Id : phase # "found" /\ In(act, id) => heap[id].live /\ cur # id
  BY OnePlace DEF Somewhere
<1>2. phase = "exec" => cur \in Id /\ heap[cur].live
  BY CurIsLive
<1> QED BY <1>1, <1>2 DEF BlockShape

LEMMA BlockStaysShaped == TypeOK' /\ OwnerInv' => BlockShape'
BY BlockIsShaped, PTL

LEMMA LevelExec ==
  ASSUME IInv, OwnerInv, OwnerInv', Shape, Level, ExecuteBlock, [Next]_vars
  PROVE  Level'
<1>1. TypeOK /\ TypeOK' /\ phase = "exec" /\ cur \in Id /\ ExecuteOp /\ UNCHANGED manager
  BY ExecPhase, OpType, TypeStep DEF ExecuteBlock, IInv
<1>2. frontier' = frontier /\ keep' = <<>> /\ keep = <<>>
  BY <1>1 DEF manager, Shape
<1>3. ASSUME NEW d \in Nat, AtLevel(d)
      PROVE  /\ phase' = "exec" => heap'[cur'].depth = d
             /\ \A id \in Id : In(act', id) \/ In(keep', id) => heap'[id].depth = d + 1
  <2>1. heap[cur].depth = d
    BY <1>1, <1>3 DEF AtLevel
  <2>0. BlockShape'
    BY <1>1, BlockStaysShaped
  <2>2. CASE phase' = "failed"
    <3>1. heap' = heap /\ act' = act
      BY <1>1, <2>2, ExecPhases
    <3> QED BY <1>2, <1>3, <2>2, <3>1 DEF AtLevel
  <2>3. CASE phase' # "failed"
    <3>1. ASSUME phase' = "exec"
          PROVE  heap'[cur'].depth = d
      <4>1. cur' = cur
        BY <1>1, <3>1, ExecPhases
      <4>2. ~In(act', cur) /\ heap'[cur].live
        BY <2>0, <3>1, <4>1 DEF BlockShape
      <4>3. Evolves(cur)
        BY <1>1, <2>3, ExecEvolves
      <4>4. SameBlock(cur)
        BY <4>2, <4>3 DEF Evolves, NextBlock
      <4> QED BY <2>1, <4>1, <4>4 DEF SameBlock
    <3>2. ASSUME NEW id \in Id, In(act', id)
          PROVE  heap'[id].depth = d + 1
      <4>1. Evolves(id)
        BY <1>1, <2>3, ExecEvolves
      <4>2. heap'[id].live
        BY <2>0, <3>2, <1>1, ExecPhases DEF BlockShape
      <4>3. CASE Untouched(id)
        BY <1>3, <3>2, <4>3 DEF Untouched, AtLevel
      <4>4. CASE NextBlock(id)
        BY <2>1, <4>4 DEF NextBlock
      <4> QED BY <3>2, <4>1, <4>2, <4>3, <4>4 DEF Evolves, SameBlock
    <3>3. \A id \in Id : ~In(keep', id)
      BY <1>2 DEF In
    <3> QED BY <3>1, <3>2, <3>3
  <2> QED BY <2>2, <2>3
<1> QED BY <1>1, <1>2, <1>3, LevelKept

LEMMA LevelSelect ==
  ASSUME IInv, OwnerInv, Shape, Level, Select, [Next]_vars
  PROVE  Level'
<1>1. /\ conf' = conf /\ TypeOK /\ phase = "select" /\ phase' = "exec" /\ heap' = heap
      /\ act' = act /\ keep' = keep /\ act = <<>> /\ keep = <<>>
      /\ ~NothingPending(frontier) /\ cur' = Next1(frontier) /\ frontier' = Rest(frontier)
  BY JobStays DEF Select, Shape, IInv
<1> SUFFICES ASSUME conf.tech = "bfs" PROVE Level'
  BY <1>1 DEF Level
<1>2. PICK d \in Nat : AtLevel(d)
  BY <1>1 DEF Level
<1> DEFINE main == frontier.main
           n == Len(main)
<1>3. frontier.context = <<>> /\ frontier.other = <<>> /\ main # <<>>
  BY <1>1 DEF Level, NothingPending, NextQueue
<1>4. main \in Seq(Id) /\ n \in Nat \ {0} /\ DOMAIN main = 1..n
  BY <1>1, <1>3 DEF TypeOK
<1>5. /\ cur' = main[n] /\ frontier'.main = SubSeq(main, 1, n - 1)
      /\ frontier'.context = <<>> /\ frontier'.other = <<>>
  <2>1. NextQueue(frontier) = "main"
    BY <1>3 DEF NextQueue
  <2>2. frontier \in [main: Seq(Id), context: Seq(Id), other: Seq(Id),
                      addrs: SUBSET Addr, contexts: SUBSET (Addr \X Seq(Addr))]
    BY <1>1 DEF TypeOK
  <2> QED BY <1>1, <1>3, <2>1, <2>2 DEF Next1, Rest
<1>6. /\ DOMAIN frontier'.main = 1..(n - 1)
      /\ \A k \in 1..(n - 1) : frontier'.main[k] = main[k]
  BY <1>4, <1>5
<1>7. /\ \A k \in 1..n : heap[main[k]].depth \in {d, d + 1}
      /\ \A k, l \in 1..n : k <= l => heap[main[l]].depth <= heap[main[k]].depth
  BY <1>2, <1>4 DEF AtLevel
<1>8. PICK e \in {d, d + 1} : e = heap[main[n]].depth
  BY <1>4, <1>7
<1>9. \A k \in 1..(n - 1) : heap[main[k]].depth \in {e, e + 1}
  <2> SUFFICES ASSUME NEW k \in 1..(n - 1) PROVE heap[main[k]].depth \in {e, e + 1}
    OBVIOUS
  <2>1. k \in 1..n /\ n \in 1..n /\ k <= n
    BY <1>4
  <2>2. heap[main[k]].depth \in {d, d + 1}
    BY <1>7, <2>1
  <2>3. heap[main[n]].depth <= heap[main[k]].depth
    BY <1>7, <2>1
  <2> HIDE DEF main, n
  <2> QED BY <1>8, <2>2, <2>3
<1>10. AtLevel(e)'
  <2>1. heap'[cur'].depth = e
    BY <1>1, <1>5, <1>8
  <2>2. \A id \in Id : ~In(act', id) /\ ~In(keep', id)
    BY <1>1 DEF In
  <2>3. \A k \in 1..(n - 1) : k \in 1..n
    BY <1>4
  <2>4. \A k, l \in 1..(n - 1) :
          k <= l => heap'[frontier'.main[l]].depth <= heap'[frontier'.main[k]].depth
    BY <1>1, <1>6, <1>7, <2>3
  <2>5. \A k \in 1..(n - 1) : heap'[frontier'.main[k]].depth \in {e, e + 1}
    BY <1>1, <1>6, <1>9
  <2> HIDE DEF n
  <2> QED BY <1>6, <2>1, <2>2, <2>4, <2>5 DEF AtLevel
<1>11. e \in Nat
  BY <1>8
<1> QED BY <1>5, <1>10, <1>11 DEF Level

LEMMA LevelAdd ==
  ASSUME IInv, OwnerInv, Shape, Level, AddActive, [Next]_vars
  PROVE  Level'
<1>1. /\ conf' = conf /\ TypeOK /\ phase = "sift" /\ phase' = "sift" /\ heap' = heap
      /\ act' = act /\ act = <<>> /\ keep # <<>>
  BY JobStays DEF AddActive, IInv, exec
<1> SUFFICES ASSUME conf.tech = "bfs" PROVE Level'
  BY <1>1 DEF Level
<1>2. PICK d \in Nat : AtLevel(d)
  BY <1>1 DEF Level
<1>3. PICK k \in Picks(conf.tech, keep) :
        /\ frontier' = Add(conf.tech, frontier, keep[k], heap[keep[k]].pc, heap[keep[k]].calls)
        /\ keep' = Without(keep, k)
  BY DEF AddActive
<1>4. keep \in Seq(Id) /\ k = 1 /\ k \in 1..Len(keep) /\ keep[k] \in Id
  BY <1>1, <1>3 DEF Picks, TypeOK
<1> DEFINE new == keep[k]
           main == frontier.main
           n == Len(main)
<1>5. In(keep, new)
  BY <1>4 DEF In
<1>6. heap[new].depth = d + 1
  BY <1>2, <1>4, <1>5 DEF AtLevel
<1>7. \A id \in Id : In(keep', id) => In(keep, id)
  BY <1>3, <1>4, InWithout
<1>8. main \in Seq(Id) /\ n \in Nat /\ DOMAIN main = 1..n
  BY <1>1 DEF TypeOK
<1>9. /\ frontier'.main = <<new>> \o main
      /\ frontier'.context = <<>> /\ frontier'.other = <<>>
  <2>1. frontier \in [main: Seq(Id), context: Seq(Id), other: Seq(Id),
                      addrs: SUBSET Addr, contexts: SUBSET (Addr \X Seq(Addr))]
    BY <1>1 DEF TypeOK
  <2>2. frontier' = [frontier EXCEPT !.main = <<new>> \o @]
    BY <1>3 DEF Add
  <2>3. frontier.context = <<>> /\ frontier.other = <<>>
    BY <1>1 DEF Level
  <2> HIDE DEF new
  <2> QED BY <2>1, <2>2, <2>3
<1>10. /\ DOMAIN frontier'.main = 1..(n + 1) /\ frontier'.main[1] = new
       /\ \A m \in 1..(n + 1) : m # 1 => m - 1 \in 1..n /\ frontier'.main[m] = main[m - 1]
  <2>1. new \in Id
    BY <1>4
  <2> HIDE DEF new
  <2> QED BY <1>8, <1>9, <2>1
<1>11. /\ \A m \in 1..n : heap[main[m]].depth \in {d, d + 1}
       /\ \A m, l \in 1..n : m <= l => heap[main[l]].depth <= heap[main[m]].depth
  BY <1>2, <1>8 DEF AtLevel
<1> HIDE DEF new, n
<1>12. \A m \in 1..(n + 1) : heap[frontier'.main[m]].depth \in {d, d + 1}
  BY <1>6, <1>10, <1>11
<1>13. \A m, l \in 1..(n + 1) :
         m <= l => heap[frontier'.main[l]].depth <= heap[frontier'.main[m]].depth
  <2> SUFFICES ASSUME NEW m \in 1..(n + 1), NEW l \in 1..(n + 1), m <= l
               PROVE  heap[frontier'.main[l]].depth <= heap[frontier'.main[m]].depth
    OBVIOUS
  <2>1. CASE m = 1
    <3>1. heap[frontier'.main[l]].depth \in {d, d + 1}
      BY <1>12
    <3>2. heap[frontier'.main[m]].depth = d + 1
      BY <1>6, <1>10, <2>1
    <3> QED BY <3>1, <3>2
  <2>2. CASE m # 1
    <3>1. l # 1 /\ m - 1 <= l - 1
      BY <1>8, <2>2
    <3>2. /\ frontier'.main[m] = main[m - 1] /\ frontier'.main[l] = main[l - 1]
          /\ m - 1 \in 1..n /\ l - 1 \in 1..n
      BY <1>10, <2>2, <3>1
    <3> QED BY <1>11, <3>1, <3>2
  <2> QED BY <2>1, <2>2
<1>14. \A id \in Id : In(act', id) \/ In(keep', id) => heap[id].depth = d + 1
  BY <1>1, <1>2, <1>7 DEF AtLevel
<1>15. AtLevel(d)'
  BY <1>1, <1>10, <1>12, <1>13, <1>14 DEF AtLevel
<1> QED BY <1>9, <1>15 DEF Level

LEMMA LevelSift ==
  ASSUME IInv, OwnerInv, Level, SiftExited \/ DropSuccessor \/ KeepSuccessor, [Next]_vars
  PROVE  Level'
<1>1. TypeOK /\ heap \in [Id -> SymState] /\ act \in Seq(Id) /\ keep \in Seq(Id)
  BY DEF IInv, TypeOK
<1>2. CASE SiftExited
  <2>1. /\ phase = "sift" /\ phase' = "sift" /\ ext # <<>> /\ ext \in Seq(Id)
        /\ frontier' = frontier /\ act' = act /\ keep' = keep
        /\ heap' = heap \/ heap' = [heap EXCEPT ![Head(ext)] = Blank]
    BY <1>1, <1>2 DEF SiftExited, TypeOK
  <2>2. In(ext, Head(ext)) /\ Head(ext) \in Id
    BY <2>1 DEF In
  <2>3. \A id \in Id : In(act, id) \/ In(keep, id) => id # Head(ext)
    BY <1>1, <2>1, <2>2, OnePlace
  <2>4. \A id \in Id : In(act, id) \/ In(keep, id) => heap'[id] = heap[id]
    BY <1>1, <2>1, <2>3
  <2>5. ASSUME NEW d \in Nat, AtLevel(d)
        PROVE  \A id \in Id : In(act', id) \/ In(keep', id) => heap'[id].depth = d + 1
    BY <2>1, <2>4, <2>5 DEF AtLevel
  <2> QED BY <1>1, <2>1, <2>5, LevelKept
<1>3. CASE DropSuccessor
  <2>1. PICK g \in Id : /\ Sifting(g) /\ act' = Tail(act) /\ keep' = keep
                        /\ heap' = [heap EXCEPT ![g] = Blank]
                        /\ phase' = phase /\ frontier' = frontier
    BY <1>3 DEF DropSuccessor, manager
  <2>2. phase = "sift" /\ act # <<>>
    BY <2>1 DEF Sifting
  <2>3. \A id \in Id : In(act', id) => In(act, id) /\ id # g
    BY <1>1, <2>1, SiftOne
  <2>4. In(act, g)
    BY <1>1, <2>1, SiftOne
  <2>5. \A id \in Id : In(keep, id) => id # g
    BY <1>1, <2>2, <2>4, OnePlace
  <2>6. \A id \in Id : In(act', id) \/ In(keep', id) =>
                         heap'[id] = heap[id] /\ (In(act, id) \/ In(keep, id))
    BY <1>1, <2>1, <2>3, <2>5
  <2>7. ASSUME NEW d \in Nat, AtLevel(d)
        PROVE  \A id \in Id : In(act', id) \/ In(keep', id) => heap'[id].depth = d + 1
    BY <2>6, <2>7 DEF AtLevel
  <2> QED BY <1>1, <2>1, <2>2, <2>7, LevelKept
<1>4. CASE KeepSuccessor
  <2>1. PICK g \in Id : /\ Sifting(g) /\ act' = Tail(act) /\ keep' = Append(keep, g)
                        /\ heap' = heap /\ phase' = phase /\ frontier' = frontier
    BY <1>4 DEF KeepSuccessor
  <2>2. phase = "sift" /\ act # <<>>
    BY <2>1 DEF Sifting
  <2>3. In(act, g) /\ \A id \in Id : In(act', id) => In(act, id)
    BY <1>1, <2>1, SiftOne
  <2>4. \A id \in Id : In(keep', id) <=> In(keep, id) \/ id = g
    BY <1>1, <2>1, InAppend
  <2>5. \A id \in Id : In(act', id) \/ In(keep', id) => In(act, id) \/ In(keep, id)
    BY <2>3, <2>4
  <2>6. ASSUME NEW d \in Nat, AtLevel(d)
        PROVE  \A id \in Id : In(act', id) \/ In(keep', id) => heap'[id].depth = d + 1
    BY <2>1, <2>5, <2>6 DEF AtLevel
  <2> QED BY <1>1, <2>1, <2>2, <2>6, LevelKept
<1> QED BY <1>2, <1>3, <1>4

LEMMA LevelStep ==
  IInv /\ OwnerInv /\ OwnerInv' /\ Shape /\ Level /\ [Next]_vars => Level'
<1> SUFFICES ASSUME IInv, OwnerInv, OwnerInv', Shape, Level, [Next]_vars PROVE Level'
  OBVIOUS
<1>1. TypeOK
  BY DEF IInv
<1>2. CASE ExecuteBlock
  BY <1>2, LevelExec
<1>3. CASE Select
  BY <1>3, LevelSelect
<1>4. CASE Exhaust \/ NextRound
  <2>1. /\ heap' = heap /\ act' = act /\ keep' = keep /\ frontier' = frontier
        /\ phase # "found" /\ phase' # "exec"
    BY <1>4 DEF Exhaust, NextRound, manager
  <2> QED BY <1>1, <2>1, LevelKept DEF AtLevel
<1>5. CASE SiftExited \/ DropSuccessor \/ KeepSuccessor
  BY <1>5, LevelSift
<1>6. CASE AddActive
  BY <1>6, LevelAdd
<1>7. CASE ReturnFound
  BY <1>7 DEF ReturnFound, Level
<1>8. CASE Finished \/ UNCHANGED vars
  <2>1. /\ heap' = heap /\ act' = act /\ keep' = keep /\ frontier' = frontier
        /\ phase' = phase /\ cur' = cur
    BY <1>8 DEF Finished, vars, exec, manager
  <2>2. CASE phase = "found"
    BY <2>1, <2>2 DEF Level
  <2>3. CASE phase # "found"
    BY <1>1, <2>1, <2>3, LevelKept DEF AtLevel
  <2> QED BY <2>2, <2>3
<1> QED BY <1>2, <1>3, <1>4, <1>5, <1>6, <1>7, <1>8 DEF Next

\* What is left when a state is returned has not come to a block nearer than its own.
LEMMA NoneNearer ==
  ASSUME IInv, OwnerInv, SearchInv, Level, conf.tech = "bfs", Exact(job),
         NEW id \in Id, Sifting(id), Wanted(id),
         \A e \in exited : conf.code[heap[e].pc].kind = "EXIT",
         NEW i \in Input, NEW c \in Hits(i)
  PROVE  heap[id].depth <= c.depth
<1>1. /\ TypeOK /\ Shape /\ Clean /\ HeldOrSettled /\ conf.mode = "explore"
      /\ phase = "sift" /\ ext = <<>> /\ act \in Seq(Id) /\ act # <<>> /\ id = act[1]
      /\ 1 \in DOMAIN act
  BY DEF IInv, SearchInv, Wanted, Sifting, TypeOK
<1>2. PICK d \in Nat : AtLevel(d)
  BY <1>1 DEF Level
<1>3. In(act, id)
  BY <1>1 DEF In
<1>4. heap[id].depth = d + 1
  BY <1>2, <1>3 DEF AtLevel
<1>5. c \in BlockStarts(i) /\ c.pc \in conf.find
  BY DEF Hits
<1>6. c.depth \in Nat
  BY <1>1, <1>5, BlockStartType
<1>7. PICK a \in Id : i \in heap[a].pi
  BY <1>1, SettledNoHits DEF HeldOrSettled
<1>7a. i \in Own(heap[a])
  BY <1>7, OwnIsHeld
<1>8. heap[a].depth \in Nat
  BY <1>1 DEF TypeOK, SymState
<1>9. \/ In(act, a) \/ In(keep, a) \/ Listed(a) \/ a \in exited
  <2>1. Somewhere(a)
    BY <1>1, <1>7, HolderIsLive
  <2>2. cur = NoId /\ found = NoId /\ NoId \notin Id /\ reported = {}
    BY <1>1, IdAssumption DEF OwnerInv, CurShape, Shape
  <2>3. ~In(ext, a)
    BY <1>1 DEF In
  <2> QED BY <2>1, <2>2, <2>3 DEF Somewhere
<1>10. ASSUME Passed(i, d + 1)
       PROVE  heap[id].depth <= c.depth
  BY <1>4, <1>5, <1>6, <1>10 DEF Passed
<1>11. CASE In(act, a)
  <2>1. heap[a].depth = d + 1
    BY <1>2, <1>11 DEF AtLevel
  <2> QED BY <1>1, <1>7a, <1>10, <1>11, <2>1 DEF Clean
<1>12. ASSUME ~In(act, a), heap[a].depth \in {d, d + 1}
       PROVE  heap[id].depth <= c.depth
  <2>1. Passed(i, heap[a].depth + 1)
    BY <1>1, <1>7a, <1>12 DEF Clean
  <2>2. Passed(i, d + 1)
    <3> SUFFICES ASSUME NEW b \in BlockStarts(i), b.depth < d + 1
                 PROVE  b.pc \notin conf.find \cup conf.avoid
      BY DEF Passed
    <3>1. b.depth \in Nat
      BY <1>1, BlockStartType
    <3>2. b.depth < heap[a].depth + 1
      BY <1>12, <3>1
    <3> QED BY <2>1, <3>2 DEF Passed
  <2> QED BY <1>10, <2>2
<1>13. CASE In(keep, a)
  <2>1. heap[a].depth = d + 1 /\ ~In(act, a)
    BY <1>1, <1>2, <1>13, OnePlace DEF AtLevel
  <2> QED BY <1>12, <2>1
<1>14. CASE Listed(a)
  <2>1. ~In(act, a)
    BY <1>1, <1>14, OnePlace
  <2>2. In(frontier.main, a)
    BY <1>1, <1>14 DEF Level, Listed, In
  <2>3. heap[a].depth \in {d, d + 1}
    BY <1>2, <2>2 DEF AtLevel, In
  <2> QED BY <1>12, <2>1, <2>3
<1>15. CASE a \in exited
  BY <1>1, <1>7a, <1>15, ExitNoHits
<1> QED BY <1>9, <1>11, <1>13, <1>14, <1>15

LEMMA ShortestStep ==
  IInv /\ OwnerInv /\ SearchInv /\ Level /\ BFSFindsShortest /\ [Next]_vars
    => BFSFindsShortest'
<1> SUFFICES ASSUME IInv, OwnerInv, SearchInv, Level, BFSFindsShortest, [Next]_vars,
                    phase' = "found"
             PROVE  BFSFindsShortest'
  BY DEF BFSFindsShortest
<1>1. /\ job' = job /\ conf' = conf
      /\ \A i : BlockStarts(i)' = BlockStarts(i)
  BY JobStays, RunStays
<1>2. \A i : Hits(i)' = Hits(i)
  BY <1>1 DEF Hits
<1>3. CASE phase = "found"
  <2>1. UNCHANGED vars
    BY <1>3, FoundIsTheEnd
  <2>2. heap' = heap /\ found' = found /\ exited' = exited
    BY <2>1 DEF vars, exec, manager
  <2> QED BY <1>1, <1>2, <1>3, <2>2 DEF BFSFindsShortest, SearchedAll
<1>4. CASE phase # "found"
  <2>1. ReturnFound
    BY <1>4, FoundIsReturned
  <2>2. PICK id \in Id :
          /\ Sifting(id) /\ Wanted(id) /\ found' = id /\ exited' = exited
          /\ heap' = [o \in Id |-> IF \/ \E k \in 2..Len(act) : act[k] = o
                                      \/ \E k \in DOMAIN keep : keep[k] = o
                                   THEN Blank ELSE heap[o]]
    BY <2>1 DEF ReturnFound
  <2>3. TypeOK /\ exited \subseteq Id
    BY DEF IInv, TypeOK
  <2>4. heap'[id] = heap[id] /\ \A e \in exited : heap'[e] = heap[e]
    BY <2>2, <2>3, ReturnKeeps
  <2>5. ASSUME conf.tech = "bfs", Exact(job),
               \A e \in exited : conf.code[heap[e].pc].kind = "EXIT",
               NEW i \in Input, NEW c \in Hits(i)
        PROVE  heap[id].depth <= c.depth
    BY <2>2, <2>5, NoneNearer
  <2>6. heap'[found'].depth = heap[id].depth
    BY <2>2, <2>4
  <2>7. \A e \in exited' : conf'.code[heap'[e].pc] = conf.code[heap[e].pc]
    BY <1>1, <2>2, <2>4
  <2>8. exited' = exited
    BY <2>2
  <2> QED BY <1>1, <1>2, <2>5, <2>6, <2>7, <2>8 DEF BFSFindsShortest, SearchedAll
<1> QED BY <1>3, <1>4

\* Breadth-first search returns a state as near as any other input could have reached
\* code looked for before a limit, unless it has given some up at an unconstrained
\* jump, Z3 has not answered, or a model has mixed the inputs.
THEOREM BreadthFirstFindsTheNearest == Spec => []BFSFindsShortest
<1>1. Init => BFSFindsShortest
  BY DEF Init, BFSFindsShortest
<1>2. /\ IInv /\ OwnerInv /\ SearchInv /\ (IInv /\ OwnerInv /\ SearchInv)'
      /\ Level /\ BFSFindsShortest /\ [Next]_vars
      => Level' /\ BFSFindsShortest'
  BY LevelStep, ShortestStep DEF SearchInv
<1> QED BY <1>1, <1>2, LevelInit, SearchAlways, PTL DEF Spec

-----------------------------------------------------------------------------
(***************************************************************************)
(* The concrete machine of ConcreteRuns is that of PCodeProgram.           *)
(***************************************************************************)
LEMMA SameStart == \A j, i : Runs!Start(j, i) = Start(j, i)
BY DEF Runs!Start, Start

LEMMA SameStep == \A j, c : Runs!StepOf(j, c) = StepOf(j, c)
BY DEF Runs!StepOf, StepOf, Runs!Goto, Goto, Runs!FallThrough, FallThrough,
       Runs!Direct, Direct, Runs!Indirect, Indirect

LEMMA SameExact == \A j : Runs!Exact(j) <=> Exact(j)
BY DEF Runs!Exact, Exact

LEMMA SameLimited == \A j, c, G : Runs!Limited(j, c, G) <=> Limited(j, c, G)
<1>0. \A S : Runs!Cardinality(S) = Cardinality(S)
  BY Zenon DEF Runs!Cardinality, Cardinality
<1>1. \A f, c, G : Runs!Others(f, c, G) = Others(f, c, G)
  BY DEF Runs!Others, Others
<1> SUFFICES ASSUME NEW j, NEW c, NEW G PROVE Runs!Limited(j, c, G) <=> Limited(j, c, G)
  OBVIOUS
<1> DEFINE o == Conf[j].code[c.pc]
<1>2. /\ Runs!Others(o.ptr, c, G) = Others(o.ptr, c, G)
      /\ Runs!Others(o.way, c, G) = Others(o.way, c, G)
  BY <1>1
<1> QED BY <1>0, <1>2 DEF Runs!Limited, Limited

-----------------------------------------------------------------------------
(***************************************************************************)
(* Where an input is.  The invariants make its state the only one that has *)
(* it.                                                                     *)
(***************************************************************************)
Tracks ==
  /\ \A id \in Id : \A i \in Own(heap[id]) :
       PlaceOf(i) = PlaceIn(id) /\ Position(i) = ConfigOf(id, i)
  /\ \A i : (\A id \in Id : i \notin Own(heap[id])) =>
              PlaceOf(i) = "dropped" /\ Position(i) = Start(job, i)

LEMMA InputsAreTracked == IInv => Tracks
<1> SUFFICES ASSUME IInv PROVE Tracks
  OBVIOUS
<1>1. ASSUME NEW id \in Id, NEW i \in Own(heap[id])
      PROVE  PlaceOf(i) = PlaceIn(id) /\ Position(i) = ConfigOf(id, i)
  <2>1. \A other \in Id : i \in Own(heap[other]) => other = id
    BY DEF IInv, NoInputTwice, Own
  <2>2. Holders(i) # {} /\ Holder(i) = id
    BY <2>1 DEF Holders, Holder
  <2> QED BY <2>2 DEF PlaceOf, Position
<1>2. ASSUME NEW i, \A id \in Id : i \notin Own(heap[id])
      PROVE  PlaceOf(i) = "dropped" /\ Position(i) = Start(job, i)
  <2>1. Holders(i) = {}
    BY <1>2 DEF Holders
  <2> QED BY <2>1 DEF PlaceOf, Position
<1> QED BY <1>1, <1>2 DEF Tracks

LEMMA InputsStayTracked == IInv' => Tracks'
BY InputsAreTracked, PTL

\* What a step does to the input i.
Stays(i)       == PlaceOf(i)' = PlaceOf(i) /\ Position(i)' = Position(i)
Advances(i)      == PlaceOf(i)' = PlaceOf(i) /\ Position(i)' = StepOf(job, Position(i))
Settles(i, p)  == PlaceOf(i)' = p /\ Position(i)' = Position(i)
IsDropped(i)   == PlaceOf(i)' = "dropped" /\ Position(i)' = Start(job, i)

\* The steps of ConcreteRuns, in these terms.
LEMMA RunsStutter ==
  ASSUME job' = job, \A i \in Input : Stays(i)
  PROVE  UNCHANGED Runs!vars
<1>1. Positions' = Positions
  BY DEF Positions, Stays
<1>2. Places' = Places
  BY DEF Places, Stays
<1> QED BY <1>1, <1>2 DEF Runs!vars

LEMMA RunsMove ==
  ASSUME job' = job, NEW S \in SUBSET Input, NEW D \in SUBSET Input, S \cap D = {}, NEW p,
         \A i \in S : Settles(i, p), \A i \in D : IsDropped(i),
         \A i \in Input \ (S \cup D) : Stays(i)
  PROVE  Runs!Move(S, p, D)
<1>1. \A i \in Input : Position(i)' = IF i \in D THEN Start(job, i) ELSE Position(i)
  BY DEF Settles, IsDropped, Stays
<1>2. \A i \in Input : PlaceOf(i)' = IF i \in D THEN "dropped" ELSE IF i \in S THEN p ELSE PlaceOf(i)
  BY DEF Settles, IsDropped, Stays
<1>3. Positions' = [i \in Input |-> IF i \in D THEN Start(job, i) ELSE Positions[i]]
  BY <1>1 DEF Positions
<1>4. Places' = [i \in Input |-> IF i \in D THEN "dropped" ELSE IF i \in S THEN p ELSE Places[i]]
  BY <1>2 DEF Places
<1> QED BY <1>3, <1>4, SameStart DEF Runs!Move

LEMMA RunsAdvance ==
  ASSUME job' = job, NEW S \in SUBSET Input, NEW D \in SUBSET Input,
         S \cap D = {}, S \cup D # {},
         \A i, k \in S \cup D : /\ Position(i).pc = Position(k).pc
                              /\ Position(i).depth = Position(k).depth,
         \A i \in D : ~Exact(job) \/ Limited(job, Position(i), {Position(k) : k \in S \cup D}),
         \A i \in S \cup D : PlaceOf(i) = "running",
         \A i \in S : Advances(i), \A i \in D : IsDropped(i),
         \A i \in Input \ (S \cup D) : Stays(i)
  PROVE  Runs!Advance
<1>1. \A i \in Input : Position(i)' = IF i \in S THEN StepOf(job, Position(i))
                                     ELSE IF i \in D THEN Start(job, i) ELSE Position(i)
  BY DEF Advances, IsDropped, Stays
<1>2. \A i \in Input : PlaceOf(i)' = IF i \in D THEN "dropped" ELSE PlaceOf(i)
  BY DEF Advances, IsDropped, Stays
<1>3. Positions' = [i \in Input |-> IF i \in S THEN Runs!StepOf(job, Positions[i])
                                   ELSE IF i \in D THEN Runs!Start(job, i) ELSE Positions[i]]
  BY <1>1, SameStart, SameStep DEF Positions
<1>4. Places' = [i \in Input |-> IF i \in D THEN "dropped" ELSE Places[i]]
  BY <1>2 DEF Places
<1>5. S \in SUBSET Runs!Running /\ D \in SUBSET Runs!Running
  BY DEF Runs!Running, Places
<1>6. /\ \A i \in Input : Positions[i] = Position(i)
      /\ {Positions[k] : k \in S \cup D} = {Position(k) : k \in S \cup D}
  BY DEF Positions
<1>7. \A i, k \in S \cup D : /\ Positions[i].pc = Positions[k].pc
                            /\ Positions[i].depth = Positions[k].depth
  BY <1>6
<1>8. \A i \in D : \/ ~Runs!Exact(job)
                  \/ Runs!Limited(job, Positions[i], {Positions[k] : k \in S \cup D})
  <2> SUFFICES ASSUME NEW i \in D, Exact(job)
               PROVE  Limited(job, Positions[i], {Positions[k] : k \in S \cup D})
    BY SameExact, SameLimited
  <2> QED BY <1>6
<1> QED BY <1>3, <1>4, <1>5, <1>7, <1>8 DEF Runs!Advance

LEMMA RunsEnd ==
  ASSUME job' = job, NEW S \in SUBSET Input, S # {},
         \A i \in S : /\ PlaceOf(i) = "running" /\ Settles(i, "ended")
                      /\ conf.code[Position(i).pc].kind \in {"EXIT"} \cup Indirect,
         \A i \in Input \ S : Stays(i)
  PROVE  Runs!End
<1>1. Runs!Move(S, "ended", {})
  BY RunsMove
<1>2. S \in SUBSET Runs!Running
  BY DEF Runs!Running, Places
<1>3. \A i \in S : Conf[job].code[Positions[i].pc].kind \in {"EXIT"} \cup Runs!Indirect
  BY DEF Positions, conf, Runs!Indirect, Indirect
<1> QED BY <1>1, <1>2, <1>3 DEF Runs!End

LEMMA RunsReport ==
  ASSUME job' = job, conf.mode = "gen_paths", NEW S \in SUBSET Input, S # {},
         \A i \in S : PlaceOf(i) = "ended" /\ Settles(i, "reported"),
         \A i \in Input \ S : Stays(i)
  PROVE  Runs!Report
<1>1. Runs!Move(S, "reported", {})
  BY RunsMove
<1>2. S \in SUBSET Runs!Ended
  BY DEF Runs!Ended, Places
<1> QED BY <1>1, <1>2 DEF Runs!Report, conf

LEMMA RunsFind ==
  ASSUME job' = job, NEW S \in SUBSET Input, NEW D \in SUBSET Input, S # {}, S \cap D = {},
         \A i \in S \cup D : PlaceOf(i) = "running",
         \A i \in S : Settles(i, "found") /\ Position(i).pc \in conf.find,
         \A i \in D : IsDropped(i),
         \A i \in Input \ (S \cup D) : Stays(i)
  PROVE  Runs!Find
<1>1. Runs!Move(S, "found", D)
  BY RunsMove
<1>2. S \in SUBSET Runs!Running /\ D \in SUBSET Runs!Running
  BY DEF Runs!Running, Places
<1>3. \A i \in S : Positions[i].pc \in Conf[job].find
  BY DEF Positions, conf
<1> QED BY <1>1, <1>2, <1>3 DEF Runs!Find

LEMMA RunsDrop ==
  ASSUME job' = job, NEW D \in SUBSET Input, D # {},
         \A i \in D : IsDropped(i), \A i \in Input \ D : Stays(i)
  PROVE  /\ (\A i \in D : /\ PlaceOf(i) = "running"
                          /\ Position(i).pc \in conf.avoid \ conf.find) => Runs!Avoid
         /\ ~Exact(job) /\ (\A i \in D : PlaceOf(i) \in {"running", "ended"}) => Runs!GiveUp
<1>1. Runs!Move({}, "dropped", D)
  BY RunsMove
<1>2. ASSUME \A i \in D : PlaceOf(i) = "running" /\ Position(i).pc \in conf.avoid \ conf.find
      PROVE  Runs!Avoid
  BY <1>1, <1>2 DEF Runs!Avoid, Runs!Running, Places, Positions, conf
<1>3. ASSUME ~Exact(job), \A i \in D : PlaceOf(i) \in {"running", "ended"}
      PROVE  Runs!GiveUp
  BY <1>1, <1>3, SameExact DEF Runs!GiveUp, Runs!Running, Runs!Ended, Places
<1> QED BY <1>2, <1>3


-----------------------------------------------------------------------------
LEMMA RunsInit == Init => Runs!Init
<1> SUFFICES ASSUME Init PROVE Runs!Init
  OBVIOUS
<1>1. IInv /\ Tracks /\ FirstId \in Id /\ NoId \notin Id
  BY IInvInit, InputsAreTracked, IdAssumption DEF FirstId
<1> DEFINE first == [Blank EXCEPT !.pi = Input, !.live = TRUE]
<1>2. /\ first.pi = Input /\ first.pc = conf.entry /\ first.val = conf.data
      /\ first.depth = 0 /\ first.stray = {}
  BY DEF Blank
<1> HIDE DEF first
<1>3. heap[FirstId] = first
  BY <1>1 DEF Init, first
<1>4. ASSUME NEW i \in Input
      PROVE  Position(i) = Start(job, i) /\ PlaceOf(i) = "running"
  <2>1. Position(i) = ConfigOf(FirstId, i) /\ PlaceOf(i) = PlaceIn(FirstId)
    BY <1>1, <1>2, <1>3 DEF Tracks, Own
  <2>2. ConfigOf(FirstId, i) = Start(job, i)
    BY <1>2, <1>3 DEF ConfigOf, ConfigIn, Start, conf
  <2>3. PlaceIn(FirstId) = "running"
    BY <1>1 DEF PlaceIn, Init
  <2> QED BY <2>1, <2>2, <2>3
<1>5. Positions = [i \in Input |-> Runs!Start(job, i)] /\ Places = [i \in Input |-> "running"]
  BY <1>4, SameStart DEF Positions, Places
<1> QED BY <1>5 DEF Runs!Init, Init

-----------------------------------------------------------------------------
(***************************************************************************)
(* A step of a block.                                                      *)
(***************************************************************************)
\* A state that goes to the exited successors is the current one, as it was.
Exits ==
  /\ ext' = Append(ext, cur) /\ op.kind \in {"EXIT"} \cup Indirect
  /\ \A id \in Id : Own(heap'[id]) = Own(heap[id]) /\ \A i : ConfigOf(id, i)' = ConfigOf(id, i)

LEMMA ExecExits == TypeOK /\ ExecuteOp => ext' = ext \/ Exits
<1> SUFFICES ASSUME TypeOK, ExecuteOp PROVE ext' = ext \/ Exits
  OBVIOUS
<1>1. phase = "exec" /\ heap \in [Id -> SymState]
  BY ExecPhase DEF TypeOK
<1>2. s \in SymState /\ op \in Op /\ cur \in Id
  BY <1>1, OpType
<1>3. CASE UnconstrainedIP
  <2>1. heap' = [heap EXCEPT ![cur] = Recorded(s)] /\ ext' = Append(ext, cur) /\ op.kind \in Indirect
    BY <1>3 DEF UnconstrainedIP, SymbolicIP, Executing
  <2>2. Recorded(s).pi = s.pi /\ Recorded(s).stray = s.stray
    BY <1>2 DEF Recorded, SymState
  <2>3. heap'[cur] = Recorded(s) /\ \A id \in Id : id # cur => heap'[id] = heap[id]
    BY <1>1, <1>2, <2>1
  <2>4. ASSUME NEW id \in Id, NEW i PROVE ConfigOf(id, i)' = ConfigOf(id, i)
    <3>1. ConfigIn(Recorded(s), i) = ConfigIn(s, i)
      BY <1>2, SameConfig
    <3>2. ConfigIn(heap'[id], i) = ConfigIn(heap[id], i)
      BY <2>3, <3>1 DEF s
    <3> QED BY <3>2 DEF ConfigOf
  <2>5. \A id \in Id : Own(heap'[id]) = Own(heap[id])
    BY <2>2, <2>3 DEF s, Own
  <2> QED BY <2>1, <2>4, <2>5 DEF Exits
<1>4. CASE LibExit
  BY <1>4 DEF LibExit, Exits, Executing, ConfigOf
<1> QED BY <1>3, <1>4 DEF ExecuteOp, DataOp, UnsatState, CBranchLazy, CBranchEager, DirectJump,
           ConstantIP, UnsatIP, ForkIP, LibReturn, ExitFail

\* Where the states of a step's inputs are: the current one was, and its clones were
\* not in use.
LEMMA ExecPlaces ==
  ASSUME IInv, OwnerInv, ExecuteOp
  PROVE  /\ cur \in Id /\ PlaceIn(cur) = "running"
         /\ \A id \in Id : /\ heap[id].live /\ id # cur => heap'[id] = heap[id]
                           /\ ~heap[id].live => PlaceIn(id) = "running"
<1>1. TypeOK /\ phase = "exec"
  BY ExecPhase DEF IInv
<1>2. cur \in Id /\ found = NoId /\ NoId \notin Id
  BY <1>1, IdAssumption DEF TypeOK, OwnerInv, CurShape
<1>3. PlaceIn(cur) = "running"
  <2>1. cur \notin reported /\ cur \notin exited /\ ~In(ext, cur)
    BY <1>1, <1>2, OnePlace
  <2> QED BY <1>2, <2>1 DEF PlaceIn, In
<1>4. ASSUME NEW id \in Id, heap[id].live, id # cur
      PROVE  heap'[id] = heap[id]
  <2>1. CASE phase' = "failed"
    BY <2>1, FailedUnchanged
  <2>2. CASE phase' # "failed"
    BY <1>1, <1>4, <2>2, ExecEvolves DEF Evolves, Untouched
  <2> QED BY <2>1, <2>2
<1>5. ASSUME NEW id \in Id, ~heap[id].live
      PROVE  PlaceIn(id) = "running"
  <2>1. ~Somewhere(id)
    BY <1>1, <1>5, OnePlace
  <2> QED BY <2>1 DEF PlaceIn, Somewhere, In
<1> QED BY <1>2, <1>3, <1>4, <1>5

LEMMA RunsExit ==
  ASSUME IInv, IInv', OwnerInv, ExecuteBlock, Exits, job' = job
  PROVE  Runs!End \/ UNCHANGED Runs!vars
<1>1. Tracks /\ Tracks' /\ TypeOK /\ heap \in [Id -> SymState]
  BY InputsAreTracked, InputsStayTracked DEF IInv, TypeOK
<1>2. PICK c \in Id : c = cur /\ PlaceIn(c) = "running"
  BY ExecPlaces DEF ExecuteBlock
<1>3. UNCHANGED <<reported, found, exited>> /\ ext \in Seq(Id)
  BY <1>1 DEF ExecuteBlock, manager, TypeOK
<1>4. \A id \in Id : Own(heap'[id]) = Own(heap[id]) /\ \A i : ConfigOf(id, i)' = ConfigOf(id, i)
  BY DEF Exits
<1>5. \A id \in Id : In(ext', id) <=> In(ext, id) \/ id = c
  BY <1>2, <1>3, InAppend DEF Exits
<1>6. PlaceIn(c)' = "ended" /\ \A id \in Id : id # c => PlaceIn(id)' = PlaceIn(id)
  <2>1. c \notin reported /\ c # found
    BY <1>2 DEF PlaceIn
  <2> QED BY <1>2, <1>3, <1>5, <2>1 DEF PlaceIn, In
<1> DEFINE S == Own(heap[c])
<1>7. S \in SUBSET Input
  BY <1>1, <1>2, OwnIsHeld DEF SymState
<1>8. ASSUME NEW i \in S
      PROVE  /\ PlaceOf(i) = "running" /\ Settles(i, "ended")
             /\ conf.code[Position(i).pc].kind \in {"EXIT"} \cup Indirect
  <2>1. PlaceOf(i) = "running" /\ Position(i) = ConfigOf(c, i)
    BY <1>1, <1>2, <1>8 DEF Tracks
  <2>2. PlaceOf(i)' = "ended" /\ Position(i)' = ConfigOf(c, i)'
    BY <1>1, <1>2, <1>4, <1>6, <1>8 DEF Tracks
  <2>3. op = conf.code[ConfigOf(c, i).pc]
    BY <1>2 DEF ConfigOf, ConfigIn, op
  <2> QED BY <1>2, <1>4, <2>1, <2>2, <2>3 DEF Settles, Exits
<1>9. ASSUME NEW i \in Input \ S
      PROVE  Stays(i)
  <2>1. CASE \E id \in Id : i \in Own(heap[id])
    <3>1. PICK id \in Id : i \in Own(heap[id])
      BY <2>1
    <3>2. id # c /\ i \in Own(heap'[id])
      BY <1>4, <1>9, <3>1
    <3>3. /\ PlaceOf(i) = PlaceIn(id) /\ Position(i) = ConfigOf(id, i)
          /\ PlaceOf(i)' = PlaceIn(id)' /\ Position(i)' = ConfigOf(id, i)'
      BY <1>1, <3>1, <3>2 DEF Tracks
    <3> QED BY <1>4, <1>6, <3>2, <3>3 DEF Stays
  <2>2. CASE \A id \in Id : i \notin Own(heap[id])
    <3>1. \A id \in Id : i \notin Own(heap'[id])
      BY <1>4, <2>2
    <3> QED BY <1>1, <2>2, <3>1 DEF Tracks, Stays
  <2> QED BY <2>1, <2>2
<1> HIDE DEF S
<1>10. CASE S = {}
  BY <1>9, <1>10, RunsStutter
<1>11. CASE S # {}
  BY <1>7, <1>8, <1>9, <1>11, RunsEnd
<1> QED BY <1>10, <1>11

LEMMA RunsExec ==
  ASSUME IInv, IInv', OwnerInv, ExecuteBlock, ext' = ext
  PROVE  Runs!Advance \/ UNCHANGED Runs!vars
<1>1. Tracks /\ Tracks' /\ TypeOK /\ heap \in [Id -> SymState] /\ UnusedIsEmpty /\ NoInputTwice
  BY InputsAreTracked, InputsStayTracked DEF IInv, TypeOK
<1>2. /\ cur \in Id /\ PlaceIn(cur) = "running" /\ phase = "exec"
      /\ \A id \in Id : /\ heap[id].live /\ id # cur => heap'[id] = heap[id]
                        /\ ~heap[id].live => PlaceIn(id) = "running"
  BY ExecPlaces, ExecPhase DEF ExecuteBlock
<1>3. Moves
  BY ExecMoves DEF ExecuteBlock
<1>4. job' = job /\ UNCHANGED <<reported, found, exited>>
  BY <1>3 DEF ExecuteBlock, manager, Moves
<1>5. \A id \in Id : PlaceIn(id)' = PlaceIn(id)
  BY <1>4 DEF PlaceIn
<1> DEFINE P == Own(heap[cur])
           Held(i) == \E id \in Id : i \in Own(heap'[id])
           D == {i \in P : ~Held(i)}
           S == {i \in P : Held(i) /\ Advances(i)}
<1>6. P \in SUBSET Input /\ D \in SUBSET Input /\ S \in SUBSET Input /\ S \cap D = {}
  BY <1>1, <1>2, OwnIsHeld DEF SymState
<1>7. \A i \in P : PlaceOf(i) = "running" /\ Position(i) = ConfigOf(cur, i)
  BY <1>1, <1>2 DEF Tracks
<1>8. \A i \in D : IsDropped(i)
  BY <1>1, <1>4 DEF Tracks, IsDropped
<1>9. ASSUME NEW i \in P, Held(i)
      PROVE  PlaceOf(i)' = "running" /\ (Stays(i) \/ Advances(i))
  <2>1. PICK id \in Id : i \in Own(heap'[id])
    BY <1>9
  <2>2. PlaceOf(i)' = PlaceIn(id) /\ Position(i)' = ConfigOf(id, i)'
    BY <1>1, <1>5, <2>1 DEF Tracks
  <2>3. id = cur \/ ~heap[id].live
    <3> SUFFICES ASSUME id # cur, heap[id].live PROVE FALSE
      BY <1>1 DEF SymState
    <3>1. i \in Own(heap[id])
      BY <1>2, <2>1
    <3> QED BY <1>1, <1>2, <1>9, <3>1, OwnIsHeld DEF NoInputTwice
  <2>4. PlaceIn(id) = "running"
    BY <1>2, <2>3
  <2>5. \/ i \in Own(heap[id]) /\ ConfigOf(id, i)' = ConfigOf(id, i)
        \/ ConfigOf(id, i)' = StepOf(job, ConfigOf(cur, i))
    BY <1>3, <2>1 DEF Moves
  <2>6. i \in Own(heap[id]) => id = cur
    BY <1>1, <1>2, <1>9, OwnIsHeld DEF NoInputTwice
  <2> QED BY <1>7, <1>9, <2>2, <2>4, <2>5, <2>6 DEF Stays, Advances
<1>11. ASSUME NEW i \in Input \ P
       PROVE  Stays(i)
  <2>1. CASE \E id \in Id : i \in Own(heap[id])
    <3>1. PICK id \in Id : i \in Own(heap[id])
      BY <2>1
    <3>2. heap'[id] = heap[id]
      BY <1>1, <1>2, <1>11, <3>1, OwnIsHeld DEF UnusedIsEmpty
    <3>3. /\ PlaceOf(i) = PlaceIn(id) /\ Position(i) = ConfigOf(id, i)
          /\ PlaceOf(i)' = PlaceIn(id)' /\ Position(i)' = ConfigOf(id, i)'
      BY <1>1, <3>1, <3>2 DEF Tracks
    <3>4. ConfigOf(id, i)' = ConfigOf(id, i)
      BY <3>2 DEF ConfigOf
    <3> QED BY <1>5, <3>3, <3>4 DEF Stays
  <2>2. CASE \A id \in Id : i \notin Own(heap[id])
    <3>1. \A id \in Id : i \notin Own(heap'[id])
      BY <1>3, <1>11, <2>2 DEF Moves
    <3> QED BY <1>1, <1>4, <2>2, <3>1 DEF Tracks, Stays
  <2> QED BY <2>1, <2>2
<1>12. \A i, k \in P : Position(i).pc = Position(k).pc /\ Position(i).depth = Position(k).depth
  BY <1>7 DEF ConfigOf, ConfigIn
<1>13. ASSUME NEW i \in D, Exact(job)
       PROVE  Limited(job, Position(i), {Position(k) : k \in S \cup D})
  <2>1. P = heap[cur].pi /\ \A id \in Id : Own(heap'[id]) = heap'[id].pi
    BY <1>2, <1>3, <1>13, OwnIsHeld DEF Moves, Own
  <2>2. ~ \E id \in Id : i \in heap'[id].pi
    BY <2>1
  <2>3. LimitHere(i)
    BY <1>2, <1>3, <1>13, <2>1, <2>2 DEF Moves
  <2>4. ASSUME NEW k \in P, Held(k)
        PROVE  Advances(k)
    <3>1. PICK id \in Id : k \in Own(heap'[id])
      BY <2>4
    <3>2. ConfigOf(id, k)' = StepOf(job, ConfigOf(cur, k))
      BY <1>3, <2>1, <2>2, <3>1 DEF Moves
    <3>3. Position(k)' = ConfigOf(id, k)'
      BY <1>1, <3>1 DEF Tracks
    <3> QED BY <1>7, <1>9, <2>4, <3>2, <3>3 DEF Advances
  <2>5. S \cup D = P
    BY <2>4
  <2>6. {Position(k) : k \in P} = {ConfigOf(cur, k) : k \in heap[cur].pi}
    BY <1>7, <2>1
  <2>7. Position(i) = ConfigOf(cur, i)
    BY <1>7
  <2> HIDE DEF S, D, P
  <2> QED BY <2>3, <2>5, <2>6, <2>7 DEF LimitHere
<1>14. \A i \in S : Advances(i)
  OBVIOUS
<1>15. \A i \in Input \ (S \cup D) : Stays(i)
  BY <1>9, <1>11
<1>16. /\ \A i \in S \cup D : PlaceOf(i) = "running"
       /\ \A i, k \in S \cup D : /\ Position(i).pc = Position(k).pc
                               /\ Position(i).depth = Position(k).depth
  BY <1>7, <1>12
<1> HIDE DEF S, D, P
<1>17. \A i \in D : ~Exact(job) \/ Limited(job, Position(i), {Position(k) : k \in S \cup D})
  BY <1>13
<1>18. CASE S \cup D = {}
  BY <1>4, <1>15, <1>18, RunsStutter
<1>19. CASE S \cup D # {}
  BY <1>4, <1>6, <1>8, <1>14, <1>15, <1>16, <1>17, <1>19, RunsAdvance
<1> QED BY <1>18, <1>19

-----------------------------------------------------------------------------
(***************************************************************************)
(* The other steps: they let go of some states and settle some others.     *)
(***************************************************************************)
\* What becomes of the inputs of a state that is left alone, or let go of.
LEMMA LeftAlone ==
  ASSUME IInv, IInv', job' = job, NEW id \in Id, NEW i \in Own(heap[id])
  PROVE  /\ PlaceOf(i) = PlaceIn(id) /\ Position(i) = ConfigOf(id, i)
         /\ heap'[id] = heap[id] => /\ PlaceOf(i)' = PlaceIn(id)'
                                    /\ Position(i)' = Position(i)
<1>1. Tracks /\ Tracks'
  BY InputsAreTracked, InputsStayTracked
<1>2. PlaceOf(i) = PlaceIn(id) /\ Position(i) = ConfigOf(id, i)
  BY <1>1 DEF Tracks
<1>3. ASSUME heap'[id] = heap[id]
      PROVE  PlaceOf(i)' = PlaceIn(id)' /\ Position(i)' = Position(i)
  <2>1. PlaceOf(i)' = PlaceIn(id)' /\ Position(i)' = ConfigOf(id, i)'
    BY <1>1, <1>3 DEF Tracks
  <2> QED BY <1>2, <1>3, <2>1 DEF ConfigOf
<1> QED BY <1>2, <1>3

LEMMA LetGo ==
  ASSUME IInv, IInv', job' = job, NEW i,
         \A id \in Id : i \in Own(heap[id]) => heap'[id] = Blank,
         \A id \in Id : heap'[id] = heap[id] \/ heap'[id] = Blank
  PROVE  IsDropped(i)
<1>1. Tracks'
  BY InputsStayTracked
<1>2. \A id \in Id : i \notin Own(heap'[id])
  BY OwnIsHeld
<1> QED BY <1>1, <1>2 DEF Tracks, IsDropped

\* An input with no state stays without.
LEMMA StaysDropped ==
  ASSUME IInv, IInv', job' = job, NEW i, \A id \in Id : i \notin Own(heap[id]),
         \A id \in Id : heap'[id] = heap[id] \/ heap'[id] = Blank
  PROVE  Stays(i)
<1>1. Tracks /\ Tracks'
  BY InputsAreTracked, InputsStayTracked
<1>2. \A id \in Id : i \notin Own(heap'[id])
  BY OwnIsHeld
<1> QED BY <1>1, <1>2 DEF Tracks, Stays

\* Steps that hand states over between the lists.
LEMMA RunsSame ==
  ASSUME IInv, IInv', job' = job, heap' = heap, \A id \in Id : PlaceIn(id)' = PlaceIn(id)
  PROVE  UNCHANGED Runs!vars
<1>1. ASSUME NEW i \in Input PROVE Stays(i)
  <2>1. CASE \E id \in Id : i \in Own(heap[id])
    BY <2>1, LeftAlone DEF Stays
  <2>2. CASE \A id \in Id : i \notin Own(heap[id])
    BY <2>2, StaysDropped
  <2> QED BY <2>1, <2>2
<1> QED BY <1>1, RunsStutter

\* One state is let go of, and the others are left alone.
LEMMA RunsDropOne ==
  ASSUME IInv, IInv', job' = job, NEW gone \in Id, heap' = [heap EXCEPT ![gone] = Blank],
         \A id \in Id : id # gone => PlaceIn(id)' = PlaceIn(id),
         \/ PlaceIn(gone) = "running" /\ heap[gone].pc \in conf.avoid \ conf.find
         \/ /\ PlaceIn(gone) \in {"running", "ended"}
            /\ Exact(job) => heap[gone].pi = {}
  PROVE  [Runs!Next]_(Runs!vars)
<1>1. heap \in [Id -> SymState] /\ TypeOK
  BY DEF IInv, TypeOK
<1>2. heap'[gone] = Blank /\ \A id \in Id : id # gone => heap'[id] = heap[id]
  BY <1>1
<1> DEFINE D == Own(heap[gone])
<1>3. D \in SUBSET Input /\ D \subseteq heap[gone].pi
  BY <1>1, OwnIsHeld DEF SymState
<1>4. ASSUME NEW i \in D
      PROVE  /\ IsDropped(i) /\ PlaceOf(i) = PlaceIn(gone)
             /\ Position(i).pc = heap[gone].pc
  <2>1. PlaceOf(i) = PlaceIn(gone) /\ Position(i) = ConfigOf(gone, i)
    BY <1>4, LeftAlone
  <2>2. \A id \in Id : i \in Own(heap[id]) => id = gone
    BY <1>4, OwnIsHeld DEF IInv, NoInputTwice
  <2>3. IsDropped(i)
    BY <1>2, <2>2, LetGo
  <2> QED BY <2>1, <2>3 DEF ConfigOf, ConfigIn
<1>5. ASSUME NEW i \in Input \ D
      PROVE  Stays(i)
  <2>1. CASE \E id \in Id : i \in Own(heap[id])
    <3>1. PICK id \in Id : i \in Own(heap[id])
      BY <2>1
    <3>2. id # gone /\ heap'[id] = heap[id]
      BY <1>2, <1>5, <3>1
    <3> QED BY <3>1, <3>2, LeftAlone DEF Stays
  <2>2. CASE \A id \in Id : i \notin Own(heap[id])
    BY <1>2, <2>2, StaysDropped
  <2> QED BY <2>1, <2>2
<1>6. CASE D = {}
  <2>1. \A i \in Input : Stays(i)
    BY <1>5, <1>6
  <2> QED BY <2>1, RunsStutter
<1>7. CASE D # {}
  <2>1. /\ (\A i \in D : /\ PlaceOf(i) = "running"
                         /\ Position(i).pc \in conf.avoid \ conf.find) => Runs!Avoid
        /\ ~Exact(job) /\ (\A i \in D : PlaceOf(i) \in {"running", "ended"}) => Runs!GiveUp
    <3> HIDE DEF D
    <3> QED BY <1>3, <1>4, <1>5, <1>7, RunsDrop
  <2>2. CASE PlaceIn(gone) = "running" /\ heap[gone].pc \in conf.avoid \ conf.find
    BY <1>4, <2>1, <2>2 DEF Runs!Next
  <2>3. CASE PlaceIn(gone) \in {"running", "ended"} /\ (Exact(job) => heap[gone].pi = {})
    <3>1. ~Exact(job)
      BY <1>3, <1>7, <2>3
    <3> QED BY <1>4, <2>1, <2>3, <3>1 DEF Runs!Next
  <2> QED BY <2>2, <2>3
<1> QED BY <1>6, <1>7

LEMMA RunsSift ==
  ASSUME IInv, IInv', OwnerInv, SiftExited
  PROVE  [Runs!Next]_(Runs!vars)
<1>1. /\ TypeOK /\ ext \in Seq(Id) /\ ext # <<>> /\ phase = "sift" /\ job' = job
      /\ ext' = Tail(ext) /\ found' = found
  BY DEF IInv, TypeOK, SiftExited
<1>2. PICK h \in Id : h = Head(ext)
  BY <1>1
<1>3. In(ext, h) /\ \A id \in Id : In(ext, id) <=> In(ext', id) \/ id = h
  BY <1>1, <1>2, InTail
<1>4. h \notin exited /\ h \notin reported /\ found = NoId /\ NoId \notin Id
  BY <1>1, <1>3, OnePlace, IdAssumption DEF OwnerInv, CurShape
<1>5. PlaceIn(h) = "ended"
  BY <1>3, <1>4 DEF PlaceIn, In
<1>6. CASE exited' = exited \cup {h} /\ UNCHANGED <<heap, reported>>
  <2>1. \A id \in Id : PlaceIn(id)' = PlaceIn(id)
    BY <1>1, <1>3, <1>6 DEF PlaceIn, In
  <2> QED BY <1>1, <1>6, <2>1, RunsSame
<1>7. CASE /\ conf.mode = "gen_paths" /\ "SAT" \in Verdicts(heap[h].pi)
           /\ reported' = reported \cup {h} /\ UNCHANGED <<heap, exited>>
  <2> DEFINE S == Own(heap[h])
  <2>1. S \in SUBSET Input
    BY <1>1, OwnIsHeld DEF TypeOK, SymState
  <2>2. PlaceIn(h)' = "reported"
    BY <1>7 DEF PlaceIn
  <2>3. \A id \in Id : id # h => PlaceIn(id)' = PlaceIn(id)
    BY <1>1, <1>3, <1>7 DEF PlaceIn, In
  <2>4. \A i \in S : PlaceOf(i) = "ended" /\ Settles(i, "reported")
    BY <1>1, <1>5, <1>7, <2>2, LeftAlone DEF Settles
  <2>5. ASSUME NEW i \in Input \ S PROVE Stays(i)
    <3>1. CASE \E id \in Id : i \in Own(heap[id])
      <4>1. PICK id \in Id : i \in Own(heap[id])
        BY <3>1
      <4>2. id # h
        BY <2>5, <4>1
      <4> QED BY <1>1, <1>7, <2>3, <4>1, <4>2, LeftAlone DEF Stays
    <3>2. CASE \A id \in Id : i \notin Own(heap[id])
      BY <1>1, <1>7, <3>2, StaysDropped
    <3> QED BY <3>1, <3>2
  <2> HIDE DEF S
  <2>6. CASE S = {}
    BY <1>1, <2>5, <2>6, RunsStutter
  <2>7. CASE S # {}
    BY <1>1, <1>7, <2>1, <2>4, <2>5, <2>7, RunsReport DEF Runs!Next
  <2> QED BY <2>6, <2>7
<1>8. CASE /\ Verdicts(heap[h].pi) # {"SAT"} /\ heap' = [heap EXCEPT ![h] = Blank]
           /\ UNCHANGED <<exited, reported>>
  <2>1. \A id \in Id : id # h => PlaceIn(id)' = PlaceIn(id)
    BY <1>1, <1>3, <1>8 DEF PlaceIn, In
  <2>2. Exact(job) => heap[h].pi = {}
    BY <1>8, OnlyUnsat
  <2> QED BY <1>1, <1>5, <1>8, <2>1, <2>2, RunsDropOne
<1> QED BY <1>2, <1>6, <1>7, <1>8 DEF SiftExited

\* The successors of a block run on.
LEMMA SuccessorRuns ==
  ASSUME IInv, OwnerInv, NEW g \in Id, Sifting(g), NEW id \in Id, In(act, id) \/ In(keep, id)
  PROVE  PlaceIn(id) = "running"
<1>1. TypeOK /\ phase = "sift" /\ found = NoId /\ NoId \notin Id
  BY IdAssumption DEF IInv, Sifting, OwnerInv, CurShape
<1>2. id \notin exited /\ id \notin reported /\ ~In(ext, id)
  BY <1>1, OnePlace
<1> QED BY <1>1, <1>2 DEF PlaceIn, In

LEMMA SiftedIsNext ==
  ASSUME TypeOK, NEW g \in Id, Sifting(g)
  PROVE  act \in Seq(Id) /\ 1 \in DOMAIN act /\ g = act[1] /\ In(act, g)
<1>1. act \in Seq(Id) /\ 1 \in DOMAIN act /\ g = act[1]
  BY DEF Sifting, TypeOK
<1> QED BY <1>1 DEF In

LEMMA RunsDropSuccessor ==
  ASSUME IInv, IInv', OwnerInv, DropSuccessor
  PROVE  [Runs!Next]_(Runs!vars)
<1>1. PICK g \in Id : /\ Sifting(g) /\ heap' = [heap EXCEPT ![g] = Blank] /\ job' = job
                      /\ \/ Wanted(g) /\ Verdicts(heap[g].pi) # {"SAT"}
                         \/ Avoided(g)
                      /\ UNCHANGED <<ext, exited, reported, found>>
  BY DEF DropSuccessor, manager
<1>2. PlaceIn(g) = "running"
  BY <1>1, SuccessorRuns, SiftedIsNext DEF IInv
<1>3. \A id \in Id : PlaceIn(id)' = PlaceIn(id)
  BY <1>1 DEF PlaceIn
<1>4. \/ heap[g].pc \in conf.avoid \ conf.find
      \/ Exact(job) => heap[g].pi = {}
  BY <1>1, OnlyUnsat DEF Avoided
<1> QED BY <1>1, <1>2, <1>3, <1>4, RunsDropOne

LEMMA RunsReturn ==
  ASSUME IInv, IInv', OwnerInv, ReturnFound
  PROVE  [Runs!Next]_(Runs!vars)
<1> DEFINE Gone(id) == (\E k \in 2..Len(act) : act[k] = id) \/ (\E k \in DOMAIN keep : keep[k] = id)
<1>1. PICK g \in Id : /\ Sifting(g) /\ Wanted(g) /\ "SAT" \in Verdicts(heap[g].pi)
                      /\ found' = g /\ job' = job
                      /\ heap' = [o \in Id |-> IF \/ \E k \in 2..Len(act) : act[k] = o
                                                  \/ \E k \in DOMAIN keep : keep[k] = o
                                               THEN Blank ELSE heap[o]]
                      /\ UNCHANGED <<ext, exited, reported>>
  BY DEF ReturnFound
<1>2. /\ TypeOK /\ found = NoId /\ NoId \notin Id /\ heap \in [Id -> SymState]
      /\ heap[g].pi # {} /\ heap[g].pc \in conf.find
  BY <1>1, IdAssumption DEF IInv, TypeOK, OwnerInv, CurShape, Sifting, Verdicts, Wanted
<1>3. \A id \in Id : heap'[id] = IF Gone(id) THEN Blank ELSE heap[id]
  BY <1>1
<1>4. heap'[g] = heap[g] /\ ~Gone(g)
  <2>1. heap'[g] = heap[g]
    BY <1>1, <1>2, ReturnKeeps
  <2> HIDE DEF Gone
  <2> QED BY <1>2, <1>3, <2>1 DEF Blank
<1>5. \A id \in Id : Gone(id) => In(act, id) \/ In(keep, id)
  <2>1. act \in Seq(Id)
    BY <1>1, <1>2, SiftedIsNext
  <2>2. \A k \in 2..Len(act) : k \in DOMAIN act
    BY <2>1
  <2> QED BY <2>2 DEF In
<1> HIDE DEF Gone
<1>6. /\ PlaceIn(g) = "running"
      /\ \A id \in Id : Gone(id) => PlaceIn(id) = "running"
  BY <1>1, <1>2, <1>5, SuccessorRuns, SiftedIsNext
<1>7. PlaceIn(g)' = "found" /\ \A id \in Id : id # g => PlaceIn(id)' = PlaceIn(id)
  <2>1. g \notin reported
    BY <1>6 DEF PlaceIn
  <2> QED BY <1>1, <1>2, <2>1 DEF PlaceIn
<1> DEFINE S == Own(heap[g])
           D == {i \in Input : \E id \in Id : Gone(id) /\ i \in Own(heap[id])}
<1>8. S \in SUBSET Input /\ D \in SUBSET Input
  BY <1>2, OwnIsHeld DEF SymState
<1>9. \A i : \A a, b \in Id : i \in Own(heap[a]) /\ i \in Own(heap[b]) => a = b
  BY OwnIsHeld DEF IInv, NoInputTwice
<1>10. S \cap D = {}
  BY <1>4, <1>9
<1>11. ASSUME NEW i \in S
       PROVE  /\ PlaceOf(i) = "running" /\ Settles(i, "found")
              /\ Position(i).pc \in conf.find
  <2>1. /\ PlaceOf(i) = "running" /\ Position(i) = ConfigOf(g, i)
        /\ PlaceOf(i)' = "found" /\ Position(i)' = Position(i)
    BY <1>1, <1>4, <1>6, <1>7, LeftAlone
  <2> QED BY <1>2, <2>1 DEF Settles, ConfigOf, ConfigIn
<1>12. ASSUME NEW i \in D
       PROVE  PlaceOf(i) = "running" /\ IsDropped(i)
  <2>1. PICK id \in Id : Gone(id) /\ i \in Own(heap[id])
    BY <1>12
  <2>2. PlaceOf(i) = "running"
    BY <1>1, <1>6, <2>1, LeftAlone
  <2>3. \A other \in Id : i \in Own(heap[other]) => heap'[other] = Blank
    BY <1>3, <1>9, <2>1
  <2>4. \A other \in Id : heap'[other] = heap[other] \/ heap'[other] = Blank
    BY <1>3
  <2> QED BY <1>1, <2>2, <2>3, <2>4, LetGo
<1>13. ASSUME NEW i \in Input \ (S \cup D)
       PROVE  Stays(i)
  <2>1. CASE \E id \in Id : i \in Own(heap[id])
    <3>1. PICK id \in Id : i \in Own(heap[id])
      BY <2>1
    <3>2. id # g /\ ~Gone(id)
      BY <1>13, <3>1
    <3>3. heap'[id] = heap[id]
      BY <1>3, <3>2
    <3> QED BY <1>1, <1>7, <3>1, <3>2, <3>3, LeftAlone DEF Stays
  <2>2. CASE \A id \in Id : i \notin Own(heap[id])
    <3>1. \A id \in Id : heap'[id] = heap[id] \/ heap'[id] = Blank
      BY <1>3
    <3> QED BY <1>1, <2>2, <3>1, StaysDropped
  <2> QED BY <2>1, <2>2
<1>14. Exact(job) => S # {}
  BY <1>2, OwnIsHeld
<1> HIDE DEF S, D
<1>15. CASE S # {}
  <2>1. Runs!Find
    BY <1>1, <1>8, <1>10, <1>11, <1>12, <1>13, <1>15, RunsFind
  <2> QED BY <2>1 DEF Runs!Next
<1>16. CASE S = {} /\ D # {}
  <2>1. Runs!GiveUp
    BY <1>1, <1>8, <1>12, <1>13, <1>14, <1>16, RunsDrop
  <2> QED BY <2>1 DEF Runs!Next
<1>17. CASE S = {} /\ D = {}
  BY <1>1, <1>13, <1>17, RunsStutter
<1> QED BY <1>15, <1>16, <1>17

LEMMA RunsNext ==
  IInv /\ IInv' /\ OwnerInv /\ [Next]_vars => [Runs!Next]_(Runs!vars)
<1> SUFFICES ASSUME IInv, IInv', OwnerInv, [Next]_vars PROVE [Runs!Next]_(Runs!vars)
  OBVIOUS
<1>1. job' = job /\ TypeOK
  BY JobStays DEF IInv
<1>2. CASE ExecuteBlock
  <2>1. ext' = ext \/ Exits
    BY <1>1, <1>2, ExecExits DEF ExecuteBlock
  <2> QED BY <1>1, <1>2, <2>1, RunsExit, RunsExec DEF Runs!Next
<1>3. CASE SiftExited
  BY <1>3, RunsSift
<1>4. CASE DropSuccessor
  BY <1>4, RunsDropSuccessor
<1>5. CASE ReturnFound
  BY <1>5, RunsReturn
<1>6. CASE Select \/ Exhaust \/ KeepSuccessor \/ AddActive \/ NextRound \/ Finished
           \/ UNCHANGED vars
  <2>1. heap' = heap /\ UNCHANGED <<ext, exited, reported, found>>
    BY <1>6 DEF Select, Exhaust, KeepSuccessor, AddActive, NextRound, Finished, vars, exec, manager
  <2>2. \A id \in Id : PlaceIn(id)' = PlaceIn(id)
    BY <2>1 DEF PlaceIn
  <2> QED BY <1>1, <2>1, <2>2, RunsSame
<1> QED BY <1>2, <1>3, <1>4, <1>5, <1>6 DEF Next

\* To explore a program is to run it on every input: each step of the engine takes the
\* inputs of a state one operation along their own concrete runs, or settles them, and
\* gives inputs up only at a limit of MapMemory, of max_forks or of printable_stdin, at
\* an address to avoid, with the round in which a state has been found, or when Z3 does
\* not answer or a model has mixed the inputs.
THEOREM ExplorationRunsTheProgram == Spec => RefinesRuns
<1>1. IInv /\ OwnerInv /\ (IInv /\ OwnerInv)' /\ [Next]_vars => [Runs!Next]_(Runs!vars)
  BY RunsNext
<1> QED BY <1>1, RunsInit, OwnerAlways, PTL DEF Spec, RefinesRuns, Runs!Spec
=============================================================================
