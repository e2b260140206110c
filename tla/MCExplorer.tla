----------------------------- MODULE MCExplorer -----------------------------
(***************************************************************************)
(* Eight small programs over four inputs, explored in every way the command *)
(* line and g_config allow.                                                *)
(***************************************************************************)
EXTENDS Explorer, TLC

MCInput == 0..3
MCAddr  == 0..7
MCVal   == (0..3) \X (0..2)     \* an input register and a scratch register
MCId    == 1..8
MCSteps == 0..30                \* no input runs longer than this

Keep == [v \in MCVal |-> v]
To(a) == [v \in MCVal |-> a]

\* The programs are written with the fields that matter to an operation; these are the others.
Nop == [kind |-> "EXIT", eff |-> Keep, cond |-> To(FALSE), dst |-> 0, tgt |-> To(0), next |-> 0,
        last |-> FALSE, deref |-> FALSE, ptr |-> To(0), way |-> To(0), forks |-> 0, most |-> 1,
        admits |-> To(TRUE), mixes |-> FALSE, wrong |-> {<<0, 0>>}]
Exit   == [kind |-> "EXIT"]
NoCode == [kind |-> "NOCODE"]
Data(eff, n)        == [kind |-> "DATA", eff |-> eff, next |-> n]
CBranch(cond, d, n) == [kind |-> "CBRANCH", cond |-> cond, dst |-> d, next |-> n]
Branch2(d)     == [kind |-> "BRANCH", dst |-> d]
Call(d, n)     == [kind |-> "CALL", dst |-> d, next |-> n]
Ind(k, tgt, n) == [kind |-> k, tgt |-> tgt, next |-> n]
LibRet(eff, a) == [kind |-> "LIBRET", eff |-> eff, tgt |-> To(a)]
Ends(o)            == o @@ [last |-> TRUE]
Through(ptr, o)    == o @@ [deref |-> TRUE, ptr |-> ptr]
Reading(admits, o) == o @@ [admits |-> admits]
String(way, forks, o) == o @@ [way |-> way, forks |-> forks, most |-> forks + 1]

SetScratch(n) == [v \in MCVal |-> <<v[1], n>>]
Parity == [v \in MCVal |-> v[1] % 2]
Each   == [v \in MCVal |-> v[1]]

\* tests/executor_tests.cpp, "Explore DFS 1", scaled down: count the input up to
\* a limit, then compare the number of rounds.
LoopCode == <<Data(SetScratch(0), 1),
              Ends(CBranch([v \in MCVal |-> v[1] >= 2], 4, 2)),
              Data([v \in MCVal |-> IF v[1] < 3 /\ v[2] < 2 THEN <<v[1] + 1, v[2] + 1>> ELSE v], 3),
              Branch2(1),
              Ends(CBranch([v \in MCVal |-> v[2] # 1], 6, 5)),
              Data(SetScratch(2), 6), Ind("RETURN", To(7), 0), Exit>>

\* A call of a function with a CBRANCH in the middle of a block and two at the
\* end, one of them decided by the first, a return and a libc model reached by a
\* tail jump.  There are as many addresses as MaxPtr.
CallCode == <<Call(2, 1), Exit,
              CBranch([v \in MCVal |-> v[1] = 0], 5, 3),
              Through(Parity, Data(SetScratch(1), 4)),
              Ends(CBranch([v \in MCVal |-> v[1] = 1], 6, 5)),
              Ends(CBranch([v \in MCVal |-> v[1] = 2], 6, 7)),
              Through(Parity, LibRet(SetScratch(2), 1)), Ind("RETURN", To(1), 0)>>

\* A jump table with two destinations, then one with as many as MaxDest.
TableCode == <<Ind("CALLIND", [v \in MCVal |-> IF v[1] = 0 THEN 1 ELSE 2], 3),
               Ind("BRANCHIND", To(3), 0),
               Ind("BRANCHIND", [v \in MCVal |-> CASE v[1] = 1 -> 3 [] v[1] = 2 -> 4
                                                   [] OTHER -> 5], 0),
               Data(SetScratch(1), 4), Ind("RETURN", To(6), 0), Branch2(3), Exit, Exit>>

\* A table that sends one input where there is no code, and a model that mixes inputs.
WildCode == <<Ind("BRANCHIND", [v \in MCVal |-> IF v[1] = 3 THEN 7 ELSE 1], 0),
              Ends(CBranch([v \in MCVal |-> v[1] = 2], 3, 2)),
              Call(5, 4), LibRet(SetScratch(1), 4) @@ [mixes |-> TRUE], Exit,
              Ind("LIBRET", [v \in MCVal |-> IF v[1] = 1 THEN 4 ELSE 3], 0),
              Exit, NoCode>>

\* A loop whose counter does not depend on the input, around a branch that does.
CountCode == <<Data(SetScratch(0), 1),
               Ends(CBranch([v \in MCVal |-> v[2] >= 2], 5, 2)),
               Ends(CBranch([v \in MCVal |-> v[1] = v[2]], 4, 3)),
               Data([v \in MCVal |-> IF v[2] < 2 THEN <<v[1], v[2] + 1>> ELSE v], 6),
               Exit, Exit, Branch2(1), Exit>>

\* Two ways to the same place, the one the depth-first stack takes first longer; the
\* other forks, as often as max_forks allows.
DetourCode == <<Data(SetScratch(1), 1),
                Ends(CBranch([v \in MCVal |-> v[1] >= 2], 4, 2)),
                String(Parity, 1, LibRet(SetScratch(2), 3)),
                Branch2(5), Branch2(5), Exit, Exit, Exit>>

\* A read of stdin, the length of what was read (three ends at most, max_forks is
\* 1), and a table indexed by it (three entries, MaxPtr is 2).
TextCode == <<Ends(CBranch([v \in MCVal |-> v[1] = 3], 1, 1)),
              Reading([v \in MCVal |-> v[1] # 3], Data(Keep, 2)),
              String([v \in MCVal |-> IF v[1] = 3 THEN 2 ELSE v[1]], 1, LibRet(SetScratch(1), 3)),
              Through([v \in MCVal |-> IF v[1] = 0 THEN 1 ELSE v[1]], Data(SetScratch(2), 4)),
              Ends(CBranch([v \in MCVal |-> v[1] = 2], 6, 5)), Exit, Exit, Exit>>

\* A table of four entries, then a string with two ends.
LookCode == <<Through(Each, Data(SetScratch(1), 1)),
              String(Parity, 1, LibRet(SetScratch(2), 2)),
              Ends(CBranch([v \in MCVal |-> v[1] = 2], 6, 3)), Branch2(4),
              Data(SetScratch(1), 6), Exit, Exit, Exit>>

Codes == [loop |-> LoopCode, call |-> CallCode, table |-> TableCode, wild |-> WildCode,
          count |-> CountCode, detour |-> DetourCode, text |-> TextCode, look |-> LookCode]
Programs == {"loop", "call", "table", "wild", "count", "detour", "text", "look"}

\* Every program under every technique, as naaz_finder, and with Cov as
\* naaz_path_generator.  Lazy solving unrolls the loop on the input for ever.
MCJob ==
  {j \in [prog: Programs, tech: Technique, mode: {"explore", "gen_paths"},
          lazy: BOOLEAN, folds: BOOLEAN,
          timeouts: BOOLEAN, printable: BOOLEAN] :
     /\ j.printable => j.prog = "text"
     /\ j.prog \in {"text", "look"} => j.folds
     /\ j.prog \in {"text", "look"} /\ j.timeouts => j.lazy /\ j.tech = "dfs" /\ ~j.printable
     /\ j.mode = "gen_paths" => j.tech = "cov"
     /\ j.prog = "loop" => ~j.lazy
     /\ j.prog = "count" /\ j.lazy => j.folds}

Find(p) == CASE p = "loop" -> {5} [] p = "call" -> {6} [] p = "table" -> {5}
             [] p = "wild" -> {4} [] p = "count" -> {4} [] p = "detour" -> {5}
             [] p = "text" -> {6} [] p = "look" -> {6}
Avoid(p) == CASE p = "loop" -> {6} [] p = "call" -> {} [] p = "table" -> {4}
              [] p = "wild" -> {} [] p = "count" -> {5} [] p = "detour" -> {}
              [] OTHER -> {}

MCConf ==
  [j \in MCJob |->
     [code |-> [a \in MCAddr |-> Codes[j.prog][a + 1] @@ Nop], entry |-> 0, data |-> [i \in MCInput |-> <<i, 0>>],
      find |-> Find(j.prog), avoid |-> Avoid(j.prog), tech |-> j.tech, mode |-> j.mode,
      lazy |-> j.lazy, folds |-> j.folds, timeouts |-> j.timeouts,
      printable |-> j.printable]]

\* The concrete run of every input.
RunsOf(p) ==
  [i \in MCInput |->
     LET j == CHOOSE k \in MCJob : k.prog = p
         run[n \in MCSteps] == IF n = 0 THEN Start(j, i) ELSE StepOf(j, run[n - 1])
     IN [n \in MCSteps |-> run[n]]]
AllRuns == [p \in Programs |-> RunsOf(p)]
MCRun   == [j \in MCJob |-> AllRuns[j.prog]]

\* Evaluating both here makes TLC tabulate them.
ASSUME TabulatedAssumption ==
  /\ Reach \in [Job -> [Input -> SUBSET Config]]
  /\ Limits \in [Job -> [Input -> SUBSET Config]]
=============================================================================
