----------------------------- MODULE Techniques -----------------------------
(***************************************************************************)
(* executor/*ExplorationTechnique.cpp: the pending states, as sequences of *)
(* StatePtr.  BFS, DFS and RandDFS keep one (main); Cov keeps three (new   *)
(* address, new context, other) and what it has seen.  A context is the    *)
(* pair (pc, stack trace) whose 64-bit hash the code stores.               *)
(***************************************************************************)
EXTENDS Naturals, Sequences

\* The constructors: the initial state is pending and, in Cov, already seen.
FirstFrontier(id, pc, calls) ==
  [main |-> <<id>>, context |-> <<>>, other |-> <<>>,
   addrs |-> {pc}, contexts |-> {<<pc, calls>>}]

\* CovExplorationTechnique::add_actives for one state.
CovQueue(f, pc, calls) ==
  IF pc \notin f.addrs THEN "main"
  ELSE IF <<pc, calls>> \notin f.contexts THEN "context" ELSE "other"

\* Mutant: every technique pushes at the back.
AddBack(tech, f, id, pc, calls) ==
  IF tech = "cov"
  THEN [f EXCEPT ![CovQueue(f, pc, calls)] = Append(@, id),
                 !.addrs = @ \cup {pc}, !.contexts = @ \cup {<<pc, calls>>}]
  ELSE [f EXCEPT !.main = Append(@, id)]

\* Mutant: Cov does not remember the addresses it has queued.
AddForgetful(tech, f, id, pc, calls) ==
  CASE tech = "bfs" -> [f EXCEPT !.main = <<id>> \o @]
    [] tech = "cov" -> [f EXCEPT ![CovQueue(f, pc, calls)] = Append(@, id)]
    [] OTHER -> [f EXCEPT !.main = Append(@, id)]

\* add_actives for one state.  The list is popped at its back: push_front makes
\* BFS a queue, push_back makes the others stacks.
Add(tech, f, id, pc, calls) ==
  CASE tech = "bfs" -> [f EXCEPT !.main = <<id>> \o @]
    [] tech = "cov" ->
         [f EXCEPT ![CovQueue(f, pc, calls)] = Append(@, id),
                   !.addrs = @ \cup {pc}, !.contexts = @ \cup {<<pc, calls>>}]
    [] OTHER -> [f EXCEPT !.main = Append(@, id)]

\* Mutant: get_next never looks at the last queue.
NextQueueOfTwo(f) == IF f.main # <<>> THEN "main" ELSE "context"

\* get_next takes from the first queue that is not empty.
NextQueue(f) == IF f.main # <<>> THEN "main"
                ELSE IF f.context # <<>> THEN "context" ELSE "other"

NothingPending(f) == f[NextQueue(f)] = <<>>
Next1(f) == LET q == f[NextQueue(f)] IN q[Len(q)]

\* Mutant: back() without pop_back().
RestUnpopped(f) == f

Rest(f) == [f EXCEPT ![NextQueue(f)] = SubSeq(@, 1, Len(@) - 1)]

\* The orders in which add_actives takes the states of a block: RandDFS shuffles.
Picks(tech, states) == IF tech = "rand_dfs" THEN 1..Len(states) ELSE {1}

\* Mutant: the state after the one taken is skipped.
WithoutTwo(states, k) == SubSeq(states, 1, k - 1) \o SubSeq(states, k + 2, Len(states))

Without(states, k) == SubSeq(states, 1, k - 1) \o SubSeq(states, k + 1, Len(states))
=============================================================================
