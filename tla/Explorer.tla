------------------------------ MODULE Explorer ------------------------------
(***************************************************************************)
(* executor/ExecutorManager.hpp: explore (naaz_finder) and gen_paths       *)
(* (naaz_path_generator) over PCodeExecutor and the exploration            *)
(* techniques.  One round: take a pending state (select), execute a block  *)
(* of it (exec), look at its successors (sift), add the ones kept to the   *)
(* pending states (push).                                                  *)
(***************************************************************************)
EXTENDS PCodeExecutor, Techniques

VARIABLES
  frontier,  \* m_exploration's pending states
  keep,      \* explore's vector of the successors to add
  exited,    \* m_exited_states
  reported,  \* the states given to gen_paths' callback
  found      \* what explore returned

exec    == <<job, phase, heap, cur, act, ext>>
manager == <<frontier, keep, exited, reported, found>>
vars    == <<exec, manager>>

Over == phase \in {"found", "exhausted", "failed"}

-----------------------------------------------------------------------------
\* The entry state is the first object; the others are not in use.
FirstId == CHOOSE id \in Id : \A other \in Id : id <= other

Init ==
  /\ job \in Job
  /\ phase = "select"
  /\ heap = [id \in Id |-> IF id = FirstId THEN [Blank EXCEPT !.pi = Input, !.live = TRUE]
                                           ELSE Blank]
  /\ frontier = FirstFrontier(FirstId, conf.entry, <<>>)
  /\ cur = NoId
  /\ act = <<>> /\ ext = <<>> /\ keep = <<>>
  /\ exited = {} /\ reported = {}
  /\ found = NoId

\* get_next
Select ==
  /\ phase = "select"
  /\ ~NothingPending(frontier)
  /\ cur' = Next1(frontier)
  /\ frontier' = Rest(frontier)
  /\ phase' = "exec"
  /\ UNCHANGED <<job, heap, act, ext, keep, exited, reported, found>>

Exhaust ==
  /\ phase = "select"
  /\ NothingPending(frontier)
  /\ phase' = "exhausted"
  /\ UNCHANGED <<job, heap, cur, act, ext, manager>>

ExecuteBlock == ExecuteOp /\ UNCHANGED manager

\* An exited successor: explore keeps it; gen_paths gives it to the callback if
\* it is satisfiable, and lets go of it otherwise.
SiftExited ==
  /\ phase = "sift"
  /\ ext # <<>>
  /\ ext' = Tail(ext)
  /\ LET id == Head(ext)
     IN \/ /\ conf.mode = "explore"
           /\ exited' = exited \cup {id}
           /\ UNCHANGED <<heap, reported>>
        \/ /\ conf.mode = "gen_paths"
           /\ "SAT" \in Verdicts(heap[id].pi)
           /\ reported' = reported \cup {id}
           /\ UNCHANGED <<heap, exited>>
        \/ /\ conf.mode = "gen_paths"
           /\ Verdicts(heap[id].pi) # {"SAT"}
           /\ heap' = [heap EXCEPT ![id] = Blank]
           /\ UNCHANGED <<exited, reported>>
  /\ UNCHANGED <<job, phase, cur, act, frontier, keep, found>>

Sifting(id) == phase = "sift" /\ ext = <<>> /\ act # <<>> /\ id = Head(act)
Wanted(id)  == conf.mode = "explore" /\ heap[id].pc \in conf.find
Avoided(id) == conf.mode = "explore" /\ heap[id].pc \in conf.avoid \ conf.find

\* Mutant: the successor at a wanted address is not checked.
ReturnFoundUnchecked ==
  \E id \in Id :
    /\ Sifting(id) /\ Wanted(id)
    /\ found' = id
    /\ phase' = "found"
    /\ heap' = [other \in Id |->
                  IF \/ \E k \in 2..Len(act) : act[k] = other
                     \/ \E k \in DOMAIN keep : keep[k] = other
                  THEN Blank ELSE heap[other]]
    /\ act' = <<>> /\ keep' = <<>>
    /\ UNCHANGED <<job, cur, ext, frontier, exited, reported>>

\* A successor at a wanted address ends the search if Z3 says it is satisfiable;
\* the other successors go out of scope with the round.
ReturnFound ==
  \E id \in Id :
    /\ Sifting(id) /\ Wanted(id)
    /\ "SAT" \in Verdicts(heap[id].pi)
    /\ found' = id
    /\ phase' = "found"
    /\ heap' = [other \in Id |->
                  IF \/ \E k \in 2..Len(act) : act[k] = other
                     \/ \E k \in DOMAIN keep : keep[k] = other
                  THEN Blank ELSE heap[other]]
    /\ act' = <<>> /\ keep' = <<>>
    /\ UNCHANGED <<job, cur, ext, frontier, exited, reported>>

\* It is dropped otherwise, and so is one at an address to avoid.
DropSuccessor ==
  \E id \in Id :
    /\ Sifting(id)
    /\ \/ Wanted(id) /\ Verdicts(heap[id].pi) # {"SAT"}
       \/ Avoided(id)
    /\ act' = Tail(act)
    /\ heap' = [heap EXCEPT ![id] = Blank]
    /\ UNCHANGED <<job, phase, cur, ext, manager>>

KeepSuccessor ==
  \E id \in Id :
    /\ Sifting(id) /\ ~Wanted(id) /\ ~Avoided(id)
    /\ act' = Tail(act)
    /\ keep' = Append(keep, id)
    /\ UNCHANGED <<job, phase, heap, cur, ext, frontier, exited, reported, found>>

\* add_actives, a state at a time, then the next round.
AddActive ==
  /\ phase = "sift" /\ ext = <<>> /\ act = <<>> /\ keep # <<>>
  /\ \E k \in Picks(conf.tech, keep) :
       /\ frontier' = Add(conf.tech, frontier, keep[k], heap[keep[k]].pc,
                          heap[keep[k]].calls)
       /\ keep' = Without(keep, k)
  /\ UNCHANGED <<exec, exited, reported, found>>

NextRound ==
  /\ phase = "sift" /\ ext = <<>> /\ act = <<>> /\ keep = <<>>
  /\ phase' = "select"
  /\ UNCHANGED <<job, heap, cur, act, ext, manager>>

Finished == Over /\ UNCHANGED vars

Next == \/ Select \/ Exhaust \/ ExecuteBlock
        \/ SiftExited \/ ReturnFound \/ DropSuccessor \/ KeepSuccessor
        \/ AddActive \/ NextRound
        \/ Finished

Spec == Init /\ [][Next]_vars

\* One thread runs the loop until it returns.
FairSpec == Spec /\ WF_vars(Next)
-----------------------------------------------------------------------------
TypeOK ==
  /\ job \in Job
  /\ phase \in {"select", "exec", "sift", "found", "exhausted", "failed"}
  /\ heap \in [Id -> SymState]
  /\ cur \in Id \cup {NoId} /\ found \in Id \cup {NoId}
  /\ phase = "exec" => cur \in Id
  /\ act \in Seq(Id) /\ ext \in Seq(Id) /\ keep \in Seq(Id)
  /\ exited \in SUBSET Id /\ reported \in SUBSET Id
  /\ frontier \in [main: Seq(Id), context: Seq(Id), other: Seq(Id),
                  addrs: SUBSET Addr, contexts: SUBSET (Addr \X Seq(Addr))]

\* Where input i is in a state, and in the object id.
ConfigIn(st, i) == [pc |-> st.pc, val |-> st.val[i], depth |-> st.depth]
ConfigOf(id, i) == ConfigIn(heap[id], i)

\* Every input a state stands for really drives the program to the state's pc,
\* with the contents the state has for it: no clone, branch, jump or model gives a
\* state an input that took another way.  Those are all its inputs, unless Z3 gives
\* up or the program calls a model that mixes inputs.
Sound ==
  \A id \in Id : /\ \A i \in Own(heap[id]) : ConfigOf(id, i) \in Reach[job][i]
                 /\ Exact(job) => heap[id].stray = {}

\* Forking divides the inputs: no input is in two states, so no path is followed
\* or reported twice.
NoInputTwice ==
  \A a, b \in Id : a # b => heap[a].pi \cap heap[b].pi = {}

\* When it is exact, exploration loses no input but at the limits of MapMemory's
\* addresses, of a model's forks and of printable_stdin: until explore returns a
\* state, each is in some state, or its run meets a limit or an address to avoid.
NoInputLost ==
  Exact(job) /\ phase # "found" =>
    \A i \in Input : \/ \E id \in Id : i \in heap[id].pi
                     \/ \E c \in Reach[job][i] : c.pc \in conf.avoid
                     \/ Limits[job][i] # {}

\* A State object that is in use is in exactly one place, and no place holds one
\* that is gone: two StatePtr to one object would make two paths share their
\* registers and constraints.
Pointers == (IF cur = NoId THEN <<>> ELSE <<cur>>) \o act \o ext \o keep
              \o frontier.main \o frontier.context \o frontier.other
Holds(id) == Cardinality({k \in DOMAIN Pointers : Pointers[k] = id})
               + Cardinality({h \in {<<"e", exited>>, <<"r", reported>>, <<"f", {found}>>} :
                               id \in h[2]})
OwnedOnce ==
  phase # "found" => \A id \in Id : Holds(id) = IF heap[id].live THEN 1 ELSE 0

\* The addresses at which ExecutorManager looks at input i, with its run: those
\* of the blocks after the first.
BlockStarts(i) ==
  {c \in Reach[job][i] : \E b \in Reach[job][i] : c = StepOf(job, b) /\ c.depth = b.depth + 1}

\* What explore returns is a satisfiable state at a wanted address, and none of
\* the inputs it stands for came through a block to avoid.
FoundIsWitness ==
  phase = "found" =>
    /\ heap[found].pi # {} /\ heap[found].pc \in conf.find
    /\ \A i \in Own(heap[found]) : \A c \in BlockStarts(i) :
         c.depth < heap[found].depth => c.pc \notin conf.find \cup conf.avoid

\* The blocks of i's run at which a search may end, if it comes so far: no block to
\* find or to avoid is before them, and no limit at which the input may be given up.
Hits(i) ==
  {c \in BlockStarts(i) :
     /\ c.pc \in conf.find
     /\ \A b \in BlockStarts(i) : b.depth < c.depth => b.pc \notin conf.avoid \cup conf.find
     /\ \A l \in Limits[job][i] : c.depth <= l.depth}

\* The search was exact, and gave no state up at an unconstrained jump.
SearchedAll == Exact(job) /\ \A id \in exited : conf.code[heap[id].pc].kind = "EXIT"

\* "state not found" is a proof, but for the limits: when everything was searched, no
\* input reaches a wanted block before one to avoid and before a limit.
NotFoundIsProof ==
  phase = "exhausted" /\ conf.mode = "explore" /\ SearchedAll => \A i \in Input : Hits(i) = {}

\* "naaz_finder which looks for a state that reaches a given address" (README.md:37):
\* when it reports "state not found", no input's run goes through a wanted address.
\* ExecutorManager only looks at the addresses where blocks end up, after the first.
AddressNotReached ==
  /\ phase = "exhausted" /\ conf.mode = "explore" /\ SearchedAll /\ conf.avoid = {}
  /\ \A i \in Input : Limits[job][i] = {}
  => \A i \in Input : \A c \in Reach[job][i] : c.pc \notin conf.find

\* Breadth-first search returns a state no other input could have reached wanted
\* code in fewer blocks than, before a limit.
BFSFindsShortest ==
  phase = "found" /\ conf.tech = "bfs" /\ SearchedAll
  => \A i \in Input : \A c \in Hits(i) : heap[found].depth <= c.depth

\* Coverage search tries an address first through one state only: no two states
\* wait in the new-address queue at the same pc.
CovDistinct ==
  conf.tech = "cov" =>
    \A k, l \in DOMAIN frontier.main :
      heap[frontier.main[k]].pc = heap[frontier.main[l]].pc => k = l

\* Eager solving never executes an infeasible path, unless printable_stdin, whose
\* constraints nobody checks, makes it one.
EagerFeasible ==
  ~conf.lazy /\ ~conf.printable => \A id \in Id : heap[id].live => heap[id].pi # {}

\* When path generation ends and was exact, each input that meets no limit is an input
\* of a reported state, and every reported state has one.
PathsCoverInputs ==
  phase = "exhausted" /\ conf.mode = "gen_paths" /\ Exact(job) =>
    /\ \A i \in Input : \/ \E id \in reported : i \in heap[id].pi
                        \/ Limits[job][i] # {}
    /\ \A id \in reported : heap[id].pi # {}

\* Exploration of a program that ends on every input, with eager solving or
\* without loops on symbolic conditions, ends.
Termination == <>Over
-----------------------------------------------------------------------------
\* The state that stands for input i, if one does, and what that makes of i's run.
Holders(i) == {id \in Id : i \in Own(heap[id])}
Holder(i)  == CHOOSE id \in Id : i \in Own(heap[id])

Position(i) == IF Holders(i) = {} THEN Start(job, i) ELSE ConfigOf(Holder(i), i)

PlaceIn(id) ==
  IF id \in reported THEN "reported"
  ELSE IF id = found THEN "found"
  ELSE IF id \in exited \/ \E k \in DOMAIN ext : ext[k] = id THEN "ended" ELSE "running"

PlaceOf(i) == IF Holders(i) = {} THEN "dropped" ELSE PlaceIn(Holder(i))

Positions == [i \in Input |-> Position(i)]
Places    == [i \in Input |-> PlaceOf(i)]

Runs == INSTANCE ConcreteRuns WITH at <- Positions, place <- Places

\* Symbolic execution is the concrete execution of every input: each step of the
\* engine moves the inputs of one state one operation along their runs, or settles
\* them, and gives inputs up only where ConcreteRuns allows it.
RefinesRuns == Runs!Spec
=============================================================================
