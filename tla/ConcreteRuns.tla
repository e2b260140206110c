---------------------------- MODULE ConcreteRuns ----------------------------
(***************************************************************************)
(* What an exploration promises, without states, queues or constraints:    *)
(* it runs the program on every input at once.  Each input is somewhere in *)
(* its own concrete run until it ends, is reported or returned, or is      *)
(* given up, for one of the reasons listed.                                *)
(***************************************************************************)
EXTENDS PCodeProgram

VARIABLES
  job,     \* the job asked for
  at,      \* where each input is in its run
  place    \* what has become of it

vars == <<job, at, place>>

Running == {i \in Input : place[i] = "running"}
Ended   == {i \in Input : place[i] = "ended"}

Init == /\ job \in Job
        /\ at = [i \in Input |-> Start(job, i)]
        /\ place = [i \in Input |-> "running"]

\* Inputs that are given up leave no trace of where they were.
Move(S, p, D) ==
  /\ place' = [i \in Input |-> IF i \in D THEN "dropped" ELSE IF i \in S THEN p ELSE place[i]]
  /\ at' = [i \in Input |-> IF i \in D THEN Start(job, i) ELSE at[i]]
  /\ UNCHANGED job

\* Some inputs that are together take a step of the concrete machine; some of them may
\* be given up: those that meet a limit, or any if the engine is not exact.
Advance ==
  \E S, D \in SUBSET Running :
    /\ S \cup D # {} /\ S \cap D = {}
    /\ \A i, k \in S \cup D : at[i].pc = at[k].pc /\ at[i].depth = at[k].depth
    /\ \A i \in D : ~Exact(job) \/ Limited(job, at[i], {at[k] : k \in S \cup D})
    /\ at' = [i \in Input |-> IF i \in S THEN StepOf(job, at[i])
                              ELSE IF i \in D THEN Start(job, i) ELSE at[i]]
    /\ place' = [i \in Input |-> IF i \in D THEN "dropped" ELSE place[i]]
    /\ UNCHANGED job

\* A run ends where the program does, or at a jump nobody could resolve.
End == \E S \in SUBSET Running :
         /\ S # {}
         /\ \A i \in S : Conf[job].code[at[i].pc].kind \in {"EXIT"} \cup Indirect
         /\ Move(S, "ended", {})

Report == \E S \in SUBSET Ended :
            /\ S # {} /\ Conf[job].mode = "gen_paths"
            /\ Move(S, "reported", {})

\* The search returns: these inputs reach a wanted address.  What the rest of the
\* round stood for is lost.
Find == \E S, D \in SUBSET Running :
          /\ S # {} /\ S \cap D = {}
          /\ \A i \in S : at[i].pc \in Conf[job].find
          /\ Move(S, "found", D)

Avoid == \E D \in SUBSET Running :
           /\ D # {}
           /\ \A i \in D : at[i].pc \in Conf[job].avoid \ Conf[job].find
           /\ Move({}, "dropped", D)

GiveUp == \E D \in SUBSET (Running \cup Ended) :
            /\ D # {} /\ ~Exact(job)
            /\ Move({}, "dropped", D)

Next == Advance \/ End \/ Report \/ Find \/ Avoid \/ GiveUp

Spec == Init /\ [][Next]_vars
=============================================================================
