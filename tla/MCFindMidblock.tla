--------------------------- MODULE MCFindMidblock ---------------------------
(***************************************************************************)
(* naaz_finder asked for the second operation of a block, and for the      *)
(* entry point.                                                            *)
(***************************************************************************)
EXTENDS MCExplorer

MidJob == {j \in MCJob : j.prog = "detour" /\ j.mode = "explore" /\ ~j.timeouts}
MidConf == [j \in MidJob |-> [MCConf[j] EXCEPT !.find = {0, 1}]]
MidRun  == [j \in MidJob |-> MCRun[j]]
=============================================================================
