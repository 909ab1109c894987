---------------------------- MODULE MCMissionRun ----------------------------
(* MissionRun for TLC: the requests are interchangeable. *)
EXTENDS MissionRun, TLC

AnyRequest == Permutations(Commands)
=============================================================================
