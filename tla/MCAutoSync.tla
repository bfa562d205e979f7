----------------------------- MODULE MCAutoSync -----------------------------
(* One coordinator at a time, with any options: polls, skips and restarts. *)
(* Two coordinators, clock-only (the default): a reload while a sync of    *)
(* the previous load is in flight.                                         *)
EXTENDS AutoSync, TLC

CONSTANTS kitchen, reloaded

MCOneLoad == {kitchen}
MCTwoLoads == {kitchen, reloaded}
MCLoadsSymmetry == Permutations(MCTwoLoads)
MCAnyOptions == [auto : BOOLEAN, climate : BOOLEAN]
MCClockOnly == [auto : BOOLEAN, climate : {FALSE}]
=============================================================================
