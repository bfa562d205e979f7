----------------------------- MODULE MCSelects ------------------------------
(* Two calls, two coordinators, three kinds of firmware.                   *)
EXTENDS Selects, TLC

CONSTANTS g1, g2, c1, c2

MCLoads == {g1, g2}
MCCalls == {c1, c2}
MCFirmwares ==
    {[units |-> "keeps", mode |-> "takes"],
     [units |-> "ignores", mode |-> "refuses"],
     [units |-> "normalises", mode |-> "misreads"]}

Symmetry == Permutations(MCLoads) \cup Permutations(MCCalls)

(* What a call and a coordinator keep when nothing works on them any more, *)
(* and a session when none is open, is written before it is read again.    *)
View == <<firmware, clock, current, stored, pc, doubt, unsaved,
    [c \in Calls |-> IF ~ Active(c) THEN None
                     ELSE <<kind[c], wanted[c], target[c],
                            IF kind[c] \in {"units", "mode"} THEN previous[c] ELSE None>>],
    [g \in Loads |-> IF g = current \/ \E c \in Calls : Active(c) /\ target[c] = g
                     THEN data[g] ELSE None],
    IF LockFree THEN None
    ELSE IF \E c \in Calls : pc[c] = "closing" THEN "closing"
    ELSE <<attempt, touched,
           IF \E c \in Calls : pc[c] \in {"writing", "verifying", "rolling"}
           THEN original ELSE None>> >>
=============================================================================
