----------------------------- MODULE MCEntries ------------------------------
(* Two entries, two clocks, two flows, a call; 0.1.x options of each kind. *)
EXTENDS Entries, TLC

CONSTANTS e1, e2, k1, k2, f1, f2, c1

MCEntryIds == {e1, e2}
MCClocks == {k1, k2}
MCFlows == {f1, f2}
MCCallers == {c1}
MCStoredHours == {None, 0, 36}
MCOfferedChoices == {"0", "auto"}

Symmetry ==
    Permutations(MCEntryIds) \cup Permutations(MCClocks) \cup Permutations(MCFlows)

(* What is set anew before it is read again is left out: the options of an *)
(* entry that is gone, what an entry without a coordinator ran with, the   *)
(* flows when no entry can be created, a call that has ended.              *)
Running(e) == state[e] \in {"preparing", "forwarding", "loaded"}

View == <<
    [e \in Entries |->
       <<state[e], record[e], issue[e], e \in unclean,
         IF state[e] = "gone" THEN None
         ELSE <<address[e], version[e], sync[e], polls[e], off[e], removing[e]>>,
         IF Running(e) THEN <<armed[e], polling[e], overlooked[e]>> ELSE None,
         IF state[e] = "loaded" THEN reload[e] ELSE None>>],
    services,
    IF \E e \in Entries : state[e] = "new" THEN <<step, uid>> ELSE None,
    [c \in Callers |-> IF result[c] = "none" THEN <<named[c], todo[c], at[c], done[c]>>
                       ELSE <<result[c], done[c] = named[c]>>]>>
=============================================================================
