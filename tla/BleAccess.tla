----------------------------- MODULE BleAccess -----------------------------
(***************************************************************************)
(* What async_execute promises to the pollers, buttons, selects, services  *)
(* and the auto-sync timer that call it: calls are granted Bluetooth one   *)
(* at a time, in the order they asked; a granted call opens at most        *)
(* MaxRetries sessions, one after the other; the call comes back only      *)
(* when it has no session open; and every call comes back.                 *)
(* BleExecute.tla implements it.                                           *)
(***************************************************************************)
EXTENDS Naturals, Sequences, SequencesExt

CONSTANTS
    Callers,      \* tasks that may be inside async_execute
    MaxRetries,   \* the retry_count option
    Nobody        \* not a caller

VARIABLES
    line,         \* calls not granted yet, in the order they asked
    granted,      \* the call that may use Bluetooth, or Nobody
    opened,       \* sessions the granted call has opened
    session       \* the call whose session is open, or Nobody

vars == <<line, granted, opened, session>>

Init ==
    /\ line = << >>
    /\ granted = Nobody
    /\ opened = 0
    /\ session = Nobody

Ask(c) ==
    /\ c # granted
    /\ c \notin ToSet(line)
    /\ line' = Append(line, c)
    /\ UNCHANGED <<granted, opened, session>>

Grant ==
    /\ granted = Nobody
    /\ line # << >>
    /\ granted' = Head(line)
    /\ line' = Tail(line)
    /\ opened' = 0
    /\ UNCHANGED session

Open ==
    /\ granted # Nobody
    /\ session = Nobody
    /\ opened < MaxRetries
    /\ session' = granted
    /\ opened' = opened + 1
    /\ UNCHANGED <<line, granted>>

(* Closing a session and coming back to the caller may be one step.        *)
Close ==
    /\ session # Nobody
    /\ session' = Nobody
    /\ \/ UNCHANGED <<granted, opened>>
       \/ granted' = Nobody /\ opened' = 0
    /\ UNCHANGED line

Return ==
    /\ granted # Nobody
    /\ session = Nobody
    /\ granted' = Nobody
    /\ opened' = 0
    /\ UNCHANGED <<line, session>>

(* A call cancelled while it waits leaves the line; the others keep their  *)
(* order.                                                                  *)
GiveUp(c) ==
    /\ \E i \in DOMAIN line :
          /\ line[i] = c
          /\ line' = RemoveAt(line, i)
    /\ UNCHANGED <<granted, opened, session>>

Next ==
    \/ \E c \in Callers : Ask(c) \/ GiveUp(c)
    \/ Grant
    \/ Open
    \/ Close
    \/ Return

(* The call in front is granted and a granted call comes back, whatever it *)
(* does in between.                                                        *)
ComesBack == \A c \in Callers : granted = c ~> granted # c

Safety == Init /\ [][Next]_vars

Spec == Safety /\ WF_vars(Grant) /\ ComesBack
=============================================================================
