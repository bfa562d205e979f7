----------------------------- MODULE Timetable -----------------------------
(***************************************************************************)
(* What the automatic time sync promises to whoever relies on the clock:   *)
(* as long as it is armed there is a next sync or one under way; a sync is *)
(* due within an interval of the time the clock was last right, or shortly *)
(* after a start that finds it overdue; and after a sync that failed the   *)
(* next one waits for the backoff, whoever plans it.  Loads, coordinators, *)
(* the store, manual syncs and polls are not mentioned: AutoSync.tla, in   *)
(* which they all meet, implements it.                                     *)
(***************************************************************************)
EXTENDS Naturals

CONSTANTS
    Off,            \* nothing is planned
    Interval,       \* between two syncs
    StartupDelay,   \* of an overdue one
    RetryBase,      \* the first delay after a failure
    RetryMax,       \* the longest
    FreshFor        \* how long a reading that was right counts

VARIABLES
    armed,          \* the entry runs with automatic sync
    wait,           \* until the next sync
    trying,         \* a sync: under way, or has written the clock
    since,          \* the clock was last known to be right
    rest            \* what is left of the base delay after a failure

vars == <<armed, wait, trying, since, rest>>

Unknown == Interval + FreshFor + 1

Init ==
    /\ armed = FALSE
    /\ wait = Off
    /\ trying = "none"
    /\ since = Unknown
    /\ rest = 0

(* In time for a clock that was right since ago.                           *)
Due(t) ==
    /\ t \in 1 .. Interval
    /\ t = StartupDelay \/ t + since <= Interval + FreshFor

Backoff(t) == t \in RetryBase .. RetryMax

-----------------------------------------------------------------------------
(* The entry is loaded, and unloaded or gone with Home Assistant.          *)

Arm ==
    /\ ~ armed
    /\ armed' = TRUE
    /\ Due(wait')
    /\ UNCHANGED <<trying, since, rest>>

Disarm ==
    /\ armed
    /\ armed' = FALSE
    /\ wait' = Off
    /\ trying' = "none"
    /\ rest' = 0
    /\ UNCHANGED since

-----------------------------------------------------------------------------
(* The next sync, when it is time.                                         *)

(* A clock known to be right is left alone.                                *)
Skip ==
    /\ wait = 0 /\ trying = "none" /\ rest = 0
    /\ since <= FreshFor
    /\ Due(wait') \/ Backoff(wait')
    /\ UNCHANGED <<armed, trying, since, rest>>

Try ==
    /\ wait = 0 /\ trying = "none" /\ rest = 0
    /\ trying' = "under way"
    /\ wait' = Off
    /\ UNCHANGED <<armed, since, rest>>

Write ==
    /\ trying = "under way"
    /\ trying' = "written"
    /\ since' = 0
    /\ UNCHANGED <<armed, wait, rest>>

(* A failure elsewhere that is counted meanwhile makes it a retry.         *)
Done ==
    /\ trying = "written"
    /\ trying' = "none"
    /\ Due(wait') \/ Backoff(wait')
    /\ wait' >= rest
    /\ UNCHANGED <<armed, since, rest>>

Fail ==
    /\ trying = "under way"
    /\ trying' = "none"
    /\ Backoff(wait')
    /\ rest' = RetryBase
    /\ UNCHANGED <<armed, since>>

-----------------------------------------------------------------------------
(* Somebody else finds the clock right, or sets it, and may plan again.    *)

Right ==
    /\ since' = 0
    /\ UNCHANGED <<armed, wait, trying, rest>>

Replan ==
    /\ armed
    /\ Due(wait')
    /\ wait' >= rest
    /\ UNCHANGED <<armed, trying, since, rest>>

Less(n) == IF n = 0 THEN 0 ELSE n - 1

Tick ==
    /\ wait' = IF wait = Off THEN Off ELSE Less(wait)
    /\ rest' = Less(rest)
    /\ since' = IF since < Unknown THEN since + 1 ELSE since
    /\ UNCHANGED <<armed, trying>>

Next ==
    \/ Arm
    \/ Disarm
    \/ Skip
    \/ Try
    \/ Write
    \/ Done
    \/ Fail
    \/ Right
    \/ Replan
    \/ Tick

Spec == Init /\ [][Next]_vars

-----------------------------------------------------------------------------
(* What follows from it.                                                   *)

TypeOK ==
    /\ armed \in BOOLEAN
    /\ wait \in 0 .. Interval \cup {Off}
    /\ trying \in {"none", "under way", "written"}
    /\ since \in 0 .. Unknown
    /\ rest \in 0 .. RetryBase

(* An armed entry always has a next sync or one under way, no plan is for  *)
(* later than an interval after the clock was right but a retry, and a due *)
(* sync has no delay left to wait for.                                     *)
Promise ==
    /\ armed => wait # Off \/ trying # "none"
    /\ wait \in RetryMax + 1 .. Interval => wait + since <= Interval + FreshFor
    /\ wait = 0 => rest = 0
=============================================================================
