---------------------------- MODULE MCClockCheck ----------------------------
(* A zone with summer time; a sync_time call may name either offset.       *)
EXTENDS ClockCheck

CONSTANTS winter, summer

MCOffsets == {winter, summer}
=============================================================================
