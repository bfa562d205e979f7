---------------------------- MODULE MCGattClock ----------------------------
(* Quarter seconds.  One-way trips of half a second to a second, a mode    *)
(* command that takes up to three, a clock that is right, fast within the  *)
(* tolerance of two seconds or slow beyond it.                             *)
EXTENDS GattClock

MCModeTimes == {3, 12}
MCSkews == {0, 5, -30}
=============================================================================
