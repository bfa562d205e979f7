---------------------------- MODULE MCBleExecute ----------------------------
(* Three tasks, so that two can wait behind a third and change places; two *)
(* clocks, and two coordinators of the first, its entry before and after a *)
(* reload.                                                                 *)
EXTENDS BleExecute

CONSTANTS poll, button, service, kitchenOld, kitchenNew, bedroom,
          kitchenClock, bedroomClock

MCCallers == {poll, button, service}
MCQuiet == {poll}
MCCoordinators == {kitchenOld, kitchenNew, bedroom}
MCLoadsFor == [c \in MCCallers |->
                 IF c = service THEN {bedroom} ELSE {kitchenOld, kitchenNew}]
MCAddresses == {kitchenClock, bedroomClock}
MCAddressOf == [k \in MCCoordinators |->
                  IF k = bedroom THEN bedroomClock ELSE kitchenClock]
=============================================================================
