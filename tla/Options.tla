------------------------------ MODULE Options -------------------------------
(***************************************************************************)
(* The user's options: class Options (core/impl/Options.cpp), as far as    *)
(* they say which remote speakers there are and which are activated.       *)
(*                                                                         *)
(* setOptions() replaces the options at once and compares the two sets     *)
(* after that, device by device; what differs is posted to the observers.  *)
(* The replaced options are not changed any more, the new ones are: a      *)
(* device that cannot be opened is deactivated in whichever options there  *)
(* are by then.  In which order devices are compared is left open.         *)
(***************************************************************************)
CONSTANTS
  Device,    (* names of remote speakers                                   *)
  Manual     (* those entered by hand, which stay when not activated       *)

ASSUME ManualAssumption == Manual \subseteq Device

VARIABLES
  theOptions, (* [devices, activated]                                      *)
  replaced    (* the part of the old options that is still to be compared, *)
              (* with the devices that have been, or are new               *)

options == <<theOptions, replaced>>

(* What a dialog or the menu hands over: devices that are activated or     *)
(* were entered by hand.                                                   *)
With(activated) == [devices |-> activated \cup Manual, activated |-> activated]

Nothing == [devices |-> {}, activated |-> {}, toCompare |-> {}]

InitOptions ==
  /\ \E activated \in SUBSET Device : theOptions = With(activated)
  /\ replaced = Nothing

isActivated(d) == d \in theOptions.activated

(* setOptions() makes the change, ...                                      *)
Replace(new) ==
  /\ theOptions' = new
  /\ replaced' = [devices   |-> theOptions.devices,
                  activated |-> theOptions.activated,
                  toCompare |-> theOptions.devices \cup new.devices]

BugBecomesActive(d) == \* a device that is new is not activated
  /\ d \in replaced.toCompare \cap replaced.devices
  /\ isActivated(d) /\ d \notin replaced.activated

(* ... tells what becomes of a device, ...                                 *)
BecomesActive(d) ==
  /\ d \in replaced.toCompare
  /\ isActivated(d) /\ d \notin replaced.activated

BugBecomesInactive(d) == \* a device that is gone is destroyed, not closed
  /\ d \in replaced.toCompare
  /\ d \in theOptions.devices
  /\ d \in replaced.activated /\ ~isActivated(d)

BecomesInactive(d) ==
  /\ d \in replaced.toCompare
  /\ \/ d \notin theOptions.devices
     \/ d \in replaced.activated /\ ~isActivated(d)

(* ... and goes on to the next.                                            *)
Compared(d) ==
  replaced' = IF replaced.toCompare = {d}
                THEN Nothing
                ELSE [devices   |-> replaced.devices \ {d},
                      activated |-> replaced.activated \ {d},
                      toCompare |-> replaced.toCompare \ {d}]

(* setActivated(d, false) for the options of the moment.                   *)
SetInactive(d) ==
  /\ theOptions' = [theOptions EXCEPT !.activated = @ \ {d}]
  /\ UNCHANGED replaced
=============================================================================
