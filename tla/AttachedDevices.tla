--------------------------- MODULE AttachedDevices ---------------------------
(***************************************************************************)
(* What the engine, its sender and the device manager have in common: the  *)
(* devices that are open, and those on the engine's list.  Each of their   *)
(* modules sees more of the steps that change the two; that all of them    *)
(* implement this one says that they speak of the same devices.            *)
(*                                                                         *)
(* A device is attached when it was opened and stays on the list as long   *)
(* as it is open.  The list begins anew for a device that is opened, or is *)
(* to be, when no other is.                                                *)
(***************************************************************************)
CONSTANT Device

VARIABLES
  open,     (* the devices whose connection is up                          *)
  attached  (* the devices that get the stream                             *)

vars == <<open, attached>>

Init == open = {} /\ attached = {}

Kept == IF open = {} THEN {} ELSE attached

Open(device) ==
  /\ device \notin open
  /\ open' = open \cup {device}
  /\ attached' = Kept \cup {device}

(* Whether the connection was made, and the list begun anew, before it     *)
(* failed, is left open.                                                   *)
OpenFails(device) ==
  /\ device \notin open
  /\ open' \in {open, open \cup {device}}
  /\ attached' \in {attached, Kept}

Close(closed) == open' = open \ closed /\ attached' = attached \ closed

ConnectionLost(device) == open' = open \ {device} /\ UNCHANGED attached

(* Flushing and resetting drop the devices whose connection is gone.       *)
Prune == attached' = attached \cap open /\ UNCHANGED open

Next ==
  \/ \E device \in Device :
       Open(device) \/ OpenFails(device) \/ ConnectionLost(device)
  \/ \E closed \in SUBSET Device : Close(closed)
  \/ Prune

Spec == Init /\ [][Next]_vars
=============================================================================
