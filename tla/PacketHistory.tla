---------------------------- MODULE PacketHistory ----------------------------
(***************************************************************************)
(* What the packet buffer of the remote speakers promises: a bounded FIFO  *)
(* of packets waiting to be sent, together with a bounded memory of those  *)
(* that were sent since the last reset, youngest first.  A packet is       *)
(* remembered by its age, the number of packets sent since, itself         *)
(* included.                                                               *)
(***************************************************************************)
EXTENDS Naturals, Sequences

CONSTANTS
  Capacity, (* how many packets may wait to be sent                        *)
  Memory,   (* how many sent packets are remembered                        *)
  Packet

VARIABLES
  waiting,    (* the packets not sent yet, oldest first                    *)
  remembered  (* the packets sent last, youngest first                     *)

vars == <<waiting, remembered>>

Init ==
  /\ waiting    = <<>>
  /\ remembered = <<>>

Write(packet) ==
  /\ Len(waiting) < Capacity
  /\ waiting' = Append(waiting, packet)
  /\ UNCHANGED remembered

Send ==
  /\ waiting # <<>>
  /\ waiting' = Tail(waiting)
  /\ remembered' =
       [age \in 1 .. (IF Len(remembered) < Memory THEN Len(remembered) + 1
                                                   ELSE Memory) |->
          IF age = 1 THEN Head(waiting) ELSE remembered[age - 1]]

Reset ==
  /\ waiting'    = <<>>
  /\ remembered' = <<>>

(* Only Write makes waiting longer: the test spares TLC the other steps a  *)
(* search for the packet.                                                  *)
Next ==
  \/ Len(waiting') > Len(waiting) /\ \E packet \in Packet : Write(packet)
  \/ Send
  \/ Reset

Spec == Init /\ [][Next]_vars
=============================================================================
