---------------------------- MODULE AudioStream ----------------------------
(***************************************************************************)
(* What playback promises between the player and the remote speakers,      *)
(* whatever the data: the bytes the player writes wait in order, its calls *)
(* cut packets from their front, and packets are sent in order.  Bytes     *)
(* that wait are dropped at the player's request alone; packets are too,   *)
(* and besides when, with no device open, one is about to be.              *)
(***************************************************************************)
EXTENDS Naturals, Sequences

CONSTANTS
  Capacity,    (* how many bytes may wait                                  *)
  PacketSize,  (* how many of them a packet takes                          *)
  QueueLength, (* how many packets may be queued                           *)
  Byte

VARIABLES
  waiting,  (* what the player wrote and is in no packet, oldest first     *)
  packets,  (* what is packed and not sent, oldest first                   *)
  open,     (* whether a device is open                                    *)
  place     (* the call the player is in, or "idle"                        *)

vars == <<waiting, packets, open, place>>

Init ==
  /\ waiting = <<>> /\ packets = <<>>
  /\ open = FALSE
  /\ place = "idle"

(* The player writes: the bytes go behind those that wait.                 *)
Accept ==
  /\ place = "idle" /\ place' # "idle"
  /\ waiting' \in Seq(Byte)
  /\ Len(waiting) < Len(waiting') /\ Len(waiting') <= Capacity
  /\ SubSeq(waiting', 1, Len(waiting)) = waiting
  /\ UNCHANGED <<packets, open>>

(* A packet is full, or takes all that waits.                              *)
Cut(length) ==
  /\ place # "idle"
  /\ length <= Len(waiting)
  /\ length = PacketSize \/ length = Len(waiting)
  /\ Len(packets) < QueueLength
  /\ packets' = Append(packets, SubSeq(waiting, 1, length))
  /\ waiting' = SubSeq(waiting, length + 1, Len(waiting))
  /\ UNCHANGED <<open, place>>

Send ==
  /\ packets # <<>>
  /\ packets' = Tail(packets)
  /\ UNCHANGED <<waiting, open, place>>

(* The player resets, pauses or stops.                                     *)
Discard ==
  /\ place = "idle" /\ place' = "idle"
  /\ waiting' = <<>> /\ packets' = <<>>
  /\ UNCHANGED open

(* The engine starts anew for the first device to be opened.               *)
StartOver ==
  /\ ~open /\ open' \in BOOLEAN
  /\ packets' = <<>>
  /\ UNCHANGED <<waiting, place>>

(* Calls come and go, and so do devices.                                   *)
Other == UNCHANGED <<waiting, packets>>

Next ==
  \/ Accept
  \/ \E length \in 1 .. PacketSize : Cut(length)
  \/ Send \/ Discard \/ StartOver \/ Other

Spec == Init /\ [][Next]_vars
=============================================================================
