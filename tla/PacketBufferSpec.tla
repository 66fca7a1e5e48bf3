-------------------------- MODULE PacketBufferSpec --------------------------
(***************************************************************************)
(* One packet buffer used as its callers use it: nextAvailable() only when *)
(* canWrite(), nextBuffered() only when canRead().  Shown to implement     *)
(* PacketHistory.                                                          *)
(***************************************************************************)
EXTENDS PacketBuffer

VARIABLES
  buffer, (* the packet buffer                                             *)
  kept    (* history: how many of the sent packets since the last reset    *)
          (* the buffer must still hold, at most TailLength                *)

vars == <<buffer, kept>>

Init ==
  /\ buffer = NewBuffer
  /\ kept   = 0

Write(packet) ==
  /\ CanWrite(buffer)
  /\ buffer' = NextAvailable(buffer, packet)
  /\ UNCHANGED kept

Read ==
  /\ CanRead(buffer)
  /\ buffer' = NextBuffered(buffer)
  /\ kept'   = IF kept < TailLength THEN kept + 1 ELSE kept

Reset ==
  /\ buffer' = ResetBuffer(buffer)
  /\ kept'   = 0

Next ==
  \/ \E packet \in Packet : Write(packet)
  \/ Read
  \/ Reset

Spec == Init /\ [][Next]_vars

-----------------------------------------------------------------------------
(* The type of the state: positions are slots of the ring, and at most     *)
(* HeadLength slots are available.                                         *)
TypeOK ==
  /\ buffer \in Buffer
  /\ kept \in 0 .. TailLength

(* The inductive invariant: the write position is ahead of the read        *)
(* position by exactly the unsent packets (PacketBuffer.cpp:58-89).        *)
Inv == TypeOK /\ PositionsAgree(buffer)

(* The ring implements the FIFO with memory: a write never overwrites an   *)
(* unsent packet or one of the last TailLength sent ones, nextBuffered()   *)
(* returns packets in the order written, and prevBuffered(age) finds the   *)
(* packet sent age sends ago, across the wrap of the ring.                 *)
History == INSTANCE PacketHistory
             WITH Capacity   <- HeadLength,
                  Memory     <- TailLength,
                  waiting    <- Backlog(buffer),
                  remembered <- LastRead(buffer, kept)

ImplementsHistory == History!Spec
=============================================================================
