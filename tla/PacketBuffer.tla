---------------------------- MODULE PacketBuffer ----------------------------
(***************************************************************************)
(* The ring of packet slots behind the packet stream of the remote         *)
(* speakers: class PacketBuffer (core/impl/raop/PacketBuffer.{h,cpp}).     *)
(*                                                                         *)
(* A buffer is a record.  The code counts in bytes, always in multiples of *)
(* _slotLength; the model counts in slots.  The code hands out a reference *)
(* to a zeroed slot, which the caller fills before it releases its lock:   *)
(* NextAvailable takes the packet that the caller fills in.                *)
(*                                                                         *)
(* Where the code throws std::logic_error, the operator is not to be       *)
(* applied: CanWrite, CanRead and HasPrevious are the tests that throw.    *)
(***************************************************************************)
EXTENDS Naturals, Sequences

CONSTANTS
  HeadLength, (* slots for packets that are not sent yet (250)             *)
  TailLength, (* slots for packets that were sent (500)                    *)
  Packet,     (* what a slot may hold                                      *)
  ZeroedSlot  (* the contents of a slot that was never filled              *)

ASSUME HeadLengthAssumption == HeadLength \in Nat \ {0}
ASSUME TailLengthAssumption == TailLength \in Nat
ASSUME ZeroedSlotAssumption == ZeroedSlot \in Packet

(* An operator whose name begins with Bug is the definition after it with  *)
(* a plausible slip: what the properties have to tell from it.             *)
BugSlotCount == HeadLength + TailLength - 1 \* one slot short

SlotCount == HeadLength + TailLength
Slot      == 0 .. SlotCount - 1

Buffer == [availability : 0 .. HeadLength,
           readIndex    : Slot,
           writeIndex   : Slot,
           slots        : [Slot -> Packet]]

(* The constructor: zeroed memory, then reset().                           *)
NewBuffer == [availability |-> HeadLength,
              readIndex    |-> 0,
              writeIndex   |-> 0,
              slots        |-> [i \in Slot |-> ZeroedSlot]]

(* reset() forgets the positions; what the slots hold stays behind.        *)
ResetBuffer(b) == [availability |-> HeadLength,
                   readIndex    |-> 0,
                   writeIndex   |-> 0,
                   slots        |-> b.slots]

CanWrite(b) == b.availability > 0
CanRead(b)  == b.availability < HeadLength

NextAvailable(b, packet) ==
  [availability |-> b.availability - 1,
   readIndex    |-> b.readIndex,
   writeIndex   |-> (b.writeIndex + 1) % SlotCount,
   slots        |-> [b.slots EXCEPT ![b.writeIndex] = packet]]

(* nextBuffered() returns the packet at the read position ...              *)
NextPacket(b) == b.slots[b.readIndex]

BugNextBuffered(b) == \* the position does not wrap
  [availability |-> b.availability + 1,
   readIndex    |-> b.readIndex + 1,
   writeIndex   |-> b.writeIndex,
   slots        |-> b.slots]

(* ... and moves past it, leaving it in place as the youngest of the tail. *)
NextBuffered(b) ==
  [availability |-> b.availability + 1,
   readIndex    |-> (b.readIndex + 1) % SlotCount,
   writeIndex   |-> b.writeIndex,
   slots        |-> b.slots]

HasPrevious(age) == age \in 1 .. TailLength

BugPrevBuffered(b, age) == \* one slot off across the end of the memory
  b.slots[IF age <= b.readIndex THEN b.readIndex - age
                                ELSE SlotCount - 1 - (age - b.readIndex)]

(* prevBuffered(tailIndex): the packet that was read age reads ago.        *)
PrevBuffered(b, age) ==
  b.slots[IF age <= b.readIndex THEN b.readIndex - age
                                ELSE SlotCount - (age - b.readIndex)]

-----------------------------------------------------------------------------
(* What the positions stand for.                                           *)

Unsent(b) == HeadLength - b.availability

(* The packets that nextBuffered() will return, in order.                  *)
Backlog(b) ==
  [k \in 1 .. Unsent(b) |-> b.slots[(b.readIndex + (k - 1)) % SlotCount]]

(* The last n packets that nextBuffered() returned, youngest first.        *)
LastRead(b, n) == [age \in 1 .. n |-> PrevBuffered(b, age)]

(* The writer is as far ahead of the reader as there are unsent packets.   *)
PositionsAgree(b) == b.writeIndex = (b.readIndex + Unsent(b)) % SlotCount
=============================================================================
