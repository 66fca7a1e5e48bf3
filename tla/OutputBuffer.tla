---------------------------- MODULE OutputBuffer ----------------------------
(***************************************************************************)
(* The ring of bytes that evens out the lengths of the player's writes:    *)
(* the data of class OutputBuffer (core/impl/OutputBuffer.{h,cpp}).  How   *)
(* it passes them on to its output sink is in module OutputComponent.      *)
(*                                                                         *)
(* Bytes are copied into and out of the ring in one part or in two.        *)
(***************************************************************************)
EXTENDS Naturals, Sequences

CONSTANTS
  Capacity,  (* the size of the ring (BUFFER_CAPACITY, 32 KB)              *)
  Byte,      (* what it holds                                              *)
  ZeroByte   (* what a new vector holds                                    *)

ASSUME CapacityAssumption == Capacity \in Nat \ {0}
ASSUME ZeroByteAssumption == ZeroByte \in Byte

Index == 0 .. Capacity - 1

ByteBuffer == [availability : 0 .. Capacity,
               readIndex    : Index,
               writeIndex   : Index,
               bytes        : [Index -> Byte]]

NewByteBuffer == [availability |-> Capacity,
                  readIndex    |-> 0,
                  writeIndex   |-> 0,
                  bytes        |-> [i \in Index |-> ZeroByte]]

ResetByteBuffer(b) == [availability |-> Capacity,
                       readIndex    |-> 0,
                       writeIndex   |-> 0,
                       bytes        |-> b.bytes]

(* How many bytes can be read from the ring.                               *)
Level(b) == Capacity - b.availability

(* Whether length bytes from one position on, with the other position in   *)
(* front of them or the end of the memory, can be copied at once.          *)
InOnePart(position, other, length) ==
  position < other \/ length <= Capacity - position

(* An operator whose name begins with Bug is the definition after it with  *)
(* a plausible slip: what the properties have to tell from it.             *)
BugPut(b, data) == \* the position may stop at the end of the memory
  LET first == b.writeIndex
      length == Len(data)
      part1 == IF InOnePart(first, b.readIndex, length)
                 THEN length ELSE Capacity - first
  IN  [availability |-> b.availability - length,
       readIndex    |-> b.readIndex,
       writeIndex   |-> IF first + length > Capacity
                          THEN first + length - Capacity ELSE first + length,
       bytes        |-> [i \in Index |->
         IF i \in first .. first + part1 - 1 THEN data[i - first + 1]
         ELSE IF i < length - part1 THEN data[part1 + i + 1]
         ELSE b.bytes[i]]]

(* write(): the bytes go behind those that are there.                      *)
Put(b, data) ==
  LET first == b.writeIndex
      length == Len(data)
      part1 == IF InOnePart(first, b.readIndex, length)
                 THEN length ELSE Capacity - first
  IN  [availability |-> b.availability - length,
       readIndex    |-> b.readIndex,
       writeIndex   |-> (first + length) % Capacity,
       bytes        |-> [i \in Index |->
         IF i \in first .. first + part1 - 1 THEN data[i - first + 1]
         ELSE IF i < length - part1 THEN data[part1 + i + 1]
         ELSE b.bytes[i]]]

BugFirstBytes(b, length) == \* the second part repeats the first
  [k \in 1 .. length |-> IF b.readIndex + k - 1 < Capacity
                            THEN b.bytes[b.readIndex + k - 1]
                            ELSE b.bytes[b.readIndex]]

(* The length bytes that writeToOutputSink() passes on ...                 *)
FirstBytes(b, length) ==
  LET first == b.readIndex
      part1 == IF InOnePart(first, b.writeIndex, length)
                 THEN length ELSE Capacity - first
  IN  [k \in 1 .. length |-> IF k <= part1 THEN b.bytes[first + k - 1]
                                           ELSE b.bytes[k - part1 - 1]]

(* ... and forgets.                                                        *)
Drop(b, length) ==
  [availability |-> b.availability + length,
   readIndex    |-> (b.readIndex + length) % Capacity,
   writeIndex   |-> b.writeIndex,
   bytes        |-> b.bytes]

-----------------------------------------------------------------------------
(* What the positions stand for.                                           *)
Content(b) ==
  [k \in 1 .. Level(b) |-> b.bytes[(b.readIndex + (k - 1)) % Capacity]]

InAgreement(b) == b.writeIndex = (b.readIndex + Level(b)) % Capacity
=============================================================================
