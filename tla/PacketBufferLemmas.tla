------------------------- MODULE PacketBufferLemmas -------------------------
(***************************************************************************)
(* Lemmas about the operators of PacketBuffer, for every length of head    *)
(* and tail: what each one preserves, and what it does to the backlog of   *)
(* unsent packets and to the memory of the sent ones.                      *)
(***************************************************************************)
EXTENDS PacketBuffer, TLAPS

(* The ring has at least one slot.                                         *)
LEMMA SlotCountType ==
  /\ HeadLength \in Nat
  /\ TailLength \in Nat
  /\ HeadLength > 0
  /\ SlotCount = HeadLength + TailLength
  /\ SlotCount \in Nat
  /\ SlotCount > 0
BY HeadLengthAssumption, TailLengthAssumption DEF SlotCount

(* Advancing a position by at most one turn of the ring wraps it at the    *)
(* last slot (the modulo of PacketBuffer.cpp:70 and 86).                   *)
LEMMA Wrap ==
  ASSUME NEW i \in Slot, NEW k \in 0 .. SlotCount
  PROVE  (i + k) % SlotCount =
           IF i + k < SlotCount THEN i + k ELSE i + k - SlotCount
BY SlotCountType, SMT DEF Slot

(* prevBuffered() stays inside the ring (the assertions of                 *)
(* PacketBuffer.cpp:103-104).                                              *)
LEMMA PreviousInRing ==
  ASSUME NEW i \in Slot, NEW age \in 1 .. TailLength
  PROVE  (IF age <= i THEN i - age ELSE SlotCount - (age - i)) \in Slot
BY SlotCountType DEF Slot

-----------------------------------------------------------------------------
(* A new buffer is a buffer whose positions agree.                         *)
LEMMA NewBufferType == NewBuffer \in Buffer /\ PositionsAgree(NewBuffer)
<1>1. NewBuffer \in Buffer
  BY SlotCountType, ZeroedSlotAssumption DEF NewBuffer, Buffer, Slot
<1>2. 0 \in Slot /\ 0 \in 0 .. SlotCount
  BY SlotCountType DEF Slot
<1>3. PositionsAgree(NewBuffer)
  BY <1>2, Wrap, SlotCountType DEF PositionsAgree, Unsent, NewBuffer
<1> QED BY <1>1, <1>3

(* reset() leaves a buffer whose positions agree.                          *)
LEMMA ResetBufferType ==
  ASSUME NEW b \in Buffer
  PROVE  ResetBuffer(b) \in Buffer /\ PositionsAgree(ResetBuffer(b))
<1>1. ResetBuffer(b) \in Buffer
  BY SlotCountType DEF ResetBuffer, Buffer, Slot
<1>2. 0 \in Slot /\ 0 \in 0 .. SlotCount
  BY SlotCountType DEF Slot
<1>3. PositionsAgree(ResetBuffer(b))
  BY <1>2, Wrap, SlotCountType DEF PositionsAgree, Unsent, ResetBuffer, Buffer
<1> QED BY <1>1, <1>3

(* nextAvailable(): the fields of the buffer it leaves.                    *)
LEMMA NextAvailableFields ==
  ASSUME NEW b \in Buffer, NEW packet \in Packet, CanWrite(b)
  PROVE  LET c == NextAvailable(b, packet)
         IN  /\ c.availability = b.availability - 1
             /\ c.readIndex = b.readIndex
             /\ c.writeIndex = (b.writeIndex + 1) % SlotCount
             /\ c.slots = [b.slots EXCEPT ![b.writeIndex] = packet]
             /\ c \in Buffer
<1> DEFINE c == NextAvailable(b, packet)
<1>1. /\ c.availability = b.availability - 1
      /\ c.readIndex = b.readIndex
      /\ c.writeIndex = (b.writeIndex + 1) % SlotCount
      /\ c.slots = [b.slots EXCEPT ![b.writeIndex] = packet]
  BY DEF NextAvailable, Buffer
<1>2. 1 \in 0 .. SlotCount
  BY SlotCountType
<1>3. (b.writeIndex + 1) % SlotCount \in Slot
  BY <1>2, Wrap, SlotCountType DEF Buffer, Slot
<1>4. c \in Buffer
  BY <1>3, SlotCountType DEF NextAvailable, Buffer, CanWrite, Slot
<1> QED BY <1>1, <1>4

(* nextBuffered(): the fields of the buffer it leaves.                     *)
LEMMA NextBufferedFields ==
  ASSUME NEW b \in Buffer, CanRead(b)
  PROVE  LET c == NextBuffered(b)
         IN  /\ c.availability = b.availability + 1
             /\ c.readIndex = (b.readIndex + 1) % SlotCount
             /\ c.writeIndex = b.writeIndex
             /\ c.slots = b.slots
             /\ c \in Buffer
<1> DEFINE c == NextBuffered(b)
<1>1. /\ c.availability = b.availability + 1
      /\ c.readIndex = (b.readIndex + 1) % SlotCount
      /\ c.writeIndex = b.writeIndex
      /\ c.slots = b.slots
  BY DEF NextBuffered, Buffer
<1>2. 1 \in 0 .. SlotCount
  BY SlotCountType
<1>3. (b.readIndex + 1) % SlotCount \in Slot
  BY <1>2, Wrap, SlotCountType DEF Buffer, Slot
<1>4. c \in Buffer
  BY <1>3, SlotCountType DEF NextBuffered, Buffer, CanRead, Slot
<1> QED BY <1>1, <1>4

-----------------------------------------------------------------------------
(* The backlog is a sequence of packets, as long as there are unsent ones. *)
LEMMA BacklogType ==
  ASSUME NEW b \in Buffer
  PROVE  /\ Unsent(b) \in 0 .. HeadLength
         /\ Backlog(b) \in Seq(Packet)
         /\ Len(Backlog(b)) = Unsent(b)
<1>1. Unsent(b) \in 0 .. HeadLength
  BY SlotCountType DEF Unsent, Buffer
<1>2. ASSUME NEW k \in 1 .. Unsent(b)
      PROVE  b.slots[(b.readIndex + (k - 1)) % SlotCount] \in Packet
  <2>1. k - 1 \in 0 .. SlotCount
    BY <1>1, SlotCountType
  <2>2. (b.readIndex + (k - 1)) % SlotCount \in Slot
    BY <2>1, Wrap, SlotCountType DEF Buffer, Slot
  <2> QED BY <2>2 DEF Buffer
<1>3. Backlog(b) \in [1 .. Unsent(b) -> Packet]
  BY <1>2 DEF Backlog
<1> QED BY <1>1, <1>3

(* The k-th packet of the backlog.                                         *)
LEMMA BacklogAt ==
  ASSUME NEW b \in Buffer, NEW k \in 1 .. Unsent(b)
  PROVE  Backlog(b)[k] =
           b.slots[IF b.readIndex + (k - 1) < SlotCount
                     THEN b.readIndex + (k - 1)
                     ELSE b.readIndex + (k - 1) - SlotCount]
<1>1. k - 1 \in 0 .. SlotCount
  BY BacklogType, SlotCountType
<1> QED BY <1>1, Wrap DEF Backlog, Buffer

(* canRead() tells whether there is a backlog, canWrite() whether there is *)
(* room in it, and nextBuffered() returns its head.                        *)
LEMMA BacklogTests ==
  ASSUME NEW b \in Buffer
  PROVE  /\ CanRead(b) <=> Backlog(b) # <<>>
         /\ CanWrite(b) <=> Len(Backlog(b)) < HeadLength
         /\ CanRead(b) => NextPacket(b) = Head(Backlog(b))
<1>1. CanRead(b) <=> Len(Backlog(b)) > 0
  BY BacklogType, SlotCountType DEF CanRead, Unsent, Buffer
<1>2. CanWrite(b) <=> Len(Backlog(b)) < HeadLength
  BY BacklogType, SlotCountType DEF CanWrite, Unsent, Buffer
<1>3. CanRead(b) <=> Backlog(b) # <<>>
  BY <1>1, BacklogType
<1>4. ASSUME CanRead(b)
      PROVE  NextPacket(b) = Head(Backlog(b))
  <2>1. 1 \in 1 .. Unsent(b)
    BY <1>1, <1>4, BacklogType
  <2>2. Backlog(b)[1] = b.slots[b.readIndex]
    BY <2>1, BacklogAt, SlotCountType DEF Buffer, Slot
  <2>3. Head(Backlog(b)) = Backlog(b)[1]
    BY <1>3, <1>4, BacklogType
  <2> QED BY <2>2, <2>3 DEF NextPacket
<1> QED BY <1>2, <1>3, <1>4

(* A new buffer and one that was reset have no backlog.                    *)
LEMMA EmptyBacklog ==
  ASSUME NEW b \in Buffer
  PROVE  Backlog(NewBuffer) = <<>> /\ Backlog(ResetBuffer(b)) = <<>>
<1>1. Unsent(NewBuffer) = 0 /\ Unsent(ResetBuffer(b)) = 0
  BY SlotCountType DEF Unsent, NewBuffer, ResetBuffer
<1>2. NewBuffer \in Buffer /\ ResetBuffer(b) \in Buffer
  BY NewBufferType, ResetBufferType
<1> QED BY <1>1, <1>2, BacklogType

-----------------------------------------------------------------------------
(* nextAvailable() keeps the positions in agreement.                       *)
LEMMA NextAvailablePositions ==
  ASSUME NEW b \in Buffer, NEW packet \in Packet,
         CanWrite(b), PositionsAgree(b)
  PROVE  PositionsAgree(NextAvailable(b, packet))
<1> DEFINE c == NextAvailable(b, packet)
<1>1. /\ c.readIndex = b.readIndex
      /\ c.writeIndex = (b.writeIndex + 1) % SlotCount
      /\ Unsent(c) = Unsent(b) + 1
      /\ Unsent(b) \in 0 .. HeadLength - 1
  <2>1. /\ c.readIndex = b.readIndex
        /\ c.writeIndex = (b.writeIndex + 1) % SlotCount
        /\ c.availability = b.availability - 1
    BY NextAvailableFields
  <2>2. b.availability \in 1 .. HeadLength
    BY SlotCountType DEF CanWrite, Buffer
  <2> HIDE DEF c
  <2> QED BY <2>1, <2>2, SlotCountType DEF Unsent
<1> HIDE DEF c
<1>2. /\ b.readIndex \in Slot
      /\ b.writeIndex \in Slot
  BY DEF Buffer
<1>3. /\ Unsent(b) \in 0 .. SlotCount
      /\ Unsent(b) + 1 \in 0 .. SlotCount
      /\ 1 \in 0 .. SlotCount
  BY <1>1, SlotCountType
<1>4. b.writeIndex = IF b.readIndex + Unsent(b) < SlotCount
                       THEN b.readIndex + Unsent(b)
                       ELSE b.readIndex + Unsent(b) - SlotCount
  BY <1>2, <1>3, Wrap DEF PositionsAgree
<1>5. (b.readIndex + (Unsent(b) + 1)) % SlotCount =
        IF b.readIndex + (Unsent(b) + 1) < SlotCount
          THEN b.readIndex + (Unsent(b) + 1)
          ELSE b.readIndex + (Unsent(b) + 1) - SlotCount
  BY <1>2, <1>3, Wrap
<1>6. (b.writeIndex + 1) % SlotCount =
        IF b.writeIndex + 1 < SlotCount
          THEN b.writeIndex + 1 ELSE b.writeIndex + 1 - SlotCount
  BY <1>2, <1>3, Wrap
<1>7. (b.writeIndex + 1) % SlotCount =
        (b.readIndex + (Unsent(b) + 1)) % SlotCount
  BY <1>1, <1>2, <1>4, <1>5, <1>6, SlotCountType DEF Slot
<1>8. PositionsAgree(c)
  BY <1>1, <1>7 DEF PositionsAgree
<1> QED BY <1>8 DEF c

(* nextAvailable() appends to the backlog: it overwrites no unsent packet. *)
LEMMA WriteAppends ==
  ASSUME NEW b \in Buffer, NEW packet \in Packet,
         CanWrite(b), PositionsAgree(b)
  PROVE  Backlog(NextAvailable(b, packet)) = Append(Backlog(b), packet)
<1> DEFINE c == NextAvailable(b, packet)
           n == Unsent(b)
<1>1. /\ c \in Buffer
      /\ c.readIndex = b.readIndex
      /\ c.slots = [b.slots EXCEPT ![b.writeIndex] = packet]
      /\ Unsent(c) = n + 1
      /\ n \in 0 .. HeadLength - 1
  BY NextAvailableFields, SlotCountType DEF Unsent, CanWrite, Buffer
<1> HIDE DEF c, n
<1>2. /\ b.readIndex \in Slot
      /\ b.writeIndex \in Slot
      /\ b.slots \in [Slot -> Packet]
  BY DEF Buffer
<1>3. b.writeIndex = IF b.readIndex + n < SlotCount
                       THEN b.readIndex + n
                       ELSE b.readIndex + n - SlotCount
  <2>1. n \in 0 .. SlotCount
    BY <1>1, SlotCountType
  <2> QED BY <1>2, <2>1, Wrap DEF PositionsAgree, n
<1>4. /\ Backlog(c) \in Seq(Packet) /\ Len(Backlog(c)) = n + 1
      /\ Backlog(b) \in Seq(Packet) /\ Len(Backlog(b)) = n
  BY <1>1, BacklogType DEF n
<1>5. ASSUME NEW k \in 1 .. n + 1
      PROVE  Backlog(c)[k] = Append(Backlog(b), packet)[k]
  <2>1. Backlog(c)[k] = c.slots[IF b.readIndex + (k - 1) < SlotCount
                                  THEN b.readIndex + (k - 1)
                                  ELSE b.readIndex + (k - 1) - SlotCount]
    BY <1>1, BacklogAt
  <2>2. CASE k = n + 1
    <3>1. Backlog(c)[k] = c.slots[b.writeIndex]
      BY <1>1, <1>3, <2>1, <2>2, SlotCountType
    <3>2. c.slots[b.writeIndex] = packet
      BY <1>1, <1>2
    <3>3. Append(Backlog(b), packet)[k] = packet
      BY <1>4, <2>2
    <3> QED BY <3>1, <3>2, <3>3
  <2>3. CASE k \in 1 .. n
    <3>1. Backlog(b)[k] = b.slots[IF b.readIndex + (k - 1) < SlotCount
                                    THEN b.readIndex + (k - 1)
                                    ELSE b.readIndex + (k - 1) - SlotCount]
      BY <2>3, BacklogAt DEF n
    <3> DEFINE i == IF b.readIndex + (k - 1) < SlotCount
                      THEN b.readIndex + (k - 1)
                      ELSE b.readIndex + (k - 1) - SlotCount
    <3>2. i \in Slot /\ i # b.writeIndex
      BY <1>1, <1>2, <1>3, <2>3, SlotCountType DEF Slot
    <3>3. c.slots[i] = b.slots[i]
      BY <1>1, <1>2, <3>2
    <3>4. Append(Backlog(b), packet)[k] = Backlog(b)[k]
      BY <1>4, <2>3
    <3> QED BY <2>1, <3>1, <3>3, <3>4
  <2>4. k = n + 1 \/ k \in 1 .. n
    BY <1>1, SlotCountType
  <2> QED BY <2>2, <2>3, <2>4
<1>6. /\ Append(Backlog(b), packet) \in Seq(Packet)
      /\ Len(Append(Backlog(b), packet)) = n + 1
  BY <1>4
<1>7. Backlog(c) = Append(Backlog(b), packet)
  BY <1>1, <1>4, <1>5, <1>6
<1> QED BY <1>7 DEF c

(* nextAvailable() overwrites none of the packets read last: what          *)
(* prevBuffered() returns stays as it was, for every age it accepts.       *)
LEMMA WriteRemembers ==
  ASSUME NEW b \in Buffer, NEW packet \in Packet, NEW age \in 1 .. TailLength,
         CanWrite(b), PositionsAgree(b)
  PROVE  PrevBuffered(NextAvailable(b, packet), age) = PrevBuffered(b, age)
<1> DEFINE c == NextAvailable(b, packet)
           n == Unsent(b)
           i == IF age <= b.readIndex THEN b.readIndex - age
                                      ELSE SlotCount - (age - b.readIndex)
<1>1. /\ c.readIndex = b.readIndex
      /\ c.slots = [b.slots EXCEPT ![b.writeIndex] = packet]
      /\ n \in 0 .. HeadLength - 1
  BY NextAvailableFields, SlotCountType DEF Unsent, CanWrite, Buffer
<1> HIDE DEF c, n
<1>2. /\ b.readIndex \in Slot
      /\ b.writeIndex \in Slot
      /\ b.slots \in [Slot -> Packet]
  BY DEF Buffer
<1>3. b.writeIndex = IF b.readIndex + n < SlotCount
                       THEN b.readIndex + n
                       ELSE b.readIndex + n - SlotCount
  <2>1. n \in 0 .. SlotCount
    BY <1>1, SlotCountType
  <2> QED BY <1>2, <2>1, Wrap DEF PositionsAgree, n
<1>4. i \in Slot /\ i # b.writeIndex
  BY <1>1, <1>2, <1>3, SlotCountType DEF Slot
<1>5. c.slots[i] = b.slots[i]
  BY <1>1, <1>2, <1>4
<1>6. PrevBuffered(c, age) = PrevBuffered(b, age)
  BY <1>1, <1>5 DEF PrevBuffered
<1> QED BY <1>6 DEF c

-----------------------------------------------------------------------------
(* nextBuffered() keeps the positions in agreement, takes the head off the *)
(* backlog and ages what was read before by one read.                      *)
LEMMA NextBufferedPositions ==
  ASSUME NEW b \in Buffer, CanRead(b), PositionsAgree(b)
  PROVE  PositionsAgree(NextBuffered(b))
<1> DEFINE c == NextBuffered(b)
           n == Unsent(b)
<1>1. /\ c.readIndex = (b.readIndex + 1) % SlotCount
      /\ c.writeIndex = b.writeIndex
      /\ c.availability = b.availability + 1
      /\ c \in Buffer
  BY NextBufferedFields
<1>2. b.availability \in 0 .. HeadLength - 1
  BY SlotCountType DEF CanRead, Buffer
<1> HIDE DEF c
<1>3. n \in 1 .. HeadLength /\ Unsent(c) = n - 1
  BY <1>1, <1>2, SlotCountType DEF Unsent
<1> HIDE DEF n
<1>4. b.readIndex \in Slot /\ c.readIndex \in Slot
  BY <1>1 DEF Buffer
<1>5. c.readIndex = IF b.readIndex + 1 < SlotCount
                      THEN b.readIndex + 1 ELSE b.readIndex + 1 - SlotCount
  BY <1>1, <1>4, Wrap, SlotCountType
<1>6. b.writeIndex = IF b.readIndex + n < SlotCount
                       THEN b.readIndex + n
                       ELSE b.readIndex + n - SlotCount
  <2>1. n \in 0 .. SlotCount
    BY <1>3, SlotCountType
  <2> QED BY <1>4, <2>1, Wrap DEF PositionsAgree, n
<1>7. (c.readIndex + (n - 1)) % SlotCount =
        IF c.readIndex + (n - 1) < SlotCount
          THEN c.readIndex + (n - 1)
          ELSE c.readIndex + (n - 1) - SlotCount
  <2>1. n - 1 \in 0 .. SlotCount
    BY <1>3, SlotCountType
  <2> QED BY <1>4, <2>1, Wrap
<1>8. b.writeIndex = (c.readIndex + (n - 1)) % SlotCount
  BY <1>3, <1>4, <1>5, <1>6, <1>7, SlotCountType DEF Slot
<1>9. PositionsAgree(c)
  BY <1>1, <1>3, <1>8 DEF PositionsAgree
<1> QED BY <1>9 DEF c

LEMMA ReadTakesHead ==
  ASSUME NEW b \in Buffer, CanRead(b)
  PROVE  Backlog(NextBuffered(b)) = Tail(Backlog(b))
<1> DEFINE c == NextBuffered(b)
           n == Unsent(b)
<1>1. /\ c.readIndex = (b.readIndex + 1) % SlotCount
      /\ c.slots = b.slots
      /\ c.availability = b.availability + 1
      /\ c \in Buffer
  BY NextBufferedFields
<1>2. b.availability \in 0 .. HeadLength - 1
  BY SlotCountType DEF CanRead, Buffer
<1> HIDE DEF c
<1>3. n \in 1 .. HeadLength /\ Unsent(c) = n - 1
  BY <1>1, <1>2, SlotCountType DEF Unsent
<1>4. b.readIndex \in Slot
  BY DEF Buffer
<1>5. c.readIndex = IF b.readIndex + 1 < SlotCount
                      THEN b.readIndex + 1 ELSE b.readIndex + 1 - SlotCount
  BY <1>1, <1>4, Wrap, SlotCountType
<1>6. /\ Backlog(b) \in Seq(Packet) /\ Len(Backlog(b)) = n
      /\ Backlog(c) \in Seq(Packet) /\ Len(Backlog(c)) = n - 1
  BY <1>1, <1>3, BacklogType
<1>7. ASSUME NEW k \in 1 .. n - 1
      PROVE  Backlog(c)[k] = Backlog(b)[k + 1]
  <2>1. k \in 1 .. Unsent(c) /\ k + 1 \in 1 .. Unsent(b)
    BY <1>3
  <2>2. Backlog(c)[k] = c.slots[IF c.readIndex + (k - 1) < SlotCount
                                  THEN c.readIndex + (k - 1)
                                  ELSE c.readIndex + (k - 1) - SlotCount]
    BY <1>1, <2>1, BacklogAt
  <2>3. Backlog(b)[k + 1] =
          b.slots[IF b.readIndex + (k + 1 - 1) < SlotCount
                    THEN b.readIndex + (k + 1 - 1)
                    ELSE b.readIndex + (k + 1 - 1) - SlotCount]
    BY <2>1, BacklogAt
  <2>4. (IF c.readIndex + (k - 1) < SlotCount
           THEN c.readIndex + (k - 1)
           ELSE c.readIndex + (k - 1) - SlotCount) =
        (IF b.readIndex + (k + 1 - 1) < SlotCount
           THEN b.readIndex + (k + 1 - 1)
           ELSE b.readIndex + (k + 1 - 1) - SlotCount)
    BY <1>3, <1>4, <1>5, SlotCountType DEF Slot
  <2> QED BY <1>1, <2>2, <2>3, <2>4
<1> HIDE DEF n
<1>8. /\ Tail(Backlog(b)) \in Seq(Packet)
      /\ Len(Tail(Backlog(b))) = n - 1
      /\ \A k \in 1 .. n - 1 : Tail(Backlog(b))[k] = Backlog(b)[k + 1]
  BY <1>3, <1>6, SlotCountType
<1>9. Backlog(c) = Tail(Backlog(b))
  BY <1>3, <1>6, <1>7, <1>8, SlotCountType
<1> QED BY <1>9 DEF c

LEMMA ReadRemembers ==
  ASSUME NEW b \in Buffer, CanRead(b), NEW age \in 1 .. TailLength
  PROVE  PrevBuffered(NextBuffered(b), age) =
           IF age = 1 THEN NextPacket(b) ELSE PrevBuffered(b, age - 1)
<1> DEFINE c == NextBuffered(b)
<1>1. /\ c.readIndex = (b.readIndex + 1) % SlotCount
      /\ c.slots = b.slots
  BY NextBufferedFields
<1> HIDE DEF c
<1>2. b.readIndex \in Slot
  BY DEF Buffer
<1>3. c.readIndex = IF b.readIndex + 1 < SlotCount
                      THEN b.readIndex + 1 ELSE b.readIndex + 1 - SlotCount
  BY <1>1, <1>2, Wrap, SlotCountType
<1>4. CASE age = 1
  <2>1. (IF 1 <= c.readIndex THEN c.readIndex - 1
                             ELSE SlotCount - (1 - c.readIndex)) = b.readIndex
    BY <1>2, <1>3, SlotCountType DEF Slot
  <2> QED BY <1>1, <1>4, <2>1 DEF PrevBuffered, NextPacket, c
<1>5. CASE age # 1
  <2>1. (IF age <= c.readIndex THEN c.readIndex - age
                               ELSE SlotCount - (age - c.readIndex)) =
        (IF age - 1 <= b.readIndex THEN b.readIndex - (age - 1)
                                   ELSE SlotCount - (age - 1 - b.readIndex))
    BY <1>2, <1>3, <1>5, SlotCountType DEF Slot
  <2> QED BY <1>1, <1>5, <2>1 DEF PrevBuffered, c
<1> QED BY <1>4, <1>5
=============================================================================
