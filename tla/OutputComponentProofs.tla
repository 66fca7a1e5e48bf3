------------------------ MODULE OutputComponentProofs ------------------------
(***************************************************************************)
(* The invariants of OutputComponent hold for every size of the ring, of   *)
(* packets and of the engine's queue.                                      *)
(*                                                                         *)
(* Lemmas say what each operator of OutputBuffer does to the ring's        *)
(* content, in one part or in two.  That bytes are in sequence then is     *)
(* nearly inductive as it stands: besides, positions have to agree with    *)
(* the level, and the ring has to be empty when there is no chain.         *)
(*                                                                         *)
(* Playback then implements AudioStream, and uses the engine's queue as the *)
(* engine is proved to offer it in RAOPEngineProofs (PacketHistory).       *)
(***************************************************************************)
EXTENDS OutputComponent, SequenceTheorems, TLAPS

LEMMA Sizes ==
  /\ Capacity \in Nat /\ Capacity >= 1 /\ PacketSize \in Nat /\ PacketSize >= 1
  /\ PacketSize <= Capacity /\ QueueLength \in Nat /\ QueueLength >= 1
  /\ SleepLimit \in Nat /\ PollLimit \in Nat /\ PauseLimit \in Nat
  /\ Modulus \in Nat /\ Modulus > Capacity /\ Byte = 0 .. Modulus - 1
<1>1. /\ Capacity \in Nat /\ Capacity >= 1 /\ PacketSize \in Nat
      /\ PacketSize >= 1 /\ PacketSize <= Capacity /\ QueueLength \in Nat
      /\ QueueLength >= 1 /\ SleepLimit \in Nat /\ PollLimit \in Nat
      /\ PauseLimit \in Nat
  BY CapacityAssumption, SizeAssumption
<1>2. Modulus \in Nat /\ Modulus > Capacity + PacketSize * QueueLength
  BY ModulusAssumption
<1>3. PacketSize * QueueLength \in Nat
  BY <1>1
<1> QED BY <1>1, <1>2, <1>3, ModulusAssumption

-----------------------------------------------------------------------------
(* Numbers: bytes and positions wrap at most once.                         *)
LEMMA AdvanceWraps ==
  ASSUME NEW number \in Byte, NEW length \in 0 .. Modulus
  PROVE  /\ Advance(number, length) = IF number + length < Modulus
                                        THEN number + length
                                        ELSE number + length - Modulus
         /\ Advance(number, length) \in Byte
<1>1. (number + length) % Modulus = IF number + length < Modulus
                                      THEN number + length
                                      ELSE number + length - Modulus
  BY Sizes, SMT
<1> QED BY <1>1, Sizes DEF Advance

LEMMA AdvanceTwice ==
  ASSUME NEW number \in Byte, NEW i \in Nat, NEW k \in Nat, i + k <= Modulus
  PROVE  Advance(Advance(number, i), k) = Advance(number, i + k)
<1>1. /\ i \in 0 .. Modulus /\ k \in 0 .. Modulus /\ i + k \in 0 .. Modulus
  BY Sizes
<1> DEFINE m == Advance(number, i)
<1>2. /\ m \in Byte
      /\ m = IF number + i < Modulus THEN number + i ELSE number + i - Modulus
  BY <1>1, AdvanceWraps
<1>3. Advance(number, i + k) = IF number + (i + k) < Modulus
                                 THEN number + (i + k)
                                 ELSE number + (i + k) - Modulus
  BY <1>1, AdvanceWraps
<1> HIDE DEF m
<1>4. Advance(m, k) = IF m + k < Modulus THEN m + k ELSE m + k - Modulus
  BY <1>1, <1>2, AdvanceWraps
<1>5. Advance(m, k) = Advance(number, i + k)
  BY <1>1, <1>2, <1>3, <1>4, Sizes
<1> QED BY <1>5 DEF m

LEMMA AdvanceBack ==
  ASSUME NEW number \in Byte, NEW length \in 0 .. Modulus
  PROVE  /\ Advance(Advance(number, length), Modulus - length) = number
         /\ Advance(number, 0) = number
<1>1. /\ length \in Nat /\ Modulus - length \in Nat
      /\ length + (Modulus - length) = Modulus
      /\ 0 \in 0 .. Modulus /\ Modulus \in 0 .. Modulus
  BY Sizes
<1>2. Advance(Advance(number, length), Modulus - length)
        = Advance(number, Modulus)
  BY <1>1, Sizes, AdvanceTwice
<1>3. Advance(number, Modulus) = number
  BY <1>1, Sizes, AdvanceWraps
<1>4. Advance(number, 0) = number
  BY <1>1, Sizes, AdvanceWraps
<1> QED BY <1>2, <1>3, <1>4

LEMMA PositionWraps ==
  ASSUME NEW i \in Index, NEW k \in 0 .. Capacity
  PROVE  /\ (i + k) % Capacity =
              IF i + k < Capacity THEN i + k ELSE i + k - Capacity
         /\ (i + k) % Capacity \in Index
<1>1. (i + k) % Capacity =
        IF i + k < Capacity THEN i + k ELSE i + k - Capacity
  BY Sizes, SMT DEF Index
<1> QED BY <1>1, Sizes DEF Index

-----------------------------------------------------------------------------
(* The ring.                                                               *)
Slot(b, k) == (b.readIndex + (k - 1)) % Capacity

LEMMA RingShape ==
  ASSUME NEW b \in ByteBuffer
  PROVE  /\ b.availability \in 0 .. Capacity /\ Level(b) \in 0 .. Capacity
         /\ b.readIndex \in Index /\ b.writeIndex \in Index
         /\ b.bytes \in [Index -> Byte]
         /\ \A k \in 1 .. Capacity :
              /\ Slot(b, k) = IF b.readIndex + (k - 1) < Capacity
                                THEN b.readIndex + (k - 1)
                                ELSE b.readIndex + (k - 1) - Capacity
              /\ Slot(b, k) \in Index
<1>1. /\ b.availability \in 0 .. Capacity
      /\ b.readIndex \in Index /\ b.writeIndex \in Index
      /\ b.bytes \in [Index -> Byte]
  BY DEF ByteBuffer
<1>2. Level(b) \in 0 .. Capacity
  BY <1>1, Sizes DEF Level
<1>3. ASSUME NEW k \in 1 .. Capacity
      PROVE  /\ Slot(b, k) = IF b.readIndex + (k - 1) < Capacity
                               THEN b.readIndex + (k - 1)
                               ELSE b.readIndex + (k - 1) - Capacity
             /\ Slot(b, k) \in Index
  <2>1. k - 1 \in 0 .. Capacity
    BY Sizes
  <2> QED BY <1>1, <2>1, PositionWraps DEF Slot
<1> QED BY <1>1, <1>2, <1>3

LEMMA EmptyRing ==
  ASSUME NEW b \in ByteBuffer
  PROVE  /\ NewByteBuffer \in ByteBuffer /\ ResetByteBuffer(b) \in ByteBuffer
         /\ Level(NewByteBuffer) = 0 /\ Level(ResetByteBuffer(b)) = 0
         /\ InAgreement(NewByteBuffer) /\ InAgreement(ResetByteBuffer(b))
<1>1. 0 \in Index /\ Capacity \in 0 .. Capacity /\ ZeroByte \in Byte
  BY Sizes, ZeroByteAssumption DEF Index
<1>2. NewByteBuffer \in ByteBuffer /\ ResetByteBuffer(b) \in ByteBuffer
  BY <1>1, RingShape DEF NewByteBuffer, ResetByteBuffer, ByteBuffer
<1>3. Level(NewByteBuffer) = 0 /\ Level(ResetByteBuffer(b)) = 0
  BY Sizes DEF Level, NewByteBuffer, ResetByteBuffer
<1>4. (0 + 0) % Capacity = 0
  <2>1. 0 \in 0 .. Capacity /\ 0 + 0 = 0
    BY Sizes
  <2> QED BY <1>1, <2>1, Sizes, PositionWraps
<1> QED BY <1>2, <1>3, <1>4
        DEF InAgreement, NewByteBuffer, ResetByteBuffer

(* What is put into the ring goes behind its content, and leaves that.     *)
LEMMA PutAppends ==
  ASSUME NEW b \in ByteBuffer, InAgreement(b),
         NEW data \in Seq(Byte), Len(data) \in 1 .. b.availability
  PROVE  LET after == Put(b, data) IN
         /\ after \in ByteBuffer /\ InAgreement(after)
         /\ after.readIndex = b.readIndex
         /\ Level(after) = Level(b) + Len(data)
         /\ \A k \in 1 .. Level(b) : after.bytes[Slot(b, k)] = b.bytes[Slot(b, k)]
         /\ \A k \in 1 .. Len(data) :
              after.bytes[Slot(b, Level(b) + k)] = data[k]
<1> DEFINE after == Put(b, data)
           length == Len(data)
           level == Level(b)
           read == b.readIndex
           first == b.writeIndex
           part1 == IF InOnePart(first, read, length)
                      THEN length ELSE Capacity - first
<1>1. /\ read \in Index /\ first \in Index /\ b.bytes \in [Index -> Byte]
      /\ level \in 0 .. Capacity /\ length \in 1 .. Capacity - level
      /\ b.availability = Capacity - level
  BY RingShape, Sizes DEF Level
<1>2. first = IF read + level < Capacity THEN read + level
                                         ELSE read + level - Capacity
  BY <1>1, PositionWraps DEF InAgreement
<1>3. /\ after.availability = Capacity - level - length
      /\ after.readIndex = read
      /\ after.writeIndex = (first + length) % Capacity
      /\ after.bytes = [i \in Index |->
           IF i \in first .. first + part1 - 1 THEN data[i - first + 1]
           ELSE IF i < length - part1 THEN data[part1 + i + 1]
           ELSE b.bytes[i]]
  BY <1>1 DEF Put
<1>4. \A k \in 1 .. length : data[k] \in Byte
  OBVIOUS
<1>5. /\ part1 \in 1 .. length
      /\ part1 = length \/ part1 = Capacity - first
      /\ first + part1 <= Capacity
      /\ first < read => part1 = length /\ first + length <= read
      /\ read <= first => part1 = length \/ length - part1 <= read
  <2>1. /\ first \in Nat /\ first < Capacity /\ read \in Nat /\ read < Capacity
        /\ length \in Nat /\ length >= 1 /\ level \in Nat
        /\ length <= Capacity - level
    BY <1>1, Sizes DEF Index
  <2>2. first < read => first = read + level - Capacity
    BY <1>2, <2>1, Sizes
  <2> HIDE DEF length, level, read, first
  <2>3. CASE first < read
    <3>1. part1 = length
      BY <2>3 DEF InOnePart
    <3> QED BY <2>1, <2>2, <2>3, <3>1, Sizes
  <2>4. CASE ~(first < read) /\ length <= Capacity - first
    <3>1. part1 = length
      BY <2>4 DEF InOnePart
    <3> QED BY <2>1, <2>4, <3>1, Sizes
  <2>5. CASE ~(first < read) /\ ~(length <= Capacity - first)
    <3>1. part1 = Capacity - first
      BY <2>5 DEF InOnePart
    <3>2. first = read + level
      BY <1>2, <2>1, <2>5, Sizes
    <3> QED BY <2>1, <2>5, <3>1, <3>2, Sizes
  <2> QED BY <2>3, <2>4, <2>5
<1>6. \A k \in 1 .. Capacity :
        /\ Slot(b, k) = IF read + (k - 1) < Capacity
                          THEN read + (k - 1) ELSE read + (k - 1) - Capacity
        /\ Slot(b, k) \in Index
  BY RingShape
<1> HIDE DEF after, length, level, read, first, part1
<1>7. after \in ByteBuffer
  <2>1. Capacity - level - length \in 0 .. Capacity
    BY <1>1, Sizes
  <2>2. (first + length) % Capacity \in Index
    <3>1. length \in 0 .. Capacity
      BY <1>1, Sizes
    <3> QED BY <1>1, <3>1, PositionWraps
  <2>3. after.bytes \in [Index -> Byte]
    <3>1. ASSUME NEW i \in Index
          PROVE  (IF i \in first .. first + part1 - 1 THEN data[i - first + 1]
                  ELSE IF i < length - part1 THEN data[part1 + i + 1]
                  ELSE b.bytes[i]) \in Byte
      <4>1. CASE i \in first .. first + part1 - 1
        <5>1. i - first + 1 \in 1 .. length
          BY <1>1, <1>5, <4>1, Sizes DEF Index
        <5> QED BY <1>4, <4>1, <5>1
      <4>2. CASE i \notin first .. first + part1 - 1 /\ i < length - part1
        <5>1. part1 + i + 1 \in 1 .. length
          BY <1>1, <1>5, <4>2, Sizes DEF Index
        <5> QED BY <1>4, <4>2, <5>1
      <4>3. CASE i \notin first .. first + part1 - 1 /\ ~(i < length - part1)
        BY <1>1, <4>3
      <4> QED BY <4>1, <4>2, <4>3
    <3> QED BY <1>3, <3>1
  <2>4. after = [availability |-> after.availability,
                 readIndex |-> after.readIndex,
                 writeIndex |-> after.writeIndex, bytes |-> after.bytes]
    BY DEF after, Put
  <2> QED BY <1>1, <1>3, <2>1, <2>2, <2>3, <2>4 DEF ByteBuffer
<1>8. Level(after) = level + length
  BY <1>1, <1>3, Sizes DEF Level
<1>9. InAgreement(after)
  <2>1. /\ level + length \in 0 .. Capacity /\ length \in 0 .. Capacity
    BY <1>1, Sizes
  <2>2. (read + (level + length)) % Capacity =
          IF read + (level + length) < Capacity THEN read + (level + length)
                                     ELSE read + (level + length) - Capacity
    BY <1>1, <2>1, PositionWraps
  <2>3. (first + length) % Capacity =
          IF first + length < Capacity THEN first + length
                                       ELSE first + length - Capacity
    BY <1>1, <2>1, PositionWraps
  <2>4. (first + length) % Capacity = (read + (level + length)) % Capacity
    BY <1>1, <1>2, <2>1, <2>2, <2>3, Sizes DEF Index
  <2> QED BY <1>3, <1>8, <2>4 DEF InAgreement
<1>10. ASSUME NEW k \in 1 .. level
       PROVE  after.bytes[Slot(b, k)] = b.bytes[Slot(b, k)]
  <2>1. k \in 1 .. Capacity
    BY <1>1, Sizes
  <2>2. /\ Slot(b, k) \in Index /\ ~(Slot(b, k) < length - part1)
        /\ Slot(b, k) \notin first .. first + part1 - 1
    <3> DEFINE s == Slot(b, k)
    <3>1. /\ s \in Index
          /\ s = IF read + (k - 1) < Capacity THEN read + (k - 1)
                                             ELSE read + (k - 1) - Capacity
      BY <1>6, <2>1, Zenon
    <3>2. /\ first \in Nat /\ first < Capacity /\ read \in Nat /\ read < Capacity
          /\ k \in Nat /\ 1 <= k /\ k <= level /\ level \in Nat
          /\ length \in Nat /\ length >= 1 /\ length <= Capacity - level
          /\ part1 \in Nat /\ s \in Nat
      <4>1. s \in Nat
        BY <3>1, Sizes DEF Index
      <4>2. /\ first \in Nat /\ first < Capacity /\ read \in Nat
            /\ read < Capacity
        BY <1>1, Sizes DEF Index
      <4>3. part1 \in Nat
        BY <1>1, <1>5, <4>2, Sizes
      <4>4. /\ k \in Nat /\ 1 <= k /\ k <= level /\ level \in Nat
            /\ length \in Nat /\ length >= 1 /\ length <= Capacity - level
        BY <1>1
      <4> QED BY <4>1, <4>2, <4>3, <4>4
    <3> HIDE DEF s
    <3>3. ~(s < length - part1)
      BY <1>2, <1>5, <3>1, <3>2, Sizes
    <3>4. s \notin first .. first + part1 - 1
      BY <1>2, <1>5, <3>1, <3>2, Sizes
    <3> QED BY <3>1, <3>3, <3>4 DEF s
  <2> QED BY <1>3, <2>2
<1>11. ASSUME NEW k \in 1 .. length
       PROVE  after.bytes[Slot(b, level + k)] = data[k]
  <2>1. level + k \in 1 .. Capacity
    BY <1>1, Sizes
  <2>2. /\ Slot(b, level + k) \in Index
        /\ Slot(b, level + k) = IF read + ((level + k) - 1) < Capacity
                                  THEN read + ((level + k) - 1)
                                  ELSE read + ((level + k) - 1) - Capacity
    BY <1>6, <2>1, Zenon
  <2>3. CASE k <= part1
    <3>1. /\ Slot(b, level + k) = first + k - 1
          /\ Slot(b, level + k) \in first .. first + part1 - 1
      BY <1>1, <1>2, <1>5, <2>1, <2>2, <2>3, Sizes DEF Index
    <3>2. Slot(b, level + k) - first + 1 = k
      BY <1>1, <3>1 DEF Index
    <3> QED BY <1>3, <2>2, <3>1, <3>2
  <2>4. CASE k > part1
    <3>1. part1 = Capacity - first
      BY <1>1, <1>5, <2>4
    <3>2. /\ Slot(b, level + k) = k - part1 - 1
          /\ Slot(b, level + k) < length - part1
          /\ Slot(b, level + k) \notin first .. first + part1 - 1
      <4> DEFINE s == Slot(b, level + k)
      <4>1. /\ first \in Nat /\ first < Capacity /\ read \in Nat /\ read < Capacity
            /\ k \in Nat /\ 1 <= k /\ k <= length /\ level \in Nat
            /\ length \in Nat /\ length <= Capacity - level
            /\ part1 \in Nat /\ s \in Nat
            /\ s = IF read + ((level + k) - 1) < Capacity
                     THEN read + ((level + k) - 1)
                     ELSE read + ((level + k) - 1) - Capacity
        BY <1>1, <1>5, <2>2, Sizes DEF Index
      <4> HIDE DEF s
      <4>2. ~(first < read)
        BY <1>5, <2>4, <4>1
      <4>3. first = read + level
        BY <1>2, <4>1, <4>2, Sizes
      <4>4. s = k - part1 - 1
        BY <2>4, <3>1, <4>1, <4>3, Sizes
      <4>5. s < first
        BY <3>1, <4>1, <4>3, <4>4, Sizes
      <4> QED BY <2>4, <4>1, <4>4, <4>5 DEF s
    <3>3. part1 + Slot(b, level + k) + 1 = k
      BY <1>1, <1>5, <3>2
    <3> QED BY <1>3, <2>2, <3>2, <3>3
  <2> QED BY <1>1, <1>5, <2>3, <2>4
<1>12. after.readIndex = read
  BY <1>3
<1> QED BY <1>7, <1>8, <1>9, <1>10, <1>11, <1>12 DEF after, length, level, read

(* The bytes that are passed on are the first of the content, ...          *)
LEMMA FirstBytesAreFirst ==
  ASSUME NEW b \in ByteBuffer, InAgreement(b), NEW length \in 1 .. Level(b)
  PROVE  /\ FirstBytes(b, length) \in Seq(Byte)
         /\ Len(FirstBytes(b, length)) = length
         /\ \A k \in 1 .. length :
              FirstBytes(b, length)[k] = b.bytes[Slot(b, k)]
<1> DEFINE level == Level(b)
           first == b.readIndex
           last == b.writeIndex
           part1 == IF InOnePart(first, last, length)
                      THEN length ELSE Capacity - first
           data == FirstBytes(b, length)
<1>0. /\ first \in Index /\ last \in Index /\ level \in 0 .. Capacity
      /\ b.bytes \in [Index -> Byte] /\ length \in 1 .. level
  BY RingShape
<1>1. /\ first \in Nat /\ first < Capacity /\ last \in Nat /\ last < Capacity
      /\ b.bytes \in [Index -> Byte] /\ level \in Nat /\ level <= Capacity
      /\ length \in Nat /\ 1 <= length /\ length <= level
      /\ first \in Index /\ level \in 0 .. Capacity
  <2> HIDE DEF first, last, level
  <2> QED BY <1>0, Sizes DEF Index
<1>2. last = IF first + level < Capacity THEN first + level
                                         ELSE first + level - Capacity
  BY <1>1, PositionWraps DEF InAgreement
<1>3. data = [k \in 1 .. length |-> IF k <= part1 THEN b.bytes[first + k - 1]
                                                  ELSE b.bytes[k - part1 - 1]]
  BY DEF FirstBytes
<1>4. ASSUME NEW k \in 1 .. length
      PROVE  /\ Slot(b, k) = IF first + (k - 1) < Capacity
                               THEN first + (k - 1) ELSE first + (k - 1) - Capacity
             /\ Slot(b, k) \in Index
  <2>1. k \in 1 .. Capacity
    BY <1>1, Sizes
  <2> QED BY <2>1, RingShape
<1> HIDE DEF level, first, last, part1, data
<1>5. ASSUME NEW k \in 1 .. length
      PROVE  Slot(b, k) = IF k <= part1 THEN first + k - 1 ELSE k - part1 - 1
  <2>1. CASE InOnePart(first, last, length)
    <3>1. part1 = length
      BY <2>1 DEF part1
    <3>2. first + length <= Capacity
      BY <1>1, <1>2, <2>1, Sizes DEF InOnePart
    <3> QED BY <1>1, <1>4, <3>1, <3>2, Sizes
  <2>2. CASE ~InOnePart(first, last, length)
    <3>1. part1 = Capacity - first
      BY <2>2 DEF part1
    <3> QED BY <1>1, <1>4, <3>1, Sizes
  <2> QED BY <2>1, <2>2
<1>6. ASSUME NEW k \in 1 .. length
      PROVE  data[k] = b.bytes[Slot(b, k)]
  BY <1>3, <1>5
<1>7. \A k \in 1 .. length : b.bytes[Slot(b, k)] \in Byte
  BY <1>1, <1>4
<1>8. data \in [1 .. length -> Byte]
  <2>1. data = [k \in 1 .. length |-> b.bytes[Slot(b, k)]]
    BY <1>3, <1>5
  <2> QED BY <1>7, <2>1
<1>9. data \in Seq(Byte) /\ Len(data) = length
  BY <1>1, <1>8
<1> QED BY <1>6, <1>9 DEF data

(* ... and those that remain move up.                                      *)
LEMMA DropRemoves ==
  ASSUME NEW b \in ByteBuffer, InAgreement(b), NEW length \in 1 .. Level(b)
  PROVE  LET after == Drop(b, length) IN
         /\ after \in ByteBuffer /\ InAgreement(after)
         /\ Level(after) = Level(b) - length
         /\ \A k \in 1 .. Level(after) :
              after.bytes[Slot(after, k)] = b.bytes[Slot(b, length + k)]
<1> DEFINE after == Drop(b, length)
           level == Level(b)
           read == b.readIndex
           next == (read + length) % Capacity
<1>0. /\ read \in Index /\ b.writeIndex \in Index /\ b.bytes \in [Index -> Byte]
      /\ b.availability \in 0 .. Capacity /\ level \in 0 .. Capacity
      /\ level = Capacity - b.availability /\ length \in 1 .. level
  BY RingShape DEF Level
<1>1. /\ read \in Index /\ b.writeIndex \in Index /\ b.bytes \in [Index -> Byte]
      /\ read \in Nat /\ read < Capacity /\ level \in Nat /\ level <= Capacity
      /\ length \in Nat /\ 1 <= length /\ length <= level
      /\ b.availability = Capacity - level
      /\ length \in 0 .. Capacity /\ level \in 0 .. Capacity
      /\ level - length \in 0 .. Capacity
  <2> HIDE DEF read, level
  <2> QED BY <1>0, Sizes DEF Index
<1>2. /\ after = [availability |-> Capacity - level + length,
                  readIndex |-> next, writeIndex |-> b.writeIndex,
                  bytes |-> b.bytes]
  BY <1>1 DEF Drop
<1>3. /\ next \in Index
      /\ next = IF read + length < Capacity THEN read + length
                                            ELSE read + length - Capacity
  BY <1>1, PositionWraps
<1>4. \A k \in 1 .. Capacity :
        /\ Slot(b, k) = IF read + (k - 1) < Capacity
                          THEN read + (k - 1) ELSE read + (k - 1) - Capacity
        /\ Slot(b, k) \in Index
  BY RingShape
<1>5. b.writeIndex = IF read + level < Capacity THEN read + level
                                                ELSE read + level - Capacity
  BY <1>1, PositionWraps DEF InAgreement
<1> HIDE DEF after, level, read, next
<1>6. after \in ByteBuffer
  <2>1. Capacity - level + length \in 0 .. Capacity
    BY <1>1, Sizes
  <2> QED BY <1>1, <1>2, <1>3, <2>1 DEF ByteBuffer
<1>7. Level(after) = level - length
  BY <1>1, <1>2, Sizes DEF Level
<1>8. InAgreement(after)
  <2>1. (next + (level - length)) % Capacity =
          IF next + (level - length) < Capacity THEN next + (level - length)
                                      ELSE next + (level - length) - Capacity
    BY <1>1, <1>3, PositionWraps
  <2>2. next \in Nat /\ next < Capacity
    BY <1>3, Sizes DEF Index
  <2>3. (next + (level - length)) % Capacity = b.writeIndex
    <3>1. CASE read + length < Capacity
      <4>1. next + (level - length) = read + level
        BY <1>1, <1>3, <3>1
      <4> QED BY <1>1, <1>3, <1>5, <2>1, <2>2, <3>1, Sizes
    <3>2. CASE ~(read + length < Capacity)
      <4>1. /\ next + (level - length) = read + level - Capacity
            /\ next + (level - length) < Capacity
            /\ ~(read + level < Capacity)
        BY <1>1, <1>3, <3>2, Sizes
      <4> QED BY <1>5, <2>1, <4>1
    <3> QED BY <3>1, <3>2
  <2> QED BY <1>2, <1>7, <2>3 DEF InAgreement
<1>9. ASSUME NEW k \in 1 .. level - length
      PROVE  after.bytes[Slot(after, k)] = b.bytes[Slot(b, length + k)]
  <2>1. k \in 1 .. Capacity /\ length + k \in 1 .. Capacity /\ k \in Nat
    BY <1>1, Sizes
  <2>2. Slot(after, k) = IF next + (k - 1) < Capacity
                           THEN next + (k - 1) ELSE next + (k - 1) - Capacity
    BY <1>2, <1>6, <2>1, RingShape
  <2>3. Slot(b, length + k) = IF read + ((length + k) - 1) < Capacity
                                THEN read + ((length + k) - 1)
                                ELSE read + ((length + k) - 1) - Capacity
    BY <1>4, <2>1, Zenon
  <2>4. next \in Nat /\ next < Capacity
    BY <1>3, Sizes DEF Index
  <2>5. Slot(after, k) = Slot(b, length + k)
    <3>1. CASE read + length < Capacity
      <4>1. next + (k - 1) = read + ((length + k) - 1)
        BY <1>1, <1>3, <2>1, <3>1
      <4>2. CASE next + (k - 1) < Capacity
        <5>1. Slot(after, k) = next + (k - 1)
          BY <2>2, <4>2, Zenon
        <5>2. Slot(b, length + k) = read + ((length + k) - 1)
          BY <2>3, <4>1, <4>2, Zenon
        <5> QED BY <4>1, <5>1, <5>2, Zenon
      <4>3. CASE ~(next + (k - 1) < Capacity)
        <5>1. Slot(after, k) = next + (k - 1) - Capacity
          BY <2>2, <4>3, Zenon
        <5>2. Slot(b, length + k) = read + ((length + k) - 1) - Capacity
          BY <2>3, <4>1, <4>3, Zenon
        <5>3. /\ next \in Nat /\ read \in Nat /\ length \in Nat /\ k \in Nat
              /\ Capacity \in Nat
          BY <1>1, <2>1, <2>4, Sizes DEF Index
        <5> QED BY <4>1, <5>1, <5>2, <5>3
      <4> QED BY <4>2, <4>3, Zenon
    <3>2. CASE ~(read + length < Capacity)
      <4>1. /\ next + (k - 1) = read + ((length + k) - 1) - Capacity
            /\ next + (k - 1) < Capacity
            /\ ~(read + ((length + k) - 1) < Capacity)
        BY <1>1, <1>3, <2>1, <3>2, Sizes
      <4> QED BY <2>2, <2>3, <4>1
    <3> QED BY <3>1, <3>2
  <2> QED BY <1>2, <2>5
<1> QED BY <1>6, <1>7, <1>8, <1>9 DEF after, level

-----------------------------------------------------------------------------
(* So the ring is a queue.                                                 *)
LEMMA ContentIs ==
  ASSUME NEW b \in ByteBuffer
  PROVE  /\ Content(b) \in Seq(Byte) /\ Len(Content(b)) = Level(b)
         /\ \A k \in 1 .. Level(b) : Content(b)[k] = b.bytes[Slot(b, k)]
<1> DEFINE level == Level(b)
<1>1. level \in Nat /\ level <= Capacity /\ level \in 0 .. Capacity
  BY RingShape, Sizes
<1>2. Content(b) = [k \in 1 .. level |-> b.bytes[Slot(b, k)]]
  BY DEF Content, Slot
<1>3. ASSUME NEW k \in 1 .. level
      PROVE  b.bytes[Slot(b, k)] \in Byte
  <2>1. k \in 1 .. Capacity
    BY <1>1, Sizes
  <2> QED BY <2>1, RingShape
<1> HIDE DEF level
<1>4. Content(b) \in [1 .. level -> Byte]
  BY <1>2, <1>3
<1> QED BY <1>1, <1>2, <1>4 DEF level

LEMMA PutQueues ==
  ASSUME NEW b \in ByteBuffer, InAgreement(b),
         NEW data \in Seq(Byte), Len(data) \in 1 .. b.availability
  PROVE  Content(Put(b, data)) = Content(b) \o data
<1> DEFINE after == Put(b, data)
           level == Level(b)
<1>1. /\ after \in ByteBuffer /\ after.readIndex = b.readIndex
      /\ Level(after) = level + Len(data)
      /\ \A k \in 1 .. level : after.bytes[Slot(b, k)] = b.bytes[Slot(b, k)]
      /\ \A k \in 1 .. Len(data) :
           after.bytes[Slot(b, level + k)] = data[k]
  BY PutAppends
<1>2. \A k : Slot(after, k) = Slot(b, k)
  BY <1>1 DEF Slot
<1> HIDE DEF after
<1>3. /\ Content(after) \in Seq(Byte) /\ Len(Content(after)) = level + Len(data)
      /\ \A k \in 1 .. level + Len(data) :
           Content(after)[k] = after.bytes[Slot(b, k)]
  BY <1>1, <1>2, ContentIs
<1>4. /\ Content(b) \in Seq(Byte) /\ Len(Content(b)) = level
      /\ \A k \in 1 .. level : Content(b)[k] = b.bytes[Slot(b, k)]
      /\ level \in Nat /\ Len(data) \in Nat
  BY ContentIs, RingShape, Sizes
<1> DEFINE all == Content(b) \o data
<1> HIDE DEF level
<1>5. /\ all \in Seq(Byte) /\ Len(all) = level + Len(data)
      /\ \A k \in 1 .. level + Len(data) :
           all[k] = IF k <= level THEN Content(b)[k] ELSE data[k - level]
  BY <1>4, ConcatProperties
<1> HIDE DEF all
<1>6. ASSUME NEW k \in 1 .. level + Len(data)
      PROVE  Content(after)[k] = all[k]
  <2>1. CASE k <= level
    <3>1. k \in 1 .. level
      BY <1>4, <2>1
    <3>2. Content(after)[k] = after.bytes[Slot(b, k)]
      BY <1>3
    <3>3. all[k] = Content(b)[k]
      BY <1>5, <2>1
    <3> QED BY <1>1, <1>4, <3>1, <3>2, <3>3, Zenon
  <2>2. CASE ~(k <= level)
    <3>1. k - level \in 1 .. Len(data) /\ level + (k - level) = k
      BY <1>4, <2>2
    <3> QED BY <1>1, <1>3, <1>5, <2>2, <3>1
  <2> QED BY <2>1, <2>2
<1>7. Content(after) = all
  BY <1>3, <1>5, <1>6, SeqEqual
<1> QED BY <1>7 DEF after, all

LEMMA DropServes ==
  ASSUME NEW b \in ByteBuffer, InAgreement(b), NEW length \in 1 .. Level(b)
  PROVE  /\ FirstBytes(b, length) = SubSeq(Content(b), 1, length)
         /\ Content(Drop(b, length))
              = SubSeq(Content(b), length + 1, Len(Content(b)))
<1> DEFINE content == Content(b)
           level == Level(b)
           first == FirstBytes(b, length)
           front == SubSeq(content, 1, length)
           after == Drop(b, length)
           rest  == SubSeq(content, length + 1, level)
<1>1. /\ content \in Seq(Byte) /\ Len(content) = level
      /\ \A k \in 1 .. level : content[k] = b.bytes[Slot(b, k)]
      /\ \A k \in 1 .. level : content[k] \in Byte
      /\ level \in Nat /\ length \in Nat /\ 1 <= length /\ length <= level
  <2>1. level \in Nat
    BY RingShape, Sizes
  <2>2. /\ content \in Seq(Byte) /\ Len(content) = level
        /\ \A k \in 1 .. level : content[k] = b.bytes[Slot(b, k)]
    BY ContentIs
  <2> HIDE DEF content, level
  <2>3. \A k \in 1 .. level : content[k] \in Byte
    BY <2>2, ElementOfSeq
  <2>4. length \in 1 .. level
    BY DEF level
  <2> QED BY <2>1, <2>2, <2>3, <2>4
<1>2. /\ first \in Seq(Byte) /\ Len(first) = length
      /\ \A k \in 1 .. length : first[k] = b.bytes[Slot(b, k)]
  BY FirstBytesAreFirst
<1>3. /\ after \in ByteBuffer /\ Level(after) = level - length
      /\ \A k \in 1 .. Level(after) :
           after.bytes[Slot(after, k)] = b.bytes[Slot(b, length + k)]
  BY DropRemoves
<1> HIDE DEF content, level, first, after
<1>4. /\ front \in Seq(Byte) /\ Len(front) = length
      /\ \A k \in 1 .. length : front[k] = content[k]
  <2>1. /\ 1 \in Int /\ length \in Int /\ length - 1 + 1 = length
        /\ \A k \in 1 .. length : content[k] \in Byte
    BY <1>1
  <2>2. /\ front \in Seq(Byte)
        /\ Len(front) = IF 1 <= length THEN length - 1 + 1 ELSE 0
        /\ \A k \in 1 .. length - 1 + 1 : front[k] = content[1 + k - 1]
    BY <2>1, SubSeqProperties
  <2> QED BY <1>1, <2>2
<1>5. first = front
  <2>1. ASSUME NEW k \in 1 .. length
        PROVE  first[k] = front[k]
    BY <1>1, <1>2, <1>4
  <2> HIDE DEF front
  <2> QED BY <1>2, <1>4, <2>1, SeqEqual
<1>6. /\ rest \in Seq(Byte) /\ Len(rest) = level - length
      /\ \A k \in 1 .. level - length : rest[k] = content[length + k]
  <2>1. /\ length + 1 \in Int /\ level \in Int
        /\ \A k \in length + 1 .. level : content[k] \in Byte
    BY <1>1
  <2>2. /\ rest \in Seq(Byte)
        /\ Len(rest) = IF length + 1 <= level THEN level - (length + 1) + 1
                                             ELSE 0
        /\ \A k \in 1 .. level - (length + 1) + 1 :
             rest[k] = content[length + 1 + k - 1]
    BY <2>1, SubSeqProperties
  <2> HIDE DEF rest
  <2>3. Len(rest) = level - length
    BY <1>1, <2>2
  <2>4. ASSUME NEW k \in 1 .. level - length
        PROVE  rest[k] = content[length + k]
    <3>1. /\ k \in 1 .. level - (length + 1) + 1
          /\ length + 1 + k - 1 = length + k
      BY <1>1
    <3>2. rest[k] = content[length + 1 + k - 1]
      BY <2>2, <3>1
    <3> QED BY <3>1, <3>2
  <2> QED BY <2>2, <2>3, <2>4
<1>7. /\ Content(after) \in Seq(Byte) /\ Len(Content(after)) = level - length
      /\ \A k \in 1 .. level - length :
           Content(after)[k] = b.bytes[Slot(b, length + k)]
  BY <1>3, ContentIs
<1>8. Content(after) = rest
  <2>1. ASSUME NEW k \in 1 .. level - length
        PROVE  Content(after)[k] = rest[k]
    <3>1. length + k \in 1 .. level
      BY <1>1
    <3> QED BY <1>1, <1>6, <1>7, <3>1
  <2> HIDE DEF rest
  <2> QED BY <1>6, <1>7, <2>1, SeqEqual
<1> QED BY <1>1, <1>5, <1>8 DEF content, level, first, after

LEMMA EmptyContent ==
  ASSUME NEW b \in ByteBuffer, Level(b) = 0
  PROVE  Content(b) = <<>>
<1>1. Content(b) \in Seq(Byte) /\ Len(Content(b)) = 0
  BY ContentIs
<1> QED BY <1>1, EmptySeq

-----------------------------------------------------------------------------
(* The engine's queue: where each packet has to begin, and the bytes that  *)
(* come after the last one.                                                *)
StartOf(queue, output, p) ==
  IF p = 1 THEN output ELSE Advance(queue[p - 1][Len(queue[p - 1])], 1)

EndOf(queue, output) == StartOf(queue, output, Len(queue) + 1)

InOrder(queue, output) ==
  \A p \in 1 .. Len(queue) :
    /\ Len(queue[p]) \in 1 .. PacketSize
    /\ queue[p] = Numbered(StartOf(queue, output, p), Len(queue[p]))

LEMMA NumberedBytes ==
  ASSUME NEW first \in Byte, NEW length \in 0 .. Modulus
  PROVE  /\ Numbered(first, length) \in Seq(Byte)
         /\ Len(Numbered(first, length)) = length
         /\ \A k \in 1 .. length :
              Numbered(first, length)[k] = Advance(first, k - 1)
<1>1. ASSUME NEW k \in 1 .. length
      PROVE  Advance(first, k - 1) \in Byte
  <2>1. k - 1 \in 0 .. Modulus
    BY Sizes
  <2> QED BY <2>1, AdvanceWraps
<1>2. Numbered(first, length) \in [1 .. length -> Byte]
  BY <1>1 DEF Numbered
<1>3. length \in Nat
  BY Sizes
<1> QED BY <1>2, <1>3 DEF Numbered

LEMMA StartIsByte ==
  ASSUME NEW queue \in Seq(Seq(Byte)), NEW output \in Byte,
         InOrder(queue, output), NEW p \in 1 .. Len(queue) + 1
  PROVE  StartOf(queue, output, p) \in Byte
<1>1. CASE p = 1
  BY <1>1 DEF StartOf
<1>2. CASE p # 1
  <2>1. /\ Len(queue) \in Nat /\ p - 1 \in 1 .. Len(queue)
        /\ queue[p - 1] \in Seq(Byte) /\ 1 \in 0 .. Modulus
    BY <1>2, Sizes
  <2>2. Len(queue[p - 1]) \in 1 .. Len(queue[p - 1])
    BY <2>1, Sizes DEF InOrder
  <2>3. queue[p - 1][Len(queue[p - 1])] \in Byte
    BY <2>1, <2>2
  <2> QED BY <1>2, <2>1, <2>3, AdvanceWraps DEF StartOf
<1> QED BY <1>1, <1>2

(* A packet begins as many bytes after the one before as that has.         *)
LEMMA NextStart ==
  ASSUME NEW queue \in Seq(Seq(Byte)), NEW output \in Byte,
         InOrder(queue, output), NEW p \in 1 .. Len(queue)
  PROVE  StartOf(queue, output, p + 1)
           = Advance(StartOf(queue, output, p), Len(queue[p]))
<1> DEFINE start == StartOf(queue, output, p)
           length == Len(queue[p])
<1>1. /\ p + 1 # 1 /\ (p + 1) - 1 = p
      /\ length \in 1 .. PacketSize /\ queue[p] = Numbered(start, length)
  BY DEF InOrder
<1>2. start \in Byte
  <2>1. p \in 1 .. Len(queue) + 1
    OBVIOUS
  <2> QED BY <2>1, StartIsByte
<1> HIDE DEF start, length
<1>3. /\ length \in 0 .. Modulus /\ length \in 1 .. length
      /\ length - 1 \in Nat /\ 1 \in Nat /\ (length - 1) + 1 = length
      /\ (length - 1) + 1 <= Modulus
  BY <1>1, Sizes
<1>4. queue[p][length] = Advance(start, length - 1)
  BY <1>1, <1>2, <1>3, NumberedBytes
<1>5. Advance(Advance(start, length - 1), 1) = Advance(start, length)
  BY <1>2, <1>3, AdvanceTwice
<1>6. StartOf(queue, output, p + 1) = Advance(queue[p][length], 1)
  BY <1>1 DEF StartOf, length
<1> QED BY <1>4, <1>5, <1>6 DEF start, length

LEMMA EndIsByte ==
  ASSUME NEW queue \in Seq(Seq(Byte)), NEW output \in Byte,
         InOrder(queue, output)
  PROVE  EndOf(queue, output) \in Byte
<1>1. Len(queue) + 1 \in 1 .. Len(queue) + 1
  OBVIOUS
<1> QED BY <1>1, StartIsByte DEF EndOf

(* The next packet is appended, ...                                        *)
LEMMA AppendInOrder ==
  ASSUME NEW queue \in Seq(Seq(Byte)), NEW output \in Byte,
         InOrder(queue, output), NEW data \in Seq(Byte),
         Len(data) \in 1 .. PacketSize,
         data = Numbered(EndOf(queue, output), Len(data))
  PROVE  /\ InOrder(Append(queue, data), output)
         /\ EndOf(Append(queue, data), output)
              = Advance(EndOf(queue, output), Len(data))
<1> DEFINE more == Append(queue, data)
           last == Len(queue) + 1
<1>1. /\ more \in Seq(Seq(Byte)) /\ Len(more) = last /\ Len(queue) \in Nat
      /\ \A p \in 1 .. Len(queue) : more[p] = queue[p]
      /\ more[last] = data
  OBVIOUS
<1> HIDE DEF more
<1>2. ASSUME NEW p \in 1 .. last
      PROVE  StartOf(more, output, p) = StartOf(queue, output, p)
  <2>1. p # 1 => p - 1 \in 1 .. Len(queue)
    BY <1>1
  <2>2. p # 1 => more[p - 1] = queue[p - 1]
    BY <1>1, <2>1
  <2> QED BY <2>2 DEF StartOf
<1>3. InOrder(more, output)
  <2> SUFFICES ASSUME NEW p \in 1 .. last
               PROVE  /\ Len(more[p]) \in 1 .. PacketSize
                      /\ more[p] = Numbered(StartOf(more, output, p), Len(more[p]))
    BY <1>1 DEF InOrder
  <2>1. CASE p \in 1 .. Len(queue)
    BY <1>1, <1>2, <2>1 DEF InOrder
  <2>2. CASE p = last
    BY <1>1, <1>2, <2>2 DEF EndOf
  <2> QED BY <1>1, <2>1, <2>2
<1>4. EndOf(more, output) = Advance(StartOf(more, output, last), Len(data))
  <2>1. last \in 1 .. Len(more)
    BY <1>1
  <2>2. StartOf(more, output, last + 1)
          = Advance(StartOf(more, output, last), Len(more[last]))
    <3> HIDE DEF last
    <3> QED BY <1>1, <1>3, <2>1, NextStart
  <2> QED BY <1>1, <2>2 DEF EndOf
<1>5. StartOf(more, output, last) = EndOf(queue, output)
  <2>1. last \in 1 .. last
    BY <1>1
  <2> QED BY <1>2, <2>1 DEF EndOf
<1> QED BY <1>3, <1>4, <1>5 DEF more

(* ... and the first is taken off.                                         *)
LEMMA TailInOrder ==
  ASSUME NEW queue \in Seq(Seq(Byte)), NEW output \in Byte,
         InOrder(queue, output), queue # <<>>
  PROVE  LET next == Advance(output, Len(Head(queue))) IN
         /\ next \in Byte /\ Tail(queue) \in Seq(Seq(Byte))
         /\ InOrder(Tail(queue), next)
         /\ EndOf(Tail(queue), next) = EndOf(queue, output)
<1> DEFINE next == Advance(output, Len(Head(queue)))
           rest == Tail(queue)
           length == Len(queue)
<1>1. /\ length \in Nat /\ length >= 1 /\ Head(queue) = queue[1]
      /\ rest \in Seq(Seq(Byte)) /\ Len(rest) = length - 1
      /\ \A p \in 1 .. Len(rest) : rest[p] = queue[p + 1]
      /\ 1 \in 1 .. length /\ 2 \in 1 .. length + 1 /\ 1 + 1 = 2
  OBVIOUS
<1>2. StartOf(queue, output, 2) = next /\ next \in Byte
  <2>1. StartOf(queue, output, 1 + 1)
          = Advance(StartOf(queue, output, 1), Len(queue[1]))
    BY <1>1, NextStart
  <2>2. StartOf(queue, output, 1) = output
    BY DEF StartOf
  <2>3. StartOf(queue, output, 2) \in Byte
    BY <1>1, StartIsByte
  <2> QED BY <1>1, <2>1, <2>2, <2>3
<1> HIDE DEF next, rest, length
<1>3. ASSUME NEW p \in 1 .. length
      PROVE  StartOf(rest, next, p) = StartOf(queue, output, p + 1)
  <2>1. CASE p = 1
    BY <1>1, <1>2, <2>1 DEF StartOf
  <2>2. CASE p # 1
    <3>1. /\ p - 1 \in 1 .. Len(rest) /\ (p - 1) + 1 = p /\ (p + 1) - 1 = p
          /\ p + 1 # 1
      BY <1>1, <2>2
    <3>2. rest[p - 1] = queue[p]
      BY <1>1, <3>1
    <3> QED BY <2>2, <3>1, <3>2 DEF StartOf
  <2> QED BY <2>1, <2>2
<1>4. InOrder(rest, next)
  <2> SUFFICES ASSUME NEW p \in 1 .. Len(rest)
               PROVE  /\ Len(rest[p]) \in 1 .. PacketSize
                      /\ rest[p] = Numbered(StartOf(rest, next, p), Len(rest[p]))
    BY DEF InOrder
  <2>1. p \in 1 .. length /\ p + 1 \in 1 .. length /\ rest[p] = queue[p + 1]
    BY <1>1
  <2>2. /\ Len(queue[p + 1]) \in 1 .. PacketSize
        /\ queue[p + 1] = Numbered(StartOf(queue, output, p + 1),
                                   Len(queue[p + 1]))
    BY <2>1 DEF InOrder, length
  <2> QED BY <1>3, <2>1, <2>2
<1>5. EndOf(rest, next) = EndOf(queue, output)
  <2>1. Len(rest) + 1 = length /\ length \in 1 .. length
    BY <1>1
  <2> QED BY <1>3, <2>1 DEF EndOf, length
<1> QED BY <1>1, <1>2, <1>4, <1>5 DEF next, rest

-----------------------------------------------------------------------------
(* The first byte of the ring, wherever it lies, follows the last packet.  *)
Holds(b, first) ==
  \A k \in 1 .. Level(b) : b.bytes[Slot(b, k)] = Advance(first, k - 1)

Data ==
  /\ buffer \in ByteBuffer /\ packets \in Seq(Seq(Byte))
  /\ nextByte \in Byte /\ nextOutput \in Byte
  /\ InAgreement(buffer)
  /\ InOrder(packets, nextOutput)
  /\ Holds(buffer, EndOf(packets, nextOutput))
  /\ nextByte = Advance(EndOf(packets, nextOutput), Level(buffer))

(* The types of everything else.                                           *)
Flags ==
  /\ chain \in BOOLEAN /\ device \in {"closed", "open", "lost"}
  /\ paused \in BOOLEAN /\ closeGracefully \in BOOLEAN
  /\ flushCounter \in 0 .. PollLimit
  /\ place \in {"idle", "write", "poll", "close"}
  /\ flushing \in BOOLEAN /\ sleeps \in 0 .. SleepLimit + 1
  /\ polling \in BOOLEAN
  /\ pausedCount \in 0 .. PauseLimit /\ monitor \in {"sampling", "closing"}

Calls ==
  /\ Flags /\ Len(packets) <= QueueLength
  /\ place = "close" => ~chain
  /\ ~chain => Level(buffer) = 0
  /\ GracefulMeansDrained

IInv == Data /\ Calls

LEMMA DataShape ==
  ASSUME Data
  PROVE  /\ EndOf(packets, nextOutput) \in Byte
         /\ Level(buffer) \in 0 .. Capacity /\ Level(buffer) \in 0 .. Modulus
         /\ Modulus - Level(buffer) \in 0 .. Modulus
         /\ EndOf(packets, nextOutput) = Advance(nextByte, Modulus - Level(buffer))
<1>1. EndOf(packets, nextOutput) \in Byte
  BY EndIsByte DEF Data
<1>2. /\ Level(buffer) \in 0 .. Capacity /\ Level(buffer) \in 0 .. Modulus
      /\ Modulus - Level(buffer) \in 0 .. Modulus
  <2>1. Level(buffer) \in 0 .. Capacity
    BY RingShape DEF Data
  <2> QED BY <2>1, Sizes
<1>3. EndOf(packets, nextOutput) = Advance(nextByte, Modulus - Level(buffer))
  BY <1>1, <1>2, AdvanceBack DEF Data
<1> QED BY <1>1, <1>2, <1>3

LEMMA EmptyQueue ==
  ASSUME NEW output \in Byte
  PROVE  /\ <<>> \in Seq(Seq(Byte)) /\ InOrder(<<>>, output)
         /\ EndOf(<<>>, output) = output
BY DEF InOrder, EndOf, StartOf

(* With an empty ring only the next number counts.                         *)
LEMMA EmptyRingHolds ==
  ASSUME NEW b \in ByteBuffer, Level(b) = 0, NEW first \in Byte
  PROVE  Holds(b, first) /\ Advance(first, Level(b)) = first
<1>1. 0 \in 0 .. Modulus
  BY Sizes
<1> QED BY <1>1, AdvanceBack DEF Holds

LEMMA UnheardKeepsData ==
  ASSUME Data, UNCHANGED audio
  PROVE  Data'
BY DEF Data, audio

LEMMA ResetKeepsData ==
  ASSUME Data, ResetChain
  PROVE  Data' /\ Level(buffer') = 0 /\ packets' = <<>>
<1>1. /\ buffer' = ResetByteBuffer(buffer) /\ packets' = <<>>
      /\ nextByte' = 0 /\ nextOutput' = 0 /\ buffer \in ByteBuffer /\ 0 \in Byte
  BY Sizes DEF ResetChain, Data
<1>2. buffer' \in ByteBuffer /\ Level(buffer') = 0 /\ InAgreement(buffer')
  BY <1>1, EmptyRing
<1>3. /\ packets' \in Seq(Seq(Byte)) /\ InOrder(packets', nextOutput')
      /\ EndOf(packets', nextOutput') = 0
  BY <1>1, EmptyQueue
<1>4. Holds(buffer', 0) /\ Advance(0, Level(buffer')) = 0
  BY <1>1, <1>2, EmptyRingHolds
<1> QED BY <1>1, <1>2, <1>3, <1>4 DEF Data

(* Reinitialising the engine drops the packets; what the ring holds comes  *)
(* next.                                                                   *)
LEMMA OpenDevicesGoesOn ==
  ASSUME Data, OpenDevices
  PROVE  /\ packets' \in Seq(Seq(Byte)) /\ nextOutput' \in Byte
         /\ InOrder(packets', nextOutput')
         /\ EndOf(packets', nextOutput') = EndOf(packets, nextOutput)
         /\ packets' \in {packets, <<>>}
<1>1. CASE UNCHANGED <<packets, nextOutput>>
  BY <1>1 DEF Data
<1>2. CASE /\ packets' = <<>>
           /\ nextOutput' = Advance(nextByte, Modulus - Level(buffer))
  BY <1>2, DataShape, EmptyQueue
<1> QED BY <1>1, <1>2 DEF OpenDevices

LEMMA OpenDevicesKeepsData ==
  ASSUME Data, OpenDevices, UNCHANGED <<buffer, nextByte>>
  PROVE  Data'
BY OpenDevicesGoesOn DEF Data

(* A chain that is new holds nothing.                                      *)
LEMMA NewChainKeepsData ==
  ASSUME Data, buffer' = NewByteBuffer,
         packets' \in Seq(Seq(Byte)), nextOutput' \in Byte,
         InOrder(packets', nextOutput'),
         EndOf(packets', nextOutput') = EndOf(packets, nextOutput),
         nextByte' = EndOf(packets, nextOutput)
  PROVE  Data' /\ Level(buffer') = 0
<1>1. buffer' \in ByteBuffer /\ Level(buffer') = 0 /\ InAgreement(buffer')
  BY EmptyRing DEF Data
<1>2. EndOf(packets, nextOutput) \in Byte
  BY DataShape
<1>3. /\ Holds(buffer', EndOf(packets, nextOutput))
      /\ Advance(EndOf(packets, nextOutput), Level(buffer'))
           = EndOf(packets, nextOutput)
  BY <1>1, <1>2, EmptyRingHolds
<1> QED BY <1>1, <1>2, <1>3 DEF Data

-----------------------------------------------------------------------------
LEMMA WriteKeepsData ==
  ASSUME Data, NEW length \in 1 .. Capacity, Write(length)
  PROVE  Data'
<1> DEFINE data == Numbered(nextByte, length)
           first == EndOf(packets, nextOutput)
           level == Level(buffer)
<1>1. /\ length <= buffer.availability
      /\ buffer' = Put(buffer, data) /\ nextByte' = Advance(nextByte, length)
      /\ UNCHANGED <<packets, nextOutput>>
  BY DEF Write
<1>2. /\ first \in Byte /\ level \in 0 .. Capacity
      /\ nextByte = Advance(first, level) /\ nextByte \in Byte
      /\ buffer \in ByteBuffer /\ InAgreement(buffer)
      /\ Holds(buffer, first)
  BY DataShape DEF Data
<1>3. /\ length \in Nat /\ level \in Nat /\ level + length <= Capacity
      /\ length \in 0 .. Modulus /\ length \in 1 .. buffer.availability
      /\ level + length <= Modulus
  <2>1. buffer.availability \in 0 .. Capacity
    BY <1>2, RingShape
  <2> QED BY <1>1, <2>1, Sizes DEF Level
<1>4. /\ data \in Seq(Byte) /\ Len(data) = length
      /\ \A k \in 1 .. length : data[k] = Advance(nextByte, k - 1)
  BY <1>2, <1>3, NumberedBytes
<1> HIDE DEF data
<1>5. /\ buffer' \in ByteBuffer /\ InAgreement(buffer')
      /\ buffer'.readIndex = buffer.readIndex
      /\ Level(buffer') = level + length
      /\ \A k \in 1 .. level :
           buffer'.bytes[Slot(buffer, k)] = buffer.bytes[Slot(buffer, k)]
      /\ \A k \in 1 .. length :
           buffer'.bytes[Slot(buffer, level + k)] = data[k]
  BY <1>1, <1>2, <1>3, <1>4, PutAppends
<1>6. \A k \in 1 .. Capacity : Slot(buffer', k) = Slot(buffer, k)
  BY <1>5 DEF Slot
<1> HIDE DEF first, level
<1>7. Holds(buffer', first)
  <2> SUFFICES ASSUME NEW k \in 1 .. level + length
               PROVE  buffer'.bytes[Slot(buffer', k)] = Advance(first, k - 1)
    BY <1>5 DEF Holds
  <2>1. k \in 1 .. Capacity
    BY <1>2, <1>3, Sizes
  <2>2. CASE k \in 1 .. level
    BY <1>2, <1>5, <1>6, <2>1, <2>2 DEF Holds, level
  <2>3. CASE k \notin 1 .. level
    <3> DEFINE i == k - level
    <3>1. /\ i \in 1 .. length /\ level + i = k /\ i - 1 \in Nat
          /\ level + (i - 1) = k - 1 /\ level + (i - 1) <= Modulus
      BY <1>2, <1>3, <2>1, <2>3, Sizes
    <3> HIDE DEF i
    <3>2. buffer'.bytes[Slot(buffer, level + i)] = data[i]
      BY <1>5, <3>1
    <3>3. data[i] = Advance(nextByte, i - 1)
      BY <1>4, <3>1
    <3>4. Advance(Advance(first, level), i - 1) = Advance(first, k - 1)
      BY <1>2, <1>3, <3>1, AdvanceTwice
    <3> QED BY <1>2, <1>6, <2>1, <3>1, <3>2, <3>3, <3>4
  <2> QED BY <2>2, <2>3
<1>8. nextByte' = Advance(first, Level(buffer'))
  BY <1>1, <1>2, <1>3, <1>5, AdvanceTwice
<1>9. nextByte' \in Byte
  BY <1>1, <1>2, <1>3, AdvanceWraps
<1> QED BY <1>1, <1>5, <1>7, <1>8, <1>9 DEF Data, first

LEMMA PassOnKeepsData ==
  ASSUME Data, PassOn
  PROVE  Data' /\ Level(buffer) > 0 /\ Len(packets) < QueueLength
           /\ Len(packets') = Len(packets) + 1
<1> DEFINE length == IF Level(buffer) < SinkCanWrite THEN Level(buffer)
                                                     ELSE SinkCanWrite
           first == EndOf(packets, nextOutput)
           data == FirstBytes(buffer, length)
           level == Level(buffer)
<1>1. /\ level > 0 /\ SinkCanWrite > 0
      /\ packets' = Append(packets, data) /\ buffer' = Drop(buffer, length)
      /\ UNCHANGED <<nextByte, nextOutput>>
  BY DEF PassOn
<1>2. Len(packets) < QueueLength /\ SinkCanWrite = PacketSize
  BY <1>1 DEF SinkCanWrite
<1>3. /\ first \in Byte /\ level \in 0 .. Capacity
      /\ nextByte = Advance(first, level)
      /\ buffer \in ByteBuffer /\ InAgreement(buffer) /\ Holds(buffer, first)
      /\ packets \in Seq(Seq(Byte)) /\ nextOutput \in Byte
      /\ InOrder(packets, nextOutput)
  BY DataShape DEF Data
<1>4. length \in 1 .. level /\ length \in 1 .. PacketSize
  BY <1>1, <1>2, <1>3, Sizes
<1> HIDE DEF length
<1>5. /\ data \in Seq(Byte) /\ Len(data) = length
      /\ \A k \in 1 .. length : data[k] = buffer.bytes[Slot(buffer, k)]
  BY <1>3, <1>4, FirstBytesAreFirst
<1>6. /\ buffer' \in ByteBuffer /\ InAgreement(buffer')
      /\ Level(buffer') = level - length
      /\ \A k \in 1 .. Level(buffer') :
           buffer'.bytes[Slot(buffer', k)]
             = buffer.bytes[Slot(buffer, length + k)]
  BY <1>1, <1>3, <1>4, DropRemoves
<1> HIDE DEF data, first, level
<1>7. data = Numbered(first, length)
  <2>1. /\ length \in 0 .. Modulus /\ length \in Nat
        /\ \A k \in 1 .. length : k \in 1 .. level
    BY <1>3, <1>4, Sizes
  <2>2. \A k \in 1 .. length : data[k] = Advance(first, k - 1)
    BY <1>3, <1>5, <2>1 DEF Holds, level
  <2>3. data = [k \in 1 .. length |-> data[k]]
    BY <1>5
  <2> QED BY <2>2, <2>3 DEF Numbered
<1>8. /\ InOrder(packets', nextOutput) /\ packets' \in Seq(Seq(Byte))
      /\ EndOf(packets', nextOutput) = Advance(first, length)
      /\ Len(packets') = Len(packets) + 1
  <2>1. /\ InOrder(packets', nextOutput)
        /\ EndOf(packets', nextOutput) = Advance(first, length)
    BY <1>1, <1>3, <1>4, <1>5, <1>7, AppendInOrder DEF first
  <2> QED BY <1>1, <1>3, <1>5, <2>1
<1>9. Holds(buffer', Advance(first, length))
  <2> SUFFICES ASSUME NEW k \in 1 .. Level(buffer')
               PROVE  buffer'.bytes[Slot(buffer', k)]
                        = Advance(Advance(first, length), k - 1)
    BY DEF Holds
  <2>1. /\ length + k \in 1 .. level /\ length \in Nat /\ k - 1 \in Nat
        /\ (length + k) - 1 = length + (k - 1) /\ length + (k - 1) <= Modulus
    BY <1>3, <1>4, <1>6, Sizes
  <2>2. buffer.bytes[Slot(buffer, length + k)] = Advance(first, (length + k) - 1)
    BY <1>3, <2>1 DEF Holds, level
  <2>3. Advance(Advance(first, length), k - 1) = Advance(first, length + (k - 1))
    BY <1>3, <2>1, AdvanceTwice
  <2> QED BY <1>6, <2>1, <2>2, <2>3
<1>10. nextByte' = Advance(Advance(first, length), Level(buffer'))
  <2>1. /\ length \in Nat /\ level - length \in Nat
        /\ length + (level - length) = level /\ level <= Modulus
    BY <1>3, <1>4, Sizes
  <2>2. Advance(Advance(first, length), level - length) = Advance(first, level)
    BY <1>3, <2>1, AdvanceTwice
  <2> QED BY <1>1, <1>3, <1>6, <2>2
<1>11. nextByte' \in Byte /\ nextOutput' \in Byte
  BY <1>1 DEF Data
<1> QED BY <1>1, <1>2, <1>6, <1>8, <1>9, <1>10, <1>11 DEF Data, level

LEMMA SendPacketKeepsData ==
  ASSUME Data, SendPacket
  PROVE  Data' /\ Len(packets') = Len(packets) - 1
<1>1. /\ packets # <<>> /\ packets' = Tail(packets)
      /\ nextOutput' = Advance(nextOutput, Len(Head(packets)))
      /\ UNCHANGED <<buffer, nextByte>>
  BY DEF SendPacket
<1>2. /\ nextOutput' \in Byte /\ packets' \in Seq(Seq(Byte))
      /\ InOrder(packets', nextOutput')
      /\ EndOf(packets', nextOutput') = EndOf(packets, nextOutput)
  BY <1>1, TailInOrder DEF Data
<1>3. Len(packets') = Len(packets) - 1
  BY <1>1 DEF Data
<1> QED BY <1>1, <1>2, <1>3 DEF Data

-----------------------------------------------------------------------------
LEMMA Zeros ==
  0 \in 0 .. SleepLimit + 1 /\ 0 \in 0 .. PollLimit /\ 0 \in 0 .. PauseLimit
BY Sizes

(* Steps that leave the audio alone.                                       *)
LEMMA WaitForSinkKeepsIInv ==
  ASSUME IInv, WaitForSink
  PROVE  IInv'
<1>1. Data /\ Calls /\ UNCHANGED audio
  BY DEF IInv, WaitForSink
<1>2. Data'
  BY <1>1, UnheardKeepsData
<1>3. Flags'
  BY <1>1, Sizes DEF WaitForSink, Calls, Flags, flags, call, watch
<1>4. Calls'
  BY <1>1, <1>3 DEF WaitForSink, Calls, GracefulMeansDrained, audio, flags, call
<1> QED BY <1>2, <1>4 DEF IInv

LEMMA WriteReturnsKeepsIInv ==
  ASSUME IInv, WriteReturns
  PROVE  IInv'
<1>1. Data /\ Calls /\ UNCHANGED audio
  BY DEF IInv, WriteReturns
<1>2. Data'
  BY <1>1, UnheardKeepsData
<1>3. Flags'
  BY <1>1, Zeros DEF WriteReturns, Calls, Flags, flags, call, watch, Drained, Prune
<1>4. Calls'
  BY <1>1, <1>3 DEF WriteReturns, Calls, GracefulMeansDrained, audio, flags, call, Drained, Prune
<1> QED BY <1>2, <1>4 DEF IInv

LEMMA PollReturnsKeepsIInv ==
  ASSUME IInv, PollReturns
  PROVE  IInv'
<1>1. Data /\ Calls /\ UNCHANGED audio /\ Level(buffer') = Level(buffer)
  BY DEF IInv, PollReturns, audio
<1>2. Data'
  BY <1>1, UnheardKeepsData
<1>3. /\ flushCounter' \in 0 .. PollLimit
      /\ \/ closeGracefully' = closeGracefully
         \/ closeGracefully' \in BOOLEAN /\ Level(buffer) = 0
  <2>1. CASE Level(buffer) > 0
    <3>1. /\ flushCounter' = 0 \/ (/\ flushCounter' = flushCounter + 1
                                   /\ ~(flushCounter + 1 > PollLimit))
          /\ closeGracefully' = closeGracefully
      BY <2>1 DEF PollReturns
    <3>2. flushCounter \in 0 .. PollLimit
      BY <1>1 DEF Calls, Flags
    <3>3. flushCounter' \in 0 .. PollLimit
      BY <3>1, <3>2, Sizes
    <3> QED BY <3>1, <3>3
  <2>2. CASE ~(Level(buffer) > 0)
    <3>1. /\ closeGracefully' = (closeGracefully \/ ~paused)
          /\ flushCounter' = flushCounter
      BY <2>2 DEF PollReturns
    <3>2. Level(buffer) = 0
      <4>1. Level(buffer) \in 0 .. Capacity
        BY <1>1, DataShape
      <4> QED BY <2>2, <4>1, Sizes
    <3> QED BY <1>1, <3>1, <3>2, Zenon DEF Calls, Flags
  <2> QED BY <2>1, <2>2
<1>4. /\ UNCHANGED <<chain, packets, paused, polling, pausedCount, monitor>>
      /\ place' \in {"write", "idle"} /\ flushing' \in BOOLEAN /\ sleeps' = 0
      /\ device' \in {device, "closed"}
  BY DEF PollReturns, Drained, Prune, Drain, audio, watch
<1>5. closeGracefully' \in BOOLEAN
  BY <1>1, <1>3, Zenon DEF Calls, Flags
<1>6. Flags'
  BY <1>1, <1>3, <1>4, <1>5, Zeros DEF Calls, Flags
<1>7. ~chain => Level(buffer) = 0
  BY <1>1 DEF PollReturns, Calls
<1>8. Calls'
  BY <1>1, <1>3, <1>4, <1>6, <1>7 DEF Calls, GracefulMeansDrained
<1> QED BY <1>2, <1>8 DEF IInv

LEMMA CloseWaitsKeepsIInv ==
  ASSUME IInv, CloseWaits
  PROVE  IInv'
<1>1. Data /\ Calls /\ UNCHANGED audio
  BY DEF IInv, CloseWaits
<1>2. Data'
  BY <1>1, UnheardKeepsData
<1>3. Flags'
  BY <1>1, Zeros DEF CloseWaits, Calls, Flags, flags, call, watch, Drained, Prune, Drain
<1>4. Calls'
  BY <1>1, <1>3 DEF CloseWaits, Calls, GracefulMeansDrained, audio, flags, call, Drained, Prune, Drain
<1> QED BY <1>2, <1>4 DEF IInv

LEMMA CanWriteKeepsIInv ==
  ASSUME IInv, CanWrite
  PROVE  IInv'
<1>1. Data /\ Calls /\ UNCHANGED audio
  BY DEF IInv, CanWrite
<1>2. Data'
  BY <1>1, UnheardKeepsData
<1>3. Flags'
  BY <1>1, Zeros DEF CanWrite, Calls, Flags, flags, call, watch, Drain
<1>4. Calls'
  BY <1>1, <1>3 DEF CanWrite, Calls, GracefulMeansDrained, audio, flags, call, Drain
<1> QED BY <1>2, <1>4 DEF IInv

LEMMA WriteNothingKeepsIInv ==
  ASSUME IInv, WriteNothing
  PROVE  IInv'
<1>1. Data /\ Calls /\ UNCHANGED audio
  BY DEF IInv, WriteNothing
<1>2. Data'
  BY <1>1, UnheardKeepsData
<1>3. Flags'
  BY <1>1, Zeros DEF WriteNothing, Calls, Flags, flags, call, watch, Drain
<1>4. Calls'
  BY <1>1, <1>3 DEF WriteNothing, Calls, GracefulMeansDrained, audio, flags, call, Drain
<1> QED BY <1>2, <1>4 DEF IInv

LEMMA StopWritingKeepsIInv ==
  ASSUME IInv, StopWriting
  PROVE  IInv'
<1>1. Data /\ Calls /\ UNCHANGED audio
  BY DEF IInv, StopWriting
<1>2. Data'
  BY <1>1, UnheardKeepsData
<1>3. Flags'
  BY <1>1, Sizes DEF StopWriting, Calls, Flags, flags, call, watch
<1>4. Calls'
  BY <1>1, <1>3 DEF StopWriting, Calls, GracefulMeansDrained, audio, flags, call
<1> QED BY <1>2, <1>4 DEF IInv

LEMMA PollKeepsIInv ==
  ASSUME IInv, Poll
  PROVE  IInv'
<1>1. Data /\ Calls /\ UNCHANGED audio
  BY DEF IInv, Poll
<1>2. Data'
  BY <1>1, UnheardKeepsData
<1>3. Flags'
  BY <1>1, Zeros DEF Poll, Calls, Flags, flags, call, watch, Drain
<1>4. Calls'
  BY <1>1, <1>3 DEF Poll, Calls, GracefulMeansDrained, audio, flags, call, Drain
<1> QED BY <1>2, <1>4 DEF IInv

LEMMA ConnectionLostKeepsIInv ==
  ASSUME IInv, ConnectionLost
  PROVE  IInv'
<1>1. Data /\ Calls /\ UNCHANGED audio
  BY DEF IInv, ConnectionLost
<1>2. Data'
  BY <1>1, UnheardKeepsData
<1>3. Flags'
  BY <1>1, Sizes DEF ConnectionLost, Calls, Flags, flags, call, watch
<1>4. Calls'
  BY <1>1, <1>3 DEF ConnectionLost, Calls, GracefulMeansDrained, audio, flags, call
<1> QED BY <1>2, <1>4 DEF IInv

LEMMA DeactivateKeepsIInv ==
  ASSUME IInv, Deactivate
  PROVE  IInv'
<1>1. Data /\ Calls /\ UNCHANGED audio
  BY DEF IInv, Deactivate
<1>2. Data'
  BY <1>1, UnheardKeepsData
<1>3. Flags'
  BY <1>1, Sizes DEF Deactivate, Calls, Flags, flags, call, watch
<1>4. Calls'
  BY <1>1, <1>3 DEF Deactivate, Calls, GracefulMeansDrained, audio, flags, call
<1> QED BY <1>2, <1>4 DEF IInv

LEMMA SampleKeepsIInv ==
  ASSUME IInv, Sample
  PROVE  IInv'
<1>1. Data /\ Calls /\ UNCHANGED audio
  BY DEF IInv, Sample
<1>2. Data'
  BY <1>1, UnheardKeepsData
<1>3. Flags'
  BY <1>1, Sizes DEF Sample, Calls, Flags, flags, call, watch
<1>4. Calls'
  BY <1>1, <1>3 DEF Sample, Calls, GracefulMeansDrained, audio, flags, call
<1> QED BY <1>2, <1>4 DEF IInv

LEMMA CloseDevicesKeepsIInv ==
  ASSUME IInv, CloseDevices
  PROVE  IInv'
<1>1. Data /\ Calls /\ UNCHANGED audio
  BY DEF IInv, CloseDevices
<1>2. Data'
  BY <1>1, UnheardKeepsData
<1>3. Flags'
  BY <1>1, Sizes DEF CloseDevices, Calls, Flags, flags, call, watch
<1>4. Calls'
  BY <1>1, <1>3 DEF CloseDevices, Calls, GracefulMeansDrained, audio, flags, call
<1> QED BY <1>2, <1>4 DEF IInv

-----------------------------------------------------------------------------
(* Steps that bytes come and go in.                                        *)
LEMMA PassOnKeepsIInv ==
  ASSUME IInv, PassOn
  PROVE  IInv'
<1>1. Data /\ Calls
  BY DEF IInv
<1>2. /\ Data' /\ Level(buffer) > 0 /\ Len(packets) < QueueLength
      /\ Len(packets') = Len(packets) + 1 /\ Len(packets) \in Nat
  BY <1>1, PassOnKeepsData DEF Data
<1>3. Len(packets') <= QueueLength
  BY <1>2, Sizes
<1>4. Flags'
  BY <1>1, Sizes DEF PassOn, Calls, Flags, flags, watch
<1>5. Level(buffer) # 0
  BY <1>2
<1>6. Calls'
  BY <1>1, <1>3, <1>4, <1>5 DEF PassOn, Calls, GracefulMeansDrained, flags
<1> QED BY <1>2, <1>6 DEF IInv

LEMMA WriteKeepsIInv ==
  ASSUME IInv, NEW length \in 1 .. Capacity, Write(length)
  PROVE  IInv'
<1>1. Data /\ Calls
  BY DEF IInv
<1>2. Data'
  BY <1>1, WriteKeepsData
<1>3. Flags'
  BY <1>1, Zeros DEF Write, Calls, Flags, Drain, watch
<1>4. Calls'
  BY <1>1, <1>3 DEF Write, Drain, Calls, GracefulMeansDrained
<1> QED BY <1>2, <1>4 DEF IInv

LEMMA SendPacketKeepsIInv ==
  ASSUME IInv, SendPacket
  PROVE  IInv'
<1>1. Data /\ Calls
  BY DEF IInv
<1>2. /\ Data' /\ Len(packets') = Len(packets) - 1 /\ Len(packets) \in Nat
  BY <1>1, SendPacketKeepsData DEF Data
<1>3. Len(packets') <= QueueLength
  BY <1>1, <1>2, Sizes DEF Calls
<1>4. Flags'
  BY <1>1 DEF SendPacket, Calls, Flags, flags, call, watch
<1>5. Calls'
  BY <1>1, <1>3, <1>4 DEF SendPacket, Calls, GracefulMeansDrained, flags, call
<1> QED BY <1>2, <1>5 DEF IInv

LEMMA EmptyQueueFits == Len(<<>>) <= QueueLength
BY Sizes

LEMMA ResetKeepsIInv ==
  ASSUME IInv, Reset
  PROVE  IInv'
<1>1. Data /\ Calls /\ ResetChain
  BY DEF IInv, Reset
<1>2. Data' /\ Level(buffer') = 0 /\ packets' = <<>>
  BY <1>1, ResetKeepsData
<1>3. Flags'
  BY <1>1 DEF Reset, ResetChain, Prune, Calls, Flags, flags, call, watch
<1>4. Calls'
  BY <1>1, <1>2, <1>3, EmptyQueueFits
     DEF Reset, Calls, GracefulMeansDrained, flags, call
<1> QED BY <1>2, <1>4 DEF IInv

LEMMA CloseKeepsIInv ==
  ASSUME IInv, Close
  PROVE  IInv'
<1>1. Data /\ Calls /\ closeGracefully' = FALSE
  BY DEF IInv, Close
<1>2. CASE closeGracefully /\ Drain(TRUE, "close") /\ UNCHANGED <<audio, device>>
  <2>1. Data'
    BY <1>1, <1>2, UnheardKeepsData
  <2>2. Flags'
    BY <1>1, <1>2, Zeros DEF Close, Drain, Calls, Flags, watch
  <2>3. Calls'
    BY <1>1, <1>2, <2>2 DEF Close, Drain, Calls, GracefulMeansDrained, audio
  <2> QED BY <2>1, <2>3 DEF IInv
<1>3. CASE ResetChain /\ UNCHANGED call
  <2>1. Data' /\ Level(buffer') = 0 /\ packets' = <<>>
    BY <1>1, <1>3, ResetKeepsData
  <2>2. Flags'
    BY <1>1, <1>3, Zeros DEF Close, ResetChain, Prune, Calls, Flags, call, watch
  <2>3. Calls'
    BY <1>1, <2>1, <2>2, EmptyQueueFits DEF Close, Calls, GracefulMeansDrained
  <2> QED BY <2>1, <2>3 DEF IInv
<1> QED BY <1>2, <1>3 DEF Close

LEMMA PauseKeepsIInv ==
  ASSUME IInv, Pause
  PROVE  IInv'
<1>1. Data /\ Calls
  BY DEF IInv
<1>2. Flags'
  BY <1>1 DEF Pause, ResetChain, Prune, Calls, Flags, call, watch
<1>3. CASE ResetChain
  <2>1. Data' /\ Level(buffer') = 0 /\ packets' = <<>>
    BY <1>1, <1>3, ResetKeepsData
  <2>2. Calls'
    BY <1>1, <1>2, <2>1, EmptyQueueFits DEF Pause, call, Calls, GracefulMeansDrained
  <2> QED BY <2>1, <2>2 DEF IInv
<1>4. CASE UNCHANGED <<audio, device>>
  <2>1. Data'
    BY <1>1, <1>4, UnheardKeepsData
  <2>2. Calls'
    BY <1>1, <1>2, <1>4 DEF Pause, Calls, GracefulMeansDrained, audio, call
  <2> QED BY <2>1, <2>2 DEF IInv
<1> QED BY <1>3, <1>4 DEF Pause

(* Steps that open devices.                                                *)
LEMMA DevicesFit ==
  ASSUME Data, Calls, OpenDevices
  PROVE  Len(packets') <= QueueLength /\ device' \in {"closed", "open", "lost"}
<1>1. packets' \in {packets, <<>>}
  BY OpenDevicesGoesOn
<1>2. Len(packets') <= QueueLength
  BY <1>1, EmptyQueueFits DEF Calls
<1>3. device' \in {"closed", "open", "lost"}
  BY DEF OpenDevices, Calls, Flags
<1> QED BY <1>2, <1>3

LEMMA OpenKeepsIInv ==
  ASSUME IInv, Open
  PROVE  IInv'
<1>1. /\ Data /\ Calls /\ OpenDevices /\ buffer' = NewByteBuffer
      /\ nextByte' = nextByte
  BY DEF IInv, Open
<1>2. Level(buffer) = 0
  BY <1>1 DEF Open, Calls
<1>3. nextByte = EndOf(packets, nextOutput)
  BY <1>1, <1>2, DataShape, EmptyRingHolds DEF Data
<1>4. Data' /\ Level(buffer') = 0
  BY <1>1, <1>3, OpenDevicesGoesOn, NewChainKeepsData
<1>5. Flags'
  BY <1>1, DevicesFit, Zeros DEF Open, Calls, Flags, call, watch
<1>6. Calls'
  BY <1>1, <1>4, <1>5, DevicesFit DEF Open, call, Calls, GracefulMeansDrained
<1> QED BY <1>4, <1>6 DEF IInv

LEMMA ResumeKeepsIInv ==
  ASSUME IInv, Resume
  PROVE  IInv'
<1>1. Data /\ Calls /\ OpenDevices /\ UNCHANGED <<buffer, nextByte>>
  BY DEF IInv, Resume
<1>2. Data'
  BY <1>1, OpenDevicesKeepsData
<1>3. Flags'
  BY <1>1, DevicesFit DEF Resume, Calls, Flags, call, watch
<1>4. Calls'
  BY <1>1, <1>3, DevicesFit DEF Resume, Calls, GracefulMeansDrained, call
<1> QED BY <1>2, <1>4 DEF IInv

LEMMA ActivateKeepsIInv ==
  ASSUME IInv, Activate
  PROVE  IInv'
<1>1. Data /\ Calls /\ OpenDevices /\ UNCHANGED <<buffer, nextByte>>
  BY DEF IInv, Activate
<1>2. Data'
  BY <1>1, OpenDevicesKeepsData
<1>3. Flags'
  BY <1>1, DevicesFit DEF Activate, Calls, Flags, flags, call, watch
<1>4. Calls'
  BY <1>1, <1>3, DevicesFit DEF Activate, Calls, GracefulMeansDrained, flags, call
<1> QED BY <1>2, <1>4 DEF IInv

LEMMA CloseReturnsKeepsIInv ==
  ASSUME IInv, CloseReturns
  PROVE  IInv'
<1>1. /\ Data /\ Calls /\ buffer' = NewByteBuffer
      /\ nextByte' = Advance(nextByte, Modulus - Level(buffer))
      /\ UNCHANGED <<packets, nextOutput>>
  BY DEF IInv, CloseReturns
<1>2. nextByte' = EndOf(packets, nextOutput)
  BY <1>1, DataShape
<1>3. Data' /\ Level(buffer') = 0
  BY <1>1, <1>2, NewChainKeepsData DEF Data
<1>4. Flags'
  BY <1>1, Zeros DEF CloseReturns, Drained, Prune, Drain, Calls, Flags, flags, watch
<1>5. Calls'
  BY <1>1, <1>3, <1>4 DEF CloseReturns, Drain, Calls, GracefulMeansDrained
<1> QED BY <1>3, <1>5 DEF IInv

-----------------------------------------------------------------------------
LEMMA InitIInv == Init => IInv
<1> SUFFICES ASSUME Init PROVE IInv
  OBVIOUS
<1>1. /\ buffer = NewByteBuffer /\ packets = <<>> /\ nextByte = 0
      /\ nextOutput = 0 /\ 0 \in Byte
  BY Sizes DEF Init
<1>2. /\ buffer \in ByteBuffer /\ Level(buffer) = 0 /\ InAgreement(buffer)
  <2>1. 0 \in Index /\ Capacity \in 0 .. Capacity /\ ZeroByte \in Byte
    BY Sizes, ZeroByteAssumption DEF Index
  <2>2. NewByteBuffer \in ByteBuffer
    BY <2>1 DEF NewByteBuffer, ByteBuffer
  <2> QED BY <1>1, <2>2, EmptyRing
<1>3. /\ packets \in Seq(Seq(Byte)) /\ InOrder(packets, nextOutput)
      /\ EndOf(packets, nextOutput) = 0
  BY <1>1, EmptyQueue
<1>4. Holds(buffer, 0) /\ Advance(0, Level(buffer)) = 0
  BY <1>1, <1>2, EmptyRingHolds
<1>5. Data
  BY <1>1, <1>2, <1>3, <1>4 DEF Data
<1>6. Flags
  BY Zeros DEF Init, Flags
<1>7. Calls
  BY <1>1, <1>2, <1>6, EmptyQueueFits DEF Init, Calls, GracefulMeansDrained
<1> QED BY <1>5, <1>7 DEF IInv

LEMMA NextKeepsIInv == IInv /\ [Next]_vars => IInv'
<1> SUFFICES ASSUME IInv, [Next]_vars PROVE IInv'
  OBVIOUS
<1>1. CASE PassOn
  BY <1>1, PassOnKeepsIInv
<1>2. CASE WaitForSink
  BY <1>2, WaitForSinkKeepsIInv
<1>3. CASE WriteReturns
  BY <1>3, WriteReturnsKeepsIInv
<1>4. CASE PollReturns
  BY <1>4, PollReturnsKeepsIInv
<1>5. CASE CloseWaits
  BY <1>5, CloseWaitsKeepsIInv
<1>6. CASE CanWrite
  BY <1>6, CanWriteKeepsIInv
<1>7. CASE WriteNothing
  BY <1>7, WriteNothingKeepsIInv
<1>8. CASE StopWriting
  BY <1>8, StopWritingKeepsIInv
<1>9. CASE Poll
  BY <1>9, PollKeepsIInv
<1>10. CASE ConnectionLost
  BY <1>10, ConnectionLostKeepsIInv
<1>11. CASE Deactivate
  BY <1>11, DeactivateKeepsIInv
<1>12. CASE Sample
  BY <1>12, SampleKeepsIInv
<1>13. CASE CloseDevices
  BY <1>13, CloseDevicesKeepsIInv
<1>14. CASE CloseReturns
  BY <1>14, CloseReturnsKeepsIInv
<1>15. CASE Reset
  BY <1>15, ResetKeepsIInv
<1>16. CASE Open
  BY <1>16, OpenKeepsIInv
<1>17. CASE Close
  BY <1>17, CloseKeepsIInv
<1>18. CASE Pause
  BY <1>18, PauseKeepsIInv
<1>19. CASE Resume
  BY <1>19, ResumeKeepsIInv
<1>20. CASE SendPacket
  BY <1>20, SendPacketKeepsIInv
<1>21. CASE Activate
  BY <1>21, ActivateKeepsIInv
<1>22. CASE \E length \in 1 .. Capacity : Write(length)
  BY <1>22, WriteKeepsIInv
<1>23. CASE UNCHANGED vars
  <2>1. Data /\ Calls /\ UNCHANGED <<chain, audio, device, flags, call, polling, watch>>
    BY <1>23 DEF IInv, vars
  <2>2. Data'
    BY <2>1, UnheardKeepsData
  <2>3. Calls'
    BY <2>1 DEF Calls, Flags, GracefulMeansDrained, audio, flags, call, watch
  <2> QED BY <2>2, <2>3 DEF IInv
<1> QED
  BY <1>1, <1>2, <1>3, <1>4, <1>5, <1>6, <1>7, <1>8, <1>9, <1>10,
     <1>11, <1>12, <1>13, <1>14, <1>15, <1>16, <1>17, <1>18, <1>19,
     <1>20, <1>21, <1>22, <1>23
     DEF Next, InCall

LEMMA AlwaysIInv == Spec => []IInv
<1> QED BY InitIInv, NextKeepsIInv, PTL DEF Spec

(* Each variable keeps to its type, and the engine's queue to its length.  *)
THEOREM OutputTypes == Spec => []TypeOK
<1>1. IInv => TypeOK
  BY DEF IInv, Data, Calls, Flags, TypeOK
<1> QED BY <1>1, AlwaysIInv, PTL

(* Whatever the lengths of the player's writes, and whenever devices fail  *)
(* and are reopened, every byte of the ring and of the engine's queue      *)
(* comes once and in order (OutputBuffer::write, writeToOutputSink).       *)
THEOREM BytesStayInSequence == Spec => []BytesInSequence
<1>1. ASSUME IInv PROVE BytesInSequence
  <2> DEFINE level == Level(buffer)
             first == EndOf(packets, nextOutput)
  <2>1. /\ Data /\ first \in Byte /\ level \in 0 .. Capacity
    BY <1>1, DataShape DEF IInv
  <2>2. Content(buffer) = Numbered(first, level)
    BY <2>1 DEF Data, Holds, Content, Numbered, Slot
  <2>3. \A p \in 1 .. Len(packets) :
          /\ Len(packets[p]) \in 1 .. PacketSize
          /\ packets[p] = Numbered(StartOf(packets, nextOutput, p),
                                   Len(packets[p]))
    BY <2>1 DEF Data, InOrder
  <2>4. nextByte = Advance(first, level)
    BY <2>1 DEF Data
  <2> QED BY <2>2, <2>3, <2>4 DEF BytesInSequence, StartOf, EndOf
<1> QED BY <1>1, AlwaysIInv, PTL

(* A graceful close is armed only while the ring is empty                  *)
(* (OutputComponent::write, buffered, close).                              *)
THEOREM GracefulClosesAreDrained == Spec => []GracefulMeansDrained
<1>1. IInv => GracefulMeansDrained
  BY DEF IInv, Calls
<1> QED BY <1>1, AlwaysIInv, PTL

-----------------------------------------------------------------------------
(* What the steps do to the stream.                                        *)
LEMMA QuietStep ==
  ASSUME UNCHANGED <<buffer, packets>>
  PROVE  Stream!Next
<1>1. Content(buffer') = Content(buffer)
  OBVIOUS
<1> QED BY <1>1 DEF Stream!Next, Stream!Other, Content, Level

LEMMA DiscardStep ==
  ASSUME Data, ResetChain, place = "idle", place' = "idle"
  PROVE  Stream!Next
<1>1. buffer' = ResetByteBuffer(buffer) /\ packets' = <<>>
  BY DEF ResetChain
<1>2. Content(buffer)' = <<>>
  <2>1. buffer' \in ByteBuffer /\ Level(buffer') = 0
    BY <1>1, EmptyRing DEF Data
  <2> QED BY <2>1, EmptyContent DEF Content, Level
<1>3. (device' = "open") = (device = "open")
  BY DEF ResetChain, Prune
<1> QED BY <1>1, <1>2, <1>3 DEF Stream!Next, Stream!Discard

LEMMA OpenDevicesStep ==
  ASSUME Data, OpenDevices, Content(buffer)' = Content(buffer), place' = place
  PROVE  Stream!Next
<1>1. CASE UNCHANGED <<device, packets, nextOutput>>
  BY <1>1 DEF Stream!Next, Stream!Other
<1>2. CASE device # "open" /\ packets' = <<>>
  <2>1. ~(device = "open") /\ (device' = "open") \in BOOLEAN
    BY <1>2
  <2>2. Stream!StartOver
    BY <1>2, <2>1 DEF Stream!StartOver
  <2> QED BY <2>2 DEF Stream!Next
<1> QED BY <1>1, <1>2 DEF OpenDevices

LEMMA WriteStep ==
  ASSUME Data, NEW length \in 1 .. Capacity, Write(length)
  PROVE  Stream!Next
<1> DEFINE data == Numbered(nextByte, length)
           after == Put(buffer, data)
<1>1. /\ place = "idle" /\ length <= buffer.availability
      /\ buffer' = after /\ place' = "write"
      /\ UNCHANGED <<packets, device>>
  BY DEF Write, Drain
<1>2. buffer \in ByteBuffer /\ InAgreement(buffer) /\ nextByte \in Byte
  BY DEF Data
<1>3. length \in 0 .. Modulus /\ length \in 1 .. buffer.availability
  <2>1. buffer.availability \in 0 .. Capacity
    BY <1>2, RingShape
  <2> QED BY <1>1, <2>1, Sizes
<1>4. data \in Seq(Byte) /\ Len(data) = length
  BY <1>2, <1>3, NumberedBytes
<1> HIDE DEF data
<1>5. /\ Content(after) = Content(buffer) \o data
      /\ after \in ByteBuffer
  BY <1>2, <1>3, <1>4, PutQueues, PutAppends
<1> HIDE DEF after
<1>6. /\ Content(buffer) \in Seq(Byte) /\ Content(after) \in Seq(Byte)
      /\ Len(Content(after)) = Level(after) /\ Level(after) \in 0 .. Capacity
  BY <1>2, <1>5, ContentIs, RingShape
<1>7. /\ Len(Content(buffer)) < Len(Content(after))
      /\ Len(Content(after)) <= Capacity
      /\ SubSeq(Content(after), 1, Len(Content(buffer))) = Content(buffer)
  <2> DEFINE waiting == Content(buffer)
             all == waiting \o data
             n == Len(waiting)
  <2>1. /\ waiting \in Seq(Byte) /\ n \in Nat /\ length \in Nat /\ 1 <= length
    BY <1>3, <1>6, LenProperties
  <2>2. /\ all \in Seq(Byte) /\ Len(all) = n + length
        /\ \A i \in 1 .. n + length :
             all[i] = IF i <= n THEN waiting[i] ELSE data[i - n]
    BY <1>4, <1>6, ConcatProperties
  <2> HIDE DEF all, waiting
  <2>3. \A i \in 1 .. n : all[i] = waiting[i] /\ all[i] \in Byte
    BY <2>1, <2>2, ElementOfSeq
  <2> DEFINE front == SubSeq(all, 1, n)
  <2>4. /\ front \in Seq(Byte) /\ Len(front) = n
        /\ \A i \in 1 .. n : front[i] = all[i]
    <3>1. /\ front \in Seq(Byte)
          /\ Len(front) = IF 1 <= n THEN n - 1 + 1 ELSE 0
          /\ \A i \in 1 .. n - 1 + 1 : front[i] = all[1 + i - 1]
      BY <2>1, <2>3, SubSeqProperties
    <3> HIDE DEF front
    <3> QED BY <2>1, <3>1
  <2> HIDE DEF front
  <2>5. front = waiting
    BY <2>1, <2>3, <2>4, SeqEqual
  <2>6. n < Len(all)
    BY <2>1, <2>2
  <2>7. Len(Content(after)) <= Capacity
    BY <1>6, Sizes
  <2> QED BY <1>5, <2>5, <2>6, <2>7 DEF front, all, waiting
<1>8. Content(buffer)' = Content(after)
  BY <1>1 DEF Content, Level
<1> QED BY <1>1, <1>6, <1>7, <1>8 DEF Stream!Next, Stream!Accept

LEMMA PassOnStep ==
  ASSUME Data, PassOn
  PROVE  Stream!Next
<1> DEFINE length == IF Level(buffer) < SinkCanWrite THEN Level(buffer)
                                                     ELSE SinkCanWrite
           level == Level(buffer)
<1>1. /\ level > 0 /\ SinkCanWrite > 0 /\ place # "idle"
      /\ packets' = Append(packets, FirstBytes(buffer, length))
      /\ buffer' = Drop(buffer, length)
      /\ UNCHANGED <<device, place>>
  BY DEF PassOn
<1>2. Len(packets) < QueueLength /\ SinkCanWrite = PacketSize
  BY <1>1 DEF SinkCanWrite
<1>3. /\ buffer \in ByteBuffer /\ InAgreement(buffer)
      /\ level \in 0 .. Capacity
  BY DataShape DEF Data
<1>4. /\ length \in 1 .. level /\ length \in 1 .. PacketSize
      /\ length = PacketSize \/ length = level
      /\ length <= level
  BY <1>1, <1>2, <1>3, Sizes
<1> HIDE DEF length
<1>5. /\ FirstBytes(buffer, length) = SubSeq(Content(buffer), 1, length)
      /\ Content(Drop(buffer, length))
           = SubSeq(Content(buffer), length + 1, Len(Content(buffer)))
      /\ Len(Content(buffer)) = level
  BY <1>3, <1>4, DropServes, ContentIs
<1>6. Content(buffer)' = Content(Drop(buffer, length))
  BY <1>1 DEF Content, Level
<1>7. length <= level
  BY <1>3, <1>4
<1>8. Stream!Cut(length)
  BY <1>1, <1>2, <1>4, <1>5, <1>6, <1>7 DEF Stream!Cut
<1> QED BY <1>4, <1>8 DEF Stream!Next

LEMMA StepImplementsStream ==
  IInv /\ [Next]_vars => [Stream!Next]_(Stream!vars)
<1> SUFFICES ASSUME IInv, Next
             PROVE  Stream!Next
  <2>1. UNCHANGED vars => UNCHANGED Stream!vars
    BY DEF vars, audio, call, Stream!vars, Content, Level
  <2> QED BY <2>1
<1>0. Data /\ Calls
  BY DEF IInv
<1>1. CASE PassOn
  BY <1>0, <1>1, PassOnStep
<1>2. CASE \/ WaitForSink \/ WriteReturns \/ PollReturns \/ CloseWaits
           \/ CanWrite \/ WriteNothing \/ StopWriting \/ Poll
           \/ ConnectionLost \/ Deactivate \/ Sample \/ CloseDevices
  <2>1. UNCHANGED audio
    BY <1>2 DEF WaitForSink, WriteReturns, PollReturns, CloseWaits, CanWrite,
                WriteNothing, StopWriting, Poll, ConnectionLost, Deactivate,
                Sample, CloseDevices
  <2> QED BY <2>1, QuietStep DEF audio
<1>3. CASE \E length \in 1 .. Capacity : Write(length)
  BY <1>0, <1>3, WriteStep
<1>4. CASE Reset
  BY <1>0, <1>4, DiscardStep DEF Reset, call
<1>5. CASE Pause
  <2>1. place = "idle" /\ place' = "idle"
    BY <1>5 DEF Pause, call
  <2>2. ResetChain \/ UNCHANGED <<buffer, packets>>
    BY <1>5 DEF Pause, audio
  <2> QED BY <1>0, <2>1, <2>2, DiscardStep, QuietStep
<1>6. CASE Close
  <2>1. place = "idle"
    BY <1>6 DEF Close
  <2>2. \/ UNCHANGED <<buffer, packets>>
        \/ ResetChain /\ place' = place
    BY <1>6 DEF Close, audio, call
  <2> QED BY <1>0, <2>1, <2>2, DiscardStep, QuietStep
<1>7. CASE Open
  <2>1. /\ OpenDevices /\ buffer' = NewByteBuffer /\ place' = place
        /\ Level(buffer) = 0 /\ buffer \in ByteBuffer
    BY <1>0, <1>7 DEF Open, call, Calls, Data
  <2>2. Content(buffer) = <<>> /\ Content(NewByteBuffer) = <<>>
    BY <2>1, EmptyRing, EmptyContent
  <2>3. Content(buffer)' = Content(NewByteBuffer)
    BY <2>1 DEF Content, Level
  <2> QED BY <1>0, <2>1, <2>2, <2>3, OpenDevicesStep
<1>8. CASE Resume \/ Activate
  <2>1. OpenDevices /\ buffer' = buffer /\ place' = place
    BY <1>8 DEF Resume, Activate, call
  <2>2. Content(buffer)' = Content(buffer)
    BY <2>1 DEF Content, Level
  <2> QED BY <1>0, <2>1, <2>2, OpenDevicesStep
<1>9. CASE SendPacket
  <2>1. /\ packets # <<>> /\ packets' = Tail(packets)
        /\ UNCHANGED <<buffer, device, place>>
    BY <1>9 DEF SendPacket, call
  <2>2. Content(buffer)' = Content(buffer)
    BY <2>1 DEF Content, Level
  <2> QED BY <2>1, <2>2 DEF Stream!Next, Stream!Send
(* Nothing is in the ring when a graceful close ends.                      *)
<1>10. CASE CloseReturns
  <2>1. buffer' = NewByteBuffer /\ packets' = packets
    BY <1>10 DEF CloseReturns
  <2>2. Level(buffer) = 0 /\ buffer \in ByteBuffer
    BY <1>0, <1>10 DEF CloseReturns, Calls, Data
  <2>3. Content(buffer) = <<>> /\ Content(NewByteBuffer) = <<>>
    BY <2>2, EmptyRing, EmptyContent
  <2>4. Content(buffer)' = Content(NewByteBuffer)
    BY <2>1 DEF Content, Level
  <2> QED BY <2>1, <2>3, <2>4 DEF Stream!Next, Stream!Other
<1> QED
  BY <1>1, <1>2, <1>3, <1>4, <1>5, <1>6, <1>7, <1>8, <1>9, <1>10
     DEF Next, InCall

(* Whatever the sizes, playback is a queue of bytes cut into packets and   *)
(* sent in order, from which bytes are dropped only at the player's        *)
(* request, and packets besides only when the first device is opened       *)
(* (OutputComponent, OutputBuffer and DeviceManager::openDevice).          *)
THEOREM OutputImplementsStream == Spec => ImplementsStream
<1>1. Init => Stream!Init
  <2> SUFFICES ASSUME Init PROVE Stream!Init
    OBVIOUS
  <2>1. /\ packets = <<>> /\ place = "idle" /\ device = "closed"
        /\ buffer = NewByteBuffer
    BY DEF Init
  <2>2. NewByteBuffer \in ByteBuffer /\ Level(NewByteBuffer) = 0
    <3>1. IInv
      BY InitIInv
    <3> QED BY <3>1, EmptyRing DEF IInv, Data
  <2>3. Content(buffer) = <<>>
    BY <2>1, <2>2, EmptyContent
  <2> QED BY <2>1, <2>3 DEF Stream!Init
<1> QED BY <1>1, StepImplementsStream, AlwaysIInv, PTL
        DEF Spec, ImplementsStream, Stream!Spec
-----------------------------------------------------------------------------
(* What stands for the engine here: a packet as the output buffer makes    *)
(* it, and the engine as PacketHistory describes it to the player, with    *)
(* the memory left out that only the speakers see.                         *)
AudioPacket == UNION {[1 .. length -> Byte] : length \in 1 .. PacketSize}

Queue == INSTANCE PacketHistory
           WITH Capacity <- QueueLength, Memory <- 0, Packet <- AudioPacket,
                waiting <- packets, remembered <- <<>>

LEMMA PassOnQueues ==
  ASSUME Data, PassOn
  PROVE  Queue!Next
<1> DEFINE length == IF Level(buffer) < SinkCanWrite THEN Level(buffer)
                                                     ELSE SinkCanWrite
           data == FirstBytes(buffer, length)
<1>1. /\ Level(buffer) > 0 /\ SinkCanWrite > 0
      /\ packets' = Append(packets, data)
  BY DEF PassOn
<1>2. Len(packets) < QueueLength /\ SinkCanWrite = PacketSize
  BY <1>1 DEF SinkCanWrite
<1>3. /\ buffer \in ByteBuffer /\ InAgreement(buffer)
      /\ Level(buffer) \in 0 .. Capacity
  BY DataShape DEF Data
<1>4. length \in 1 .. Level(buffer) /\ length \in 1 .. PacketSize
  BY <1>1, <1>2, <1>3, Sizes
<1> HIDE DEF length
<1>5. data \in Seq(Byte) /\ Len(data) = length
  BY <1>3, <1>4, FirstBytesAreFirst
<1> HIDE DEF data
<1>6. data \in [1 .. length -> Byte]
  BY <1>5
<1>7. data \in AudioPacket
  BY <1>4, <1>6 DEF AudioPacket
<1> QED BY <1>1, <1>2, <1>7 DEF Queue!Next, Queue!Write

(* What playback relies on in the engine is no more than the engine is     *)
(* proved to do (RAOPEngineProofs, EngineImplementsQueue): packets are     *)
(* handed to it only when there is room, and leave in order, or all at     *)
(* once in a reset (OutputBuffer::writeToOutputSink, RAOPEngine::canWrite, *)
(* write, reset and reinit).                                               *)
THEOREM QueueIsEngines == Spec => Queue!Spec
<1>1. Init => Queue!Init
  BY DEF Init, Queue!Init
<1>2. IInv /\ [Next]_vars => [Queue!Next]_(Queue!vars)
  <2> SUFFICES ASSUME IInv, Next, packets' # packets
               PROVE  Queue!Next
    BY DEF vars, audio, Queue!vars
  <2>0. Data
    BY DEF IInv
  <2>1. CASE PassOn
    BY <2>0, <2>1, PassOnQueues
  <2>2. CASE packets' = <<>>
    BY <2>2 DEF Queue!Next, Queue!Reset
  <2>3. CASE SendPacket
    <3>1. packets # <<>> /\ packets' = Tail(packets)
      BY <2>3 DEF SendPacket
    <3>2. <<>> = [age \in 1 .. 0 |-> IF age = 1 THEN Head(packets)
                                               ELSE <<>>[age - 1]]
      OBVIOUS
    <3>3. Len(<<>>) = 0
      OBVIOUS
    <3> QED BY <3>1, <3>2, <3>3 DEF Queue!Next, Queue!Send
  <2>4. CASE Reset \/ Pause \/ Close \/ Open \/ Resume \/ Activate
    <3>1. packets' = <<>> \/ packets' = packets
      BY <2>4 DEF Reset, Pause, Close, Open, Resume, Activate, ResetChain,
                  OpenDevices, audio
    <3> QED BY <2>2, <3>1
  <2>5. CASE \/ WaitForSink \/ WriteReturns \/ PollReturns \/ CloseWaits
             \/ CanWrite \/ WriteNothing \/ StopWriting \/ Poll
             \/ ConnectionLost \/ Deactivate \/ Sample \/ CloseDevices
    BY <2>5 DEF WaitForSink, WriteReturns, PollReturns, CloseWaits, CanWrite,
                WriteNothing, StopWriting, Poll, ConnectionLost, Deactivate,
                Sample, CloseDevices, audio
  <2>6. CASE CloseReturns \/ \E length \in 1 .. Capacity : Write(length)
    BY <2>6 DEF CloseReturns, Write
  <2> QED BY <2>1, <2>3, <2>4, <2>5, <2>6 DEF Next, InCall
<1> QED BY <1>1, <1>2, AlwaysIInv, PTL DEF Spec, Queue!Spec
=============================================================================
