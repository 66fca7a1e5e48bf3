-------------------------- MODULE RAOPEngineProofs --------------------------
(***************************************************************************)
(* Theorems about the packet stream of RAOPEngine, for every set of        *)
(* devices, every length of the packet buffers and every width of the      *)
(* counters: the inductive invariant Inv, and the refinement of            *)
(* PacketHistory, of the part of it that playback relies on, and of        *)
(* AttachedDevices.                                                        *)
(***************************************************************************)
EXTENDS RAOPEngine, PacketBufferLemmas

(* The constants are numbers, and sequence numbers do not wrap within one  *)
(* turn of the ring.                                                       *)
LEMMA Moduli ==
  /\ SeqModulus \in Nat /\ SeqModulus > SlotCount /\ SeqModulus > 0
  /\ TimeModulus \in Nat /\ TimeModulus > 0 /\ FrameCount \in Nat
  /\ TailLength >= 1
BY SeqModulusAssumption, TimeAssumption, MemoryAssumption, SlotCountType

(* 16-bit addition wraps at most once over one turn of the ring.           *)
LEMMA SeqWrap ==
  ASSUME NEW i \in SeqNum, NEW k \in 0 .. SlotCount
  PROVE  /\ (i + k) % SeqModulus =
              IF i + k < SeqModulus THEN i + k ELSE i + k - SeqModulus
         /\ (i + k) % SeqModulus \in SeqNum
<1>1. (i + k) % SeqModulus =
        IF i + k < SeqModulus THEN i + k ELSE i + k - SeqModulus
  BY Moduli, SlotCountType, SMT DEF SeqNum
<1> QED BY <1>1, Moduli, SlotCountType DEF SeqNum

(* Counting one number after the other agrees with counting them at once.  *)
LEMMA SeqStep ==
  ASSUME NEW i \in SeqNum, NEW k \in 0 .. SlotCount - 1
  PROVE  /\ NextSeqNum((i + k) % SeqModulus) = (i + (k + 1)) % SeqModulus
         /\ (NextSeqNum(i) + k) % SeqModulus = (i + (k + 1)) % SeqModulus
         /\ NextSeqNum(i) \in SeqNum
<1>1. /\ k \in 0 .. SlotCount /\ k + 1 \in 0 .. SlotCount /\ 1 \in 0 .. SlotCount
  BY SlotCountType
<1> DEFINE j == (i + k) % SeqModulus
           n == (i + 1) % SeqModulus
           m == (i + (k + 1)) % SeqModulus
<1>2. /\ j \in SeqNum
      /\ j = IF i + k < SeqModulus THEN i + k ELSE i + k - SeqModulus
      /\ n \in SeqNum
      /\ n = IF i + 1 < SeqModulus THEN i + 1 ELSE i + 1 - SeqModulus
      /\ m = IF i + (k + 1) < SeqModulus THEN i + (k + 1)
                                         ELSE i + (k + 1) - SeqModulus
  BY <1>1, SeqWrap
<1> HIDE DEF j, n, m
<1>3. (j + 1) % SeqModulus =
        IF j + 1 < SeqModulus THEN j + 1 ELSE j + 1 - SeqModulus
  BY <1>1, <1>2, SeqWrap
<1>4. (n + k) % SeqModulus =
        IF n + k < SeqModulus THEN n + k ELSE n + k - SeqModulus
  BY <1>1, <1>2, SeqWrap
<1>5. (j + 1) % SeqModulus = m /\ (n + k) % SeqModulus = m
  BY <1>2, <1>3, <1>4, Moduli, SlotCountType DEF SeqNum
<1> QED BY <1>2, <1>5 DEF NextSeqNum, j, n, m

LEMMA SeqZero ==
  ASSUME NEW i \in SeqNum
  PROVE  i = (i + 0) % SeqModulus
<1>1. 0 \in 0 .. SlotCount
  BY SlotCountType
<1>2. i + 0 < SeqModulus /\ i + 0 = i
  BY Moduli DEF SeqNum
<1> QED BY <1>1, <1>2, SeqWrap

(* RTP times stay 32 bits wide.                                            *)
LEMMA TimeStep ==
  ASSUME NEW time \in RtpTime
  PROVE  NextTime(time) \in RtpTime
BY Moduli, SMT DEF NextTime, RtpTime

(* The length of the memory of sent packets.                               *)
LEMMA RememberLength ==
  ASSUME NEW memory \in Seq(Packet), NEW packet \in Packet,
         Len(memory) <= TailLength
  PROVE  LET after == Remember(memory, packet)
         IN  /\ after \in Seq(Packet)
             /\ Len(after) = IF Len(memory) < TailLength THEN Len(memory) + 1
                                                         ELSE TailLength
             /\ \A age \in 1 .. Len(after) :
                  after[age] = IF age = 1 THEN packet ELSE memory[age - 1]
<1> DEFINE n == IF Len(memory) < TailLength THEN Len(memory) + 1
                                            ELSE TailLength
           after == Remember(memory, packet)
<1>1. n \in Nat /\ Len(memory) \in Nat
  BY SlotCountType
<1>2. \A age \in 1 .. n : age # 1 => age - 1 \in 1 .. Len(memory)
  BY <1>1, SlotCountType
<1>3. after \in [1 .. n -> Packet]
  BY <1>1, <1>2 DEF Remember
<1>4. after \in Seq(Packet) /\ Len(after) = n
  BY <1>1, <1>3
<1>5. \A age \in 1 .. n : after[age] = IF age = 1 THEN packet ELSE memory[age - 1]
  BY DEF Remember
<1> QED BY <1>4, <1>5

(* A ring with its positions at the start is empty, whatever its slots     *)
(* hold.                                                                   *)
LEMMA EmptyRing ==
  ASSUME NEW b \in Buffer, b.availability = HeadLength,
         b.readIndex = 0, b.writeIndex = 0
  PROVE  Unsent(b) = 0 /\ PositionsAgree(b) /\ Backlog(b) = <<>>
<1>1. Unsent(b) = 0
  BY SlotCountType DEF Unsent
<1>2. 0 \in Slot /\ 0 \in 0 .. SlotCount
  BY SlotCountType DEF Slot
<1>3. PositionsAgree(b)
  BY <1>1, <1>2, Wrap, SlotCountType DEF PositionsAgree
<1>4. Backlog(b) = <<>>
  BY <1>1, BacklogType
<1> QED BY <1>1, <1>3, <1>4

(* What is read next is a packet.                                          *)
LEMMA NextPacketType ==
  ASSUME NEW b \in Buffer
  PROVE  NextPacket(b) \in Packet
BY DEF NextPacket, Buffer

-----------------------------------------------------------------------------
(* Types are kept by every step.                                           *)
LEMMA WriteKeepsTypes ==
  ASSUME TypeOK, NEW audio \in Audio, Write(audio)
  PROVE  TypeOK'
<1> DEFINE packet == [seqNum  |-> rtpSeqNumIncoming,
                      rtpTime |-> rtpTimeIncoming,
                      marker  |-> isFirstDataPacket,
                      audio   |-> audio]
<1>1. packet \in Packet
  BY PacketAssumption DEF DataPacket, TypeOK
<1>2. /\ rtpDataSecured \in Buffer /\ rtpDataUnsecured \in Buffer
      /\ CanWrite(rtpDataSecured) /\ CanWrite(rtpDataUnsecured)
      /\ rtpDataSecured' = NextAvailable(rtpDataSecured, packet)
      /\ rtpDataUnsecured' = NextAvailable(rtpDataUnsecured, packet)
  BY DEF TypeOK, Write
<1> HIDE DEF packet
<1>3. rtpDataSecured' \in Buffer /\ rtpDataUnsecured' \in Buffer
  BY <1>1, <1>2, NextAvailableFields
<1>4. rtpSeqNumIncoming' \in SeqNum
  <2>1. 0 \in 0 .. SlotCount - 1
    BY SlotCountType
  <2> QED BY <2>1, SeqStep DEF TypeOK, Write
<1>5. rtpTimeIncoming' \in RtpTime
  BY TimeStep DEF TypeOK, Write
<1>6. torn' \in 0 .. MaxTorn
  BY BoundAssumption DEF TypeOK, Write, Tear
<1>7. /\ isFirstDataPacket' \in BOOLEAN /\ sending' \in BOOLEAN
      /\ unstarted' \in BOOLEAN
  BY DEF TypeOK, Write
<1> QED BY <1>3, <1>4, <1>5, <1>6, <1>7 DEF TypeOK, Write, connections

LEMMA SendKeepsTypes ==
  ASSUME TypeOK, SendDataPacket
  PROVE  TypeOK'
<1>1. /\ rtpDataSecured \in Buffer /\ rtpDataUnsecured \in Buffer
      /\ CanRead(rtpDataSecured) /\ CanRead(rtpDataUnsecured)
      /\ rtpDataSecured' = NextBuffered(rtpDataSecured)
      /\ rtpDataUnsecured' = NextBuffered(rtpDataUnsecured)
  BY DEF TypeOK, SendDataPacket, MaySend
<1>2. rtpDataSecured' \in Buffer /\ rtpDataUnsecured' \in Buffer
  BY <1>1, NextBufferedFields
<1>3. rtpSeqNumOutgoing' \in SeqNum
  <2>1. 0 \in 0 .. SlotCount - 1
    BY SlotCountType
  <2> QED BY <2>1, SeqStep DEF TypeOK, SendDataPacket
<1>4. rtpTimeOutgoing' \in RtpTime
  BY TimeStep DEF TypeOK, SendDataPacket
<1>5. torn' \in 0 .. MaxTorn
  BY BoundAssumption DEF TypeOK, SendDataPacket, Tear
<1>6. sent' \in Seq(Packet) /\ Len(sent') <= TailLength
  <2>1. CASE Settled
    <3>1. sent' = Remember(sent, NextPacket(rtpDataSecured))
      BY <2>1 DEF SendDataPacket
    <3>2. /\ sent \in Seq(Packet) /\ Len(sent) <= TailLength
          /\ NextPacket(rtpDataSecured) \in Packet
      BY <1>1, NextPacketType DEF TypeOK
    <3>3. /\ sent' \in Seq(Packet)
          /\ Len(sent') = IF Len(sent) < TailLength THEN Len(sent) + 1
                                                    ELSE TailLength
      BY <3>1, <3>2, RememberLength
    <3> QED BY <3>2, <3>3, SlotCountType
  <2>2. CASE ~Settled
    <3>1. sent' = <<>>
      BY <2>2 DEF SendDataPacket
    <3> QED BY <3>1, SlotCountType
  <2> QED BY <2>1, <2>2
<1> QED BY <1>2, <1>3, <1>4, <1>5, <1>6 DEF TypeOK, SendDataPacket, connections

LEMMA HalfKeepsTypes ==
  ASSUME TypeOK, WriteFails \/ SendFails
  PROVE  TypeOK'
<1>1. rtpDataSecured' \in Buffer
  <2>1. CASE WriteFails
    BY <2>1, ZeroedSlotAssumption, NextAvailableFields DEF WriteFails, TypeOK
  <2>2. CASE SendFails
    BY <2>2, NextBufferedFields DEF SendFails, MaySend, TypeOK
  <2> QED BY <2>1, <2>2
<1>2. isFirstSyncPacket' \in BOOLEAN
  BY DEF TypeOK, WriteFails, SendFails
<1> QED BY <1>1, <1>2 DEF TypeOK, WriteFails, SendFails, connections

LEMMA ReinitKeepsTypes ==
  ASSUME TypeOK, Reinit
  PROVE  TypeOK'
<1>1. CASE ReinitStop
  <2>1. resets' \in 0 .. MaxResets
    BY <1>1, BoundAssumption DEF ReinitStop, TypeOK
  <2> QED BY <1>1, <2>1 DEF ReinitStop, TypeOK, stream, connections
<1>2. CASE ReinitThrows
  BY <1>2 DEF ReinitThrows, TypeOK, stream, connections
<1>3. ASSUME NEW seqNum \in StartingSeqNum, ReinitSeqNum(seqNum)
      PROVE  TypeOK'
  <2>1. sent' \in Seq(Packet) /\ Len(sent') <= TailLength /\ seqNum \in SeqNum
        /\ torn' \in 0 .. MaxTorn
    BY <1>3, SlotCountType, StartAssumption, BoundAssumption DEF ReinitSeqNum
  <2> QED BY <1>3, <2>1 DEF ReinitSeqNum, TypeOK, connections, HalfDone
<1>4. ASSUME NEW time \in StartingTime, ReinitTime(time)
      PROVE  TypeOK'
  BY <1>4, StartAssumption DEF ReinitTime, TypeOK, connections, HalfDone
<1>5. CASE ReinitFirst
  <2>1. torn' \in 0 .. MaxTorn
    BY <1>5, BoundAssumption DEF ReinitFirst, TypeOK
  <2> QED BY <1>5, <2>1 DEF ReinitFirst, TypeOK, connections, HalfDone
<1>6. CASE ReinitUnsecured
  <2>1. rtpDataUnsecured' \in Buffer
    BY <1>6, ResetBufferType DEF ReinitUnsecured, TypeOK
  <2> QED BY <1>6, <2>1 DEF ReinitUnsecured, TypeOK, connections, HalfDone
<1>7. CASE ReinitSecured
  <2>1. rtpDataSecured' \in Buffer
    BY <1>7, ResetBufferType DEF ReinitSecured, TypeOK
  <2> QED BY <1>7, <2>1 DEF ReinitSecured, TypeOK, connections, HalfDone
<1>8. CASE ReinitDevices
  BY <1>8 DEF ReinitDevices, TypeOK, stream, connections, HalfDone
<1> QED BY <1>1, <1>2, <1>3, <1>4, <1>5, <1>6, <1>7, <1>8 DEF Reinit

LEMMA TypeStep ==
  ASSUME TypeOK, [Next]_vars
  PROVE  TypeOK'
<1>1. ASSUME NEW audio \in Audio, Write(audio)
      PROVE  TypeOK'
  BY <1>1, WriteKeepsTypes
<1>2. CASE Flush
  BY <1>2 DEF Flush, TypeOK, stream, connections
<1>3. CASE Reset
  <2>1. rtpDataSecured' \in Buffer /\ rtpDataUnsecured' \in Buffer
    BY <1>3, ResetBufferType DEF Reset, TypeOK
  <2>2. sent' \in Seq(Packet) /\ Len(sent') <= TailLength /\ torn' \in 0 .. MaxTorn
        /\ resets' \in 0 .. MaxResets
    BY <1>3, SlotCountType, BoundAssumption DEF Reset, TypeOK
  <2> QED BY <1>3, <2>1, <2>2 DEF Reset, TypeOK, connections
<1>4. CASE Reinit
  BY <1>4, ReinitKeepsTypes
<1>5. ASSUME NEW device \in Device, Open(device)
      PROVE  TypeOK'
  BY <1>5 DEF Open, TypeOK, stream, HalfDone
<1>6. ASSUME NEW device \in Device, OpenFails(device)
      PROVE  TypeOK'
  BY <1>6 DEF OpenFails, TypeOK, stream, HalfDone
<1>7. ASSUME NEW device \in Device, Close(device) \/ ConnectionLost(device)
      PROVE  TypeOK'
  BY <1>7 DEF Close, ConnectionLost, TypeOK, stream
<1>8. CASE SendSyncPacket
  BY <1>8 DEF SendSyncPacket, TypeOK, stream, connections
<1>9. CASE SendDataPacket
  BY <1>9, SendKeepsTypes
<1>10. CASE WriteFails \/ SendFails
  BY <1>10, HalfKeepsTypes
<1>11. CASE UNCHANGED vars
  BY <1>11 DEF vars, TypeOK, stream, connections
<1> QED BY <1>1, <1>2, <1>3, <1>4, <1>5, <1>6, <1>7, <1>8, <1>9, <1>10, <1>11
        DEF Next

-----------------------------------------------------------------------------
(* The part of the invariant that is about the packets.                    *)
StreamInv == CountersInStep /\ BacklogInSequence /\ MemoryInSequence

(* It says nothing while counters and buffers are out of step, ...         *)
LEMMA StreamUnsettled ==
  ASSUME ~Settled'
  PROVE  StreamInv'
BY DEF StreamInv, CountersInStep, BacklogInSequence, MemoryInSequence

(* ... is not touched by steps that touch no packet, ...                   *)
LEMMA StreamUntouched ==
  ASSUME StreamInv, UNCHANGED <<stream, isFirstDataPacket>>,
         Settled' => Settled
  PROVE  StreamInv'
<1>1. CASE ~Settled'
  BY <1>1, StreamUnsettled
<1>2. CASE Settled'
  <2>1. /\ rtpDataSecured' = rtpDataSecured /\ rtpDataUnsecured' = rtpDataUnsecured
        /\ rtpSeqNumIncoming' = rtpSeqNumIncoming
        /\ rtpSeqNumOutgoing' = rtpSeqNumOutgoing
        /\ rtpTimeIncoming' = rtpTimeIncoming /\ rtpTimeOutgoing' = rtpTimeOutgoing
        /\ sent' = sent /\ isFirstDataPacket' = isFirstDataPacket
        /\ Settled
    BY <1>2 DEF stream
  <2>2. Backlog(rtpDataSecured)' = Backlog(rtpDataSecured)
        /\ Backlog(rtpDataUnsecured)' = Backlog(rtpDataUnsecured)
    BY <2>1 DEF Backlog, Unsent
  <2>3. CountersInStep'
    BY <2>1, <2>2 DEF StreamInv, CountersInStep, PositionsAgree, Unsent
  <2>4. BacklogInSequence'
    BY <2>1, <2>2 DEF StreamInv, BacklogInSequence
  <2>5. MemoryInSequence'
    BY <2>1 DEF StreamInv, MemoryInSequence, PrevBuffered
  <2> QED BY <2>3, <2>4, <2>5 DEF StreamInv
<1> QED BY <1>1, <1>2

(* ... and holds when both rings are empty, with the counters equal and    *)
(* nothing to remember: after reset() and reinit().                        *)
LEMMA StreamCleared ==
  ASSUME rtpDataSecured' \in Buffer, rtpDataUnsecured' \in Buffer,
         rtpDataSecured'.availability = HeadLength,
         rtpDataSecured'.readIndex = 0, rtpDataSecured'.writeIndex = 0,
         rtpDataUnsecured'.availability = HeadLength,
         rtpDataUnsecured'.readIndex = 0, rtpDataUnsecured'.writeIndex = 0,
         rtpSeqNumIncoming' = rtpSeqNumOutgoing',
         rtpSeqNumOutgoing' \in SeqNum,
         rtpTimeIncoming' = rtpTimeOutgoing',
         isFirstDataPacket' = TRUE, sent' = <<>>
  PROVE  StreamInv'
<1>1. /\ PositionsAgree(rtpDataSecured')
      /\ Backlog(rtpDataSecured') = <<>> /\ Backlog(rtpDataUnsecured') = <<>>
      /\ Unsent(rtpDataSecured') = 0
  BY EmptyRing
<1>2. Backlog(rtpDataSecured)' = <<>> /\ Backlog(rtpDataUnsecured)' = <<>>
  BY <1>1 DEF Backlog, Unsent
<1>3. rtpSeqNumOutgoing' = (rtpSeqNumOutgoing' + 0) % SeqModulus
  BY SeqZero
<1>4. CountersInStep'
  BY <1>1, <1>2, <1>3 DEF CountersInStep, PositionsAgree, Unsent
<1>5. BacklogInSequence'
  BY <1>2 DEF BacklogInSequence
<1>6. MemoryInSequence'
  BY DEF MemoryInSequence
<1> QED BY <1>4, <1>5, <1>6 DEF StreamInv

(* What a reset ring looks like.                                           *)
LEMMA ResetFields ==
  ASSUME NEW b \in Buffer
  PROVE  /\ ResetBuffer(b) \in Buffer
         /\ ResetBuffer(b).availability = HeadLength
         /\ ResetBuffer(b).readIndex = 0 /\ ResetBuffer(b).writeIndex = 0
BY ResetBufferType DEF ResetBuffer

(* The invariant of the packets in the words of the lemmas on the rings.   *)
LEMMA StreamFacts ==
  ASSUME TypeOK, StreamInv, Settled
  PROVE  LET s == rtpDataSecured
             u == rtpDataUnsecured
         IN  /\ s \in Buffer /\ u \in Buffer
             /\ PositionsAgree(s) /\ PositionsAgree(u)
             /\ CanWrite(u) = CanWrite(s) /\ CanRead(u) = CanRead(s)
             /\ u.availability = s.availability
             /\ u.readIndex = s.readIndex /\ u.writeIndex = s.writeIndex
             /\ Backlog(u) = Backlog(s)
BY DEF TypeOK, StreamInv, CountersInStep, PositionsAgree, Unsent, CanWrite, CanRead

-----------------------------------------------------------------------------
(* write() appends a packet with the incoming number and time.             *)
LEMMA WriteKeepsStream ==
  ASSUME TypeOK, StreamInv, NEW audio \in Audio, Write(audio)
  PROVE  StreamInv'
<1> DEFINE s == rtpDataSecured
           u == rtpDataUnsecured
           out == rtpSeqNumOutgoing
           backlog == Backlog(rtpDataSecured)
           n == Len(backlog)
           packet == [seqNum  |-> rtpSeqNumIncoming,
                      rtpTime |-> rtpTimeIncoming,
                      marker  |-> isFirstDataPacket,
                      audio   |-> audio]
<1>0. CASE ~Settled
  <2>1. ~Settled'
    BY <1>0 DEF Write, Tear, Settled, TypeOK
  <2> QED BY <2>1, StreamUnsettled
<1>A. CASE Settled
  <2>1. packet \in Packet
    BY PacketAssumption DEF DataPacket, TypeOK
  <2>2. /\ s \in Buffer /\ PositionsAgree(s) /\ CanWrite(s)
        /\ u \in Buffer /\ PositionsAgree(u) /\ CanWrite(u)
        /\ Backlog(u) = backlog
        /\ s' = NextAvailable(s, packet) /\ u' = NextAvailable(u, packet)
    BY <1>A, StreamFacts DEF Write
  <2> HIDE DEF packet
  <2>3. /\ s' \in Buffer /\ PositionsAgree(s') /\ u' \in Buffer
        /\ u'.availability = s'.availability
        /\ u'.readIndex = s'.readIndex /\ u'.writeIndex = s'.writeIndex
    <3>1. /\ u.availability = s.availability
          /\ u.readIndex = s.readIndex /\ u.writeIndex = s.writeIndex
      BY <1>A, StreamFacts
    <3>2. /\ s' \in Buffer /\ PositionsAgree(s')
          /\ s'.availability = s.availability - 1 /\ s'.readIndex = s.readIndex
          /\ s'.writeIndex = (s.writeIndex + 1) % SlotCount
      BY <2>1, <2>2, NextAvailableFields, NextAvailablePositions
    <3>3. /\ u' \in Buffer
          /\ u'.availability = u.availability - 1 /\ u'.readIndex = u.readIndex
          /\ u'.writeIndex = (u.writeIndex + 1) % SlotCount
      BY <2>1, <2>2, NextAvailableFields
    <3> QED BY <3>1, <3>2, <3>3
  <2>4. /\ backlog \in Seq(Packet)
        /\ n = Unsent(s) /\ n \in 0 .. HeadLength - 1
    BY <2>2, BacklogType, BacklogTests, SlotCountType
  <2>5. /\ Backlog(s') = Append(backlog, packet)
        /\ Backlog(u') = Append(backlog, packet)
    BY <2>1, <2>2, WriteAppends
  <2>6. Unsent(s') = n + 1
    BY <2>1, <2>3, <2>4, <2>5, BacklogType
  <2>7. n \in 0 .. SlotCount - 1 /\ out \in SeqNum /\ out' = out
    BY <2>4, SlotCountType DEF TypeOK, Write
  <2>8. CountersInStep'
    <3>1. rtpSeqNumIncoming = (out + n) % SeqModulus
      BY <1>A, <2>4 DEF StreamInv, CountersInStep
    <3>2. rtpSeqNumIncoming' = (out + (n + 1)) % SeqModulus
      BY <2>7, <3>1, SeqStep DEF Write
    <3>3. Backlog(rtpDataSecured)' = Backlog(s') /\ Backlog(rtpDataUnsecured)' = Backlog(u')
      BY DEF Backlog, Unsent
    <3> QED BY <2>3, <2>5, <2>6, <2>7, <3>2, <3>3
            DEF CountersInStep, PositionsAgree, Unsent
  <2>9. BacklogInSequence'
    <3> DEFINE after == Append(backlog, packet)
    <3>1. /\ Len(after) = n + 1
          /\ \A k \in 1 .. n : after[k] = backlog[k]
          /\ after[n + 1] = packet
      BY <2>1, <2>4
    <3>2. /\ \A k \in 1 .. n :
               /\ backlog[k].seqNum = (out + (k - 1)) % SeqModulus
               /\ backlog[k].rtpTime = IF k = 1 THEN rtpTimeOutgoing
                                       ELSE NextTime(backlog[k - 1].rtpTime)
               /\ backlog[k].marker <=> k = 1 /\ sent = <<>>
          /\ isFirstDataPacket <=> n = 0 /\ sent = <<>>
          /\ rtpTimeIncoming = IF n = 0 THEN rtpTimeOutgoing
                               ELSE NextTime(backlog[n].rtpTime)
      BY <1>A, <2>4 DEF StreamInv, BacklogInSequence
    <3>3. /\ packet.seqNum = (out + n) % SeqModulus
          /\ packet.rtpTime = rtpTimeIncoming
          /\ packet.marker = isFirstDataPacket
      BY <1>A, <2>4 DEF StreamInv, CountersInStep, packet
    <3>4. /\ rtpTimeOutgoing' = rtpTimeOutgoing /\ sent' = sent
          /\ isFirstDataPacket' = FALSE
          /\ rtpTimeIncoming' = NextTime(rtpTimeIncoming)
      BY DEF Write
    <3> HIDE DEF after, backlog, n
    <3>5. ASSUME NEW k \in 1 .. n + 1
          PROVE  /\ after[k].seqNum = (out + (k - 1)) % SeqModulus
                 /\ after[k].rtpTime = IF k = 1 THEN rtpTimeOutgoing
                                       ELSE NextTime(after[k - 1].rtpTime)
                 /\ after[k].marker <=> k = 1 /\ sent = <<>>
      <4>1. CASE k \in 1 .. n
        <5>1. after[k] = backlog[k] /\ (k # 1 => after[k - 1] = backlog[k - 1])
          BY <2>7, <3>1, <4>1, SlotCountType
        <5> QED BY <3>2, <4>1, <5>1
      <4>2. CASE k = n + 1
        <5>1. after[k] = packet /\ k - 1 = n
          BY <2>7, <3>1, <4>2, SlotCountType
        <5>2. k # 1 => n \in 1 .. n /\ after[k - 1] = backlog[n]
          BY <2>7, <3>1, <4>2, <5>1, SlotCountType
        <5>3. k = 1 <=> n = 0
          BY <2>7, <4>2, SlotCountType
        <5>4. packet.marker <=> k = 1 /\ sent = <<>>
          BY <3>2, <3>3, <5>3
        <5> QED BY <3>2, <3>3, <5>1, <5>2, <5>3, <5>4
      <4>3. k \in 1 .. n \/ k = n + 1
        BY <2>7, SlotCountType
      <4> QED BY <4>1, <4>2, <4>3
    <3>6. Backlog(rtpDataSecured)' = after
      BY <2>5 DEF Backlog, Unsent, after, backlog
    <3>7. after # <<>> /\ rtpTimeIncoming' = NextTime(after[Len(after)].rtpTime)
      BY <2>7, <3>1, <3>3, <3>4, SlotCountType
    <3> QED BY <2>7, <3>1, <3>4, <3>5, <3>6, <3>7 DEF BacklogInSequence
  <2>10. MemoryInSequence'
    <3>1. ASSUME NEW age \in 1 .. Len(sent)
          PROVE  /\ PrevBuffered(s', age) = PrevBuffered(s, age)
                 /\ PrevBuffered(u', age) = PrevBuffered(u, age)
      <4>1. age \in 1 .. TailLength
        BY SlotCountType DEF TypeOK
      <4> QED BY <2>1, <2>2, <4>1, WriteRemembers
    <3>2. sent' = sent
      BY DEF Write
    <3> QED BY <1>A, <2>7, <3>1, <3>2 DEF StreamInv, MemoryInSequence, PrevBuffered
  <2> QED BY <2>8, <2>9, <2>10 DEF StreamInv
<1> QED BY <1>0, <1>A

-----------------------------------------------------------------------------
(* sendDataPacket() sends the head of the backlog under the outgoing       *)
(* number and remembers it as the youngest packet of the tail.             *)
LEMMA SendKeepsStream ==
  ASSUME TypeOK, StreamInv, SendDataPacket
  PROVE  StreamInv'
<1> DEFINE s == rtpDataSecured
           u == rtpDataUnsecured
           out == rtpSeqNumOutgoing
           backlog == Backlog(rtpDataSecured)
           n == Len(backlog)
           packet == NextPacket(rtpDataSecured)
<1>0. CASE ~Settled
  <2>1. ~Settled'
    BY <1>0 DEF SendDataPacket, Tear, Settled, TypeOK
  <2> QED BY <2>1, StreamUnsettled
<1>A. CASE Settled
  <2>1. /\ s \in Buffer /\ PositionsAgree(s) /\ CanRead(s)
        /\ u \in Buffer /\ PositionsAgree(u) /\ CanRead(u)
        /\ Backlog(u) = backlog
        /\ s' = NextBuffered(s) /\ u' = NextBuffered(u)
    BY <1>A, StreamFacts DEF SendDataPacket, MaySend
  <2>2. /\ s' \in Buffer /\ PositionsAgree(s') /\ u' \in Buffer
        /\ u'.availability = s'.availability
        /\ u'.readIndex = s'.readIndex /\ u'.writeIndex = s'.writeIndex
    <3>1. /\ u.availability = s.availability
          /\ u.readIndex = s.readIndex /\ u.writeIndex = s.writeIndex
      BY <1>A, StreamFacts
    <3>2. /\ s' \in Buffer /\ PositionsAgree(s')
          /\ s'.availability = s.availability + 1 /\ s'.writeIndex = s.writeIndex
          /\ s'.readIndex = (s.readIndex + 1) % SlotCount
      BY <2>1, NextBufferedFields, NextBufferedPositions
    <3>3. /\ u' \in Buffer
          /\ u'.availability = u.availability + 1 /\ u'.writeIndex = u.writeIndex
          /\ u'.readIndex = (u.readIndex + 1) % SlotCount
      BY <2>1, NextBufferedFields
    <3> QED BY <3>1, <3>2, <3>3
  <2>3. /\ backlog \in Seq(Packet)
        /\ n = Unsent(s) /\ n \in 1 .. HeadLength
        /\ packet = Head(backlog) /\ packet = backlog[1] /\ packet \in Packet
        /\ NextPacket(u) = packet
    <3>1. /\ backlog \in Seq(Packet) /\ n = Unsent(s) /\ n \in 0 .. HeadLength
          /\ packet = Head(backlog) /\ backlog # <<>>
          /\ NextPacket(u) = Head(backlog)
      BY <2>1, BacklogType, BacklogTests
    <3> QED BY <3>1, SlotCountType
  <2>4. Backlog(s') = Tail(backlog) /\ Backlog(u') = Tail(backlog)
    BY <2>1, ReadTakesHead
  <2>5. Unsent(s') = n - 1
    <3>1. Len(Backlog(s')) = n - 1
      BY <2>3, <2>4, SlotCountType
    <3> QED BY <2>2, <3>1, BacklogType
  <2>6. /\ n - 1 \in 0 .. SlotCount - 1 /\ 0 \in 0 .. SlotCount - 1
        /\ out \in SeqNum /\ out' = NextSeqNum(out)
    BY <2>3, SlotCountType DEF TypeOK, SendDataPacket
  <2>7. /\ sent' \in Seq(Packet) /\ sent' # <<>> /\ Len(sent') <= TailLength
        /\ Len(sent') = IF Len(sent) < TailLength THEN Len(sent) + 1 ELSE TailLength
        /\ \A age \in 1 .. Len(sent') :
             sent'[age] = IF age = 1 THEN packet ELSE sent[age - 1]
    <3>1. sent \in Seq(Packet) /\ Len(sent) <= TailLength
      BY DEF TypeOK
    <3>2. sent' = Remember(sent, packet)
      BY <1>A DEF SendDataPacket
    <3>3. /\ sent' \in Seq(Packet)
          /\ Len(sent') = IF Len(sent) < TailLength THEN Len(sent) + 1 ELSE TailLength
          /\ \A age \in 1 .. Len(sent') :
               sent'[age] = IF age = 1 THEN packet ELSE sent[age - 1]
      BY <2>3, <3>1, <3>2, RememberLength
    <3>4. Len(sent') > 0 /\ Len(sent') <= TailLength
      BY <3>1, <3>3, Moduli, SlotCountType
    <3> QED BY <3>3, <3>4
  <2>8. CountersInStep'
    <3>1. rtpSeqNumIncoming = (out + ((n - 1) + 1)) % SeqModulus
      <4>1. (n - 1) + 1 = n
        BY <2>3, SlotCountType
      <4> QED BY <1>A, <2>3, <4>1 DEF StreamInv, CountersInStep
    <3>2. rtpSeqNumIncoming' = (out' + (n - 1)) % SeqModulus
      BY <2>6, <3>1, SeqStep DEF SendDataPacket
    <3>3. Backlog(rtpDataSecured)' = Backlog(s') /\ Backlog(rtpDataUnsecured)' = Backlog(u')
      BY DEF Backlog, Unsent
    <3> QED BY <2>2, <2>4, <2>5, <3>2, <3>3 DEF CountersInStep, PositionsAgree, Unsent
  <2>9. /\ \A k \in 1 .. n :
             /\ backlog[k].seqNum = (out + (k - 1)) % SeqModulus
             /\ backlog[k].rtpTime = IF k = 1 THEN rtpTimeOutgoing
                                     ELSE NextTime(backlog[k - 1].rtpTime)
             /\ backlog[k].marker <=> k = 1 /\ sent = <<>>
        /\ isFirstDataPacket <=> n = 0 /\ sent = <<>>
        /\ rtpTimeIncoming = IF n = 0 THEN rtpTimeOutgoing
                             ELSE NextTime(backlog[n].rtpTime)
    BY <1>A, <2>3 DEF StreamInv, BacklogInSequence
  <2>10. BacklogInSequence'
    <3> DEFINE after == Tail(backlog)
    <3>1. /\ Len(after) = n - 1
          /\ \A k \in 1 .. n - 1 : after[k] = backlog[k + 1]
      BY <2>3, SlotCountType
    <3>2. /\ rtpTimeOutgoing' = NextTime(rtpTimeOutgoing)
          /\ rtpTimeIncoming' = rtpTimeIncoming
          /\ isFirstDataPacket' = isFirstDataPacket
      BY DEF SendDataPacket
    <3>3. Backlog(rtpDataSecured)' = after
      BY <2>4 DEF Backlog, Unsent
    <3>4. 1 \in 1 .. n /\ n \in 1 .. n /\ backlog[1].rtpTime = rtpTimeOutgoing
      BY <2>3, <2>9, SlotCountType
    <3> HIDE DEF after, backlog, n
    <3>5. ASSUME NEW k \in 1 .. n - 1
          PROVE  /\ after[k].seqNum = (out' + (k - 1)) % SeqModulus
                 /\ after[k].rtpTime = IF k = 1 THEN rtpTimeOutgoing'
                                       ELSE NextTime(after[k - 1].rtpTime)
                 /\ after[k].marker <=> k = 1 /\ sent' = <<>>
      <4>1. /\ k + 1 \in 1 .. n /\ k + 1 # 1 /\ k + 1 - 1 = k
            /\ k - 1 \in 0 .. SlotCount - 1 /\ (k - 1) + 1 = k
            /\ k # 1 => k - 1 \in 1 .. n - 1
        BY <2>3, SlotCountType
      <4>2. /\ backlog[k + 1].seqNum = (out + k) % SeqModulus
            /\ backlog[k + 1].rtpTime = NextTime(backlog[k].rtpTime)
            /\ ~backlog[k + 1].marker
        BY <2>9, <4>1
      <4>3. (out' + (k - 1)) % SeqModulus = (out + k) % SeqModulus
        BY <2>6, <4>1, SeqStep
      <4>4. backlog[k].rtpTime = IF k = 1 THEN rtpTimeOutgoing
                                 ELSE after[k - 1].rtpTime
        BY <3>1, <3>4, <4>1
      <4>5. after[k] = backlog[k + 1]
        BY <3>1
      <4>6. after[k].seqNum = (out' + (k - 1)) % SeqModulus
        BY <4>2, <4>3, <4>5
      <4>7. after[k].rtpTime = IF k = 1 THEN rtpTimeOutgoing'
                               ELSE NextTime(after[k - 1].rtpTime)
        BY <3>2, <4>2, <4>4, <4>5
      <4> QED BY <2>7, <4>2, <4>5, <4>6, <4>7
    <3>6. ~isFirstDataPacket' /\ sent' # <<>>
      BY <2>3, <2>7, <2>9, <3>2
    <3>7. rtpTimeIncoming' = IF after = <<>> THEN rtpTimeOutgoing'
                             ELSE NextTime(after[Len(after)].rtpTime)
      <4>1. CASE n = 1
        BY <2>3, <2>9, <3>1, <3>2, <3>4, <4>1 DEF after
      <4>2. CASE n > 1
        <5>1. after # <<>> /\ n - 1 \in 1 .. n - 1 /\ n - 1 + 1 = n
          BY <2>3, <3>1, <4>2, SlotCountType
        <5>2. after[Len(after)] = backlog[n]
          BY <3>1, <5>1
        <5> QED BY <2>3, <2>9, <3>2, <4>2, <5>1, <5>2
      <4>3. n = 1 \/ n > 1
        BY <2>3, SlotCountType
      <4> QED BY <4>1, <4>2, <4>3
    <3> QED BY <3>1, <3>3, <3>5, <3>6, <3>7 DEF BacklogInSequence
  <2>11. MemoryInSequence'
    <3>1. ASSUME NEW age \in 1 .. Len(sent')
          PROVE  /\ PrevBuffered(s', age) = sent'[age]
                 /\ PrevBuffered(u', age) = sent'[age]
                 /\ (sent'[age].seqNum + age) % SeqModulus = out'
      <4>1. age \in 1 .. TailLength
        BY <2>7, SlotCountType
      <4>2. CASE age = 1
        <5>1. /\ PrevBuffered(s', age) = packet /\ sent'[age] = packet
              /\ PrevBuffered(u', age) = packet
          BY <2>1, <2>3, <2>7, <4>1, <4>2, ReadRemembers
        <5>2. packet.seqNum = (out + 0) % SeqModulus
          BY <2>3, <2>9
        <5>3. packet.seqNum = out
          BY <2>6, <5>2, SeqZero
        <5> QED BY <2>6, <4>2, <5>1, <5>3 DEF NextSeqNum
      <4>3. CASE age # 1
        <5>1. age - 1 \in 1 .. Len(sent) /\ age - 1 \in 0 .. SlotCount - 1
              /\ (age - 1) + 1 = age
          BY <2>7, <4>1, <4>3, SlotCountType DEF TypeOK
        <5>2. /\ PrevBuffered(s', age) = PrevBuffered(s, age - 1)
              /\ PrevBuffered(u', age) = PrevBuffered(u, age - 1)
              /\ sent'[age] = sent[age - 1]
          BY <2>1, <2>7, <4>1, <4>3, ReadRemembers
        <5>3. /\ PrevBuffered(s, age - 1) = sent[age - 1]
              /\ PrevBuffered(u, age - 1) = sent[age - 1]
              /\ (sent[age - 1].seqNum + (age - 1)) % SeqModulus = out
          BY <1>A, <5>1 DEF StreamInv, MemoryInSequence
        <5>4. sent[age - 1].seqNum \in SeqNum
          <6>1. sent[age - 1] \in Packet
            BY <5>1, SlotCountType DEF TypeOK
          <6> QED BY <6>1, PacketAssumption DEF DataPacket
        <5>5. (sent[age - 1].seqNum + age) % SeqModulus = NextSeqNum(out)
          BY <5>1, <5>3, <5>4, SeqStep
        <5> QED BY <2>6, <5>2, <5>3, <5>5
      <4> QED BY <4>2, <4>3
    <3> QED BY <3>1 DEF MemoryInSequence, PrevBuffered
  <2> QED BY <2>8, <2>10, <2>11 DEF StreamInv
<1> QED BY <1>0, <1>A

(* When counters and buffers are in step, neither write() nor              *)
(* sendDataPacket() throws between the two rings.                          *)
LEMMA HalfMeansUnsettled ==
  ASSUME TypeOK, StreamInv, WriteFails \/ SendFails
  PROVE  ~Settled /\ ~Settled'
<1>1. ~Settled
  BY StreamFacts DEF WriteFails, SendFails, MaySend
<1>2. UNCHANGED <<initializing, torn>>
  BY DEF WriteFails, SendFails
<1> QED BY <1>1, <1>2 DEF Settled

-----------------------------------------------------------------------------
(* What reinit() has put in order so far, unless somebody disturbs it.     *)
ReinitInStep ==
  /\ initializing = "stopped" /\ isFirstDataPacket => ~sending
  /\ isFirstDataPacket => ~unstarted
  /\ torn = 0 /\ initializing \in HalfDone =>
       rtpSeqNumIncoming = rtpSeqNumOutgoing /\ sent = <<>>
  /\ torn = 0 /\ initializing \in {"timed", "first", "unsecured"} =>
       rtpTimeIncoming = rtpTimeOutgoing
  /\ torn = 0 /\ initializing \in {"first", "unsecured"} => isFirstDataPacket
  /\ torn = 0 /\ initializing = "unsecured" =>
       /\ rtpDataUnsecured.availability = HeadLength
       /\ rtpDataUnsecured.readIndex = 0 /\ rtpDataUnsecured.writeIndex = 0
  /\ initializing = "done" => raopDevices = {}

LEMMA ReinitStepKeeps ==
  ASSUME TypeOK, ReinitInStep, Reinit
  PROVE  ReinitInStep'
<1> USE DEF ReinitInStep, HalfDone
<1>1. CASE ReinitStop
  BY <1>1 DEF ReinitStop
<1>2. CASE ReinitThrows
  BY <1>2 DEF ReinitThrows
<1>3. ASSUME NEW seqNum \in StartingSeqNum, ReinitSeqNum(seqNum)
      PROVE  ReinitInStep'
  BY <1>3 DEF ReinitSeqNum
<1>4. ASSUME NEW time \in StartingTime, ReinitTime(time)
      PROVE  ReinitInStep'
  BY <1>4 DEF ReinitTime
<1>5. CASE ReinitFirst
  BY <1>5 DEF ReinitFirst
<1>6. CASE ReinitUnsecured
  <2>1. /\ rtpDataUnsecured'.availability = HeadLength
        /\ rtpDataUnsecured'.readIndex = 0 /\ rtpDataUnsecured'.writeIndex = 0
    BY <1>6, ResetFields DEF ReinitUnsecured, TypeOK
  <2> QED BY <1>6, <2>1 DEF ReinitUnsecured
<1>7. CASE ReinitSecured
  BY <1>7 DEF ReinitSecured
<1>8. CASE ReinitDevices
  BY <1>8 DEF ReinitDevices
<1> QED BY <1>1, <1>2, <1>3, <1>4, <1>5, <1>6, <1>7, <1>8 DEF Reinit

LEMMA ReinitStaysInStep ==
  ASSUME TypeOK, ReinitInStep, [Next]_vars
  PROVE  ReinitInStep'
<1> USE DEF ReinitInStep, HalfDone
<1>1. ASSUME NEW audio \in Audio, Write(audio)
      PROVE  ReinitInStep'
  <2>1. torn' = 0 => initializing' \notin HalfDone
    BY <1>1 DEF Write, Tear, Settled, TypeOK
  <2> QED BY <1>1, <2>1 DEF Write
<1>2. CASE Flush
  BY <1>2 DEF Flush, stream
<1>3. CASE Reset
  <2>1. /\ rtpDataUnsecured'.availability = HeadLength
        /\ rtpDataUnsecured'.readIndex = 0 /\ rtpDataUnsecured'.writeIndex = 0
    BY <1>3, ResetFields DEF Reset, TypeOK
  <2> QED BY <1>3, <2>1 DEF Reset
<1>4. CASE Reinit
  BY <1>4, ReinitStepKeeps
<1>5. ASSUME NEW device \in Device, Open(device) \/ OpenFails(device)
      PROVE  ReinitInStep'
  <2>1. initializing' = "no" /\ isFirstDataPacket' = isFirstDataPacket
    BY <1>5 DEF Open, OpenFails
  <2>2. isFirstDataPacket' => ~unstarted'
    BY <1>5 DEF Open, OpenFails
  <2> QED BY <2>1, <2>2
<1>6. ASSUME NEW device \in Device, Close(device)
      PROVE  ReinitInStep'
  BY <1>6 DEF Close, stream
<1>7. ASSUME NEW device \in Device, ConnectionLost(device)
      PROVE  ReinitInStep'
  BY <1>7 DEF ConnectionLost, stream
<1>8. CASE SendSyncPacket
  BY <1>8 DEF SendSyncPacket, stream
<1>9. CASE SendDataPacket
  <2>1. torn' = 0 => initializing' \notin HalfDone
    BY <1>9 DEF SendDataPacket, Tear, Settled, TypeOK
  <2> QED BY <1>9, <2>1 DEF SendDataPacket
<1>10. CASE WriteFails
  BY <1>10 DEF WriteFails
<1>11. CASE SendFails
  BY <1>11 DEF SendFails
<1>12. CASE UNCHANGED vars
  BY <1>12 DEF vars, stream
<1> QED BY <1>1, <1>2, <1>3, <1>4, <1>5, <1>6, <1>7, <1>8, <1>9, <1>10, <1>11,
           <1>12 DEF Next

-----------------------------------------------------------------------------
(* What holds of the packets whatever the devices and the sender do.       *)
LEMMA StreamStep ==
  ASSUME TypeOK, StreamInv, ReinitInStep, [Next]_vars
  PROVE  StreamInv'
<1>1. ASSUME NEW audio \in Audio, Write(audio)
      PROVE  StreamInv'
  BY <1>1, WriteKeepsStream
<1>2. CASE Flush \/ SendSyncPacket \/ UNCHANGED vars
  <2>1. UNCHANGED <<stream, isFirstDataPacket, initializing>>
    BY <1>2 DEF Flush, SendSyncPacket, vars
  <2>2. Settled' => Settled
    BY <2>1 DEF Settled, stream
  <2> QED BY <2>1, <2>2, StreamUntouched
<1>3. CASE Reset
  <2>1. /\ rtpDataSecured' \in Buffer /\ rtpDataSecured'.availability = HeadLength
        /\ rtpDataSecured'.readIndex = 0 /\ rtpDataSecured'.writeIndex = 0
        /\ rtpDataUnsecured' \in Buffer /\ rtpDataUnsecured'.availability = HeadLength
        /\ rtpDataUnsecured'.readIndex = 0 /\ rtpDataUnsecured'.writeIndex = 0
    BY <1>3, ResetFields DEF Reset, TypeOK
  <2> QED BY <1>3, <2>1, StreamCleared DEF Reset, TypeOK
<1>4. CASE ReinitStop \/ ReinitThrows \/ ReinitDevices
  <2>1. /\ UNCHANGED <<stream, isFirstDataPacket>>
        /\ initializing \in {"no", "stopped", "secured"}
    BY <1>4 DEF ReinitStop, ReinitThrows, ReinitDevices
  <2>2. Settled' => Settled
    BY <2>1 DEF Settled, stream, HalfDone
  <2> QED BY <2>1, <2>2, StreamUntouched
<1>5. ASSUME \/ \E seqNum \in StartingSeqNum : ReinitSeqNum(seqNum)
             \/ \E time \in StartingTime : ReinitTime(time)
             \/ ReinitFirst \/ ReinitUnsecured
      PROVE  StreamInv'
  <2>1. ~Settled'
    BY <1>5 DEF ReinitSeqNum, ReinitTime, ReinitFirst, ReinitUnsecured, Settled,
                HalfDone
  <2> QED BY <2>1, StreamUnsettled
<1>6. CASE ReinitSecured
  <2>1. CASE torn = 0
    <3>1. /\ rtpDataSecured' \in Buffer /\ rtpDataSecured'.availability = HeadLength
          /\ rtpDataSecured'.readIndex = 0 /\ rtpDataSecured'.writeIndex = 0
      BY <1>6, ResetFields DEF ReinitSecured, TypeOK
    <3>2. /\ rtpDataUnsecured' \in Buffer /\ rtpDataUnsecured'.availability = HeadLength
          /\ rtpDataUnsecured'.readIndex = 0 /\ rtpDataUnsecured'.writeIndex = 0
          /\ rtpSeqNumIncoming' = rtpSeqNumOutgoing' /\ rtpSeqNumOutgoing' \in SeqNum
          /\ rtpTimeIncoming' = rtpTimeOutgoing'
          /\ isFirstDataPacket' = TRUE /\ sent' = <<>>
      BY <1>6, <2>1 DEF ReinitSecured, ReinitInStep, HalfDone, TypeOK
    <3> QED BY <3>1, <3>2, StreamCleared
  <2>2. CASE torn # 0
    <3>1. ~Settled'
      BY <1>6, <2>2 DEF ReinitSecured, Settled
    <3> QED BY <3>1, StreamUnsettled
  <2> QED BY <2>1, <2>2
<1>7. ASSUME NEW device \in Device,
             \/ Open(device) \/ OpenFails(device)
             \/ Close(device) \/ ConnectionLost(device)
      PROVE  StreamInv'
  <2>1. /\ UNCHANGED <<stream, isFirstDataPacket>>
        /\ UNCHANGED initializing \/ initializing \in {"no", "done"}
    BY <1>7 DEF Open, OpenFails, Close, ConnectionLost
  <2>2. Settled' => Settled
    BY <2>1 DEF Settled, stream, HalfDone
  <2> QED BY <2>1, <2>2, StreamUntouched
<1>8. CASE SendDataPacket
  BY <1>8, SendKeepsStream
<1>9. CASE WriteFails \/ SendFails
  BY <1>9, HalfMeansUnsettled, StreamUnsettled
<1> QED BY <1>1, <1>2, <1>3, <1>4, <1>5, <1>6, <1>7, <1>8, <1>9 DEF Next, Reinit

-----------------------------------------------------------------------------
(* What a step may do to the sender.                                       *)
LEMMA SenderStep ==
  ASSUME TypeOK, SenderRunsWhenNeeded, ReinitInStep, [Next]_vars
  PROVE  SenderRunsWhenNeeded'
<1> USE DEF SenderRunsWhenNeeded
<1>1. ASSUME NEW audio \in Audio, Write(audio)
      PROVE  SenderRunsWhenNeeded'
  BY <1>1 DEF Write, TypeOK
<1>2. CASE Flush
  BY <1>2 DEF Flush, stream
<1>3. CASE Reset
  BY <1>3 DEF Reset
<1>4. CASE Reinit
  <2>1. CASE ReinitStop
    BY <2>1 DEF ReinitStop, stream
  <2>2. CASE ReinitThrows
    BY <2>2 DEF ReinitThrows, stream
  <2>3. ASSUME NEW seqNum \in StartingSeqNum, ReinitSeqNum(seqNum)
        PROVE  SenderRunsWhenNeeded'
    BY <2>3 DEF ReinitSeqNum, ReinitInStep
  <2>4. ASSUME NEW time \in StartingTime, ReinitTime(time)
        PROVE  SenderRunsWhenNeeded'
    BY <2>4 DEF ReinitTime
  <2>5. CASE ReinitFirst
    BY <2>5 DEF ReinitFirst
  <2>6. CASE ReinitUnsecured \/ ReinitSecured
    BY <2>6 DEF ReinitUnsecured, ReinitSecured
  <2>7. CASE ReinitDevices
    BY <2>7 DEF ReinitDevices, stream
  <2> QED BY <1>4, <2>1, <2>2, <2>3, <2>4, <2>5, <2>6, <2>7 DEF Reinit
<1>5. ASSUME NEW device \in Device, Open(device)
      PROVE  SenderRunsWhenNeeded'
  BY <1>5 DEF Open, ReinitInStep, stream, TypeOK
<1>6. ASSUME NEW device \in Device, OpenFails(device)
      PROVE  SenderRunsWhenNeeded'
  BY <1>6 DEF OpenFails, ReinitInStep, stream
<1>7. ASSUME NEW device \in Device, Close(device)
      PROVE  SenderRunsWhenNeeded'
  <2>1. /\ isFirstDataPacket' = isFirstDataPacket /\ torn' = torn
        /\ initializing' = initializing /\ unstarted' = unstarted
        /\ raopDevices' # {} => raopDevices # {}
        /\ sending' <=> sending /\ raopDevices' # {}
    BY <1>7 DEF Close, TypeOK, stream
  <2> QED BY <2>1
<1>8. ASSUME NEW device \in Device, ConnectionLost(device)
      PROVE  SenderRunsWhenNeeded'
  BY <1>8 DEF ConnectionLost, stream
<1>9. CASE SendSyncPacket
  BY <1>9 DEF SendSyncPacket, stream
<1>10. CASE SendDataPacket
  <2>1. torn' = 0 => torn = 0
    BY <1>10 DEF SendDataPacket, Tear, Settled, TypeOK
  <2> QED BY <1>10, <2>1 DEF SendDataPacket
<1>11. CASE WriteFails \/ SendFails
  <2>1. UNCHANGED <<initializing, raopDevices, isFirstDataPacket, sending,
                    unstarted, torn>>
    BY <1>11 DEF WriteFails, SendFails
  <2> QED BY <2>1
<1>12. CASE UNCHANGED vars
  BY <1>12 DEF vars, stream
<1> QED BY <1>1, <1>2, <1>3, <1>4, <1>5, <1>6, <1>7, <1>8, <1>9, <1>10, <1>11,
           <1>12 DEF Next

(* What a step may do to the devices.                                      *)
LEMMA DevicesStep ==
  ASSUME TypeOK, OpenDevicesAttached, [Next]_vars
  PROVE  OpenDevicesAttached'
<1> USE DEF OpenDevicesAttached, IsOpen, connections
<1>1. ASSUME NEW audio \in Audio, Write(audio)
      PROVE  OpenDevicesAttached'
  BY <1>1 DEF Write
<1>2. CASE Flush \/ Reset
  BY <1>2 DEF Flush, Reset
<1>3. CASE Reinit
  <2>1. CASE ReinitDevices
    BY <2>1 DEF ReinitDevices, TypeOK
  <2>2. CASE ~ReinitDevices
    <3>1. UNCHANGED <<raopDevices, connections>>
      BY <1>3, <2>2 DEF Reinit, ReinitStop, ReinitThrows, ReinitSeqNum, ReinitTime,
                        ReinitFirst, ReinitUnsecured, ReinitSecured
    <3> QED BY <3>1
  <2> QED BY <2>1, <2>2
<1>4. ASSUME NEW device \in Device,
             \/ Open(device) \/ OpenFails(device)
             \/ Close(device) \/ ConnectionLost(device)
      PROVE  OpenDevicesAttached'
  BY <1>4 DEF Open, OpenFails, Close, ConnectionLost, TypeOK
<1>5. CASE SendSyncPacket \/ SendDataPacket \/ UNCHANGED vars
  BY <1>5 DEF SendSyncPacket, SendDataPacket, vars
<1>6. CASE WriteFails \/ SendFails
  BY <1>6 DEF WriteFails, SendFails
<1> QED BY <1>1, <1>2, <1>3, <1>4, <1>5, <1>6 DEF Next

-----------------------------------------------------------------------------
(* The inductive invariant.  A new engine has nothing waiting, nothing to  *)
(* remember and no devices; its counters are in step with nothing.         *)
EngineInv == Inv /\ ReinitInStep

LEMMA EngineInitially ==
  ASSUME Init
  PROVE  EngineInv
<1>1. ~Settled
  BY DEF Init, Settled
<1>2. TypeOK
  <2>1. /\ NewBuffer \in Buffer /\ 1 \in 0 .. MaxTorn /\ 0 \in 0 .. MaxResets
        /\ <<>> \in Seq(Packet) /\ Len(<<>>) <= TailLength
    BY NewBufferType, BoundAssumption, SlotCountType
  <2> QED BY <2>1 DEF Init, TypeOK, HalfDone
<1>3. CountersInStep /\ BacklogInSequence /\ MemoryInSequence
  BY <1>1 DEF CountersInStep, BacklogInSequence, MemoryInSequence
<1>4. SenderRunsWhenNeeded /\ OpenDevicesAttached
  BY DEF Init, SenderRunsWhenNeeded, OpenDevicesAttached
<1>5. ReinitInStep
  BY DEF Init, ReinitInStep, HalfDone
<1> QED BY <1>2, <1>3, <1>4, <1>5 DEF EngineInv, Inv

LEMMA EngineStep ==
  ASSUME EngineInv, [Next]_vars
  PROVE  EngineInv'
<1>1. /\ TypeOK /\ StreamInv /\ ReinitInStep
      /\ SenderRunsWhenNeeded /\ OpenDevicesAttached
  BY DEF EngineInv, Inv, StreamInv
<1>2. TypeOK' /\ StreamInv' /\ ReinitInStep'
  BY <1>1, TypeStep, StreamStep, ReinitStaysInStep
<1>3. SenderRunsWhenNeeded' /\ OpenDevicesAttached'
  BY <1>1, SenderStep, DevicesStep
<1> QED BY <1>2, <1>3 DEF EngineInv, Inv, StreamInv

(* The invariant of the engine, for every number of devices, every length  *)
(* of the buffers and every width of the counters, wherever the player and *)
(* the sender run between the steps of reinit(): the two buffers and the   *)
(* four counters are in step whenever reinit() was not disturbed, and are  *)
(* put in step again by the next reset() or reinit() where it was          *)
(* (RAOPEngine.cpp:318-432, 498-587, 728-775).                             *)
THEOREM EngineInvariant == Spec => []EngineInv
<1>1. Init => EngineInv
  BY EngineInitially
<1>2. EngineInv /\ [Next]_vars => EngineInv'
  BY EngineStep
<1> QED BY <1>1, <1>2, PTL DEF Spec

(* What the invariant is made of.  First, everything has its type; numbers *)
(* and times stay within 16 and 32 bits (RAOPEngine.cpp:565-569).          *)
THEOREM TypesCorrect == Spec => []TypeOK
<1>1. EngineInv => TypeOK
  BY DEF EngineInv, Inv
<1> QED BY <1>1, EngineInvariant, PTL

(* Incoming and outgoing counters differ by what waits in both buffers,    *)
(* unless reinit() is half done or was disturbed (RAOPEngine.cpp:318-432,  *)
(* 565-569, 703-713).                                                      *)
THEOREM CountersStayInStep == Spec => []CountersInStep
<1>1. EngineInv => CountersInStep
  BY DEF EngineInv, Inv
<1> QED BY <1>1, EngineInvariant, PTL

(* Packets that wait are numbered without a gap, across both wraps, with   *)
(* the same exception (RAOPEngine.cpp:318-432, 512-569, 604-637).          *)
THEOREM BacklogNumbered == Spec => []BacklogInSequence
<1>1. EngineInv => BacklogInSequence
  BY DEF EngineInv, Inv
<1> QED BY <1>1, EngineInvariant, PTL

(* What lies behind the readers of both rings is what was sent, under its  *)
(* number, with the same exception (PacketBuffer.cpp:92-107).              *)
THEOREM MemoryNumbered == Spec => []MemoryInSequence
<1>1. EngineInv => MemoryInSequence
  BY DEF EngineInv, Inv
<1> QED BY <1>1, EngineInvariant, PTL

(* A stream that has begun, with a device to send it to, has a sender,     *)
(* with the exceptions that SenderRunsWhenNeeded names: reinit() under way *)
(* or failed, a sender that could not be created, a last device lost and   *)
(* another gained without reinit(), a sender started behind reinit()       *)
(* (RAOPEngine.cpp:318-327, 571-576, 656-669).                             *)
THEOREM StreamHasSender == Spec => []SenderRunsWhenNeeded
<1>1. EngineInv => SenderRunsWhenNeeded
  BY DEF EngineInv, Inv
<1> QED BY <1>1, EngineInvariant, PTL

(* No device that was opened is taken off the engine's list                *)
(* (DeviceManager.cpp:367-371, RAOPEngine.cpp:640-669).                    *)
THEOREM DevicesStayAttached == Spec => []OpenDevicesAttached
<1>1. EngineInv => OpenDevicesAttached
  BY DEF EngineInv, Inv
<1> QED BY <1>1, EngineInvariant, PTL

Devices == INSTANCE AttachedDevices WITH attached <- raopDevices

(* The engine leaves to its environment nothing about the devices but what *)
(* the device manager does (DeviceManagerProofs): the list begins anew     *)
(* when none is open, and loses devices that are closed or found lost      *)
(* (DeviceManager.cpp:363-373, RAOPEngine.cpp:425, 590-669).               *)
THEOREM EngineServesDevices == Spec => Devices!Spec
<1>1. Init => Devices!Init
  BY DEF Init, Devices!Init
<1>2. EngineInv /\ [Next]_vars => [Devices!Next]_(Devices!vars)
  <2> SUFFICES ASSUME EngineInv, [Next]_vars
               PROVE  Devices!Next \/ UNCHANGED <<open, raopDevices>>
    BY DEF Devices!vars
  <2>0. TypeOK /\ ReinitInStep
    BY DEF EngineInv, Inv
  <2>1. ASSUME NEW device \in Device, Open(device)
        PROVE  Devices!Open(device)
    <3>1. raopDevices = Devices!Kept
      BY <2>0, <2>1 DEF Open, ReinitInStep, Devices!Kept
    <3> QED BY <2>1, <3>1 DEF Open, IsOpen, Devices!Open
  <2>2. ASSUME NEW device \in Device, OpenFails(device)
        PROVE  Devices!OpenFails(device)
    BY <2>2 DEF OpenFails, IsOpen, Devices!OpenFails
  <2>3. CASE Reinit
    <3>1. CASE ReinitDevices
      BY <2>0, <3>1 DEF ReinitDevices, TypeOK, connections, Devices!Prune, Devices!Next
    <3>2. CASE ~ReinitDevices
      <4>1. UNCHANGED <<raopDevices, connections>>
        BY <2>3, <3>2 DEF Reinit, ReinitStop, ReinitThrows, ReinitSeqNum, ReinitTime,
                          ReinitFirst, ReinitUnsecured, ReinitSecured
      <4> QED BY <4>1 DEF connections
    <3> QED BY <3>1, <3>2
  <2>5. ASSUME NEW device \in Device, Close(device)
        PROVE  Devices!Close({device})
    BY <2>5 DEF Close, Devices!Close
  <2>6. ASSUME NEW device \in Device, ConnectionLost(device)
        PROVE  Devices!ConnectionLost(device)
    BY <2>6 DEF ConnectionLost, Devices!ConnectionLost
  <2>7. CASE Flush \/ Reset
    BY <2>7 DEF Flush, Reset, IsOpen, connections, Devices!Prune, Devices!Next
  <2>8. CASE \/ \E audio \in Audio : Write(audio)
             \/ WriteFails \/ SendFails
             \/ SendSyncPacket \/ SendDataPacket \/ UNCHANGED vars
    BY <2>8 DEF Write, WriteFails, SendFails, SendSyncPacket, SendDataPacket, vars,
                connections
  <2>9. \A device \in Device : {device} \in SUBSET Device
    OBVIOUS
  <2> QED BY <2>1, <2>2, <2>3, <2>5, <2>6, <2>7, <2>8, <2>9
             DEF Next, Devices!Next
<1> QED BY <1>1, <1>2, EngineInvariant, PTL DEF Spec, Devices!Spec

-----------------------------------------------------------------------------
(* What waits and what is remembered, where a step changes neither.        *)
LEMMA HistoryUntouched ==
  ASSUME UNCHANGED stream, Settled' <=> Settled
  PROVE  UNCHANGED History!vars
<1>1. /\ rtpDataSecured' = rtpDataSecured /\ rtpDataUnsecured' = rtpDataUnsecured
      /\ sent' = sent
  BY DEF stream
<1>2. /\ Backlog(rtpDataSecured)' = Backlog(rtpDataSecured)
      /\ LastRead(rtpDataUnsecured, Len(sent))' = LastRead(rtpDataUnsecured, Len(sent))
  BY <1>1 DEF Backlog, Unsent, LastRead, PrevBuffered
<1> QED BY <1>2 DEF History!vars

LEMMA HistoryUnsettled ==
  ASSUME ~Settled'
  PROVE  History!Reset
BY DEF History!Reset

(* When counters and buffers come in step again, nothing waits.            *)
LEMMA HistoryCleared ==
  ASSUME TypeOK, rtpDataSecured' = ResetBuffer(rtpDataSecured), sent' = <<>>
  PROVE  History!Reset
<1>1. Backlog(rtpDataSecured') = <<>>
  BY EmptyBacklog DEF TypeOK
<1>2. Backlog(rtpDataSecured)' = <<>>
  BY <1>1 DEF Backlog, Unsent
<1>3. LastRead(rtpDataUnsecured, Len(sent))' = <<>>
  BY DEF LastRead
<1> QED BY <1>2, <1>3 DEF History!Reset

(* A step that leaves the packets alone, or happens out of step.           *)
LEMMA HistoryStutters ==
  ASSUME \/ UNCHANGED stream /\ (Settled' <=> Settled)
         \/ ~Settled'
  PROVE  [History!Next]_(History!vars)
BY HistoryUntouched, HistoryUnsettled DEF History!Next

LEMMA WriteIsWrite ==
  ASSUME TypeOK, StreamInv, Settled, Settled', NEW audio \in Audio, Write(audio)
  PROVE  History!Next
<1> DEFINE s == rtpDataSecured
           u == rtpDataUnsecured
           packet == [seqNum  |-> rtpSeqNumIncoming,
                      rtpTime |-> rtpTimeIncoming,
                      marker  |-> isFirstDataPacket,
                      audio   |-> audio]
<1>1. packet \in Packet
  BY PacketAssumption DEF DataPacket, TypeOK
<1>2. /\ s \in Buffer /\ PositionsAgree(s) /\ CanWrite(s)
      /\ u \in Buffer /\ PositionsAgree(u) /\ CanWrite(u)
      /\ s' = NextAvailable(s, packet) /\ u' = NextAvailable(u, packet)
      /\ sent' = sent
  BY StreamFacts DEF Write
<1> HIDE DEF packet
<1>3. /\ Len(Backlog(s)) < HeadLength /\ Backlog(s') = Append(Backlog(s), packet)
      /\ Backlog(s) \in Seq(Packet)
  BY <1>1, <1>2, BacklogTests, BacklogType, WriteAppends
<1>4. \A age \in 1 .. Len(sent) : PrevBuffered(u', age) = PrevBuffered(u, age)
  <2> SUFFICES ASSUME NEW age \in 1 .. Len(sent)
               PROVE  PrevBuffered(u', age) = PrevBuffered(u, age)
    OBVIOUS
  <2>1. age \in 1 .. TailLength
    BY SlotCountType DEF TypeOK
  <2> QED BY <1>1, <1>2, <2>1, WriteRemembers
<1>5. LastRead(rtpDataUnsecured, Len(sent))' = LastRead(rtpDataUnsecured, Len(sent))
  BY <1>2, <1>4 DEF LastRead, PrevBuffered
<1>6. Backlog(rtpDataSecured)' = Append(Backlog(s), packet)
  BY <1>3 DEF Backlog, Unsent
<1>7. Len(Append(Backlog(s), packet)) > Len(Backlog(s))
  BY <1>1, <1>3
<1> QED BY <1>1, <1>3, <1>5, <1>6, <1>7 DEF History!Write, History!Next

LEMMA SendIsSend ==
  ASSUME TypeOK, StreamInv, Settled, Settled', SendDataPacket
  PROVE  History!Next
<1> DEFINE s == rtpDataSecured
           u == rtpDataUnsecured
           L == LastRead(rtpDataUnsecured, Len(sent))
<1>1. /\ s \in Buffer /\ CanRead(s) /\ s' = NextBuffered(s)
      /\ u \in Buffer /\ CanRead(u) /\ u' = NextBuffered(u)
      /\ Backlog(u) = Backlog(s)
  BY StreamFacts DEF SendDataPacket, MaySend
<1>2. /\ Backlog(s) # <<>> /\ Backlog(s') = Tail(Backlog(s))
      /\ NextPacket(u) = Head(Backlog(s)) /\ NextPacket(s) \in Packet
  BY <1>1, BacklogTests, ReadTakesHead, NextPacketType
<1>3. /\ Len(sent) \in Nat
      /\ Len(L) = Len(sent)
      /\ \A age \in 1 .. Len(sent) : L[age] = PrevBuffered(u, age)
  BY DEF LastRead, TypeOK
<1>4. Len(sent') = IF Len(sent) < TailLength THEN Len(sent) + 1 ELSE TailLength
  <2>1. sent \in Seq(Packet) /\ Len(sent) <= TailLength
    BY DEF TypeOK
  <2>2. sent' = Remember(sent, NextPacket(s))
    BY DEF SendDataPacket
  <2> QED BY <1>2, <2>1, <2>2, RememberLength
<1>5. ASSUME NEW age \in 1 .. Len(sent')
      PROVE  PrevBuffered(u', age) =
               IF age = 1 THEN Head(Backlog(s)) ELSE L[age - 1]
  <2>1. age \in 1 .. TailLength /\ (age # 1 => age - 1 \in 1 .. Len(sent))
    BY <1>3, <1>4, SlotCountType DEF TypeOK
  <2>2. PrevBuffered(u', age) =
          IF age = 1 THEN NextPacket(u) ELSE PrevBuffered(u, age - 1)
    BY <1>1, <2>1, ReadRemembers
  <2> QED BY <1>2, <1>3, <2>1, <2>2
<1>6. LastRead(rtpDataUnsecured, Len(sent))'
        = [age \in 1 .. Len(sent') |-> PrevBuffered(u', age)]
  BY DEF LastRead, PrevBuffered
<1>7. LastRead(rtpDataUnsecured, Len(sent))' =
        [age \in 1 .. (IF Len(L) < TailLength THEN Len(L) + 1 ELSE TailLength) |->
           IF age = 1 THEN Head(Backlog(s)) ELSE L[age - 1]]
  BY <1>3, <1>4, <1>5, <1>6
<1>8. Backlog(rtpDataSecured)' = Tail(Backlog(s))
  BY <1>2 DEF Backlog, Unsent
<1> QED BY <1>2, <1>7, <1>8 DEF History!Next, History!Send

(* Every step of the engine is a step of the FIFO with memory, or none:    *)
(* what the player wrote leaves in the order it was written, and only      *)
(* reset() and reinit() discard what was not sent or shorten the memory    *)
(* that resend requests are answered from.  reinit() discards it with its  *)
(* first assignment; whatever the player and the sender do until the       *)
(* engine is in step again shows as nothing waiting (RAOPEngine.cpp:318-   *)
(* 684).                                                                   *)
THEOREM EngineImplementsHistory == Spec => ImplementsHistory
<1>1. Init => History!Init
  BY DEF Init, Settled, History!Init
<1>2. EngineInv /\ [Next]_vars => [History!Next]_(History!vars)
  <2> SUFFICES ASSUME EngineInv, [Next]_vars
               PROVE  [History!Next]_(History!vars)
    OBVIOUS
  <2>0. TypeOK /\ StreamInv
    BY DEF EngineInv, Inv, StreamInv
  <2>1. ASSUME NEW audio \in Audio, Write(audio)
        PROVE  [History!Next]_(History!vars)
    <3>1. CASE Settled
      <4>1. Settled'
        BY <2>1, <3>1 DEF Write, Tear, Settled
      <4> QED BY <2>0, <2>1, <3>1, <4>1, WriteIsWrite
    <3>2. CASE ~Settled
      <4>1. ~Settled'
        BY <2>0, <2>1, <3>2 DEF Write, Tear, Settled, TypeOK
      <4> QED BY <4>1, HistoryStutters
    <3> QED BY <3>1, <3>2
  <2>2. CASE SendDataPacket
    <3>1. CASE Settled
      <4>1. Settled'
        BY <2>2, <3>1 DEF SendDataPacket, Tear, Settled
      <4> QED BY <2>0, <2>2, <3>1, <4>1, SendIsSend
    <3>2. CASE ~Settled
      <4>1. ~Settled'
        BY <2>0, <2>2, <3>2 DEF SendDataPacket, Tear, Settled, TypeOK
      <4> QED BY <4>1, HistoryStutters
    <3> QED BY <3>1, <3>2
  <2>3. CASE Reset
    <3>1. rtpDataSecured' = ResetBuffer(rtpDataSecured) /\ sent' = <<>>
      BY <2>3 DEF Reset
    <3> QED BY <2>0, <3>1, HistoryCleared DEF History!Next
  <2>4. CASE WriteFails \/ SendFails
    BY <2>0, <2>4, HalfMeansUnsettled, HistoryStutters
  <2>5. CASE Flush \/ SendSyncPacket \/ UNCHANGED vars
    <3>1. UNCHANGED stream /\ (Settled' <=> Settled)
      BY <2>5 DEF Flush, SendSyncPacket, vars, Settled, stream
    <3> QED BY <3>1, HistoryStutters
  <2>6. CASE ReinitStop \/ ReinitThrows \/ ReinitDevices
    <3>1. UNCHANGED stream /\ (Settled' <=> Settled)
      BY <2>6 DEF ReinitStop, ReinitThrows, ReinitDevices, Settled, stream, HalfDone
    <3> QED BY <3>1, HistoryStutters
  <2>7. ASSUME \/ \E seqNum \in StartingSeqNum : ReinitSeqNum(seqNum)
               \/ \E time \in StartingTime : ReinitTime(time)
               \/ ReinitFirst \/ ReinitUnsecured
        PROVE  [History!Next]_(History!vars)
    <3>1. ~Settled'
      BY <2>7 DEF ReinitSeqNum, ReinitTime, ReinitFirst, ReinitUnsecured, Settled,
                  HalfDone
    <3> QED BY <3>1, HistoryStutters
  <2>8. CASE ReinitSecured
    <3>1. CASE torn = 0
      <4>1. rtpDataSecured' = ResetBuffer(rtpDataSecured) /\ sent' = <<>>
        BY <2>8, <3>1 DEF ReinitSecured, EngineInv, ReinitInStep, HalfDone
      <4> QED BY <2>0, <4>1, HistoryCleared DEF History!Next
    <3>2. CASE torn # 0
      <4>1. ~Settled'
        BY <2>8, <3>2 DEF ReinitSecured, Settled
      <4> QED BY <4>1, HistoryStutters
    <3> QED BY <3>1, <3>2
  <2>9. ASSUME NEW device \in Device,
               \/ Open(device) \/ OpenFails(device)
               \/ Close(device) \/ ConnectionLost(device)
        PROVE  [History!Next]_(History!vars)
    <3>1. UNCHANGED stream /\ (Settled' <=> Settled)
      <4>1. /\ UNCHANGED stream
            /\ \/ UNCHANGED initializing
               \/ initializing \in {"no", "done"} /\ initializing' = "no"
        BY <2>9 DEF Open, OpenFails, Close, ConnectionLost
      <4> QED BY <4>1 DEF Settled, stream, HalfDone
    <3> QED BY <3>1, HistoryStutters
  <2> QED BY <2>1, <2>2, <2>3, <2>4, <2>5, <2>6, <2>7, <2>8, <2>9 DEF Next, Reinit
<1> QED BY <1>1, <1>2, EngineInvariant, PTL DEF Spec, ImplementsHistory, History!Spec

(* What the player sees of the engine is a queue: the same contract with   *)
(* the memory left out.                                                    *)
Queue == INSTANCE PacketHistory
           WITH Capacity   <- HeadLength,
                Memory     <- 0,
                waiting    <- IF Settled THEN Backlog(rtpDataSecured) ELSE <<>>,
                remembered <- <<>>

(* The engine keeps what playback relies on (OutputComponentProofs,        *)
(* QueueIsEngines): a packet is taken when there is room, all leave in     *)
(* order, or at once in reset() or reinit(); what is written while         *)
(* reinit() runs counts as discarded (RAOPEngine.cpp:318-725).             *)
THEOREM EngineImplementsQueue == Spec => Queue!Spec
<1>1. History!Init => Queue!Init
  BY DEF History!Init, Queue!Init
<1>2. [History!Next]_(History!vars) => [Queue!Next]_(Queue!vars)
  <2> DEFINE waiting == IF Settled THEN Backlog(rtpDataSecured) ELSE <<>>
  <2>1. ASSUME NEW packet \in Packet, History!Write(packet),
               Len(waiting') > Len(waiting)
        PROVE  Queue!Next
    <3>1. Queue!Write(packet)
      BY <2>1 DEF History!Write, Queue!Write
    <3> QED BY <2>1, <3>1 DEF Queue!Next
  <2>2. CASE History!Send
    <3>1. <<>> = [age \in 1 .. 0 |->
                    IF age = 1 THEN Head(waiting) ELSE <<>>[age - 1]]
      OBVIOUS
    <3>2. Len(<<>>) = 0
      OBVIOUS
    <3> QED BY <2>2, <3>1, <3>2 DEF History!Send, Queue!Send, Queue!Next
  <2>3. CASE History!Reset
    BY <2>3 DEF History!Reset, Queue!Reset, Queue!Next
  <2>4. CASE UNCHANGED History!vars
    BY <2>4 DEF History!vars, Queue!vars
  <2> QED BY <2>1, <2>2, <2>3, <2>4 DEF History!Next
<1> QED BY <1>1, <1>2, EngineImplementsHistory, PTL
        DEF ImplementsHistory, History!Spec, Queue!Spec

-----------------------------------------------------------------------------
(* The number of a packet that was sent age sends ago.                     *)
LEMMA NumberByAge ==
  ASSUME NEW out \in SeqNum, NEW seqNum \in SeqNum, NEW missed \in SeqNum,
         NEW age \in 1 .. TailLength, NEW i \in 0 .. age - 1,
         age = IF missed <= out THEN out - missed
                                ELSE out + (SeqModulus - 1 - missed) + 1,
         (seqNum + (age - i)) % SeqModulus = out
  PROVE  seqNum = (missed + i) % SeqModulus
<1>1. /\ age \in Nat /\ i \in Nat /\ out \in Nat /\ seqNum \in Nat /\ missed \in Nat
      /\ age - i \in 0 .. SlotCount /\ i \in 0 .. SlotCount /\ i < age
      /\ out < SeqModulus /\ seqNum < SeqModulus /\ missed < SeqModulus
  BY SlotCountType, Moduli DEF SeqNum
<1>2. (seqNum + (age - i)) % SeqModulus =
        IF seqNum + (age - i) < SeqModulus THEN seqNum + (age - i)
                                           ELSE seqNum + (age - i) - SeqModulus
  BY <1>1, SeqWrap
<1>3. (missed + i) % SeqModulus =
        IF missed + i < SeqModulus THEN missed + i ELSE missed + i - SeqModulus
  BY <1>1, SeqWrap
<1> QED BY <1>1, <1>2, <1>3, Moduli

(* The largest number of a set is the only one that is as large as all.    *)
LEMMA LargestOfInterval ==
  ASSUME NEW n \in Nat, NEW found, found = 0 .. n
  PROVE  (CHOOSE k \in found : \A m \in found : m <= k) = n
<1>1. n \in found /\ \A m \in found : m <= n
  OBVIOUS
<1>2. \A k \in found : (\A m \in found : m <= k) => k = n
  BY <1>1
<1> QED BY <1>1, <1>2

(* A resend request for packets that are remembered is answered with       *)
(* exactly the packets that were sent under the numbers asked for, in      *)
(* order, up to the last one sent (RAOPEngine.cpp:927-1012); unless         *)
(* reinit() is half done or was disturbed.                                 *)
THEOREM ResendsAreFaithful == Spec => []ResendFaithful
<1>1. EngineInv => ResendFaithful
  <2> SUFFICES ASSUME EngineInv, Settled, NEW device \in raopDevices, NEW missed \in SeqNum,
                      NEW count \in 0 .. SlotCount,
                      IsOpen(device), MissedAge(missed) \in 1 .. Len(sent)
               PROVE  ResendResponse(device, missed, count)
                        = [i \in 1 .. (IF count < MissedAge(missed) THEN count
                                                      ELSE MissedAge(missed)) |->
                             sent[MissedAge(missed) - (i - 1)]]
    BY DEF ResendFaithful
  <2> DEFINE age == MissedAge(missed)
             n == IF count < age THEN count ELSE age
             buffer == DataStream(device)
             found == {k \in 0 .. n :
                         \A i \in 0 .. k - 1 :
                           PrevBuffered(buffer, age - i).seqNum
                             = (missed + i) % SeqModulus}
  <2>1. /\ age \in 1 .. Len(sent) /\ age \in 1 .. TailLength
        /\ n \in Nat /\ n <= age /\ Len(sent) \in Nat
        /\ sent \in Seq(Packet) /\ rtpSeqNumOutgoing \in SeqNum
    BY SlotCountType DEF EngineInv, Inv, TypeOK
  <2>2. buffer = rtpDataSecured \/ buffer = rtpDataUnsecured
    BY DEF DataStream
  <2>3. age = IF missed <= rtpSeqNumOutgoing
                THEN rtpSeqNumOutgoing - missed
                ELSE rtpSeqNumOutgoing + (SeqModulus - 1 - missed) + 1
    BY DEF MissedAge
  <2> HIDE DEF age, buffer, n
  <2>4. ASSUME NEW i \in 0 .. n - 1
        PROVE  /\ PrevBuffered(buffer, age - i) = sent[age - i]
               /\ sent[age - i].seqNum = (missed + i) % SeqModulus
    <3>1. /\ age - i \in 1 .. Len(sent) /\ i \in 0 .. age - 1
      BY <2>1, SlotCountType
    <3>2. /\ PrevBuffered(buffer, age - i) = sent[age - i]
          /\ (sent[age - i].seqNum + (age - i)) % SeqModulus = rtpSeqNumOutgoing
      BY <2>2, <3>1 DEF EngineInv, Inv, MemoryInSequence
    <3>3. sent[age - i].seqNum \in SeqNum
      <4>1. sent[age - i] \in Packet
        BY <2>1, <3>1
      <4> QED BY <4>1, PacketAssumption DEF DataPacket
    <3> QED BY <2>1, <2>3, <3>1, <3>2, <3>3, NumberByAge
  <2>5. found = 0 .. n
    <3>1. ASSUME NEW k \in 0 .. n, NEW i \in 0 .. k - 1
          PROVE  PrevBuffered(buffer, age - i).seqNum = (missed + i) % SeqModulus
      <4>1. i \in 0 .. n - 1
        BY <2>1
      <4> QED BY <2>4, <4>1
    <3> QED BY <3>1
  <2> HIDE DEF found
  <2>6. FoundInPlace(buffer, missed, count) = n
    <3>1. FoundInPlace(buffer, missed, count)
            = CHOOSE k \in found : \A m \in found : m <= k
      BY DEF FoundInPlace, found, age, n
    <3> QED BY <2>1, <2>5, <3>1, LargestOfInterval
  <2>7. ResendResponse(device, missed, count)
          = [i \in 1 .. n |-> PrevBuffered(buffer, age - (i - 1))]
    BY <2>1, <2>6 DEF ResendResponse, HasPrevious, age, buffer
  <2>8. ASSUME NEW i \in 1 .. n
        PROVE  PrevBuffered(buffer, age - (i - 1)) = sent[age - (i - 1)]
    <3>1. i - 1 \in 0 .. n - 1
      BY <2>1
    <3> QED BY <2>4, <3>1
  <2> QED BY <2>7, <2>8 DEF n, age
<1> QED BY <1>1, EngineInvariant, PTL
=============================================================================
