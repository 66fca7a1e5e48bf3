------------------------- MODULE PacketBufferProofs -------------------------
(***************************************************************************)
(* Theorems about a packet buffer, for every length of head and tail: its  *)
(* inductive invariant and the refinement of PacketHistory.                *)
(***************************************************************************)
EXTENDS PacketBufferSpec, PacketBufferLemmas

(* The positions are slots of the ring and the write position is ahead of  *)
(* the read position by the unsent packets, after every sequence of        *)
(* nextAvailable(), nextBuffered() and reset() (PacketBuffer.cpp:39-89).   *)
THEOREM BufferInvariant == Spec => []Inv
<1>1. Init => Inv
  BY NewBufferType, SlotCountType DEF Init, Inv, TypeOK
<1>2. Inv /\ [Next]_vars => Inv'
  <2> SUFFICES ASSUME Inv, [Next]_vars
               PROVE  Inv'
    OBVIOUS
  <2> USE DEF Inv, TypeOK
  <2>1. ASSUME NEW packet \in Packet, Write(packet)
        PROVE  Inv'
    BY <2>1, NextAvailableFields, NextAvailablePositions DEF Write
  <2>2. CASE Read
    <3>1. buffer' \in Buffer /\ PositionsAgree(buffer')
      BY <2>2, NextBufferedFields, NextBufferedPositions DEF Read
    <3>2. kept' \in 0 .. TailLength
      BY <2>2, SlotCountType DEF Read
    <3> QED BY <3>1, <3>2
  <2>3. CASE Reset
    BY <2>3, ResetBufferType, SlotCountType DEF Reset
  <2>4. CASE UNCHANGED vars
    BY <2>4 DEF vars, PositionsAgree, Unsent
  <2> QED BY <2>1, <2>2, <2>3, <2>4 DEF Next
<1> QED BY <1>1, <1>2, PTL DEF Spec

(* Every step of the ring is a step of the FIFO with memory, or none: an   *)
(* unsent packet and the TailLength packets sent last are never            *)
(* overwritten, packets leave in the order they came, and prevBuffered()   *)
(* finds the packet sent that many sends ago (PacketBuffer.cpp:58-107).    *)
THEOREM BufferImplementsHistory == Spec => ImplementsHistory
<1>1. Init => History!Init
  <2> SUFFICES ASSUME Init PROVE History!Init
    OBVIOUS
  <2>1. Backlog(buffer) = <<>>
    BY NewBufferType, EmptyBacklog DEF Init
  <2>2. LastRead(buffer, kept) = <<>>
    BY DEF Init, LastRead
  <2> QED BY <2>1, <2>2 DEF History!Init
<1>2. Inv /\ [Next]_vars => [History!Next]_(History!vars)
  <2> SUFFICES ASSUME Inv, [Next]_vars
               PROVE  [History!Next]_(History!vars)
    OBVIOUS
  <2>0. /\ buffer \in Buffer /\ PositionsAgree(buffer)
        /\ kept \in 0 .. TailLength /\ kept \in Nat
    BY SlotCountType DEF Inv, TypeOK
  <2> DEFINE n == kept
             L == LastRead(buffer, kept)
  <2>L. Len(L) = kept /\ \A age \in 1 .. kept : L[age] = PrevBuffered(buffer, age)
    BY <2>0 DEF LastRead
  <2>1. ASSUME NEW packet \in Packet, Write(packet)
        PROVE  History!Next
    <3>1. Len(Backlog(buffer)) < HeadLength
      BY <2>0, <2>1, BacklogTests DEF Write
    <3>2. Backlog(buffer)' = Append(Backlog(buffer), packet)
      <4>1. Backlog(buffer') = Append(Backlog(buffer), packet)
        BY <2>0, <2>1, WriteAppends DEF Write
      <4>2. Backlog(buffer)' = Backlog(buffer')
        BY DEF Backlog, Unsent
      <4> QED BY <4>1, <4>2
    <3>3. LastRead(buffer, kept)' = LastRead(buffer, kept)
      <4>1. ASSUME NEW age \in 1 .. kept
            PROVE  PrevBuffered(buffer', age) = PrevBuffered(buffer, age)
        <5>1. age \in 1 .. TailLength
          BY <2>0, SlotCountType
        <5> QED BY <2>0, <2>1, <5>1, WriteRemembers DEF Write
      <4>2. kept' = kept
        BY <2>1 DEF Write
      <4> QED BY <4>1, <4>2 DEF LastRead, PrevBuffered
    <3>4. Len(Backlog(buffer)') > Len(Backlog(buffer))
      <4>1. Backlog(buffer) \in Seq(Packet)
        BY <2>0, BacklogType
      <4> QED BY <3>2, <4>1
    <3>5. History!Write(packet)
      BY <3>1, <3>2, <3>3 DEF History!Write
    <3> QED BY <3>4, <3>5 DEF History!Next
  <2>2. CASE Read
    <3>1. Backlog(buffer) # <<>> /\ NextPacket(buffer) = Head(Backlog(buffer))
      BY <2>0, <2>2, BacklogTests DEF Read
    <3>2. Backlog(buffer)' = Tail(Backlog(buffer))
      <4>1. Backlog(buffer') = Tail(Backlog(buffer))
        BY <2>0, <2>2, ReadTakesHead DEF Read
      <4>2. Backlog(buffer)' = Backlog(buffer')
        BY DEF Backlog, Unsent
      <4> QED BY <4>1, <4>2
    <3>3. kept' = IF Len(L) < TailLength THEN Len(L) + 1 ELSE TailLength
      BY <2>0, <2>2, <2>L, SlotCountType DEF Read
    <3>4. ASSUME NEW age \in 1 .. kept'
          PROVE  PrevBuffered(buffer', age) =
                   IF age = 1 THEN Head(Backlog(buffer)) ELSE L[age - 1]
      <4>1. age \in 1 .. TailLength /\ (age # 1 => age - 1 \in 1 .. kept)
        BY <2>0, <2>L, <3>3, SlotCountType
      <4>2. PrevBuffered(buffer', age) =
              IF age = 1 THEN NextPacket(buffer)
                         ELSE PrevBuffered(buffer, age - 1)
        BY <2>0, <2>2, <4>1, ReadRemembers DEF Read
      <4> QED BY <2>L, <3>1, <4>1, <4>2
    <3>5. LastRead(buffer, kept)' = [age \in 1 .. kept' |-> PrevBuffered(buffer', age)]
      BY DEF LastRead, PrevBuffered
    <3>6. LastRead(buffer, kept)' =
            [age \in 1 .. (IF Len(L) < TailLength THEN Len(L) + 1 ELSE TailLength) |->
               IF age = 1 THEN Head(Backlog(buffer)) ELSE L[age - 1]]
      BY <3>3, <3>4, <3>5
    <3> QED BY <3>1, <3>2, <3>6 DEF History!Next, History!Send
  <2>3. CASE Reset
    <3>1. Backlog(buffer') = <<>>
      BY <2>0, <2>3, EmptyBacklog DEF Reset
    <3>2. Backlog(buffer)' = <<>>
      BY <3>1 DEF Backlog, Unsent
    <3>3. LastRead(buffer, kept)' = <<>>
      BY <2>3 DEF Reset, LastRead
    <3> QED BY <3>2, <3>3 DEF History!Next, History!Reset
  <2>4. CASE UNCHANGED vars
    BY <2>4 DEF vars, History!vars, Backlog, Unsent, LastRead, PrevBuffered
  <2> QED BY <2>1, <2>2, <2>3, <2>4 DEF Next, History!Next
<1> QED BY <1>1, <1>2, BufferInvariant, PTL DEF Spec, ImplementsHistory, History!Spec
=============================================================================
