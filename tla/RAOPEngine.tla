----------------------------- MODULE RAOPEngine -----------------------------
(***************************************************************************)
(* The packet stream to the remote speakers: class RAOPEngine              *)
(* (core/impl/raop/RAOPEngine.{h,cpp}), one action per critical section of *)
(* its _mutex.                                                             *)
(*                                                                         *)
(* The player's thread writes, flushes and resets; the thread that holds   *)
(* the device manager's mutex opens and closes devices; the sender thread  *)
(* sends data and sync packets; the reactor thread answers resend          *)
(* requests.  reinit() takes no lock: each of its assignments that matter  *)
(* is an action.  Stopping the sender is one step with the critical        *)
(* section it precedes or follows; module SenderThread takes these apart.  *)
(***************************************************************************)
EXTENDS PacketBuffer

CONSTANTS
  Device,         (* the remote speakers                                   *)
  SecureDevice,   (* those whose data stream is encrypted                  *)
  Audio,          (* what one call of write() may carry                    *)
  NoAudio,        (* the payload of zeroed memory                          *)
  SeqModulus,     (* packet sequence numbers are 16 bits wide (65536)      *)
  TimeModulus,    (* RTP times are 32 bits wide                            *)
  FrameCount,     (* RTP ticks per packet; short writes are padded (352)   *)
  StartingSeqNum, (* the random choices of reinit()                        *)
  StartingTime,
  MaxResets,      (* bound on the calls of reset() and reinit()            *)
  MaxTorn         (* bound on the packets written or sent out of step      *)

SeqNum  == 0 .. SeqModulus - 1
RtpTime == 0 .. TimeModulus - 1

DataPacket == [seqNum  : SeqNum,
               rtpTime : RtpTime,
               marker  : BOOLEAN,
               audio   : Audio \cup {NoAudio}]

ZeroedPacket == [seqNum |-> 0, rtpTime |-> 0, marker |-> FALSE,
                 audio  |-> NoAudio]

ASSUME DeviceAssumption == SecureDevice \subseteq Device
ASSUME AudioAssumption  == NoAudio \notin Audio
(* Sent packets are kept for resending (PACKET_MEMORY_COUNT).              *)
ASSUME MemoryAssumption == TailLength > 0
(* 16 bits number more packets than the buffer holds: 65536 > 250 + 500.   *)
ASSUME SeqModulusAssumption == SeqModulus \in Nat /\ SeqModulus > SlotCount
ASSUME TimeAssumption == TimeModulus \in Nat \ {0} /\ FrameCount \in Nat
ASSUME StartAssumption ==
  StartingSeqNum \subseteq SeqNum /\ StartingTime \subseteq RtpTime
ASSUME BoundAssumption == MaxResets \in Nat /\ MaxTorn \in Nat \ {0}
ASSUME PacketAssumption == Packet = DataPacket /\ ZeroedSlot = ZeroedPacket

VARIABLES
  rtpDataSecured,     (* packet buffer of encrypted packets                *)
  rtpDataUnsecured,   (* packet buffer of the same packets in the clear    *)
  rtpSeqNumIncoming,  (* number of the next packet written                 *)
  rtpSeqNumOutgoing,  (* number of the next packet sent                    *)
  rtpTimeIncoming,    (* RTP time of the next packet written               *)
  rtpTimeOutgoing,    (* RTP time of the next packet sent                  *)
  isFirstDataPacket,
  isFirstSyncPacket,
  encoder,            (* whether the first reinit() has made an encoder    *)
  raopDevices,        (* the devices attached to the engine                *)
  open,               (* the devices whose RTSP client is ready            *)
  sending,            (* whether the sender thread runs                    *)
  initializing,       (* how far reinit() is, or "no"                      *)
  sent,               (* history: the packets sent last since the last     *)
                      (* reset, youngest first, at most TailLength         *)
  failed,             (* history: devices that are open, although opening  *)
                      (* them failed, and not attached, ...                *)
  unstarted,          (* ... whether the stream was left without a sender, *)
  torn,               (* ... and how often somebody wrote or sent a        *)
                      (* packet, or started the sender, in the middle of   *)
                      (* reinit(), or since, when counters and buffers     *)
                      (* have not been put in step again                   *)
  resets              (* history: the calls of reset() and reinit()        *)

stream == <<rtpDataSecured, rtpDataUnsecured, rtpSeqNumIncoming,
            rtpSeqNumOutgoing, rtpTimeIncoming, rtpTimeOutgoing, sent, torn>>
connections == <<open, failed>>
vars == <<stream, isFirstDataPacket, isFirstSyncPacket, encoder, raopDevices,
          connections, sending, initializing, unstarted, resets>>

IsOpen(device) == device \in open

(* The steps of reinit() after which counters and buffers are out of step. *)
HalfDone == {"numbered", "timed", "first", "unsecured"}

(* Counters and buffers are what the last reset() or reinit() made them,   *)
(* and what was written and sent since.                                    *)
Settled == initializing \notin HalfDone /\ torn = 0

(* Another packet is written or sent.                                      *)
Tear == torn' = (IF Settled THEN 0 ELSE torn + 1) /\ torn' <= MaxTorn

BugNextSeqNum(seqNum) == seqNum + 1 \* wider than 16 bits

NextSeqNum(seqNum) == (seqNum + 1) % SeqModulus
NextTime(time)     == (time + FrameCount) % TimeModulus

(* The memory of sent packets after one more, for the history.             *)
Remember(memory, packet) ==
  [age \in 1 .. (IF Len(memory) < TailLength THEN Len(memory) + 1
                                             ELSE TailLength) |->
     IF age = 1 THEN packet ELSE memory[age - 1]]

-----------------------------------------------------------------------------
(* The constructor leaves the counters uninitialised.                      *)
Init ==
  /\ rtpDataSecured = NewBuffer /\ rtpDataUnsecured = NewBuffer
  /\ rtpSeqNumIncoming \in SeqNum /\ rtpSeqNumOutgoing \in SeqNum
  /\ rtpTimeIncoming \in RtpTime /\ rtpTimeOutgoing \in RtpTime
  /\ isFirstDataPacket = TRUE /\ isFirstSyncPacket = TRUE
  /\ encoder = FALSE
  /\ raopDevices = {}
  /\ open = {} /\ failed = {}
  /\ sending = FALSE /\ unstarted = FALSE
  /\ initializing = "no" /\ torn = 1 /\ resets = 0
  /\ sent = <<>>

(* The player writes one packet of audio when canWrite() has said that it  *)
(* may.  Only the player fills the buffer, but the last device may have    *)
(* gone since, and write() does not look: the model lets it be gone at any *)
(* time, and reinit() be anywhere.  The first packet of a stream starts    *)
(* the sender thread; when it runs already, or cannot be created, start()  *)
(* throws, with the packet written.  Without an encoder the program ends.  *)
Write(audio) ==
  LET packet == [seqNum  |-> rtpSeqNumIncoming,
                 rtpTime |-> rtpTimeIncoming,
                 marker  |-> isFirstDataPacket,
                 audio   |-> audio]
  IN  /\ encoder
      /\ CanWrite(rtpDataSecured) /\ CanWrite(rtpDataUnsecured)
      /\ rtpDataSecured'    = NextAvailable(rtpDataSecured, packet)
      /\ rtpDataUnsecured'  = NextAvailable(rtpDataUnsecured, packet)
      /\ rtpSeqNumIncoming' = NextSeqNum(rtpSeqNumIncoming)
      /\ rtpTimeIncoming'   = NextTime(rtpTimeIncoming)
      /\ isFirstDataPacket' = FALSE
      /\ sending' \in {sending, sending \/ isFirstDataPacket}
      /\ unstarted' = (unstarted \/ (isFirstDataPacket /\ ~sending'))
      /\ Tear
      /\ UNCHANGED <<rtpSeqNumOutgoing, rtpTimeOutgoing, isFirstSyncPacket,
                     encoder, raopDevices, connections, initializing, sent,
                     resets>>

(* When only the other buffer is full, write() throws between the two.     *)
WriteFails ==
  /\ encoder
  /\ CanWrite(rtpDataSecured) /\ ~CanWrite(rtpDataUnsecured)
  /\ rtpDataSecured' = NextAvailable(rtpDataSecured, ZeroedSlot)
  /\ UNCHANGED <<rtpDataUnsecured, rtpSeqNumIncoming, rtpSeqNumOutgoing,
                 rtpTimeIncoming, rtpTimeOutgoing, sent, torn,
                 isFirstDataPacket, isFirstSyncPacket, encoder, raopDevices,
                 connections, sending, initializing, unstarted, resets>>

(* flush() drops the devices whose connection is gone; what was written    *)
(* goes out at the sender's pace.                                          *)
Flush ==
  /\ raopDevices' = {device \in raopDevices : IsOpen(device)}
  /\ UNCHANGED <<stream, isFirstDataPacket, isFirstSyncPacket, encoder,
                 connections, sending, initializing, unstarted, resets>>

BugResetKeeping(seqNumIncoming, timeIncoming, firstData) ==
  /\ resets < MaxResets /\ resets' = resets + 1
  /\ sending' = FALSE
  /\ raopDevices' = {device \in raopDevices : IsOpen(device)}
  /\ isFirstDataPacket' = firstData /\ isFirstSyncPacket' = TRUE
  /\ rtpSeqNumIncoming' = seqNumIncoming
  /\ rtpTimeIncoming'   = timeIncoming
  /\ rtpDataUnsecured'  = ResetBuffer(rtpDataUnsecured)
  /\ rtpDataSecured'    = ResetBuffer(rtpDataSecured)
  /\ sent' = <<>> /\ unstarted' = FALSE /\ torn' = 0
  /\ UNCHANGED <<rtpSeqNumOutgoing, rtpTimeOutgoing, encoder, connections,
                 initializing>>

BugResetSeqNum == BugResetKeeping(rtpSeqNumIncoming, rtpTimeOutgoing, TRUE)
BugResetTime   == BugResetKeeping(rtpSeqNumOutgoing, rtpTimeIncoming, TRUE)
BugResetFirst  == BugResetKeeping(rtpSeqNumOutgoing, rtpTimeOutgoing,
                                  isFirstDataPacket)

(* reset() stops the sender and discards what it has not sent.             *)
Reset ==
  /\ resets < MaxResets /\ resets' = resets + 1
  /\ sending' = FALSE
  /\ raopDevices' = {device \in raopDevices : IsOpen(device)}
  /\ isFirstDataPacket' = TRUE /\ isFirstSyncPacket' = TRUE
  /\ rtpSeqNumIncoming' = rtpSeqNumOutgoing
  /\ rtpTimeIncoming'   = rtpTimeOutgoing
  /\ rtpDataUnsecured'  = ResetBuffer(rtpDataUnsecured)
  /\ rtpDataSecured'    = ResetBuffer(rtpDataSecured)
  /\ sent' = <<>> /\ unstarted' = FALSE /\ torn' = 0
  /\ UNCHANGED <<rtpSeqNumOutgoing, rtpTimeOutgoing, encoder, connections,
                 initializing>>

-----------------------------------------------------------------------------
(* DeviceManager::openDevice() reinitialises the engine before it opens    *)
(* the first device.  reinit() takes no lock: the player and, if the       *)
(* player starts it again, the sender run between its steps, as long as a  *)
(* device that was lost is on the list.  First the sender is stopped, ...  *)
ReinitStop ==
  /\ resets < MaxResets /\ resets' = resets + 1
  /\ initializing = "no" /\ open = {}
  /\ initializing' = "stopped" /\ sending' = FALSE
  /\ UNCHANGED <<stream, isFirstDataPacket, isFirstSyncPacket, encoder,
                 raopDevices, connections, unstarted>>

(* ... and keys are made, which may fail, ...                              *)
ReinitThrows ==
  /\ initializing = "stopped"
  /\ initializing' = "no"
  /\ unstarted' = (unstarted \/ (~isFirstDataPacket /\ ~sending))
  /\ UNCHANGED <<stream, isFirstDataPacket, isFirstSyncPacket, encoder,
                 raopDevices, connections, sending, resets>>

(* ... then the sequence numbers are set anew, ...                         *)
ReinitSeqNum(seqNum) ==
  /\ initializing = "stopped" /\ initializing' = "numbered"
  /\ rtpSeqNumIncoming' = seqNum /\ rtpSeqNumOutgoing' = seqNum
  /\ sent' = <<>> /\ torn' = 0
  /\ UNCHANGED <<rtpDataSecured, rtpDataUnsecured, rtpTimeIncoming,
                 rtpTimeOutgoing, isFirstDataPacket, isFirstSyncPacket,
                 encoder, raopDevices, connections, sending, unstarted,
                 resets>>

(* ... and the times, ...                                                  *)
ReinitTime(time) ==
  /\ initializing = "numbered" /\ initializing' = "timed"
  /\ rtpTimeIncoming' = time /\ rtpTimeOutgoing' = time
  /\ UNCHANGED <<rtpDataSecured, rtpDataUnsecured, rtpSeqNumIncoming,
                 rtpSeqNumOutgoing, sent, torn, isFirstDataPacket,
                 isFirstSyncPacket, encoder, raopDevices, connections,
                 sending, unstarted, resets>>

(* ... the stream begins anew, ...                                         *)
ReinitFirst ==
  /\ initializing = "timed" /\ initializing' = "first"
  /\ isFirstDataPacket' = TRUE /\ isFirstSyncPacket' = TRUE
  /\ unstarted' = FALSE
  /\ torn' = IF sending /\ torn = 0 THEN 1 ELSE torn
  /\ UNCHANGED <<rtpDataSecured, rtpDataUnsecured, rtpSeqNumIncoming,
                 rtpSeqNumOutgoing, rtpTimeIncoming, rtpTimeOutgoing, sent,
                 encoder, raopDevices, connections, sending, resets>>

(* ... one buffer is emptied, ...                                          *)
ReinitUnsecured ==
  /\ initializing = "first" /\ initializing' = "unsecured"
  /\ rtpDataUnsecured' = ResetBuffer(rtpDataUnsecured)
  /\ UNCHANGED <<rtpDataSecured, rtpSeqNumIncoming, rtpSeqNumOutgoing,
                 rtpTimeIncoming, rtpTimeOutgoing, sent, torn,
                 isFirstDataPacket, isFirstSyncPacket, encoder, raopDevices,
                 connections, sending, unstarted, resets>>

(* ... the other one, ...                                                  *)
ReinitSecured ==
  /\ initializing = "unsecured" /\ initializing' = "secured"
  /\ rtpDataSecured' = ResetBuffer(rtpDataSecured)
  /\ UNCHANGED <<rtpDataUnsecured, rtpSeqNumIncoming, rtpSeqNumOutgoing,
                 rtpTimeIncoming, rtpTimeOutgoing, sent, torn,
                 isFirstDataPacket, isFirstSyncPacket, encoder, raopDevices,
                 connections, sending, unstarted, resets>>

(* ... and the list of devices.                                            *)
ReinitDevices ==
  /\ initializing = "secured" /\ initializing' = "done"
  /\ raopDevices' = {} /\ encoder' = TRUE
  /\ UNCHANGED <<stream, isFirstDataPacket, isFirstSyncPacket, connections,
                 sending, unstarted, resets>>

BugOpen(device) == \* attaches the first one before it reinitialises
  /\ IF open = {} THEN initializing = "done" ELSE initializing = "no"
  /\ ~IsOpen(device) /\ open' = open \cup {device}
  /\ initializing' = "no"
  /\ raopDevices' = IF open = {} THEN {} ELSE raopDevices \cup {device}
  /\ isFirstSyncPacket' = (isFirstSyncPacket \/ device \notin raopDevices)
  /\ unstarted' = (\/ unstarted
                   \/ raopDevices = {} /\ ~isFirstDataPacket /\ ~sending)
  /\ UNCHANGED <<stream, isFirstDataPacket, encoder, failed, sending, resets>>

(* The device is opened.  attach() asks for a sync packet when the device  *)
(* is new to the list.                                                     *)
Open(device) ==
  /\ IF open = {} THEN initializing = "done" ELSE initializing = "no"
  /\ ~IsOpen(device) /\ open' = open \cup {device}
  /\ initializing' = "no"
  /\ raopDevices' = raopDevices \cup {device}
  /\ isFirstSyncPacket' = (isFirstSyncPacket \/ device \notin raopDevices)
  /\ unstarted' = (\/ unstarted
                   \/ raopDevices = {} /\ ~isFirstDataPacket /\ ~sending)
  /\ UNCHANGED <<stream, isFirstDataPacket, encoder, failed, sending, resets>>

(* A device that cannot be opened, before or after the engine was          *)
(* reinitialised for it or with others open.  When the connection was made *)
(* before the failure, isOpen() is true until the device is destroyed.     *)
OpenFails(device) ==
  /\ initializing \in {"no", "done"} /\ initializing' = "no"
  /\ ~IsOpen(device) /\ open' \in {open, open \cup {device}}
  /\ failed' = failed \cup (open' \ (open \cup raopDevices))
  /\ UNCHANGED <<stream, isFirstDataPacket, isFirstSyncPacket, encoder,
                 raopDevices, sending, unstarted, resets>>

BugClose(device) == \* stops the sender whatever devices remain
  /\ initializing = "no"
  /\ open' = open \ {device} /\ failed' = failed \ {device}
  /\ raopDevices' = raopDevices \ {device}
  /\ sending' = FALSE
  /\ UNCHANGED <<stream, isFirstDataPacket, isFirstSyncPacket, encoder,
                 initializing, unstarted, resets>>

(* close() and detach(): the sender stops with the last device.  Whoever   *)
(* opens or closes a device holds the device manager's mutex.              *)
Close(device) ==
  /\ initializing = "no"
  /\ open' = open \ {device} /\ failed' = failed \ {device}
  /\ raopDevices' = raopDevices \ {device}
  /\ sending' = (sending /\ raopDevices' # {})
  /\ UNCHANGED <<stream, isFirstDataPacket, isFirstSyncPacket, encoder,
                 initializing, unstarted, resets>>

(* The remote end or the network drops the RTSP connection.                *)
ConnectionLost(device) ==
  /\ IsOpen(device)
  /\ open' = open \ {device} /\ failed' = failed \ {device}
  /\ UNCHANGED <<stream, isFirstDataPacket, isFirstSyncPacket, encoder,
                 raopDevices, sending, initializing, unstarted, resets>>

-----------------------------------------------------------------------------
(* One turn of the sender's loop: a sync packet if one is wanted, and a    *)
(* data packet if one is due.  Whether it is due is left open: the turn    *)
(* without a data packet matters only for the sync packet it sends.        *)
SendSyncPacket ==
  /\ sending /\ isFirstSyncPacket
  /\ isFirstSyncPacket' = FALSE
  /\ UNCHANGED <<stream, isFirstDataPacket, encoder, raopDevices, connections,
                 sending, initializing, unstarted, resets>>

(* sendDataPacket() takes a packet from one buffer, then the other.        *)
MaySend ==
  /\ sending
  /\ raopDevices # {} /\ rtpSeqNumIncoming # rtpSeqNumOutgoing
  /\ CanRead(rtpDataSecured) \* nextBuffered() throws otherwise

BugSendDataPacket == \* one of the two buffers is not moved on
  /\ MaySend /\ CanRead(rtpDataUnsecured)
  /\ rtpDataSecured'    = NextBuffered(rtpDataSecured)
  /\ rtpSeqNumOutgoing' = NextSeqNum(rtpSeqNumOutgoing)
  /\ rtpTimeOutgoing'   = NextTime(rtpTimeOutgoing)
  /\ isFirstSyncPacket' = FALSE
  /\ Tear
  /\ sent' = IF Settled THEN Remember(sent, NextPacket(rtpDataSecured))
                        ELSE <<>>
  /\ UNCHANGED <<rtpDataUnsecured, rtpSeqNumIncoming, rtpTimeIncoming,
                 isFirstDataPacket, encoder, raopDevices, connections, sending,
                 initializing, unstarted, resets>>

SendDataPacket ==
  /\ MaySend /\ CanRead(rtpDataUnsecured)
  /\ rtpDataSecured'    = NextBuffered(rtpDataSecured)
  /\ rtpDataUnsecured'  = NextBuffered(rtpDataUnsecured)
  /\ rtpSeqNumOutgoing' = NextSeqNum(rtpSeqNumOutgoing)
  /\ rtpTimeOutgoing'   = NextTime(rtpTimeOutgoing)
  /\ isFirstSyncPacket' = FALSE
  /\ Tear
  /\ sent' = IF Settled THEN Remember(sent, NextPacket(rtpDataSecured))
                        ELSE <<>>
  /\ UNCHANGED <<rtpSeqNumIncoming, rtpTimeIncoming, isFirstDataPacket,
                 encoder, raopDevices, connections, sending, initializing,
                 unstarted, resets>>

(* When only the other buffer is empty, it throws between the two, having  *)
(* sent nothing.                                                           *)
SendFails ==
  /\ MaySend /\ ~CanRead(rtpDataUnsecured)
  /\ rtpDataSecured' = NextBuffered(rtpDataSecured)
  /\ isFirstSyncPacket' \in {isFirstSyncPacket, FALSE}
  /\ UNCHANGED <<rtpDataUnsecured, rtpSeqNumIncoming, rtpSeqNumOutgoing,
                 rtpTimeIncoming, rtpTimeOutgoing, sent, torn,
                 isFirstDataPacket, encoder, raopDevices, connections,
                 sending, initializing, unstarted, resets>>

Reinit ==
  \/ ReinitStop \/ ReinitThrows
  \/ \E seqNum \in StartingSeqNum : ReinitSeqNum(seqNum)
  \/ \E time \in StartingTime : ReinitTime(time)
  \/ ReinitFirst \/ ReinitUnsecured \/ ReinitSecured \/ ReinitDevices

Next ==
  \/ \E audio \in Audio : Write(audio)
  \/ WriteFails
  \/ Flush
  \/ Reset
  \/ Reinit
  \/ \E device \in Device :
       \/ Open(device)
       \/ OpenFails(device)
       \/ Close(device)
       \/ ConnectionLost(device)
  \/ SendSyncPacket
  \/ SendDataPacket
  \/ SendFails

Spec == Init /\ [][Next]_vars

(* The sender's loop runs at raised priority for as long as it is not      *)
(* stopped, and system time passes the stream time of every packet.        *)
FairSpec == Spec /\ WF_vars(SendDataPacket)

-----------------------------------------------------------------------------
(* Resend requests: handleResendRequest() reads the state and sends; it    *)
(* changes nothing.                                                        *)

BugMissedAge(missedSeqNum) == \* the wrap is one short
  IF missedSeqNum <= rtpSeqNumOutgoing
    THEN rtpSeqNumOutgoing - missedSeqNum
    ELSE rtpSeqNumOutgoing + (SeqModulus - 1 - missedSeqNum)

(* How many packets ago the missed one was sent, in 16 bits.               *)
MissedAge(missedSeqNum) ==
  IF missedSeqNum <= rtpSeqNumOutgoing
    THEN rtpSeqNumOutgoing - missedSeqNum
    ELSE rtpSeqNumOutgoing + (SeqModulus - 1 - missedSeqNum) + 1

DataStream(device) ==
  IF device \in SecureDevice THEN rtpDataSecured ELSE rtpDataUnsecured

(* How many of the missed packets are found in their places before the     *)
(* loop meets another number, the end of the request or the next packet    *)
(* not sent yet (prevBuffered(0) throws).                                  *)
FoundInPlace(buffer, missedSeqNum, missedCount) ==
  LET age   == MissedAge(missedSeqNum)
      found == {n \in 0 .. (IF missedCount < age THEN missedCount ELSE age) :
                  \A i \in 0 .. n - 1 :
                    PrevBuffered(buffer, age - i).seqNum
                      = (missedSeqNum + i) % SeqModulus}
  IN  CHOOSE n \in found : \A m \in found : m <= n

(* The packets sent in response, oldest first.                             *)
ResendResponse(device, missedSeqNum, missedCount) ==
  LET age    == MissedAge(missedSeqNum)
      buffer == DataStream(device)
  IN  IF HasPrevious(age) /\ device \in raopDevices /\ IsOpen(device)
        THEN [i \in 1 .. FoundInPlace(buffer, missedSeqNum, missedCount) |->
                PrevBuffered(buffer, age - (i - 1))]
        ELSE <<>>

-----------------------------------------------------------------------------
(* Each variable keeps to its type.                                        *)
TypeOK ==
  /\ rtpDataSecured \in Buffer /\ rtpDataUnsecured \in Buffer
  /\ rtpSeqNumIncoming \in SeqNum /\ rtpSeqNumOutgoing \in SeqNum
  /\ rtpTimeIncoming \in RtpTime /\ rtpTimeOutgoing \in RtpTime
  /\ isFirstDataPacket \in BOOLEAN /\ isFirstSyncPacket \in BOOLEAN
  /\ encoder \in BOOLEAN
  /\ torn \in 0 .. MaxTorn /\ resets \in 0 .. MaxResets
  /\ raopDevices \subseteq Device
  /\ open \subseteq Device /\ failed \subseteq open
  /\ sending \in BOOLEAN /\ unstarted \in BOOLEAN
  /\ initializing \in HalfDone \cup {"no", "stopped", "secured", "done"}
  /\ initializing # "no" => open = {}
  /\ sent \in Seq(Packet) /\ Len(sent) <= TailLength

(* The counters and the two buffers, updated one by one in write(),        *)
(* sendDataPacket(), reset() and reinit(), stay in step: both buffers hold *)
(* the same packets at the same positions, and there are as many unsent    *)
(* packets as the sequence numbers are apart.  So the sender's test        *)
(* _rtpSeqNumIncoming != _rtpSeqNumOutgoing is true exactly when           *)
(* nextBuffered() does not throw (RAOPEngine.cpp:704, 730).                *)
(*                                                                         *)
(* The exception is what reinit(), which takes no lock, and a write() or   *)
(* the sender in the middle of it make of them: from when the counters are *)
(* set to when both buffers are emptied, and afterwards when somebody      *)
(* acted in between, until the next reset() or reinit() puts everything    *)
(* right, whatever state it finds (RAOPEngine.cpp:318-432, 599-637).       *)
CountersInStep ==
  Settled =>
    /\ rtpDataUnsecured.availability = rtpDataSecured.availability
    /\ rtpDataUnsecured.readIndex = rtpDataSecured.readIndex
    /\ rtpDataUnsecured.writeIndex = rtpDataSecured.writeIndex
    /\ Backlog(rtpDataUnsecured) = Backlog(rtpDataSecured)
    /\ PositionsAgree(rtpDataSecured)
    /\ rtpSeqNumIncoming
         = (rtpSeqNumOutgoing + Unsent(rtpDataSecured)) % SeqModulus

(* The unsent packets are numbered without a gap from the outgoing to the  *)
(* incoming sequence number and RTP time, across the wrap of both, and the *)
(* marker is on the first packet of a stream and on no other               *)
(* (RAOPEngine.cpp:514-560, 767-771).  A sync packet therefore always      *)
(* carries the time of the packet that is sent next (line 786).  The       *)
(* engine expects a first packet exactly when there is none yet.  The      *)
(* exception is the same as that of CountersInStep.                        *)
BacklogInSequence ==
  LET backlog == Backlog(rtpDataSecured)
  IN  Settled =>
        /\ \A k \in 1 .. Len(backlog) :
             /\ backlog[k].seqNum = (rtpSeqNumOutgoing + (k - 1)) % SeqModulus
             /\ backlog[k].rtpTime = IF k = 1 THEN rtpTimeOutgoing
                                     ELSE NextTime(backlog[k - 1].rtpTime)
             /\ backlog[k].marker <=> k = 1 /\ sent = <<>>
        /\ isFirstDataPacket <=> backlog = <<>> /\ sent = <<>>
        /\ rtpTimeIncoming = IF backlog = <<>> THEN rtpTimeOutgoing
                             ELSE NextTime(backlog[Len(backlog)].rtpTime)

(* Each packet sent since the last reset, as far back as the memory goes,  *)
(* is found in its place by its age in either buffer, under the number it  *)
(* was sent with (RAOPEngine.cpp:728-775, PacketBuffer.cpp:92-107).        *)
MemoryInSequence ==
  Settled =>
    \A age \in 1 .. Len(sent) :
      /\ PrevBuffered(rtpDataSecured, age) = sent[age]
      /\ PrevBuffered(rtpDataUnsecured, age) = sent[age]
      /\ (sent[age].seqNum + age) % SeqModulus = rtpSeqNumOutgoing

(* No stall: while a device is attached, the sender runs from the first    *)
(* packet of a stream on, so that no packet waits for ever; and it does    *)
(* not run when write() is about to start it, where Thread::start() would  *)
(* throw (RAOPEngine.cpp:571-577, 656-684).  The exceptions are a stream   *)
(* that reinit() interrupts, a sender that could not be created, a stream  *)
(* that lost its last device and gets another one without reinit(),        *)
(* because one that failed counts as open (DeviceManager.cpp:366-371); and *)
(* a sender that write() has started behind the stop() of reinit(), until  *)
(* the next reset() or reinit() stops it.                                  *)
SenderRunsWhenNeeded ==
  /\ initializing = "no" /\ raopDevices # {} /\ ~isFirstDataPacket =>
       sending \/ unstarted
  /\ isFirstDataPacket /\ torn = 0 => ~sending /\ ~unstarted

(* Every device that was opened gets the stream: it is on the list that    *)
(* the sender and the resend handler go by, while one that failed is not   *)
(* (RAOPDevice.cpp:141-210, RAOPEngine.cpp:318-432, 590-637).              *)
OpenDevicesAttached == open \ raopDevices = failed

(* The inductive invariant.                                                *)
Inv ==
  /\ TypeOK
  /\ CountersInStep
  /\ BacklogInSequence
  /\ MemoryInSequence
  /\ SenderRunsWhenNeeded
  /\ OpenDevicesAttached

(* A resend request for packets that were sent since the last reset and    *)
(* are among the last TailLength is answered with exactly the packets sent *)
(* under those numbers, in order, up to the last one sent, from the stream *)
(* the device listens to (RAOPEngine.cpp:927-1012), with the exception of  *)
(* CountersInStep.                                                         *)
ResendFaithful ==
  Settled =>
    \A device \in raopDevices, missed \in SeqNum, count \in 0 .. SlotCount :
      LET age == MissedAge(missed)
      IN  IsOpen(device) /\ age \in 1 .. Len(sent) =>
            ResendResponse(device, missed, count)
              = [i \in 1 .. (IF count < age THEN count ELSE age) |->
                   sent[age - (i - 1)]]

(* The engine is the FIFO with memory that PacketHistory describes:        *)
(* nothing but reset() and reinit() discards an unsent packet, and nothing *)
(* but they shortens the memory from which resend requests are answered.   *)
(* In the middle of reinit(), and after somebody acted there, it counts as *)
(* empty; the reset() or reinit() that comes next makes it so.             *)
History == INSTANCE PacketHistory
             WITH Capacity   <- HeadLength,
                  Memory     <- TailLength,
                  waiting    <- IF Settled THEN Backlog(rtpDataSecured)
                                           ELSE <<>>,
                  remembered <- IF Settled
                                  THEN LastRead(rtpDataUnsecured, Len(sent))
                                  ELSE <<>>

ImplementsHistory == History!Spec

(* A packet that waits while a device is attached is sent, unless it is    *)
(* discarded or the last device goes (RAOPEngine.cpp:687-725), or the      *)
(* stream has no sender or was disturbed (see SenderRunsWhenNeeded).       *)
WaitingIsSent ==
  \A seqNum \in SeqNum :
    (/\ rtpSeqNumOutgoing = seqNum /\ initializing = "no" /\ Settled
     /\ raopDevices # {} /\ ~unstarted /\ Backlog(rtpDataSecured) # <<>>)
      ~> (\/ rtpSeqNumOutgoing # seqNum \/ initializing # "no"
          \/ raopDevices = {} \/ Backlog(rtpDataSecured) = <<>>)
=============================================================================
