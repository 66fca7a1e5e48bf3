--------------------------- MODULE OutputComponent ---------------------------
(***************************************************************************)
(* Playback: classes OutputComponent (sdk/OutputComponent.h,               *)
(* core/impl/OutputComponent.cpp) and OutputBuffer, as the player calls    *)
(* them, over the engine's queue of packets.                               *)
(*                                                                         *)
(* The player's calls are one at a time.  Between the turns of the loop in *)
(* OutputBuffer::writeToOutputSink() the sender takes packets off the      *)
(* engine's queue, devices come and go, and the monitoring thread looks at *)
(* the pause.  The devices are one: what matters here is whether any is    *)
(* attached to the engine and any is open.  Data formats are those of the  *)
(* engine, so that no OutputReformatter is in the chain.                   *)
(*                                                                         *)
(* An attached device has a sender, as NoStall says in SenderThread; the   *)
(* exception there is left out here.                                       *)
(***************************************************************************)
EXTENDS OutputBuffer

CONSTANTS
  PacketSize,   (* bytes per packet (RAOP_PACKET_MAX_DATA_SIZE)            *)
  QueueLength,  (* packets the engine queues (PACKET_BUFFER_COUNT)         *)
  Modulus,      (* bytes are numbered modulo this, to tell them apart      *)
  SleepLimit,   (* how often a flush waits for the engine (11)             *)
  PollLimit,    (* how many polls go by before a flush (16)                *)
  PauseLimit    (* samples of a pause that make it a long one (32)         *)

ASSUME SizeAssumption ==
  /\ {PacketSize, QueueLength, SleepLimit, PollLimit, PauseLimit} \subseteq Nat \ {0}
  /\ PacketSize <= Capacity
ASSUME ModulusAssumption ==
  /\ Modulus \in Nat /\ Modulus > Capacity + PacketSize * QueueLength
  /\ Byte = 0 .. Modulus - 1

VARIABLES
  chain,           (* whether there is an output chain (_outputSink)       *)
  buffer,          (* the OutputBuffer of the chain                        *)
  packets,         (* what the engine was given and has not sent           *)
  device,          (* "closed", "open", or "lost": attached but dead       *)
  paused,
  closeGracefully,
  flushCounter,
  place,           (* the call the player is in                            *)
  flushing,        (* whether writeToOutputSink() is to flush              *)
  sleeps,
  polling,         (* whether the player is done writing and only polls    *)
  pausedCount,     (* of the monitoring thread                             *)
  monitor,         (* "sampling", or "closing" the devices                 *)
  nextByte,        (* the number of the next byte accepted                 *)
  nextOutput       (* the number of the next byte the engine sends         *)

call  == <<place, flushing, sleeps>>
flags == <<paused, closeGracefully, flushCounter>>
watch == <<pausedCount, monitor>>
audio == <<buffer, packets, nextByte, nextOutput>>
vars  == <<chain, audio, device, flags, call, polling, watch>>

Advance(number, length) == (number + length) % Modulus
Numbered(first, length) == [k \in 1 .. length |-> Advance(first, k - 1)]

(* RAOPEngine::canWrite()                                                  *)
SinkCanWrite ==
  IF device # "closed" /\ Len(packets) < QueueLength THEN PacketSize ELSE 0

(* The buffer's and the engine's reset(), which drops dead devices; the    *)
(* bytes are numbered from 0 again.                                        *)
Prune == device' = IF device = "lost" THEN "closed" ELSE device
ResetChain ==
  /\ buffer' = ResetByteBuffer(buffer)
  /\ packets' = <<>>
  /\ nextByte' = 0 /\ nextOutput' = 0
  /\ Prune

(* An operator whose name begins with Bug is the definition after it with  *)
(* a plausible slip: what the properties have to tell from it.             *)
BugOpenDevices == \* reinitialises the engine for every device it opens
  \/ UNCHANGED <<device, packets, nextOutput>>
  \/ /\ device' \in IF device = "open" THEN {"open"} ELSE {"open", "closed"}
     /\ packets' = <<>>
     /\ nextOutput' = Advance(nextByte, Modulus - Level(buffer))

(* DeviceManager::openDevices() or openDevice(): a device that is not open *)
(* is opened, or not, after the engine was reinitialised.                  *)
OpenDevices ==
  \/ UNCHANGED <<device, packets, nextOutput>>
  \/ /\ device # "open" /\ device' \in {"open", "closed"}
     /\ packets' = <<>>
     /\ nextOutput' = Advance(nextByte, Modulus - Level(buffer))

-----------------------------------------------------------------------------
Init ==
  /\ chain = FALSE
  /\ buffer = NewByteBuffer /\ packets = <<>>
  /\ device = "closed"
  /\ paused = TRUE /\ closeGracefully = FALSE /\ flushCounter = 0
  /\ place = "idle" /\ flushing = FALSE /\ sleeps = 0
  /\ polling = FALSE
  /\ pausedCount = 0 /\ monitor = "sampling"
  /\ nextByte = 0 /\ nextOutput = 0

(* writeToOutputSink() is entered, to return to the place named.           *)
Drain(flush, returnTo) ==
  /\ flushing' = flush /\ sleeps' = 0
  /\ place' = returnTo

(* One turn of its loop that passes a packet on, ...                       *)
PassOn ==
  LET length == IF Level(buffer) < SinkCanWrite THEN Level(buffer)
                                                ELSE SinkCanWrite
  IN  /\ place \in {"write", "poll", "close"}
      /\ Level(buffer) > 0 /\ SinkCanWrite > 0
      /\ Level(buffer) >= SinkCanWrite \/ flushing
      /\ packets' = Append(packets, FirstBytes(buffer, length))
      /\ buffer' = Drop(buffer, length)
      /\ sleeps' = 0
      /\ UNCHANGED <<chain, device, flags, place, flushing, polling, watch,
                     nextByte, nextOutput>>

(* ... one that waits for the engine, ...                                  *)
WaitForSink ==
  /\ place \in {"write", "poll", "close"} /\ flushing
  /\ Level(buffer) > 0 /\ SinkCanWrite = 0
  /\ sleeps <= SleepLimit
  /\ sleeps' = sleeps + 1
  /\ UNCHANGED <<chain, audio, device, flags, place, flushing, polling, watch>>

(* ... and the last one: nothing to pass on, no use in waiting, or drained *)
(* and to be flushed.                                                      *)
Drained ==
  \/ /\ ~flushing /\ ~(Level(buffer) >= SinkCanWrite /\ SinkCanWrite > 0
                         /\ Level(buffer) > 0)
     /\ UNCHANGED device
  \/ /\ flushing /\ Level(buffer) > 0 /\ SinkCanWrite = 0 /\ sleeps > SleepLimit
     /\ UNCHANGED device
  \/ flushing /\ Level(buffer) = 0 /\ Prune

WriteReturns ==
  /\ place = "write" /\ Drained
  /\ place' = "idle" /\ flushing' = FALSE /\ sleeps' = 0
  /\ UNCHANGED <<chain, audio, flags, polling, watch>>

-----------------------------------------------------------------------------
(* The player's calls.  canWrite() gives the chain a chance to pass on     *)
(* what it holds; write() calls it.                                        *)
CanWrite ==
  /\ place = "idle" /\ chain /\ ~paused /\ ~polling
  /\ Drain(FALSE, "write")
  /\ UNCHANGED <<chain, audio, device, flags, polling, watch>>

BugWrite(length) == \* a resumed writing phase leaves the close graceful
  /\ place = "idle" /\ chain /\ ~paused
  /\ length <= buffer.availability
  /\ flushCounter' = 0
  /\ polling' = FALSE
  /\ buffer' = Put(buffer, Numbered(nextByte, length))
  /\ nextByte' = Advance(nextByte, length)
  /\ Drain(FALSE, "write")
  /\ UNCHANGED <<chain, packets, nextOutput, device, paused, closeGracefully,
                 watch>>

Write(length) ==
  /\ place = "idle" /\ chain /\ ~paused
  /\ length <= buffer.availability
  /\ closeGracefully' = FALSE /\ flushCounter' = 0
  /\ polling' = FALSE
  /\ buffer' = Put(buffer, Numbered(nextByte, length))
  /\ nextByte' = Advance(nextByte, length)
  /\ Drain(FALSE, "write")
  /\ UNCHANGED <<chain, packets, nextOutput, device, paused, watch>>

(* write(NULL, 0): the player's writing phase is over; it may still resume.*)
WriteNothing ==
  /\ place = "idle" /\ chain /\ ~paused /\ ~polling
  /\ closeGracefully' = FALSE /\ flushCounter' = 0
  /\ polling' = TRUE
  /\ Drain(TRUE, "write")
  /\ UNCHANGED <<chain, audio, device, paused, watch>>

(* Some players do not say so.                                             *)
StopWriting ==
  /\ place = "idle" /\ chain /\ ~paused /\ ~polling
  /\ polling' = TRUE
  /\ UNCHANGED <<chain, audio, device, flags, call, watch>>

Poll ==
  /\ place = "idle" /\ chain
  /\ Drain(FALSE, "poll")
  /\ UNCHANGED <<chain, audio, device, flags, polling, watch>>

BugPollReturns == \* never flushes
  /\ place = "poll" /\ Drained
  /\ flushCounter' = IF flushCounter < PollLimit THEN flushCounter + 1
                                                 ELSE flushCounter
  /\ closeGracefully' = (closeGracefully \/ (Level(buffer) = 0 /\ ~paused))
  /\ Drain(FALSE, "idle")
  /\ UNCHANGED <<chain, audio, paused, polling, watch>>

(* buffered() after checkOutputSink(): it counts towards a flush, or finds *)
(* the chain empty and arms the graceful close.                            *)
PollReturns ==
  /\ place = "poll" /\ Drained
  /\ IF Level(buffer) > 0
       THEN /\ IF flushCounter + 1 > PollLimit
                 THEN flushCounter' = 0 /\ Drain(TRUE, "write")
                 ELSE flushCounter' = flushCounter + 1 /\ Drain(FALSE, "idle")
            /\ UNCHANGED closeGracefully
       ELSE /\ closeGracefully' = (closeGracefully \/ ~paused)
            /\ Drain(FALSE, "idle")
            /\ UNCHANGED flushCounter
  /\ UNCHANGED <<chain, audio, paused, polling, watch>>

Reset ==
  /\ place = "idle" /\ chain
  /\ ResetChain
  /\ polling' = FALSE
  /\ UNCHANGED <<chain, flags, call, watch>>

(* open(), which closes first: in a chain that exists, that is Close.      *)
Open ==
  /\ place = "idle" /\ ~chain
  /\ OpenDevices
  /\ chain' = (device' = "open")
  /\ paused' = (device' # "open")
  /\ closeGracefully' = FALSE /\ flushCounter' = 0
  /\ polling' = FALSE
  /\ buffer' = NewByteBuffer
  /\ UNCHANGED <<nextByte, call, watch>>

Close ==
  /\ place = "idle" /\ chain
  /\ chain' = FALSE
  /\ closeGracefully' = FALSE /\ flushCounter' = 0 /\ paused' = TRUE
  /\ IF closeGracefully /\ device = "open"
       THEN Drain(TRUE, "close") /\ UNCHANGED <<audio, device>>
       ELSE ResetChain /\ UNCHANGED call
  /\ UNCHANGED <<polling, watch>>

(* close() waits for the chain to drain while a device is open; the chain  *)
(* goes away with whatever it holds.                                       *)
CloseWaits ==
  /\ place = "close" /\ Drained
  /\ flushing \/ (Level(buffer) > 0 /\ device' = "open")
  /\ Drain(FALSE, "close")
  /\ UNCHANGED <<chain, audio, flags, polling, watch>>

CloseReturns ==
  /\ place = "close" /\ Drained
  /\ ~flushing /\ (Level(buffer) = 0 \/ device' # "open")
  /\ Drain(FALSE, "idle")
  /\ nextByte' = Advance(nextByte, Modulus - Level(buffer))
  /\ buffer' = NewByteBuffer
  /\ UNCHANGED <<chain, packets, nextOutput, flags, polling, watch>>

(* setPaused(true), with the option to reset on pause or without.          *)
Pause ==
  /\ place = "idle" /\ chain /\ ~paused
  /\ paused' = TRUE
  /\ ResetChain \/ UNCHANGED <<audio, device>>
  /\ UNCHANGED <<chain, closeGracefully, flushCounter, call, polling, watch>>

Resume ==
  /\ place = "idle" /\ chain /\ paused
  /\ paused' = FALSE
  /\ OpenDevices
  /\ UNCHANGED <<chain, buffer, nextByte, closeGracefully, flushCounter, call,
                 polling, watch>>

-----------------------------------------------------------------------------
(* The sender takes a packet off the queue.                                *)
SendPacket ==
  /\ device # "closed" /\ packets # <<>>
  /\ packets' = Tail(packets)
  /\ nextOutput' = Advance(nextOutput, Len(Head(packets)))
  /\ UNCHANGED <<chain, buffer, nextByte, device, flags, call, polling, watch>>

ConnectionLost ==
  /\ device = "open" /\ device' = "lost"
  /\ UNCHANGED <<chain, audio, flags, call, polling, watch>>

(* The user (de)selects a device; one that is selected is opened at once   *)
(* while there is an output chain.                                         *)
Deactivate ==
  /\ device # "closed" /\ device' = "closed"
  /\ UNCHANGED <<chain, audio, flags, call, polling, watch>>

Activate ==
  /\ chain \/ place = "close"
  /\ OpenDevices
  /\ UNCHANGED <<chain, buffer, nextByte, flags, call, polling, watch>>

(* The monitoring thread, four times a second.                             *)
Sample ==
  /\ monitor = "sampling"
  /\ IF paused /\ device # "closed"
       THEN pausedCount' = IF pausedCount < PauseLimit THEN pausedCount + 1
                                                       ELSE pausedCount
       ELSE pausedCount' = 0
  /\ monitor' = IF pausedCount' = PauseLimit THEN "closing" ELSE "sampling"
  /\ UNCHANGED <<chain, audio, device, flags, call, polling>>

CloseDevices ==
  /\ monitor = "closing" /\ monitor' = "sampling"
  /\ device' = "closed"
  /\ UNCHANGED <<chain, audio, flags, call, polling, pausedCount>>

-----------------------------------------------------------------------------
InCall == PassOn \/ WaitForSink \/ WriteReturns \/ PollReturns
            \/ CloseWaits \/ CloseReturns

Next ==
  \/ InCall
  \/ CanWrite \/ WriteNothing \/ StopWriting \/ Poll
  \/ \E length \in 1 .. Capacity : Write(length)
  \/ Reset \/ Open \/ Close \/ Pause \/ Resume
  \/ SendPacket
  \/ ConnectionLost \/ Deactivate \/ Activate
  \/ Sample \/ CloseDevices

Spec == Init /\ [][Next]_vars

(* The player's thread and the sender are scheduled, and a player that is  *)
(* done writing polls.                                                     *)
FairSpec ==
  /\ Spec
  /\ WF_vars(InCall) /\ WF_vars(SendPacket) /\ WF_vars(polling /\ Poll)

-----------------------------------------------------------------------------
(* Each variable keeps to its type.                                        *)
TypeOK ==
  /\ chain \in BOOLEAN /\ buffer \in ByteBuffer
  /\ packets \in Seq(Seq(Byte)) /\ Len(packets) <= QueueLength
  /\ device \in {"closed", "open", "lost"}
  /\ paused \in BOOLEAN /\ closeGracefully \in BOOLEAN
  /\ flushCounter \in 0 .. PollLimit
  /\ place \in {"idle", "write", "poll", "close"}
  /\ flushing \in BOOLEAN /\ sleeps \in 0 .. SleepLimit + 1
  /\ polling \in BOOLEAN
  /\ pausedCount \in 0 .. PauseLimit /\ monitor \in {"sampling", "closing"}
  /\ nextByte \in Byte /\ nextOutput \in Byte

(* Where the bytes of the buffer and of each packet have to begin: each    *)
(* where the one before it ends.                                           *)
BytesInSequence ==
  LET Start(p) == IF p = 1 THEN nextOutput
                           ELSE Advance(packets[p - 1][Len(packets[p - 1])], 1)
  IN  /\ \A p \in 1 .. Len(packets) :
           /\ Len(packets[p]) \in 1 .. PacketSize
           /\ packets[p] = Numbered(Start(p), Len(packets[p]))
      /\ Content(buffer) = Numbered(Start(Len(packets) + 1), Level(buffer))
      /\ nextByte = Advance(Start(Len(packets) + 1), Level(buffer))

(* A graceful close is armed only while the chain holds nothing: it never  *)
(* has anything to wait for, and nothing is lost with the chain            *)
(* (OutputComponent.cpp:122-163, 211-236).                                 *)
GracefulMeansDrained == closeGracefully => Level(buffer) = 0

(* "Wait for output sink to drain" (OutputComponent.cpp:148): closing      *)
(* returns.                                                                *)
ClosingReturns == place = "close" ~> place = "idle"

(* Flushing "after so many attempts to prevent infinite wait"              *)
(* (OutputComponent.cpp:217-221): a player that is done writing and polls  *)
(* finds the chain empty in the end, unless it is paused or the devices go.*)
PollingEnds ==
  polling ~> Level(buffer) = 0 \/ ~polling \/ paused \/ ~chain
               \/ device = "closed"

(* What playback promises the player: every byte it writes gets into a     *)
(* packet, once and in order, and every packet is sent in order, unless    *)
(* the player resets, or packets are left when there is no device open:    *)
(* closing gracefully drops nothing (OutputComponent.cpp:122-163,          *)
(* OutputBuffer.cpp:65-178, DeviceManager.cpp:286-398).                    *)
Stream == INSTANCE AudioStream WITH
            waiting <- Content(buffer), open <- (device = "open")

ImplementsStream == Stream!Spec

(* The monitoring thread closes the devices "when player has been paused   *)
(* or stopped for at least eight seconds" (OutputComponent.cpp:406-407),   *)
(* and so never while it plays.                                            *)
ClosesWhenPaused == [][CloseDevices => paused]_vars
=============================================================================
