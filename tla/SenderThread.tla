---------------------------- MODULE SenderThread ----------------------------
(***************************************************************************)
(* Starting and stopping the engine's sender thread: RAOPEngine's start()  *)
(* and stop() with their callers, one action per access to a variable that *)
(* is not protected by the engine's _mutex.  Module RAOPEngine takes each  *)
(* of these operations for one step.                                       *)
(*                                                                         *)
(* Two threads call them: the player's, which writes and resets, and the   *)
(* one that holds the device manager's mutex, which opens and closes       *)
(* devices ("manager": the user interface or the monitoring thread).       *)
(***************************************************************************)
EXTENDS Naturals, FiniteSets

CONSTANTS
  Device,   (* the remote speakers                                         *)
  Sender,   (* the sender threads that may exist at a time (a bound)       *)
  None      (* no thread, no device, nobody                                *)

Caller == {"player", "manager"}

ASSUME NoneAssumption ==
  None \notin Device /\ None \notin Sender /\ None \notin Caller
ASSUME SenderAssumption == Caller \cap Sender = {} /\ IsFiniteSet(Sender)

VARIABLES
  raopDevices,       (* the devices attached to the engine                 *)
  open,              (* the devices for which isOpen() is true             *)
  isFirstDataPacket,
  stopSending,
  thread,            (* the handle in _senderThread, or None               *)
  sender,            (* where each sender thread is in run()               *)
  mutex,             (* who is inside a critical section                   *)
  at,                (* where each caller is                               *)
  waitsFor,          (* the thread that each caller joins                  *)
  opening,           (* the first device, while the manager opens it       *)
  unstarted          (* history: whether a device was attached to a stream *)
                     (* without others, whose sender stop() had reached,   *)
                     (* or reinit() threw behind stop(), or the sender     *)
                     (* could not be created                               *)

devices == <<raopDevices, open, isFirstDataPacket, opening, unstarted>>
vars == <<devices, stopSending, thread, sender, mutex, at, waitsFor>>

Alive(t) == sender[t] \in {"loop", "locked"}

(* Thread::isRunning() asks the handle.                                    *)
IsRunning == thread # None /\ Alive(thread)

(* A thread that may be created: nobody runs it, holds it or joins it.     *)
Unused(t) == ~Alive(t) /\ t # thread /\ \A c \in Caller : waitsFor[c] # t

GoTo(caller, place) == at' = [at EXCEPT ![caller] = place]

-----------------------------------------------------------------------------
Init ==
  /\ raopDevices = {} /\ open = {}
  /\ isFirstDataPacket = TRUE
  /\ stopSending = FALSE
  /\ thread = None
  /\ sender = [t \in Sender |-> "ended"]
  /\ mutex = None
  /\ at = [c \in Caller |-> "idle"]
  /\ waitsFor = [c \in Caller |-> None]
  /\ opening = None
  /\ unstarted = FALSE

(* An operator whose name begins with Bug is the definition after it with  *)
(* a plausible slip: what the properties have to tell from it.             *)
BugRaiseFlag(caller) == \* joins without telling the thread to leave
  /\ at[caller] = "stop"
  /\ GoTo(caller, "join")
  /\ UNCHANGED <<devices, stopSending, thread, sender, mutex, waitsFor>>

(* stop(), from either caller: raise the flag, then join.  Thread::join()  *)
(* returns at once without a handle; else it waits for the thread and      *)
(* closes whatever handle there is by then.                                *)
RaiseFlag(caller) ==
  /\ at[caller] = "stop"
  /\ stopSending' = TRUE
  /\ GoTo(caller, "join")
  /\ UNCHANGED <<devices, thread, sender, mutex, waitsFor>>

Join(caller) ==
  /\ at[caller] = "join"
  /\ waitsFor' = [waitsFor EXCEPT ![caller] = thread]
  /\ GoTo(caller, IF thread = None THEN "stopped" ELSE "wait")
  /\ UNCHANGED <<devices, stopSending, thread, sender, mutex>>

Joined(caller) ==
  /\ at[caller] \in {"wait", "closed"} /\ ~Alive(waitsFor[caller])
  /\ waitsFor' = [waitsFor EXCEPT ![caller] = None]
  /\ GoTo(caller, "cleanup")
  /\ UNCHANGED <<devices, stopSending, thread, sender, mutex>>

(* Closing the handle may take it from under the other caller.             *)
Cleanup(caller) ==
  /\ at[caller] = "cleanup"
  /\ thread' = None
  /\ at' = [c \in Caller |->
             CASE c = caller -> "stopped"
               [] at[c] = "wait" /\ waitsFor[c] = thread -> "closed"
               [] OTHER -> at[c]]
  /\ UNCHANGED <<devices, stopSending, sender, mutex, waitsFor>>

(* When it was closed between the look at it and the wait, the wait fails, *)
(* and with it the operation that called stop().                           *)
JoinFails(caller) ==
  /\ at[caller] = "closed"
  /\ waitsFor' = [waitsFor EXCEPT ![caller] = None]
  /\ opening' = IF caller = "manager" THEN None ELSE opening
  /\ GoTo(caller, "idle")
  /\ UNCHANGED <<raopDevices, open, isFirstDataPacket, unstarted, stopSending,
                 thread, sender, mutex>>

StopStep(caller) ==
  \/ RaiseFlag(caller) \/ Join(caller) \/ Joined(caller) \/ Cleanup(caller)
  \/ JoinFails(caller)

-----------------------------------------------------------------------------
(* The player asks canWrite() in one critical section and writes in        *)
(* another.                                                                *)
CanWrite ==
  /\ at["player"] = "idle" /\ mutex = None
  /\ raopDevices # {}
  /\ \E t \in Sender : Unused(t) \* the bound
  /\ GoTo("player", "write")
  /\ UNCHANGED <<devices, stopSending, thread, sender, mutex, waitsFor>>

(* write() starts the sender after the first packet, inside its critical   *)
(* section.                                                                *)
Write ==
  /\ at["player"] = "write" /\ mutex = None
  /\ isFirstDataPacket' = FALSE
  /\ mutex' = IF isFirstDataPacket THEN "player" ELSE None
  /\ GoTo("player", IF isFirstDataPacket THEN "start" ELSE "idle")
  /\ UNCHANGED <<raopDevices, open, opening, unstarted, stopSending, thread,
                 sender, waitsFor>>

BugClearFlag == \* the new thread finds the flag of the last stop()
  /\ at["player"] = "start"
  /\ GoTo("player", "create")
  /\ UNCHANGED <<devices, stopSending, thread, sender, mutex, waitsFor>>

ClearFlag ==
  /\ at["player"] = "start"
  /\ stopSending' = FALSE
  /\ GoTo("player", "create")
  /\ UNCHANGED <<devices, thread, sender, mutex, waitsFor>>

BugStartFails == \* the exception leaves the mutex locked
  /\ at["player"] = "create" /\ IsRunning
  /\ GoTo("player", "idle")
  /\ UNCHANGED <<devices, stopSending, thread, sender, mutex, waitsFor>>

(* Thread::start() throws when the thread runs; write() then fails, with   *)
(* the packet written.                                                     *)
StartFails ==
  /\ at["player"] = "create" /\ IsRunning
  /\ mutex' = None
  /\ GoTo("player", "idle")
  /\ UNCHANGED <<devices, stopSending, thread, sender, waitsFor>>

CreateThread ==
  /\ at["player"] = "create" /\ ~IsRunning
  /\ \E t \in Sender :
       /\ Unused(t)
       /\ thread' = t
       /\ sender' = [sender EXCEPT ![t] = "loop"]
  /\ mutex' = None
  /\ GoTo("player", "idle")
  /\ UNCHANGED <<devices, stopSending, waitsFor>>

(* The system has no thread to give; nor does anybody try again.           *)
CreateFails ==
  /\ at["player"] = "create" /\ ~IsRunning
  /\ thread' = None /\ mutex' = None
  /\ unstarted' = TRUE
  /\ GoTo("player", "idle")
  /\ UNCHANGED <<raopDevices, open, isFirstDataPacket, opening, stopSending,
                 sender, waitsFor>>

Flush ==
  /\ at["player"] = "idle" /\ mutex = None
  /\ raopDevices' = raopDevices \cap open
  /\ UNCHANGED <<open, isFirstDataPacket, opening, unstarted, stopSending,
                 thread, sender, mutex, at, waitsFor>>

BeginReset ==
  /\ at["player"] = "idle"
  /\ GoTo("player", "stop")
  /\ UNCHANGED <<devices, stopSending, thread, sender, mutex, waitsFor>>

Reset ==
  /\ at["player"] = "stopped" /\ mutex = None
  /\ raopDevices' = raopDevices \cap open
  /\ isFirstDataPacket' = TRUE /\ unstarted' = FALSE
  /\ GoTo("player", "idle")
  /\ UNCHANGED <<open, opening, stopSending, thread, sender, mutex, waitsFor>>

-----------------------------------------------------------------------------
(* detach(): the last device's removal stops the sender, with the mutex    *)
(* released.                                                               *)
Detach(device) ==
  /\ at["manager"] = "idle" /\ mutex = None
  /\ raopDevices' = raopDevices \ {device}
  /\ open' = open \ {device}
  /\ GoTo("manager", IF raopDevices' = {} THEN "stop" ELSE "idle")
  /\ UNCHANGED <<isFirstDataPacket, opening, unstarted, stopSending, thread,
                 sender, mutex, waitsFor>>

Detached ==
  /\ at["manager"] = "stopped" /\ opening = None
  /\ GoTo("manager", "idle")
  /\ UNCHANGED <<devices, stopSending, thread, sender, mutex, waitsFor>>

(* A device for which isOpen() is true keeps the next one's opening from   *)
(* reinitialising the engine, although it may not be attached.             *)
OpenAnother(device) ==
  /\ at["manager"] = "idle" /\ mutex = None
  /\ open # {} /\ device \notin open
  /\ raopDevices' = raopDevices \cup {device}
  /\ open' = open \cup {device}
  /\ unstarted' = (\/ unstarted
                   \/ /\ raopDevices = {} /\ ~isFirstDataPacket
                      /\ stopSending \/ ~IsRunning)
  /\ UNCHANGED <<isFirstDataPacket, opening, stopSending, thread, sender,
                 mutex, at, waitsFor>>

(* Testing or opening a device fails with its connection made; it is       *)
(* destroyed later.                                                        *)
OpenFails(device) ==
  /\ at["manager"] = "idle" /\ device \notin open
  /\ open' = open \cup {device}
  /\ UNCHANGED <<raopDevices, isFirstDataPacket, opening, unstarted,
                 stopSending, thread, sender, mutex, at, waitsFor>>

OpenFirst(device) ==
  /\ at["manager"] = "idle" /\ open = {}
  /\ opening' = device
  /\ GoTo("manager", "stop")
  /\ UNCHANGED <<raopDevices, open, isFirstDataPacket, unstarted, stopSending,
                 thread, sender, mutex, waitsFor>>

(* The body of reinit() takes no lock.  The stream begins anew, ...        *)
ReinitFirst ==
  /\ at["manager"] = "stopped" /\ opening # None
  /\ isFirstDataPacket' = TRUE /\ unstarted' = FALSE
  /\ GoTo("manager", "reinit")
  /\ UNCHANGED <<raopDevices, open, opening, stopSending, thread, sender,
                 mutex, waitsFor>>

(* ... and so does the list of devices.                                    *)
ReinitDevices ==
  /\ at["manager"] = "reinit"
  /\ raopDevices' = {}
  /\ GoTo("manager", "attach")
  /\ UNCHANGED <<open, isFirstDataPacket, opening, unstarted, stopSending,
                 thread, sender, mutex, waitsFor>>

(* Making the keys fails, which leaves a stream that had begun stopped.    *)
ReinitThrows ==
  /\ at["manager"] = "stopped" /\ opening # None
  /\ opening' = None
  /\ unstarted' = (\/ unstarted
                   \/ ~isFirstDataPacket /\ (stopSending \/ ~IsRunning))
  /\ GoTo("manager", "idle")
  /\ UNCHANGED <<raopDevices, open, isFirstDataPacket, stopSending, thread,
                 sender, mutex, waitsFor>>

(* The device is reached and attached, or only reached, or neither.        *)
Attach ==
  /\ at["manager"] = "attach" /\ mutex = None
  /\ \/ raopDevices' = raopDevices \cup {opening} /\ open' = open \cup {opening}
     \/ open' \in {open, open \cup {opening}} /\ UNCHANGED raopDevices
  /\ opening' = None
  /\ GoTo("manager", "idle")
  /\ UNCHANGED <<isFirstDataPacket, unstarted, stopSending, thread, sender,
                 mutex, waitsFor>>

ConnectionLost(device) ==
  /\ open' = open \ {device}
  /\ UNCHANGED <<raopDevices, isFirstDataPacket, opening, unstarted,
                 stopSending, thread, sender, mutex, at, waitsFor>>

-----------------------------------------------------------------------------
(* run(): the flag is read between two critical sections.                  *)
Leave(t) ==
  /\ sender[t] = "loop" /\ stopSending
  /\ sender' = [sender EXCEPT ![t] = "ended"]
  /\ UNCHANGED <<devices, stopSending, thread, mutex, at, waitsFor>>

Lock(t) ==
  /\ sender[t] = "loop" /\ ~stopSending
  /\ mutex = None /\ mutex' = t
  /\ sender' = [sender EXCEPT ![t] = "locked"]
  /\ UNCHANGED <<devices, stopSending, thread, at, waitsFor>>

Unlock(t) ==
  /\ sender[t] = "locked"
  /\ mutex' = None
  /\ sender' = [sender EXCEPT ![t] = "loop"]
  /\ UNCHANGED <<devices, stopSending, thread, at, waitsFor>>

-----------------------------------------------------------------------------
PlayerStep ==
  Write \/ ClearFlag \/ StartFails \/ CreateThread \/ CreateFails
    \/ Reset \/ StopStep("player")

ManagerStep ==
  Detached \/ ReinitFirst \/ ReinitDevices \/ ReinitThrows \/ Attach
    \/ StopStep("manager")

Next ==
  \/ CanWrite \/ Flush \/ BeginReset
  \/ PlayerStep \/ ManagerStep
  \/ \E device \in Device :
       \/ Detach(device) \/ OpenAnother(device) \/ OpenFirst(device)
       \/ OpenFails(device) \/ ConnectionLost(device)
  \/ \E t \in Sender : Leave(t) \/ Lock(t) \/ Unlock(t)

Spec == Init /\ [][Next]_vars

(* Threads are scheduled, and whoever waits for the mutex gets it: the     *)
(* sender sleeps between its critical sections.  No thread has to begin    *)
(* an operation.                                                           *)
Fairness ==
  /\ SF_vars(PlayerStep) /\ SF_vars(ManagerStep)
  /\ \A t \in Sender :
       /\ WF_vars(Leave(t)) /\ SF_vars(Lock(t)) /\ WF_vars(Unlock(t))

FairSpec == Spec /\ Fairness

-----------------------------------------------------------------------------
(* Each variable keeps to its type.                                        *)
TypeOK ==
  /\ raopDevices \subseteq Device /\ open \subseteq Device
  /\ isFirstDataPacket \in BOOLEAN /\ stopSending \in BOOLEAN
  /\ thread \in Sender \cup {None}
  /\ sender \in [Sender -> {"loop", "locked", "ended"}]
  /\ mutex \in Sender \cup {"player", None}
  /\ at \in [Caller -> {"idle", "write", "start", "create", "stop", "join",
                        "wait", "closed", "cleanup", "stopped", "reinit",
                        "attach"}]
  /\ waitsFor \in [Caller -> Sender \cup {None}]
  /\ opening \in Device \cup {None} /\ unstarted \in BOOLEAN

(* The mutex belongs to the thread that is inside its critical section and *)
(* to nobody else: every way out of write(), the exception of              *)
(* Thread::start() included, and of a turn of run() gives it back          *)
(* (RAOPEngine.cpp:506-568, 693-719).                                      *)
MutexDiscipline ==
  /\ mutex = "player" <=> at["player"] \in {"start", "create"}
  /\ \A t \in Sender : mutex = t <=> sender[t] = "locked"

Inv == TypeOK /\ MutexDiscipline

(* No stall: when neither caller is in the middle of an operation, devices *)
(* are attached and the stream has begun, a sender thread is in its loop   *)
(* and nothing tells it to leave, whatever starts, stops and reinit()      *)
(* overlapped before; and the engine has that thread's handle, so that the *)
(* next stop() finds it (RAOPEngine.cpp:562-568, 656-684).  The exceptions *)
(* are a stream that lost its last device and gets another one without     *)
(* reinit(), because a device that failed still counts as open             *)
(* (DeviceManager.cpp:366-371, RAOPDevice.cpp:207-210), one that reinit()  *)
(* stopped and threw, and a sender that could not be created.              *)
NoStall ==
  (/\ raopDevices # {} /\ ~isFirstDataPacket /\ ~unstarted
   /\ at["player"] = "idle" /\ at["manager"] = "idle")
     => ~stopSending /\ IsRunning

(* The player's write() and reset() return: it is never caught for good in *)
(* a join or behind the mutex (RAOPEngine.cpp:498-569, 599-637, 680-684).  *)
PlayerReturns == at["player"] # "idle" ~> at["player"] = "idle"

(* The assertion of reinit(), RAOPEngine.cpp:325: when stop() has          *)
(* returned, the sender thread does not run.                               *)
ReinitFindsSenderStopped ==
  at["manager"] = "stopped" /\ opening # None => ~IsRunning

(* "To prevent deadlock", detach() stops the sender with the mutex         *)
(* released (RAOPEngine.cpp:664): closing the last device returns.         *)
DetachReturns ==
  at["manager"] = "wait" /\ opening = None ~> at["manager"] # "wait"
=============================================================================
