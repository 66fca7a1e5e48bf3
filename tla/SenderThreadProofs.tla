------------------------- MODULE SenderThreadProofs -------------------------
(***************************************************************************)
(* The invariants of SenderThread hold for any number of devices and       *)
(* sender threads.                                                         *)
(*                                                                         *)
(* That the stream does not stall is an invariant of the states in which   *)
(* nobody is about to start or stop the sender.  To carry it from one such *)
(* state to the next, a stop has to be shown to end with no stream: the    *)
(* manager stops the sender with no device left, or goes on to reinit().   *)
(*                                                                         *)
(* The steps implement AttachedDevices.  What the player and the manager   *)
(* know of the sender that they stop, at the end, says why reset() returns *)
(* and finds it stopped, and what alone can keep detach() and reinit() from *)
(* it.                                                                     *)
(***************************************************************************)
EXTENDS SenderThread, TLAPS

Stopping(caller) ==
  at[caller] \in {"join", "wait", "closed", "cleanup", "stopped"}

(* What the manager relies on while it opens the first device or has       *)
(* closed the last one.                                                    *)
Manages ==
  /\ at["manager"] \notin {"write", "start", "create"}
  /\ at["manager"] = "idle" => opening = None
  /\ at["manager"] \in {"reinit", "attach"} => opening # None /\ open = {}
  /\ at["manager"] = "stop" \/ Stopping("manager") =>
       IF opening = None THEN raopDevices = {} ELSE open = {}
  /\ at["manager"] = "attach" => raopDevices = {}

(* Packets have to be sent, now or when the device is attached.            *)
Streaming ==
  /\ ~isFirstDataPacket /\ ~unstarted
  /\ raopDevices # {} \/ at["manager"] \in {"reinit", "attach"}

(* The manager is not stopping the sender, or cannot go on with it.        *)
Steady == Stopping("manager") => at["manager"] = "closed"

Sends ==
  Streaming /\ Steady =>
    /\ at["player"] \notin {"start", "create"} /\ ~Stopping("player") =>
         ~stopSending /\ IsRunning
    /\ at["player"] = "create" => ~stopSending

(* The manager has taken the handle from under the player.                 *)
Overtaken ==
  at["player"] = "closed" => thread = None /\ (Steady => ~Streaming)

IInv == Inv /\ Manages /\ Sends /\ Overtaken

USE NoneAssumption, SenderAssumption DEF Caller

-----------------------------------------------------------------------------
LEMMA InitIInv == Init => IInv
BY DEF Init, IInv, Inv, TypeOK, MutexDiscipline, Manages, Sends, Streaming,
       Stopping, Overtaken, Steady

(* One lemma for each action.                                              *)
LEMMA RaiseFlagKeepsIInv ==
  ASSUME IInv, NEW caller \in Caller, RaiseFlag(caller)
  PROVE  IInv'
<1> USE DEF RaiseFlag, GoTo, devices
<1>1. TypeOK'
  BY DEF IInv, Inv, TypeOK
<1>2. MutexDiscipline'
  BY DEF IInv, Inv, TypeOK, MutexDiscipline
<1>3. Manages'
  BY DEF IInv, Inv, TypeOK, Manages, Stopping
<1>4. Sends'
  BY DEF IInv, Inv, TypeOK, Manages, Sends, Streaming, Stopping, Steady,
         Alive, IsRunning
<1>5. Overtaken'
  BY DEF IInv, Inv, TypeOK, Manages, Overtaken, Streaming, Stopping, Steady,
         Alive, IsRunning
<1> QED BY <1>1, <1>2, <1>3, <1>4, <1>5 DEF IInv, Inv

LEMMA JoinKeepsIInv ==
  ASSUME IInv, NEW caller \in Caller, Join(caller)
  PROVE  IInv'
<1> USE DEF Join, GoTo, devices
<1>1. TypeOK'
  BY DEF IInv, Inv, TypeOK
<1>2. MutexDiscipline'
  BY DEF IInv, Inv, TypeOK, MutexDiscipline
<1>3. Manages'
  BY DEF IInv, Inv, TypeOK, Manages, Stopping
<1>4. Sends'
  BY DEF IInv, Inv, TypeOK, Manages, Sends, Streaming, Stopping, Steady,
         Alive, IsRunning
<1>5. Overtaken'
  BY DEF IInv, Inv, TypeOK, Manages, Overtaken, Streaming, Stopping, Steady,
         Alive, IsRunning
<1> QED BY <1>1, <1>2, <1>3, <1>4, <1>5 DEF IInv, Inv

LEMMA JoinedKeepsIInv ==
  ASSUME IInv, NEW caller \in Caller, Joined(caller)
  PROVE  IInv'
<1> USE DEF Joined, GoTo, devices
<1>1. TypeOK'
  BY DEF IInv, Inv, TypeOK
<1>2. MutexDiscipline'
  BY DEF IInv, Inv, TypeOK, MutexDiscipline
<1>3. Manages'
  BY DEF IInv, Inv, TypeOK, Manages, Stopping
<1>4. Sends'
  BY DEF IInv, Inv, TypeOK, Manages, Sends, Streaming, Stopping, Steady,
         Alive, IsRunning
<1>5. Overtaken'
  BY DEF IInv, Inv, TypeOK, Manages, Overtaken, Streaming, Stopping, Steady,
         Alive, IsRunning
<1> QED BY <1>1, <1>2, <1>3, <1>4, <1>5 DEF IInv, Inv

LEMMA CleanupKeepsIInv ==
  ASSUME IInv, NEW caller \in Caller, Cleanup(caller)
  PROVE  IInv'
<1> USE DEF Cleanup, GoTo, devices
<1>1. TypeOK'
  BY DEF IInv, Inv, TypeOK
<1>2. MutexDiscipline'
  BY DEF IInv, Inv, TypeOK, MutexDiscipline
<1>3. Manages'
  BY DEF IInv, Inv, TypeOK, Manages, Stopping
<1>4. Sends'
  BY DEF IInv, Inv, TypeOK, Manages, Sends, Streaming, Stopping, Steady,
         Alive, IsRunning
<1>5. Overtaken'
  BY DEF IInv, Inv, TypeOK, Manages, Overtaken, Streaming, Stopping, Steady,
         Alive, IsRunning
<1> QED BY <1>1, <1>2, <1>3, <1>4, <1>5 DEF IInv, Inv

LEMMA JoinFailsKeepsIInv ==
  ASSUME IInv, NEW caller \in Caller, JoinFails(caller)
  PROVE  IInv'
<1> USE DEF JoinFails, GoTo, devices
<1>1. TypeOK'
  BY DEF IInv, Inv, TypeOK
<1>2. MutexDiscipline'
  BY DEF IInv, Inv, TypeOK, MutexDiscipline
<1>3. Manages'
  BY DEF IInv, Inv, TypeOK, Manages, Stopping
<1>4. Sends'
  BY DEF IInv, Inv, TypeOK, Manages, Sends, Overtaken,
         Streaming, Stopping, Steady,
         Alive, IsRunning
<1>5. Overtaken'
  BY DEF IInv, Inv, TypeOK, Manages, Overtaken, Streaming, Stopping, Steady,
         Alive, IsRunning
<1> QED BY <1>1, <1>2, <1>3, <1>4, <1>5 DEF IInv, Inv

LEMMA CanWriteKeepsIInv ==
  ASSUME IInv, CanWrite
  PROVE  IInv'
<1> USE DEF CanWrite, GoTo, devices
<1>1. TypeOK'
  BY DEF IInv, Inv, TypeOK
<1>2. MutexDiscipline'
  BY DEF IInv, Inv, TypeOK, MutexDiscipline
<1>3. Manages'
  BY DEF IInv, Inv, TypeOK, Manages, Stopping
<1>4. Sends'
  BY DEF IInv, Inv, TypeOK, Manages, Sends, Streaming, Stopping, Steady,
         Alive, IsRunning
<1>5. Overtaken'
  BY DEF IInv, Inv, TypeOK, Manages, Overtaken, Streaming, Stopping, Steady,
         Alive, IsRunning
<1> QED BY <1>1, <1>2, <1>3, <1>4, <1>5 DEF IInv, Inv

LEMMA WriteKeepsIInv ==
  ASSUME IInv, Write
  PROVE  IInv'
<1> USE DEF Write, GoTo, devices
<1>1. TypeOK'
  BY DEF IInv, Inv, TypeOK
<1>2. MutexDiscipline'
  BY DEF IInv, Inv, TypeOK, MutexDiscipline
<1>3. Manages'
  BY DEF IInv, Inv, TypeOK, Manages, Stopping
<1>4. Sends'
  BY DEF IInv, Inv, TypeOK, Manages, Sends, Streaming, Stopping, Steady,
         Alive, IsRunning
<1>5. Overtaken'
  BY DEF IInv, Inv, TypeOK, Manages, Overtaken, Streaming, Stopping, Steady,
         Alive, IsRunning
<1> QED BY <1>1, <1>2, <1>3, <1>4, <1>5 DEF IInv, Inv

LEMMA ClearFlagKeepsIInv ==
  ASSUME IInv, ClearFlag
  PROVE  IInv'
<1> USE DEF ClearFlag, GoTo, devices
<1>1. TypeOK'
  BY DEF IInv, Inv, TypeOK
<1>2. MutexDiscipline'
  BY DEF IInv, Inv, TypeOK, MutexDiscipline
<1>3. Manages'
  BY DEF IInv, Inv, TypeOK, Manages, Stopping
<1>4. Sends'
  BY DEF IInv, Inv, TypeOK, Manages, Sends, Streaming, Stopping, Steady,
         Alive, IsRunning
<1>5. Overtaken'
  BY DEF IInv, Inv, TypeOK, Manages, Overtaken, Streaming, Stopping, Steady,
         Alive, IsRunning
<1> QED BY <1>1, <1>2, <1>3, <1>4, <1>5 DEF IInv, Inv

LEMMA StartFailsKeepsIInv ==
  ASSUME IInv, StartFails
  PROVE  IInv'
<1> USE DEF StartFails, GoTo, devices
<1>1. TypeOK'
  BY DEF IInv, Inv, TypeOK, IsRunning
<1>2. MutexDiscipline'
  BY DEF IInv, Inv, TypeOK, MutexDiscipline, IsRunning
<1>3. Manages'
  BY DEF IInv, Inv, TypeOK, Manages, Stopping, IsRunning
<1>4. Sends'
  BY DEF IInv, Inv, TypeOK, Manages, Sends, Streaming, Stopping, Steady,
         Alive, IsRunning
<1>5. Overtaken'
  BY DEF IInv, Inv, TypeOK, Manages, Overtaken, Streaming, Stopping, Steady,
         Alive, IsRunning
<1> QED BY <1>1, <1>2, <1>3, <1>4, <1>5 DEF IInv, Inv

LEMMA CreateThreadKeepsIInv ==
  ASSUME IInv, CreateThread
  PROVE  IInv'
<1> USE DEF CreateThread, GoTo, devices
<1>1. TypeOK'
  BY DEF IInv, Inv, TypeOK, IsRunning, Unused
<1>2. MutexDiscipline'
  BY DEF IInv, Inv, TypeOK, MutexDiscipline, IsRunning, Unused
<1>3. Manages'
  BY DEF IInv, Inv, TypeOK, Manages, Stopping, IsRunning, Unused
<1>4. Sends'
  BY DEF IInv, Inv, TypeOK, Manages, Sends, Streaming, Stopping, Steady,
         Alive, IsRunning, Unused
<1>5. Overtaken'
  BY DEF IInv, Inv, TypeOK, Manages, Overtaken, Streaming, Stopping, Steady,
         Alive, IsRunning, Unused
<1> QED BY <1>1, <1>2, <1>3, <1>4, <1>5 DEF IInv, Inv

LEMMA CreateFailsKeepsIInv ==
  ASSUME IInv, CreateFails
  PROVE  IInv'
<1> USE DEF CreateFails, GoTo, devices
<1>1. TypeOK'
  BY DEF IInv, Inv, TypeOK, IsRunning
<1>2. MutexDiscipline'
  BY DEF IInv, Inv, TypeOK, MutexDiscipline, IsRunning
<1>3. Manages'
  BY DEF IInv, Inv, TypeOK, Manages, Stopping, IsRunning
<1>4. Sends'
  BY DEF IInv, Inv, TypeOK, Manages, Sends, Streaming, Stopping, Steady,
         Alive, IsRunning
<1>5. Overtaken'
  BY DEF IInv, Inv, TypeOK, Manages, Overtaken, Streaming, Stopping, Steady,
         Alive, IsRunning
<1> QED BY <1>1, <1>2, <1>3, <1>4, <1>5 DEF IInv, Inv

LEMMA FlushKeepsIInv ==
  ASSUME IInv, Flush
  PROVE  IInv'
<1> USE DEF Flush, GoTo, devices
<1>1. TypeOK'
  BY DEF IInv, Inv, TypeOK
<1>2. MutexDiscipline'
  BY DEF IInv, Inv, TypeOK, MutexDiscipline
<1>3. Manages'
  BY DEF IInv, Inv, TypeOK, Manages, Stopping
<1>4. Sends'
  BY DEF IInv, Inv, TypeOK, Manages, Sends, Streaming, Stopping, Steady,
         Alive, IsRunning
<1>5. Overtaken'
  BY DEF IInv, Inv, TypeOK, Manages, Overtaken, Streaming, Stopping, Steady,
         Alive, IsRunning
<1> QED BY <1>1, <1>2, <1>3, <1>4, <1>5 DEF IInv, Inv

LEMMA BeginResetKeepsIInv ==
  ASSUME IInv, BeginReset
  PROVE  IInv'
<1> USE DEF BeginReset, GoTo, devices
<1>1. TypeOK'
  BY DEF IInv, Inv, TypeOK
<1>2. MutexDiscipline'
  BY DEF IInv, Inv, TypeOK, MutexDiscipline
<1>3. Manages'
  BY DEF IInv, Inv, TypeOK, Manages, Stopping
<1>4. Sends'
  BY DEF IInv, Inv, TypeOK, Manages, Sends, Streaming, Stopping, Steady,
         Alive, IsRunning
<1>5. Overtaken'
  BY DEF IInv, Inv, TypeOK, Manages, Overtaken, Streaming, Stopping, Steady,
         Alive, IsRunning
<1> QED BY <1>1, <1>2, <1>3, <1>4, <1>5 DEF IInv, Inv

LEMMA ResetKeepsIInv ==
  ASSUME IInv, Reset
  PROVE  IInv'
<1> USE DEF Reset, GoTo, devices
<1>1. TypeOK'
  BY DEF IInv, Inv, TypeOK
<1>2. MutexDiscipline'
  BY DEF IInv, Inv, TypeOK, MutexDiscipline
<1>3. Manages'
  BY DEF IInv, Inv, TypeOK, Manages, Stopping
<1>4. Sends'
  BY DEF IInv, Inv, TypeOK, Manages, Sends, Streaming, Stopping, Steady,
         Alive, IsRunning
<1>5. Overtaken'
  BY DEF IInv, Inv, TypeOK, Manages, Overtaken, Streaming, Stopping, Steady,
         Alive, IsRunning
<1> QED BY <1>1, <1>2, <1>3, <1>4, <1>5 DEF IInv, Inv

LEMMA DetachKeepsIInv ==
  ASSUME IInv, NEW device \in Device, Detach(device)
  PROVE  IInv'
<1> USE DEF Detach, GoTo, devices
<1>1. TypeOK'
  BY DEF IInv, Inv, TypeOK
<1>2. MutexDiscipline'
  BY DEF IInv, Inv, TypeOK, MutexDiscipline
<1>3. Manages'
  BY DEF IInv, Inv, TypeOK, Manages, Stopping
<1>4. Sends'
  BY DEF IInv, Inv, TypeOK, Manages, Sends, Streaming, Stopping, Steady,
         Alive, IsRunning
<1>5. Overtaken'
  BY DEF IInv, Inv, TypeOK, Manages, Overtaken, Streaming, Stopping, Steady,
         Alive, IsRunning
<1> QED BY <1>1, <1>2, <1>3, <1>4, <1>5 DEF IInv, Inv

LEMMA DetachedKeepsIInv ==
  ASSUME IInv, Detached
  PROVE  IInv'
<1> USE DEF Detached, GoTo, devices
<1>1. TypeOK'
  BY DEF IInv, Inv, TypeOK
<1>2. MutexDiscipline'
  BY DEF IInv, Inv, TypeOK, MutexDiscipline
<1>3. Manages'
  BY DEF IInv, Inv, TypeOK, Manages, Stopping
<1>4. Sends'
  BY DEF IInv, Inv, TypeOK, Manages, Sends, Streaming, Stopping, Steady,
         Alive, IsRunning
<1>5. Overtaken'
  BY DEF IInv, Inv, TypeOK, Manages, Overtaken, Streaming, Stopping, Steady,
         Alive, IsRunning
<1> QED BY <1>1, <1>2, <1>3, <1>4, <1>5 DEF IInv, Inv

LEMMA OpenAnotherKeepsIInv ==
  ASSUME IInv, NEW device \in Device, OpenAnother(device)
  PROVE  IInv'
<1> USE DEF OpenAnother, GoTo, devices
<1>1. TypeOK'
  BY DEF IInv, Inv, TypeOK
<1>2. MutexDiscipline'
  BY DEF IInv, Inv, TypeOK, MutexDiscipline
<1>3. Manages'
  BY DEF IInv, Inv, TypeOK, Manages, Stopping
<1>4. Sends'
  BY DEF IInv, Inv, TypeOK, Manages, Sends, Streaming, Stopping, Steady,
         Alive, IsRunning
<1>5. Overtaken'
  BY DEF IInv, Inv, TypeOK, Manages, Overtaken, Streaming, Stopping, Steady,
         Alive, IsRunning
<1> QED BY <1>1, <1>2, <1>3, <1>4, <1>5 DEF IInv, Inv

LEMMA OpenFailsKeepsIInv ==
  ASSUME IInv, NEW device \in Device, OpenFails(device)
  PROVE  IInv'
<1> USE DEF OpenFails, GoTo, devices
<1>1. TypeOK'
  BY DEF IInv, Inv, TypeOK
<1>2. MutexDiscipline'
  BY DEF IInv, Inv, TypeOK, MutexDiscipline
<1>3. Manages'
  BY DEF IInv, Inv, TypeOK, Manages, Stopping
<1>4. Sends'
  BY DEF IInv, Inv, TypeOK, Manages, Sends, Streaming, Stopping, Steady,
         Alive, IsRunning
<1>5. Overtaken'
  BY DEF IInv, Inv, TypeOK, Manages, Overtaken, Streaming, Stopping, Steady,
         Alive, IsRunning
<1> QED BY <1>1, <1>2, <1>3, <1>4, <1>5 DEF IInv, Inv

LEMMA OpenFirstKeepsIInv ==
  ASSUME IInv, NEW device \in Device, OpenFirst(device)
  PROVE  IInv'
<1> USE DEF OpenFirst, GoTo, devices
<1>1. TypeOK'
  BY DEF IInv, Inv, TypeOK
<1>2. MutexDiscipline'
  BY DEF IInv, Inv, TypeOK, MutexDiscipline
<1>3. Manages'
  BY DEF IInv, Inv, TypeOK, Manages, Stopping
<1>4. Sends'
  BY DEF IInv, Inv, TypeOK, Manages, Sends, Streaming, Stopping, Steady,
         Alive, IsRunning
<1>5. Overtaken'
  BY DEF IInv, Inv, TypeOK, Manages, Overtaken, Streaming, Stopping, Steady,
         Alive, IsRunning
<1> QED BY <1>1, <1>2, <1>3, <1>4, <1>5 DEF IInv, Inv

LEMMA ReinitFirstKeepsIInv ==
  ASSUME IInv, ReinitFirst
  PROVE  IInv'
<1> USE DEF ReinitFirst, GoTo, devices
<1>1. TypeOK'
  BY DEF IInv, Inv, TypeOK
<1>2. MutexDiscipline'
  BY DEF IInv, Inv, TypeOK, MutexDiscipline
<1>3. Manages'
  BY DEF IInv, Inv, TypeOK, Manages, Stopping
<1>4. Sends'
  BY DEF IInv, Inv, TypeOK, Manages, Sends, Streaming, Stopping, Steady,
         Alive, IsRunning
<1>5. Overtaken'
  BY DEF IInv, Inv, TypeOK, Manages, Overtaken, Streaming, Stopping, Steady,
         Alive, IsRunning
<1> QED BY <1>1, <1>2, <1>3, <1>4, <1>5 DEF IInv, Inv

LEMMA ReinitDevicesKeepsIInv ==
  ASSUME IInv, ReinitDevices
  PROVE  IInv'
<1> USE DEF ReinitDevices, GoTo, devices
<1>1. TypeOK'
  BY DEF IInv, Inv, TypeOK
<1>2. MutexDiscipline'
  BY DEF IInv, Inv, TypeOK, MutexDiscipline
<1>3. Manages'
  BY DEF IInv, Inv, TypeOK, Manages, Stopping
<1>4. Sends'
  BY DEF IInv, Inv, TypeOK, Manages, Sends, Streaming, Stopping, Steady,
         Alive, IsRunning
<1>5. Overtaken'
  BY DEF IInv, Inv, TypeOK, Manages, Overtaken, Streaming, Stopping, Steady,
         Alive, IsRunning
<1> QED BY <1>1, <1>2, <1>3, <1>4, <1>5 DEF IInv, Inv

LEMMA ReinitThrowsKeepsIInv ==
  ASSUME IInv, ReinitThrows
  PROVE  IInv'
<1> USE DEF ReinitThrows, GoTo, devices
<1>1. TypeOK'
  BY DEF IInv, Inv, TypeOK
<1>2. MutexDiscipline'
  BY DEF IInv, Inv, TypeOK, MutexDiscipline
<1>3. Manages'
  BY DEF IInv, Inv, TypeOK, Manages, Stopping
<1>4. Sends'
  BY DEF IInv, Inv, TypeOK, Manages, Sends, Streaming, Stopping, Steady,
         Alive, IsRunning
<1>5. Overtaken'
  BY DEF IInv, Inv, TypeOK, Manages, Overtaken, Streaming, Stopping, Steady,
         Alive, IsRunning
<1> QED BY <1>1, <1>2, <1>3, <1>4, <1>5 DEF IInv, Inv

LEMMA AttachKeepsIInv ==
  ASSUME IInv, Attach
  PROVE  IInv'
<1> USE DEF Attach, GoTo, devices
<1>1. TypeOK'
  BY DEF IInv, Inv, TypeOK, Manages
<1>2. MutexDiscipline'
  BY DEF IInv, Inv, TypeOK, MutexDiscipline
<1>3. Manages'
  BY DEF IInv, Inv, TypeOK, Manages, Stopping
<1>4. Sends'
  BY DEF IInv, Inv, TypeOK, Manages, Sends, Streaming, Stopping, Steady,
         Alive, IsRunning
<1>5. Overtaken'
  BY DEF IInv, Inv, TypeOK, Manages, Overtaken, Streaming, Stopping, Steady,
         Alive, IsRunning
<1> QED BY <1>1, <1>2, <1>3, <1>4, <1>5 DEF IInv, Inv

LEMMA ConnectionLostKeepsIInv ==
  ASSUME IInv, NEW device \in Device, ConnectionLost(device)
  PROVE  IInv'
<1> USE DEF ConnectionLost, GoTo, devices
<1>1. TypeOK'
  BY DEF IInv, Inv, TypeOK
<1>2. MutexDiscipline'
  BY DEF IInv, Inv, TypeOK, MutexDiscipline
<1>3. Manages'
  BY DEF IInv, Inv, TypeOK, Manages, Stopping
<1>4. Sends'
  BY DEF IInv, Inv, TypeOK, Manages, Sends, Streaming, Stopping, Steady,
         Alive, IsRunning
<1>5. Overtaken'
  BY DEF IInv, Inv, TypeOK, Manages, Overtaken, Streaming, Stopping, Steady,
         Alive, IsRunning
<1> QED BY <1>1, <1>2, <1>3, <1>4, <1>5 DEF IInv, Inv

LEMMA LeaveKeepsIInv ==
  ASSUME IInv, NEW t \in Sender, Leave(t)
  PROVE  IInv'
<1> USE DEF Leave, GoTo, devices
<1>1. TypeOK'
  BY DEF IInv, Inv, TypeOK
<1>2. MutexDiscipline'
  BY DEF IInv, Inv, TypeOK, MutexDiscipline
<1>3. Manages'
  BY DEF IInv, Inv, TypeOK, Manages, Stopping
<1>4. Sends'
  BY DEF IInv, Inv, TypeOK, Manages, Sends, Streaming, Stopping, Steady,
         Alive, IsRunning
<1>5. Overtaken'
  BY DEF IInv, Inv, TypeOK, Manages, Overtaken, Streaming, Stopping, Steady,
         Alive, IsRunning
<1> QED BY <1>1, <1>2, <1>3, <1>4, <1>5 DEF IInv, Inv

LEMMA LockKeepsIInv ==
  ASSUME IInv, NEW t \in Sender, Lock(t)
  PROVE  IInv'
<1> USE DEF Lock, GoTo, devices
<1>1. TypeOK'
  BY DEF IInv, Inv, TypeOK
<1>2. MutexDiscipline'
  BY DEF IInv, Inv, TypeOK, MutexDiscipline
<1>3. Manages'
  BY DEF IInv, Inv, TypeOK, Manages, Stopping
<1>4. Sends'
  BY DEF IInv, Inv, TypeOK, Manages, Sends, Streaming, Stopping, Steady,
         Alive, IsRunning
<1>5. Overtaken'
  BY DEF IInv, Inv, TypeOK, Manages, Overtaken, Streaming, Stopping, Steady,
         Alive, IsRunning
<1> QED BY <1>1, <1>2, <1>3, <1>4, <1>5 DEF IInv, Inv

LEMMA UnlockKeepsIInv ==
  ASSUME IInv, NEW t \in Sender, Unlock(t)
  PROVE  IInv'
<1> USE DEF Unlock, GoTo, devices
<1>1. TypeOK'
  BY DEF IInv, Inv, TypeOK
<1>2. MutexDiscipline'
  BY DEF IInv, Inv, TypeOK, MutexDiscipline
<1>3. Manages'
  BY DEF IInv, Inv, TypeOK, Manages, Stopping
<1>4. Sends'
  BY DEF IInv, Inv, TypeOK, Manages, Sends, Streaming, Stopping, Steady,
         Alive, IsRunning
<1>5. Overtaken'
  BY DEF IInv, Inv, TypeOK, Manages, Overtaken, Streaming, Stopping, Steady,
         Alive, IsRunning
<1> QED BY <1>1, <1>2, <1>3, <1>4, <1>5 DEF IInv, Inv

LEMMA StutterKeepsIInv ==
  ASSUME IInv, UNCHANGED vars
  PROVE  IInv'
BY DEF IInv, Inv, TypeOK, MutexDiscipline, Manages, Sends, Streaming, Stopping,
       Overtaken, Steady, Alive, IsRunning, vars, devices

LEMMA NextKeepsIInv == IInv /\ [Next]_vars => IInv'
<1> SUFFICES ASSUME IInv, [Next]_vars PROVE IInv'
  OBVIOUS
<1>1. CASE CanWrite
  BY <1>1, CanWriteKeepsIInv
<1>2. CASE Flush
  BY <1>2, FlushKeepsIInv
<1>3. CASE BeginReset
  BY <1>3, BeginResetKeepsIInv
<1>4. CASE Write
  BY <1>4, WriteKeepsIInv
<1>5. CASE ClearFlag
  BY <1>5, ClearFlagKeepsIInv
<1>6. CASE StartFails
  BY <1>6, StartFailsKeepsIInv
<1>7. CASE CreateThread \/ CreateFails
  BY <1>7, CreateThreadKeepsIInv, CreateFailsKeepsIInv
<1>8. CASE Reset
  BY <1>8, ResetKeepsIInv
<1>9. CASE Detached
  BY <1>9, DetachedKeepsIInv
<1>10. CASE ReinitFirst \/ ReinitDevices \/ ReinitThrows
  BY <1>10, ReinitFirstKeepsIInv, ReinitDevicesKeepsIInv,
     ReinitThrowsKeepsIInv
<1>11. CASE Attach
  BY <1>11, AttachKeepsIInv
<1>12. CASE \E caller \in Caller : StopStep(caller)
  BY <1>12, RaiseFlagKeepsIInv, JoinKeepsIInv, JoinedKeepsIInv,
     CleanupKeepsIInv, JoinFailsKeepsIInv
     DEF StopStep
<1>13. CASE \E device \in Device :
             \/ Detach(device) \/ OpenAnother(device) \/ OpenFirst(device)
             \/ OpenFails(device) \/ ConnectionLost(device)
  BY <1>13, DetachKeepsIInv, OpenAnotherKeepsIInv, OpenFirstKeepsIInv,
     OpenFailsKeepsIInv, ConnectionLostKeepsIInv
<1>14. CASE \E t \in Sender : Leave(t) \/ Lock(t) \/ Unlock(t)
  BY <1>14, LeaveKeepsIInv, LockKeepsIInv, UnlockKeepsIInv
<1>15. CASE UNCHANGED vars
  BY <1>15, StutterKeepsIInv
<1> QED
  BY <1>1, <1>2, <1>3, <1>4, <1>5, <1>6, <1>7, <1>8, <1>9, <1>10,
     <1>11, <1>12, <1>13, <1>14, <1>15
     DEF Next, PlayerStep, ManagerStep

LEMMA AlwaysIInv == Spec => []IInv
<1> QED BY InitIInv, NextKeepsIInv, PTL DEF Spec

(* Each variable keeps to its type, and the engine's mutex belongs to the  *)
(* thread that is inside its critical section: write() gives it back when  *)
(* starting the thread throws.                                             *)
THEOREM MutexBelongs == Spec => []Inv
<1>1. IInv => Inv
  BY DEF IInv
<1> QED BY <1>1, AlwaysIInv, PTL

(* However the starts of write() overlap the stops of reset(), detach()    *)
(* and reinit(), when both callers have returned, devices are attached and *)
(* the stream has begun, the sender that the engine has a handle of runs   *)
(* and is not told to leave: unless the stream had lost its last device,   *)
(* and one that failed kept the next one from reinitialising the engine.   *)
THEOREM StreamNeverStalls == Spec => []NoStall
<1>1. IInv => NoStall
  BY DEF IInv, Sends, Streaming, Stopping, Steady, NoStall
<1> QED BY <1>1, AlwaysIInv, PTL

-----------------------------------------------------------------------------
(* The devices, without the steps in which they are opened.                *)
Devices == INSTANCE AttachedDevices WITH attached <- raopDevices

(* The devices that the sender works for are those of the engine and the   *)
(* device manager (RAOPEngineProofs, DeviceManagerProofs), although        *)
(* reinit() and the attachment of the first device are apart: the manager  *)
(* begins with none open and none attached (RAOPEngine.cpp:318-432,        *)
(* 640-669, DeviceManager.cpp:363-373).                                    *)
THEOREM SenderServesDevices == Spec => Devices!Spec
<1>1. Init => Devices!Init
  BY DEF Init, Devices!Init
<1>2. IInv /\ [Next]_vars => [Devices!Next]_(Devices!vars)
  <2> SUFFICES ASSUME IInv, [Next]_vars
               PROVE  Devices!Next \/ UNCHANGED <<open, raopDevices>>
    BY DEF Devices!vars
  <2>1. ASSUME NEW device \in Device, Detach(device)
        PROVE  Devices!Close({device})
    BY <2>1 DEF Detach, Devices!Close
  <2>2. ASSUME NEW device \in Device, OpenAnother(device)
        PROVE  Devices!Open(device)
    BY <2>2 DEF OpenAnother, Devices!Open, Devices!Kept
  <2>3. ASSUME NEW device \in Device, OpenFails(device)
        PROVE  Devices!OpenFails(device)
    BY <2>3 DEF OpenFails, Devices!OpenFails
  <2>4. ASSUME NEW device \in Device, ConnectionLost(device)
        PROVE  Devices!ConnectionLost(device)
    BY <2>4 DEF ConnectionLost, Devices!ConnectionLost
  <2>5. CASE ReinitDevices
    <3>1. opening \in Device /\ open = {}
      BY <2>5 DEF ReinitDevices, IInv, Inv, TypeOK, Manages, Stopping
    <3> QED BY <2>5, <3>1 DEF ReinitDevices, Devices!Next, Devices!OpenFails,
                              Devices!Kept
  <2>6. CASE Attach
    <3>1. opening \in Device /\ open = {} /\ raopDevices = {}
      BY <2>6 DEF Attach, IInv, Inv, TypeOK, Manages
    <3>2. Devices!Open(opening) \/ Devices!OpenFails(opening)
      BY <2>6, <3>1 DEF Attach, Devices!Open, Devices!OpenFails, Devices!Kept
    <3> QED BY <3>1, <3>2 DEF Devices!Next
  <2>7. CASE Flush \/ Reset
    BY <2>7 DEF Flush, Reset, Devices!Prune, Devices!Next
  <2>8. CASE \/ CanWrite \/ BeginReset \/ Write \/ ClearFlag \/ StartFails
             \/ CreateThread \/ CreateFails \/ Detached \/ ReinitFirst
             \/ ReinitThrows \/ \E caller \in Caller : StopStep(caller)
    BY <2>8 DEF CanWrite, BeginReset, Write, ClearFlag, StartFails,
                CreateThread, CreateFails, Detached, ReinitFirst,
                ReinitThrows, StopStep,
                RaiseFlag, Join, Joined, Cleanup, JoinFails, devices
  <2>9. CASE \/ \E device \in Device : OpenFirst(device)
             \/ \E t \in Sender : Leave(t) \/ Lock(t) \/ Unlock(t)
             \/ UNCHANGED vars
    BY <2>9 DEF OpenFirst, Leave, Lock, Unlock, vars, devices
  <2>10. \A device \in Device : {device} \in SUBSET Device
    OBVIOUS
  <2> QED
    BY <2>1, <2>2, <2>3, <2>4, <2>5, <2>6, <2>7, <2>8, <2>9, <2>10
       DEF Next, PlayerStep, ManagerStep, Devices!Next
<1> QED BY <1>1, <1>2, AlwaysIInv, PTL DEF Spec, Devices!Spec

-----------------------------------------------------------------------------
(* What the player knows of the sender while it stops it.                  *)
Joins ==
  /\ Stopping("player") => stopSending
  /\ at["player"] = "wait" => thread \in {waitsFor["player"], None}
  /\ at["player"] = "cleanup" => ~IsRunning
  /\ at["player"] = "stopped" => thread = None
  /\ at["player"] \in {"start", "create"} =>
       ~isFirstDataPacket \/ at["manager"] \in {"reinit", "attach"}

LEMMA AlwaysJoins == Spec => [](IInv /\ Joins)
<1>1. Init => Joins
  BY DEF Init, Joins, Stopping
<1>2. IInv /\ Joins /\ [Next]_vars => Joins'
  <2> SUFFICES ASSUME IInv, Joins, [Next]_vars PROVE Joins'
    OBVIOUS
  <2> USE DEF Joins, Stopping, IInv, Inv, TypeOK, MutexDiscipline, GoTo,
              IsRunning, Alive, devices
  <2>1. ASSUME NEW caller \in Caller, RaiseFlag(caller) \/ Join(caller)
        PROVE  Joins'
    BY <2>1 DEF RaiseFlag, Join
  <2>2. ASSUME NEW caller \in Caller,
               Joined(caller) \/ Cleanup(caller) \/ JoinFails(caller)
        PROVE  Joins'
    <3>1. CASE Joined(caller)
      BY <2>2, <3>1 DEF Joined, Overtaken
    <3>2. CASE Cleanup(caller)
      BY <2>2, <3>2 DEF Cleanup
    <3>3. CASE JoinFails(caller)
      BY <2>2, <3>3 DEF JoinFails
    <3> QED BY <2>2, <3>1, <3>2, <3>3
  <2>3. CASE CanWrite \/ BeginReset \/ Write \/ ClearFlag \/ Flush
    BY <2>3 DEF CanWrite, BeginReset, Write, ClearFlag, Flush
  <2>4. CASE StartFails \/ CreateThread \/ CreateFails \/ Reset
    BY <2>4 DEF StartFails, CreateThread, CreateFails, Unused, Reset
  <2>5. CASE \/ Detached \/ ReinitFirst \/ ReinitDevices \/ ReinitThrows
             \/ Attach
    <3>1. CASE ReinitFirst \/ ReinitDevices
      BY <3>1 DEF ReinitFirst, ReinitDevices
    <3>2. CASE ReinitThrows
      BY <3>2 DEF ReinitThrows
    <3> QED BY <2>5, <3>1, <3>2 DEF Detached, Attach
  <2>6. ASSUME NEW device \in Device,
               \/ Detach(device) \/ OpenAnother(device) \/ OpenFirst(device)
               \/ OpenFails(device) \/ ConnectionLost(device)
        PROVE  Joins'
    <3>1. /\ UNCHANGED <<isFirstDataPacket, stopSending, thread, sender,
                         waitsFor>>
          /\ at'["player"] = at["player"]
          /\ \/ /\ at["manager"] \notin {"reinit", "attach"}
                /\ at'["manager"] \in {"stop", "idle"}
             \/ at' = at
      BY <2>6 DEF Detach, OpenAnother, OpenFirst, OpenFails, ConnectionLost
    <3> QED BY <3>1
  <2>7. ASSUME NEW t \in Sender, Leave(t) \/ Lock(t) \/ Unlock(t)
        PROVE  Joins'
    BY <2>7 DEF Leave, Lock, Unlock
  <2>8. CASE UNCHANGED vars
    BY <2>8 DEF vars
  <2> QED BY <2>1, <2>2, <2>3, <2>4, <2>5, <2>6, <2>7, <2>8
             DEF Next, PlayerStep, ManagerStep, StopStep
<1> QED BY <1>1, <1>2, AlwaysIInv, PTL DEF Spec

(* The player waits for a thread that will leave: it has been told to, and *)
(* nobody takes that back or keeps the mutex from it.                      *)
JoinEnds ==
  /\ at["player"] = "wait" => stopSending /\ mutex # "player"
  /\ mutex \in Sender => sender[mutex] = "locked"

(* Why reset() returns although write() clears the flag that it raises:    *)
(* both are calls of the player.  The manager has no such promise, and     *)
(* DetachReturns fails (RAOPEngine.cpp:599-602, 672-684).                  *)
THEOREM PlayerJoinsLeaving == Spec => []JoinEnds
<1>1. IInv /\ Joins => JoinEnds
  BY DEF IInv, Inv, MutexDiscipline, Joins, Stopping, JoinEnds
<1> QED BY <1>1, AlwaysJoins, PTL

(* The assertion of reset() (RAOPEngine.cpp:606).                          *)
ResetFindsSenderStopped == at["player"] = "stopped" => ~IsRunning

(* The assertion that fails in reinit() holds in reset(), however the two  *)
(* overlap: only the player starts a sender (RAOPEngine.cpp:599-606).      *)
THEOREM ResetStopsSender == Spec => []ResetFindsSenderStopped
<1>1. Joins => ResetFindsSenderStopped
  BY DEF Joins, ResetFindsSenderStopped, IsRunning
<1> QED BY <1>1, AlwaysJoins, PTL

-----------------------------------------------------------------------------
VARIABLE
  behind (* history: whether write() was in start() since the manager's    *)
         (* last stop() began                                              *)

(* It records what steps do, and so keeps none of them from happening.     *)
NoteStart ==
  behind' = CASE RaiseFlag("manager")        -> FALSE
              [] ClearFlag \/ CreateThread   -> TRUE
              [] OTHER                       -> behind

NotingSpec ==
  Init /\ behind = FALSE /\ [][Next /\ NoteStart]_<<vars, behind>>

(* The manager waits for a sender that is told to leave, and finds none    *)
(* that runs after stop(), unless write() has been starting one meanwhile. *)
StartedBehind ==
  /\ at["manager"] = "wait" => stopSending \/ behind
  /\ at["manager"] = "stopped" => ~IsRunning \/ behind

(* What the manager knows of the sender while it stops it.                 *)
JoinsUnlessBehind ==
  /\ Stopping("manager") => stopSending
  /\ at["manager"] = "wait" => thread \in {waitsFor["manager"], None}
  /\ at["manager"] = "closed" => thread = None
  /\ at["manager"] \in {"cleanup", "stopped"} => ~IsRunning

(* How ReinitFindsSenderStopped and DetachReturns fail, and that there is  *)
(* no other way: write() starts a sender while the manager is in stop()    *)
(* (RAOPEngine.cpp:318-325, 562-571, 656-684).                             *)
THEOREM OnlyWriteStartsBehind == NotingSpec => []StartedBehind
<1> DEFINE Knows == behind \in BOOLEAN /\ (~behind => JoinsUnlessBehind)
<1>1. Init /\ behind = FALSE => Knows
  BY DEF Init, JoinsUnlessBehind, Stopping
<1>2. IInv /\ Knows /\ [Next /\ NoteStart]_<<vars, behind>> => Knows'
  <2> SUFFICES ASSUME IInv, Knows, [Next /\ NoteStart]_<<vars, behind>>
               PROVE  Knows'
    OBVIOUS
  <2>1. behind' \in BOOLEAN
    BY DEF NoteStart
  <2> USE DEF JoinsUnlessBehind, Stopping, IInv, Inv, TypeOK,
              MutexDiscipline, GoTo, IsRunning, Alive, devices
  <2>2. CASE RaiseFlag("manager") /\ NoteStart
    <3>1. at'["manager"] = "join" /\ stopSending'
      BY <2>2 DEF RaiseFlag
    <3> QED BY <2>1, <3>1
  <2>3. CASE (ClearFlag \/ CreateThread) /\ NoteStart
    <3>1. ~RaiseFlag("manager")
      BY <2>3 DEF RaiseFlag, ClearFlag, CreateThread
    <3>2. behind'
      BY <2>3, <3>1 DEF NoteStart
    <3> QED BY <2>1, <3>2
  <2>4. CASE /\ [Next]_vars /\ behind' = behind
             /\ ~RaiseFlag("manager") /\ ~ClearFlag /\ ~CreateThread
    <3> SUFFICES ASSUME ~behind PROVE JoinsUnlessBehind'
      BY <2>1, <2>4
    <3>1. JoinsUnlessBehind
      OBVIOUS
    <3>2. CASE \/ RaiseFlag("player") \/ Join("player") \/ Joined("player")
               \/ Cleanup("player")
      BY <3>1, <3>2 DEF RaiseFlag, Join, Joined, Cleanup
    <3>3. CASE Join("manager") \/ Joined("manager") \/ Cleanup("manager")
      BY <3>1, <3>3 DEF Join, Joined, Cleanup
    <3>4. CASE JoinFails("player") \/ JoinFails("manager")
      BY <3>1, <3>4 DEF JoinFails
    <3>5. CASE \/ CanWrite \/ BeginReset \/ Write \/ StartFails \/ CreateFails
               \/ Flush \/ Reset
      BY <3>1, <3>5 DEF CanWrite, BeginReset, Write, StartFails, CreateFails,
                        Flush, Reset
    <3>6. CASE \/ Detached \/ ReinitFirst \/ ReinitDevices \/ ReinitThrows
               \/ Attach
      BY <3>1, <3>6 DEF Detached, ReinitFirst, ReinitDevices, ReinitThrows,
                        Attach
    <3>7. ASSUME NEW device \in Device,
                 \/ Detach(device) \/ OpenAnother(device) \/ OpenFirst(device)
                 \/ OpenFails(device) \/ ConnectionLost(device)
          PROVE  JoinsUnlessBehind'
      <4>1. /\ UNCHANGED <<stopSending, thread, sender, waitsFor>>
            /\ at'["manager"] \in {"stop", "idle"} \/ at' = at
        BY <3>7 DEF Detach, OpenAnother, OpenFirst, OpenFails, ConnectionLost
      <4> QED BY <3>1, <4>1
    <3>8. ASSUME NEW t \in Sender, Leave(t) \/ Lock(t) \/ Unlock(t)
          PROVE  JoinsUnlessBehind'
      BY <3>1, <3>8 DEF Leave, Lock, Unlock
    <3>9. CASE UNCHANGED vars
      BY <3>1, <3>9 DEF vars
    <3> QED BY <2>4, <3>2, <3>3, <3>4, <3>5, <3>6, <3>7, <3>8, <3>9
               DEF Next, PlayerStep, ManagerStep, StopStep
  <2>5. CASE NoteStart /\ ~RaiseFlag("manager") /\ ~(ClearFlag \/ CreateThread)
    BY <2>4, <2>5 DEF NoteStart
  <2>6. CASE UNCHANGED <<vars, behind>>
    BY <2>6 DEF vars
  <2> QED BY <2>2, <2>3, <2>5, <2>6
<1>3. [Next /\ NoteStart]_<<vars, behind>> => [Next]_vars
  OBVIOUS
<1>4. IInv /\ Knows => StartedBehind
  BY DEF JoinsUnlessBehind, Stopping, StartedBehind
<1> QED BY <1>1, <1>2, <1>3, <1>4, AlwaysIInv, PTL DEF Spec, NotingSpec
=============================================================================
