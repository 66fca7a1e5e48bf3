--------------------------- MODULE DeviceManager ----------------------------
(***************************************************************************)
(* Opening and closing remote speakers: class DeviceManager                *)
(* (core/impl/DeviceManager.cpp) with the options it observes, its callers *)
(* and another observer of the options, the options dialog.                *)
(*                                                                         *)
(* Two threads open devices: the player's, for all that are activated in   *)
(* the options it finds (openDevices), and the user interface's, for one   *)
(* that has been activated (onDeviceChanged, called by setOptions).  Each  *)
(* opening is under the manager's mutex, so that it is one step unless it  *)
(* has to ask for a password; what follows when it fails is not.  A third  *)
(* thread, which monitors playback, sets the volume and closes devices.    *)
(*                                                                         *)
(* The session of a device is in RAOPDevice.tla, the engine's list of      *)
(* attached ones in RAOPEngine.tla.                                        *)
(***************************************************************************)
EXTENDS Options, Integers

CONSTANTS
  Level,      (* master volumes, in decibels of attenuation                *)
  MaxEvents,  (* a bound: how often options and volume are changed,        *)
              (* devices are closed, and opening or a connection fails     *)
  Unset, None

ASSUME LevelAssumption  == Level \subseteq 0..100 /\ Unset \notin Level
ASSUME EventsAssumption == MaxEvents \in Nat
ASSUME NoneAssumption   == None \notin Device

Thread == {"player", "ui"}

VARIABLES
  devices,    (* the map: "none" (not in it), "closed", "open", or         *)
              (* "lost"; "half" has a connection, but no session           *)
  attached,   (* the devices on the engine's list                          *)
  volume,     (* the volume set last, or Unset                             *)
  level,      (* RAOPDevice::_deviceVolume, of each device                 *)
  playing,    (* whether there is an output chain                          *)
  at,         (* what each thread does next, ...                           *)
  device,     (* ... and for which device                                  *)
  toOpen,     (* devices that openDevices() has not come to yet, ...       *)
  stale,      (* ... and whether its options have been replaced            *)
  shown,      (* devices last told active to the dialog                    *)
  late,       (* history: devices opened when they were not activated, ... *)
  overlooked, (* ... activated behind openDevices()'s back, ...            *)
  revoked,    (* ... destroyed after they were activated again, ...        *)
  misled,     (* ... told active when they were not, ...                   *)
  missed,     (* ... and not reached by a change of volume since they had  *)
              (* the master's                                              *)
  events      (* how often, so far                                         *)

map     == <<devices, attached, level>>
opening == <<toOpen, stale, playing>>
history == <<late, overlooked, revoked, misled, missed>>
vars    == <<options, map, volume, opening, at, device, shown, history, events>>

Init ==
  /\ InitOptions
  /\ devices = [d \in Device |-> "none"] /\ attached = {}
  /\ volume = Unset /\ level = [d \in Device |-> 0]
  /\ playing = FALSE /\ toOpen = {} /\ stale = FALSE
  /\ at = [t \in Thread |-> "idle"] /\ device = [t \in Thread |-> None]
  /\ shown = theOptions.activated
  /\ late = {} /\ overlooked = {} /\ revoked = {} /\ misled = {} /\ missed = {}
  /\ events = 0

(* isOpen(): there is a client, and its connection is ready.               *)
IsOpen(d) == devices[d] \in {"half", "open"}

isAnyDeviceOpen == \E d \in Device : IsOpen(d)

(* The mutex is held across steps only for a password dialog.              *)
MutexFree == at["player"] # "asking"

(* One more of the events that are bounded.                                *)
Event == events < MaxEvents /\ events' = events + 1

Go(t, place, d) ==
  at' = [at EXCEPT ![t] = place] /\ device' = [device EXCEPT ![t] = d]

-----------------------------------------------------------------------------
(* setVolume() of a device, with the old level and how far the master's    *)
(* is turned down: one that has the master's level keeps to it, and others *)
(* keep their distance, between 9 and 100.  (Receivers that report or are  *)
(* given a volume of their own, getVolume and putVolume, are left out.)    *)
Adjusted(old, master, down) ==
  IF (old = 0 /\ down = 0) \/ old = master - down
    THEN master
    ELSE LET new == old + down
         IN  IF new > 100 THEN 100 ELSE IF new < 9 THEN 9 ELSE new

BugSetVolume(master) == \* the difference is taken after the change
  /\ MutexFree /\ Event
  /\ master # volume /\ volume' = master
  /\ LET open == {d \in Device : IsOpen(d)}
     IN  \E served \in SUBSET open :
           /\ served = {} => open = {}
           /\ level' = [d \in Device |->
                          IF d \in served THEN Adjusted(level[d], master, 0)
                                          ELSE level[d]]
           /\ missed' = {d \in Device :
                           /\ level'[d] # master
                           /\ \/ d \in missed
                              \/ devices[d] = "half"
                              \/ d \notin served /\ (IsOpen(d) \/ level[d] # 0)}
  /\ UNCHANGED <<options, devices, attached, opening, at, device, shown, late,
                 overlooked, revoked, misled>>

(* setVolume(), called by checkDeviceVolume(): an exception ends the loop  *)
(* with the device that throws.                                            *)
SetVolume(master) ==
  /\ MutexFree /\ Event
  /\ master # volume /\ volume' = master
  /\ LET open == {d \in Device : IsOpen(d)}
         down == IF volume = Unset THEN 0 ELSE master - volume
     IN  \E served \in SUBSET open :
           /\ served = {} => open = {}
           /\ level' = [d \in Device |->
                          IF d \in served THEN Adjusted(level[d], master, down)
                                          ELSE level[d]]
           /\ missed' = {d \in Device :
                           /\ level'[d] # master
                           /\ \/ d \in missed
                              \/ devices[d] = "half"
                              \/ d \notin served /\ (IsOpen(d) \/ level[d] # 0)}
  /\ UNCHANGED <<options, devices, attached, opening, at, device, shown, late,
                 overlooked, revoked, misled>>

-----------------------------------------------------------------------------
(* What openDevice() leaves of the engine's list: before the first device  *)
(* is opened, reinit() clears it.                                          *)
BugListBeforeOpening == {}                        \* reinit() every time
ListBeforeOpening == IF isAnyDeviceOpen THEN attached ELSE {}

(* A new device begins with level 0.  When it has been opened it gets the  *)
(* volume, if one was set.                                                 *)
LevelWhenOpened(d) ==
  IF volume = Unset THEN level[d] ELSE Adjusted(level[d], volume, 0)

(* The device's state, the engine's list and the level after openDevice(). *)
Result(t, d, state, list, newLevel) ==
  /\ devices' = [devices EXCEPT ![d] = state]
  /\ attached' = list
  /\ level' = [level EXCEPT ![d] = newLevel]
  /\ late' = IF state \in {"half", "open"} /\ ~isActivated(d)
               THEN late \cup {d} ELSE late
  /\ overlooked' = overlooked \ {d} /\ revoked' = revoked \ {d}

Succeeds(t, d) ==
  \/ IsOpen(d) /\ Result(t, d, devices[d], attached, level[d])
  \/ /\ ~IsOpen(d)
     /\ Result(t, d, "open", ListBeforeOpening \cup {d}, LevelWhenOpened(d))

(* openDevice() fails: an open device does not take the progress; the type *)
(* is not supported; the test fails, with its connection left open when it *)
(* throws; then connecting, the negotiation, or setting the volume of the  *)
(* device that is open.                                                    *)
Fails(t, d) ==
  \/ IsOpen(d) /\ Result(t, d, devices[d], attached, level[d])
  \/ /\ devices[d] = "none"
     /\ \E state \in {"none", "closed", "half"} :
          Result(t, d, state, attached, level[d])
  \/ /\ ~IsOpen(d)
     /\ \E state \in {IF devices[d] = "none" THEN "closed" ELSE devices[d],
                      "half"} :
          Result(t, d, state, ListBeforeOpening, level[d])
  \/ /\ ~IsOpen(d)
     /\ Result(t, d, "open", ListBeforeOpening \cup {d}, LevelWhenOpened(d))

Opening(t, d, next) ==
  /\ \/ /\ Succeeds(t, d) /\ Go(t, next, IF t = "ui" THEN d ELSE None)
        /\ UNCHANGED events
     \/ Fails(t, d) /\ Go(t, "failed", d) /\ Event
  /\ UNCHANGED <<volume, playing, shown, misled, missed>>

(* What follows an exception, without the mutex: the device is deactivated *)
(* in the options of the moment, ...                                       *)
GiveUp(t) ==
  /\ at[t] = "failed" /\ SetInactive(device[t])
  /\ Go(t, "undo", device[t])
  /\ UNCHANGED <<map, volume, opening, shown, history, events>>

(* destroyDevice() closes it, ...                                          *)
Destroy(d) ==
  /\ MutexFree
  /\ devices' = [devices EXCEPT ![d] = "none"]
  /\ attached' = attached \ {d} /\ level' = [level EXCEPT ![d] = 0]
  /\ late' = late \ {d} /\ missed' = missed \ {d}

BugUndoSilent(t) == \* destroys the device without a notification
  /\ at[t] = "undo" /\ Destroy(device[t])
  /\ revoked' = IF isActivated(device[t]) THEN revoked \cup {device[t]}
                                          ELSE revoked
  /\ Go(t, IF t = "ui" THEN "tellOn" ELSE "loop", device[t])
  /\ UNCHANGED <<options, volume, opening, shown, overlooked, misled, events>>

(* ... as the first observer of a notification that is posted, ...         *)
Undo(t) ==
  /\ at[t] = "undo" /\ Destroy(device[t])
  /\ revoked' = IF isActivated(device[t]) THEN revoked \cup {device[t]}
                                          ELSE revoked
  /\ Go(t, "tellOff", device[t])
  /\ UNCHANGED <<options, volume, opening, shown, overlooked, misled, events>>

-----------------------------------------------------------------------------
(* ... and the dialog, the second one, shows the device deselected.  From  *)
(* the player's thread it takes a message, with the observer's mutex held; *)
(* the user interface goes on with the notification it was about.          *)
PlayerTells ==
  /\ at["player"] = "tellOff" /\ at["ui"] = "idle"
  /\ shown' = shown \ {device["player"]} /\ misled' = misled \ {device["player"]}
  /\ Go("player", "loop", None)
  /\ UNCHANGED <<options, map, volume, opening, late, overlooked, revoked,
                 missed, events>>

ObserverFree == at["player"] # "tellOff"

UserInterfaceTellsOff ==
  /\ at["ui"] \in {"tellOff", "off"} /\ ObserverFree
  /\ shown' = shown \ {device["ui"]} /\ misled' = misled \ {device["ui"]}
  /\ IF at["ui"] = "tellOff" THEN Go("ui", "tellOn", device["ui"])
                             ELSE Go("ui", "loop", None)
  /\ UNCHANGED <<options, map, volume, opening, late, overlooked, revoked,
                 missed, events>>

UserInterfaceTellsOn ==
  /\ at["ui"] = "tellOn" /\ ObserverFree
  /\ shown' = shown \cup {device["ui"]}
  /\ misled' = IF isActivated(device["ui"]) THEN misled \ {device["ui"]}
                                            ELSE misled \cup {device["ui"]}
  /\ Go("ui", "loop", None)
  /\ UNCHANGED <<options, map, volume, opening, late, overlooked, revoked,
                 missed, events>>

-----------------------------------------------------------------------------
(* The user interface hands new options over: OptionsDialog, or toggle().  *)
(* openDevices() holds on to those it has begun with.                      *)
Edit(new) ==
  /\ at["ui"] = "idle" /\ Event
  /\ Replace(new) /\ Go("ui", "loop", None)
  /\ IF at["player"] = "idle" \/ stale
       THEN UNCHANGED <<toOpen, stale>>
       ELSE toOpen' = toOpen \cap theOptions.activated /\ stale' = TRUE
  /\ UNCHANGED <<map, volume, playing, shown, history>>

(* onDeviceChanged() for a device that has been activated: it is opened if *)
(* there is an output chain.                                               *)
ActivateDevice(d) ==
  /\ at["ui"] = "loop" /\ BecomesActive(d)
  /\ Compared(d) /\ Go("ui", "open", d)
  /\ UNCHANGED <<theOptions, map, volume, opening, shown, history, events>>

OpenActivated ==
  /\ at["ui"] = "open" /\ playing /\ MutexFree
  /\ Opening("ui", device["ui"], "tellOn")
  /\ UNCHANGED <<options, toOpen, stale>>

LeaveActivated ==
  /\ at["ui"] = "open" /\ ~playing
  /\ overlooked' = IF at["player"] # "idle" /\ stale
                     THEN overlooked \cup {device["ui"]} ELSE overlooked
  /\ Go("ui", "tellOn", device["ui"])
  /\ UNCHANGED <<options, map, volume, opening, shown, late, revoked, misled,
                 missed, events>>

DeactivateDevice(d) ==
  /\ at["ui"] = "loop" /\ BecomesInactive(d)
  /\ Compared(d) /\ Go("ui", "destroy", d)
  /\ UNCHANGED <<theOptions, map, volume, opening, shown, history, events>>

DestroyDeactivated ==
  /\ at["ui"] = "destroy" /\ Destroy(device["ui"])
  /\ Go("ui", "off", device["ui"])
  /\ UNCHANGED <<options, volume, opening, shown, overlooked, revoked, misled,
                 events>>

LeaveDevice(d) ==
  /\ at["ui"] = "loop" /\ d \in replaced.toCompare
  /\ ~BecomesActive(d) /\ ~BecomesInactive(d)
  /\ Compared(d)
  /\ UNCHANGED <<theOptions, map, volume, opening, at, device, shown, history,
                 events>>

BugEditReturns == \* an observer's exception ends the comparison
  /\ at["ui"] = "loop"
  /\ Go("ui", "idle", None)
  /\ UNCHANGED <<options, map, volume, opening, shown, history, events>>

EditReturns ==
  /\ at["ui"] = "loop" /\ replaced.toCompare = {}
  /\ Go("ui", "idle", None)
  /\ UNCHANGED <<options, map, volume, opening, shown, history, events>>

-----------------------------------------------------------------------------
(* The player opens the output or resumes: openDevices().                  *)
BeginOpening(output) ==
  /\ at["player"] = "idle"
  /\ playing' = output /\ (output => playing)
  /\ toOpen' = theOptions.devices /\ stale' = FALSE
  /\ Go("player", "loop", None)
  /\ UNCHANGED <<options, map, volume, shown, history, events>>

(* As long as its options are the ones of the moment, a device may be      *)
(* deactivated in them.                                                    *)
Wanted(d) == d \in toOpen /\ (stale \/ isActivated(d))

Skip(d) ==
  /\ at["player"] = "loop" /\ d \in toOpen /\ ~Wanted(d)
  /\ toOpen' = toOpen \ {d}
  /\ UNCHANGED <<options, map, volume, stale, playing, at, device, shown,
                 history, events>>

BugOpenNext(d) == \* the loop does not go on to the next
  /\ at["player"] = "loop" /\ Wanted(d)
  /\ Opening("player", d, "loop")
  /\ UNCHANGED <<options, toOpen, stale>>

OpenNext(d) ==
  /\ at["player"] = "loop" /\ Wanted(d)
  /\ toOpen' = toOpen \ {d}
  /\ Opening("player", d, "loop")
  /\ UNCHANGED <<options, stale>>

(* A password has to be asked for, with the mutex held; the dialog belongs *)
(* to the player's window, which is the user interface's.                  *)
Ask(d) ==
  /\ at["player"] = "loop" /\ Wanted(d) /\ ~IsOpen(d)
  /\ toOpen' = toOpen \ {d}
  /\ Go("player", "asking", d)
  /\ UNCHANGED <<options, map, volume, stale, playing, shown, history, events>>

Answered ==
  /\ at["player"] = "asking" /\ at["ui"] = "idle"
  /\ Opening("player", device["player"], "loop")
  /\ UNCHANGED <<options, toOpen, stale>>

(* open() makes an output chain if any device is open.                     *)
OpeningReturns ==
  /\ at["player"] = "loop" /\ toOpen = {}
  /\ playing' = (playing \/ isAnyDeviceOpen) /\ stale' = FALSE
  /\ Go("player", "idle", None)
  /\ UNCHANGED <<options, map, volume, toOpen, shown, history, events>>

PlayerCloses ==
  /\ at["player"] = "idle" /\ playing /\ playing' = FALSE
  /\ UNCHANGED <<options, map, volume, toOpen, stale, at, device, shown,
                 history, events>>

(* closeDevices() in the monitoring thread; an exception ends its loop     *)
(* after the device that throws, which is closed.                          *)
CloseDevices ==
  /\ MutexFree /\ Event
  /\ \E closed \in SUBSET {d \in Device : devices[d] \notin {"none", "closed"}} :
       /\ closed # {}
       /\ devices' = [d \in Device |-> IF d \in closed THEN "closed"
                                                       ELSE devices[d]]
       /\ attached' = attached \ closed
  /\ UNCHANGED <<options, level, volume, opening, at, device, shown,
                 history>>

ConnectionLost(d) ==
  /\ IsOpen(d) /\ Event
  /\ devices' = [devices EXCEPT ![d] = "lost"]
  /\ UNCHANGED <<options, attached, level, volume, opening, at, device, shown,
                 history>>

-----------------------------------------------------------------------------
PlayerStep ==
  \/ GiveUp("player") \/ Undo("player") \/ PlayerTells
  \/ \E d \in Device : Skip(d) \/ OpenNext(d) \/ Ask(d)
  \/ Answered \/ OpeningReturns

UserInterfaceStep ==
  \/ GiveUp("ui") \/ Undo("ui")
  \/ UserInterfaceTellsOff \/ UserInterfaceTellsOn
  \/ \E d \in Device : ActivateDevice(d) \/ DeactivateDevice(d) \/ LeaveDevice(d)
  \/ OpenActivated \/ LeaveActivated \/ DestroyDeactivated \/ EditReturns

Next ==
  \/ PlayerStep \/ UserInterfaceStep
  \/ \E output \in BOOLEAN : BeginOpening(output)
  \/ \E activated \in SUBSET Device : Edit(With(activated))
  \/ PlayerCloses \/ CloseDevices
  \/ \E d \in Device : ConnectionLost(d)
  \/ \E master \in Level : SetVolume(master)

Spec == Init /\ [][Next]_vars

(* Both threads are scheduled, and get the mutex in the end; dialogs are   *)
(* answered.  Nothing has to be opened, changed or closed.                 *)
Fairness == SF_vars(PlayerStep) /\ SF_vars(UserInterfaceStep)

FairSpec == Spec /\ Fairness

-----------------------------------------------------------------------------
(* Everything has its type, and the user interface compares options only   *)
(* in setOptions().                                                        *)
Inv ==
  /\ theOptions.activated \subseteq theOptions.devices
  /\ theOptions.devices \cup replaced.toCompare \cup toOpen \subseteq Device
  /\ devices \in [Device -> {"none", "closed", "half", "open", "lost"}]
  /\ attached \cup shown \subseteq Device
  /\ volume \in Level \cup {Unset} /\ level \in [Device -> 0..100]
  /\ {playing, stale} \subseteq BOOLEAN
  /\ device \in [Thread -> Device \cup {None}]
  /\ at["player"] \in {"idle", "loop", "asking", "failed", "undo", "tellOff"}
  /\ at["ui"] \in {"idle", "loop", "open", "destroy", "off", "failed", "undo",
                   "tellOff", "tellOn"}
  /\ at["ui"] = "idle" => replaced = Nothing
  /\ at["player"] = "idle" => toOpen = {}

(* reinit() is called only when no device is open, so every open device is *)
(* on the engine's list, although others fail and are lost in every state  *)
(* of opening; and a device with a connection but no session, which        *)
(* isOpen() takes for an open one, is in the hands of a thread that will   *)
(* destroy it (openDevice, isAnyDeviceOpen, RAOPDevice::isOpen).           *)
StreamsKept ==
  \A d \in Device :
    /\ devices[d] = "open" => d \in attached
    /\ devices[d] = "half" =>
         \E t \in Thread : at[t] \in {"failed", "undo"} /\ device[t] = d

AboutToDestroy(d) ==
  \/ \E t \in Thread : at[t] \in {"undo", "destroy"} /\ device[t] = d
  \/ BecomesInactive(d)

(* A device that is open is activated, or is about to be destroyed.  The   *)
(* exceptions are devices opened after they had been deactivated: by       *)
(* openDevices(), from options that have been replaced, or for a           *)
(* notification that comes late (setOptions, openDevices, openDevice).     *)
OpenIsActivated ==
  \A d \in Device :
    IsOpen(d) => isActivated(d) \/ d \in late \/ AboutToDestroy(d)

AboutToOpen(d) ==
  \/ BecomesActive(d) \/ Wanted(d)
  \/ \E t \in Thread : at[t] \in {"open", "asking", "failed"} /\ device[t] = d

(* While there is an output chain an activated device has been opened, or  *)
(* is about to be.  The exceptions are devices activated before open() has *)
(* made the chain and after it looked at the options, and those that a     *)
(* failure destroys after they were activated again (setOptions,           *)
(* onDeviceChanged, OutputComponent::open).                                *)
ActivatedIsOpened ==
  playing =>
    \A d \in theOptions.activated :
      devices[d] # "none" \/ AboutToOpen(d) \/ d \in overlooked \cup revoked

AboutToTell(d) ==
  \/ \E t \in Thread : at[t] \in {"undo", "tellOff", "destroy", "off"}
                       /\ device[t] = d
  \/ BecomesInactive(d)

(* The dialog shows a device selected only if it is activated, or it is    *)
(* about to be told.  The exceptions are devices whose activation is told  *)
(* after their deactivation: opening failed within the notification        *)
(* (postNotification, openDevice, OptionsDialogImpl::onDeviceChanged).     *)
DialogTruthful ==
  \A d \in shown : isActivated(d) \/ d \in misled \/ AboutToTell(d)

(* Every open device has the master's volume, however the volume changes   *)
(* and devices come and go, unless it missed a change since: it had no     *)
(* session then, or comes after one that threw (setVolume, openDevice).    *)
VolumeInStep ==
  volume # Unset =>
    \A d \in Device : devices[d] = "open" =>
      level[d] = volume \/ d \in missed

(* The two ways in which the player may wait for the user interface while  *)
(* that waits for the player: with the mutex held in a password dialog,    *)
(* and with the dialog's observer locked.                                  *)
Embrace ==
  \/ at["player"] = "asking"  /\ \/ at["ui"] \in {"destroy", "undo"}
                                 \/ at["ui"] = "open" /\ playing
  \/ at["player"] = "tellOff" /\ at["ui"] \in {"tellOff", "off", "tellOn"}

(* Otherwise opening devices and changing the options come to an end, and  *)
(* so do the failures on the way (openDevices, setOptions).                *)
CallsReturn ==
  \A t \in Thread : at[t] # "idle" ~> at[t] = "idle" \/ Embrace
=============================================================================
