------------------------ MODULE DeviceManagerProofs -------------------------
(***************************************************************************)
(* The invariants of DeviceManager hold for every set of remote speakers,  *)
(* every set of volumes and any number of failures.                        *)
(*                                                                         *)
(* Each is inductive next to the types, but for two.  That activated       *)
(* devices are opened has to hold as soon as the player begins to open     *)
(* them, and as long as it does so from the options of the moment it may   *)
(* not rely on the user interface.  That volumes are in step needs to      *)
(* know what a closed device is opened with.                               *)
(*                                                                         *)
(* That the manager implements AttachedDevices needs in addition what a    *)
(* change of a device's state does to the set of open ones.                *)
(***************************************************************************)
EXTENDS DeviceManager, TLAPS

Types ==
  /\ theOptions \in [devices : SUBSET Device, activated : SUBSET Device]
  /\ theOptions.activated \subseteq theOptions.devices
  /\ replaced \in [devices : SUBSET Device, activated : SUBSET Device,
                   toCompare : SUBSET Device]
  /\ toOpen \subseteq Device
  /\ devices \in [Device -> {"none", "closed", "half", "open", "lost"}]
  /\ attached \subseteq Device /\ shown \subseteq Device
  /\ volume \in Level \cup {Unset} /\ level \in [Device -> 0..100]
  /\ playing \in BOOLEAN /\ stale \in BOOLEAN
  /\ device \in [Thread -> Device \cup {None}]
  /\ at \in [Thread -> {"idle", "loop", "open", "asking", "destroy", "off",
                        "failed", "undo", "tellOff", "tellOn"}]
  /\ at["player"] \notin {"open", "destroy", "off", "tellOn"}
  /\ at["ui"] # "asking"
  /\ \A t \in Thread : at[t] \notin {"idle", "loop"} => device[t] \in Device

(* How far each thread has come with what.                                 *)
Places ==
  /\ replaced.toCompare = {} => replaced = Nothing
  /\ at["ui"] = "idle" => replaced = Nothing
  /\ at["player"] = "idle" => toOpen = {}
  /\ at["ui"] \in {"destroy", "undo"} => ~isActivated(device["ui"])

InHand(d) ==
  \E t \in Thread : at[t] \in {"asking", "failed"} /\ device[t] = d

(* ActivatedIsOpened, from the moment on in which the player begins.       *)
Opened ==
  /\ playing \/ at["player"] # "idle" =>
       \A d \in theOptions.activated :
         devices[d] # "none" \/ AboutToOpen(d) \/ d \in overlooked \cup revoked
  /\ at["player"] # "idle" /\ ~stale =>
       \A d \in theOptions.activated :
         devices[d] # "none" \/ d \in toOpen \/ InHand(d) \/ d \in revoked

(* VolumeInStep, and what devices have that are not open.                  *)
Levels ==
  IF volume = Unset
    THEN \A d \in Device : level[d] = 0
    ELSE \A d \in Device \ missed :
           level[d] = volume \/ (level[d] = 0 /\ devices[d] # "open")

IInv ==
  Types /\ Places /\ StreamsKept /\ OpenIsActivated /\ Opened /\ DialogTruthful
    /\ Levels

USE LevelAssumption, EventsAssumption, NoneAssumption, ManualAssumption
    DEF Thread

-----------------------------------------------------------------------------
LEMMA InitIInv == Init => IInv
<1> SUFFICES ASSUME Init PROVE IInv
  OBVIOUS
<1> USE DEF Init, InitOptions, With, Nothing
<1>1. Types
  <2>1. theOptions \in [devices : SUBSET Device, activated : SUBSET Device]
    OBVIOUS
  <2>2. replaced \in [devices : SUBSET Device, activated : SUBSET Device,
                     toCompare : SUBSET Device]
    OBVIOUS
  <2>3. theOptions.activated \subseteq theOptions.devices /\ shown \subseteq Device
    OBVIOUS
  <2>4. /\ at \in [Thread -> {"idle"}] /\ device \in [Thread -> {None}]
        /\ level \in [Device -> {0}] /\ devices \in [Device -> {"none"}]
    OBVIOUS
  <2>5. /\ toOpen \subseteq Device /\ attached \subseteq Device
        /\ volume \in Level \cup {Unset}
        /\ playing \in BOOLEAN /\ stale \in BOOLEAN
    OBVIOUS
  <2>6. /\ level \in [Device -> 0..100]
        /\ devices \in [Device -> {"none", "closed", "half", "open", "lost"}]
        /\ device \in [Thread -> Device \cup {None}]
    OBVIOUS
  <2>7. \A t \in Thread : at[t] = "idle"
    BY <2>4
  <2>8. /\ at \in [Thread -> {"idle", "loop", "open", "asking", "destroy",
                             "off", "failed", "undo", "tellOff", "tellOn"}]
        /\ at["player"] \notin {"open", "destroy", "off", "tellOn"}
        /\ at["ui"] # "asking"
        /\ \A t \in Thread : at[t] \notin {"idle", "loop"} => device[t] \in Device
    BY <2>4, <2>7
  <2> HIDE DEF Init, InitOptions, With, Nothing
  <2> QED BY <2>1, <2>2, <2>3, <2>5, <2>6, <2>8 DEF Types
<1>2. Places /\ StreamsKept /\ Opened /\ Levels
  BY DEF Places, StreamsKept, Opened, Levels
<1>3. OpenIsActivated /\ DialogTruthful
  BY DEF OpenIsActivated, DialogTruthful, IsOpen, isActivated
<1> QED BY <1>1, <1>2, <1>3 DEF IInv

(* One lemma for each action: first the parts of IInv that rest on others, *)
(* then, together, those that the action keeps by themselves.              *)
LEMMA SetVolumeKeepsIInv ==
  ASSUME IInv, NEW master \in Level, SetVolume(master)
  PROVE  IInv'
<1> USE DEF SetVolume, MutexFree, Event, IsOpen, Adjusted, options, opening
<1>1. Opened'
  BY DEF IInv, Types, Opened, AboutToOpen, InHand, BecomesActive, Wanted,
         isActivated
<1>2. Types' /\ Places' /\ StreamsKept' /\ OpenIsActivated'
     /\ DialogTruthful' /\ Levels'
  BY DEF IInv, Types, Places, StreamsKept, OpenIsActivated, DialogTruthful,
         Levels, Nothing, isActivated, AboutToDestroy, BecomesInactive,
         AboutToTell
<1> QED BY <1>1, <1>2 DEF IInv

LEMMA GiveUpKeepsIInv ==
  ASSUME IInv, NEW t \in Thread, GiveUp(t)
  PROVE  IInv'
<1> USE DEF GiveUp, SetInactive, Go, map, opening, history
<1>1. Types' /\ Places' /\ StreamsKept' /\ OpenIsActivated' /\ Opened'
     /\ DialogTruthful' /\ Levels'
  BY DEF IInv, Types, Places, StreamsKept, OpenIsActivated, Opened,
         DialogTruthful, Levels, Nothing, isActivated, AboutToDestroy,
         IsOpen, BecomesInactive, AboutToOpen, InHand, BecomesActive,
         Wanted, AboutToTell
<1> QED BY <1>1 DEF IInv

LEMMA UndoKeepsIInv ==
  ASSUME IInv, NEW t \in Thread, Undo(t)
  PROVE  IInv'
<1> USE DEF Undo, Destroy, isActivated, Go, options, opening, MutexFree
<1>1. Types' /\ Places' /\ StreamsKept' /\ OpenIsActivated' /\ Opened'
     /\ DialogTruthful' /\ Levels'
  BY DEF IInv, Types, Places, StreamsKept, OpenIsActivated, Opened,
         DialogTruthful, Levels, Nothing, AboutToDestroy, IsOpen,
         BecomesInactive, AboutToOpen, InHand, BecomesActive, Wanted,
         AboutToTell
<1> QED BY <1>1 DEF IInv

LEMMA PlayerTellsKeepsIInv ==
  ASSUME IInv, PlayerTells
  PROVE  IInv'
<1> USE DEF PlayerTells, Go, options, map, opening
<1>1. Types' /\ Places' /\ StreamsKept' /\ OpenIsActivated' /\ Opened'
     /\ DialogTruthful' /\ Levels'
  BY DEF IInv, Types, Places, StreamsKept, OpenIsActivated, Opened,
         DialogTruthful, Levels, Nothing, isActivated, AboutToDestroy,
         IsOpen, BecomesInactive, AboutToOpen, InHand, BecomesActive,
         Wanted, AboutToTell
<1> QED BY <1>1 DEF IInv

LEMMA UserInterfaceTellsOffKeepsIInv ==
  ASSUME IInv, UserInterfaceTellsOff
  PROVE  IInv'
<1> USE DEF UserInterfaceTellsOff, ObserverFree, Go, options, map, opening
<1>1. Types' /\ Places' /\ StreamsKept' /\ OpenIsActivated' /\ Opened'
     /\ DialogTruthful' /\ Levels'
  BY DEF IInv, Types, Places, StreamsKept, OpenIsActivated, Opened,
         DialogTruthful, Levels, Nothing, isActivated, AboutToDestroy,
         IsOpen, BecomesInactive, AboutToOpen, InHand, BecomesActive,
         Wanted, AboutToTell
<1> QED BY <1>1 DEF IInv

LEMMA UserInterfaceTellsOnKeepsIInv ==
  ASSUME IInv, UserInterfaceTellsOn
  PROVE  IInv'
<1> USE DEF UserInterfaceTellsOn, ObserverFree, isActivated, Go, options,
            map, opening
<1>1. Types' /\ Places' /\ StreamsKept' /\ OpenIsActivated' /\ Opened'
     /\ DialogTruthful' /\ Levels'
  BY DEF IInv, Types, Places, StreamsKept, OpenIsActivated, Opened,
         DialogTruthful, Levels, Nothing, AboutToDestroy, IsOpen,
         BecomesInactive, AboutToOpen, InHand, BecomesActive, Wanted,
         AboutToTell
<1> QED BY <1>1 DEF IInv

LEMMA EditKeepsIInv ==
  ASSUME IInv, NEW activated \in SUBSET Device, Edit(With(activated))
  PROVE  IInv'
<1> USE DEF Edit, With, Event, Replace, Go, map, history
<1>1. Types'
  BY DEF IInv, Types
<1>2. StreamsKept'
  BY DEF IInv, Types, StreamsKept
<1>3. OpenIsActivated'
  BY DEF IInv, Types, Places, OpenIsActivated, Nothing, isActivated,
         AboutToDestroy, IsOpen, BecomesInactive
<1>4. Opened'
  BY DEF IInv, Types, Places, Opened, Nothing, isActivated, AboutToOpen,
         InHand, BecomesActive, Wanted
<1>5. DialogTruthful'
  BY DEF IInv, Types, Places, DialogTruthful, Nothing, isActivated,
         AboutToTell, BecomesInactive
<1>6. Levels'
  BY DEF IInv, Types, Levels
<1>7. Places'
  BY DEF IInv, Types, Places, Nothing, isActivated
<1> QED BY <1>1, <1>2, <1>3, <1>4, <1>5, <1>6, <1>7 DEF IInv

LEMMA ActivateDeviceKeepsIInv ==
  ASSUME IInv, NEW d \in Device, ActivateDevice(d)
  PROVE  IInv'
<1> USE DEF ActivateDevice, BecomesActive, Compared, Go, map, opening,
            history, isActivated, Nothing
<1>1. Types' /\ Places' /\ StreamsKept' /\ OpenIsActivated' /\ Opened'
     /\ DialogTruthful' /\ Levels'
  BY DEF IInv, Types, Places, StreamsKept, OpenIsActivated, Opened,
         DialogTruthful, Levels, AboutToDestroy, IsOpen, BecomesInactive,
         AboutToOpen, InHand, Wanted, AboutToTell
<1> QED BY <1>1 DEF IInv

LEMMA OpenActivatedKeepsIInv ==
  ASSUME IInv, OpenActivated
  PROVE  IInv'
<1> USE DEF OpenActivated, MutexFree, Opening, options, Succeeds, Go,
            Fails, Event, IsOpen, Result, ListBeforeOpening,
            LevelWhenOpened, isActivated, isAnyDeviceOpen, Adjusted
<1>1. Types' /\ Places' /\ StreamsKept' /\ OpenIsActivated' /\ Opened'
     /\ DialogTruthful' /\ Levels'
  BY DEF IInv, Types, Places, StreamsKept, OpenIsActivated, Opened,
         DialogTruthful, Levels, Nothing, AboutToDestroy, BecomesInactive,
         AboutToOpen, InHand, BecomesActive, Wanted, AboutToTell
<1> QED BY <1>1 DEF IInv

LEMMA LeaveActivatedKeepsIInv ==
  ASSUME IInv, LeaveActivated
  PROVE  IInv'
<1> USE DEF LeaveActivated, Go, options, map, opening
<1>1. Types' /\ Places' /\ StreamsKept' /\ OpenIsActivated' /\ Opened'
     /\ DialogTruthful' /\ Levels'
  BY DEF IInv, Types, Places, StreamsKept, OpenIsActivated, Opened,
         DialogTruthful, Levels, Nothing, isActivated, AboutToDestroy,
         IsOpen, BecomesInactive, AboutToOpen, InHand, BecomesActive,
         Wanted, AboutToTell
<1> QED BY <1>1 DEF IInv

LEMMA DeactivateDeviceKeepsIInv ==
  ASSUME IInv, NEW d \in Device, DeactivateDevice(d)
  PROVE  IInv'
<1> USE DEF DeactivateDevice, BecomesInactive, Compared, Go, map, opening,
            history, isActivated, Nothing
<1>1. Types' /\ Places' /\ StreamsKept' /\ OpenIsActivated' /\ Opened'
     /\ DialogTruthful' /\ Levels'
  BY DEF IInv, Types, Places, StreamsKept, OpenIsActivated, Opened,
         DialogTruthful, Levels, AboutToDestroy, IsOpen, AboutToOpen,
         InHand, BecomesActive, Wanted, AboutToTell
<1> QED BY <1>1 DEF IInv

LEMMA DestroyDeactivatedKeepsIInv ==
  ASSUME IInv, DestroyDeactivated
  PROVE  IInv'
<1> USE DEF DestroyDeactivated, Destroy, Go, options, opening, MutexFree
<1>1. Opened'
  BY DEF IInv, Types, Places, Opened, Nothing, isActivated, AboutToOpen,
         InHand, BecomesActive, Wanted
<1>2. Types' /\ Places' /\ StreamsKept' /\ OpenIsActivated'
     /\ DialogTruthful' /\ Levels'
  BY DEF IInv, Types, Places, StreamsKept, OpenIsActivated, DialogTruthful,
         Levels, Nothing, isActivated, AboutToDestroy, IsOpen,
         BecomesInactive, AboutToTell
<1> QED BY <1>1, <1>2 DEF IInv

LEMMA LeaveDeviceKeepsIInv ==
  ASSUME IInv, NEW d \in Device, LeaveDevice(d)
  PROVE  IInv'
<1> USE DEF LeaveDevice, BecomesActive, BecomesInactive, Compared, map,
            opening, history, isActivated, Nothing
<1>1. Types' /\ Places' /\ StreamsKept' /\ OpenIsActivated' /\ Opened'
     /\ DialogTruthful' /\ Levels'
  BY DEF IInv, Types, Places, StreamsKept, OpenIsActivated, Opened,
         DialogTruthful, Levels, AboutToDestroy, IsOpen, AboutToOpen,
         InHand, Wanted, AboutToTell
<1> QED BY <1>1 DEF IInv

LEMMA EditReturnsKeepsIInv ==
  ASSUME IInv, EditReturns
  PROVE  IInv'
<1> USE DEF EditReturns, Go, options, map, opening, history
<1>1. Types' /\ Places' /\ StreamsKept' /\ OpenIsActivated' /\ Opened'
     /\ DialogTruthful' /\ Levels'
  BY DEF IInv, Types, Places, StreamsKept, OpenIsActivated, Opened,
         DialogTruthful, Levels, Nothing, isActivated, AboutToDestroy,
         IsOpen, BecomesInactive, AboutToOpen, InHand, BecomesActive,
         Wanted, AboutToTell
<1> QED BY <1>1 DEF IInv

LEMMA BeginOpeningKeepsIInv ==
  ASSUME IInv, NEW output \in BOOLEAN, BeginOpening(output)
  PROVE  IInv'
<1> USE DEF BeginOpening, Go, options, map, history
<1>1. Types' /\ Places' /\ StreamsKept' /\ OpenIsActivated' /\ Opened'
     /\ DialogTruthful' /\ Levels'
  BY DEF IInv, Types, Places, StreamsKept, OpenIsActivated, Opened,
         DialogTruthful, Levels, Nothing, isActivated, AboutToDestroy,
         IsOpen, BecomesInactive, AboutToOpen, InHand, BecomesActive,
         Wanted, AboutToTell
<1> QED BY <1>1 DEF IInv

LEMMA SkipKeepsIInv ==
  ASSUME IInv, NEW d \in Device, Skip(d)
  PROVE  IInv'
<1> USE DEF Skip, Wanted, options, map, history, isActivated
<1>1. Types' /\ Places' /\ StreamsKept' /\ OpenIsActivated' /\ Opened'
     /\ DialogTruthful' /\ Levels'
  BY DEF IInv, Types, Places, StreamsKept, OpenIsActivated, Opened,
         DialogTruthful, Levels, Nothing, AboutToDestroy, IsOpen,
         BecomesInactive, AboutToOpen, InHand, BecomesActive, AboutToTell
<1> QED BY <1>1 DEF IInv

LEMMA OpenNextKeepsIInv ==
  ASSUME IInv, NEW d \in Device, OpenNext(d)
  PROVE  IInv'
<1> USE DEF OpenNext, Wanted, Opening, options, isActivated, Succeeds, Go,
            Fails, Event, IsOpen, Result, ListBeforeOpening,
            LevelWhenOpened, isAnyDeviceOpen, Adjusted
<1>1. Opened'
  BY DEF IInv, Types, Opened, AboutToOpen, InHand, BecomesActive
<1>2. Types' /\ Places' /\ StreamsKept' /\ OpenIsActivated'
     /\ DialogTruthful' /\ Levels'
  BY DEF IInv, Types, Places, StreamsKept, OpenIsActivated, DialogTruthful,
         Levels, Nothing, AboutToDestroy, BecomesInactive, AboutToTell
<1> QED BY <1>1, <1>2 DEF IInv

LEMMA AskKeepsIInv ==
  ASSUME IInv, NEW d \in Device, Ask(d)
  PROVE  IInv'
<1> USE DEF Ask, Wanted, IsOpen, Go, options, map, history, isActivated
<1>1. Types' /\ Places' /\ StreamsKept' /\ OpenIsActivated' /\ Opened'
     /\ DialogTruthful' /\ Levels'
  BY DEF IInv, Types, Places, StreamsKept, OpenIsActivated, Opened,
         DialogTruthful, Levels, Nothing, AboutToDestroy, BecomesInactive,
         AboutToOpen, InHand, BecomesActive, AboutToTell
<1> QED BY <1>1 DEF IInv

LEMMA AnsweredKeepsIInv ==
  ASSUME IInv, Answered
  PROVE  IInv'
<1> USE DEF Answered, Opening, options, Succeeds, Go, Fails, Event, IsOpen,
            Result, ListBeforeOpening, LevelWhenOpened, isActivated,
            isAnyDeviceOpen, Adjusted
<1>1. Types' /\ Places' /\ StreamsKept' /\ OpenIsActivated' /\ Opened'
     /\ DialogTruthful' /\ Levels'
  BY DEF IInv, Types, Places, StreamsKept, OpenIsActivated, Opened,
         DialogTruthful, Levels, Nothing, AboutToDestroy, BecomesInactive,
         AboutToOpen, InHand, BecomesActive, Wanted, AboutToTell
<1> QED BY <1>1 DEF IInv

LEMMA OpeningReturnsKeepsIInv ==
  ASSUME IInv, OpeningReturns
  PROVE  IInv'
<1> USE DEF OpeningReturns, isAnyDeviceOpen, Go, options, map, history,
            IsOpen
<1>1. Opened'
  BY DEF IInv, Types, Opened, AboutToOpen, InHand, BecomesActive, Wanted,
         isActivated
<1>2. Types' /\ Places' /\ StreamsKept' /\ OpenIsActivated'
     /\ DialogTruthful' /\ Levels'
  BY DEF IInv, Types, Places, StreamsKept, OpenIsActivated, DialogTruthful,
         Levels, Nothing, isActivated, AboutToDestroy, BecomesInactive,
         AboutToTell
<1> QED BY <1>1, <1>2 DEF IInv

LEMMA PlayerClosesKeepsIInv ==
  ASSUME IInv, PlayerCloses
  PROVE  IInv'
<1> USE DEF PlayerCloses, options, map, history
<1>1. Types' /\ Places' /\ StreamsKept' /\ OpenIsActivated' /\ Opened'
     /\ DialogTruthful' /\ Levels'
  BY DEF IInv, Types, Places, StreamsKept, OpenIsActivated, Opened,
         DialogTruthful, Levels, Nothing, isActivated, AboutToDestroy,
         IsOpen, BecomesInactive, AboutToOpen, InHand, BecomesActive,
         Wanted, AboutToTell
<1> QED BY <1>1 DEF IInv

LEMMA CloseDevicesKeepsIInv ==
  ASSUME IInv, CloseDevices
  PROVE  IInv'
<1> USE DEF CloseDevices, MutexFree, Event, options, opening, history
<1>1. Types' /\ Places' /\ StreamsKept' /\ OpenIsActivated' /\ Opened'
     /\ DialogTruthful' /\ Levels'
  BY DEF IInv, Types, Places, StreamsKept, OpenIsActivated, Opened,
         DialogTruthful, Levels, Nothing, isActivated, AboutToDestroy,
         IsOpen, BecomesInactive, AboutToOpen, InHand, BecomesActive,
         Wanted, AboutToTell
<1> QED BY <1>1 DEF IInv

LEMMA ConnectionLostKeepsIInv ==
  ASSUME IInv, NEW d \in Device, ConnectionLost(d)
  PROVE  IInv'
<1> USE DEF ConnectionLost, Event, options, opening, history
<1>1. Types' /\ Places' /\ StreamsKept' /\ OpenIsActivated' /\ Opened'
     /\ DialogTruthful' /\ Levels'
  BY DEF IInv, Types, Places, StreamsKept, OpenIsActivated, Opened,
         DialogTruthful, Levels, Nothing, isActivated, AboutToDestroy,
         IsOpen, BecomesInactive, AboutToOpen, InHand, BecomesActive,
         Wanted, AboutToTell
<1> QED BY <1>1 DEF IInv

LEMMA StutterKeepsIInv ==
  ASSUME IInv, UNCHANGED vars
  PROVE  IInv'
<1> USE DEF vars, options, map, opening, history
<1>1. Types' /\ Places' /\ StreamsKept' /\ OpenIsActivated' /\ Opened'
     /\ DialogTruthful' /\ Levels'
  BY DEF IInv, Types, Places, StreamsKept, OpenIsActivated, Opened,
         DialogTruthful, Levels, Nothing, isActivated, AboutToDestroy,
         IsOpen, BecomesInactive, AboutToOpen, InHand, BecomesActive,
         Wanted, AboutToTell
<1> QED BY <1>1 DEF IInv

-----------------------------------------------------------------------------
LEMMA NextKeepsIInv == IInv /\ [Next]_vars => IInv'
<1> SUFFICES ASSUME IInv, [Next]_vars PROVE IInv'
  OBVIOUS
<1>1. CASE UNCHANGED vars
  BY <1>1, StutterKeepsIInv
<1>2. CASE PlayerStep
  BY <1>2, GiveUpKeepsIInv, UndoKeepsIInv, PlayerTellsKeepsIInv,
     SkipKeepsIInv, OpenNextKeepsIInv, AskKeepsIInv, AnsweredKeepsIInv,
     OpeningReturnsKeepsIInv
  DEF PlayerStep
<1>3. CASE UserInterfaceStep
  BY <1>3, GiveUpKeepsIInv, UndoKeepsIInv, UserInterfaceTellsOffKeepsIInv,
     UserInterfaceTellsOnKeepsIInv, ActivateDeviceKeepsIInv,
     DeactivateDeviceKeepsIInv, LeaveDeviceKeepsIInv, OpenActivatedKeepsIInv,
     LeaveActivatedKeepsIInv, DestroyDeactivatedKeepsIInv,
     EditReturnsKeepsIInv
  DEF UserInterfaceStep
<1>4. CASE \E output \in BOOLEAN : BeginOpening(output)
  BY <1>4, BeginOpeningKeepsIInv
<1>5. CASE \E activated \in SUBSET Device : Edit(With(activated))
  BY <1>5, EditKeepsIInv
<1>6. CASE PlayerCloses \/ CloseDevices
  BY <1>6, PlayerClosesKeepsIInv, CloseDevicesKeepsIInv
<1>7. CASE \E d \in Device : ConnectionLost(d)
  BY <1>7, ConnectionLostKeepsIInv
<1>8. CASE \E master \in Level : SetVolume(master)
  BY <1>8, SetVolumeKeepsIInv
<1> QED BY <1>1, <1>2, <1>3, <1>4, <1>5, <1>6, <1>7, <1>8 DEF Next

LEMMA AlwaysIInv == Spec => []IInv
BY InitIInv, NextKeepsIInv, PTL DEF Spec

(* Everything has its type, and the user interface compares options only   *)
(* in setOptions().                                                        *)
THEOREM ManagerInvariant == Spec => []Inv
<1>1. IInv => Inv
  BY DEF IInv, Types, Places, Inv
<1> QED BY <1>1, AlwaysIInv, PTL

(* Every open device is on the engine's list, and one that is half open is *)
(* about to be destroyed (openDevice, isAnyDeviceOpen).                    *)
THEOREM OpenDevicesHaveStreams == Spec => []StreamsKept
<1>1. IInv => StreamsKept
  BY DEF IInv
<1> QED BY <1>1, AlwaysIInv, PTL

(* A device that is open is activated, or about to be destroyed, unless it *)
(* was opened after it had been deactivated (setOptions, openDevices).     *)
THEOREM OpenDevicesAreActivated == Spec => []OpenIsActivated
<1>1. IInv => OpenIsActivated
  BY DEF IInv
<1> QED BY <1>1, AlwaysIInv, PTL

(* While there is an output chain an activated device has been opened or   *)
(* is about to be, but for the two exceptions that the code has            *)
(* (onDeviceChanged, OutputComponent::open).                               *)
THEOREM ActivatedDevicesAreOpened == Spec => []ActivatedIsOpened
<1>1. IInv => ActivatedIsOpened
  BY DEF IInv, Opened, ActivatedIsOpened
<1> QED BY <1>1, AlwaysIInv, PTL

(* The dialog shows what is activated, unless notifications were nested    *)
(* (postNotification, OptionsDialogImpl::onDeviceChanged).                 *)
THEOREM DialogShowsActivated == Spec => []DialogTruthful
<1>1. IInv => DialogTruthful
  BY DEF IInv
<1> QED BY <1>1, AlwaysIInv, PTL

(* Open devices have the master's volume unless they missed a change       *)
(* (setVolume, openDevice).                                                *)
THEOREM VolumesFollow == Spec => []VolumeInStep
<1>1. IInv => VolumeInStep
  BY DEF IInv, Levels, VolumeInStep
<1> QED BY <1>1, AlwaysIInv, PTL

-----------------------------------------------------------------------------
OpenDevices == {d \in Device : IsOpen(d)}

Devices == INSTANCE AttachedDevices WITH open <- OpenDevices

LEMMA SetStateOpens ==
  ASSUME Types, NEW d \in Device, NEW state,
         devices' = [devices EXCEPT ![d] = state]
  PROVE  OpenDevices' = IF state \in {"half", "open"} THEN OpenDevices \cup {d}
                                                     ELSE OpenDevices \ {d}
BY DEF Types, OpenDevices, IsOpen

(* openDevice() opens a device or fails, in every state that it may find.  *)
LEMMA OpeningStep ==
  ASSUME Types, NEW t \in Thread, NEW d \in Device, NEW next,
         Opening(t, d, next)
  PROVE  \/ Devices!Open(d) \/ Devices!OpenFails(d)
         \/ UNCHANGED <<OpenDevices, attached>>
<1>1. ListBeforeOpening = Devices!Kept
  BY DEF ListBeforeOpening, isAnyDeviceOpen, OpenDevices, Devices!Kept
<1>2. ASSUME NEW state, NEW list, NEW newLevel,
             Result(t, d, state, list, newLevel)
      PROVE  /\ attached' = list
             /\ OpenDevices' = IF state \in {"half", "open"}
                                 THEN OpenDevices \cup {d}
                                 ELSE OpenDevices \ {d}
  BY <1>2, SetStateOpens DEF Result
<1>3. IsOpen(d) <=> d \in OpenDevices
  BY DEF OpenDevices
<1>4. ASSUME NEW newLevel, Result(t, d, devices[d], attached, newLevel)
      PROVE  UNCHANGED <<OpenDevices, attached>>
  <2>1. d \in OpenDevices <=> devices[d] \in {"half", "open"}
    BY <1>3 DEF IsOpen
  <2> QED BY <1>2, <1>4, <2>1
<1>5. ASSUME NEW newLevel, ~IsOpen(d),
             Result(t, d, "open", ListBeforeOpening \cup {d}, newLevel)
      PROVE  Devices!Open(d)
  BY <1>1, <1>2, <1>3, <1>5 DEF Devices!Open
<1>6. ASSUME NEW newLevel, NEW state, ~IsOpen(d),
             NEW list \in {attached, ListBeforeOpening},
             state # "open", Result(t, d, state, list, newLevel)
      PROVE  Devices!OpenFails(d)
  BY <1>1, <1>2, <1>3, <1>6 DEF Devices!OpenFails
<1>7. CASE Succeeds(t, d)
  BY <1>4, <1>5, <1>7 DEF Succeeds
<1>8. CASE Fails(t, d)
  <2>1. CASE \/ IsOpen(d) /\ Result(t, d, devices[d], attached, level[d])
             \/ /\ ~IsOpen(d)
                /\ Result(t, d, "open", ListBeforeOpening \cup {d},
                          LevelWhenOpened(d))
    BY <2>1, <1>4, <1>5
  <2>2. ASSUME devices[d] = "none", NEW state \in {"none", "closed", "half"},
               Result(t, d, state, attached, level[d])
        PROVE  Devices!OpenFails(d)
    BY <2>2, <1>6 DEF IsOpen
  <2>3. ASSUME ~IsOpen(d),
               NEW state \in {IF devices[d] = "none" THEN "closed"
                                                     ELSE devices[d], "half"},
               Result(t, d, state, ListBeforeOpening, level[d])
        PROVE  Devices!OpenFails(d)
    BY <2>3, <1>6 DEF IsOpen
  <2> QED BY <1>8, <2>1, <2>2, <2>3 DEF Fails
<1> QED BY <1>7, <1>8 DEF Opening

LEMMA DestroyCloses ==
  ASSUME Types, NEW d \in Device, Destroy(d)
  PROVE  Devices!Close({d})
BY SetStateOpens DEF Destroy, Devices!Close

(* What the engine and its sender see of the devices is what the manager   *)
(* does with them (RAOPEngineProofs, SenderThreadProofs), whoever opens    *)
(* and destroys them: reinit() clears the list for the first to be opened  *)
(* and for no other (DeviceManager.cpp:284-500).                           *)
THEOREM ManagerServesDevices == Spec => Devices!Spec
<1>1. Init => Devices!Init
  BY DEF Init, Devices!Init, OpenDevices, IsOpen
<1>2. IInv /\ [Next]_vars => [Devices!Next]_(Devices!vars)
  <2> SUFFICES ASSUME Types, [Next]_vars
               PROVE  Devices!Next \/ UNCHANGED <<OpenDevices, attached>>
    BY DEF Devices!vars, IInv
  <2>0. /\ \A d \in Device : {d} \in SUBSET Device
        /\ UNCHANGED devices => UNCHANGED OpenDevices
    BY DEF OpenDevices, IsOpen
  <2>1. \A t \in Thread : at[t] \notin {"idle", "loop"} => device[t] \in Device
    BY DEF Types
  <2>2. CASE OpenActivated \/ Answered \/ \E d \in Device : OpenNext(d)
    BY <2>1, <2>2, OpeningStep
       DEF OpenActivated, Answered, OpenNext, Devices!Next, Thread
  <2>3. CASE DestroyDeactivated \/ Undo("player") \/ Undo("ui")
    BY <2>0, <2>1, <2>3, DestroyCloses
       DEF DestroyDeactivated, Undo, Devices!Next, Thread
  <2>4. CASE CloseDevices
    <3>1. PICK closed \in SUBSET Device :
            /\ devices' = [d \in Device |-> IF d \in closed THEN "closed"
                                                           ELSE devices[d]]
            /\ attached' = attached \ closed
      BY <2>4 DEF CloseDevices
    <3>2. OpenDevices' = OpenDevices \ closed
      BY <3>1 DEF OpenDevices, IsOpen
    <3> QED BY <3>1, <3>2 DEF Devices!Close, Devices!Next
  <2>5. ASSUME NEW d \in Device, ConnectionLost(d)
        PROVE  Devices!ConnectionLost(d)
    BY <2>5, SetStateOpens DEF ConnectionLost, Devices!ConnectionLost
  <2>6. CASE \/ GiveUp("player") \/ GiveUp("ui") \/ PlayerTells
             \/ OpeningReturns
             \/ UserInterfaceTellsOff \/ UserInterfaceTellsOn
             \/ LeaveActivated \/ EditReturns \/ PlayerCloses
    BY <2>0, <2>6 DEF GiveUp, PlayerTells, OpeningReturns, map,
       UserInterfaceTellsOff, UserInterfaceTellsOn, LeaveActivated,
       EditReturns, PlayerCloses
  <2>7. CASE \/ \E d \in Device :
                  \/ Skip(d) \/ Ask(d) \/ ActivateDevice(d)
                  \/ DeactivateDevice(d) \/ LeaveDevice(d)
             \/ \E output \in BOOLEAN : BeginOpening(output)
             \/ \E activated \in SUBSET Device : Edit(With(activated))
             \/ \E master \in Level : SetVolume(master)
             \/ UNCHANGED vars
    BY <2>0, <2>7 DEF Skip, Ask, ActivateDevice, DeactivateDevice,
       LeaveDevice, BeginOpening, Edit, SetVolume, map, vars
  <2> QED BY <2>2, <2>3, <2>4, <2>5, <2>6, <2>7
             DEF Next, PlayerStep, UserInterfaceStep, Devices!Next
<1> QED BY <1>1, <1>2, AlwaysIInv, PTL DEF Spec, Devices!Spec
=============================================================================
