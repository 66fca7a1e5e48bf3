-------------------------- MODULE DeviceDiscovery ---------------------------
(***************************************************************************)
(* Which remote speakers there are: class DeviceDiscovery                  *)
(* (core/impl/DeviceDiscovery.cpp) over ServiceDiscovery, with its         *)
(* listeners: the options dialog and the devices of the player's menu.     *)
(* A ConnectDialog uses the service directory beside it.                   *)
(*                                                                         *)
(* The browsing thread calls back: it queries the record of a service that *)
(* was found, makes a device of the answer and tells the listeners, with   *)
(* the mutex of DeviceDiscovery held.  A dialog's window is changed by     *)
(* messages to the user interface's thread, which adds and removes the     *)
(* listeners and waits for the same mutex to do so.                        *)
(***************************************************************************)
EXTENDS ConnectDialog

CONSTANTS
  Name,       (* the names that devices may have                           *)
  DeviceName, (* a device's name: what follows the '@' in its service's    *)
  Supported,  (* services whose record determineDeviceType() recognises    *)
  Listener,
  Dialog,     (* listeners that send messages to the user interface        *)
  Nameless    (* the device of a record that is not there                  *)

ASSUME SupportedAssumption == Supported \subseteq Service
ASSUME DialogAssumption    == Dialog \subseteq Listener
ASSUME NameAssumption      == DeviceName \in [Service -> Name]
ASSUME NamelessAssumption  == Nameless \notin Name \cup {None}

VARIABLES
  discovery,  (* the reference of the operation that browses, or None      *)
  services,   (* what each query is about, or None                         *)
  devices,    (* the names of the devices that are known                   *)
  listeners,
  ddMutex,    (* whether the browsing thread holds the mutex               *)
  device,     (* what it tells, ...                                        *)
  toTell,     (* ... and whom it has still to tell                         *)
  ui,         (* what the user interface waits for: [call, listener]       *)
  told,       (* which devices each listener knows of                      *)
  lostEarly,  (* history: services lost while they were queried            *)
  erased      (* history: services whose device was erased because another *)
              (* service with a device of the same name was lost           *)

known   == <<discovery, services, devices, listeners>>
telling == <<ddMutex, device, toTell>>
history == <<lostEarly, erased>>
vars    == <<directory, connection, known, telling, ui, told, history>>

Idle == [call |-> "none", listener |-> None]

Init ==
  /\ InitDirectory /\ InitDialog
  /\ discovery = None /\ services = [r \in Ref |-> None]
  /\ devices = {} /\ listeners = {}
  /\ ddMutex = FALSE /\ device = None /\ toTell = {}
  /\ ui = Idle /\ told = [l \in Listener |-> {}]
  /\ lostEarly = {} /\ erased = {}

BeingQueried(s) == \E r \in activeRefs : operation[r] = s

(* Browsing begins anew.                                                   *)
Forget ==
  /\ services' = [r \in Ref |-> None] /\ devices' = {}
  /\ lostEarly' = {} /\ erased' = {}

-----------------------------------------------------------------------------
(* The user interface calls browseDevices() for a listener that it makes,  *)
(* and stopBrowsing() for one that it destroys.                            *)
Call(call, l) ==
  /\ ui = Idle
  /\ IF call = "add" THEN l \notin listeners
                     ELSE l \in listeners \cap Dialog
  /\ ui' = [call |-> call, listener |-> l]
  /\ UNCHANGED <<directory, connection, known, telling, told, history>>

(* An operator whose name begins with Bug is a definition after it with a *)
(* plausible slip: what the properties have to tell from it.               *)
BugAddListenerClears == \* whether or not that is under way
  /\ ui.call = "add" /\ ~ddMutex
  /\ \/ /\ daemon /\ ~isRunning(discovery)
        /\ \E r \in Ref : Begin(r, Browse) /\ discovery' = r
        /\ reported' = {} /\ StartThread /\ Forget
     \/ /\ ~daemon \/ isRunning(discovery)
        /\ services' = [r \in Ref |-> None] /\ devices' = {}
        /\ UNCHANGED <<list, reported, at, discovery, history>>
  /\ listeners' = listeners \cup {ui.listener}
  /\ told' = [told EXCEPT ![ui.listener] = devices']
  /\ ui' = Idle
  /\ UNCHANGED <<answered, dead, daemon, present, changes, readable, sdRef,
                 service, faults, connection, telling>>

BugAddListenerSilent == \* the listener hears of new devices only
  /\ ui.call = "add" /\ ~ddMutex
  /\ \/ /\ daemon /\ ~isRunning(discovery)
        /\ \E r \in Ref : Begin(r, Browse) /\ discovery' = r
        /\ reported' = {} /\ StartThread /\ Forget
     \/ /\ ~daemon \/ isRunning(discovery)
        /\ UNCHANGED <<list, reported, at, discovery, services, devices,
                       history>>
  /\ listeners' = listeners \cup {ui.listener}
  /\ told' = [told EXCEPT ![ui.listener] = {}]
  /\ ui' = Idle
  /\ UNCHANGED <<answered, dead, daemon, present, changes, readable, sdRef,
                 service, faults, connection, telling>>

(* browseDevices(): browse unless that is under way, and tell the new      *)
(* listener what is known.                                                 *)
AddListener ==
  /\ ui.call = "add" /\ ~ddMutex
  /\ \/ /\ daemon /\ ~isRunning(discovery)
        /\ \E r \in Ref : Begin(r, Browse) /\ discovery' = r
        /\ reported' = {} /\ StartThread /\ Forget
     \/ /\ ~daemon \/ isRunning(discovery)
        /\ UNCHANGED <<list, reported, at, discovery, services, devices,
                       history>>
  /\ listeners' = listeners \cup {ui.listener}
  /\ told' = [told EXCEPT ![ui.listener] = devices']
  /\ ui' = Idle
  /\ UNCHANGED <<answered, dead, daemon, present, changes, readable, sdRef,
                 service, faults, connection, telling>>

(* The operation cannot be made, or not be started.  The lists have been   *)
(* cleared by then, and what could not be started counts as running.       *)
AddListenerThrows ==
  /\ ui.call = "add" /\ ~ddMutex
  /\ daemon /\ ~isRunning(discovery)
  /\ \/ /\ Free = {}
        /\ UNCHANGED <<list, at, failures, discovery>>
     \/ \E r \in Ref : StartThrows(r) /\ discovery' = r
  /\ Forget
  /\ ui' = Idle
  /\ UNCHANGED <<network, readable, sdRef, service, stops, undefined,
                 connection, listeners, telling, told>>

RemoveListener ==
  /\ ui.call = "remove" /\ ~ddMutex
  /\ listeners' = listeners \ {ui.listener}
  /\ told' = [told EXCEPT ![ui.listener] = {}]
  /\ ui' = Idle
  /\ UNCHANGED <<directory, connection, discovery, services, devices, telling,
                 history>>

-----------------------------------------------------------------------------
BugOnServiceFound == \* the query is not started
  /\ at = "found" /\ ~ddMutex
  /\ \E r \in Ref :
       /\ daemon /\ r \in Free
       /\ operation' = [operation EXCEPT ![r] = service]
       /\ services' = [services EXCEPT ![r] = IF @ = None THEN service ELSE @]
  /\ lostEarly' = lostEarly \ {service} /\ erased' = erased \ {service}
  /\ Return
  /\ UNCHANGED <<network, activeRefs, abandoned, faults, connection, discovery,
                 devices, listeners, telling, ui, told>>

(* onServiceFound(): query the service's record.                           *)
OnServiceFound ==
  /\ at = "found" /\ ~ddMutex
  /\ \E r \in Ref :
       /\ Begin(r, service)
       /\ services' = [services EXCEPT ![r] = IF @ = None THEN service ELSE @]
  /\ lostEarly' = lostEarly \ {service} /\ erased' = erased \ {service}
  /\ Return
  /\ UNCHANGED <<network, faults, connection, discovery, devices, listeners,
                 telling, ui, told>>

OnServiceFoundThrows ==
  /\ at = "found" /\ ~ddMutex /\ (~daemon \/ Free = {})
  /\ failures' = IF MayFail THEN failures + 1 ELSE failures
  /\ lostEarly' = lostEarly \ {service} /\ erased' = erased \ {service}
  /\ Return
  /\ UNCHANGED <<network, list, stops, undefined, connection, known, telling,
                 ui, told>>

(* The listeners are told with the mutex held.                             *)
Tell(d) ==
  /\ device' = d /\ toTell' = listeners
  /\ ddMutex' = TRUE /\ at' = "telling"
  /\ UNCHANGED <<readable, sdRef, service>>

(* The device of the service that is lost, and what its loss is the end    *)
(* of, for the history.                                                    *)
LostDevice == DeviceName[service]
NoteLost ==
  /\ lostEarly' = lostEarly \cup
                    (IF BeingQueried(service) THEN {service} ELSE {})
  /\ erased' = (erased \ {service}) \cup
                 {s \in reported : LostDevice \in devices
                                     /\ DeviceName[s] = LostDevice}

BugOnServiceLost == \* the device stays on the list
  /\ at = "lost" /\ ~ddMutex
  /\ NoteLost
  /\ \/ /\ LostDevice \in devices
        /\ Tell(LostDevice)
     \/ LostDevice \notin devices /\ Return /\ UNCHANGED telling
  /\ UNCHANGED <<network, list, faults, connection, discovery, services,
                 devices, listeners, ui, told>>

BugOnServiceLostStops == \* and it stops the query that is under way
  /\ at = "lost" /\ ~ddMutex
  /\ NoteLost
  /\ \/ ~BeingQueried(service) /\ UNCHANGED <<network, list>>
     \/ \E r \in activeRefs : operation[r] = service /\ Stop(r)
  /\ \/ /\ LostDevice \in devices
        /\ devices' = devices \ {LostDevice} /\ Tell(LostDevice)
     \/ LostDevice \notin devices /\ Return /\ UNCHANGED <<devices, telling>>
  /\ UNCHANGED <<faults, connection, discovery, services, listeners, ui, told>>

(* onServiceLost(): the device of that name goes, whatever service it was  *)
(* made for; a query that is under way goes on.                            *)
OnServiceLost ==
  /\ at = "lost" /\ ~ddMutex
  /\ NoteLost
  /\ \/ /\ LostDevice \in devices
        /\ devices' = devices \ {LostDevice} /\ Tell(LostDevice)
     \/ LostDevice \notin devices /\ Return /\ UNCHANGED <<devices, telling>>
  /\ UNCHANGED <<network, list, faults, connection, discovery, services,
                 listeners, ui, told>>

(* The device of a record; one that is not there has no name.              *)
NameIn(record) == IF record = None THEN Nameless ELSE DeviceName[record]

BugOnServiceQueried == \* the record stays
  /\ at = "process" /\ sdRef \in answered /\ operation[sdRef] \in Service
  /\ Stop(sdRef)
  /\ IF operation[sdRef] \in Supported
       THEN /\ at' = "insert" /\ device' = NameIn(services[sdRef])
            /\ UNCHANGED <<readable, sdRef, service>>
       ELSE Return /\ UNCHANGED device
  /\ UNCHANGED <<faults, connection, discovery, services, devices, listeners,
                 ddMutex, toTell, ui, told, history>>

(* onServiceQueried(): the query is stopped and its record taken, which    *)
(* makes one when there is none ...                                        *)
OnServiceQueried ==
  /\ at = "process" /\ sdRef \in answered /\ operation[sdRef] \in Service
  /\ Stop(sdRef)
  /\ services' = [services EXCEPT ![sdRef] = None]
  /\ IF operation[sdRef] \in Supported
       THEN /\ at' = "insert" /\ device' = NameIn(services[sdRef])
            /\ UNCHANGED <<readable, sdRef, service>>
       ELSE Return /\ UNCHANGED device
  /\ UNCHANGED <<faults, connection, discovery, devices, listeners, ddMutex,
                 toTell, ui, told, history>>

(* ... and only then the mutex is asked for.                               *)
InsertDevice ==
  /\ at = "insert" /\ ~ddMutex
  /\ devices' = devices \cup {device} /\ Tell(device)
  /\ erased' = {s \in erased : DeviceName[s] # device}
  /\ UNCHANGED <<network, list, faults, connection, discovery, services,
                 listeners, ui, told, lostEarly>>

(* A dialog gets its messages when its thread is free.                     *)
TellListener(l) ==
  /\ at = "telling" /\ l \in toTell /\ (l \in Dialog => ui = Idle)
  /\ told' = [told EXCEPT ![l] = IF device \in devices THEN @ \cup {device}
                                                       ELSE @ \ {device}]
  /\ toTell' = toTell \ {l}
  /\ UNCHANGED <<directory, connection, known, ddMutex, device, ui, history>>

BugAllTold == \* an exception leaves the mutex locked
  /\ at = "telling" /\ toTell = {}
  /\ device' = None /\ Return
  /\ UNCHANGED <<network, list, faults, connection, known, ddMutex, toTell, ui,
                 told, history>>

AllTold ==
  /\ at = "telling" /\ toTell = {}
  /\ ddMutex' = FALSE /\ device' = None /\ Return
  /\ UNCHANGED <<network, list, faults, connection, known, toTell, ui, told,
                 history>>

-----------------------------------------------------------------------------
Outside(step) == step /\ UNCHANGED <<known, telling, ui, told, history>>

ThreadStep ==
  /\ ~undefined
  /\ \/ Outside(/\ \/ Turn \/ TurnAstray \/ Leave \/ ThreadEnds
                    \/ \E s \in Service : Report(s)
                    \/ NoResult \/ DaemonGone \/ ContinueGone
                    \/ ContinueFailed
                 /\ UNCHANGED connection)
     \/ Outside(DialogCallback)
     \/ OnServiceFound \/ OnServiceFoundThrows \/ OnServiceLost
     \/ OnServiceQueried \/ InsertDevice
     \/ \E l \in Listener : TellListener(l)
     \/ AllTold

Answers ==
  ~undefined /\ Outside((\E r \in Ref : Answer(r)) /\ UNCHANGED connection)

CallReturns ==
  ~undefined /\ (AddListener \/ AddListenerThrows \/ RemoveListener)

Next ==
  \/ ThreadStep
  \/ Answers
  \/ CallReturns
  \/ /\ ~undefined
     /\ \/ Outside(/\ \/ \E s \in Service : Appear(s) \/ Disappear(s)
                       \/ OperationFails \/ DaemonStops \/ DaemonStarts
                    /\ UNCHANGED connection)
        \/ Outside(DialogStep \/ \E r \in Ref : DialogAnswer(r))
        \/ \E l \in Listener : Call("add", l) \/ Call("remove", l)

Spec == Init /\ [][Next]_vars

(* The browsing thread is scheduled, and the user interface gets the mutex *)
(* in the end.  The library answers queries for services that are there.   *)
Fairness == WF_vars(ThreadStep) /\ SF_vars(CallReturns) /\ WF_vars(Answers)

FairSpec == Spec /\ Fairness

-----------------------------------------------------------------------------
NoFaults == failures = 0 /\ stops = 0

(* Everything has its type; the browsing thread holds the mutex while it   *)
(* tells listeners; and it is called back for a service by the operation   *)
(* that browses, as two assertions say (onServiceFound, onServiceLost),    *)
(* which is then still on the list.                                        *)
Inv ==
  /\ operation \in [Ref -> Service \cup {Browse, Resolve, Host, None}]
  /\ services \in [Ref -> Service \cup {None}]
  /\ answered \cup dead \cup activeRefs \cup readable \cup abandoned \subseteq Ref
  /\ present \cup reported \cup lostEarly \cup erased \subseteq Service
  /\ {daemon, ddMutex, undefined} \subseteq BOOLEAN
  /\ failures + stops <= MaxFaults /\ changes <= MaxChanges
  /\ devices \subseteq Name \cup {Nameless}
  /\ toTell \cup listeners \cup DOMAIN told \subseteq Listener
  /\ at \in OwnPlace \cup {"found", "lost", "insert", "telling", "resolved"}
  /\ ui.call \in {"none", "add", "remove"}
  /\ dialog \in {"closed", "open", "connecting"}
  /\ dialogRef \in Ref \cup {None} /\ (dialog = "closed" => dialogRef = None)
  /\ ddMutex = (at = "telling")
  /\ at \in {"found", "lost"} =>
       /\ sdRef = discovery /\ sdRef \in activeRefs
       /\ service \in Service

(* As long as no operation has failed, the record of a query is about the  *)
(* service that it asks for, although references are used again and        *)
(* insert() does not replace a record; so every device has its name        *)
(* (onServiceFound, onServiceQueried).                                     *)
RecordsMatch ==
  failures = 0 =>
    /\ \A r \in Ref :
         operation[r] \in Service /\ r \in activeRefs =>
           services[r] = operation[r]
    /\ Nameless \notin devices

(* A device that is known has the name of a service that was reported and  *)
(* has not been lost since, unless that was lost while its record was      *)
(* queried, or is being lost (onServiceLost, onServiceQueried).            *)
DevicesReported ==
  NoFaults =>
    \A d \in devices : \E s \in Service :
      /\ DeviceName[s] = d
      /\ s \in reported \cup lostEarly \/ (at = "lost" /\ service = s)

(* A service that was reported, and can be used, becomes a device that is  *)
(* known (onServiceFound, onServiceQueried).  The exception is one whose   *)
(* device was erased with the loss of another service: devices are known   *)
(* by the part of the service's name behind the '@', which the two have in *)
(* common, and nothing brings it back until either is found again          *)
(* (DeviceDiscovery.cpp:151, 191, 198).                                    *)
NoneForgotten ==
  NoFaults =>
    \A s \in (reported \cap Supported) \ erased :
      \/ DeviceName[s] \in devices \/ BeingQueried(s)
      \/ (at = "found" /\ service = s)
      \/ (at = "insert" /\ device = DeviceName[s])

(* Unless they are being told, all listeners know of all devices, and of   *)
(* no others unless browsing had to begin anew (addListener,               *)
(* onServiceLost, onServiceQueried).                                       *)
ListenersInformed ==
  ~ddMutex =>
    \A l \in listeners : /\ devices \subseteq told[l]
                         /\ NoFaults => told[l] = devices

(* The one way in which the two threads may wait for each other: the       *)
(* browsing thread, with the mutex, for a dialog to change its window, and *)
(* the user interface, in browseDevices() or stopBrowsing(), for the mutex.*)
Embrace == at = "telling" /\ toTell \cap Dialog # {} /\ ui # Idle

(* Otherwise browseDevices() and stopBrowsing() return.                    *)
CallsReturn == ui # Idle ~> ui = Idle \/ Embrace \/ undefined

(* The browsing thread had found the list empty when the last operation    *)
(* was started, and has not ended yet, or has.                             *)
Unserved == at \in {"leaving", "none"} /\ activeRefs # {}

(* And a listener is told of a device that stays on the network            *)
(* (ServiceDiscoveryImpl::run, onServiceFound, onServiceQueried), unless   *)
(* nobody serves the operation, or the device is erased with a namesake.   *)
FoundIsTold ==
  \A s \in Supported, l \in Listener :
    s \in present /\ l \in listeners /\ isRunning(discovery) ~>
      \/ DeviceName[s] \in told[l] \/ s \in erased
      \/ s \notin present \/ l \notin listeners
      \/ Embrace \/ Unserved \/ ~NoFaults \/ undefined
=============================================================================
