----------------------- MODULE DeviceDiscoveryProofs ------------------------
(***************************************************************************)
(* The invariants of DeviceDiscovery hold for every number of references,  *)
(* services and listeners, and whatever the services' devices are called.  *)
(*                                                                         *)
(* They are proved together, as parts of IInv: that a record belongs to    *)
(* its query needs that the discovery is not restarted under a query, and  *)
(* that needs that each operation on the list is allocated, and which one  *)
(* of them browses.  The dialog's operations keep apart from these because *)
(* there is one at a time, and the dialog's thread stops no other.         *)
(***************************************************************************)
EXTENDS DeviceDiscovery, TLAPS

Found == Name \cup {Nameless}

Types ==
  /\ operation \in [Ref -> Service \cup {Browse, Resolve, Host, None}]
  /\ services \in [Ref -> Service \cup {None}]
  /\ answered \subseteq Ref /\ dead \subseteq Ref
  /\ activeRefs \subseteq Ref /\ readable \subseteq Ref
  /\ abandoned \subseteq activeRefs
  /\ present \subseteq Service /\ reported \subseteq Service
  /\ lostEarly \subseteq Service /\ erased \subseteq Service
  /\ daemon \in BOOLEAN /\ ddMutex \in BOOLEAN /\ undefined \in BOOLEAN
  /\ failures \in Nat /\ stops \in Nat /\ failures + stops <= MaxFaults
  /\ changes \in Nat /\ changes <= MaxChanges
  /\ devices \subseteq Found /\ device \in Found \cup {None}
  /\ service \in Service \cup {None}
  /\ discovery \in Ref \cup {None} /\ sdRef \in Ref \cup {None}
  /\ listeners \subseteq Listener /\ toTell \subseteq listeners
  /\ told \in [Listener -> SUBSET Found]
  /\ at \in {"none", "turn", "process", "gone", "failed", "leaving",
             "found", "lost", "insert", "telling", "resolved"}
  /\ ui \in [call : {"none", "add", "remove"}, listener : Listener \cup {None}]
  /\ ui.call # "none" => ui.listener \in Listener
  /\ dialog \in {"closed", "open", "connecting"}
  /\ dialogRef \in Ref \cup {None}

(* Where the browsing thread is, with what.                                *)
Places ==
  /\ ddMutex = (at = "telling") /\ (~ddMutex => toTell = {})
  /\ sdRef \notin readable
  /\ at \in {"process", "failed", "gone", "resolved"} => sdRef \in Ref
  /\ at = "process" => sdRef \in activeRefs \/ undefined
  /\ at \in {"found", "lost"} =>
       /\ sdRef = discovery /\ sdRef \in activeRefs /\ service \in Service
       /\ operation[sdRef] = Browse
  /\ at = "gone" => stops > 0
  /\ at = "failed" => failures > 0
  /\ at = "insert" => device \in Found
  /\ dead # {} => stops > 0

(* What is on the list of operations.                                      *)
Operations ==
  /\ \A r \in activeRefs : operation[r] # None \/ r \in abandoned
  /\ \A r \in abandoned : operation[r] = None
  /\ stops = 0 => \A r \in Ref : operation[r] # None => r \in activeRefs
  /\ \A r \in activeRefs : operation[r] = Browse => r = discovery
  /\ failures = 0 /\ discovery # None => operation[discovery] = Browse
  /\ \A r \in answered : operation[r] \notin {Browse, None}
  /\ failures = 0 => abandoned = {}

(* The dialog has one operation at most, which it can tell from others.    *)
Dialogs ==
  /\ dialog = "closed" => dialogRef = None
  /\ \A r \in Ref : operation[r] \in {Resolve, Host} =>
       r = dialogRef /\ dialog = "open"
  /\ at = "resolved" /\ ~undefined =>
       /\ dialog = "open" /\ dialogRef # None
       /\ \A r \in Ref : operation[r] \notin {Resolve, Host}

Records ==
  failures = 0 =>
    /\ \A r \in activeRefs : operation[r] \in Service =>
         services[r] = operation[r] /\ discovery \in activeRefs
    /\ \A r \in Ref : operation[r] \notin Service => services[r] = None
    /\ at = "insert" => device \in Name
    /\ Nameless \notin devices

(* As long as nothing goes wrong the discovery is never started again.     *)
BeforeDiscovery ==
  failures = 0 /\ stops = 0 /\ discovery \notin activeRefs =>
    /\ at \notin {"found", "lost", "insert", "telling"}
    /\ devices = {} /\ reported = {}
    /\ \A r \in Ref : operation[r] \notin Service \cup {Browse}
    /\ \A l \in Listener : told[l] = {}

(* Of the device that is being told, a listener may not know yet.          *)
Informed ==
  \A l \in listeners :
    /\ l \notin toTell \/ ~ddMutex =>
         /\ devices \subseteq told[l]
         /\ failures = 0 /\ stops = 0 => told[l] = devices
    /\ devices \ {device} \subseteq told[l]
    /\ failures = 0 /\ stops = 0 => told[l] \ {device} = devices \ {device}

(* What is queried or known was reported, or was lost under the query.     *)
Reported ==
  failures = 0 /\ stops = 0 =>
    /\ \A r \in activeRefs : operation[r] \in Service =>
         \/ operation[r] \in reported \cup lostEarly
         \/ at = "lost" /\ service = operation[r]
    /\ at = "insert" =>
         \E s \in reported \cup lostEarly : DeviceName[s] = device
    /\ at = "found" => service \in reported
    /\ at = "lost" => service \notin reported
    /\ DevicesReported
    /\ NoneForgotten

IInv ==
  Types /\ Places /\ Operations /\ Dialogs /\ Records /\ BeforeDiscovery
    /\ Informed /\ Reported

USE BrowseAssumption, BoundsAssumption, NoneAssumption, SupportedAssumption,
    DialogAssumption, NamelessAssumption, NameAssumption,
    DialogOperationAssumption

-----------------------------------------------------------------------------
LEMMA InitIInv == Init => IInv
<1> SUFFICES ASSUME Init PROVE IInv
  OBVIOUS
<1> USE DEF Init, InitDirectory, InitDialog, Idle
<1>1. Types
  <2>1. ui \in [call : {"none", "add", "remove"}, listener : Listener \cup {None}]
    OBVIOUS
  <2>2. failures \in Nat /\ stops \in Nat /\ failures + stops <= MaxFaults
    OBVIOUS
  <2>3. changes \in Nat /\ changes <= MaxChanges
    OBVIOUS
  <2>4. daemon \in BOOLEAN /\ ddMutex \in BOOLEAN /\ undefined \in BOOLEAN
    OBVIOUS
  <2>5. ui.call = "none"
    OBVIOUS
  <2>6. told \in [Listener -> SUBSET Found]
    BY DEF Found
  <2> QED BY <2>1, <2>2, <2>3, <2>4, <2>5, <2>6 DEF Types
<1>2. Places /\ Operations /\ Dialogs /\ Records /\ BeforeDiscovery /\ Informed
  BY DEF Places, Operations, Dialogs, Records, BeforeDiscovery, Informed
<1>3. Reported
  BY DEF Reported, DevicesReported, NoneForgotten
<1> QED BY <1>1, <1>2, <1>3 DEF IInv

(* One lemma for each action: first the parts of IInv that rest on others, *)
(* then, together, those that the action keeps by themselves.              *)
LEMMA TurnKeepsIInv ==
  ASSUME IInv, ~undefined, Outside(Turn), UNCHANGED connection
  PROVE  IInv'
<1> USE DEF Outside, known, telling, history, connection, Turn, HasResult,
            Visit, network, list, faults, News, Free
<1>1. Types'
  BY DEF IInv, Types, Found
<1>2. Places'
  BY DEF IInv, Types, Places, Operations, Found
<1>3. Operations' /\ Dialogs' /\ Records' /\ BeforeDiscovery' /\ Informed'
     /\ Reported'
  BY DEF IInv, Operations, Dialogs, Records, BeforeDiscovery, Informed,
         Reported, NoFaults, DevicesReported, NoneForgotten, BeingQueried
<1> QED BY <1>1, <1>2, <1>3 DEF IInv

LEMMA TurnAstrayKeepsIInv ==
  ASSUME IInv, ~undefined, Outside(TurnAstray), UNCHANGED connection
  PROVE  IInv'
<1> USE DEF Outside, known, telling, history, connection, TurnAstray,
            network, list, thread
<1>1. Types' /\ Places' /\ Operations' /\ Dialogs' /\ Records'
     /\ BeforeDiscovery' /\ Informed' /\ Reported'
  BY DEF IInv, Types, Places, Operations, Dialogs, Records, BeforeDiscovery,
         Informed, Reported, Found, NoFaults, DevicesReported, NoneForgotten,
         BeingQueried
<1> QED BY <1>1 DEF IInv

LEMMA LeaveKeepsIInv ==
  ASSUME IInv, ~undefined, Outside(Leave), UNCHANGED connection
  PROVE  IInv'
<1> USE DEF Outside, known, telling, history, connection, Leave, network,
            list, faults
<1>1. Places'
  BY DEF IInv, Types, Places, Operations, Found
<1>2. Types' /\ Operations' /\ Dialogs' /\ Records' /\ BeforeDiscovery'
     /\ Informed' /\ Reported'
  BY DEF IInv, Types, Operations, Dialogs, Records, BeforeDiscovery,
         Informed, Reported, Found, NoFaults, DevicesReported, NoneForgotten,
         BeingQueried
<1> QED BY <1>1, <1>2 DEF IInv

LEMMA ThreadEndsKeepsIInv ==
  ASSUME IInv, ~undefined, Outside(ThreadEnds), UNCHANGED connection
  PROVE  IInv'
<1> USE DEF Outside, known, telling, history, connection, ThreadEnds,
            network, list, faults
<1>1. Types' /\ Places' /\ Operations' /\ Dialogs' /\ Records'
     /\ BeforeDiscovery' /\ Informed' /\ Reported'
  BY DEF IInv, Types, Places, Operations, Dialogs, Records, BeforeDiscovery,
         Informed, Reported, Found, NoFaults, DevicesReported, NoneForgotten,
         BeingQueried
<1> QED BY <1>1 DEF IInv

LEMMA ReportKeepsIInv ==
  ASSUME IInv, ~undefined, NEW s \in Service, Outside(Report(s)),
         UNCHANGED connection
  PROVE  IInv'
<1> USE DEF Outside, known, telling, history, connection, Report, News, list,
            faults
<1>1. Places'
  BY DEF IInv, Types, Places, Operations, Found
<1>2. BeforeDiscovery'
  BY DEF IInv, Types, Places, Operations, BeforeDiscovery, Found
<1>3. Reported'
  BY DEF IInv, Types, Reported, Found, NoFaults, DevicesReported,
         NoneForgotten, BeingQueried
<1>4. Types' /\ Operations' /\ Dialogs' /\ Records' /\ Informed'
  BY DEF IInv, Types, Operations, Dialogs, Records, Informed, Found
<1> QED BY <1>1, <1>2, <1>3, <1>4 DEF IInv

LEMMA NoResultKeepsIInv ==
  ASSUME IInv, ~undefined, Outside(NoResult), UNCHANGED connection
  PROVE  IInv'
<1> USE DEF Outside, known, telling, history, connection, NoResult,
            HasResult, Return, network, list, faults, News, Visit
<1>1. Places'
  BY DEF IInv, Types, Places, Found
<1>2. Types' /\ Operations' /\ Dialogs' /\ Records' /\ BeforeDiscovery'
     /\ Informed' /\ Reported'
  BY DEF IInv, Types, Operations, Dialogs, Records, BeforeDiscovery,
         Informed, Reported, Found, NoFaults, DevicesReported, NoneForgotten,
         BeingQueried
<1> QED BY <1>1, <1>2 DEF IInv

LEMMA DaemonGoneKeepsIInv ==
  ASSUME IInv, ~undefined, Outside(DaemonGone), UNCHANGED connection
  PROVE  IInv'
<1> USE DEF Outside, known, telling, history, connection, DaemonGone,
            network, list, faults
<1>1. Types' /\ Places' /\ Operations' /\ Dialogs' /\ Records'
     /\ BeforeDiscovery' /\ Informed' /\ Reported'
  BY DEF IInv, Types, Places, Operations, Dialogs, Records, BeforeDiscovery,
         Informed, Reported, Found, NoFaults, DevicesReported, NoneForgotten,
         BeingQueried
<1> QED BY <1>1 DEF IInv

LEMMA ContinueGoneKeepsIInv ==
  ASSUME IInv, ~undefined, Outside(ContinueGone), UNCHANGED connection
  PROVE  IInv'
<1> USE DEF Outside, known, telling, history, connection, ContinueGone,
            Visit, network, faults
<1>1. Places'
  BY DEF IInv, Types, Places, Found
<1>2. Operations'
  BY DEF IInv, Places, Operations
<1>3. Records'
  BY DEF IInv, Places, Records
<1>4. BeforeDiscovery'
  BY DEF IInv, Places, BeforeDiscovery
<1>5. Reported'
  BY DEF IInv, Places, Reported, NoFaults, DevicesReported, NoneForgotten,
         BeingQueried
<1>6. Types' /\ Dialogs' /\ Informed'
  BY DEF IInv, Types, Dialogs, Informed, Found
<1> QED BY <1>1, <1>2, <1>3, <1>4, <1>5, <1>6 DEF IInv

LEMMA ContinueFailedKeepsIInv ==
  ASSUME IInv, ~undefined, Outside(ContinueFailed), UNCHANGED connection
  PROVE  IInv'
<1> USE DEF Outside, known, telling, history, connection, ContinueFailed,
            Stop, Return, faults, Visit
<1>1. Places'
  BY DEF IInv, Types, Places, Found
<1>2. Operations'
  BY DEF IInv, Types, Places, Operations, Found
<1>3. Dialogs'
  BY DEF IInv, Types, Places, Dialogs, Found
<1>4. Records'
  BY DEF IInv, Places, Records
<1>5. BeforeDiscovery'
  BY DEF IInv, Places, BeforeDiscovery
<1>6. Reported'
  BY DEF IInv, Places, Reported, NoFaults, DevicesReported, NoneForgotten,
         BeingQueried
<1>7. Types' /\ Informed'
  BY DEF IInv, Types, Informed, Found
<1> QED BY <1>1, <1>2, <1>3, <1>4, <1>5, <1>6, <1>7 DEF IInv

LEMMA OnServiceResolvedKeepsIInv ==
  ASSUME IInv, ~undefined, Outside(OnServiceResolved)
  PROVE  IInv'
<1> USE DEF Outside, known, telling, history, connection, OnServiceResolved,
            Stop, faults
<1>1. Places'
  BY DEF IInv, Types, Places, Found
<1>2. Operations'
  BY DEF IInv, Types, Places, Operations, Found
<1>3. Dialogs'
  BY DEF IInv, Types, Places, Dialogs, Found
<1>4. Records'
  <2>1. sdRef \in Ref
    BY DEF IInv, Places
  <2>2. \A r \in Ref : operation'[r] = IF r = sdRef THEN None ELSE operation[r]
    BY <2>1 DEF IInv, Types
  <2>3. failures = 0 => services[sdRef] = None
    BY <2>1 DEF IInv, Types, Records
  <2>4. failures = 0 /\ discovery \in activeRefs => discovery \in activeRefs'
    BY <2>1 DEF IInv, Types, Operations
  <2> QED BY <2>1, <2>2, <2>3, <2>4 DEF IInv, Types, Records
<1>5. BeforeDiscovery'
  BY DEF IInv, Types, Places, Operations, BeforeDiscovery, Found
<1>6. Reported'
  BY DEF IInv, Types, Places, Reported, Found, NoFaults, DevicesReported,
         NoneForgotten, BeingQueried
<1>7. Types' /\ Informed'
  BY DEF IInv, Types, Informed, Found
<1> QED BY <1>1, <1>2, <1>3, <1>4, <1>5, <1>6, <1>7 DEF IInv

LEMMA QueryHostKeepsIInv ==
  ASSUME IInv, ~undefined, Outside(QueryHost)
  PROVE  IInv'
<1> USE DEF Outside, known, telling, history, connection, QueryHost, Begin,
            Return, network, faults, Free, Visit, list
<1>1. Places'
  BY DEF IInv, Types, Places, Found
<1>2. Operations'
  BY DEF IInv, Types, Places, Operations, Found
<1>3. Dialogs'
  BY DEF IInv, Types, Places, Dialogs, Found
<1>4. Records'
  BY DEF IInv, Types, Places, Records, Found
<1>5. BeforeDiscovery'
  BY DEF IInv, Types, Places, Operations, BeforeDiscovery, Found
<1>6. Reported'
  BY DEF IInv, Types, Places, Reported, Found, NoFaults, DevicesReported,
         NoneForgotten, BeingQueried
<1>7. Types' /\ Informed'
  BY DEF IInv, Types, Informed, Found
<1> QED BY <1>1, <1>2, <1>3, <1>4, <1>5, <1>6, <1>7 DEF IInv

LEMMA OnHostQueriedKeepsIInv ==
  ASSUME IInv, ~undefined, Outside(OnHostQueried)
  PROVE  IInv'
<1> USE DEF Outside, known, telling, history, connection, OnHostQueried,
            Stop, Return, faults, Visit
<1>1. Places'
  BY DEF IInv, Types, Places, Found
<1>2. Operations'
  BY DEF IInv, Types, Places, Operations, Found
<1>3. Dialogs'
  BY DEF IInv, Types, Places, Dialogs, Found
<1>4. Records'
  <2>1. sdRef \in Ref
    BY DEF IInv, Places
  <2>2. \A r \in Ref : operation'[r] = IF r = sdRef THEN None ELSE operation[r]
    BY <2>1 DEF IInv, Types
  <2>3. failures = 0 => services[sdRef] = None
    BY <2>1 DEF IInv, Types, Records
  <2>4. failures = 0 /\ discovery \in activeRefs => discovery \in activeRefs'
    BY <2>1 DEF IInv, Types, Operations
  <2> QED BY <2>1, <2>2, <2>3, <2>4 DEF IInv, Types, Records
<1>5. BeforeDiscovery'
  BY DEF IInv, Types, Places, Operations, BeforeDiscovery, Found
<1>6. Reported'
  BY DEF IInv, Types, Places, Reported, Found, NoFaults, DevicesReported,
         NoneForgotten, BeingQueried
<1>7. Types' /\ Informed'
  BY DEF IInv, Types, Informed, Found
<1> QED BY <1>1, <1>2, <1>3, <1>4, <1>5, <1>6, <1>7 DEF IInv

LEMMA OpenDialogKeepsIInv ==
  ASSUME IInv, ~undefined, Outside(OpenDialog)
  PROVE  IInv'
<1> USE DEF Outside, known, telling, history, connection, OpenDialog, Begin,
            StartThrows, StartThread, MayFail, network, list, Free
<1>1. Types'
  BY DEF IInv, Types, Found
<1>2. Places'
  BY DEF IInv, Types, Places, Found
<1>3. Operations'
  BY DEF IInv, Types, Places, Operations, Found
<1>4. Dialogs'
  BY DEF IInv, Types, Places, Dialogs, Found
<1>5. Records'
  BY DEF IInv, Types, Places, Records, Found
<1>6. BeforeDiscovery'
  BY DEF IInv, Types, Places, Operations, BeforeDiscovery, Found
<1>7. Informed'
  BY DEF IInv, Types, Informed, Found
<1>8. Reported'
  BY DEF IInv, Types, Places, Reported, Found, NoFaults, DevicesReported,
         NoneForgotten, BeingQueried
<1> QED BY <1>1, <1>2, <1>3, <1>4, <1>5, <1>6, <1>7, <1>8 DEF IInv

LEMMA CancelDialogKeepsIInv ==
  ASSUME IInv, ~undefined, Outside(CancelDialog)
  PROVE  IInv'
<1> USE DEF Outside, known, telling, history, list, network
<1>1. /\ dialog # "closed" /\ dialog' = "closed" /\ dialogRef' = None
      /\ UNCHANGED <<readable, sdRef, service, at, failures, stops>>
  BY DEF CancelDialog, thread
<1>2. \/ /\ UNCHANGED <<network, list>>
         /\ dialogRef = None \/ operation[dialogRef] \notin {Resolve, Host}
      \/ /\ dialogRef \in Ref /\ operation[dialogRef] \in {Resolve, Host}
         /\ Stop(dialogRef)
  BY DEF CancelDialog, StopOutside, OwnsOperation, IInv, Types
<1>3. undefined' \in BOOLEAN
  BY DEF CancelDialog, StopOutside, IInv, Types
<1>4. \A r \in Ref : operation'[r] \notin {Resolve, Host}
  BY <1>2 DEF Stop, IInv, Types, Dialogs
<1>5. at = "resolved" => undefined'
  BY DEF CancelDialog, StopOutside, OwnsOperation, IInv, Types, Dialogs
<1>6. at = "process" => sdRef \in activeRefs' \/ undefined'
  <2>1. CASE dialogRef = sdRef /\ at = "process" /\ ~UNCHANGED list
    <3>1. undefined' \in CASE ~Calling \/ dialogRef \notin activeRefs -> {FALSE}
                           [] dialogRef = sdRef /\ at # "gone" -> {TRUE}
                           [] OTHER -> BOOLEAN
      BY <2>1 DEF CancelDialog, StopOutside
    <3>2. Calling /\ dialogRef \in activeRefs
      BY <2>1 DEF Calling, IInv, Places
    <3> QED BY <2>1, <3>1, <3>2
  <2>2. CASE dialogRef # sdRef \/ UNCHANGED list
    BY <1>2, <2>2 DEF Stop, IInv, Places
  <2> QED BY <2>1, <2>2
<1>7. Types'
  BY <1>1, <1>2, <1>3 DEF Stop, IInv, Types, Found
<1>8. Places'
  BY <1>1, <1>2, <1>6 DEF Stop, IInv, Types, Places, Found
<1>9. Operations'
  BY <1>1, <1>2 DEF Stop, IInv, Types, Operations, Found
<1>10. Dialogs'
  BY <1>1, <1>4, <1>5 DEF Dialogs
<1>11. Records'
  BY <1>1, <1>2 DEF Stop, IInv, Types, Records, Operations, Found
<1>12. BeforeDiscovery'
  BY <1>1, <1>2 DEF Stop, IInv, Types, Operations, BeforeDiscovery, Found
<1>13. Informed'
  BY <1>1 DEF IInv, Informed
<1>14. Reported'
  BY <1>1, <1>2 DEF Stop, IInv, Types, Reported, Found, NoFaults,
     DevicesReported, NoneForgotten, BeingQueried
<1> QED BY <1>7, <1>8, <1>9, <1>10, <1>11, <1>12, <1>13, <1>14 DEF IInv

LEMMA ConnectedKeepsIInv ==
  ASSUME IInv, ~undefined, Outside(Connected)
  PROVE  IInv'
<1> USE DEF Outside, known, telling, history, connection, Connected,
            directory, network, list, thread, faults
<1>1. Dialogs'
  BY DEF IInv, Types, Dialogs, Found
<1>2. Types' /\ Places' /\ Operations' /\ Records' /\ BeforeDiscovery'
     /\ Informed' /\ Reported'
  BY DEF IInv, Types, Places, Operations, Records, BeforeDiscovery, Informed,
         Reported, Found, NoFaults, DevicesReported, NoneForgotten,
         BeingQueried
<1> QED BY <1>1, <1>2 DEF IInv

LEMMA StartOverKeepsIInv ==
  ASSUME IInv, ~undefined, Outside(StartOver)
  PROVE  IInv'
<1> USE DEF Outside, known, telling, history, connection, StartOver, network,
            list, thread
<1>1. Types' /\ Places' /\ Operations' /\ Dialogs' /\ Records'
     /\ BeforeDiscovery' /\ Informed' /\ Reported'
  BY DEF IInv, Types, Places, Operations, Dialogs, Records, BeforeDiscovery,
         Informed, Reported, Found, NoFaults, DevicesReported, NoneForgotten,
         BeingQueried
<1> QED BY <1>1 DEF IInv

LEMMA OnServiceFoundKeepsIInv ==
  ASSUME IInv, ~undefined, OnServiceFound
  PROVE  IInv'
<1> USE DEF OnServiceFound, Begin, Return, network, faults, connection,
            telling, Free, Visit
<1>1. Places'
  BY DEF IInv, Types, Places, Found
<1>2. Operations'
  BY DEF IInv, Types, Places, Operations, Found
<1>3. Dialogs'
  BY DEF IInv, Types, Dialogs, Found
<1>4. Records'
  BY DEF IInv, Types, Places, Operations, Records, Found
<1>5. BeforeDiscovery'
  BY DEF IInv, Types, Places, Operations, BeforeDiscovery, Found
<1>6. Reported'
  BY DEF IInv, Types, Places, Reported, Found, NoFaults, DevicesReported,
         NoneForgotten, BeingQueried
<1>7. Types' /\ Informed'
  BY DEF IInv, Types, Informed, Found
<1> QED BY <1>1, <1>2, <1>3, <1>4, <1>5, <1>6, <1>7 DEF IInv

LEMMA OnServiceFoundThrowsKeepsIInv ==
  ASSUME IInv, ~undefined, OnServiceFoundThrows
  PROVE  IInv'
<1> USE DEF OnServiceFoundThrows, Free, MayFail, Return, network, list,
            connection, known, telling, Visit
<1>1. Types'
  BY DEF IInv, Types, Found
<1>2. Places'
  BY DEF IInv, Types, Places, Found
<1>3. Operations'
  BY DEF IInv, Types, Operations, Found
<1>4. Dialogs'
  BY DEF IInv, Types, Dialogs, Found
<1>5. Records'
  BY DEF IInv, Types, Records, Found
<1>6. BeforeDiscovery'
  BY DEF IInv, Types, Places, BeforeDiscovery, Found
<1>7. Informed'
  BY DEF IInv, Types, Informed, Found
<1>8. Reported'
  BY DEF IInv, Types, Reported, Found, NoFaults, DevicesReported,
         NoneForgotten, BeingQueried
<1> QED BY <1>1, <1>2, <1>3, <1>4, <1>5, <1>6, <1>7, <1>8 DEF IInv

LEMMA OnServiceLostKeepsIInv ==
  ASSUME IInv, ~undefined, OnServiceLost
  PROVE  IInv'
<1> USE DEF OnServiceLost, NoteLost, LostDevice, BeingQueried, Tell, Return,
            telling, network, list, faults, connection, Visit
<1>1. Types'
  BY DEF IInv, Types, Places, Found
<1>2. Places'
  BY DEF IInv, Types, Places, Found
<1>3. Informed'
  BY DEF IInv, Types, Places, Informed, Found
<1>4. Reported'
  BY DEF IInv, Types, Places, Reported, Found, NoFaults, DevicesReported,
         NoneForgotten, BeingQueried
<1>5. BeforeDiscovery'
  BY DEF IInv, Types, Places, BeforeDiscovery, Found
<1>6. Operations' /\ Dialogs' /\ Records'
  BY DEF IInv, Operations, Dialogs, Records
<1> QED BY <1>1, <1>2, <1>3, <1>4, <1>5, <1>6 DEF IInv

LEMMA OnServiceQueriedKeepsIInv ==
  ASSUME IInv, ~undefined, OnServiceQueried
  PROVE  IInv'
<1> USE DEF OnServiceQueried, NameIn, Stop, Return, faults, connection,
            Visit, history
<1>1. Types'
  BY DEF IInv, Types, Places, Found
<1>2. Places'
  BY DEF IInv, Types, Places, Found
<1>3. Operations'
  BY DEF IInv, Types, Places, Operations, Found
<1>4. Dialogs'
  BY DEF IInv, Types, Dialogs, Found
<1>5. Records'
  <2>1. sdRef \in Ref /\ sdRef \in activeRefs
    BY DEF IInv, Types, Places
  <2>2. \A r \in Ref : operation'[r] = IF r = sdRef THEN None ELSE operation[r]
    BY <2>1 DEF IInv, Types
  <2>3. \A r \in Ref : services'[r] = IF r = sdRef THEN None ELSE services[r]
    BY <2>1 DEF IInv, Types
  <2>4. failures = 0 => services[sdRef] \in Service /\ discovery \in activeRefs
    BY <2>1 DEF IInv, Types, Records
  <2>5. failures = 0 => discovery \in activeRefs'
    BY <2>1, <2>4 DEF IInv, Types, Operations
  <2>6. failures = 0 => (at' = "insert" => device' \in Name)
    BY <2>4
  <2> QED BY <2>1, <2>2, <2>3, <2>5, <2>6 DEF IInv, Types, Records
<1>6. BeforeDiscovery'
  BY DEF IInv, Types, Places, Operations, BeforeDiscovery, Found
<1>7. Informed'
  BY DEF IInv, Places, Informed
<1>8. Reported'
  BY DEF IInv, Types, Places, Records, Reported, Found, NoFaults,
         DevicesReported, NoneForgotten, BeingQueried
<1> QED BY <1>1, <1>2, <1>3, <1>4, <1>5, <1>6, <1>7, <1>8 DEF IInv

LEMMA InsertDeviceKeepsIInv ==
  ASSUME IInv, ~undefined, InsertDevice
  PROVE  IInv'
<1> USE DEF InsertDevice, Tell, network, list, faults, connection
<1>1. Types'
  BY DEF IInv, Types, Places, Found
<1>2. Informed'
  BY DEF IInv, Types, Places, Informed, Found
<1>3. Records'
  BY DEF IInv, Types, Records, Found
<1>4. Reported'
  BY DEF IInv, Types, Places, Records, Reported, Found, NoFaults,
         DevicesReported, NoneForgotten, BeingQueried
<1>5. Places' /\ Operations' /\ Dialogs' /\ BeforeDiscovery'
  BY DEF IInv, Places, Operations, Dialogs, BeforeDiscovery
<1> QED BY <1>1, <1>2, <1>3, <1>4, <1>5 DEF IInv

LEMMA TellListenerKeepsIInv ==
  ASSUME IInv, ~undefined, NEW l \in Listener, TellListener(l)
  PROVE  IInv'
<1> USE DEF TellListener, Idle, directory, connection, known, network, list,
            thread, faults, history
<1>1. Informed'
  BY DEF IInv, Types, Informed, Found
<1>2. Types'
  BY DEF IInv, Types, Found
<1>3. BeforeDiscovery'
  BY DEF IInv, Types, Places, BeforeDiscovery, Found
<1>4. Places' /\ Operations' /\ Dialogs' /\ Records' /\ Reported'
  BY DEF IInv, Places, Operations, Dialogs, Records, Reported, NoFaults,
         DevicesReported, NoneForgotten, BeingQueried
<1> QED BY <1>1, <1>2, <1>3, <1>4 DEF IInv

LEMMA AllToldKeepsIInv ==
  ASSUME IInv, ~undefined, AllTold
  PROVE  IInv'
<1> USE DEF AllTold, Return, network, list, faults, connection, known, Visit,
            history
<1>1. Places'
  BY DEF IInv, Types, Places, Found
<1>2. Types'
  BY DEF IInv, Types, Found
<1>3. Operations'
  BY DEF IInv, Operations
<1>4. Dialogs'
  BY DEF IInv, Dialogs
<1>5. Records'
  BY DEF IInv, Records
<1>6. BeforeDiscovery'
  BY DEF IInv, BeforeDiscovery
<1>7. Informed'
  BY DEF IInv, Informed
<1>8. Reported'
  BY DEF IInv, Reported, NoFaults, DevicesReported, NoneForgotten,
         BeingQueried
<1> QED BY <1>1, <1>2, <1>3, <1>4, <1>5, <1>6, <1>7, <1>8 DEF IInv

LEMMA AnswerKeepsIInv ==
  ASSUME IInv, ~undefined, NEW r \in Ref, Outside(Answer(r)),
         UNCHANGED connection
  PROVE  IInv'
<1> USE DEF Outside, known, telling, history, connection, Answer, list,
            thread, faults
<1>1. Operations'
  BY DEF IInv, Types, Operations, Found
<1>2. Types' /\ Places' /\ Dialogs' /\ Records' /\ BeforeDiscovery'
     /\ Informed' /\ Reported'
  BY DEF IInv, Types, Places, Dialogs, Records, BeforeDiscovery, Informed,
         Reported, Found, NoFaults, DevicesReported, NoneForgotten,
         BeingQueried
<1> QED BY <1>1, <1>2 DEF IInv

LEMMA DialogAnswerKeepsIInv ==
  ASSUME IInv, ~undefined, NEW r \in Ref, Outside(DialogAnswer(r))
  PROVE  IInv'
<1> USE DEF Outside, known, telling, history, connection, DialogAnswer, list,
            thread, faults
<1>1. Operations'
  BY DEF IInv, Types, Operations, Found
<1>2. Types' /\ Places' /\ Dialogs' /\ Records' /\ BeforeDiscovery'
     /\ Informed' /\ Reported'
  BY DEF IInv, Types, Places, Dialogs, Records, BeforeDiscovery, Informed,
         Reported, Found, NoFaults, DevicesReported, NoneForgotten,
         BeingQueried
<1> QED BY <1>1, <1>2 DEF IInv

LEMMA AppearKeepsIInv ==
  ASSUME IInv, ~undefined, NEW s \in Service, Outside(Appear(s)),
         UNCHANGED connection
  PROVE  IInv'
<1> USE DEF Outside, known, telling, history, connection, Appear, list,
            thread, faults
<1>1. Types' /\ Places' /\ Operations' /\ Dialogs' /\ Records'
     /\ BeforeDiscovery' /\ Informed' /\ Reported'
  BY DEF IInv, Types, Places, Operations, Dialogs, Records, BeforeDiscovery,
         Informed, Reported, Found, NoFaults, DevicesReported, NoneForgotten,
         BeingQueried
<1> QED BY <1>1 DEF IInv

LEMMA DisappearKeepsIInv ==
  ASSUME IInv, ~undefined, NEW s \in Service, Outside(Disappear(s)),
         UNCHANGED connection
  PROVE  IInv'
<1> USE DEF Outside, known, telling, history, connection, Disappear, list,
            thread, faults
<1>1. Types' /\ Places' /\ Operations' /\ Dialogs' /\ Records'
     /\ BeforeDiscovery' /\ Informed' /\ Reported'
  BY DEF IInv, Types, Places, Operations, Dialogs, Records, BeforeDiscovery,
         Informed, Reported, Found, NoFaults, DevicesReported, NoneForgotten,
         BeingQueried
<1> QED BY <1>1 DEF IInv

LEMMA OperationFailsKeepsIInv ==
  ASSUME IInv, ~undefined, Outside(OperationFails), UNCHANGED connection
  PROVE  IInv'
<1> USE DEF Outside, known, telling, history, connection, OperationFails,
            MayFail, network, list
<1>1. Types'
  BY DEF IInv, Types, Found
<1>2. Places'
  BY DEF IInv, Types, Places, Found
<1>3. Operations'
  BY DEF IInv, Types, Operations, Found
<1>4. Dialogs'
  BY DEF IInv, Types, Dialogs, Found
<1>5. Records'
  BY DEF IInv, Types, Records, Found
<1>6. BeforeDiscovery'
  BY DEF IInv, Types, BeforeDiscovery, Found
<1>7. Informed'
  BY DEF IInv, Types, Informed, Found
<1>8. Reported'
  BY DEF IInv, Types, Reported, Found, NoFaults, DevicesReported,
         NoneForgotten, BeingQueried
<1> QED BY <1>1, <1>2, <1>3, <1>4, <1>5, <1>6, <1>7, <1>8 DEF IInv

LEMMA DaemonStopsKeepsIInv ==
  ASSUME IInv, ~undefined, Outside(DaemonStops), UNCHANGED connection
  PROVE  IInv'
<1> USE DEF Outside, known, telling, history, connection, DaemonStops,
            MayFail, Free, list, thread
<1>1. Types'
  <2>1. failures + stops' <= MaxFaults
    BY DEF IInv, Types
  <2>2. dead' \subseteq Ref /\ stops' \in Nat
    BY DEF IInv, Types
  <2>3. /\ daemon' = FALSE
        /\ UNCHANGED <<answered, present, changes, reported, failures, undefined>>
        /\ UNCHANGED <<operation, activeRefs, abandoned>>
        /\ UNCHANGED <<readable, sdRef, service, at, dialog, dialogRef>>
        /\ UNCHANGED <<discovery, services, devices, listeners>>
        /\ UNCHANGED <<ddMutex, device, toTell, lostEarly, erased, ui, told>>
    OBVIOUS
  <2>4. failures' \in Nat /\ failures' + stops' <= MaxFaults
    BY <2>1, <2>3 DEF IInv, Types
  <2> HIDE DEF DaemonStops, MayFail, Free
  <2> QED BY <2>2, <2>3, <2>4 DEF IInv, Types, Found
<1>2. Places'
  BY DEF IInv, Types, Places, Found
<1>3. Operations'
  BY DEF IInv, Types, Operations, Found
<1>4. Dialogs'
  BY DEF IInv, Types, Dialogs, Found
<1>5. Records'
  BY DEF IInv, Types, Records, Found
<1>6. BeforeDiscovery'
  BY DEF IInv, Types, BeforeDiscovery, Found
<1>7. Informed'
  BY DEF IInv, Types, Informed, Found
<1>8. Reported'
  BY DEF IInv, Types, Reported, Found, NoFaults, DevicesReported,
         NoneForgotten, BeingQueried
<1> QED BY <1>1, <1>2, <1>3, <1>4, <1>5, <1>6, <1>7, <1>8 DEF IInv

LEMMA DaemonStartsKeepsIInv ==
  ASSUME IInv, ~undefined, Outside(DaemonStarts), UNCHANGED connection
  PROVE  IInv'
<1> USE DEF Outside, known, telling, history, connection, DaemonStarts, list,
            thread, faults
<1>1. Types' /\ Places' /\ Operations' /\ Dialogs' /\ Records'
     /\ BeforeDiscovery' /\ Informed' /\ Reported'
  BY DEF IInv, Types, Places, Operations, Dialogs, Records, BeforeDiscovery,
         Informed, Reported, Found, NoFaults, DevicesReported, NoneForgotten,
         BeingQueried
<1> QED BY <1>1 DEF IInv

LEMMA AddListenerKeepsIInv ==
  ASSUME IInv, ~undefined, AddListener
  PROVE  IInv'
<1> USE DEF AddListener, isRunning, Begin, StartThread, Forget, list, Idle,
            faults, telling, Free, connection, history
<1>1. Types'
  BY DEF IInv, Types, Found
<1>2. Places'
  BY DEF IInv, Types, Places, Found
<1>3. Operations'
  BY DEF IInv, Types, Operations, Found
<1>4. Dialogs'
  BY DEF IInv, Types, Dialogs, Found
<1>5. Records'
  BY DEF IInv, Types, Operations, Records, Found
<1>6. BeforeDiscovery'
  BY DEF IInv, Types, Operations, BeforeDiscovery, Found
<1>7. Informed'
  <2>1. ddMutex = FALSE /\ toTell = {}
    BY DEF IInv, Places
  <2>2. \A l \in Listener :
          told'[l] = IF l = ui.listener THEN devices' ELSE told[l]
    BY DEF IInv, Types
  <2>3. CASE UNCHANGED devices
    BY <2>1, <2>2, <2>3 DEF IInv, Types, Informed
  <2>4. CASE devices' = {} /\ discovery \notin activeRefs
    BY <2>1, <2>2, <2>4 DEF IInv, Types, Informed, BeforeDiscovery
  <2> QED BY <2>3, <2>4
<1>8. Reported'
  BY DEF IInv, Types, Places, Operations, Records, BeforeDiscovery, Reported,
         Found, NoFaults, DevicesReported, NoneForgotten, BeingQueried
<1> QED BY <1>1, <1>2, <1>3, <1>4, <1>5, <1>6, <1>7, <1>8 DEF IInv

LEMMA AddListenerThrowsKeepsIInv ==
  ASSUME IInv, ~undefined, AddListenerThrows
  PROVE  IInv'
<1> USE DEF AddListenerThrows, StartThrows, MayFail, isRunning, Forget, Free,
            Idle, connection, telling, network, list
<1>1. Types'
  BY DEF IInv, Types, Found
<1>2. Places'
  BY DEF IInv, Types, Places, Found
<1>3. Operations'
  BY DEF IInv, Types, Places, Operations, Found
<1>4. Dialogs'
  BY DEF IInv, Types, Dialogs, Found
<1>5. Records'
  BY DEF IInv, Types, Operations, Records, Found
<1>6. BeforeDiscovery'
  BY DEF IInv, Types, Operations, BeforeDiscovery, Found
<1>7. Informed'
  BY DEF IInv, Types, Places, BeforeDiscovery, Informed, Found
<1>8. Reported'
  BY DEF IInv, Types, Places, Operations, BeforeDiscovery, Reported, Found,
         NoFaults, DevicesReported, NoneForgotten, BeingQueried
<1> QED BY <1>1, <1>2, <1>3, <1>4, <1>5, <1>6, <1>7, <1>8 DEF IInv

LEMMA RemoveListenerKeepsIInv ==
  ASSUME IInv, ~undefined, RemoveListener
  PROVE  IInv'
<1> USE DEF RemoveListener, Idle, directory, connection, telling, network,
            list, thread, faults, history
<1>1. Types'
  BY DEF IInv, Types, Places, Found
<1>2. Informed'
  BY DEF IInv, Types, Places, Informed, Found
<1>3. BeforeDiscovery'
  BY DEF IInv, Types, BeforeDiscovery, Found
<1>4. Places' /\ Operations' /\ Dialogs' /\ Records' /\ Reported'
  BY DEF IInv, Places, Operations, Dialogs, Records, Reported, NoFaults,
         DevicesReported, NoneForgotten, BeingQueried
<1> QED BY <1>1, <1>2, <1>3, <1>4 DEF IInv

LEMMA CallKeepsIInv ==
  ASSUME IInv, ~undefined, NEW call \in {"add", "remove"},
         NEW l \in Listener, Call(call, l)
  PROVE  IInv'
<1> USE DEF Call, Idle, directory, connection, known, telling, network, list,
            thread, faults, history
<1>1. Types'
  BY DEF IInv, Types, Found
<1>2. Places' /\ Operations' /\ Dialogs' /\ Records' /\ BeforeDiscovery'
     /\ Informed' /\ Reported'
  BY DEF IInv, Places, Operations, Dialogs, Records, BeforeDiscovery,
         Informed, Reported, NoFaults, DevicesReported, NoneForgotten,
         BeingQueried
<1> QED BY <1>1, <1>2 DEF IInv

LEMMA StutterKeepsIInv ==
  ASSUME IInv, UNCHANGED vars
  PROVE  IInv'
<1> USE DEF vars, directory, connection, known, telling, history, network,
            list, thread, faults
<1>1. Types' /\ Places' /\ Operations' /\ Dialogs' /\ Records'
     /\ BeforeDiscovery' /\ Informed' /\ Reported'
  BY DEF IInv, Types, Places, Operations, Dialogs, Records,
         BeforeDiscovery, Informed, Reported, Found, NoFaults,
         DevicesReported, NoneForgotten, BeingQueried
<1> QED BY <1>1 DEF IInv

-----------------------------------------------------------------------------
LEMMA NextKeepsIInv == IInv /\ [Next]_vars => IInv'
<1> SUFFICES ASSUME IInv, [Next]_vars PROVE IInv'
  OBVIOUS
<1>1. CASE UNCHANGED vars
  BY <1>1, StutterKeepsIInv
<1>2. CASE ThreadStep
  <2>1. ~undefined
    BY <1>2 DEF ThreadStep
  <2>2. CASE Outside(/\ \/ Turn \/ TurnAstray \/ Leave \/ ThreadEnds
                        \/ \E s \in Service : Report(s)
                        \/ NoResult \/ DaemonGone \/ ContinueGone
                        \/ ContinueFailed
                     /\ UNCHANGED connection)
    BY <2>1, <2>2, TurnKeepsIInv, TurnAstrayKeepsIInv, LeaveKeepsIInv,
       ThreadEndsKeepsIInv, ReportKeepsIInv, NoResultKeepsIInv,
       DaemonGoneKeepsIInv, ContinueGoneKeepsIInv, ContinueFailedKeepsIInv
    DEF Outside
  <2>3. CASE Outside(DialogCallback)
    BY <2>1, <2>3, OnServiceResolvedKeepsIInv, QueryHostKeepsIInv,
       OnHostQueriedKeepsIInv
    DEF Outside, DialogCallback
  <2>4. CASE \/ OnServiceFound \/ OnServiceFoundThrows \/ OnServiceLost
             \/ OnServiceQueried \/ InsertDevice
             \/ \E l \in Listener : TellListener(l)
             \/ AllTold
    BY <2>1, <2>4, OnServiceFoundKeepsIInv, OnServiceFoundThrowsKeepsIInv,
       OnServiceLostKeepsIInv, OnServiceQueriedKeepsIInv,
       InsertDeviceKeepsIInv, TellListenerKeepsIInv, AllToldKeepsIInv
  <2> QED BY <1>2, <2>2, <2>3, <2>4 DEF ThreadStep, Outside
<1>3. CASE Answers
  BY <1>3, AnswerKeepsIInv DEF Answers, Outside
<1>4. CASE ~undefined /\ Outside(/\ \/ \E s \in Service : Appear(s) \/ Disappear(s)
                                    \/ OperationFails \/ DaemonStops \/ DaemonStarts
                                 /\ UNCHANGED connection)
  BY <1>4, AppearKeepsIInv, DisappearKeepsIInv, OperationFailsKeepsIInv,
     DaemonStopsKeepsIInv, DaemonStartsKeepsIInv
  DEF Outside
<1>5. CASE ~undefined /\ Outside(DialogStep \/ \E r \in Ref : DialogAnswer(r))
  BY <1>5, OpenDialogKeepsIInv, CancelDialogKeepsIInv, ConnectedKeepsIInv,
     StartOverKeepsIInv, DialogAnswerKeepsIInv
  DEF Outside, DialogStep
<1>6. CASE CallReturns
  BY <1>6, AddListenerKeepsIInv, AddListenerThrowsKeepsIInv,
     RemoveListenerKeepsIInv
  DEF CallReturns
<1>7. CASE ~undefined /\ \E l \in Listener : Call("add", l) \/ Call("remove", l)
  BY <1>7, CallKeepsIInv
<1> QED BY <1>1, <1>2, <1>3, <1>4, <1>5, <1>6, <1>7 DEF Next, Outside

LEMMA AlwaysIInv == Spec => []IInv
BY InitIInv, NextKeepsIInv, PTL DEF Spec

(* Everything has its type, the browsing thread holds the mutex while it   *)
(* tells, and is called back by the operation that browses.                *)
THEOREM DiscoveryInvariant == Spec => []Inv
<1>1. IInv => Inv
  BY DEF IInv, Types, Places, Dialogs, Inv, Found, OwnPlace
<1> QED BY <1>1, AlwaysIInv, PTL

(* What is on the list is allocated, but for what a start() that threw has *)
(* left there, and only a daemon that goes leaks an operation, whoever     *)
(* starts and stops them (ServiceDiscovery::start, stop, and run).         *)
THEOREM NoOperationLeaks == Spec => []OperationsOwned
<1>1. IInv => OperationsOwned
  BY DEF IInv, Types, Operations, OperationsOwned, Free
<1> QED BY <1>1, AlwaysIInv, PTL

(* A query's record is about its service, although references are used     *)
(* again, and every device has its name (onServiceFound, onServiceQueried).*)
THEOREM DevicesAreNamed == Spec => []RecordsMatch
<1>1. IInv => RecordsMatch
  BY DEF IInv, Types, Records, RecordsMatch
<1> QED BY <1>1, AlwaysIInv, PTL

(* A device that is known has the name of a service that was reported and  *)
(* has not been lost since but while it was queried (onServiceLost,        *)
(* onServiceQueried).                                                      *)
THEOREM KnownWasReported == Spec => []DevicesReported
<1>1. IInv => DevicesReported
  BY DEF IInv, Reported, DevicesReported, NoFaults
<1> QED BY <1>1, AlwaysIInv, PTL

(* A service that was reported and can be used is known by its device's    *)
(* name or being queried, unless a service with a device of the same name  *)
(* was lost, however the names go (onServiceFound, onServiceLost,          *)
(* onServiceQueried).                                                      *)
THEOREM ReportedIsKnown == Spec => []NoneForgotten
<1>1. IInv => NoneForgotten
  BY DEF IInv, Reported, NoneForgotten, NoFaults
<1> QED BY <1>1, AlwaysIInv, PTL

(* All listeners know of all devices when nobody is being told             *)
(* (addListener, onServiceLost, onServiceQueried).                         *)
THEOREM ListenersKnow == Spec => []ListenersInformed
<1>1. IInv => ListenersInformed
  BY DEF IInv, Informed, ListenersInformed, NoFaults
<1> QED BY <1>1, AlwaysIInv, PTL

(* During a callback nothing leaves the list but the operation that it is  *)
(* called for, or the dialog's when the user cancels                       *)
(* (ServiceDiscoveryImpl::run, stop, ConnectDialog::onCommand).            *)
THEOREM CallbacksKeepIterator == Spec => IteratorKept
<1> DEFINE Kept == at \notin OwnPlace \ {"process"} =>
                     \/ activeRefs \ activeRefs' \subseteq {sdRef}
                     \/ /\ dialog # "closed" /\ dialog' = "closed"
                        /\ activeRefs \ activeRefs' = {dialogRef}
<1>1. CancelDialog => [Kept]_activeRefs
  BY DEF CancelDialog, StopOutside, Stop, list
<1>2. Next => [Kept]_activeRefs
  BY <1>1
  DEF Next, ThreadStep, Answers, Outside, CallReturns, Turn, TurnAstray, Leave,
      ThreadEnds, Report, NoResult, DaemonGone, ContinueGone, ContinueFailed,
      DialogStep, DialogCallback, OpenDialog, StartThrows, Connected,
      StartOver, DialogAnswer, OnServiceResolved, QueryHost, OnHostQueried,
      OnServiceFound, OnServiceFoundThrows, OnServiceLost, OnServiceQueried,
      InsertDevice, TellListener, AllTold, Answer, Appear, Disappear,
      OperationFails, DaemonStops, DaemonStarts, AddListener,
      AddListenerThrows, RemoveListener, Call, Begin, Stop, known, list,
      directory, OwnPlace
<1>3. [Next]_vars => [Kept]_activeRefs
  BY <1>2 DEF vars, directory, list
<1> QED BY <1>3, PTL DEF Spec, IteratorKept
=============================================================================
