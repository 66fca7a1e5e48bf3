---------------------------- MODULE ConnectDialog ----------------------------
(***************************************************************************)
(* Connecting to a device that was discovered: class ConnectDialog         *)
(* (view/impl/ConnectDialog.cpp) over ServiceDiscovery.                    *)
(*                                                                         *)
(* The dialog resolves the service's name and queries the record of the    *)
(* host that this gives.  Its thread begins and stops operations, and so   *)
(* do its callbacks in the browsing thread; nothing protects _sdRef.  One  *)
(* dialog is open at a time, under the device manager's mutex.             *)
(***************************************************************************)
EXTENDS ServiceDiscovery

CONSTANTS
  Resolve, (* the operation that resolves a service's name                 *)
  Host     (* the operation that queries the host's record                 *)

ASSUME DialogOperationAssumption ==
  /\ Resolve # Host
  /\ {Resolve, Host} \cap (Service \cup {Browse, None}) = {}

VARIABLES
  dialog,    (* whether it is open, and has an address to connect to       *)
  dialogRef  (* _sdRef, or None                                            *)

connection == <<dialog, dialogRef>>

InitDialog == dialog = "closed" /\ dialogRef = None

(* The operation under _sdRef has not been deallocated.                    *)
OwnsOperation == operation[dialogRef] \in {Resolve, Host}

(* The list's mutex is released, although run() has an iterator on the     *)
(* list, and may have results of an operation to process.                  *)
Calling == at \notin {"none", "turn", "leaving"}

-----------------------------------------------------------------------------
(* onInitialize(): begin to resolve; an exception is only logged.          *)
OpenDialog ==
  /\ dialog = "closed" /\ dialog' = "open"
  /\ \/ /\ \E r \in Ref : Begin(r, Resolve) /\ dialogRef' = r
        /\ StartThread /\ UNCHANGED failures
     \/ \E r \in Ref : StartThrows(r) /\ dialogRef' = r
     \/ /\ ~daemon \/ Free = {}
        /\ dialogRef' = None /\ UNCHANGED <<list, at, failures>>
  /\ UNCHANGED <<network, readable, sdRef, service, stops, undefined>>

(* stop() from the dialog's thread.  It deallocates the operation again    *)
(* when that was done before, or takes it from under run(): certainly when *)
(* its results are processed, perhaps when the iterator is on it.          *)
StopOutside ==
  \/ /\ ~OwnsOperation
     /\ undefined' = TRUE /\ UNCHANGED <<network, list>>
  \/ /\ OwnsOperation /\ Stop(dialogRef)
     /\ undefined' \in CASE ~Calling \/ dialogRef \notin activeRefs -> {FALSE}
                         [] dialogRef = sdRef /\ at # "gone" -> {TRUE}
                         [] OTHER -> BOOLEAN

(* onCommand(): the user cancels.                                          *)
CancelDialog ==
  /\ dialog # "closed" /\ dialog' = "closed" /\ dialogRef' = None
  /\ IF dialogRef = None THEN UNCHANGED <<network, list, undefined>>
                         ELSE StopOutside
  /\ UNCHANGED <<thread, failures, stops>>

(* onTimer(): the connection is made, ...                                  *)
Connected ==
  /\ dialog = "connecting" /\ dialog' = "closed" /\ dialogRef' = None
  /\ UNCHANGED directory

(* ... or not for long, and beginDeviceResolve() stops what                *)
(* onServiceQueried() has stopped and deallocated, before it starts over.  *)
StartOver ==
  /\ dialog = "connecting" /\ ~OwnsOperation /\ undefined' = TRUE
  /\ UNCHANGED <<network, list, connection, thread, failures, stops>>

-----------------------------------------------------------------------------
(* The answers, when they come.                                            *)
DialogAnswer(r) ==
  /\ operation[r] \in {Resolve, Host} /\ r \notin dead \cup answered
  /\ answered' = answered \cup {r}
  /\ UNCHANGED <<dead, daemon, present, changes, reported, list, thread,
                 faults, connection>>

(* onServiceResolved(), in the browsing thread: stop, ...                  *)
OnServiceResolved ==
  /\ at = "process" /\ sdRef \in answered /\ operation[sdRef] = Resolve
  /\ Stop(sdRef) /\ at' = "resolved"
  /\ UNCHANGED <<readable, sdRef, service, faults, connection>>

(* ... and query the host's record, or fail to with _sdRef left as it was. *)
QueryHost ==
  /\ at = "resolved"
  /\ \/ \E r \in Ref : Begin(r, Host) /\ dialogRef' = r
     \/ /\ ~daemon \/ Free = {}
        /\ UNCHANGED <<list, dialogRef>>
  /\ Return
  /\ UNCHANGED <<network, faults, dialog>>

(* onServiceQueried(): stop, and connect, with _sdRef left as it is.       *)
OnHostQueried ==
  /\ at = "process" /\ sdRef \in answered /\ operation[sdRef] = Host
  /\ Stop(sdRef) /\ Return
  /\ dialog' = "connecting"
  /\ UNCHANGED <<faults, dialogRef>>

DialogStep == OpenDialog \/ CancelDialog \/ Connected \/ StartOver
DialogCallback == OnServiceResolved \/ QueryHost \/ OnHostQueried

-----------------------------------------------------------------------------
(* run() goes on with an iterator that it has moved on before a callback:  *)
(* meanwhile nothing but the operation called back for is taken off the    *)
(* list (ServiceDiscoveryImpl::run, stop).  The exception is the dialog's, *)
(* which its own thread stops when the user cancels; it may be the one     *)
(* that the iterator is on (ConnectDialog.cpp:163).                        *)
IteratorKept ==
  [][at \notin OwnPlace \ {"process"} =>
       \/ activeRefs \ activeRefs' \subseteq {sdRef}
       \/ /\ dialog # "closed" /\ dialog' = "closed"
          /\ activeRefs \ activeRefs' = {dialogRef}]_activeRefs
=============================================================================
