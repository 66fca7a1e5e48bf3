-------------------------- MODULE ServiceDiscovery --------------------------
(***************************************************************************)
(* Operations on the network's service directory: class ServiceDiscovery   *)
(* (core/impl/ServiceDiscovery.cpp) over the Bonjour library.              *)
(*                                                                         *)
(* An operation (browse for services, query a service's record) belongs to *)
(* a reference of the library.  start() puts it on a list; the browsing    *)
(* thread waits for results of those on the list and calls their listeners *)
(* back, with the list's mutex released.  A step below is one critical     *)
(* section of that mutex, or what happens between two.  In which order the *)
(* operations with results are served is left open.                        *)
(*                                                                         *)
(* Other threads start and stop operations too.  Where they make the       *)
(* browsing thread use what has been deallocated, what the program does is *)
(* undefined, and the model ends.                                          *)
(*                                                                         *)
(* The daemon may go away and come back, and operations may fail.          *)
(***************************************************************************)
EXTENDS Naturals, FiniteSets

CONSTANTS
  Ref,        (* DNSServiceRef: what the library can allocate              *)
  Service,    (* the services there may be                                 *)
  Browse,     (* the operation that browses; one that queries is a service *)
  MaxFaults,  (* a bound: how much may go wrong                            *)
  MaxChanges, (* a bound: how often services come and go                   *)
  None

ASSUME BrowseAssumption  == Browse \notin Service
ASSUME BoundsAssumption  == MaxFaults \in Nat \ {0} /\ MaxChanges \in Nat
ASSUME NoneAssumption    == None \notin Ref \cup Service \cup {Browse}

VARIABLES
  operation,  (* external: what is allocated under each reference, or None *)
  answered,   (* external: queries whose answer waits at their socket      *)
  dead,       (* external: references whose daemon has gone                *)
  daemon,     (* external: whether a daemon runs                           *)
  present,    (* external: the services on the network ...                 *)
  changes,    (* ... and how often they have come and gone                 *)
  reported,   (* external: those the browse operation has reported         *)
  activeRefs, (* the list of started operations                            *)
  readable,   (* those with results that this pass has still to visit      *)
  sdRef,      (* the one whose results are processed, or None              *)
  service,    (* the callback's argument: which service it is about        *)
  at,         (* where the browsing thread is                              *)
  failures,   (* history: how many operations have failed, ...             *)
  stops,      (* ... and how often the daemon has gone                     *)
  abandoned,  (* history: references put on the list by a start() that     *)
              (* threw, and deallocated                                    *)
  undefined   (* whether what the program does is undefined from now on    *)

network    == <<answered, dead, daemon, present, changes, reported>>
list       == <<operation, activeRefs, abandoned>>
thread     == <<readable, sdRef, service, at>>
faults     == <<failures, stops, undefined>>
directory  == <<network, list, thread, faults>>

(* The thread's places outside of callbacks: it does not run, is between   *)
(* two turns, processes a result, or is back with what the library said;   *)
(* it has found the list empty but has not ended yet.                      *)
OwnPlace == {"none", "turn", "process", "gone", "failed", "leaving"}

InitDirectory ==
  /\ operation = [r \in Ref |-> None] /\ activeRefs = {} /\ abandoned = {}
  /\ answered = {} /\ dead = {} /\ daemon = TRUE /\ present = {}
  /\ changes = 0 /\ reported = {}
  /\ readable = {} /\ sdRef = None /\ service = None /\ at = "none"
  /\ failures = 0 /\ stops = 0 /\ undefined = FALSE

Free      == {r \in Ref : operation[r] = None}
News      == (present \ reported) \cup (reported \ present)
HasResult(r) == \/ r \in dead \cup answered
                \/ operation[r] = Browse /\ News # {}

(* A bound on what may go wrong.                                           *)
MayFail == failures + stops < MaxFaults

isRunning(r) == r \in activeRefs

(* browseServices() or queryService(), if they succeed, and start().       *)
Begin(r, what) ==
  /\ daemon /\ r \in Free
  /\ operation' = [operation EXCEPT ![r] = what]
  /\ activeRefs' = activeRefs \cup {r} /\ abandoned' = abandoned \ {r}

(* start() in another thread starts the browsing thread, unless it runs    *)
(* or has not ended yet.                                                   *)
StartThread == at' = IF at = "none" THEN "turn" ELSE at

(* There is no thread to be had: the reference stays on the list, and the  *)
(* operation is deallocated.                                               *)
StartThrows(r) ==
  /\ daemon /\ r \in Free
  /\ at = "none" /\ MayFail /\ failures' = failures + 1
  /\ activeRefs' = activeRefs \cup {r} /\ abandoned' = abandoned \cup {r}
  /\ UNCHANGED <<operation, at>>

(* stop(): the operation is taken off the list and deallocated.            *)
Stop(r) ==
  /\ operation' = [operation EXCEPT ![r] = None]
  /\ activeRefs' = activeRefs \ {r} /\ abandoned' = abandoned \ {r}
  /\ answered' = answered \ {r} /\ dead' = dead \ {r}
  /\ UNCHANGED <<daemon, present, changes, reported>>

-----------------------------------------------------------------------------
(* The browsing thread goes on with the pass over the list.                *)
Visit(set) ==
  /\ service' = None
  /\ \/ set = {} /\ readable' = {} /\ sdRef' = None /\ at' = "turn"
     \/ \E r \in set :
          readable' = set \ {r} /\ sdRef' = r /\ at' = "process"

(* One turn of run(): find the operations with results, or leave.  It asks *)
(* for the socket of each reference on the list, ...                       *)
Turn ==
  /\ at = "turn" /\ activeRefs \cap Free = {}
  /\ \E r \in activeRefs : HasResult(r)
  /\ Visit({r \in activeRefs : HasResult(r)})
  /\ UNCHANGED <<network, list, faults>>

(* ... also of one that was deallocated.                                   *)
TurnAstray ==
  /\ at = "turn" /\ activeRefs \cap Free # {} /\ undefined' = TRUE
  /\ UNCHANGED <<network, list, thread, failures, stops>>

Leave ==
  /\ at = "turn" /\ activeRefs = {} /\ at' = "leaving"
  /\ UNCHANGED <<network, list, readable, sdRef, service, faults>>

ThreadEnds ==
  /\ at = "leaving" /\ at' = "none"
  /\ UNCHANGED <<network, list, readable, sdRef, service, faults>>

(* processResult(), without the mutex: the listener of the operation that  *)
(* browses is called back, ...                                             *)
Report(s) ==
  /\ at = "process" /\ operation[sdRef] = Browse /\ s \in News
  /\ service' = s
  /\ IF s \in present
       THEN at' = "found" /\ reported' = reported \cup {s}
       ELSE at' = "lost"  /\ reported' = reported \ {s}
  /\ UNCHANGED <<answered, dead, daemon, present, changes, list, readable,
                 sdRef, faults>>

(* ... after which, with the mutex, it goes on with the pass, ...          *)
Return == Visit(readable \cap activeRefs)

(* ... or none, because there was no result after all, ...                 *)
NoResult ==
  /\ at = "process" /\ ~HasResult(sdRef)
  /\ Return
  /\ UNCHANGED <<network, list, faults>>

(* ... the daemon has gone, ...                                            *)
DaemonGone ==
  /\ at = "process" /\ sdRef \in dead
  /\ at' = "gone"
  /\ UNCHANGED <<network, list, readable, sdRef, service, faults>>

(* ... or the operation has failed.                                        *)
OperationFails ==
  /\ at = "process" /\ sdRef \notin dead /\ MayFail
  /\ at' = "failed" /\ failures' = failures + 1
  /\ UNCHANGED <<network, list, readable, sdRef, service, stops, undefined>>

BugContinueGone == \* deallocates the operation and leaves it on the list
  /\ at = "gone" /\ Visit({})
  /\ operation' = [operation EXCEPT ![sdRef] = None]
  /\ dead' = dead \ {sdRef}
  /\ UNCHANGED <<answered, daemon, present, changes, reported, activeRefs,
                 abandoned, faults>>

(* Without the daemon the list is emptied, and nothing is deallocated.     *)
ContinueGone ==
  /\ at = "gone" /\ Visit({})
  /\ activeRefs' = {} /\ abandoned' = {}
  /\ UNCHANGED <<network, operation, faults>>

(* An operation that has failed is stopped.                                *)
ContinueFailed ==
  /\ at = "failed" /\ Stop(sdRef) /\ Return
  /\ UNCHANGED faults

-----------------------------------------------------------------------------
(* The network and the daemon.  A query is answered while its service is   *)
(* there; the answer may be read when it has gone.                         *)
Appear(s) ==
  /\ s \notin present /\ present' = present \cup {s}
  /\ changes < MaxChanges /\ changes' = changes + 1
  /\ UNCHANGED <<answered, dead, daemon, reported, list, thread, faults>>

Disappear(s) ==
  /\ s \in present /\ present' = present \ {s}
  /\ changes < MaxChanges /\ changes' = changes + 1
  /\ UNCHANGED <<answered, dead, daemon, reported, list, thread, faults>>

Answer(r) ==
  /\ operation[r] \in present /\ r \notin dead \cup answered
  /\ answered' = answered \cup {r}
  /\ UNCHANGED <<dead, daemon, present, changes, reported, list, thread,
                 faults>>

DaemonStops ==
  /\ daemon /\ MayFail
  /\ daemon' = FALSE /\ dead' = Ref \ Free /\ stops' = stops + 1
  /\ UNCHANGED <<answered, present, changes, reported, list, thread, failures,
                 undefined>>

DaemonStarts ==
  /\ ~daemon
  /\ daemon' = TRUE
  /\ UNCHANGED <<answered, dead, present, changes, reported, list, thread,
                 faults>>

-----------------------------------------------------------------------------
(* Every operation that is on the list is allocated, so that run() asks    *)
(* for no socket that is gone, and only the loss of the daemon leaks one.  *)
(* The exception is a start() that throws behind the push_back(): its      *)
(* caller deallocates what is on the list from then on                     *)
(* (ServiceDiscovery::start, ServiceDiscoveryImpl::start, stop and run).   *)
OperationsOwned ==
  /\ activeRefs \cap Free \subseteq abandoned
  /\ stops = 0 => Ref \ Free \subseteq activeRefs
=============================================================================
