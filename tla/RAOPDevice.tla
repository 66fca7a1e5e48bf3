----------------------------- MODULE RAOPDevice -----------------------------
(***************************************************************************)
(* The session with one of the remote speakers: class RAOPDevice with its  *)
(* RTSPClient (core/impl/raop), as DeviceManager and RAOPEngine use them.  *)
(*                                                                         *)
(* Two threads call: the "manager", which holds the device manager's mutex *)
(* and opens and closes the device and sets its volume, and the "player",  *)
(* which resets the engine and holds the engine's mutex while the device   *)
(* is flushed.  The client serializes their requests.  The connection      *)
(* keeps requests and answers in order; the remote speakers answer each    *)
(* request, but perhaps after the client has given up waiting.             *)
(*                                                                         *)
(* Another device is open all the time: reinit() has not emptied the       *)
(* engine's list.                                                          *)
(***************************************************************************)
EXTENDS Naturals, Sequences

CONSTANTS
  Modulus,     (* requests are numbered modulo this (2^32)                 *)
  MaxTimeouts, (* a bound: the connection is lost after as many timeouts   *)
  None

Caller == {"manager", "player"}
Number == 0 .. Modulus - 1

ASSUME NoneAssumption     == None \notin Caller
ASSUME TimeoutsAssumption == MaxTimeouts \in Nat
ASSUME NumberAssumption   == Modulus \in Nat /\ Modulus > MaxTimeouts + 1

VARIABLES
  rtspClient,            (* whether the device has a client (not NULL)     *)
  ready,                 (* whether the connection is up                   *)
  messageSequenceNumber, (* of the last response                           *)
  teardownRequired,
  attached,              (* whether the device is on the engine's list     *)
  at,                    (* where each caller is                           *)
  engineMutex,           (* whether the player holds it                    *)
  rtspMutex,             (* the caller that waits for a response, or None  *)
  requests,              (* on their way to the remote speakers            *)
  responses,             (* on their way back                              *)
  lastRequest,           (* history: the last request's place in order     *)
  timeouts,              (* history: requests given up on this connection  *)
  session                (* what the remote speakers have set up           *)

client == <<rtspClient, teardownRequired>>
wire   == <<ready, requests, responses, lastRequest, timeouts, session>>
locks  == <<engineMutex, rtspMutex>>
vars   == <<client, wire, messageSequenceNumber, attached, at, locks>>

Step(number) == (number + 1) % Modulus
IsOpen       == rtspClient /\ ready

(* The places where a caller sends a request, and what it asks for.        *)
Method == [announce |-> "ANNOUNCE", setup |-> "SETUP", record |-> "RECORD",
           volume |-> "SET_PARAMETER", flush |-> "FLUSH",
           teardown |-> "TEARDOWN"]

GoTo(caller, place) == at' = [at EXCEPT ![caller] = place]

Init ==
  /\ rtspClient = FALSE /\ teardownRequired = FALSE
  /\ ready = FALSE /\ requests = <<>> /\ responses = <<>>
  /\ lastRequest = 0 /\ timeouts = 0 /\ session = "none"
  /\ messageSequenceNumber = 0
  /\ attached = FALSE
  /\ at = [caller \in Caller |-> "idle"]
  /\ engineMutex = FALSE /\ rtspMutex = None

-----------------------------------------------------------------------------
(* What a caller does with the outcome of its call: the status of a        *)
(* response, or "exception".  A device whose opening fails keeps its       *)
(* client until the option that activated it is taken back and it is       *)
(* destroyed, which is a Close.                                            *)
Continue(caller, status) ==
  \/ /\ at[caller] \in {"announce", "setup", "record"} /\ status = "ok"
     /\ teardownRequired' = (at[caller] = "record")
     /\ GoTo(caller, [announce |-> "setup", setup |-> "record",
                      record |-> "attach"][at[caller]])
  \/ /\ at[caller] \in {"announce", "setup", "record"} /\ status = "denied"
     /\ GoTo(caller, "announce") \* with a password from the user
     /\ UNCHANGED teardownRequired
  \/ /\ at[caller] \in {"announce", "setup", "record"} /\ status # "ok"
     /\ GoTo(caller, "idle")     \* or without: the user cancels
     /\ UNCHANGED teardownRequired
  \/ /\ at[caller] \in {"volume", "flush"}
     /\ GoTo(caller, [volume |-> "idle", flush |-> "prune"][at[caller]])
     /\ UNCHANGED teardownRequired
  \/ /\ at[caller] = "teardown"
     /\ teardownRequired' = (status = "exception")
     /\ GoTo(caller, "destroy")

(* An answer to another request lacks the headers that SETUP asks for.     *)
Status(caller, response) ==
  IF at[caller] = "setup" /\ response.status = "ok" /\ response.method # "SETUP"
    THEN "error"
    ELSE response.status

BugSendRequest(caller) == \* without the mutex
  /\ at[caller] \in DOMAIN Method /\ ready /\ rtspMutex # caller
  /\ rtspMutex' = caller
  /\ lastRequest' = Step(lastRequest)
  /\ requests' = Append(requests, [order  |-> lastRequest',
                                   cSeq   |-> Step(messageSequenceNumber),
                                   method |-> Method[at[caller]]])
  /\ UNCHANGED <<client, ready, responses, timeouts, session,
                 messageSequenceNumber, attached, at, engineMutex>>

(* sendRequestReceiveResponse() sends under the client's mutex ...         *)
SendRequest(caller) ==
  /\ at[caller] \in DOMAIN Method /\ rtspMutex = None /\ ready
  /\ rtspMutex' = caller
  /\ lastRequest' = Step(lastRequest)
  /\ requests' = Append(requests, [order  |-> lastRequest',
                                   cSeq   |-> Step(messageSequenceNumber),
                                   method |-> Method[at[caller]]])
  /\ UNCHANGED <<client, ready, responses, timeouts, session,
                 messageSequenceNumber, attached, at, engineMutex>>

(* ... and takes the next response for the one to its request.             *)
ReceiveResponse(caller) ==
  /\ rtspMutex = caller /\ responses # <<>>
  /\ responses' = Tail(responses)
  /\ messageSequenceNumber' = Step(messageSequenceNumber)
  /\ rtspMutex' = None
  /\ Continue(caller, Status(caller, Head(responses)))
  /\ UNCHANGED <<rtspClient, ready, requests, lastRequest, timeouts, session,
                 attached, engineMutex>>

Disconnected == /\ ready' = FALSE /\ session' = "none"
                /\ requests' = <<>> /\ responses' = <<>>

(* The connection is lost: sending or receiving throws.                    *)
CallFails(caller) ==
  /\ at[caller] \in DOMAIN Method /\ rtspMutex \in {None, caller} /\ ~ready
  /\ rtspMutex' = None
  /\ Continue(caller, "exception")
  /\ UNCHANGED <<rtspClient, wire, messageSequenceNumber, attached,
                 engineMutex>>

BugTimeOut(caller) == \* no timeout: only a lost connection ends the wait
  rtspMutex = caller /\ CallFails(caller)

(* Ten seconds pass without a response.                                    *)
TimeOut(caller) ==
  /\ rtspMutex = caller /\ ready /\ responses = <<>>
  /\ IF timeouts < MaxTimeouts
       THEN /\ timeouts' = timeouts + 1
            /\ UNCHANGED <<ready, requests, responses, session>>
       ELSE Disconnected /\ UNCHANGED timeouts
  /\ rtspMutex' = None
  /\ Continue(caller, "exception")
  /\ UNCHANGED <<rtspClient, lastRequest, messageSequenceNumber, attached,
                 engineMutex>>

CallStep(caller) ==
  \/ SendRequest(caller) \/ ReceiveResponse(caller)
  \/ TimeOut(caller) \/ CallFails(caller)

-----------------------------------------------------------------------------
(* The remote speakers.                                                    *)
Respond(status) ==
  /\ responses' = Append(responses, [order  |-> Head(requests).order,
                                     cSeq   |-> Head(requests).cSeq,
                                     method |-> Head(requests).method,
                                     status |-> status])
  /\ requests' = Tail(requests)
  /\ UNCHANGED <<client, ready, lastRequest, timeouts, messageSequenceNumber,
                 attached, at, locks>>

Grant(method, from, to) ==
  /\ Head(requests).method = method /\ session \in from
  /\ session' = to
  /\ Respond("ok")

Serve ==
  /\ requests # <<>>
  /\ \/ Grant("ANNOUNCE", {"none", "announced", "ready"}, "announced")
     \/ Grant("SETUP", {"announced"}, "ready")
     \/ Grant("RECORD", {"ready"}, "recording")
     \/ Grant("TEARDOWN", {"none", "announced", "ready", "recording"}, "none")
     \/ /\ Head(requests).method \in {"SET_PARAMETER", "FLUSH"}
        /\ Respond("ok") /\ UNCHANGED session

Refuse(status) ==
  /\ requests # <<>>
  /\ Head(requests).method \in {"ANNOUNCE", "SETUP", "RECORD"}
  /\ Respond(status) /\ UNCHANGED session

ConnectionLost ==
  /\ ready /\ Disconnected
  /\ UNCHANGED <<client, lastRequest, timeouts, messageSequenceNumber,
                 attached, at, locks>>

-----------------------------------------------------------------------------
(* The device manager opens a device that is not open: on a new connection *)
(* it creates a client.  A client that it replaces may still be in use by  *)
(* the player's thread: what that call does is undefined, here it fails.   *)
Open ==
  /\ at["manager"] = "idle" /\ ~IsOpen
  /\ rtspClient' = TRUE /\ teardownRequired' = FALSE
  /\ messageSequenceNumber' = 0
  /\ ready' = TRUE /\ lastRequest' = 0 /\ timeouts' = 0
  /\ rtspMutex' = None
  /\ at' = [at EXCEPT !["manager"] = "announce",
                      !["player"] = IF @ = "flush" THEN "prune" ELSE @]
  /\ UNCHANGED <<requests, responses, session, attached, engineMutex>>

Attach ==
  /\ at["manager"] = "attach" /\ ~engineMutex
  /\ attached' = TRUE
  /\ GoTo("manager", "idle")
  /\ UNCHANGED <<client, wire, messageSequenceNumber, locks>>

(* The volume, the metadata or the progress.                               *)
SetVolume ==
  /\ at["manager"] = "idle" /\ IsOpen
  /\ GoTo("manager", "volume")
  /\ UNCHANGED <<client, wire, messageSequenceNumber, attached, locks>>

(* close(), first half: the client is taken away before detach().          *)
Close ==
  /\ at["manager"] = "idle"
  /\ rtspClient' = FALSE
  /\ GoTo("manager", "detach")
  /\ UNCHANGED <<teardownRequired, wire, messageSequenceNumber, attached,
                 locks>>

(* close(), second half.                                                   *)
BugDetach == \* takes the device off the list and forgets the teardown
  /\ at["manager"] = "detach" /\ ~engineMutex
  /\ attached' = FALSE
  /\ GoTo("manager", "destroy")
  /\ UNCHANGED <<client, wire, messageSequenceNumber, locks>>

Detach ==
  /\ at["manager"] = "detach" /\ ~engineMutex
  /\ attached' = FALSE
  /\ GoTo("manager", IF ready /\ teardownRequired THEN "teardown"
                                                  ELSE "destroy")
  /\ UNCHANGED <<client, wire, messageSequenceNumber, locks>>

DestroyClient ==
  /\ at["manager"] = "destroy"
  /\ Disconnected
  /\ GoTo("manager", "idle")
  /\ UNCHANGED <<client, lastRequest, timeouts, messageSequenceNumber,
                 attached, locks>>

-----------------------------------------------------------------------------
(* The player resets the engine: a device that is open is flushed, and one *)
(* that is not is taken off the list.                                      *)
Reset ==
  /\ at["player"] = "idle" /\ ~engineMutex
  /\ engineMutex' = TRUE
  /\ GoTo("player", IF attached /\ IsOpen THEN "isOpen" ELSE "prune")
  /\ UNCHANGED <<client, wire, messageSequenceNumber, attached, rtspMutex>>

(* RAOPDevice::flush().  What it does without a client is undefined, here  *)
(* it fails.                                                               *)
Flush ==
  /\ at["player"] = "isOpen"
  /\ GoTo("player", IF rtspClient THEN "flush" ELSE "prune")
  /\ UNCHANGED <<client, wire, messageSequenceNumber, attached, locks>>

BugPrune == \* keeps the mutex when the device is not open any more
  /\ at["player"] = "prune"
  /\ attached' = (attached /\ IsOpen)
  /\ engineMutex' = (attached # attached')
  /\ GoTo("player", "idle")
  /\ UNCHANGED <<client, wire, messageSequenceNumber, rtspMutex>>

Prune ==
  /\ at["player"] = "prune"
  /\ attached' = (attached /\ IsOpen)
  /\ engineMutex' = FALSE
  /\ GoTo("player", "idle")
  /\ UNCHANGED <<client, wire, messageSequenceNumber, rtspMutex>>

-----------------------------------------------------------------------------
ManagerStep == CallStep("manager") \/ Attach \/ Detach \/ DestroyClient
PlayerStep  == CallStep("player") \/ Flush \/ Prune

Next ==
  \/ ManagerStep \/ Open \/ SetVolume \/ Close
  \/ PlayerStep \/ Reset
  \/ Serve \/ Refuse("denied") \/ Refuse("error")
  \/ ConnectionLost

Spec == Init /\ [][Next]_vars

(* Threads are scheduled, and whoever waits for a mutex gets it in the     *)
(* end; nobody has to begin an operation, and nobody has to answer.        *)
FairSpec == Spec /\ SF_vars(ManagerStep) /\ SF_vars(PlayerStep)

-----------------------------------------------------------------------------
Place == DOMAIN Method \cup {"idle", "attach", "detach", "destroy", "isOpen",
                            "prune"}

(* Everything has its type, and each mutex is held exactly in the calls    *)
(* that take it: the engine's by the player from reset() to the pruning of *)
(* the list, the client's by a caller that has sent a request              *)
(* (RAOPEngine::reset, RTSPClientImpl::sendRequestReceiveResponse).        *)
Inv ==
  /\ {rtspClient, ready, teardownRequired, attached} \subseteq BOOLEAN
  /\ {messageSequenceNumber, lastRequest} \subseteq Number
  /\ timeouts \in 0 .. MaxTimeouts
  /\ session \in {"none", "announced", "ready", "recording"}
  /\ at \in [Caller -> Place]
  /\ engineMutex = (at["player"] # "idle")
  /\ rtspMutex # None => at[rtspMutex] \in DOMAIN Method

Underway == responses \o requests

(* Requests and answers stay in step (sendRequestReceiveResponse): what is *)
(* under way are the last requests in their order, as many as were given   *)
(* up and the one that is waited for.  So as long as none was given up an  *)
(* answer is the answer to the caller's own request, whoever calls, and    *)
(* has its number; later answers are late by as many requests.             *)
AnswersInStep ==
  ready =>
    /\ Len(Underway) = timeouts + IF rtspMutex = None THEN 0 ELSE 1
    /\ \A i \in DOMAIN Underway :
         (Underway[i].order + Len(Underway) - i) % Modulus = lastRequest
    /\ timeouts = 0 =>
         \A i \in DOMAIN Underway :
           Underway[i].cSeq = Step(messageSequenceNumber)

(* What the client believes of its session is what the remote speakers     *)
(* have set up (doRecord, doTeardown, close), unless the connection is     *)
(* lost or a request was given up: a device is attached with a session     *)
(* that records, and no connection is closed on one without a TEARDOWN.    *)
(* In any case a device that is open with a session stays on the engine's  *)
(* list, although the player takes dead devices off it at any moment of a  *)
(* reopening (open, RAOPEngine::reset).                                    *)
SessionKnown ==
  /\ ready /\ timeouts = 0 =>
       /\ session = "recording" => teardownRequired \/ at["manager"] = "record"
       /\ teardownRequired => session = "recording" \/ at["manager"] = "teardown"
       /\ at["manager"] = "attach" => session = "recording"
       /\ at["manager"] = "destroy" => session # "recording"
  /\ IsOpen /\ teardownRequired => attached \/ at["manager"] = "attach"

(* Calls return, although the manager waits for the engine's mutex that    *)
(* the player holds while it flushes, and each waits behind the other's    *)
(* requests for answers that need not come: resetting the engine and       *)
(* closing the device always, opening it unless the remote speakers refuse *)
(* for ever (RAOPEngine::reset, RAOPDevice::open and close, the timeouts   *)
(* of RTSPClientImpl).                                                     *)
Returns(caller, places) == at[caller] \in places ~> at[caller] = "idle"
RefusedForEver == []<><<Refuse("denied") \/ Refuse("error")>>_vars

CallsReturn ==
  /\ Returns("player", Place \ {"idle"})
  /\ Returns("manager", {"volume", "detach", "teardown", "destroy"})
  /\ RefusedForEver \/ Returns("manager", Place \ {"idle"})

(* RAOPDevice.cpp:276, first half of the assertion: a device that is open  *)
(* still has its client when it is flushed.                                *)
FlushFindsClient == at["player"] = "isOpen" => rtspClient

(* RTSPClient.cpp:795: a response has the number of its request.           *)
ResponseNumbered ==
  rtspMutex # None /\ responses # <<>> =>
    Head(responses).cSeq = Step(messageSequenceNumber)

=============================================================================
