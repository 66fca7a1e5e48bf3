-------------------------- MODULE RAOPDeviceProofs --------------------------
(***************************************************************************)
(* The invariants of RAOPDevice hold for every number of timeouts that a   *)
(* connection survives, and for every width of the requests' numbers.      *)
(*                                                                         *)
(* That the client knows its session follows from what it takes an answer  *)
(* for: as long as no request was given up, the only one under way is the  *)
(* one of the caller that holds the client's mutex.                        *)
(*                                                                         *)
(* The last theorems say that the two callers never wait for each other,   *)
(* and which is the only way to each of the two assertions that fail.      *)
(***************************************************************************)
EXTENDS RAOPDevice, TLAPS

Request ==
  [order : Number, cSeq : Number,
   method : {"ANNOUNCE", "SETUP", "RECORD", "SET_PARAMETER", "FLUSH",
             "TEARDOWN"}]

Response ==
  [order : Number, cSeq : Number,
   method : {"ANNOUNCE", "SETUP", "RECORD", "SET_PARAMETER", "FLUSH",
             "TEARDOWN"},
   status : {"ok", "denied", "error"}]

Types ==
  /\ rtspClient \in BOOLEAN /\ ready \in BOOLEAN
  /\ teardownRequired \in BOOLEAN /\ attached \in BOOLEAN
  /\ engineMutex \in BOOLEAN
  /\ messageSequenceNumber \in Number /\ lastRequest \in Number
  /\ timeouts \in 0 .. MaxTimeouts
  /\ session \in {"none", "announced", "ready", "recording"}
  /\ at \in [Caller -> {"announce", "setup", "record", "volume", "flush",
                        "teardown", "idle", "attach", "detach", "destroy",
                        "isOpen", "prune"}]
  /\ engineMutex <=> at["player"] # "idle"
  /\ rtspMutex = "manager" => at["manager"] \in {"announce", "setup", "record",
                                                 "volume", "teardown"}
  /\ rtspMutex = "player" => at["player"] = "flush"
  /\ requests \in Seq(Request) /\ responses \in Seq(Response)
  /\ at["manager"] \notin {"flush", "isOpen", "prune"}
  /\ at["player"] \in {"idle", "isOpen", "flush", "prune"}
  /\ rtspMutex \in Caller \cup {None}

(* Nothing is under way without a connection, and a connection without a   *)
(* client is about to be closed.                                           *)
Connected ==
  /\ ~ready => requests = <<>> /\ responses = <<>> /\ session = "none"
  /\ ready /\ ~rtspClient => at["manager"] \in {"detach", "teardown", "destroy"}

(* AnswersInStep, for requests and responses by themselves.                *)
Ordered ==
  ready =>
    /\ Len(responses) + Len(requests)
         = timeouts + IF rtspMutex = None THEN 0 ELSE 1
    /\ \A i \in 1 .. Len(responses) :
         (responses[i].order + (Len(responses) - i) + Len(requests)) % Modulus
           = lastRequest
    /\ \A i \in 1 .. Len(requests) :
         (requests[i].order + (Len(requests) - i)) % Modulus = lastRequest

Matched ==
  ready /\ timeouts = 0 =>
    /\ \A i \in 1 .. Len(responses) :
         responses[i].cSeq = Step(messageSequenceNumber)
    /\ \A i \in 1 .. Len(requests) :
         /\ requests[i].cSeq = Step(messageSequenceNumber)
         /\ requests[i].method = Method[at[rtspMutex]]

(* What the manager knows of the session at each place.                    *)
Granted == /\ rtspMutex = "manager" /\ responses # <<>>
           /\ Head(responses).status = "ok"

Known ==
  ready /\ timeouts = 0 =>
    /\ at["manager"] \in {"announce", "setup", "record"} => ~teardownRequired
    /\ at["manager"] \in {"announce", "setup"} => session # "recording"
    /\ at["manager"] = "record" => (session = "recording" <=> Granted)
    /\ at["manager"] = "attach" => session = "recording" /\ teardownRequired
    /\ at["manager"] \in {"idle", "volume", "detach"} =>
         (session = "recording" <=> teardownRequired)
    /\ at["manager"] = "teardown" =>
         /\ teardownRequired
         /\ session = "recording" \/ (rtspMutex = "manager" /\ responses # <<>>)
         /\ rtspMutex = "manager" /\ responses # <<>> => session # "recording"
    /\ at["manager"] = "destroy" => session # "recording" /\ ~teardownRequired

IInv == Types /\ Connected /\ Ordered /\ Matched /\ Known

USE NoneAssumption, TimeoutsAssumption, NumberAssumption DEF Caller

-----------------------------------------------------------------------------
(* Numbers wrap once at most over the requests that may be under way, and  *)
(* then counting on agrees with counting at once.                          *)
LEMMA Wrap ==
  ASSUME NEW i \in Number, NEW k \in 0 .. MaxTimeouts + 1
  PROVE  /\ (i + k) % Modulus =
              IF i + k < Modulus THEN i + k ELSE i + k - Modulus
         /\ (i + k) % Modulus \in Number
<1>1. (i + k) % Modulus = IF i + k < Modulus THEN i + k ELSE i + k - Modulus
  BY SMT DEF Number
<1> QED BY <1>1 DEF Number

LEMMA StepOfSum ==
  ASSUME NEW order \in Number, NEW later \in 0 .. MaxTimeouts
  PROVE  /\ Step((order + later) % Modulus) = (order + (later + 1)) % Modulus
         /\ Step((order + later) % Modulus) \in Number
<1> DEFINE number == (order + later) % Modulus
           next == (order + (later + 1)) % Modulus
<1>1. /\ later \in 0 .. MaxTimeouts + 1 /\ later + 1 \in 0 .. MaxTimeouts + 1
      /\ 1 \in 0 .. MaxTimeouts + 1
  OBVIOUS
<1>2. /\ number \in Number /\ next \in Number
      /\ number = IF order + later < Modulus THEN order + later
                                             ELSE order + later - Modulus
      /\ next = IF order + (later + 1) < Modulus
                  THEN order + (later + 1) ELSE order + (later + 1) - Modulus
  BY <1>1, Wrap
<1> HIDE DEF number, next
<1>3. (number + 1) % Modulus =
        IF number + 1 < Modulus THEN number + 1 ELSE number + 1 - Modulus
  BY <1>1, <1>2, Wrap
<1>4. (number + 1) % Modulus = next
  BY <1>1, <1>2, <1>3 DEF Number
<1> QED BY <1>2, <1>4 DEF Step, number, next

LEMMA StepIsNumber ==
  ASSUME NEW n \in Number
  PROVE  Step(n) \in Number /\ n % Modulus = n
<1>1. 0 \in 0 .. MaxTimeouts + 1 /\ 1 \in 0 .. MaxTimeouts + 1 /\ n + 0 = n
  BY DEF Number
<1>2. n % Modulus = (n + 0) % Modulus /\ n + 0 < Modulus
  BY <1>1 DEF Number
<1>3. n % Modulus = n
  BY <1>1, <1>2, Wrap
<1>4. (n + 1) % Modulus \in Number
  BY <1>1, Wrap
<1> QED BY <1>3, <1>4 DEF Step

LEMMA InitIInv == Init => IInv
<1> SUFFICES ASSUME Init PROVE IInv
  OBVIOUS
<1> USE DEF Init
<1>1. 0 \in Number /\ 0 \in 0 .. MaxTimeouts
  BY DEF Number
<1>2. Types
  <2>1. at \in [Caller -> {"idle"}]
    OBVIOUS
  <2>2. /\ at["manager"] = "idle" /\ at["player"] = "idle"
        /\ at \in [Caller -> {"announce", "setup", "record", "volume", "flush",
                              "teardown", "idle", "attach", "detach",
                              "destroy", "isOpen", "prune"}]
    BY <2>1
  <2>3. requests \in Seq(Request) /\ responses \in Seq(Response)
    OBVIOUS
  <2>4. /\ rtspClient \in BOOLEAN /\ ready \in BOOLEAN
        /\ teardownRequired \in BOOLEAN /\ attached \in BOOLEAN
        /\ engineMutex \in BOOLEAN
    OBVIOUS
  <2>5. /\ messageSequenceNumber \in Number /\ lastRequest \in Number
        /\ timeouts \in 0 .. MaxTimeouts
    BY <1>1
  <2>6. /\ session \in {"none", "announced", "ready", "recording"}
        /\ engineMutex <=> at["player"] # "idle"
        /\ rtspMutex = None
    BY <2>2
  <2> HIDE DEF Init
  <2> QED BY <2>2, <2>3, <2>4, <2>5, <2>6 DEF Types
<1>3. Connected /\ Ordered /\ Matched /\ Known
  BY DEF Connected, Ordered, Matched, Known
<1> QED BY <1>2, <1>3 DEF IInv

LEMMA EmptySequences == <<>> \in Seq(Request) /\ <<>> \in Seq(Response)
OBVIOUS

LEMMA OpenKeepsIInv ==
  ASSUME IInv, Open
  PROVE  IInv'
<1> USE DEF Open, GoTo, client, wire, locks, IsOpen
<1>1. Types'
  <2>1. /\ rtspClient' \in BOOLEAN /\ ready' \in BOOLEAN
        /\ teardownRequired' \in BOOLEAN
        /\ attached' \in BOOLEAN /\ engineMutex' \in BOOLEAN
    BY DEF IInv, Types
  <2>2. 0 \in Number /\ 0 \in 0 .. MaxTimeouts
    BY DEF Number
  <2>3. /\ messageSequenceNumber' \in Number /\ lastRequest' \in Number
        /\ timeouts' \in 0 .. MaxTimeouts
        /\ session' \in {"none", "announced", "ready", "recording"}
        /\ requests' \in Seq(Request) /\ responses' \in Seq(Response)
    BY <2>2 DEF IInv, Types
  <2>4. /\ at' \in [Caller -> {"announce", "setup", "record", "volume",
                               "flush", "teardown", "idle", "attach",
                               "detach", "destroy", "isOpen", "prune"}]
        /\ at'["manager"] = "announce"
        /\ at'["player"] \in {"idle", "isOpen", "prune"}
        /\ at'["player"] = "idle" <=> at["player"] = "idle"
        /\ rtspMutex' = None
    BY DEF IInv, Types
  <2>5. engineMutex' <=> at'["player"] # "idle"
    BY <2>4 DEF IInv, Types
  <2> HIDE DEF Open
  <2> QED BY <2>1, <2>3, <2>4, <2>5 DEF Types
<1>2. Connected' /\ Ordered'
  BY DEF IInv, Types, Connected, Ordered
<1>3. Matched'
  BY DEF IInv, Types, Connected, Ordered, Matched, Method
<1>4. Known'
  BY DEF IInv, Types, Connected, Ordered, Known, Granted
<1> QED BY <1>1, <1>2, <1>3, <1>4 DEF IInv

LEMMA AttachKeepsIInv ==
  ASSUME IInv, Attach
  PROVE  IInv'
<1> USE DEF Attach, GoTo, client, wire, locks, IsOpen
<1>1. Types'
  BY DEF IInv, Types
<1>2. Connected' /\ Ordered'
  BY DEF IInv, Types, Connected, Ordered
<1>3. Matched'
  BY DEF IInv, Types, Connected, Ordered, Matched, Method
<1>4. Known'
  BY DEF IInv, Types, Connected, Ordered, Known, Granted
<1> QED BY <1>1, <1>2, <1>3, <1>4 DEF IInv

LEMMA SetVolumeKeepsIInv ==
  ASSUME IInv, SetVolume
  PROVE  IInv'
<1> USE DEF SetVolume, GoTo, client, wire, locks, IsOpen
<1>1. Types'
  BY DEF IInv, Types
<1>2. Connected' /\ Ordered'
  BY DEF IInv, Types, Connected, Ordered
<1>3. Matched'
  BY DEF IInv, Types, Connected, Ordered, Matched, Method
<1>4. Known'
  BY DEF IInv, Types, Connected, Ordered, Known, Granted
<1> QED BY <1>1, <1>2, <1>3, <1>4 DEF IInv

LEMMA CloseKeepsIInv ==
  ASSUME IInv, Close
  PROVE  IInv'
<1> USE DEF Close, GoTo, client, wire, locks, IsOpen
<1>1. Types'
  BY DEF IInv, Types
<1>2. Connected' /\ Ordered'
  BY DEF IInv, Types, Connected, Ordered
<1>3. Matched'
  BY DEF IInv, Types, Connected, Ordered, Matched, Method
<1>4. Known'
  BY DEF IInv, Types, Connected, Ordered, Known, Granted
<1> QED BY <1>1, <1>2, <1>3, <1>4 DEF IInv

LEMMA DetachKeepsIInv ==
  ASSUME IInv, Detach
  PROVE  IInv'
<1> USE DEF Detach, GoTo, client, wire, locks, IsOpen
<1>1. Types'
  BY DEF IInv, Types
<1>2. Connected' /\ Ordered'
  BY DEF IInv, Types, Connected, Ordered
<1>3. Matched'
  BY DEF IInv, Types, Connected, Ordered, Matched, Method
<1>4. Known'
  BY DEF IInv, Types, Connected, Ordered, Known, Granted
<1> QED BY <1>1, <1>2, <1>3, <1>4 DEF IInv

LEMMA DestroyClientKeepsIInv ==
  ASSUME IInv, DestroyClient
  PROVE  IInv'
<1> USE DEF DestroyClient, GoTo, client, wire, locks, Disconnected, IsOpen
<1>1. Types'
  BY EmptySequences DEF IInv, Types
<1>2. Connected' /\ Ordered'
  BY DEF IInv, Types, Connected, Ordered
<1>3. Matched'
  BY DEF IInv, Types, Connected, Ordered, Matched, Method
<1>4. Known'
  BY DEF IInv, Types, Connected, Ordered, Known, Granted
<1> QED BY <1>1, <1>2, <1>3, <1>4 DEF IInv

LEMMA ResetKeepsIInv ==
  ASSUME IInv, Reset
  PROVE  IInv'
<1> USE DEF Reset, GoTo, client, wire, locks, IsOpen
<1>1. Types'
  BY DEF IInv, Types
<1>2. Connected' /\ Ordered'
  BY DEF IInv, Types, Connected, Ordered
<1>3. Matched'
  BY DEF IInv, Types, Connected, Ordered, Matched, Method
<1>4. Known'
  BY DEF IInv, Types, Connected, Ordered, Known, Granted
<1> QED BY <1>1, <1>2, <1>3, <1>4 DEF IInv

LEMMA FlushKeepsIInv ==
  ASSUME IInv, Flush
  PROVE  IInv'
<1> USE DEF Flush, GoTo, client, wire, locks, IsOpen
<1>1. Types'
  BY DEF IInv, Types
<1>2. Connected' /\ Ordered'
  BY DEF IInv, Types, Connected, Ordered
<1>3. Matched'
  BY DEF IInv, Types, Connected, Ordered, Matched, Method
<1>4. Known'
  BY DEF IInv, Types, Connected, Ordered, Known, Granted
<1> QED BY <1>1, <1>2, <1>3, <1>4 DEF IInv

LEMMA PruneKeepsIInv ==
  ASSUME IInv, Prune
  PROVE  IInv'
<1> USE DEF Prune, GoTo, client, wire, locks, IsOpen
<1>1. Types'
  BY DEF IInv, Types
<1>2. Connected' /\ Ordered'
  BY DEF IInv, Types, Connected, Ordered
<1>3. Matched'
  BY DEF IInv, Types, Connected, Ordered, Matched, Method
<1>4. Known'
  BY DEF IInv, Types, Connected, Ordered, Known, Granted
<1> QED BY <1>1, <1>2, <1>3, <1>4 DEF IInv

LEMMA ConnectionLostKeepsIInv ==
  ASSUME IInv, ConnectionLost
  PROVE  IInv'
<1> USE DEF ConnectionLost, GoTo, client, wire, locks, Disconnected, IsOpen
<1>1. Types'
  BY EmptySequences DEF IInv, Types
<1>2. Connected' /\ Ordered'
  BY DEF IInv, Types, Connected, Ordered
<1>3. Matched'
  BY DEF IInv, Types, Connected, Ordered, Matched, Method
<1>4. Known'
  BY DEF IInv, Types, Connected, Ordered, Known, Granted
<1> QED BY <1>1, <1>2, <1>3, <1>4 DEF IInv

-----------------------------------------------------------------------------
(* The remote speakers answer: the first request becomes the last answer.  *)
LEMMA RespondMoves ==
  ASSUME Types, requests # <<>>, NEW status \in {"ok", "denied", "error"},
         Respond(status)
  PROVE  /\ requests' \in Seq(Request) /\ responses' \in Seq(Response)
         /\ Len(requests) >= 1
         /\ Len(requests') = Len(requests) - 1
         /\ Len(responses') = Len(responses) + 1
         /\ \A i \in 1 .. Len(requests') : requests'[i] = requests[i + 1]
         /\ \A i \in 1 .. Len(responses) : responses'[i] = responses[i]
         /\ Head(requests) = requests[1]
         /\ responses'[Len(responses')] =
              [order |-> requests[1].order, cSeq |-> requests[1].cSeq,
               method |-> requests[1].method, status |-> status]
<1> DEFINE answer == [order |-> requests[1].order, cSeq |-> requests[1].cSeq,
                      method |-> requests[1].method, status |-> status]
<1>1. /\ Len(requests) \in Nat /\ Len(requests) >= 1
      /\ Head(requests) = requests[1] /\ requests[1] \in Request
  BY DEF Types
<1>2. answer \in Response
  BY <1>1 DEF Request, Response
<1>3. requests' = Tail(requests) /\ responses' = Append(responses, answer)
  BY <1>1 DEF Respond
<1> HIDE DEF answer
<1>4. /\ requests' \in Seq(Request) /\ Len(requests') = Len(requests) - 1
      /\ \A i \in 1 .. Len(requests') : requests'[i] = requests[i + 1]
  BY <1>1, <1>3 DEF Types
<1>5. /\ responses' \in Seq(Response) /\ Len(responses') = Len(responses) + 1
      /\ \A i \in 1 .. Len(responses) : responses'[i] = responses[i]
      /\ responses'[Len(responses')] = answer
  BY <1>2, <1>3 DEF Types
<1> QED BY <1>1, <1>4, <1>5 DEF answer

LEMMA RespondKeepsOrder ==
  ASSUME IInv, requests # <<>>, NEW status \in {"ok", "denied", "error"},
         Respond(status)
  PROVE  Connected' /\ Ordered' /\ Matched'
<1>0. Types /\ Connected /\ Ordered /\ Matched
  BY DEF IInv
<1>1. Types /\ ready
  BY <1>0 DEF Connected
<1>2. /\ UNCHANGED <<client, ready, lastRequest, timeouts, messageSequenceNumber,
                     attached, at, locks>>
      /\ Len(requests) \in Nat /\ Len(responses) \in Nat
  BY <1>1 DEF Respond, Types
<1>moved.
      /\ requests' \in Seq(Request) /\ responses' \in Seq(Response)
      /\ Len(requests) >= 1
      /\ Len(requests') = Len(requests) - 1
      /\ Len(responses') = Len(responses) + 1
      /\ \A i \in 1 .. Len(requests') : requests'[i] = requests[i + 1]
      /\ \A i \in 1 .. Len(responses) : responses'[i] = responses[i]
      /\ responses'[Len(responses')].order = requests[1].order
      /\ responses'[Len(responses')].cSeq = requests[1].cSeq
  BY <1>1, RespondMoves
<1>3. Connected'
  BY <1>1, <1>2, <1>0 DEF Connected, client
<1>4. Ordered'
  <2>1. Len(responses') + Len(requests') = Len(responses) + Len(requests)
    BY <1>1, <1>2, <1>moved
  <2>2. ASSUME NEW i \in 1 .. Len(responses')
        PROVE  (responses'[i].order + (Len(responses') - i) + Len(requests'))
                 % Modulus = lastRequest
    <3>1. CASE i \in 1 .. Len(responses)
      <4>1. responses[i] \in Response /\ responses'[i] = responses[i]
        BY <1>1, <3>1, <1>moved DEF Types
      <4>5. responses[i].order \in Nat
        BY <4>1 DEF Response, Number
      <4>2. responses'[i].order + (Len(responses') - i) + Len(requests')
              = responses[i].order + (Len(responses) - i) + Len(requests)
        <5> DEFINE order == responses[i].order
                   before == Len(responses)
                   after == Len(requests)
        <5>1. /\ order \in Nat /\ before \in Nat /\ after \in Nat
              /\ i \in 1 .. before
          BY <1>2, <3>1, <4>5
        <5>2. /\ responses'[i].order = order /\ Len(responses') = before + 1
              /\ Len(requests') = after - 1
          BY <4>1, <1>moved
        <5> HIDE DEF order, before, after
        <5>3. order + ((before + 1) - i) + (after - 1)
                = order + (before - i) + after
          BY <5>1
        <5> QED BY <5>2, <5>3 DEF order, before, after
      <4> QED BY <1>0, <1>1, <3>1, <4>2 DEF Ordered
    <3>2. CASE i = Len(responses')
      <4>1. /\ 1 \in 1 .. Len(requests) /\ requests[1] \in Request
            /\ responses'[i].order = requests[1].order
        BY <1>1, <1>2, <3>2, <1>moved DEF Types
      <4>5. requests[1].order \in Nat
        BY <4>1 DEF Request, Number
      <4>2. responses'[i].order + (Len(responses') - i) + Len(requests')
              = requests[1].order + (Len(requests) - 1)
        BY <1>2, <3>2, <4>1, <4>5, <1>moved
      <4> QED BY <1>0, <1>1, <4>1, <4>2 DEF Ordered
    <3> QED BY <1>1, <1>2, <3>1, <3>2, <1>moved
  <2>3. ASSUME NEW i \in 1 .. Len(requests')
        PROVE  (requests'[i].order + (Len(requests') - i)) % Modulus
                 = lastRequest
    <3>1. /\ i + 1 \in 1 .. Len(requests) /\ requests'[i] = requests[i + 1]
          /\ Len(requests') - i = Len(requests) - (i + 1)
      BY <1>1, <1>2, <1>moved
    <3> QED BY <1>0, <1>1, <3>1 DEF Ordered
  <2> QED BY <1>0, <1>1, <1>2, <2>1, <2>2, <2>3 DEF Ordered, locks
<1>5. Matched'
  <2> SUFFICES ASSUME timeouts = 0 PROVE Matched'
    BY <1>2 DEF Matched
  <2>1. Step(messageSequenceNumber)' = Step(messageSequenceNumber)
    BY <1>2 DEF Step
  <2>2. ASSUME NEW i \in 1 .. Len(responses')
        PROVE  responses'[i].cSeq = Step(messageSequenceNumber)
    <3>1. CASE i \in 1 .. Len(responses)
      BY <1>0, <1>1, <3>1, <1>moved DEF Matched
    <3>2. CASE i = Len(responses')
      <4>1. 1 \in 1 .. Len(requests) /\ responses'[i].cSeq = requests[1].cSeq
        BY <1>1, <1>2, <3>2, <1>moved
      <4> QED BY <1>0, <1>1, <4>1 DEF Matched
    <3> QED BY <1>1, <1>2, <3>1, <3>2, <1>moved
  <2>3. ASSUME NEW i \in 1 .. Len(requests')
        PROVE  /\ requests'[i].cSeq = Step(messageSequenceNumber)
               /\ requests'[i].method = Method[at[rtspMutex]]
    <3>1. i + 1 \in 1 .. Len(requests) /\ requests'[i] = requests[i + 1]
      BY <1>1, <1>2, <1>moved
    <3> QED BY <1>0, <1>1, <3>1 DEF Matched
  <2> QED BY <1>2, <2>1, <2>2, <2>3 DEF Matched, locks, Method
<1> QED BY <1>3, <1>4, <1>5

(* While no request was given up, an answer is to the one of the caller    *)
(* that waits, and the only one.                                           *)
LEMMA RespondIsWaitedFor ==
  ASSUME IInv, requests # <<>>, NEW status \in {"ok", "denied", "error"},
         Respond(status), timeouts = 0
  PROVE  /\ rtspMutex \in Caller /\ responses = <<>> /\ responses' # <<>>
         /\ Head(requests).method = Method[at[rtspMutex]]
         /\ Head(responses').status = status
<1>1. Types /\ ready /\ Len(requests) \in Nat /\ Len(responses) \in Nat
  BY DEF IInv, Types, Connected
<1>2. Len(requests) >= 1 /\ Head(requests) = requests[1]
  BY <1>1, RespondMoves
<1>8. Len(responses) + Len(requests) = IF rtspMutex = None THEN 0 ELSE 1
  <2>1. Len(responses) + Len(requests)
          = timeouts + IF rtspMutex = None THEN 0 ELSE 1
    BY <1>1 DEF IInv, Ordered
  <2> QED BY <2>1
<1>3. rtspMutex # None /\ Len(requests) = 1 /\ Len(responses) = 0
  <2>1. CASE rtspMutex = None
    <3>1. Len(responses) + Len(requests) = 0
      BY <1>8, <2>1
    <3> QED BY <1>1, <1>2, <3>1
  <2>2. CASE rtspMutex # None
    <3>1. Len(responses) + Len(requests) = 1
      BY <1>8, <2>2
    <3> QED BY <1>1, <1>2, <2>2, <3>1
  <2> QED BY <2>1, <2>2
<1>4. responses = <<>> /\ rtspMutex \in Caller
  BY <1>1, <1>3 DEF Types
<1>5. /\ Len(responses') = 1 /\ responses' \in Seq(Response)
      /\ responses'[1].status = status
  BY <1>1, <1>3, RespondMoves
<1>6. responses' # <<>> /\ Head(responses').status = status
  BY <1>5
<1>7. requests[1].method = Method[at[rtspMutex]]
  BY <1>1, <1>3 DEF IInv, Matched
<1> QED BY <1>2, <1>4, <1>6, <1>7

LEMMA RespondKeepsTypes ==
  ASSUME IInv, requests # <<>>, NEW status \in {"ok", "denied", "error"},
         Respond(status),
         session' \in {"none", "announced", "ready", "recording"}
  PROVE  Types'
<1>1. Types
  BY DEF IInv
<1>2. requests' \in Seq(Request) /\ responses' \in Seq(Response)
  BY <1>1, RespondMoves
<1>3. UNCHANGED <<rtspClient, teardownRequired, ready, lastRequest, timeouts,
                  messageSequenceNumber, attached, at, engineMutex, rtspMutex>>
  BY DEF Respond, client, locks
<1> QED BY <1>1, <1>2, <1>3 DEF Types

(* Where the manager is, by what it asks for.                              *)
LEMMA WhoAsks ==
  ASSUME Types, rtspMutex \in Caller,
         NEW method, method = Method[at[rtspMutex]]
  PROVE  /\ method \in {"ANNOUNCE", "SETUP", "RECORD", "TEARDOWN",
                        "SET_PARAMETER"} => rtspMutex = "manager"
         /\ method = "FLUSH" => rtspMutex = "player"
         /\ method = "ANNOUNCE" <=> rtspMutex = "manager" /\ at["manager"] = "announce"
         /\ method = "SETUP" <=> rtspMutex = "manager" /\ at["manager"] = "setup"
         /\ method = "RECORD" <=> rtspMutex = "manager" /\ at["manager"] = "record"
         /\ method = "TEARDOWN" <=> rtspMutex = "manager" /\ at["manager"] = "teardown"
<1>1. CASE rtspMutex = "manager"
  BY <1>1 DEF Types, Method
<1>2. CASE rtspMutex = "player"
  BY <1>2 DEF Types, Method
<1> QED BY <1>1, <1>2

LEMMA ServeKeepsIInv ==
  ASSUME IInv, Serve
  PROVE  IInv'
<1> DEFINE method == Head(requests).method
<1>1. /\ requests # <<>> /\ Respond("ok")
      /\ \/ method = "ANNOUNCE" /\ session' = "announced"
         \/ method = "SETUP" /\ session' = "ready"
         \/ method = "RECORD" /\ session' = "recording"
         \/ method = "TEARDOWN" /\ session' = "none"
         \/ method \in {"SET_PARAMETER", "FLUSH"} /\ session' = session
  BY DEF Serve, Grant
<1>2. Types' /\ Connected' /\ Ordered' /\ Matched'
  BY <1>1, RespondKeepsTypes, RespondKeepsOrder DEF IInv, Types
<1>3. Known'
  <2>1. UNCHANGED <<teardownRequired, ready, timeouts, at, rtspMutex>>
    BY <1>1 DEF Respond, client, locks
  <2> SUFFICES ASSUME ready, timeouts = 0 PROVE Known'
    BY <2>1 DEF Known
  <2>2. /\ rtspMutex \in Caller /\ responses = <<>> /\ responses' # <<>>
        /\ method = Method[at[rtspMutex]] /\ Head(responses').status = "ok"
    BY <1>1, RespondIsWaitedFor
  <2>3. Types /\ Known
    BY DEF IInv
  <2> HIDE DEF method
  <2>4. /\ method \in {"ANNOUNCE", "SETUP", "RECORD", "TEARDOWN",
                       "SET_PARAMETER"} => rtspMutex = "manager"
        /\ method = "ANNOUNCE" <=> rtspMutex = "manager" /\ at["manager"] = "announce"
        /\ method = "SETUP" <=> rtspMutex = "manager" /\ at["manager"] = "setup"
        /\ method = "RECORD" <=> rtspMutex = "manager" /\ at["manager"] = "record"
        /\ method = "TEARDOWN" <=> rtspMutex = "manager" /\ at["manager"] = "teardown"
    BY <2>2, <2>3, WhoAsks
  <2>5. Granted' <=> rtspMutex = "manager"
    BY <2>1, <2>2 DEF Granted
  <2> QED BY <1>1, <2>1, <2>2, <2>3, <2>4, <2>5 DEF Known, Granted
<1> QED BY <1>2, <1>3 DEF IInv

LEMMA RefuseKeepsIInv ==
  ASSUME IInv, NEW status \in {"denied", "error"}, Refuse(status)
  PROVE  IInv'
<1> DEFINE method == Head(requests).method
<1>1. /\ requests # <<>> /\ Respond(status) /\ session' = session
      /\ method \in {"ANNOUNCE", "SETUP", "RECORD"}
  BY DEF Refuse
<1>2. Types' /\ Connected' /\ Ordered' /\ Matched'
  BY <1>1, RespondKeepsTypes, RespondKeepsOrder DEF IInv, Types
<1>3. Known'
  <2>1. UNCHANGED <<teardownRequired, ready, timeouts, at, rtspMutex>>
    BY <1>1 DEF Respond, client, locks
  <2> SUFFICES ASSUME ready, timeouts = 0 PROVE Known'
    BY <2>1 DEF Known
  <2>2. /\ rtspMutex \in Caller /\ responses = <<>> /\ responses' # <<>>
        /\ method = Method[at[rtspMutex]] /\ Head(responses').status = status
    BY <1>1, RespondIsWaitedFor
  <2>3. Types /\ Known
    BY DEF IInv
  <2> HIDE DEF method
  <2>4. /\ rtspMutex = "manager"
        /\ at["manager"] \in {"announce", "setup", "record"}
    BY <1>1, <2>2, <2>3, WhoAsks
  <2>5. ~Granted' /\ ~Granted
    BY <2>1, <2>2 DEF Granted
  <2> QED BY <1>1, <2>1, <2>2, <2>3, <2>4, <2>5 DEF Known
<1> QED BY <1>2, <1>3 DEF IInv

-----------------------------------------------------------------------------
(* What a caller does next, whose call has come to an end.                 *)
LEMMA Places ==
  DOMAIN Method = {"announce", "setup", "record", "volume", "flush", "teardown"}
BY DEF Method

LEMMA ContinueGoes ==
  ASSUME Types, NEW caller \in Caller, at[caller] \in DOMAIN Method,
         NEW status \in {"ok", "denied", "error", "exception"},
         Continue(caller, status)
  PROVE  /\ teardownRequired' \in BOOLEAN
         /\ at' \in [Caller -> {"announce", "setup", "record", "volume",
                               "flush", "teardown", "idle", "attach",
                               "detach", "destroy", "isOpen", "prune"}]
         /\ caller = "player" =>
              /\ at["player"] = "flush" /\ at'["player"] = "prune"
              /\ at'["manager"] = at["manager"]
              /\ teardownRequired' = teardownRequired
         /\ caller = "manager" =>
              /\ at'["player"] = at["player"]
              /\ \/ /\ at["manager"] = "announce" /\ at'["manager"] = "setup"
                    /\ status = "ok" /\ teardownRequired' = FALSE
                 \/ /\ at["manager"] = "setup" /\ at'["manager"] = "record"
                    /\ status = "ok" /\ teardownRequired' = FALSE
                 \/ /\ at["manager"] = "record" /\ at'["manager"] = "attach"
                    /\ status = "ok" /\ teardownRequired' = TRUE
                 \/ /\ at["manager"] \in {"announce", "setup", "record"}
                    /\ at'["manager"] \in {"announce", "idle"}
                    /\ status # "ok" /\ teardownRequired' = teardownRequired
                 \/ /\ at["manager"] = "volume" /\ at'["manager"] = "idle"
                    /\ teardownRequired' = teardownRequired
                 \/ /\ at["manager"] = "teardown" /\ at'["manager"] = "destroy"
                    /\ teardownRequired' = (status = "exception")
<1>1. CASE caller = "player"
  <2>1. at["player"] = "flush"
    BY <1>1, Places DEF Types
  <2>2. /\ at' = [at EXCEPT !["player"] = "prune"]
        /\ teardownRequired' = teardownRequired
    BY <1>1, <2>1 DEF Continue, GoTo
  <2> QED BY <1>1, <2>1, <2>2 DEF Types
<1>2. CASE caller = "manager"
  <2>1. at["manager"] \in {"announce", "setup", "record", "volume", "teardown"}
    BY <1>2, Places DEF Types
  <2>2. CASE at["manager"] \in {"announce", "setup", "record"} /\ status = "ok"
    <3>1. /\ teardownRequired' = (at["manager"] = "record")
          /\ at' = [at EXCEPT !["manager"] =
                      [announce |-> "setup", setup |-> "record",
                       record |-> "attach"][at["manager"]]]
      BY <1>2, <2>2 DEF Continue, GoTo
    <3>2. CASE at["manager"] = "announce"
      <4>1. at' = [at EXCEPT !["manager"] = "setup"]
        BY <3>1, <3>2
      <4>2. teardownRequired' = FALSE
        BY <3>1, <3>2
      <4> QED BY <1>2, <2>2, <3>2, <4>1, <4>2 DEF Types
    <3>3. CASE at["manager"] = "setup"
      <4>1. at' = [at EXCEPT !["manager"] = "record"]
        BY <3>1, <3>3
      <4>2. teardownRequired' = FALSE
        BY <3>1, <3>3
      <4> QED BY <1>2, <2>2, <3>3, <4>1, <4>2 DEF Types
    <3>4. CASE at["manager"] = "record"
      <4>1. at' = [at EXCEPT !["manager"] = "attach"]
        BY <3>1, <3>4
      <4>2. teardownRequired' = TRUE
        BY <3>1, <3>4
      <4> QED BY <1>2, <2>2, <3>4, <4>1, <4>2 DEF Types
    <3> QED BY <2>2, <3>2, <3>3, <3>4
  <2>3. CASE at["manager"] \in {"announce", "setup", "record"} /\ status # "ok"
    BY <1>2, <2>3 DEF Continue, GoTo, Types
  <2>4. CASE at["manager"] = "volume"
    BY <1>2, <2>4 DEF Continue, GoTo, Types
  <2>5. CASE at["manager"] = "teardown"
    BY <1>2, <2>5 DEF Continue, GoTo, Types
  <2> QED BY <2>1, <2>2, <2>3, <2>4, <2>5
<1> QED BY <1>1, <1>2

(* The parts that depend on nothing but where the callers are.             *)
LEMMA ContinueKeepsTypes ==
  ASSUME IInv, NEW caller \in Caller, at[caller] \in DOMAIN Method,
         NEW status \in {"ok", "denied", "error", "exception"},
         Continue(caller, status), rtspMutex \in {None, caller},
         rtspMutex' = None,
         UNCHANGED <<rtspClient, attached, engineMutex, lastRequest>>,
         ready' \in BOOLEAN, messageSequenceNumber' \in Number,
         timeouts' \in 0 .. MaxTimeouts, session' \in {session, "none"},
         requests' \in Seq(Request), responses' \in Seq(Response)
  PROVE  Types'
<1>1. Types
  BY DEF IInv
<1>2. /\ teardownRequired' \in BOOLEAN
      /\ at' \in [Caller -> {"announce", "setup", "record", "volume",
                            "flush", "teardown", "idle", "attach",
                            "detach", "destroy", "isOpen", "prune"}]
      /\ at'["manager"] \notin {"flush", "isOpen", "prune"}
      /\ at'["player"] \in {"idle", "isOpen", "flush", "prune"}
      /\ at'["player"] = "idle" <=> at["player"] = "idle"
  BY <1>1, ContinueGoes DEF Types
<1> QED BY <1>1, <1>2 DEF Types

(* A caller sends a request: one more is under way, the last.              *)
LEMMA SendRequestKeepsIInv ==
  ASSUME IInv, NEW caller \in Caller, SendRequest(caller)
  PROVE  IInv'
<1> DEFINE request == [order  |-> Step(lastRequest),
                       cSeq   |-> Step(messageSequenceNumber),
                       method |-> Method[at[caller]]]
<1>1. /\ Types /\ Ordered /\ Matched /\ Known /\ Connected
      /\ Len(requests) \in Nat /\ Len(responses) \in Nat
  BY DEF IInv, Types
<1>2. /\ at[caller] \in DOMAIN Method /\ rtspMutex = None /\ ready
      /\ rtspMutex' = caller /\ lastRequest' = Step(lastRequest)
      /\ requests' = Append(requests, request)
      /\ UNCHANGED <<rtspClient, teardownRequired, ready, responses, timeouts,
                     session, messageSequenceNumber, attached, at,
                     engineMutex>>
  BY DEF SendRequest, client
<1>3. /\ Step(lastRequest) \in Number /\ Step(messageSequenceNumber) \in Number
      /\ request \in Request
  <2>1. /\ Step(lastRequest) \in Number
        /\ Step(messageSequenceNumber) \in Number
    BY <1>1, StepIsNumber DEF Types
  <2>2. Method[at[caller]] \in {"ANNOUNCE", "SETUP", "RECORD",
                                "SET_PARAMETER", "FLUSH", "TEARDOWN"}
    BY <1>2 DEF Method
  <2> QED BY <2>1, <2>2 DEF Request
<1>4. /\ request.order = Step(lastRequest)
      /\ request.cSeq = Step(messageSequenceNumber)
      /\ request.method = Method[at[caller]]
  OBVIOUS
<1> HIDE DEF request
<1>5. /\ requests' \in Seq(Request) /\ Len(requests') = Len(requests) + 1
      /\ \A i \in 1 .. Len(requests) : requests'[i] = requests[i]
      /\ requests'[Len(requests) + 1] = request
  BY <1>1, <1>2, <1>3 DEF Types
<1>6. Types'
  BY <1>1, <1>2, <1>3, <1>5, Places DEF Types
<1>7. Connected'
  BY <1>1, <1>2 DEF Connected
<1>8. Len(responses) + Len(requests) = timeouts
  BY <1>1, <1>2 DEF Ordered, Types
<1>9. Ordered'
  <2>1. Len(responses') + Len(requests')
          = timeouts' + IF rtspMutex' = None THEN 0 ELSE 1
    BY <1>1, <1>2, <1>5, <1>8 DEF Types
  <2>2. ASSUME NEW i \in 1 .. Len(responses')
        PROVE  (responses'[i].order + (Len(responses') - i) + Len(requests'))
                 % Modulus = lastRequest'
    <3> DEFINE order == responses[i].order
               later == (Len(responses) - i) + Len(requests)
    <3>1. i \in 1 .. Len(responses) /\ responses[i] \in Response
      BY <1>1, <1>2 DEF Types
    <3>2. order \in Number
      BY <3>1 DEF Response
    <3>3. later \in 0 .. MaxTimeouts
      BY <1>1, <1>8, <3>1 DEF Types
    <3>4. (order + later) % Modulus = lastRequest
      <4>1. (order + (Len(responses) - i) + Len(requests)) % Modulus = lastRequest
        BY <1>1, <1>2, <3>1 DEF Ordered
      <4>2. order + (Len(responses) - i) + Len(requests) = order + later
        BY <1>1, <3>1, <3>2 DEF Number
      <4> QED BY <4>1, <4>2
    <3>5. (order + (later + 1)) % Modulus = Step(lastRequest)
      <4> HIDE DEF order, later
      <4> QED BY <3>2, <3>3, <3>4, StepOfSum
    <3>6. order + (later + 1)
            = responses'[i].order + (Len(responses') - i) + Len(requests')
      <4> DEFINE before == Len(responses)
                 after == Len(requests)
      <4>1. /\ order \in Nat /\ before \in Nat /\ after \in Nat
            /\ i \in 1 .. before
        BY <1>1, <3>1, <3>2 DEF Number
      <4>2. /\ responses'[i].order = order /\ Len(responses') = before
            /\ Len(requests') = after + 1 /\ later = (before - i) + after
        BY <1>2, <1>5
      <4> HIDE DEF order, later, before, after
      <4>3. order + (((before - i) + after) + 1)
              = order + (before - i) + (after + 1)
        BY <4>1
      <4> QED BY <4>2, <4>3
    <3> QED BY <1>2, <3>5, <3>6
  <2>3. ASSUME NEW i \in 1 .. Len(requests')
        PROVE  (requests'[i].order + (Len(requests') - i)) % Modulus
                 = lastRequest'
    <3>1. CASE i \in 1 .. Len(requests)
      <4> DEFINE order == requests[i].order
                 later == Len(requests) - i
      <4>1. requests[i] \in Request /\ requests'[i] = requests[i]
        BY <1>1, <1>5, <3>1 DEF Types
      <4>2. order \in Number
        BY <4>1 DEF Request
      <4>3. later \in 0 .. MaxTimeouts
        BY <1>1, <1>8, <3>1 DEF Types
      <4>4. (order + later) % Modulus = lastRequest
        BY <1>1, <1>2, <3>1 DEF Ordered
      <4>5. (order + (later + 1)) % Modulus = Step(lastRequest)
        <5> HIDE DEF order, later
        <5> QED BY <4>2, <4>3, <4>4, StepOfSum
      <4>6. later + 1 = Len(requests') - i
        BY <1>1, <1>5, <3>1
      <4> QED BY <1>2, <4>1, <4>5, <4>6
    <3>2. CASE i = Len(requests) + 1
      <4>1. requests'[i].order = Step(lastRequest) /\ Len(requests') - i = 0
        BY <1>1, <1>4, <1>5, <3>2
      <4>2. Step(lastRequest) + 0 = Step(lastRequest)
        BY <1>3 DEF Number
      <4>3. Step(lastRequest) % Modulus = Step(lastRequest)
        BY <1>3, StepIsNumber
      <4> QED BY <1>2, <4>1, <4>2, <4>3
    <3> QED BY <1>1, <1>5, <3>1, <3>2
  <2> QED BY <2>1, <2>2, <2>3 DEF Ordered
<1>10. Matched'
  <2> SUFFICES ASSUME timeouts = 0 PROVE Matched'
    BY <1>2 DEF Matched
  <2>1. Len(responses) = 0 /\ Len(requests) = 0
    BY <1>1, <1>8
  <2>2. Step(messageSequenceNumber)' = Step(messageSequenceNumber)
    BY <1>2 DEF Step
  <2>3. /\ \A i \in 1 .. Len(responses') : FALSE
        /\ \A i \in 1 .. Len(requests') : requests'[i] = request
    BY <1>2, <1>5, <2>1
  <2>4. Method' = Method
    BY DEF Method
  <2> QED BY <1>2, <1>4, <2>2, <2>3, <2>4 DEF Matched
<1>11. Known'
  <2> SUFFICES ASSUME timeouts = 0 PROVE Known'
    BY <1>2 DEF Known
  <2>1. responses = <<>>
    BY <1>1, <1>8 DEF Types
  <2> QED BY <1>1, <1>2, <2>1 DEF Known, Granted
<1> QED BY <1>6, <1>7, <1>9, <1>10, <1>11 DEF IInv

(* A connection without a client stays one that is about to be closed.     *)
LEMMA ContinueKeepsConnected ==
  ASSUME IInv, NEW caller \in Caller, at[caller] \in DOMAIN Method,
         NEW status \in {"ok", "denied", "error", "exception"},
         Continue(caller, status),
         UNCHANGED rtspClient, ready' = ready, ready
  PROVE  Connected'
<1>1. Types /\ Connected
  BY DEF IInv
<1>2. \/ at'["manager"] = at["manager"]
      \/ at["manager"] = "teardown" /\ at'["manager"] = "destroy"
      \/ at["manager"] \in {"announce", "setup", "record", "volume"}
  BY <1>1, ContinueGoes
<1> QED BY <1>1, <1>2 DEF Connected, Types

LEMMA CallFailsKeepsIInv ==
  ASSUME IInv, NEW caller \in Caller, CallFails(caller)
  PROVE  IInv'
<1>1. Types /\ Connected
  BY DEF IInv
<1>2. /\ at[caller] \in DOMAIN Method /\ rtspMutex \in {None, caller} /\ ~ready
      /\ rtspMutex' = None /\ Continue(caller, "exception")
      /\ UNCHANGED <<rtspClient, ready, requests, responses, lastRequest,
                     timeouts, session, messageSequenceNumber, attached,
                     engineMutex>>
  BY DEF CallFails, wire
<1>3. Types'
  BY <1>1, <1>2, ContinueKeepsTypes DEF Types
<1>4. Connected' /\ Ordered' /\ Matched' /\ Known'
  BY <1>1, <1>2 DEF Connected, Ordered, Matched, Known
<1> QED BY <1>3, <1>4 DEF IInv

LEMMA TimeOutKeepsIInv ==
  ASSUME IInv, NEW caller \in Caller, TimeOut(caller)
  PROVE  IInv'
<1>1. /\ Types /\ Connected /\ Ordered
      /\ at[caller] \in DOMAIN Method
  <2>1. Types /\ Connected /\ Ordered
    BY DEF IInv
  <2> QED BY <2>1, Places DEF TimeOut, Types
<1>2. /\ rtspMutex = caller /\ ready /\ responses = <<>>
      /\ rtspMutex' = None /\ Continue(caller, "exception")
      /\ UNCHANGED <<rtspClient, lastRequest, messageSequenceNumber, attached,
                     engineMutex>>
  BY DEF TimeOut
<1>3. CASE timeouts < MaxTimeouts
  <2>1. /\ timeouts' = timeouts + 1
        /\ UNCHANGED <<ready, requests, responses, session>>
    BY <1>3 DEF TimeOut
  <2>2. timeouts' \in 0 .. MaxTimeouts /\ timeouts' # 0
    BY <1>1, <1>3, <2>1 DEF Types
  <2>3. Types'
    BY <1>1, <1>2, <2>1, <2>2, ContinueKeepsTypes DEF Types
  <2>4. Connected'
    BY <1>1, <1>2, <2>1, ContinueKeepsConnected
  <2>5. Len(responses') + Len(requests') = timeouts' + 0
    <3>1. Len(responses) + Len(requests) = timeouts + 1
      BY <1>1, <1>2 DEF Ordered
    <3> QED BY <1>1, <2>1, <3>1 DEF Types
  <2>6. Ordered'
    BY <1>1, <1>2, <2>1, <2>5 DEF Ordered
  <2> QED BY <2>2, <2>3, <2>4, <2>6 DEF IInv, Matched, Known
<1>4. CASE ~(timeouts < MaxTimeouts)
  <2>1. Disconnected /\ timeouts' = timeouts
    BY <1>4 DEF TimeOut
  <2>2. Types'
    BY <1>1, <1>2, <2>1, EmptySequences, ContinueKeepsTypes
       DEF Types, Disconnected
  <2> QED BY <2>1, <2>2
          DEF IInv, Connected, Ordered, Matched, Known, Disconnected
<1> QED BY <1>3, <1>4

(* The first answer is taken: none is under way any more for a caller.     *)
LEMMA ReceiveResponseKeepsIInv ==
  ASSUME IInv, NEW caller \in Caller, ReceiveResponse(caller)
  PROVE  IInv'
<1> DEFINE status == Status(caller, Head(responses))
<1>1. Types /\ Connected /\ Ordered /\ Matched /\ Known
  BY DEF IInv
<1>2. /\ rtspMutex = caller /\ responses # <<>> /\ responses' = Tail(responses)
      /\ messageSequenceNumber' = Step(messageSequenceNumber)
      /\ rtspMutex' = None /\ Continue(caller, status)
      /\ UNCHANGED <<rtspClient, ready, requests, lastRequest, timeouts,
                     session, attached, engineMutex>>
  BY DEF ReceiveResponse
<1>3. /\ Len(responses) \in Nat /\ Len(responses) >= 1 /\ Len(requests) \in Nat
      /\ Head(responses) \in Response
      /\ responses' \in Seq(Response) /\ Len(responses') = Len(responses) - 1
      /\ \A i \in 1 .. Len(responses') : responses'[i] = responses[i + 1]
  BY <1>1, <1>2 DEF Types
<1>4. /\ status \in {"ok", "denied", "error"}
      /\ status = "ok" => Head(responses).status = "ok"
      /\ at[caller] = "record" => status = Head(responses).status
  BY <1>3 DEF Status, Response
<1> HIDE DEF status
<1>5. ready /\ at[caller] \in DOMAIN Method
  BY <1>1, <1>2, Places DEF Connected, Types
<1>6. Types'
  <2>1. messageSequenceNumber' \in Number
    BY <1>1, <1>2, StepIsNumber DEF Types
  <2> QED BY <1>1, <1>2, <1>3, <1>4, <1>5, <2>1, ContinueKeepsTypes DEF Types
<1>7. Connected'
  BY <1>2, <1>4, <1>5, ContinueKeepsConnected
<1>8. Len(responses) + Len(requests) = timeouts + 1
  BY <1>1, <1>2, <1>5 DEF Ordered
<1>9. Len(responses') + Len(requests') = timeouts'
  BY <1>1, <1>2, <1>3, <1>8 DEF Types
<1>10. Ordered'
  <2>1. Len(responses') + Len(requests') = timeouts' + 0
    BY <1>1, <1>2, <1>9 DEF Types
  <2>2. ASSUME NEW i \in 1 .. Len(responses')
        PROVE  (responses'[i].order + (Len(responses') - i) + Len(requests'))
                 % Modulus = lastRequest'
    <3>1. /\ i + 1 \in 1 .. Len(responses) /\ responses'[i] = responses[i + 1]
          /\ Len(responses') - i = Len(responses) - (i + 1)
      BY <1>3
    <3>2. (responses[i + 1].order + (Len(responses) - (i + 1)) + Len(requests))
            % Modulus = lastRequest
      BY <1>1, <1>5, <3>1 DEF Ordered
    <3> QED BY <1>2, <3>1, <3>2
  <2>3. ASSUME NEW i \in 1 .. Len(requests')
        PROVE  (requests'[i].order + (Len(requests') - i)) % Modulus
                 = lastRequest'
    BY <1>1, <1>2, <1>5 DEF Ordered
  <2> QED BY <1>2, <2>1, <2>2, <2>3 DEF Ordered
<1>11. Matched'
  <2> SUFFICES ASSUME timeouts = 0 PROVE Matched'
    BY <1>2 DEF Matched
  <2>1. Len(responses') = 0 /\ Len(requests') = 0
    BY <1>2, <1>3, <1>9
  <2> QED BY <2>1 DEF Matched
<1>12. Known'
  <2> SUFFICES ASSUME timeouts = 0 PROVE Known'
    BY <1>2 DEF Known
  <2>1. ~Granted' /\ rtspMutex' # "manager"
    BY <1>2 DEF Granted
  <2>2. CASE caller = "player"
    <3>1. at'["manager"] = at["manager"] /\ teardownRequired' = teardownRequired
      BY <1>1, <1>2, <1>4, <1>5, <2>2, ContinueGoes
    <3> QED BY <1>1, <1>2, <1>5, <2>1, <2>2, <3>1 DEF Known, Granted
  <2>3. CASE caller = "manager"
    <3>1. Granted <=> Head(responses).status = "ok"
      BY <1>2, <2>3 DEF Granted
    <3>2. \/ /\ at["manager"] = "announce" /\ at'["manager"] = "setup"
             /\ status = "ok" /\ teardownRequired' = FALSE
          \/ /\ at["manager"] = "setup" /\ at'["manager"] = "record"
             /\ status = "ok" /\ teardownRequired' = FALSE
          \/ /\ at["manager"] = "record" /\ at'["manager"] = "attach"
             /\ status = "ok" /\ teardownRequired' = TRUE
          \/ /\ at["manager"] \in {"announce", "setup", "record"}
             /\ at'["manager"] \in {"announce", "idle"}
             /\ status # "ok" /\ teardownRequired' = teardownRequired
          \/ /\ at["manager"] = "volume" /\ at'["manager"] = "idle"
             /\ teardownRequired' = teardownRequired
          \/ /\ at["manager"] = "teardown" /\ at'["manager"] = "destroy"
             /\ teardownRequired' = (status = "exception")
      BY <1>1, <1>2, <1>4, <1>5, <2>3, ContinueGoes
    <3>3. status # "exception"
      BY <1>4
    <3> QED BY <1>1, <1>2, <1>4, <1>5, <2>1, <2>3, <3>1, <3>2, <3>3 DEF Known
  <2> QED BY <2>2, <2>3
<1> QED BY <1>6, <1>7, <1>10, <1>11, <1>12 DEF IInv

-----------------------------------------------------------------------------
LEMMA StutterKeepsIInv ==
  ASSUME IInv, UNCHANGED vars
  PROVE  IInv'
<1> USE DEF vars, client, wire, locks
<1>1. Types' /\ Connected' /\ Ordered'
  BY DEF IInv, Types, Connected, Ordered
<1>2. Matched' /\ Known'
  BY DEF IInv, Matched, Known, Granted, Step, Method
<1> QED BY <1>1, <1>2 DEF IInv

LEMMA NextKeepsIInv == IInv /\ [Next]_vars => IInv'
<1> SUFFICES ASSUME IInv, [Next]_vars PROVE IInv'
  OBVIOUS
<1>1. CASE \E caller \in Caller : CallStep(caller)
  BY <1>1, SendRequestKeepsIInv, ReceiveResponseKeepsIInv, TimeOutKeepsIInv,
     CallFailsKeepsIInv DEF CallStep
<1>2. CASE Attach
  BY <1>2, AttachKeepsIInv
<1>3. CASE Detach
  BY <1>3, DetachKeepsIInv
<1>4. CASE DestroyClient
  BY <1>4, DestroyClientKeepsIInv
<1>5. CASE Open
  BY <1>5, OpenKeepsIInv
<1>6. CASE SetVolume
  BY <1>6, SetVolumeKeepsIInv
<1>7. CASE Close
  BY <1>7, CloseKeepsIInv
<1>8. CASE Flush
  BY <1>8, FlushKeepsIInv
<1>9. CASE Prune
  BY <1>9, PruneKeepsIInv
<1>10. CASE Reset
  BY <1>10, ResetKeepsIInv
<1>11. CASE Serve
  BY <1>11, ServeKeepsIInv
<1>12. CASE Refuse("denied") \/ Refuse("error")
  BY <1>12, RefuseKeepsIInv
<1>13. CASE ConnectionLost
  BY <1>13, ConnectionLostKeepsIInv
<1>14. CASE UNCHANGED vars
  BY <1>14, StutterKeepsIInv
<1> QED BY <1>1, <1>2, <1>3, <1>4, <1>5, <1>6, <1>7, <1>8, <1>9, <1>10, <1>11,
           <1>12, <1>13, <1>14
        DEF Next, ManagerStep, PlayerStep

LEMMA AlwaysIInv == Spec => []IInv
<1> QED BY InitIInv, NextKeepsIInv, PTL DEF Spec

(* Everything has its type, and each mutex is held exactly in the calls    *)
(* that take it (RAOPEngine::reset, sendRequestReceiveResponse).           *)
THEOREM MutexesHeldInCalls == Spec => []Inv
<1>1. ASSUME IInv PROVE Inv
  <2>1. Types
    BY <1>1 DEF IInv
  <2>2. /\ {rtspClient, ready, teardownRequired, attached} \subseteq BOOLEAN
        /\ engineMutex = (at["player"] # "idle")
    BY <2>1, Zenon DEF Types
  <2>3. /\ {messageSequenceNumber, lastRequest} \subseteq Number
        /\ timeouts \in 0 .. MaxTimeouts
        /\ session \in {"none", "announced", "ready", "recording"}
        /\ at \in [Caller -> Place]
    BY <2>1, Places DEF Types, Place
  <2>4. rtspMutex # None => at[rtspMutex] \in DOMAIN Method
    BY <2>1, Places DEF Types
  <2> QED BY <2>2, <2>3, <2>4 DEF Inv
<1> QED BY <1>1, AlwaysIInv, PTL

(* Requests and answers stay in step, and while no request was given up an *)
(* answer is the answer to the caller's request                            *)
(* (sendRequestReceiveResponse).                                           *)
THEOREM AnswersStayInStep == Spec => []AnswersInStep
<1>1. ASSUME IInv PROVE AnswersInStep
  <2> DEFINE before == Len(responses)
             after == Len(requests)
  <2>1. Types /\ Ordered /\ Matched
    BY <1>1 DEF IInv
  <2>2. /\ before \in Nat /\ after \in Nat
        /\ Len(Underway) = before + after
        /\ DOMAIN Underway = 1 .. before + after
        /\ \A i \in 1 .. before : Underway[i] = responses[i]
        /\ \A i \in before + 1 .. before + after :
             Underway[i] = requests[i - before]
    BY <2>1 DEF Underway, Types
  <2> SUFFICES ASSUME ready PROVE AnswersInStep
    BY DEF AnswersInStep
  <2>3. Len(Underway) = timeouts + IF rtspMutex = None THEN 0 ELSE 1
    BY <2>1, <2>2 DEF Ordered
  <2>4. ASSUME NEW i \in DOMAIN Underway
        PROVE  /\ (Underway[i].order + Len(Underway) - i) % Modulus = lastRequest
               /\ timeouts = 0 => Underway[i].cSeq = Step(messageSequenceNumber)
    <3>1. CASE i \in 1 .. before
      <4> DEFINE order == responses[i].order
      <4>1. /\ Underway[i] = responses[i] /\ order \in Nat
            /\ (order + (before - i) + after) % Modulus = lastRequest
        <5>1. responses[i] \in Response
          BY <2>1, <3>1 DEF Types
        <5>2. order \in Nat
          BY <5>1 DEF Response, Number
        <5> QED BY <2>1, <2>2, <3>1, <5>2 DEF Ordered
      <4> HIDE DEF order, before, after
      <4>2. order + (before - i) + after = order + (before + after) - i
        BY <2>2, <3>1, <4>1
      <4>3. (order + Len(Underway) - i) % Modulus = lastRequest
        BY <2>2, <4>1, <4>2
      <4> QED BY <2>1, <3>1, <4>1, <4>3 DEF Matched, order, before
    <3>2. CASE i \in before + 1 .. before + after
      <4> DEFINE k == i - before
                 order == requests[k].order
      <4>1. k \in 1 .. after /\ Underway[i] = requests[k]
        BY <2>2, <3>2
      <4>2. order \in Nat
        <5>1. requests[k] \in Request
          BY <2>1, <4>1 DEF Types
        <5> QED BY <5>1 DEF Request, Number
      <4>3. (order + (after - k)) % Modulus = lastRequest
        BY <2>1, <4>1 DEF Ordered
      <4>4. timeouts = 0 => Underway[i].cSeq = Step(messageSequenceNumber)
        BY <2>1, <4>1 DEF Matched
      <4> HIDE DEF order, before, after
      <4>5. order + (after - k) = order + (before + after) - i
        BY <2>2, <3>2, <4>2
      <4>6. Underway[i].order = order
        BY <4>1 DEF order
      <4> QED BY <2>2, <4>3, <4>4, <4>5, <4>6
    <3> QED BY <2>2, <3>1, <3>2
  <2> QED BY <2>3, <2>4 DEF AnswersInStep
<1> QED BY <1>1, AlwaysIInv, PTL

-----------------------------------------------------------------------------
(* That a device open with a session is on the engine's list needs none of *)
(* what is known of requests and answers: only that opening begins without *)
(* a session, and that closing begins without the client.                  *)
Streaming ==
  /\ at["manager"] \in {"announce", "setup", "record"} => ~teardownRequired
  /\ at["manager"] \in {"detach", "teardown", "destroy"} => ~rtspClient
  /\ IsOpen /\ teardownRequired => attached \/ at["manager"] = "attach"

LEMMA ContinueKeepsStreaming ==
  ASSUME Types, Streaming, NEW caller \in Caller, at[caller] \in DOMAIN Method,
         NEW status \in {"ok", "denied", "error", "exception"},
         Continue(caller, status),
         UNCHANGED <<rtspClient, attached>>, ready' => ready
  PROVE  Streaming'
<1>1. \/ /\ at'["manager"] = at["manager"]
         /\ teardownRequired' = teardownRequired
      \/ /\ at["manager"] \in {"announce", "setup"}
         /\ at'["manager"] \in {"setup", "record"} /\ ~teardownRequired'
      \/ at'["manager"] = "attach"
      \/ /\ at["manager"] \in {"announce", "setup", "record"}
         /\ at'["manager"] \in {"announce", "idle"}
         /\ teardownRequired' = teardownRequired
      \/ /\ at["manager"] = "volume" /\ at'["manager"] = "idle"
         /\ teardownRequired' = teardownRequired
      \/ at["manager"] = "teardown" /\ at'["manager"] = "destroy"
  BY ContinueGoes
<1> QED BY <1>1 DEF Streaming, IsOpen, Types

LEMMA CallStepKeepsStreaming ==
  ASSUME IInv, Streaming, NEW caller \in Caller, CallStep(caller)
  PROVE  Streaming'
<1>1. Types
  BY DEF IInv
<1>2. CASE SendRequest(caller)
  BY <1>2 DEF SendRequest, Streaming, IsOpen, client
<1>3. CASE ReceiveResponse(caller)
  <2>1. /\ rtspMutex = caller /\ responses # <<>>
        /\ Continue(caller, Status(caller, Head(responses)))
        /\ UNCHANGED <<rtspClient, ready, attached>>
    BY <1>3 DEF ReceiveResponse
  <2>2. Head(responses) \in Response
    BY <1>1, <2>1 DEF Types
  <2>3. Status(caller, Head(responses)) \in {"ok", "denied", "error"}
    BY <2>2 DEF Status, Response
  <2>4. at[caller] \in DOMAIN Method
    BY <1>1, <2>1, Places DEF Types
  <2> QED BY <1>1, <2>1, <2>3, <2>4, ContinueKeepsStreaming
<1>4. CASE TimeOut(caller)
  <2>1. at[caller] \in DOMAIN Method
    BY <1>1, <1>4, Places DEF TimeOut, Types
  <2>2. /\ Continue(caller, "exception") /\ UNCHANGED <<rtspClient, attached>>
        /\ ready' => ready
    BY <1>4 DEF TimeOut, Disconnected
  <2> QED BY <1>1, <2>1, <2>2, ContinueKeepsStreaming
<1>5. CASE CallFails(caller)
  <2>1. /\ at[caller] \in DOMAIN Method /\ Continue(caller, "exception")
        /\ UNCHANGED <<rtspClient, ready, attached>>
    BY <1>5 DEF CallFails, wire
  <2> QED BY <1>1, <2>1, ContinueKeepsStreaming
<1> QED BY <1>2, <1>3, <1>4, <1>5 DEF CallStep

LEMMA NextKeepsStreaming == IInv /\ Streaming /\ [Next]_vars => Streaming'
<1> SUFFICES ASSUME IInv, Streaming, [Next]_vars PROVE Streaming'
  OBVIOUS
<1> USE DEF Streaming, IsOpen, client, wire, locks, GoTo
<1>0. Types
  BY DEF IInv
<1>1. CASE \E caller \in Caller : CallStep(caller)
  BY <1>1, CallStepKeepsStreaming
<1>2. CASE Attach \/ Detach \/ DestroyClient
  BY <1>0, <1>2 DEF Attach, Detach, DestroyClient, Disconnected, Types
<1>3. CASE Open \/ SetVolume \/ Close
  BY <1>0, <1>3 DEF Open, SetVolume, Close, Types
<1>4. CASE Reset \/ Flush \/ Prune
  BY <1>0, <1>4 DEF Reset, Flush, Prune, Types
<1>5. CASE Serve \/ Refuse("denied") \/ Refuse("error")
  BY <1>5 DEF Serve, Grant, Refuse, Respond
<1>6. CASE ConnectionLost
  BY <1>6 DEF ConnectionLost, Disconnected
<1>7. CASE UNCHANGED vars
  BY <1>7 DEF vars
<1> QED BY <1>1, <1>2, <1>3, <1>4, <1>5, <1>6, <1>7
        DEF Next, ManagerStep, PlayerStep

(* Unless a request was given up, what the client believes of its session  *)
(* is what the remote speakers have set up (doRecord, doTeardown, close);  *)
(* in any case a device that is open with a session is on the engine's     *)
(* list (RAOPDevice::open, RAOPEngine::reset).                             *)
THEOREM SessionIsKnown == Spec => []SessionKnown
<1>1. Init => Streaming
  BY DEF Init, Streaming, IsOpen
<1>2. IInv /\ Streaming => SessionKnown
  BY DEF IInv, Types, Known, SessionKnown, Streaming
<1> QED BY <1>1, <1>2, AlwaysIInv, NextKeepsStreaming, PTL DEF Spec

(* Whom a caller waits for: the manager for the player with the engine's   *)
(* mutex, or either for the other's request, which has the client's.       *)
WaitsForOther(caller) ==
  \/ caller = "manager" /\ at[caller] \in {"attach", "detach"} /\ engineMutex
  \/ at[caller] \in DOMAIN Method /\ rtspMutex \notin {None, caller}

(* The two callers never wait for each other, although the player holds    *)
(* the engine's mutex while it waits for the client's, and the manager     *)
(* asks for both: whoever has sent a request asks for no other mutex       *)
(* before the answer or the timeout (RAOPEngine::reset, RAOPDevice::close, *)
(* RTSPClientImpl::sendRequestReceiveResponse).                            *)
THEOREM CallersNeverEmbrace ==
  Spec => []~(WaitsForOther("manager") /\ WaitsForOther("player"))
<1>1. IInv => ~(WaitsForOther("manager") /\ WaitsForOther("player"))
  BY Places DEF IInv, Types, WaitsForOther
<1> QED BY <1>1, AlwaysIInv, PTL

-----------------------------------------------------------------------------
(* An answer has the number of the caller's request unless a request was   *)
(* given up on its connection: a late answer is the only way to            *)
(* ResponseNumbered's failure (the assertion at RTSPClient.cpp:795).       *)
THEOREM OnlyLateAnswersMisnumbered ==
  Spec => [](timeouts = 0 => ResponseNumbered)
<1>1. ASSUME IInv, timeouts = 0, rtspMutex # None, responses # <<>>
      PROVE  Head(responses).cSeq = Step(messageSequenceNumber)
  <2>1. Types /\ Connected /\ Matched
    BY <1>1 DEF IInv
  <2>2. ready /\ 1 \in 1 .. Len(responses) /\ Head(responses) = responses[1]
    BY <1>1, <2>1 DEF Types, Connected
  <2> QED BY <1>1, <2>1, <2>2 DEF Matched
<1>2. IInv => (timeouts = 0 => ResponseNumbered)
  BY <1>1 DEF ResponseNumbered
<1> QED BY <1>2, AlwaysIInv, PTL

(* The device that reset() found open has lost its client when it is       *)
(* flushed only to one caller, at one place: a close() that has taken the  *)
(* client and waits, in detach(), for the engine's mutex that reset()      *)
(* holds (RAOPDevice.cpp:276, RAOPDevice::close, RAOPEngine::reset).       *)
THEOREM OnlyClosingTakesClient ==
  Spec => [](FlushFindsClient \/ at["manager"] = "detach")
<1> DEFINE Found == FlushFindsClient \/ at["manager"] = "detach"
<1>1. Init => Found
  BY DEF Init, FlushFindsClient
<1>2. ASSUME IInv, Found, [Next]_vars PROVE Found'
  <2>0. Types
    BY <1>2 DEF IInv
  <2> USE <1>2 DEF FlushFindsClient, IsOpen, client, wire, locks, GoTo
  <2>1. CASE \E caller \in Caller : CallStep(caller)
    <3>1. PICK caller \in Caller : CallStep(caller)
      BY <2>1
    <3>2. at[caller] \in DOMAIN Method /\ rtspClient' = rtspClient
      BY <2>0, <3>1, Places
         DEF CallStep, SendRequest, ReceiveResponse, TimeOut, CallFails, Types
    <3>3. CASE caller = "player"
      <4>1. at'["player"] # "isOpen" \/ at' = at
        BY <2>0, <3>1, <3>2, <3>3, Places
           DEF CallStep, SendRequest, ReceiveResponse, TimeOut, CallFails,
               Continue, Types
      <4> QED BY <2>0, <3>2, <3>3, <4>1, Places DEF Types
    <3>4. CASE caller = "manager"
      <4>1. at["manager"] # "detach" /\ at'["player"] = at["player"]
        BY <2>0, <3>1, <3>2, <3>4, Places
           DEF CallStep, SendRequest, ReceiveResponse, TimeOut, CallFails,
               Continue, Types
      <4> QED BY <3>2, <4>1
    <3> QED BY <3>3, <3>4
  <2>2. CASE Attach \/ Detach \/ DestroyClient
    BY <2>0, <2>2 DEF Attach, Detach, DestroyClient, Disconnected, Types
  <2>3. CASE Open \/ SetVolume \/ Close
    BY <2>0, <2>3 DEF Open, SetVolume, Close, Types
  <2>4. CASE Reset \/ Flush \/ Prune
    BY <2>0, <2>4 DEF Reset, Flush, Prune, Types
  <2>5. CASE Serve \/ Refuse("denied") \/ Refuse("error")
    BY <2>5 DEF Serve, Grant, Refuse, Respond
  <2>6. CASE ConnectionLost
    BY <2>6 DEF ConnectionLost, Disconnected
  <2>7. CASE UNCHANGED vars
    BY <2>7 DEF vars
  <2> QED BY <2>1, <2>2, <2>3, <2>4, <2>5, <2>6, <2>7
          DEF Next, ManagerStep, PlayerStep
<1> QED BY <1>1, <1>2, AlwaysIInv, PTL DEF Spec
=============================================================================
