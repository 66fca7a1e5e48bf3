------------------------- MODULE MCDeviceDiscovery --------------------------
(* An instance of DeviceDiscovery for TLC.                                  *)
EXTENDS DeviceDiscovery, TLC

CONSTANTS a, b, x

(* Two services share their device's name.                                  *)
Names == a :> x @@ b :> x

(* References that are free are alike unless something still refers to one  *)
(* of them: of those that are alike a new operation takes one.              *)
Alike(r, s) ==
  /\ services[r] = services[s]
  /\ r \in abandoned <=> s \in abandoned
  /\ \A stale \in {discovery, dialogRef} : r = stale <=> s = stale

OneOfAlike ==
  \A r \in Free : operation'[r] # None \/ r \in activeRefs' \ activeRefs =>
    r = CHOOSE s \in Free : Alike(r, s)

(* A bound: a dialog is opened as long as nothing has failed, and until it  *)
(* is closed neither does the daemon go nor an operation fail by itself.    *)
DialogUndisturbed ==
  dialog' # "closed" =>
    /\ stops' = 0 /\ at' # "failed"
    /\ dialog = "closed" => failures = 0

(* The embrace may be the end, and undefined behaviour is.                  *)
MCNext ==
  \/ Next /\ OneOfAlike /\ DialogUndisturbed
  \/ (Embrace \/ undefined) /\ UNCHANGED vars

MCSpec == Init /\ [][MCNext]_vars /\ Fairness
=============================================================================
