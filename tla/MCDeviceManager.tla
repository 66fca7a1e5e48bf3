-------------------------- MODULE MCDeviceManager --------------------------
(* An instance of DeviceManager for TLC.  The embrace may be the end, and   *)
(* nothing else (deadlock is checked).                                      *)
EXTENDS DeviceManager

MCNext == Next \/ (Embrace /\ UNCHANGED vars)

MCSpec == Init /\ [][MCNext]_vars /\ Fairness
=============================================================================
