------------------------------- MODULE MCWakeUp -------------------------------
(* Instances of WakeUp for TLC; the .cfg files give the constants. *)
EXTENDS WakeUp
==============================================================================
