-------------------------- MODULE MCAlarmDispatcher --------------------------
(* Instances of AlarmDispatcher for TLC; the .cfg files give the constants. *)
EXTENDS AlarmDispatcher
==============================================================================
