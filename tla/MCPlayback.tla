------------------------------ MODULE MCPlayback ------------------------------
(* Instance of Playback for TLC; Playback.cfg gives the constants. *)
EXTENDS Playback
==============================================================================
