------------------------------ MODULE TimedSound ------------------------------
(***************************************************************************)
(* What the appliance promises of its sound, without its parts: there is   *)
(* never sound without a fuse that burns, and nothing but its end puts the *)
(* fuse out; at that moment the sound ends and the appliance sleeps.       *)
(*                                                                         *)
(* WakeUp implements this with a media player, a sleep timer, an alarm     *)
(* monitor and a power control.                                            *)
(***************************************************************************)

VARIABLES
    awake,          \* the appliance is active
    sound,          \* the player plays
    fuse            \* a time is set at which the sound will be stopped

vars == <<awake, sound, fuse>>

Init == awake = FALSE /\ sound = FALSE /\ fuse = FALSE

(* An alarm: the appliance wakes up, with sound now or later. *)
Ring == awake' = TRUE /\ fuse' = TRUE /\ sound' \in BOOLEAN

(* Sound starts, by hand or late, and a fuse burns from then on. *)
Sound == ~sound /\ sound' = TRUE /\ fuse' = TRUE /\ UNCHANGED awake

Silence == sound /\ sound' = FALSE /\ UNCHANGED <<awake, fuse>>

Light == fuse' = TRUE /\ UNCHANGED <<awake, sound>>

BurnDown == fuse /\ fuse' = FALSE /\ sound' = FALSE /\ awake' = FALSE

Wake == ~awake /\ awake' = TRUE /\ UNCHANGED <<sound, fuse>>

Sleep == awake /\ awake' = FALSE /\ sound' = FALSE /\ UNCHANGED fuse

Next == Ring \/ Sound \/ Silence \/ Light \/ BurnDown \/ Wake \/ Sleep

Spec == Init /\ [][Next]_vars

==============================================================================
