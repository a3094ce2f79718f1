------------------------------- MODULE Playback -------------------------------
(***************************************************************************)
(* MediaPlayerProxy between the items of the user, with their saved        *)
(* positions, and the media backend, which reports when it likes; with the *)
(* volume, the wheel that turns it and the configuration that keeps it.    *)
(*                                                                         *)
(* WakeUp looks at the same player for what sounds and when it ends; here  *)
(* it is which position belongs to which item.  An action is one handler   *)
(* with its direct connections.                                            *)
(***************************************************************************)
EXTENDS Naturals

CONSTANTS
    Items,          \* episodes, stations and the media of alarms
    Seekable,       \* those of them that have positions
    NoItem,         \* current_item is null; no media is loaded
    Fallback,       \* the playlist of AlarmMonitor
    MaxPosition,    \* bound: the end of every item
    MaxVolume,      \* 100 percent
    PresetVolumes   \* the volume of alarms, and of the fallback sound

ASSUME PlaybackAssumption ==
    /\ Seekable \subseteq Items /\ Items # {}
    /\ NoItem \notin Items /\ Fallback \notin Items /\ NoItem # Fallback
    /\ MaxPosition \in Nat /\ MaxVolume \in Nat
    /\ PresetVolumes \subseteq 0..MaxVolume

VARIABLES
    item,           \* MediaPlayerProxy::current_item
    tracks,         \* MediaPlayerProxy::position_updateable
    saved,          \* PlayableItem::position of every item
    back,           \* the backend
    told,           \* the position it has reported last
    armed,          \* AlarmMonitor::fallback_alarm_timer runs
    wheel,          \* VolumeButton::enable_volume_changes
    volume,         \* MediaPlayerProxy::linear_volume
    cfgVolume,      \* Configuration::volume
    mark,           \* history: where each item was heard last, as far as reported
    spoiled,        \* history: items whose position is known to get lost
    reread          \* history: a volume was read from the file and none set since

vars == <<item, tracks, saved, back, told, armed, wheel, volume, cfgVolume, mark, spoiled, reread>>

proxyVars  == <<item, tracks, saved, mark, spoiled>>
volumeVars == <<volume, cfgVolume, reread>>

Position == 0..MaxPosition

(* "Stopped" is the state after stop(), "Ended" the one the backend reaches *)
(* by itself: the proxy sees both as StoppedState.                          *)
Backend == [media : Items \cup {NoItem, Fallback}, pos : Position, seekable : BOOLEAN,
            state : {"Stopped", "Playing", "Paused", "Ended"}]

TypeOK ==
    /\ item \in Items \cup {NoItem}
    /\ tracks \in BOOLEAN
    /\ saved \in [Items -> Position]
    /\ back \in Backend
    /\ told \in Position
    /\ armed \in BOOLEAN /\ wheel \in BOOLEAN /\ reread \in BOOLEAN
    /\ volume \in 0..MaxVolume /\ cfgVolume \in 0..MaxVolume
    /\ mark \in [Items -> Position]
    /\ spoiled \subseteq Items

------------------------------------------------------------------------------
(* Volume. *)

(* Mutant: off by one. *)
ClampLate(v) == IF v > MaxVolume + 1 THEN MaxVolume ELSE v

Clamp(v) == IF v > MaxVolume THEN MaxVolume ELSE v

(* Mutant: the proxy takes the volume as it comes. *)
SetVolumeUnclamped(v) ==
    /\ volume' = v
    /\ cfgVolume' = Clamp(v)
    /\ reread' = FALSE

(* MediaPlayer::set_volume() clamps, do_set_volume() signals, and main()    *)
(* connects volume_changed to Configuration::set_volume(), which clamps,    *)
(* too.                                                                     *)
SetVolume(v) ==
    /\ volume' = Clamp(v)
    /\ cfgVolume' = Clamp(v)
    /\ reread' = FALSE

------------------------------------------------------------------------------
(* Calls of the backend. *)

(* Only a tracked item takes a position. *)
Save(p) == IF tracks /\ item # NoItem THEN [saved EXCEPT ![item] = p] ELSE saved

(* New media: the backend stops, is at the start and not seekable, and      *)
(* says so; whether it tells of the position or of seeking first is up to   *)
(* it.  The proxy has exchanged current_item already.                       *)
ZeroSaved(i, order) ==
    IF order = "position first" /\ tracks /\ told # 0 /\ i \in Items
    THEN [saved EXCEPT ![i] = 0] ELSE saved

Order == {"position first", "seekable first"}

Spoils(i, order) ==
    order = "position first" /\ back.seekable /\ back.state # "Stopped" /\ told # 0

(* The position given right after setMedia() is taken, or comes too early.  *)
Resume(p, taken) == IF taken THEN p ELSE 0

(* do_set_media(), then play(). *)
LoadAndPlay(i, order, taken) ==
    LET p == Resume(saved[i], taken)
    IN  /\ item' = i
        /\ saved' = ZeroSaved(i, order)
        /\ tracks' = (tracks /\ ~back.seekable)
        /\ back' = [media |-> i, pos |-> p, seekable |-> FALSE, state |-> "Playing"]
        /\ told' = p
        /\ spoiled' = IF Spoils(i, order) THEN spoiled \cup {i} ELSE spoiled
        /\ UNCHANGED mark

(* Mutant: stop() leaves the tracking on. *)
StopTracking ==
    /\ UNCHANGED tracks
    /\ \E keeps \in BOOLEAN :
          back' = [back EXCEPT !.state = "Stopped", !.pos = 0, !.seekable = @ /\ keeps]

(* do_stop(): the backend goes to the start, seekable or not. *)
Stop ==
    /\ tracks' = FALSE
    /\ \E keeps \in BOOLEAN :
          back' = [back EXCEPT !.state = "Stopped", !.pos = 0, !.seekable = @ /\ keeps]

------------------------------------------------------------------------------
(* The backend, by itself. *)

Plays ==
    /\ back.state = "Playing" /\ back.pos < MaxPosition
    /\ back' = [back EXCEPT !.pos = @ + 1]
    /\ UNCHANGED <<proxyVars, told, armed, wheel, volumeVars>>

Ends ==
    /\ back.state = "Playing" /\ back.pos = MaxPosition /\ back.media # Fallback
    /\ back' = [back EXCEPT !.state = "Ended"]
    /\ UNCHANGED <<proxyVars, told, armed, wheel, volumeVars>>

(* The fallback playlist loops. *)
Loops ==
    /\ back.state = "Playing" /\ back.pos = MaxPosition /\ back.media = Fallback
    /\ back' = [back EXCEPT !.pos = 0]
    /\ UNCHANGED <<proxyVars, told, armed, wheel, volumeVars>>

(* Mutant: the media goes on where the backend is. *)
SeekableStays ==
    /\ tracks' = TRUE
    /\ back' = [back EXCEPT !.seekable = TRUE]

(* Mutant: the tracking is not switched on again. *)
SeekableUntracked ==
    /\ UNCHANGED tracks
    /\ back' = [back EXCEPT !.seekable = TRUE, !.pos = saved[item]]

(* seekableChanged(true): the tracking starts, and the saved position is    *)
(* set again now that it can be.                                            *)
BecomesSeekable ==
    /\ tracks' = TRUE
    /\ back' = [back EXCEPT !.seekable = TRUE, !.pos = saved[item]]

(* The media is known well enough. *)
Loaded ==
    /\ back.media \in Seekable \cup {Fallback}
    /\ back.state = "Playing" /\ ~back.seekable
    /\ BecomesSeekable
    /\ UNCHANGED <<item, saved, mark, spoiled, told, armed, wheel, volumeVars>>

(* seekableChanged(false): its source cannot be searched for a while. *)
Glitch ==
    /\ back.seekable /\ back.media \in Seekable
    /\ back' = [back EXCEPT !.seekable = FALSE]
    /\ tracks' = FALSE
    /\ UNCHANGED <<item, saved, mark, spoiled, told, armed, wheel, volumeVars>>

(* positionChanged(). *)
ReportPosition ==
    /\ told # back.pos
    /\ told' = back.pos
    /\ saved' = Save(back.pos)
    /\ mark' = IF back.media \in Items /\ back.seekable /\ back.state # "Stopped"
               THEN [mark EXCEPT ![back.media] = back.pos] ELSE mark
    /\ UNCHANGED <<item, tracks, spoiled, back, armed, wheel, volumeVars>>

(* Mutant: the monitor reacts to every error. *)
ReactsAlways == TRUE

MonitorReacts == armed

(* An error ends the playback; AlarmMonitor::trigger_fallback_behavior()    *)
(* sets volume and playlist, and plays.  current_item stays.                *)
PlayerError(order) ==
    /\ IF MonitorReacts
       THEN /\ \E v \in PresetVolumes : SetVolume(v)
            /\ saved' = ZeroSaved(item, order)
            /\ tracks' = (tracks /\ ~back.seekable)
            /\ back' = [media |-> Fallback, pos |-> 0, seekable |-> FALSE, state |-> "Playing"]
            /\ told' = 0
            /\ spoiled' = spoiled \cup ({item} \ {NoItem})
       ELSE /\ back.media # NoItem
            /\ back' = [back EXCEPT !.state = IF @ = "Stopped" THEN @ ELSE "Ended"]
            /\ UNCHANGED <<saved, tracks, told, spoiled, volumeVars>>
    /\ UNCHANGED <<item, mark, armed, wheel>>

------------------------------------------------------------------------------
(* The user, alarms and timers. *)

(* send_to_player() of a list. *)
Choose(i) ==
    /\ \E order \in Order, taken \in BOOLEAN : LoadAndPlay(i, order, taken)
    /\ UNCHANGED <<armed, wheel, volumeVars>>

(* AlarmMonitor::alarm_triggered(), and PowerControl::active(true).         *)
Alarm(i) ==
    /\ \E order \in Order, taken \in BOOLEAN : LoadAndPlay(i, order, taken)
    /\ \E v \in PresetVolumes : SetVolume(v)
    /\ armed' = TRUE
    /\ wheel' = TRUE

MonitorTimeout ==
    /\ armed
    /\ armed' = FALSE
    /\ UNCHANGED <<proxyVars, back, told, wheel, volumeVars>>

(* going_in_standby() stops player and monitor, active(false) the wheel. *)
Standby ==
    /\ Stop
    /\ armed' = FALSE
    /\ wheel' = FALSE
    /\ UNCHANGED <<item, saved, mark, spoiled, told, volumeVars>>

(* Release of the button: PowerControl::toggle_power_state(). *)
Wakes ==
    /\ ~wheel
    /\ wheel' = TRUE
    /\ UNCHANGED <<proxyVars, back, told, armed, volumeVars>>

(* The play button; after stop() the saved position comes back only if the  *)
(* backend has to find out again that it can seek.                          *)
Play ==
    /\ back.media # NoItem /\ back.state # "Playing"
    /\ back' = [back EXCEPT !.state = "Playing", !.pos = IF back.state = "Ended" THEN 0 ELSE @]
    /\ spoiled' = IF back.state = "Stopped" /\ back.seekable /\ item # NoItem
                  THEN spoiled \cup {item} ELSE spoiled
    /\ UNCHANGED <<item, tracks, saved, mark, told, armed, wheel, volumeVars>>

Pause ==
    /\ back.state = "Playing"
    /\ back' = [back EXCEPT !.state = "Paused"]
    /\ UNCHANGED <<proxyVars, told, armed, wheel, volumeVars>>

(* The buttons and the slider: do_seek(), set_position(). *)
Seek(p) ==
    /\ back.seekable /\ p # back.pos
    /\ back' = [back EXCEPT !.pos = p]
    /\ UNCHANGED <<proxyVars, told, armed, wheel, volumeVars>>

(* process_rotary_event(), increment_volume(). *)
Rotate(up) ==
    /\ wheel
    /\ SetVolume(IF up THEN volume + 1 ELSE IF volume = 0 THEN 0 ELSE volume - 1)
    /\ UNCHANGED <<proxyVars, back, told, armed, wheel>>

(* The slider of the pop-up, which may be open in standby. *)
VolumeSlider(v) ==
    /\ SetVolume(v)
    /\ UNCHANGED <<proxyVars, back, told, armed, wheel>>

(* The file is read again; the player is not told. *)
Reload(v) ==
    /\ cfgVolume' = v
    /\ reread' = (v # volume)
    /\ UNCHANGED <<proxyVars, back, told, armed, wheel, volume>>

------------------------------------------------------------------------------
Init ==
    /\ item = NoItem
    /\ tracks = FALSE
    /\ saved \in [Items -> Position] /\ \A i \in Items \ Seekable : saved[i] = 0
    /\ back = [media |-> NoItem, pos |-> 0, seekable |-> FALSE, state |-> "Stopped"]
    /\ told = 0
    /\ armed = FALSE
    /\ wheel = FALSE
    /\ volume \in 0..MaxVolume
    /\ cfgVolume = volume
    /\ mark = saved
    /\ spoiled = {}
    /\ reread = FALSE

BackendActs ==
    \/ Plays \/ Ends \/ Loops \/ Loaded
    \/ ReportPosition
    \/ \E order \in Order : PlayerError(order)

User ==
    \/ \E i \in Items : Choose(i)
    \/ Standby \/ Wakes \/ Play \/ Pause
    \/ \E p \in Position : Seek(p)
    \/ \E up \in BOOLEAN : Rotate(up)
    \/ \E v \in 0..MaxVolume : VolumeSlider(v) \/ Reload(v)

Next == BackendActs \/ Glitch \/ User \/ MonitorTimeout \/ \E i \in Items : Alarm(i)

Spec     == Init /\ [][Next]_vars
FairSpec == Spec /\ WF_vars(Loaded)

------------------------------------------------------------------------------
(***************************************************************************)
(* Properties.                                                             *)
(***************************************************************************)

(* Whenever the backend may report something there is a current_item, which *)
(* the slots for media, seeking and metadata dereference without a look:    *)
(* the playlist of the fallback is never the first media.  What cannot be   *)
(* searched is not tracked.                                                 *)
ReportsHaveItem ==
    /\ back.media # NoItem => item # NoItem
    /\ back.media # Fallback => back.media = item
    /\ tracks => back.seekable

(* The saved position of an item is the one at which it was heard last, as  *)
(* far as the backend has reported it: neither stop(), which goes to the    *)
(* start, nor an item chosen before or after, nor a source that cannot be   *)
(* searched for a while, changes it.  Known to be lost are items that the   *)
(* fallback sound replaces, items whose load reports position 0 while the   *)
(* tracking of the last item is on, and items played again after a stop()   *)
(* that left them seekable.                                                 *)
PositionIsKept == \A i \in Seekable \ spoiled : saved[i] = mark[i]

(* A seekable item that starts to be tracked goes on where it was heard     *)
(* last.                                                                    *)
GoesOnWhereItWas ==
    [][\A i \in Seekable \ spoiled :
           item = i /\ ~tracks /\ tracks' => back'.pos = mark[i]]_vars

(* A seekable item that plays undisturbed is tracked in the end. *)
TrackedInTheEnd ==
    <>[][~(User \/ Glitch)]_vars =>
        []<>(back.state = "Playing" /\ back.media \in Seekable \ spoiled => tracks)

(* The configuration holds the volume of the player, however it was set; of *)
(* a volume read from the file only the configuration knows.                *)
VolumeIsConfigured == reread \/ cfgVolume = volume

==============================================================================
