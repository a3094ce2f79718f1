-------------------------------- MODULE WakeUp --------------------------------
(***************************************************************************)
(* What happens around an alarm: AlarmMonitor, SleepTimer, PowerControl    *)
(* and the media player, wired together as qtgui/main.cpp does it.         *)
(*                                                                         *)
(* All objects live on the GUI thread and all connections are direct, so a *)
(* signal runs its slots, in the order of the connect() calls, inside the  *)
(* handler that emits it: an action is one turn of the event loop.  The    *)
(* AlarmDispatcher is the environment here: an alarm may trigger any time. *)
(***************************************************************************)
EXTENDS Naturals, PlayerBackend, SleepTimer

CONSTANTS
    FallbackTimeout,    \* AlarmMonitor's grace period (20 s in main.cpp)
    AlarmTimeouts,      \* Alarm::timeout of the alarms that trigger
    SleepTimeouts       \* values of Configuration::sleep_timeout

ASSUME WakeUpAssumption ==
    /\ FallbackTimeout \in Nat
    /\ AlarmTimeouts \subseteq Nat /\ AlarmTimeouts # {}
    /\ SleepTimeouts \subseteq Nat /\ SleepTimeouts # {}

VARIABLES
    player,         \* the backend, see PlayerBackend
    monitor,        \* AlarmMonitor: its state and fallback_alarm_timer
    sleep,          \* SleepTimer, see SleepTimer
    sleepTimeout,   \* Configuration::sleep_timeout
    power,          \* PowerControl::state
    controls,       \* last active(bool): volume wheel, widgets, backlight
    popup,          \* PlayerControlWidget is open
    session         \* history: the alarm the user has not interfered with

vars == <<player, monitor, sleep, sleepTimeout, power, controls, popup, session>>

Timeouts == AlarmTimeouts \cup SleepTimeouts
Monitor  == [state : {"Idle", "Armed", "FallBackMode"}, active : BOOLEAN, left : Nat]
Sleep    == [activity : Activity, active : BOOLEAN, left : Nat, interval : Timeouts]

TypeOK ==
    /\ player \in Player
    /\ monitor \in Monitor
    /\ sleep \in Sleep
    /\ sleepTimeout \in SleepTimeouts
    /\ power \in {"Active", "Standby"}
    /\ controls \in BOOLEAN
    /\ popup \in BOOLEAN
    /\ session \in BOOLEAN

------------------------------------------------------------------------------
(* Signals of the player: SleepTimer listens to playback_state_changed. *)

SleepHears(s, before, after) ==
    IF Starts(before, after) THEN PlaybackStarted(s, sleepTimeout) ELSE s

(* Mutants: a connection of main.cpp is missing. *)
StandbyWithoutMonitor ==
    /\ player' = Stop(player)
    /\ controls' = FALSE
    /\ session' = FALSE
    /\ UNCHANGED monitor

StandbyWithoutPlayer ==
    /\ monitor' = [state |-> "Idle", active |-> FALSE, left |-> 0]
    /\ controls' = FALSE
    /\ session' = FALSE
    /\ UNCHANGED player

(* PowerControl::going_in_standby and active(false): the player stops, the  *)
(* monitor is disarmed, the controls are disabled.  The sleep timer is not  *)
(* told.                                                                    *)
GoingInStandby ==
    /\ player' = Stop(player)
    /\ monitor' = [state |-> "Idle", active |-> FALSE, left |-> 0]
    /\ controls' = FALSE
    /\ session' = FALSE

(* Mutant: signals only when the state changes. *)
StandbyOnlyOnce ==
    IF power = "Active"
    THEN power' = "Standby" /\ GoingInStandby
    ELSE UNCHANGED <<power, player, monitor, controls, session>>

(* PowerControl::standby(): its signals are emitted in standby, too. *)
Standby ==
    /\ power' = "Standby"
    /\ GoingInStandby

------------------------------------------------------------------------------
(* AlarmDispatcher::alarm_triggered: AlarmMonitor::alarm_triggered() loads  *)
(* and starts the alarm's media, and only then starts its timer;            *)
(* PowerControl::activate(); SleepTimer::alarm_triggered().                 *)
AlarmTriggered(timeout, outcome) ==
    LET loaded  == SetMedia("alarm")
        started == Play(loaded, outcome)
        heard   == SleepHears(sleep, loaded, started)
    IN  /\ player' = started
        /\ monitor' = [state |-> "Armed", active |-> TRUE, left |-> FallbackTimeout]
        /\ power' = "Active"
        /\ controls' = TRUE
        /\ sleep' = AlarmStarted(heard, timeout)
        /\ session' = TRUE
        /\ UNCHANGED <<sleepTimeout, popup>>

(* Mutant: the fallback playlist is loaded and not played. *)
PlayerErrorWithoutPlay(outcome) ==
    /\ player.media # "none"
    /\ IF monitor.active
       THEN /\ player' = SetMedia("fallback")
            /\ monitor' = [monitor EXCEPT !.state = "FallBackMode"]
       ELSE /\ player' = Stop(player)
            /\ UNCHANGED monitor
    /\ UNCHANGED <<sleep, sleepTimeout, power, controls, popup, session>>

(* The backend reports an error; errors are queued, so it may come late.    *)
(* The monitor reacts while its timer runs: trigger_fallback_behavior().    *)
PlayerError(outcome) ==
    LET failed  == Stop(player)
        loaded  == SetMedia("fallback")
        started == Play(loaded, outcome)
    IN  /\ player.media # "none"
        /\ IF monitor.active
           THEN /\ player' = started
                /\ monitor' = [monitor EXCEPT !.state = "FallBackMode"]
                /\ sleep' = SleepHears(sleep, loaded, started)
           ELSE /\ player' = failed
                /\ UNCHANGED <<monitor, sleep>>
        /\ UNCHANGED <<sleepTimeout, power, controls, popup, session>>

(* The backend starts to play at last. *)
PlayerStarts ==
    /\ player.pending
    /\ player' = [player EXCEPT !.state = "Playing", !.pending = FALSE]
    /\ sleep' = SleepHears(sleep, player, player')
    /\ UNCHANGED <<monitor, sleepTimeout, power, controls, popup, session>>

(* A stream or an episode ends; the fallback playlist loops. *)
PlayerEnds ==
    /\ player.state = "Playing" /\ player.media # "fallback"
    /\ player' = Stop(player)
    /\ UNCHANGED <<monitor, sleep, sleepTimeout, power, controls, popup, session>>

------------------------------------------------------------------------------
(* Timers. *)

Expired(t) == t.active /\ t.left = 0

(* Mutant: the state of the monitor is forgotten. *)
MonitorTimeoutKeepsState ==
    /\ Expired(monitor)
    /\ monitor' = [monitor EXCEPT !.active = FALSE]
    /\ UNCHANGED <<player, sleep, sleepTimeout, power, controls, popup, session>>

(* fallback_alarm_timer elapses: the monitor is idle, whatever plays. *)
MonitorTimeout ==
    /\ Expired(monitor)
    /\ monitor' = [monitor EXCEPT !.state = "Idle", !.active = FALSE]
    /\ UNCHANGED <<player, sleep, sleepTimeout, power, controls, popup, session>>

(* sleep_timer elapses: sleep_timer_elapsed is connected to standby(). *)
SleepElapsed ==
    /\ Expired(sleep)
    /\ sleep' = Elapsed(sleep)
    /\ Standby
    /\ UNCHANGED <<sleepTimeout, popup>>

OneLess(t) == IF t.active THEN [t EXCEPT !.left = @ - 1] ELSE t

Tick ==
    /\ monitor.active \/ sleep.active
    /\ ~Expired(monitor) /\ ~Expired(sleep)
    /\ monitor' = OneLess(monitor)
    /\ sleep' = OneLess(sleep)
    /\ UNCHANGED <<player, sleepTimeout, power, controls, popup, session>>

------------------------------------------------------------------------------
(* The user. *)

(* The push button: PowerControl::toggle_power_state(). *)
Button ==
    /\ IF power = "Active"
       THEN Standby
       ELSE /\ power' = "Active"
            /\ controls' = TRUE
            /\ UNCHANGED <<player, monitor, session>>
    /\ UNCHANGED <<sleep, sleepTimeout, popup>>

(* A station or an episode is chosen from a list: send_to_player().  The    *)
(* lists are only reached with the controls enabled.                        *)
ChooseMedia(outcome) ==
    LET loaded  == SetMedia("user")
        started == Play(loaded, outcome)
    IN  /\ controls
        /\ player' = started
        /\ sleep' = SleepHears(sleep, loaded, started)
        /\ session' = FALSE
        /\ UNCHANGED <<monitor, sleepTimeout, power, controls, popup>>

(* The pop-up with the player controls opens only when the controls are     *)
(* enabled, but standby does not close it; it closes after some time.       *)
OpenPopup ==
    /\ controls /\ ~popup
    /\ popup' = TRUE
    /\ UNCHANGED <<player, monitor, sleep, sleepTimeout, power, controls, session>>

ClosePopup ==
    /\ popup
    /\ popup' = FALSE
    /\ UNCHANGED <<player, monitor, sleep, sleepTimeout, power, controls, session>>

(* Its button pauses the player or makes it play. *)
PlayPause(outcome) ==
    /\ popup
    /\ player' = IF player.state = "Playing" THEN Pause(player)
                                             ELSE Play(player, outcome)
    /\ sleep' = SleepHears(sleep, player, player')
    /\ session' = FALSE
    /\ UNCHANGED <<monitor, sleepTimeout, power, controls, popup>>

(* A press on the remaining time, shown while the player plays. *)
PressRemainingTime ==
    /\ player.state = "Playing"
    /\ sleep' = ResetTimer(sleep)
    /\ UNCHANGED <<player, monitor, sleepTimeout, power, controls, popup, session>>

(* SleepTimer::set_sleep_timeout(), from a menu that stays usable in        *)
(* standby.                                                                 *)
SetSleepTimeout(t) ==
    /\ sleepTimeout' = t
    /\ sleep' = TimeoutChanged(sleep, t)
    /\ session' = FALSE
    /\ UNCHANGED <<player, monitor, power, controls, popup>>

(* Configuration reads another sleep timeout from its file; SleepTimer      *)
(* looks at it when the player starts the next time.                        *)
ReloadTimeout(t) ==
    /\ t # sleepTimeout
    /\ sleepTimeout' = t
    /\ UNCHANGED <<player, monitor, sleep, power, controls, popup, session>>

------------------------------------------------------------------------------
(* main() ends with power.standby(). *)
Init ==
    /\ player = NoMedia
    /\ monitor = [state |-> "Idle", active |-> FALSE, left |-> 0]
    /\ sleepTimeout \in SleepTimeouts
    /\ sleep = [activity |-> "Idle", active |-> FALSE, left |-> 0,
                interval |-> sleepTimeout]
    /\ power = "Standby"
    /\ controls = FALSE
    /\ popup = FALSE
    /\ session = FALSE

Alarms == \E timeout \in AlarmTimeouts, outcome \in Outcome :
              AlarmTriggered(timeout, outcome)

Backend == PlayerStarts \/ PlayerEnds \/ \E outcome \in Outcome : PlayerError(outcome)

Timers == MonitorTimeout \/ SleepElapsed \/ Tick

User ==
    \/ Button
    \/ OpenPopup \/ ClosePopup
    \/ PressRemainingTime
    \/ \E outcome \in Outcome : ChooseMedia(outcome) \/ PlayPause(outcome)
    \/ \E t \in SleepTimeouts : SetSleepTimeout(t) \/ ReloadTimeout(t)

Next == Alarms \/ Backend \/ Timers \/ User

(* Time passes and the event loop serves its timers; nothing is assumed of  *)
(* the backend, of alarms or of users.                                      *)
Fairness == WF_vars(MonitorTimeout) /\ WF_vars(SleepElapsed) /\ WF_vars(Tick)

Spec     == Init /\ [][Next]_vars
FairSpec == Spec /\ Fairness

------------------------------------------------------------------------------
(***************************************************************************)
(* Properties.                                                             *)
(***************************************************************************)

(* The fallback timer and the state of the monitor go together, and the     *)
(* monitor is never armed in standby: AlarmMonitor::stop() and the timeout  *)
(* leave nothing behind that could start the fallback later.                *)
MonitorCoherent ==
    /\ monitor.active <=> monitor.state # "Idle"
    /\ monitor.active => power = "Active"

(* Whatever plays, the sleep timer runs: it will be stopped. *)
SoundHasTimer == player.state = "Playing" => sleep.active

(* In standby nothing starts to play by itself: neither a late error of the *)
(* backend nor a timer wakes the player, only an alarm or a hand on the     *)
(* controls that were still open.                                           *)
StandbyStaysSilent ==
    [][power = "Standby" /\ power' = "Standby" /\ Silent(player) /\ ~popup
        => Silent(player')]_vars

(* As long as the monitor is in fallback mode and the user keeps his hands  *)
(* off, the fallback sound is what is loaded, playing or about to.          *)
FallbackKeepsSounding ==
    session /\ monitor.state = "FallBackMode" =>
        player.media = "fallback" /\ ~Silent(player)

(* A player that is left alone is stopped in the end. *)
SoundEnds == <>[][~(User \/ Alarms)]_vars => <>[](player.state # "Playing")

(* When the grace period ends and the media of the alarm has still not      *)
(* started to play, the monitor falls back.                                 *)
FallbackIfNotStarted ==
    [][MonitorTimeout /\ session /\ player.pending
        => player'.media = "fallback"]_vars

(* WakeUp implements TimedSound: the sleep timer is the fuse.  No order of  *)
(* alarms, errors, timers and key presses puts the timer out but its end,   *)
(* and no sound outlives that end, in whatever state the power control is.  *)
Promise == INSTANCE TimedSound WITH
    awake <- power = "Active",
    sound <- player.state = "Playing",
    fuse  <- sleep.active

KeepsPromise == Promise!Spec

==============================================================================
