----------------------------- MODULE WakeUp_proofs -----------------------------
(***************************************************************************)
(* The safety invariants of WakeUp, that nothing wakes the player in       *)
(* standby, and that WakeUp implements TimedSound, for all timeouts.       *)
(***************************************************************************)
EXTENDS WakeUp, TLAPS

(* What the invariants need besides each other: SleepTimer leaves a timer   *)
(* alone only where an alarm has started it, and the controls are enabled   *)
(* exactly while the power control is active.                               *)
AlarmHasTimer       == sleep.activity = "Alarm" => sleep.active
ControlsFollowPower == controls <=> power = "Active"

IInv ==
    /\ TypeOK
    /\ MonitorCoherent
    /\ SoundHasTimer
    /\ FallbackKeepsSounding
    /\ AlarmHasTimer
    /\ ControlsFollowPower

------------------------------------------------------------------------------
(* The player. *)

LEMMA PlayerTypes ==
    /\ \A m \in Media : SetMedia(m) \in Player
    /\ \A p \in Player, o \in Outcome : Play(p, o) \in Player
    /\ \A p \in Player : Pause(p) \in Player /\ Stop(p) \in Player
  BY DEF SetMedia, Play, Pause, Stop, Player, PlaybackState, Media, Outcome

(* Loaded media is what plays, or is about to, after play(). *)
LEMMA PlayLoaded ==
    ASSUME NEW m \in Media \ {"none"}, NEW o \in Outcome
    PROVE  /\ Play(SetMedia(m), o) \in Player
           /\ Play(SetMedia(m), o).media = m
           /\ ~Silent(Play(SetMedia(m), o))
           /\ Starts(SetMedia(m), Play(SetMedia(m), o))
                  <=> Play(SetMedia(m), o).state = "Playing"
  BY DEF SetMedia, Play, Silent, Starts, Player, PlaybackState, Media, Outcome

LEMMA StopSilences ==
    ASSUME NEW p \in Player
    PROVE  Stop(p) \in Player /\ Silent(Stop(p)) /\ Stop(p).state = "Stopped"
  BY DEF Stop, Silent, Player, PlaybackState

------------------------------------------------------------------------------
(* The sleep timer. *)

(* A timer that is started runs, and nothing but its end stops it. *)
LEMMA StartTimerRuns ==
    ASSUME NEW s \in Sleep, NEW t \in Timeouts
    PROVE  StartTimer(s, t) \in Sleep /\ StartTimer(s, t).active
  BY WakeUpAssumption DEF StartTimer, Sleep, Timeouts

LEMMA SleepHearsRuns ==
    ASSUME NEW s \in Sleep, NEW p, NEW q, sleepTimeout \in SleepTimeouts,
           s.activity = "Alarm" => s.active
    PROVE  /\ SleepHears(s, p, q) \in Sleep
           /\ SleepHears(s, p, q).activity = "Alarm" => SleepHears(s, p, q).active
           /\ s.active => SleepHears(s, p, q).active
           /\ Starts(p, q) => SleepHears(s, p, q).active
  <1>1. StartTimer(s, sleepTimeout) \in Sleep /\ StartTimer(s, sleepTimeout).active
    BY StartTimerRuns DEF Timeouts
  <1> QED
    BY <1>1 DEF SleepHears, PlaybackStarted, Sleep, Activity

LEMMA AlarmStartedRuns ==
    ASSUME NEW s \in Sleep, NEW t \in AlarmTimeouts
    PROVE  AlarmStarted(s, t) \in Sleep /\ AlarmStarted(s, t).active
  <1>1. StartTimer(s, t) \in Sleep /\ StartTimer(s, t).active
    BY StartTimerRuns DEF Timeouts
  <1> QED
    BY <1>1 DEF AlarmStarted, Sleep, Activity

------------------------------------------------------------------------------
(* The inductive invariant. *)

LEMMA InitIInv == Init => IInv
  <1> SUFFICES ASSUME Init PROVE IInv
    OBVIOUS
  <1>1. player \in Player /\ player.state = "Stopped"
    BY DEF Init, NoMedia, Player, PlaybackState, Media
  <1>2. monitor \in Monitor /\ ~monitor.active /\ monitor.state = "Idle"
    BY DEF Init, Monitor
  <1>3. sleepTimeout \in SleepTimeouts /\ sleep \in Sleep /\ sleep.activity = "Idle"
    BY DEF Init, Sleep, Activity, Timeouts
  <1>4. power = "Standby" /\ controls = FALSE /\ popup = FALSE
    BY DEF Init
  <1>5. session \in BOOLEAN /\ ~session
    BY DEF Init
  <1> QED
    BY <1>1, <1>2, <1>3, <1>4, <1>5
    DEF IInv, TypeOK, MonitorCoherent, SoundHasTimer, FallbackKeepsSounding,
        AlarmHasTimer, ControlsFollowPower

(* Standby, whoever calls it: the monitor and the player end up idle. *)
LEMMA StandbyEstablishes ==
    ASSUME player \in Player, Standby
    PROVE  /\ player' \in Player /\ player'.state = "Stopped" /\ Silent(player')
           /\ monitor' \in Monitor /\ ~monitor'.active /\ monitor'.state = "Idle"
           /\ power' = "Standby" /\ controls' = FALSE
           /\ session' = FALSE
  BY StopSilences DEF Standby, GoingInStandby, Monitor

LEMMA AlarmTriggeredIInv ==
    ASSUME IInv, NEW t \in AlarmTimeouts, NEW o \in Outcome, AlarmTriggered(t, o)
    PROVE  IInv'
  <1> DEFINE heard == SleepHears(sleep, SetMedia("alarm"), Play(SetMedia("alarm"), o))
  <1>1. player' \in Player /\ sleep' = AlarmStarted(heard, t)
    BY PlayLoaded DEF AlarmTriggered, Media
  <1>2. heard \in Sleep
    BY SleepHearsRuns DEF IInv, TypeOK, AlarmHasTimer
  <1>3. sleep' \in Sleep /\ sleep'.active
    BY <1>1, <1>2, AlarmStartedRuns
  <1>4. monitor' \in Monitor /\ monitor'.active /\ monitor'.state = "Armed"
    BY WakeUpAssumption DEF AlarmTriggered, Monitor
  <1>5. power' = "Active" /\ controls' = TRUE /\ UNCHANGED <<sleepTimeout, popup>>
        /\ session' = TRUE
    BY DEF AlarmTriggered
  <1> QED
    BY <1>1, <1>3, <1>4, <1>5
    DEF IInv, TypeOK, MonitorCoherent, SoundHasTimer, FallbackKeepsSounding,
        AlarmHasTimer, ControlsFollowPower

LEMMA PlayerErrorIInv ==
    ASSUME IInv, NEW o \in Outcome, PlayerError(o)
    PROVE  IInv'
  <1> DEFINE loaded == SetMedia("fallback")
  <1>1. UNCHANGED <<sleepTimeout, power, controls, popup, session>>
    BY DEF PlayerError
  <1>2. CASE monitor.active
    <2>1. /\ player' = Play(loaded, o)
          /\ monitor' = [monitor EXCEPT !.state = "FallBackMode"]
          /\ sleep' = SleepHears(sleep, loaded, Play(loaded, o))
      BY <1>2 DEF PlayerError
    <2>2. /\ player' \in Player /\ player'.media = "fallback" /\ ~Silent(player')
          /\ Starts(loaded, player') <=> player'.state = "Playing"
      BY <2>1, PlayLoaded DEF Media
    <2>3. /\ sleep' \in Sleep
          /\ sleep'.activity = "Alarm" => sleep'.active
          /\ player'.state = "Playing" => sleep'.active
      BY <2>1, <2>2, SleepHearsRuns DEF IInv, TypeOK, AlarmHasTimer
    <2>4. monitor' \in Monitor /\ monitor'.active /\ monitor'.state = "FallBackMode"
      BY <1>2, <2>1 DEF IInv, TypeOK, Monitor
    <2> QED
      BY <1>1, <1>2, <2>2, <2>3, <2>4
      DEF IInv, TypeOK, MonitorCoherent, SoundHasTimer, FallbackKeepsSounding,
          AlarmHasTimer, ControlsFollowPower
  <1>3. CASE ~monitor.active
    <2>1. player' = Stop(player) /\ UNCHANGED <<monitor, sleep>>
      BY <1>3 DEF PlayerError
    <2>2. player' \in Player /\ player'.state = "Stopped"
      BY <2>1, StopSilences DEF IInv, TypeOK
    <2> QED
      BY <1>1, <1>3, <2>1, <2>2
      DEF IInv, TypeOK, MonitorCoherent, SoundHasTimer, FallbackKeepsSounding,
          AlarmHasTimer, ControlsFollowPower
  <1> QED
    BY <1>2, <1>3

LEMMA SleepElapsedIInv ==
    ASSUME IInv, SleepElapsed
    PROVE  IInv'
  <1>1. /\ player' \in Player /\ player'.state = "Stopped"
        /\ monitor' \in Monitor /\ ~monitor'.active /\ monitor'.state = "Idle"
        /\ power' = "Standby" /\ controls' = FALSE
        /\ session' = FALSE
    BY StandbyEstablishes DEF IInv, TypeOK, SleepElapsed
  <1>2. sleep' \in Sleep /\ sleep'.activity = "Idle"
    BY DEF IInv, TypeOK, SleepElapsed, Elapsed, Sleep, Activity
  <1>3. UNCHANGED <<sleepTimeout, popup>>
    BY DEF SleepElapsed
  <1> QED
    BY <1>1, <1>2, <1>3
    DEF IInv, TypeOK, MonitorCoherent, SoundHasTimer, FallbackKeepsSounding,
        AlarmHasTimer, ControlsFollowPower

LEMMA TickIInv ==
    ASSUME IInv, Tick
    PROVE  IInv'
  <1>1. monitor' \in Monitor /\ monitor'.active = monitor.active
        /\ monitor'.state = monitor.state
    BY DEF IInv, TypeOK, Tick, OneLess, Expired, Monitor
  <1>2. sleep' \in Sleep /\ sleep'.active = sleep.active
        /\ sleep'.activity = sleep.activity
    BY DEF IInv, TypeOK, Tick, OneLess, Expired, Sleep
  <1> QED
    BY <1>1, <1>2
    DEF Tick, IInv, TypeOK, MonitorCoherent, SoundHasTimer, FallbackKeepsSounding,
        AlarmHasTimer, ControlsFollowPower

LEMMA ButtonIInv ==
    ASSUME IInv, Button
    PROVE  IInv'
  <1>1. CASE power = "Active"
    <2>1. /\ player' \in Player /\ player'.state = "Stopped"
          /\ monitor' \in Monitor /\ ~monitor'.active /\ monitor'.state = "Idle"
          /\ power' = "Standby" /\ controls' = FALSE
          /\ session' = FALSE
      BY <1>1, StandbyEstablishes DEF IInv, TypeOK, Button
    <2> QED
      BY <2>1
      DEF Button, IInv, TypeOK, MonitorCoherent, SoundHasTimer,
          FallbackKeepsSounding, AlarmHasTimer, ControlsFollowPower
  <1>2. CASE power # "Active"
    BY <1>2
    DEF Button, IInv, TypeOK, MonitorCoherent, SoundHasTimer,
        FallbackKeepsSounding, AlarmHasTimer, ControlsFollowPower
  <1> QED
    BY <1>1, <1>2

(* Whatever makes the player start by hand starts the sleep timer, too. *)
LEMMA ByHandIInv ==
    ASSUME IInv, NEW before \in Player, player' \in Player,
           before.state = "Playing" => player.state = "Playing",
           sleep' = SleepHears(sleep, before, player'),
           session' = FALSE,
           UNCHANGED <<monitor, sleepTimeout, power, controls, popup>>
    PROVE  IInv'
  <1>1. /\ sleep' \in Sleep
        /\ sleep'.activity = "Alarm" => sleep'.active
        /\ sleep.active => sleep'.active
        /\ Starts(before, player') => sleep'.active
    BY SleepHearsRuns DEF IInv, TypeOK, AlarmHasTimer
  <1>2. player'.state = "Playing" => sleep'.active
    BY <1>1 DEF Starts, IInv, SoundHasTimer
  <1> QED
    BY <1>1, <1>2
    DEF IInv, TypeOK, MonitorCoherent, SoundHasTimer, FallbackKeepsSounding,
        AlarmHasTimer, ControlsFollowPower

LEMMA ChooseMediaIInv ==
    ASSUME IInv, NEW o \in Outcome, ChooseMedia(o)
    PROVE  IInv'
  <1>1. SetMedia("user") \in Player /\ SetMedia("user").state = "Stopped"
    BY PlayerTypes DEF SetMedia, Media
  <1>2. player' \in Player /\ player' = Play(SetMedia("user"), o)
    BY PlayLoaded DEF ChooseMedia, Media
  <1> QED
    BY <1>1, <1>2, ByHandIInv DEF ChooseMedia

LEMMA PlayPauseIInv ==
    ASSUME IInv, NEW o \in Outcome, PlayPause(o)
    PROVE  IInv'
  <1>1. player \in Player /\ player' \in Player
    BY PlayerTypes DEF IInv, TypeOK, PlayPause
  <1> QED
    BY <1>1, ByHandIInv DEF PlayPause

(* The timer is started anew, and nothing else of SleepTimer changes. *)
LEMMA RestartIInv ==
    ASSUME IInv, NEW t \in Timeouts, sleep' = StartTimer(sleep, t),
           sleepTimeout' \in SleepTimeouts,
           session' \in BOOLEAN, session' => session,
           UNCHANGED <<player, monitor, power, controls, popup>>
    PROVE  IInv'
  <1>1. sleep' \in Sleep /\ sleep'.active
    BY StartTimerRuns DEF IInv, TypeOK
  <1> QED
    BY <1>1
    DEF IInv, TypeOK, MonitorCoherent, SoundHasTimer, FallbackKeepsSounding,
        AlarmHasTimer, ControlsFollowPower

LEMMA NextIInv == IInv /\ [Next]_vars => IInv'
  <1> SUFFICES ASSUME IInv, [Next]_vars PROVE IInv'
    OBVIOUS
  <1>1. CASE Alarms
    BY <1>1, AlarmTriggeredIInv DEF Alarms
  <1>2. CASE PlayerStarts
    <2>1. player' \in Player /\ player'.state = "Playing"
          /\ player'.media = player.media
      BY <1>2 DEF PlayerStarts, IInv, TypeOK, Player, PlaybackState
    <2>2. /\ sleep' \in Sleep
          /\ sleep'.activity = "Alarm" => sleep'.active
          /\ sleep.active => sleep'.active
          /\ Starts(player, player') => sleep'.active
      BY <1>2, SleepHearsRuns DEF PlayerStarts, IInv, TypeOK, AlarmHasTimer
    <2> QED
      BY <1>2, <2>1, <2>2
      DEF PlayerStarts, Starts, Silent, IInv, TypeOK, MonitorCoherent, SoundHasTimer,
          FallbackKeepsSounding, AlarmHasTimer, ControlsFollowPower
  <1>3. CASE PlayerEnds
    <2>1. player' \in Player /\ player'.state = "Stopped"
          /\ player'.media = player.media /\ player.media # "fallback"
      BY <1>3, StopSilences DEF PlayerEnds, Stop, IInv, TypeOK, Player
    <2> QED
      BY <1>3, <2>1
      DEF PlayerEnds, IInv, TypeOK, MonitorCoherent, SoundHasTimer,
          FallbackKeepsSounding, AlarmHasTimer, ControlsFollowPower
  <1>4. ASSUME NEW o \in Outcome, PlayerError(o) PROVE IInv'
    BY <1>4, PlayerErrorIInv
  <1>5. CASE MonitorTimeout
    <2>1. monitor' \in Monitor /\ ~monitor'.active /\ monitor'.state = "Idle"
      BY <1>5 DEF MonitorTimeout, IInv, TypeOK, Monitor
    <2> QED
      BY <1>5, <2>1
      DEF MonitorTimeout, IInv, TypeOK, MonitorCoherent, SoundHasTimer,
          FallbackKeepsSounding, AlarmHasTimer, ControlsFollowPower
  <1>6. CASE SleepElapsed
    BY <1>6, SleepElapsedIInv
  <1>7. CASE Tick
    BY <1>7, TickIInv
  <1>8. CASE Button
    BY <1>8, ButtonIInv
  <1>9. CASE OpenPopup \/ ClosePopup
    <2>1. /\ popup' \in BOOLEAN
          /\ UNCHANGED <<player, monitor, sleep, sleepTimeout, power, controls, session>>
      BY <1>9 DEF OpenPopup, ClosePopup
    <2> QED
      BY <2>1
      DEF IInv, TypeOK, MonitorCoherent, SoundHasTimer, FallbackKeepsSounding,
          AlarmHasTimer, ControlsFollowPower
  <1>10. CASE PressRemainingTime
    <2>1. sleep.interval \in Timeouts
      BY DEF IInv, TypeOK, Sleep
    <2> QED
      BY <1>10, <2>1, RestartIInv
      DEF PressRemainingTime, ResetTimer, IInv, TypeOK
  <1>11. ASSUME NEW o \in Outcome, ChooseMedia(o) \/ PlayPause(o) PROVE IInv'
    BY <1>11, ChooseMediaIInv, PlayPauseIInv
  <1>12. ASSUME NEW t \in SleepTimeouts, SetSleepTimeout(t) PROVE IInv'
    BY <1>12, RestartIInv DEF SetSleepTimeout, TimeoutChanged, Timeouts
  <1>13. ASSUME NEW t \in SleepTimeouts, ReloadTimeout(t) PROVE IInv'
    BY <1>13
    DEF ReloadTimeout, IInv, TypeOK, MonitorCoherent, SoundHasTimer,
        FallbackKeepsSounding, AlarmHasTimer, ControlsFollowPower
  <1>14. CASE UNCHANGED vars
    BY <1>14
    DEF vars, IInv, TypeOK, MonitorCoherent, SoundHasTimer,
        FallbackKeepsSounding, AlarmHasTimer, ControlsFollowPower
  <1>15. CASE Backend
    BY <1>15, <1>2, <1>3, <1>4 DEF Backend
  <1>16. CASE Timers
    BY <1>16, <1>5, <1>6, <1>7 DEF Timers
  <1>17. CASE User
    BY <1>17, <1>8, <1>9, <1>10, <1>11, <1>12, <1>13 DEF User
  <1> QED
    BY <1>1, <1>14, <1>15, <1>16, <1>17 DEF Next

LEMMA InvariantHolds == Spec => []IInv
  BY InitIInv, NextIInv, PTL DEF Spec

(* Every variable keeps its type: neither timer counts below 0, and the      *)
(* sleep timer only ever runs for an alarm's or the configured timeout.     *)
THEOREM TypeCorrect == Spec => []TypeOK
  <1>1. IInv => TypeOK
    BY DEF IInv
  <1> QED
    BY <1>1, InvariantHolds, PTL

(* The fallback timer and the state of the monitor agree, and the monitor   *)
(* is never armed in standby, in whatever order alarms, errors, timeouts    *)
(* and the power button come.                                               *)
THEOREM MonitorCoherentHolds == Spec => []MonitorCoherent
  <1>1. IInv => MonitorCoherent
    BY DEF IInv
  <1> QED
    BY <1>1, InvariantHolds, PTL

(* No sound without a running sleep timer, for every choice of the timeouts *)
(* and every order of alarms, errors, timeouts and hands on the controls.   *)
THEOREM SoundHasTimerHolds == Spec => []SoundHasTimer
  <1>1. IInv => SoundHasTimer
    BY DEF IInv
  <1> QED
    BY <1>1, InvariantHolds, PTL

(* Once the monitor has fallen back, the fallback sounds or is about to.    *)
THEOREM FallbackKeepsSoundingHolds == Spec => []FallbackKeepsSounding
  <1>1. IInv => FallbackKeepsSounding
    BY DEF IInv
  <1> QED
    BY <1>1, InvariantHolds, PTL

------------------------------------------------------------------------------
(* In standby nothing but an alarm or a hand on the open controls wakes the *)
(* player: a late error finds the monitor idle, and the lists are out of    *)
(* reach.                                                                   *)
THEOREM StandbySilence == Spec => StandbyStaysSilent
  <1>1. IInv /\ [Next]_vars =>
            [power = "Standby" /\ power' = "Standby" /\ Silent(player) /\ ~popup
                => Silent(player')]_vars
    <2> SUFFICES ASSUME IInv, Next, power = "Standby", power' = "Standby",
                        Silent(player), ~popup
                 PROVE  Silent(player')
      BY DEF vars
    <2>1. /\ player \in Player
          /\ ~monitor.active /\ ~controls
          /\ ~player.pending /\ player.state # "Playing"
      BY DEF IInv, TypeOK, MonitorCoherent, ControlsFollowPower, Silent
    <2>2. Silent(Stop(player))
      BY <2>1, StopSilences
    <2>3. ~Alarms
      BY DEF Alarms, AlarmTriggered
    <2>4. CASE Backend
      BY <2>1, <2>2, <2>4 DEF Backend, PlayerStarts, PlayerEnds, PlayerError
    <2>5. CASE Timers
      BY <2>2, <2>5
      DEF Timers, MonitorTimeout, SleepElapsed, Tick, Standby, GoingInStandby
    <2>6. CASE User
      <3>1. ~Button
        BY DEF Button
      <3>2. \A o \in Outcome : ~ChooseMedia(o) /\ ~PlayPause(o)
        BY <2>1 DEF ChooseMedia, PlayPause
      <3> QED
        BY <2>6, <3>1, <3>2
        DEF User, OpenPopup, ClosePopup, PressRemainingTime, SetSleepTimeout,
            ReloadTimeout
    <2> QED
      BY <2>3, <2>4, <2>5, <2>6 DEF Next
  <1> QED
    BY <1>1, InvariantHolds, PTL DEF Spec, StandbyStaysSilent

------------------------------------------------------------------------------
(* The refinement. *)

LEMMA StepKeepsPromise ==
    ASSUME IInv, [Next]_vars
    PROVE  [Promise!Next]_Promise!vars
  <1> DEFINE awake == power = "Active"
             sound == player.state = "Playing"
             fuse  == sleep.active
  <1>1. /\ player \in Player /\ sleep \in Sleep /\ power \in {"Active", "Standby"}
        /\ fuse \in BOOLEAN /\ (sound => fuse)
    BY DEF IInv, TypeOK, SoundHasTimer, Sleep
  <1>2. IInv'
    BY NextIInv
  <1>3. fuse' \in BOOLEAN /\ (sound' => fuse')
    BY <1>2 DEF IInv, TypeOK, SoundHasTimer, Sleep
  <1>4. ASSUME power' = power, fuse => fuse'
        PROVE  [Promise!Next]_Promise!vars
    BY <1>1, <1>3, <1>4
    DEF Promise!Next, Promise!Sound, Promise!Silence, Promise!Light, Promise!vars
  <1>5. CASE Alarms
    <2>1. PICK t \in AlarmTimeouts, o \in Outcome : AlarmTriggered(t, o)
      BY <1>5 DEF Alarms
    <2>2. awake' = TRUE /\ fuse' = TRUE
      BY <2>1 DEF AlarmTriggered, AlarmStarted, StartTimer
    <2> QED
      BY <2>2 DEF Promise!Next, Promise!Ring
  <1>6. CASE Backend
    <2>1. \A p, q : fuse => SleepHears(sleep, p, q).active
      BY <1>1, SleepHearsRuns DEF IInv, TypeOK, AlarmHasTimer
    <2>2. power' = power /\ (fuse => fuse')
      BY <1>6, <2>1 DEF Backend, PlayerStarts, PlayerEnds, PlayerError
    <2> QED
      BY <1>4, <2>2
  <1>7. CASE SleepElapsed
    <2>1. /\ fuse /\ fuse' = FALSE
          /\ player' = Stop(player) /\ power' = "Standby"
      BY <1>1, <1>7
      DEF SleepElapsed, Expired, Elapsed, Standby, GoingInStandby, Sleep
    <2>2. sound' = FALSE /\ awake' = FALSE
      BY <1>1, <2>1, StopSilences
    <2> QED
      BY <2>1, <2>2 DEF Promise!Next, Promise!BurnDown
  <1>8. CASE MonitorTimeout \/ Tick
    <2>1. power' = power /\ (fuse => fuse')
      BY <1>1, <1>8 DEF MonitorTimeout, Tick, OneLess, Sleep
    <2> QED
      BY <1>4, <2>1
  <1>9. CASE Button
    <2>1. CASE awake
      <3>1. /\ player' = Stop(player) /\ power' = "Standby" /\ sleep' = sleep
        BY <1>9, <2>1 DEF Button, Standby, GoingInStandby
      <3>2. sound' = FALSE /\ awake' = FALSE
        BY <1>1, <3>1, StopSilences
      <3> QED
        BY <2>1, <3>1, <3>2 DEF Promise!Next, Promise!Sleep
    <2>2. CASE ~awake
      BY <1>9, <2>2 DEF Button, Promise!Next, Promise!Wake
    <2> QED
      BY <2>1, <2>2
  <1>10. CASE User /\ ~Button
    <2>1. \A p, q : fuse => SleepHears(sleep, p, q).active
      BY <1>1, SleepHearsRuns DEF IInv, TypeOK, AlarmHasTimer
    <2>2. \A t \in Timeouts : StartTimer(sleep, t).active
      BY <1>1, StartTimerRuns
    <2>3. sleep.interval \in Timeouts /\ SleepTimeouts \subseteq Timeouts
      BY <1>1 DEF Sleep, Timeouts
    <2>4. power' = power
      BY <1>10
      DEF User, OpenPopup, ClosePopup, PressRemainingTime, ChooseMedia, PlayPause,
          SetSleepTimeout, ReloadTimeout
    <2>5. fuse => fuse'
      BY <1>10, <2>1, <2>2, <2>3
      DEF User, OpenPopup, ClosePopup, PressRemainingTime, ChooseMedia, PlayPause,
          SetSleepTimeout, ReloadTimeout, ResetTimer, TimeoutChanged
    <2> QED
      BY <1>4, <2>4, <2>5
  <1>11. CASE UNCHANGED vars
    BY <1>11 DEF vars, Promise!vars
  <1> QED
    BY <1>5, <1>6, <1>7, <1>8, <1>9, <1>10, <1>11 DEF Next, Timers

(* The player, the sleep timer, the monitor and the power control together  *)
(* keep the promise of TimedSound: a fuse behind every sound, and nothing   *)
(* but its end, which is the end of the sound, puts it out.                 *)
THEOREM WakeUpImplementsTimedSound == Spec => KeepsPromise
  <1>1. Init => Promise!Init
    BY DEF Init, Promise!Init, NoMedia
  <1> QED
    BY <1>1, StepKeepsPromise, InvariantHolds, PTL DEF Spec, KeepsPromise, Promise!Spec

==============================================================================
