------------------------------- MODULE Backlight -------------------------------
(***************************************************************************)
(* The backlight: BrightnessControl between the light sensor and the PWM   *)
(* of HardwareControlMk3, the power state, the brightness menu and the     *)
(* configuration, as qtgui/main.cpp wires them.                            *)
(*                                                                         *)
(* Everything runs on the GUI thread and each action is one handler with   *)
(* its direct connections.  The filter is linear, so one channel stands    *)
(* for the luma of the three.  Brightness is counted in tenths of percent  *)
(* where it is still linear.                                               *)
(***************************************************************************)
EXTENDS Naturals

CONSTANTS
    Settings,       \* percentages the sliders and the file may give
    Light,          \* what the sensor may read, as percentage of brightness
    MaxLight,       \* the most of it
    Log(_)          \* lin2log(): tenths of percent to the perceived percentage

ASSUME BacklightAssumption ==
    /\ Settings \subseteq 0..100 /\ Settings # {}
    /\ MaxLight \in Nat
    /\ Light \subseteq 0..MaxLight /\ Light # {}

(* The filter adds up to 18 tenths.  lin2log() clamps at 99.9 percent.      *)
ASSUME LogAssumption == \A x \in 0..(1000 + 18 * MaxLight) : Log(x) \in 0..150

VARIABLES
    cfg,            \* Configuration: brightness_act, brightness_sb, backlight_control_act
    standby,        \* BrightnessControl::standby
    links,          \* connections of als_value_changed to the slot
    readings,       \* als_readings, the newest first
    checked,        \* the check box "Adaptive mode" of the menu
    sensor,         \* the sensor's files: absent at the start, ok, or broken for good
    light,          \* what the sensor sees
    pwm,            \* the last value written to the PWM
    added,          \* history: the light that the last update added
    behind,         \* history: a change is not shown: the sensor or the file knows why
    choice          \* history: what the user chose last, unless the file was read since

vars == <<cfg, standby, links, readings, checked, sensor, light, pwm, added, behind, choice>>

Config   == [active : Settings, standby : Settings, adaptive : BOOLEAN]
Readings == [1..3 -> Light \cup {0}]

TypeOK ==
    /\ cfg \in Config
    /\ standby \in BOOLEAN /\ checked \in BOOLEAN
    /\ links \in 0..2
    /\ readings \in Readings
    /\ sensor \in {"absent", "ok", "broken"}
    /\ light \in Light
    /\ pwm \in 3..253
    /\ added \in 0..(18 * MaxLight)
    /\ behind \in {"no", "sensor", "file", "off"}
    /\ choice \in {"none", "on", "off"}

------------------------------------------------------------------------------
(* Values. *)

(* A short circuit in adaptive_mode(): the sensor is not asked (mutant).    *)
AdaptiveByFlag(c) == c.adaptive

(* BrightnessControl::adaptive_mode(): wanted, and there is a sensor. *)
Adaptive(c) == c.adaptive /\ sensor = "ok"

Setpoint(c, sb) == IF sb THEN c.standby ELSE c.active

(* Mutant: no minimum, so that the display may become black. *)
ClampedAbove(percent) == IF percent > 100 THEN 100 ELSE percent

(* set_backlight(): at least 1 and at most 100 percent, where 3 is the      *)
(* brightest value of the PWM; the fraction is cut off.                     *)
Clamped(percent)      == IF percent < 1 THEN 1 ELSE IF percent > 100 THEN 100 ELSE percent
SetBacklight(percent) == (25600 - 253 * Clamped(percent)) \div 100

(* Coefficients 1.0, 0.5 and 0.3, hence tenths. *)
Filtered(r) == 10 * r[1] + 5 * r[2] + 3 * r[3]

(* Mutant: the newest reading replaces the oldest, nothing is rotated. *)
EnterUnrotated(r, value) == [r EXCEPT ![3] = value]

Enter(r, value) == [i \in 1..3 |-> IF i = 1 THEN value ELSE r[i - 1]]

(* One call of the slot per connection. *)
Feed(r, value, times) ==
    CASE times = 0 -> r
      [] times = 1 -> Enter(r, value)
      [] OTHER     -> Enter(Enter(r, value), value)

PwmFor(c, sb, extra) == SetBacklight(Log(10 * Setpoint(c, sb) + extra))

(* update_backlight(): setting plus light, written to the hardware. *)
Update(c, sb, extra) ==
    /\ pwm' = PwmFor(c, sb, extra)
    /\ added' = extra
    /\ behind' = "no"

(* In adaptive mode the next value of the sensor is waited for. *)
UpdateUnlessAdaptive(c, sb) ==
    IF Adaptive(c)
    THEN behind' = "sensor" /\ UNCHANGED <<pwm, added>>
    ELSE Update(c, sb, 0)

------------------------------------------------------------------------------
(* The sensor. *)

(* The timer reads all four channels and signals the value. *)
SensorReads ==
    /\ sensor = "ok"
    /\ readings' = Feed(readings, light, links)
    /\ IF links > 0 THEN Update(cfg, standby, Filtered(readings'))
                    ELSE UNCHANGED <<pwm, added, behind>>
    /\ UNCHANGED <<cfg, standby, links, checked, sensor, light, choice>>

(* Reading fails.  Nobody clears the error flags of the stream, so it fails *)
(* from now on: als_sensor_ok is false whenever somebody looks.             *)
SensorFails ==
    /\ sensor = "ok"
    /\ sensor' = "broken"
    /\ UNCHANGED <<cfg, standby, links, readings, checked, light, pwm, added, behind, choice>>

LightChanges ==
    /\ light' \in Light \ {light}
    /\ UNCHANGED <<cfg, standby, links, readings, checked, sensor, pwm, added, behind, choice>>

------------------------------------------------------------------------------
(* The user. *)

(* Mutant: disconnect() takes away one connection only. *)
DisconnectOne == links - 1

(* QObject::disconnect() of signal and slot takes away all connections. *)
Disconnect == 0

(* A click on the check box: set_adaptive_mode().  The box is bound to      *)
(* feedback, which is read again when the flag changes.                     *)
SetAdaptiveMode ==
    LET ena == ~checked
        c   == [cfg EXCEPT !.adaptive = ena]
    IN  /\ sensor # "absent"
        /\ cfg' = c
        /\ checked' = IF ena # cfg.adaptive THEN Adaptive(c) ELSE ena
        /\ choice' = IF ena THEN "on" ELSE "off"
        /\ IF ena
           THEN /\ links' = IF sensor = "ok" THEN links + 1 ELSE links
                /\ UNCHANGED <<pwm, added, behind>>
           ELSE /\ links' = Disconnect
                /\ Update(c, standby, 0)
        /\ UNCHANGED <<standby, readings, sensor, light>>

(* The sliders: set_active_brightness(), set_standby_brightness(). *)
SetBrightness(c) ==
    /\ cfg' = c
    /\ UpdateUnlessAdaptive(c, standby)
    /\ UNCHANGED <<standby, links, readings, checked, sensor, light, choice>>

Slider ==
    \E s \in Settings : \/ SetBrightness([cfg EXCEPT !.active = s])
                        \/ SetBrightness([cfg EXCEPT !.standby = s])

(* PowerControl::active(bool). *)
Active(on) ==
    /\ standby' = ~on
    /\ UpdateUnlessAdaptive(cfg, ~on)
    /\ UNCHANGED <<cfg, links, readings, checked, sensor, light, choice>>

(* PowerControl::reboot(), power_off(): system_reboot(), system_poweroff()  *)
(* dim the display; the program runs until the system ends it.              *)
PowerOff ==
    /\ pwm' = SetBacklight(0)
    /\ behind' = "off"
    /\ choice' = "none"
    /\ UNCHANGED <<cfg, standby, links, readings, checked, sensor, light, added>>

(* The configuration file is read again.  Nobody tells BrightnessControl,   *)
(* and nothing is connected when the file switches the adaptive mode on.    *)
Reload(c) ==
    /\ cfg' = c
    /\ behind' = IF c = cfg THEN behind ELSE "file"
    /\ choice' = "none"
    /\ UNCHANGED <<standby, links, readings, checked, sensor, light, pwm, added>>

------------------------------------------------------------------------------
(* main() connects the sensor whatever the file says, and ends with         *)
(* power.standby().                                                         *)
Init ==
    /\ cfg \in Config
    /\ standby = TRUE
    /\ links = 1
    /\ readings = [i \in 1..3 |-> 0]
    /\ sensor \in {"absent", "ok"}
    /\ light \in Light
    /\ checked = Adaptive(cfg)
    /\ added = 0
    /\ choice = "none"
    /\ IF Adaptive(cfg)
       THEN pwm = SetBacklight(30) /\ behind = "sensor"
       ELSE pwm = PwmFor(cfg, TRUE, 0) /\ behind = "no"

Hardware == SensorFails \/ LightChanges

User == SetAdaptiveMode \/ Slider \/ PowerOff \/ \E on \in BOOLEAN : Active(on)

Next == SensorReads \/ Hardware \/ User \/ \E c \in Config : Reload(c)

Spec     == Init /\ [][Next]_vars
FairSpec == Spec /\ WF_vars(SensorReads)

------------------------------------------------------------------------------
(***************************************************************************)
(* Properties.                                                             *)
(***************************************************************************)

(* What is on the display is what the setting of the present power state    *)
(* asks for, plus the light of the last update; the exceptions are changes  *)
(* that wait for a sensor that works, settings that came with the file, and *)
(* a system that goes down.  Without a sensor nothing waits for it: every   *)
(* change of setting or power state is shown at once, also in adaptive mode *)
(* (as the file may have it on a device without one).                       *)
ShownOrBehind ==
    /\ behind = "no" => pwm = PwmFor(cfg, standby, added)
    /\ behind = "sensor" => sensor # "absent"

(* After the user has switched the adaptive mode off, the sensor has no say *)
(* any more, however often it was connected: the display shows the setting  *)
(* of the power state, through all changes of both, until he switches it on *)
(* again, the file is read again or the system goes down.                   *)
ManualIsManual == choice = "off" => pwm = PwmFor(cfg, standby, 0)

(* Under a steady light, and with all else quiet, a sensor that is          *)
(* connected brings the display to the setting of the power state plus that *)
(* light, whatever it has read before: the filter forgets, standby is shown *)
(* in the end, and a second connection changes nothing.                     *)
SteadyLightSettles ==
    <>[][SensorReads]_vars =>
        <>[](sensor = "ok" /\ links > 0 =>
                pwm = PwmFor(cfg, standby, 18 * light))

==============================================================================
