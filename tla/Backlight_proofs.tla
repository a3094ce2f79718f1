--------------------------- MODULE Backlight_proofs ---------------------------
(***************************************************************************)
(* Proofs about Backlight, for any settings, any light and any logarithm   *)
(* that stays within its bounds.                                           *)
(***************************************************************************)
EXTENDS Backlight, TLAPS

(* set_backlight() never leaves the range of the PWM, whatever percentage   *)
(* it is given.                                                             *)
LEMMA PwmInRange ==
    ASSUME NEW percent \in Nat
    PROVE  SetBacklight(percent) \in 3..253
BY DEF SetBacklight, Clamped

LEMMA SetpointType ==
    ASSUME NEW c \in Config, NEW sb \in BOOLEAN
    PROVE  Setpoint(c, sb) \in 0..100
BY BacklightAssumption DEF Setpoint, Config

(* What update_backlight() writes. *)
LEMMA PwmForType ==
    ASSUME NEW c \in Config, NEW sb \in BOOLEAN, NEW extra \in 0..(18 * MaxLight)
    PROVE  PwmFor(c, sb, extra) \in 3..253
<1> DEFINE x == 10 * Setpoint(c, sb) + extra
<1>1. x \in 0..(1000 + 18 * MaxLight)
    BY SetpointType, BacklightAssumption
<1>2. Log(x) \in Nat
    BY <1>1, LogAssumption
<1> QED BY <1>2, PwmInRange DEF PwmFor

(* The filter adds up to 18 tenths of the light. *)
LEMMA FilteredType ==
    ASSUME NEW r \in Readings
    PROVE  Filtered(r) \in 0..(18 * MaxLight)
<1>1. \A i \in 1..3 : r[i] \in Light \cup {0}
    BY DEF Readings
<1>2. Light \cup {0} \subseteq 0..MaxLight
    BY BacklightAssumption
<1>3. r[1] \in 0..MaxLight /\ r[2] \in 0..MaxLight /\ r[3] \in 0..MaxLight
    BY <1>1, <1>2
<1> QED BY <1>3, BacklightAssumption DEF Filtered

LEMMA EnterType ==
    ASSUME NEW r \in Readings, NEW value \in Light
    PROVE  Enter(r, value) \in Readings
<1>1. \A i \in 1..3 : i # 1 => i - 1 \in 1..3
    OBVIOUS
<1> QED BY <1>1 DEF Enter, Readings

LEMMA FeedType ==
    ASSUME NEW r \in Readings, NEW value \in Light, NEW times \in 0..2
    PROVE  Feed(r, value, times) \in Readings
<1>1. Enter(r, value) \in Readings
    BY EnterType
<1>2. Enter(Enter(r, value), value) \in Readings
    BY <1>1, EnterType
<1> QED BY <1>1, <1>2 DEF Feed

------------------------------------------------------------------------------
(* A second connection is made only by checking the box, which only         *)
(* unchecking it, and thereby disconnecting all, can undo.                  *)
LinksChecked == links = 2 /\ sensor = "ok" => checked

(* After the choice "off" nothing is connected and adaptive mode is off.    *)
OffIsOff == choice = "off" => links = 0 /\ ~cfg.adaptive

Inv == TypeOK /\ LinksChecked /\ OffIsOff /\ ShownOrBehind /\ ManualIsManual

LEMMA InitInv == Init => Inv
<1> SUFFICES ASSUME Init PROVE Inv
    OBVIOUS
<1>1. 0 \in 0..(18 * MaxLight)
    BY BacklightAssumption
<1>2. PwmFor(cfg, TRUE, 0) \in 3..253 /\ SetBacklight(30) \in 3..253
    BY <1>1, PwmForType, PwmInRange DEF Init
<1>3. [i \in 1..3 |-> 0] \in Readings
    BY DEF Readings
<1>4. cfg \in Config /\ checked \in BOOLEAN
    BY DEF Init, Adaptive
<1>5. pwm \in 3..253 /\ behind \in {"no", "sensor", "file", "off"}
    BY <1>2 DEF Init
<1>6. TypeOK
    BY <1>1, <1>3, <1>4, <1>5 DEF Init, TypeOK
<1>7. ShownOrBehind
    BY DEF Init, ShownOrBehind, Adaptive
<1> QED BY <1>6, <1>7 DEF Init, Inv, LinksChecked, OffIsOff, ManualIsManual

(* What an update or the lack of it means for the invariant, in a step that *)
(* leaves the adaptive mode and its connections alone.                      *)
LEMMA UpdateKeeps ==
    ASSUME Inv, NEW c \in Config, NEW sb \in BOOLEAN,
           c.adaptive = cfg.adaptive,
           UpdateUnlessAdaptive(c, sb), cfg' = c, standby' = sb,
           UNCHANGED <<links, readings, checked, sensor, light, choice>>
    PROVE  Inv'
<1>1. 0 \in 0..(18 * MaxLight)
    BY BacklightAssumption
<1>2. PwmFor(c, sb, 0) \in 3..253
    BY <1>1, PwmForType
<1>3. TypeOK'
    BY <1>1, <1>2 DEF Inv, TypeOK, UpdateUnlessAdaptive, Update, Readings
<1>4. ShownOrBehind'
    BY DEF Inv, ShownOrBehind, UpdateUnlessAdaptive, Update, Adaptive
<1>5. ManualIsManual'
    BY DEF Inv, OffIsOff, ManualIsManual, UpdateUnlessAdaptive, Update, Adaptive
<1> QED BY <1>3, <1>4, <1>5 DEF Inv, LinksChecked, OffIsOff

LEMMA SensorReadsKeeps == Inv /\ SensorReads => Inv'
<1> SUFFICES ASSUME Inv, SensorReads PROVE Inv'
    OBVIOUS
<1>1. readings' \in Readings
    BY FeedType DEF Inv, TypeOK, SensorReads
<1>2. Filtered(readings') \in 0..(18 * MaxLight)
    BY <1>1, FilteredType
<1>3. PwmFor(cfg, standby, Filtered(readings')) \in 3..253
    BY <1>2, PwmForType DEF Inv, TypeOK
<1>4. TypeOK'
    BY <1>1, <1>2, <1>3 DEF Inv, TypeOK, SensorReads, Update
<1>5. ShownOrBehind'
    BY DEF Inv, ShownOrBehind, SensorReads, Update
<1>6. choice = "off" => UNCHANGED <<pwm, cfg, standby>>
    BY DEF Inv, OffIsOff, SensorReads
<1>7. ManualIsManual'
    BY <1>6 DEF Inv, ManualIsManual, SensorReads, PwmFor, Setpoint
<1> QED BY <1>4, <1>5, <1>7 DEF Inv, LinksChecked, OffIsOff, SensorReads

LEMMA SetAdaptiveModeKeeps == Inv /\ SetAdaptiveMode => Inv'
<1> SUFFICES ASSUME Inv, SetAdaptiveMode PROVE Inv'
    OBVIOUS
<1> DEFINE c == [cfg EXCEPT !.adaptive = ~checked]
<1>1. c \in Config /\ c.adaptive = ~checked /\ cfg' = c /\ standby' = standby
    BY DEF Inv, TypeOK, SetAdaptiveMode, Config
<1>2. c.active = cfg.active /\ c.standby = cfg.standby
    BY DEF Inv, TypeOK, Config
<1>3. CASE ~checked
    <2>1. links' \in 0..2 /\ (links' = 2 /\ sensor' = "ok" => checked')
        <3>1. links' = IF sensor = "ok" THEN links + 1 ELSE links
            BY <1>3 DEF SetAdaptiveMode
        <3>2. links' \in 0..2
            BY <1>3, <3>1 DEF Inv, TypeOK, LinksChecked
        <3>3. ASSUME sensor = "ok" PROVE checked' = TRUE
            BY <1>1, <1>3, <3>3 DEF SetAdaptiveMode, Adaptive
        <3> QED BY <3>2, <3>3 DEF SetAdaptiveMode
    <2>2. checked' \in BOOLEAN /\ choice' = "on" /\ UNCHANGED <<pwm, added, behind, sensor>>
        BY <1>3 DEF Inv, TypeOK, SetAdaptiveMode, Adaptive
    <2>3. TypeOK'
        BY <1>1, <2>1, <2>2 DEF Inv, TypeOK, SetAdaptiveMode
    <2>4. \A x : PwmFor(c, standby, x) = PwmFor(cfg, standby, x)
        BY <1>2 DEF PwmFor, Setpoint
    <2>5. ShownOrBehind'
        BY <1>1, <2>2, <2>4 DEF Inv, ShownOrBehind
    <2> QED BY <2>1, <2>2, <2>3, <2>5 DEF Inv, LinksChecked, OffIsOff, ManualIsManual
<1>4. CASE checked
    <2>1. links' = 0 /\ choice' = "off" /\ ~cfg'.adaptive
        BY <1>1, <1>4 DEF SetAdaptiveMode, Disconnect
    <2>2. pwm' = PwmFor(c, standby, 0) /\ added' = 0 /\ behind' = "no"
        BY <1>4 DEF SetAdaptiveMode, Update
    <2>3. 0 \in 0..(18 * MaxLight)
        BY BacklightAssumption
    <2>4. PwmFor(c, standby, 0) \in 3..253
        BY <1>1, <2>3, PwmForType DEF Inv, TypeOK
    <2>5. checked' \in BOOLEAN
        BY DEF Inv, TypeOK, SetAdaptiveMode, Adaptive
    <2>6. TypeOK'
        BY <1>1, <2>1, <2>2, <2>3, <2>4, <2>5 DEF Inv, TypeOK, SetAdaptiveMode
    <2> QED BY <1>1, <2>1, <2>2, <2>6
            DEF Inv, LinksChecked, OffIsOff, ShownOrBehind, ManualIsManual
<1> QED BY <1>3, <1>4 DEF Inv, TypeOK

LEMMA NextInv == Inv /\ [Next]_vars => Inv'
<1> SUFFICES ASSUME Inv, [Next]_vars PROVE Inv'
    OBVIOUS
<1>1. CASE SensorReads
    BY <1>1, SensorReadsKeeps
<1>2. CASE SensorFails
    BY <1>2 DEF Inv, TypeOK, LinksChecked, OffIsOff, ShownOrBehind, ManualIsManual,
                SensorFails, PwmFor, Setpoint
<1>3. CASE LightChanges
    BY <1>3 DEF Inv, TypeOK, LinksChecked, OffIsOff, ShownOrBehind, ManualIsManual,
                LightChanges, PwmFor, Setpoint
<1>4. CASE SetAdaptiveMode
    BY <1>4, SetAdaptiveModeKeeps
<1>5. CASE Slider
    <2>1. PICK s \in Settings : \/ SetBrightness([cfg EXCEPT !.active = s])
                                \/ SetBrightness([cfg EXCEPT !.standby = s])
        BY <1>5 DEF Slider
    <2>2. PICK c \in Config : SetBrightness(c) /\ c.adaptive = cfg.adaptive
        BY <2>1 DEF Inv, TypeOK, Config
    <2> QED BY <2>2, UpdateKeeps DEF SetBrightness, Inv, TypeOK
<1>6. ASSUME NEW on \in BOOLEAN, Active(on) PROVE Inv'
    BY <1>6, UpdateKeeps DEF Active, Inv, TypeOK
<1>7. CASE PowerOff
    <2>1. SetBacklight(0) \in 3..253
        BY PwmInRange
    <2> QED BY <1>7, <2>1 DEF Inv, TypeOK, LinksChecked, OffIsOff, ShownOrBehind,
                              ManualIsManual, PowerOff
<1>8. ASSUME NEW c \in Config, Reload(c) PROVE Inv'
    BY <1>8 DEF Inv, TypeOK, LinksChecked, OffIsOff, ShownOrBehind, ManualIsManual,
                Reload, PwmFor, Setpoint
<1>9. CASE UNCHANGED vars
    BY <1>9 DEF vars, Inv, TypeOK, LinksChecked, OffIsOff, ShownOrBehind,
                ManualIsManual, PwmFor, Setpoint
<1> QED BY <1>1, <1>2, <1>3, <1>4, <1>5, <1>6, <1>7, <1>8, <1>9 DEF Next, Hardware, User

LEMMA Invariance == Spec => []Inv
<1> QED BY InitInv, NextInv, PTL DEF Spec

(* Types: what is written to the PWM is always within its range, and no     *)
(* more than two connections of the sensor exist.                           *)
THEOREM TypeCorrect == Spec => []TypeOK
<1>1. Inv => TypeOK
    BY DEF Inv
<1> QED BY <1>1, Invariance, PTL

(* The display shows the setting, or it is known why not: brightnesscontrol *)
(* with an absent, working or broken sensor.                                *)
THEOREM ShownOrBehindHolds == Spec => []ShownOrBehind
<1>1. Inv => ShownOrBehind
    BY DEF Inv
<1> QED BY <1>1, Invariance, PTL

(* Once the user has switched it off, the adaptive mode has no effect:      *)
(* set_adaptive_mode(false) takes away all connections.                     *)
THEOREM ManualIsManualHolds == Spec => []ManualIsManual
<1>1. Inv => ManualIsManual
    BY DEF Inv
<1> QED BY <1>1, Invariance, PTL

==============================================================================
