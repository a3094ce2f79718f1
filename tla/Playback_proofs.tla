---------------------------- MODULE Playback_proofs ----------------------------
(***************************************************************************)
(* Proofs about Playback, for any items, positions and volumes.            *)
(*                                                                         *)
(* PositionIsKept is not inductive: a report of the backend goes to        *)
(* current_item if the tracking is on, and to the item that is heard, and  *)
(* Tracking says when these are the same.                                  *)
(***************************************************************************)
EXTENDS Playback, TLAPS

Tracking ==
    /\ armed => item # NoItem
    /\ back.seekable => back.media \in Seekable \cup {Fallback}
    /\ tracks => back.state # "Stopped"
    /\ back.media = Fallback => item \in spoiled
    /\ back.media \in Items /\ back.seekable /\ back.state # "Stopped"
           => tracks \/ item \in spoiled

Inv == TypeOK /\ ReportsHaveItem /\ Tracking /\ PositionIsKept /\ VolumeIsConfigured

(* The part of it that is about the player, and not about the volume.       *)
PlayerInv == ReportsHaveItem /\ Tracking /\ PositionIsKept

------------------------------------------------------------------------------
(* Volume. *)

LEMMA VolumeKept ==
    ASSUME NEW v \in Nat, SetVolume(v)
    PROVE  /\ volume' \in 0..MaxVolume /\ cfgVolume' \in 0..MaxVolume
           /\ reread' \in BOOLEAN
           /\ VolumeIsConfigured'
<1>1. Clamp(v) \in 0..MaxVolume
    BY PlaybackAssumption DEF Clamp
<1>2. volume' = Clamp(v) /\ cfgVolume' = Clamp(v) /\ reread' = FALSE
    BY DEF SetVolume
<1>3. reread' \in BOOLEAN
    BY <1>2
<1>4. VolumeIsConfigured'
    BY <1>2 DEF VolumeIsConfigured
<1> QED BY <1>1, <1>2, <1>3, <1>4

LEMMA PresetKept ==
    ASSUME \E v \in PresetVolumes : SetVolume(v)
    PROVE  /\ volume' \in 0..MaxVolume /\ cfgVolume' \in 0..MaxVolume
           /\ reread' \in BOOLEAN
           /\ VolumeIsConfigured'
BY VolumeKept, PlaybackAssumption

------------------------------------------------------------------------------
(* The common parts of several actions. *)

LEMMA InitInv == Init => Inv
<1> SUFFICES ASSUME Init PROVE Inv
    OBVIOUS
<1>0. 0 \in Position
    BY PlaybackAssumption DEF Position
<1>1. back \in Backend
    BY <1>0 DEF Init, Backend
<1>2. TypeOK
    <2>1. /\ item \in Items \cup {NoItem} /\ told \in Position
          /\ volume \in 0..MaxVolume /\ cfgVolume \in 0..MaxVolume
          /\ spoiled \subseteq Items
        BY <1>0 DEF Init
    <2>2. saved \in [Items -> Position] /\ mark \in [Items -> Position]
        BY DEF Init
    <2>3. /\ tracks \in BOOLEAN /\ armed \in BOOLEAN /\ wheel \in BOOLEAN
          /\ reread \in BOOLEAN
        BY DEF Init
    <2> QED BY <1>1, <2>1, <2>2, <2>3 DEF TypeOK
<1> QED BY <1>2, PlaybackAssumption DEF Init, Inv, ReportsHaveItem, Tracking,
                                        PositionIsKept, VolumeIsConfigured

LEMMA ZeroSavedType ==
    ASSUME TypeOK, NEW i, NEW order
    PROVE  /\ ZeroSaved(i, order) \in [Items -> Position]
           /\ \A j \in Items : j # i => ZeroSaved(i, order)[j] = saved[j]
           /\ ~(order = "position first" /\ tracks /\ told # 0) => ZeroSaved(i, order) = saved
<1> DEFINE hit == order = "position first" /\ tracks /\ told # 0 /\ i \in Items
<1>1. saved \in [Items -> Position] /\ 0 \in Position
    BY PlaybackAssumption DEF TypeOK, Position
<1>2. CASE hit
    <2>1. ZeroSaved(i, order) = [saved EXCEPT ![i] = 0]
        BY <1>2 DEF ZeroSaved
    <2>2. [saved EXCEPT ![i] = 0] \in [Items -> Position]
        BY <1>1
    <2>3. ASSUME NEW j \in Items, j # i PROVE [saved EXCEPT ![i] = 0][j] = saved[j]
        BY <1>1, <2>3
    <2> QED BY <1>2, <2>1, <2>2, <2>3
<1>3. CASE ~hit
    <2>1. ZeroSaved(i, order) = saved
        BY <1>3 DEF ZeroSaved
    <2> QED BY <1>1, <2>1
<1> QED BY <1>2, <1>3

LEMMA LoadKeeps ==
    ASSUME Inv, NEW i \in Items, NEW order \in Order, NEW taken \in BOOLEAN,
           LoadAndPlay(i, order, taken)
    PROVE  /\ PlayerInv'
           /\ item' = i /\ item' # NoItem
           /\ item' \in Items /\ tracks' \in BOOLEAN /\ saved' \in [Items -> Position]
           /\ back' \in Backend /\ told' \in Position
           /\ mark' \in [Items -> Position] /\ spoiled' \subseteq Items
<1>1. saved[i] \in Position /\ 0 \in Position
    BY PlaybackAssumption DEF Inv, TypeOK, Position
<1>2. Resume(saved[i], taken) \in Position
    BY <1>1 DEF Resume
<1>3. /\ back' = [media |-> i, pos |-> Resume(saved[i], taken), seekable |-> FALSE, state |-> "Playing"]
      /\ told' = Resume(saved[i], taken) /\ item' = i /\ mark' = mark
      /\ saved' = ZeroSaved(i, order)
    BY DEF LoadAndPlay
<1>4. back' \in Backend
    BY <1>2, <1>3 DEF Backend
<1>5. ~tracks'
    BY DEF LoadAndPlay, Inv, ReportsHaveItem
<1>6. tracks' \in BOOLEAN
    BY DEF LoadAndPlay
<1>7. i # NoItem /\ i # Fallback
    BY PlaybackAssumption
<1>8. spoiled' \in {spoiled, spoiled \cup {i}}
    BY DEF LoadAndPlay
<1>9. PositionIsKept'
    <2> SUFFICES ASSUME NEW j \in Seekable, j \notin spoiled' PROVE saved'[j] = mark'[j]
        BY DEF PositionIsKept
    <2>1. saved[j] = mark[j] /\ j \in Items
        BY <1>8, PlaybackAssumption DEF Inv, PositionIsKept
    <2>2. CASE j # i
        BY <1>3, <2>1, <2>2, ZeroSavedType DEF Inv
    <2>3. CASE j = i
        <3>1. ~Spoils(i, order)
            BY <2>3 DEF LoadAndPlay
        <3>2. ~(order = "position first" /\ tracks /\ told # 0)
            BY <3>1 DEF Spoils, Inv, ReportsHaveItem, Tracking
        <3> QED BY <1>3, <2>1, <3>2, ZeroSavedType DEF Inv
    <2> QED BY <2>2, <2>3
<1>10. ReportsHaveItem'
    BY <1>3, <1>5, <1>7 DEF ReportsHaveItem
<1>11. Tracking'
    BY <1>3, <1>5, <1>7 DEF Tracking
<1> QED BY <1>2, <1>3, <1>4, <1>6, <1>7, <1>8, <1>9, <1>10, <1>11, ZeroSavedType
        DEF Inv, TypeOK, PlayerInv

(* A step of the backend that leaves item, tracking and positions alone,    *)
(* and neither makes its media seekable nor leaves the stopped state.       *)
LEMMA BackMoves ==
    ASSUME Inv, back' \in Backend, back'.media = back.media,
           back'.seekable = back.seekable,
           back'.state = "Stopped" <=> back.state = "Stopped",
           UNCHANGED <<proxyVars, told, volumeVars>>,
           wheel' \in BOOLEAN, armed' \in BOOLEAN, armed' => armed
    PROVE  Inv'
<1>1. TypeOK'
    BY DEF Inv, TypeOK, proxyVars, volumeVars
<1>2. ReportsHaveItem' /\ Tracking' /\ PositionIsKept' /\ VolumeIsConfigured'
    BY DEF Inv, ReportsHaveItem, Tracking, PositionIsKept, VolumeIsConfigured,
           proxyVars, volumeVars
<1> QED BY <1>1, <1>2 DEF Inv

(* ... and a step that leaves the player alone and sets the volume.         *)
LEMMA VolumeMoves ==
    ASSUME Inv, UNCHANGED <<proxyVars, back, told, armed, wheel>>,
           volume' \in 0..MaxVolume, cfgVolume' \in 0..MaxVolume, reread' \in BOOLEAN,
           VolumeIsConfigured'
    PROVE  Inv'
BY DEF Inv, TypeOK, ReportsHaveItem, Tracking, PositionIsKept, VolumeIsConfigured,
       proxyVars

------------------------------------------------------------------------------
(* The actions. *)

LEMMA LoadedInv == Inv /\ Loaded => Inv'
<1> SUFFICES ASSUME Inv, Loaded PROVE Inv'
    OBVIOUS
<1>1. item \in Items
    <2>1. back.media \in Seekable \cup {Fallback}
        BY DEF Loaded
    <2>2. CASE back.media = Fallback
        BY <2>2 DEF Inv, TypeOK, Tracking
    <2>3. CASE back.media # Fallback
        BY <2>1, <2>3, PlaybackAssumption DEF Inv, ReportsHaveItem
    <2> QED BY <2>2, <2>3
<1>2. saved[item] \in Position
    BY <1>1 DEF Inv, TypeOK
<1>3. back' = [back EXCEPT !.seekable = TRUE, !.pos = saved[item]] /\ tracks' = TRUE
    BY DEF Loaded, BecomesSeekable
<1>4. /\ back' \in Backend /\ back'.media = back.media /\ back'.state = "Playing"
      /\ back'.seekable /\ back.media \in Seekable \cup {Fallback}
    BY <1>2, <1>3 DEF Inv, TypeOK, Backend, Loaded
<1>5. UNCHANGED <<item, saved, mark, spoiled, told, armed, wheel, volume, cfgVolume, reread>>
    BY DEF Loaded, volumeVars
<1>6. TypeOK'
    BY <1>3, <1>4, <1>5 DEF Inv, TypeOK
<1> QED BY <1>3, <1>4, <1>5, <1>6
        DEF Inv, ReportsHaveItem, Tracking, PositionIsKept, VolumeIsConfigured

LEMMA GlitchInv == Inv /\ Glitch => Inv'
<1> SUFFICES ASSUME Inv, Glitch PROVE Inv'
    OBVIOUS
<1>1. /\ back' \in Backend /\ back'.media = back.media /\ ~back'.seekable
      /\ tracks' = FALSE
    BY DEF Inv, TypeOK, Backend, Glitch
<1>2. UNCHANGED <<item, saved, mark, spoiled, told, armed, wheel, volume, cfgVolume, reread>>
    BY DEF Glitch, volumeVars
<1>3. TypeOK'
    BY <1>1, <1>2 DEF Inv, TypeOK
<1> QED BY <1>1, <1>2, <1>3
        DEF Inv, ReportsHaveItem, Tracking, PositionIsKept, VolumeIsConfigured

(* A report reaches the item that is heard, and no other one that is not    *)
(* known to be lost.                                                        *)
LEMMA ReportInv == Inv /\ ReportPosition => Inv'
<1> SUFFICES ASSUME Inv, ReportPosition PROVE Inv'
    OBVIOUS
<1>1. /\ back.pos \in Position /\ told' = back.pos
      /\ UNCHANGED <<item, tracks, spoiled, back, armed, wheel, volume, cfgVolume, reread>>
    BY DEF Inv, TypeOK, Backend, ReportPosition, volumeVars
<1> DEFINE heard == back.media \in Items /\ back.seekable /\ back.state # "Stopped"
<1>2. /\ saved' = IF tracks /\ item # NoItem THEN [saved EXCEPT ![item] = back.pos] ELSE saved
      /\ mark' = IF heard THEN [mark EXCEPT ![back.media] = back.pos] ELSE mark
    BY DEF ReportPosition, Save
<1>3. saved' \in [Items -> Position] /\ mark' \in [Items -> Position]
    BY <1>1, <1>2 DEF Inv, TypeOK
<1>4. TypeOK'
    BY <1>1, <1>3 DEF Inv, TypeOK
<1>5. PositionIsKept'
    <2> SUFFICES ASSUME NEW j \in Seekable, j \notin spoiled PROVE saved'[j] = mark'[j]
        BY <1>1 DEF PositionIsKept
    <2>1. saved[j] = mark[j] /\ j \in Items /\ j # NoItem /\ j # Fallback
        BY PlaybackAssumption DEF Inv, PositionIsKept
    <2>2. CASE j # item
        <3>1. saved'[j] = saved[j]
            BY <1>2, <2>1, <2>2 DEF Inv, TypeOK
        <3>2. mark'[j] = mark[j]
            BY <1>2, <2>1, <2>2, PlaybackAssumption DEF Inv, TypeOK, ReportsHaveItem
        <3> QED BY <2>1, <3>1, <3>2
    <2>3. CASE j = item /\ tracks
        <3>1. heard /\ back.media = j
            BY <2>1, <2>3, PlaybackAssumption DEF Inv, ReportsHaveItem, Tracking
        <3> QED BY <1>2, <2>1, <2>3, <3>1 DEF Inv, TypeOK
    <2>4. CASE j = item /\ ~tracks
        <3>1. ~heard
            BY <2>4 DEF Inv, Tracking
        <3> QED BY <1>2, <2>1, <2>4, <3>1
    <2> QED BY <2>2, <2>3, <2>4
<1> QED BY <1>1, <1>4, <1>5
        DEF Inv, ReportsHaveItem, Tracking, VolumeIsConfigured

LEMMA PlayerErrorInv ==
    ASSUME Inv, NEW order \in Order, PlayerError(order)
    PROVE  Inv'
<1>1. CASE ~armed
    <2>1. back' \in Backend
        BY <1>1 DEF Inv, TypeOK, Backend, PlayerError, MonitorReacts
    <2>2. /\ back'.media = back.media /\ back'.seekable = back.seekable
          /\ back'.state = "Stopped" <=> back.state = "Stopped"
        BY <1>1 DEF Inv, TypeOK, Backend, PlayerError, MonitorReacts
    <2>3. UNCHANGED <<proxyVars, told, volumeVars, armed, wheel>>
        BY <1>1 DEF PlayerError, MonitorReacts, proxyVars, volumeVars
    <2> QED BY <2>1, <2>2, <2>3, BackMoves DEF Inv, TypeOK
<1>2. CASE armed
    <2>1. item \in Items /\ item # NoItem
        BY <1>2 DEF Inv, TypeOK, Tracking
    <2>2. /\ back' = [media |-> Fallback, pos |-> 0, seekable |-> FALSE, state |-> "Playing"]
          /\ told' = 0 /\ saved' = ZeroSaved(item, order)
          /\ spoiled' = spoiled \cup {item}
          /\ UNCHANGED <<item, mark, armed, wheel>>
        BY <1>2, <2>1 DEF PlayerError, MonitorReacts
    <2>3. ~tracks' /\ tracks' \in BOOLEAN
        BY <1>2 DEF Inv, ReportsHaveItem, PlayerError, MonitorReacts
    <2>4. /\ volume' \in 0..MaxVolume /\ cfgVolume' \in 0..MaxVolume
          /\ reread' \in BOOLEAN /\ VolumeIsConfigured'
        BY <1>2, PresetKept DEF PlayerError, MonitorReacts
    <2>5. back' \in Backend /\ told' \in Position
        BY <2>2, PlaybackAssumption DEF Backend, Position
    <2>6. TypeOK'
        BY <2>1, <2>2, <2>3, <2>4, <2>5, ZeroSavedType DEF Inv, TypeOK
    <2>7. PositionIsKept'
        <3> SUFFICES ASSUME NEW j \in Seekable, j \notin spoiled' PROVE saved'[j] = mark'[j]
            BY DEF PositionIsKept
        <3>1. saved[j] = mark[j] /\ j \in Items /\ j # item
            BY <2>2, PlaybackAssumption DEF Inv, PositionIsKept
        <3>2. saved'[j] = saved[j]
            BY <2>2, <3>1, ZeroSavedType DEF Inv
        <3> QED BY <2>2, <3>1, <3>2
    <2>8. ReportsHaveItem' /\ Tracking'
        BY <2>1, <2>2, <2>3, PlaybackAssumption DEF ReportsHaveItem, Tracking
    <2> QED BY <2>4, <2>6, <2>7, <2>8 DEF Inv
<1> QED BY <1>1, <1>2

(* stop() goes to the start, which is not saved, because the tracking is    *)
(* off by then.                                                             *)
LEMMA StandbyInv == Inv /\ Standby => Inv'
<1> SUFFICES ASSUME Inv, Standby PROVE Inv'
    OBVIOUS
<1>1. PICK keeps \in BOOLEAN :
          back' = [back EXCEPT !.state = "Stopped", !.pos = 0, !.seekable = @ /\ keeps]
    BY DEF Standby, Stop
<1>2. back' \in Backend
    <2>2. (back.seekable /\ keeps) \in BOOLEAN /\ 0 \in Position
        BY PlaybackAssumption DEF Position
    <2> QED BY <1>1, <2>2 DEF Inv, TypeOK, Backend
<1>3. /\ back'.media = back.media /\ back'.state = "Stopped"
      /\ back'.seekable => back.seekable
    BY <1>1 DEF Inv, TypeOK, Backend
<1>4. /\ tracks' = FALSE /\ armed' = FALSE /\ wheel' = FALSE
      /\ UNCHANGED <<item, saved, mark, spoiled, told, volume, cfgVolume, reread>>
    BY DEF Standby, Stop, volumeVars
<1>5. TypeOK'
    BY <1>2, <1>4 DEF Inv, TypeOK
<1> QED BY <1>3, <1>4, <1>5
        DEF Inv, ReportsHaveItem, Tracking, PositionIsKept, VolumeIsConfigured

LEMMA PlayInv == Inv /\ Play => Inv'
<1> SUFFICES ASSUME Inv, Play PROVE Inv'
    OBVIOUS
<1>1. /\ back' \in Backend /\ back'.media = back.media /\ back'.state = "Playing"
      /\ back'.seekable = back.seekable
    <2> DEFINE p == IF back.state = "Ended" THEN 0 ELSE back.pos
    <2>1. p \in Position
        BY PlaybackAssumption DEF Inv, TypeOK, Backend, Position
    <2>2. back' = [back EXCEPT !.state = "Playing", !.pos = p]
        BY DEF Play
    <2> HIDE DEF p
    <2> QED BY <2>1, <2>2 DEF Inv, TypeOK, Backend
<1>2. item \in Items /\ item # NoItem
    BY DEF Inv, TypeOK, ReportsHaveItem, Play
<1>3. /\ UNCHANGED <<item, tracks, saved, mark, told, armed, wheel, volume, cfgVolume, reread>>
      /\ spoiled' = IF back.state = "Stopped" /\ back.seekable THEN spoiled \cup {item} ELSE spoiled
    BY <1>2 DEF Play, volumeVars
<1>4. TypeOK'
    BY <1>1, <1>2, <1>3 DEF Inv, TypeOK
<1>5. PositionIsKept'
    BY <1>3 DEF Inv, PositionIsKept
<1>6. Tracking'
    BY <1>1, <1>2, <1>3 DEF Inv, Tracking
<1> QED BY <1>1, <1>3, <1>4, <1>5, <1>6 DEF Inv, ReportsHaveItem, VolumeIsConfigured

------------------------------------------------------------------------------
LEMMA LoadInv ==
    ASSUME Inv, NEW i \in Items, Choose(i) \/ Alarm(i)
    PROVE  Inv'
<1>1. PICK order \in Order, taken \in BOOLEAN : LoadAndPlay(i, order, taken)
    BY DEF Choose, Alarm
<1>2. CASE Choose(i)
    BY <1>1, <1>2, LoadKeeps DEF Inv, TypeOK, PlayerInv, VolumeIsConfigured, Choose, volumeVars
<1>3. CASE Alarm(i)
    <2>1. \E v \in PresetVolumes : SetVolume(v)
        BY <1>3 DEF Alarm
    <2> QED BY <1>1, <1>3, <2>1, LoadKeeps, PresetKept DEF Inv, TypeOK, PlayerInv, Alarm
<1> QED BY <1>2, <1>3

LEMMA UserInv == Inv /\ User => Inv'
<1> SUFFICES ASSUME Inv, User PROVE Inv'
    OBVIOUS
<1> USE DEF Inv, TypeOK
<1>1. ASSUME NEW i \in Items, Choose(i) PROVE Inv'
    BY <1>1, LoadInv
<1>2. CASE Standby
    BY <1>2, StandbyInv
<1>3. CASE Wakes
    BY <1>3, BackMoves DEF Wakes
<1>4. CASE Play
    BY <1>4, PlayInv
<1>5. CASE Pause
    BY <1>5, BackMoves DEF Pause, Backend
<1>6. ASSUME NEW p \in Position, Seek(p) PROVE Inv'
    BY <1>6, BackMoves DEF Seek, Backend
<1>7. ASSUME NEW up \in BOOLEAN, Rotate(up) PROVE Inv'
    <2>1. (IF up THEN volume + 1 ELSE IF volume = 0 THEN 0 ELSE volume - 1) \in Nat
        BY PlaybackAssumption
    <2> QED BY <1>7, <2>1, VolumeKept, VolumeMoves DEF Rotate
<1>8. ASSUME NEW v \in 0..MaxVolume, VolumeSlider(v) PROVE Inv'
    <2>1. v \in Nat
        BY PlaybackAssumption
    <2> QED BY <1>8, <2>1, VolumeKept, VolumeMoves DEF VolumeSlider
<1>9. ASSUME NEW v \in 0..MaxVolume, Reload(v) PROVE Inv'
    <2>1. reread' \in BOOLEAN /\ cfgVolume' \in 0..MaxVolume /\ volume' \in 0..MaxVolume
        BY <1>9 DEF Reload
    <2>2. VolumeIsConfigured'
        BY <1>9 DEF Reload, VolumeIsConfigured
    <2> QED BY <1>9, <2>1, <2>2, VolumeMoves DEF Reload
<1> QED BY <1>1, <1>2, <1>3, <1>4, <1>5, <1>6, <1>7, <1>8, <1>9 DEF User

LEMMA NextInv == Inv /\ [Next]_vars => Inv'
<1> SUFFICES ASSUME Inv, [Next]_vars PROVE Inv'
    OBVIOUS
<1>1. CASE Plays
    <2>1. back.pos + 1 \in Position
        BY <1>1, PlaybackAssumption DEF Plays, Inv, TypeOK, Backend, Position
    <2> QED BY <1>1, <2>1, BackMoves DEF Plays, Inv, TypeOK, Backend
<1>2. CASE Ends
    BY <1>2, BackMoves DEF Ends, Inv, TypeOK, Backend
<1>3. CASE Loops
    <2>1. 0 \in Position
        BY PlaybackAssumption DEF Position
    <2> QED BY <1>3, <2>1, BackMoves DEF Loops, Inv, TypeOK, Backend
<1>4. CASE Loaded
    BY <1>4, LoadedInv
<1>5. CASE ReportPosition
    BY <1>5, ReportInv
<1>6. ASSUME NEW order \in Order, PlayerError(order) PROVE Inv'
    BY <1>6, PlayerErrorInv
<1>7. CASE Glitch
    BY <1>7, GlitchInv
<1>8. CASE User
    BY <1>8, UserInv
<1>9. CASE MonitorTimeout
    BY <1>9, BackMoves DEF MonitorTimeout, Inv, TypeOK
<1>10. ASSUME NEW i \in Items, Alarm(i) PROVE Inv'
    BY <1>10, LoadInv
<1>11. CASE UNCHANGED vars
    BY <1>11 DEF vars, Inv, TypeOK, ReportsHaveItem, Tracking, PositionIsKept, VolumeIsConfigured
<1> QED BY <1>1, <1>2, <1>3, <1>4, <1>5, <1>6, <1>7, <1>8, <1>9, <1>10, <1>11
        DEF Next, BackendActs

LEMMA Invariance == Spec => []Inv
BY InitInv, NextInv, PTL DEF Spec

------------------------------------------------------------------------------
(* Every variable keeps its type: what the backend reports, the saved        *)
(* positions and both volumes stay in their ranges.                         *)
THEOREM TypeCorrect == Spec => []TypeOK
<1>1. Inv => TypeOK
    BY DEF Inv
<1> QED BY <1>1, Invariance, PTL

(* No report of the backend finds a null current_item.                      *)
THEOREM ReportsHaveItemHolds == Spec => []ReportsHaveItem
<1>1. Inv => ReportsHaveItem
    BY DEF Inv
<1> QED BY <1>1, Invariance, PTL

(* The saved position of every item that is not known to be lost is the one *)
(* at which it was heard last.                                              *)
THEOREM PositionIsKeptHolds == Spec => []PositionIsKept
<1>1. Inv => PositionIsKept
    BY DEF Inv
<1> QED BY <1>1, Invariance, PTL

(* volume_changed() reaches the configuration from wherever it is emitted.  *)
THEOREM VolumeIsConfiguredHolds == Spec => []VolumeIsConfigured
<1>1. Inv => VolumeIsConfigured
    BY DEF Inv
<1> QED BY <1>1, Invariance, PTL

(* When the tracking of an item starts, the backend is put where the item   *)
(* was heard last; only seekableChanged(true) starts it.                    *)
THEOREM GoesOnWhereItWasHolds == Spec => GoesOnWhereItWas
<1>1. Inv /\ [Next]_vars =>
          [\A i \in Seekable \ spoiled :
               item = i /\ ~tracks /\ tracks' => back'.pos = mark[i]]_vars
    <2> SUFFICES ASSUME Inv, Next, NEW i \in Seekable, i \notin spoiled,
                        item = i, ~tracks, tracks'
                 PROVE  back'.pos = mark[i]
        BY DEF vars
    <2>1. Loaded
        BY DEF Next, BackendActs, User, Plays, Ends, Loops, ReportPosition, PlayerError,
               Glitch, MonitorTimeout, Alarm, Choose, LoadAndPlay, Standby, Stop, Wakes,
               Play, Pause, Seek, Rotate, VolumeSlider, Reload, proxyVars
    <2>2. back'.pos = saved[item]
        BY <2>1 DEF Loaded, BecomesSeekable, Inv, TypeOK, Backend
    <2> QED BY <2>2 DEF Inv, PositionIsKept
<1> QED BY <1>1, Invariance, PTL DEF Spec, GoesOnWhereItWas

==============================================================================
