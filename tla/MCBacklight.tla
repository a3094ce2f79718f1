------------------------------ MODULE MCBacklight ------------------------------
(* Backlight for TLC, with the values of lin2log() for the settings and     *)
(* sums of Backlight.cfg.                                                   *)
EXTENDS Backlight, Sequences

(* lin2log() in steps of 5 percent: qRound(-100 * ln(1 - x) / 4.6052), 150  *)
(* from 99.9 percent on.                                                    *)
Steps == <<0, 1, 2, 4, 5, 6, 8, 9, 11, 13, 15, 17, 20, 23, 26, 30, 35, 41, 50, 65>>

LogTable(x) == IF x \div 50 < Len(Steps) THEN Steps[1 + x \div 50] ELSE 150

(* The logarithm is monotonic, so a brighter setting is never darker. *)
ASSUME \A x, y \in 0..1100 : x <= y => LogTable(x) <= LogTable(y)

==============================================================================
