---------------------------- MODULE MCCalibration ----------------------------
(***************************************************************************)
(* The calibration with a microsecond of six ticks.  What matters of the   *)
(* real figures is kept: the threshold is longer than a microsecond and    *)
(* shorter than a second, one microsecond of it is more than the tolerance *)
(* (1/10000 against 1/100000), and two turns of the loop are less: 4 ticks *)
(* against 18 / 4, for a measurement of three microseconds.                *)
(***************************************************************************)
EXTENDS Calibration

BackAndForth == {-20, 9}

=============================================================================
