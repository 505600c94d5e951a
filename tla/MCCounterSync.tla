--------------------------- MODULE MCCounterSync ---------------------------
(***************************************************************************)
(* CounterSync for TLC.  The passing runs scale the window down to 16 and  *)
(* keep its proportions: the window reaches back one less than its half,   *)
(* and a resynchronisation starts after half a window and moves the        *)
(* counter by a whole one, as 128, 63, 64 and 128 do.                      *)
(***************************************************************************)
EXTENDS CounterSync
=============================================================================
