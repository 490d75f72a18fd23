---------------------------- MODULE MCStateMgr ----------------------------
(* Instances of StateMgr for TLC.  One unit of rate stands for the 200 mRPM *)
(* of a tick; MCMaxRpm is two ticks and a fraction away, so that ramps take *)
(* several ticks and clamp.                                                 *)
EXTENDS StateMgr

MCRequests == {-1, 0, 1, MaxRpm, MaxRpm + 1}
===========================================================================
