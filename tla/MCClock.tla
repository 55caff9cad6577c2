------------------------------- MODULE MCClock -------------------------------
(***************************************************************************)
(* Instances of FrameClock: 1X, 2X and half speed, a skip on the spot and  *)
(* one forward.  A "thousand seconds" of seven milliseconds and four       *)
(* vblanks gives a synchronous rate (2) and one that is not (3), neither   *)
(* of which divides it.                                                    *)
(***************************************************************************)
EXTENDS FrameClock

MCSpeeds == {[skip |-> 0, stall |-> 0], [skip |-> 1, stall |-> 0],
             [skip |-> 0, stall |-> 1]}
MCJumps == {0, 2}
=============================================================================
