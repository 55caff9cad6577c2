-------------------------------- MODULE Deck --------------------------------
(***************************************************************************)
(* What the generic player promises its caller (ldp.h): a status and a     *)
(* frame number.  A search is left only by landing on the frame it was     *)
(* given, by failing or by stopping the disc; the frame number changes     *)
(* only when a search lands, when the disc plays, or when it is stopped.   *)
(***************************************************************************)
EXTENDS Integers

CONSTANT LastFrame      \* bound: frames are 0 .. LastFrame

VARIABLES
  status,    \* m_status
  frame,     \* get_current_frame()
  goal       \* the frame of the search under way, or of the last one

vars == <<status, frame, goal>>
Frames == 0 .. LastFrame
Goals == -LastFrame .. LastFrame   \* a skip back may ask for less than 0

Init == status = "STOPPED" /\ frame = 0 /\ goal = 0

\* pre_search: under way, or in error at once.
Search(f) == /\ status # "SEARCHING" /\ goal' = f
             /\ status' \in {"SEARCHING", "ERROR"}
             /\ UNCHANGED frame

\* get_status finds that the search has succeeded, or failed.
Land == /\ status = "SEARCHING"
        /\ status' = "PAUSED" /\ frame' = goal
        /\ UNCHANGED goal

Fail == /\ status = "SEARCHING"
        /\ status' = "ERROR"
        /\ UNCHANGED <<frame, goal>>

Play == /\ status \notin {"SEARCHING", "PLAYING"}
        /\ status' = "PLAYING"
        /\ UNCHANGED <<frame, goal>>

Pause == /\ status = "PLAYING"
         /\ status' = "PAUSED"
         /\ UNCHANGED <<frame, goal>>

Stop == status' = "STOPPED" /\ frame' = 0 /\ UNCHANGED goal

\* The disc plays on, or has been skipped.
Advance == status = "PLAYING" /\ frame' \in Frames /\ UNCHANGED <<status, goal>>

Next == (\E f \in Goals : Search(f)) \/ Land \/ Fail \/ Play \/ Pause \/ Stop
        \/ Advance

Spec == Init /\ [][Next]_vars
=============================================================================
