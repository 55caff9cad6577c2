----------------------------- MODULE MCOverlay -----------------------------
(***************************************************************************)
(* Three sizes of pictures, two of them of the same width.                 *)
(***************************************************************************)
EXTENDS Overlay

CONSTANTS small, tall, large
WidthOf(s) == IF s = large THEN 2 ELSE IF s = NoSize THEN 0 ELSE 1
=============================================================================
