----------------------------- MODULE MCSamples -----------------------------
(***************************************************************************)
(* Two slots, and samples of every length that matters to a buffer: less   *)
(* than one, and a whole one, whose end is only found with the next.       *)
(***************************************************************************)
EXTENDS Samples

MCLengths == {Buffer - 1, Buffer}
=============================================================================
