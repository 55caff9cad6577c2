----------------------------- MODULE CmdChannel -----------------------------
(***************************************************************************)
(* What vldp_cmd promises its callers (vldp.c:58-63): a command is sent,   *)
(* the private thread takes it exactly once, and only then is the caller   *)
(* told that it was acknowledged.  A caller gives up only on a command     *)
(* that was not taken and, having given up, never hears of it again.       *)
(***************************************************************************)
CONSTANT Commands

VARIABLES
  phase,     \* "free", "sent" (not yet taken) or "taken" (not yet confirmed)
  asked,     \* the command sent last
  accepted,  \* the command taken last
  ok         \* the last call was confirmed

vars == <<phase, asked, accepted, ok>>

Init == phase = "free" /\ asked = "NONE" /\ accepted = "NONE" /\ ok = FALSE

Send(c) == /\ phase = "free" /\ phase' = "sent"
           /\ asked' = c
           /\ UNCHANGED <<accepted, ok>>

Take == /\ phase = "sent" /\ phase' = "taken"
        /\ accepted' = asked
        /\ UNCHANGED <<asked, ok>>

Confirm == /\ phase = "taken" /\ phase' = "free"
           /\ ok' = TRUE
           /\ UNCHANGED <<asked, accepted>>

GiveUp == /\ phase = "sent" /\ phase' = "free"
          /\ ok' = FALSE
          /\ UNCHANGED <<asked, accepted>>

Next == (\E c \in Commands : Send(c)) \/ Take \/ Confirm \/ GiveUp

Spec == Init /\ [][Next]_vars
=============================================================================
