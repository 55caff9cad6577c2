------------------------------ MODULE MCInput ------------------------------
\* A keypad key bound to a direction (in full mode its number, 264, has the code of
\* BUTTON3), the left mouse button, and the keys that grab and quit.
EXTENDS Input
MCSym(k) == CASE k = "kp8" -> 264 [] k = "g" -> 103 [] k = "escape" -> 27
MCBound(k) == CASE k = "kp8" -> <<UP, 6>> [] k = "g" -> <<>> [] k = "escape" -> <<QUIT>>
MCHats == {{}, {UP}, {RIGHT}, {UP, RIGHT}}
MCMouseSwitch(mode) == IF mode = "sdl" THEN 7 ELSE 8
=============================================================================
