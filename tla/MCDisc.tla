------------------------------- MODULE MCDisc -------------------------------
\* Values of the constants of Disc that a configuration file cannot express: a
\* disc that begins after frame 0, of two files, the first of them listed twice.
EXTENDS Disc, TLC
MCFramefile == <<[frame |-> 1, name |-> "a"], [frame |-> 3, name |-> "b"],
                 [frame |-> 4, name |-> "a"]>>
MCPictures == ("a" :> 2) @@ ("b" :> 1)
MCAll == DiscFunctions
MCMain == {"discSearch", "discSkipToFrame", "discSkipBackward", "discPlay",
           "discPause", "discStop"}
MCHandlers == {"discSearch", "discSkipToFrame", "discChangeSpeed", "discPlay",
               "discPause", "discGetState"}
=============================================================================
