-------------------------------- MODULE Game --------------------------------
(***************************************************************************)
(* The game: the main loop of singe::start, the input events and the coin  *)
(* queue of SDL_check_input, and the Lua script that both call.  There is  *)
(* one thread, but a script function that opens another file of the disc   *)
(* waits in ldp_vldp::wait_for_status, which handles input, which calls    *)
(* the script again.  The calls in progress form a stack.                  *)
(*                                                                         *)
(* The disc is here the status that module Disc describes.  External: the  *)
(* user, the Lua library and what the script makes of its calls; use of a  *)
(* Lua context that was closed, and pop of an empty queue, are undefined,  *)
(* and the model goes no further.                                          *)
(*                                                                         *)
(* A definition introduced as "Fault" is a plausible bug in the definition *)
(* after it; it is not part of the specification.                          *)
(***************************************************************************)
EXTENDS Integers, Sequences

CONSTANTS
  MaxInputs,   \* bound: what the user does
  MaxDepth     \* bound: calls in progress at a time

ASSUME BoundAssumption == MaxInputs \in Nat /\ MaxDepth \in Nat

VARIABLES
  pc,        \* where singe::start is
  stack,     \* calls in progress, innermost first
  events,    \* SDL's event queue
  coins,     \* g_coin_queue; coins are numbered as they are put there
  quit,      \* quitflag
  lua,       \* g_se_lua_context: "open", "closed", or "freed" when
             \* g_bLuaInitialized was cleared too
  paused,    \* m_game_paused
  flag,      \* g_pause_state
  disc,      \* ldp::m_status
  named,     \* m_cur_mpeg_filename is not empty
  broken,    \* the behaviour is undefined
  inputs,    \* what the user has done so far
  taken,     \* history: coins put into the queue
  given,     \* history: coins the script was given
  again,     \* history: a coin was given to the script while it handled one
  resumed    \* history: the pause key made a disc play that flag says is held

loop   == <<pc, quit, lua, broken>>
player == <<disc, named, paused, flag, resumed>>
user   == <<events, inputs>>
queue  == <<coins, taken, given, again>>
vars   == <<loop, stack, player, user, queue>>

\* A call: of SDL_check_input, before or after it has handed on a coin, of a
\* script function, or of a disc function that waits for a file, and that still
\* has to do what its name says.
Searches == {"search", "skipToFrame", "skipAndPause"}
DiscFunctions == Searches \cup {"play", "playAndPause", "key"}
Waiting == [at : {"wait"}, fn : DiscFunctions]
Frames == [at : {"check", "coin", "script"}, fn : {"none"}] \cup Waiting
Check == [at |-> "check", fn |-> "none"]
Coin == [at |-> "coin", fn |-> "none"]
Script == [at |-> "script", fn |-> "none"]
Wait(fn) == [at |-> "wait", fn |-> fn]

In(kind) == stack # <<>> /\ Head(stack).at = kind
Returns == stack' = Tail(stack)

\* sep_call_lua, with s left of the stack.
CallsScript(s) ==
  IF lua = "open" THEN stack' = <<Script>> \o s /\ UNCHANGED broken
  ELSE broken' = TRUE /\ stack' = s

\* sep_startup has opened the context and runs the script.
Init ==
  /\ pc = "startup" /\ stack = <<Script>>
  /\ quit = FALSE /\ lua = "open" /\ broken = FALSE
  /\ events = <<>> /\ inputs = 0
  /\ coins = <<>> /\ taken = 0 /\ given = <<>> /\ again = FALSE
  /\ disc = "STOPPED" /\ named = FALSE
  /\ paused = FALSE /\ flag = FALSE /\ resumed = FALSE

\* The user moves a coin switch, another switch or the pause key while the key
\* is enabled, or closes the window.
Act(kind) == /\ inputs < MaxInputs /\ inputs' = inputs + 1
             /\ events' = Append(events, kind)
             /\ UNCHANGED <<loop, stack, player, queue>>

-----------------------------------------------------------------------------
(* singe::start                                                            *)

\* sep_startup is over.
Started == /\ pc = "startup" /\ stack = <<>>
           /\ pc' = IF quit THEN "bye" ELSE "update"
           /\ UNCHANGED <<quit, lua, broken, stack, player, user, queue>>

\* onOverlayUpdate, or onShutdown when the loop is left.
Update == /\ pc = "update" /\ stack = <<>>
          /\ pc' = IF quit THEN "bye" ELSE "input"
          /\ CallsScript(stack)
          /\ UNCHANGED <<quit, lua, player, user, queue>>

Input == /\ pc = "input" /\ stack = <<>>
         /\ pc' = "sounds" /\ stack' = <<Check>>
         /\ UNCHANGED <<quit, lua, broken, player, user, queue>>

\* samples_do_queued_callbacks and think_delay.  Abstracted: at most one sound
\* has ended.
Sounds == /\ pc = "sounds" /\ stack = <<>>
          /\ pc' = "update"
          /\ CallsScript(stack) \/ UNCHANGED <<stack, broken>>
          /\ UNCHANGED <<quit, lua, player, user, queue>>

\* Fault: only a script that has started is shut down.
ShutdownLate == /\ pc = "bye" /\ stack = <<>> /\ lua = "open"
                /\ pc' = "over" /\ lua' = "freed"
                /\ UNCHANGED <<broken, stack, quit, player, user, queue>>

\* sep_shutdown.
Shutdown == /\ pc = "bye" /\ stack = <<>>
            /\ IF lua = "closed" THEN broken' = TRUE /\ UNCHANGED <<pc, lua>>
               ELSE pc' = "over" /\ lua' = "freed" /\ UNCHANGED broken
            /\ UNCHANGED <<stack, quit, player, user, queue>>

-----------------------------------------------------------------------------
(* SDL_check_input                                                         *)

Polled(kind) == /\ In("check") /\ ~quit
                /\ events # <<>> /\ Head(events) = kind /\ events' = Tail(events)
                /\ UNCHANGED <<pc, inputs>>

\* add_coin_to_queue.
PollCoin == /\ Polled("coin")
            /\ taken' = taken + 1 /\ coins' = Append(coins, taken + 1)
            /\ UNCHANGED <<stack, quit, lua, broken, player, given, again>>

\* The game's input_enable or input_disable.
PollSwitch == /\ Polled("switch")
              /\ CallsScript(stack)
              /\ UNCHANGED <<quit, lua, player, queue>>

PollQuit == /\ Polled("quit")
            /\ quit' = TRUE
            /\ UNCHANGED <<stack, lua, broken, player, queue>>

\* What pre_play makes of the status of a disc with an open file.
Played(s) == IF s \in {"SEARCHING", "PLAYING"} THEN s ELSE "PLAYING"

\* game::toggle_game_pause.
PollPause ==
  /\ Polled("pause")
  /\ CASE paused /\ ~named /\ Played(disc) # disc ->
            stack' = <<Wait("key")>> \o stack /\ UNCHANGED player
       [] paused /\ (named \/ Played(disc) = disc) ->
            /\ disc' = Played(disc) /\ paused' = FALSE
            /\ resumed' = (resumed \/ Played(disc) # disc)
            /\ UNCHANGED <<stack, named, flag>>
       [] ~paused /\ disc = "PLAYING" ->
            /\ disc' = "PAUSED" /\ paused' = TRUE
            /\ UNCHANGED <<stack, named, flag, resumed>>
       [] OTHER -> UNCHANGED <<stack, player>>
  /\ UNCHANGED <<quit, lua, broken, queue>>

\* There are no more events, or the next one is dropped because the program
\* quits, which it also does when nothing was touched for long (-idleexit).  Then
\* the front coin is given to the script, and stays in the queue.
PollOver ==
  /\ In("check") /\ (quit \/ events = <<>>)
  /\ events' = IF events = <<>> THEN <<>> ELSE Tail(events)
  /\ quit' \in {quit, TRUE}
  /\ IF coins = <<>>
       THEN Returns /\ UNCHANGED <<broken, given, again>>
       ELSE /\ CallsScript(<<Coin>> \o Tail(stack))
            /\ given' = Append(given, Head(coins))
            /\ again' = (again \/ \E i \in DOMAIN stack : stack[i].at = "coin")
  /\ UNCHANGED <<pc, lua, player, inputs, coins, taken>>

\* Fault: the coin stays in the queue.
CoinHandledKeeps == /\ In("coin") /\ Returns
                    /\ UNCHANGED <<loop, player, user, queue>>

\* The script has handled the coin.
CoinHandled == /\ In("coin") /\ Returns
               /\ IF coins = <<>> THEN broken' = TRUE /\ UNCHANGED coins
                  ELSE coins' = Tail(coins) /\ UNCHANGED broken
               /\ UNCHANGED <<pc, quit, lua, player, user, taken, given, again>>

-----------------------------------------------------------------------------
(* The script                                                              *)

Runs == In("script") /\ lua = "open"

ScriptReturns == Runs /\ Returns /\ UNCHANGED <<loop, player, user, queue>>

\* singeQuit.
ScriptQuits == /\ Runs /\ quit' = TRUE
               /\ UNCHANGED <<pc, lua, broken, stack, player, user, queue>>

\* sep_error closes the context.  sep_startup takes note of it; after
\* onOverlayUpdate sep_call_lua goes on to read the result from it.
ScriptFails ==
  /\ Runs /\ Returns /\ quit' = TRUE
  /\ lua' = IF pc = "startup" /\ Len(stack) = 1 THEN "freed" ELSE "closed"
  /\ broken' = (pc = "input" /\ Len(stack) = 1)
  /\ UNCHANGED <<pc, player, user, queue>>

\* A script function that is called from within lua_pcall comes back to a
\* context that was closed in the meantime.
ScriptIsGone == /\ In("script") /\ lua # "open" /\ broken' = TRUE
                /\ UNCHANGED <<pc, quit, lua, stack, player, user, queue>>

\* sep_pause.
ScriptPauses == /\ Runs /\ flag' = TRUE
                /\ disc' = IF disc = "PLAYING" THEN "PAUSED" ELSE disc
                /\ resumed' = FALSE
                /\ UNCHANGED <<loop, stack, named, paused, user, queue>>

\* pre_stop.
ScriptStops == /\ Runs /\ disc' = "STOPPED"
               /\ UNCHANGED <<loop, stack, named, paused, flag, resumed, user, queue>>

\* sep_set_pause_flag.
ScriptSetsFlag(b) == /\ Runs /\ flag' = b
                     /\ resumed' = (b /\ (resumed \/ disc = "PLAYING"))
                     /\ UNCHANGED <<loop, stack, disc, named, paused, user, queue>>

\* ldp::get_status, with no file being opened: a search that timed out may have
\* ended.
Waits == \E i \in DOMAIN stack : stack[i].at = "wait"
ScriptAsks == /\ Runs /\ ~Waits /\ disc = "SEARCHING"
              /\ disc' \in {"PAUSED", "ERROR"}
              /\ UNCHANGED <<loop, stack, named, paused, flag, resumed, user, queue>>

\* Fault: the flag is not set after waiting for the file.
PlayOverForgets(fn, s) ==
  /\ disc' = IF fn = "playAndPause" /\ s = "PLAYING" THEN "PAUSED" ELSE s
  /\ flag' = IF In("wait") THEN flag
             ELSE CASE fn = "play" -> FALSE [] fn = "playAndPause" -> TRUE [] OTHER -> flag
  /\ paused' = (paused /\ fn # "key")
  /\ resumed' = (fn = "key")

\* pre_play is over, with status s, and so is the function fn it was called by.
PlayOver(fn, s) ==
  /\ disc' = IF fn = "playAndPause" /\ s = "PLAYING" THEN "PAUSED" ELSE s
  /\ flag' = CASE fn = "play" -> FALSE [] fn = "playAndPause" -> TRUE [] OTHER -> flag
  /\ paused' = (paused /\ fn # "key")
  /\ resumed' = (fn = "key")

\* pre_play for fn, with s the status and r what is left of the stack: when no
\* file was opened yet, the first one is.
Plays(fn, s, r) ==
  IF named' \/ Played(s) = s
    THEN PlayOver(fn, Played(s)) /\ stack' = r
    ELSE /\ disc' = s /\ stack' = <<Wait(fn)>> \o r
         /\ UNCHANGED <<flag, paused, resumed>>

\* sep_play.
ScriptPlays == /\ Runs /\ UNCHANGED named /\ Plays("play", disc, stack)
               /\ UNCHANGED <<loop, user, queue>>

\* pre_search is over, with status s: sep_skip_to_frame goes on to play, and
\* sep_skip_and_pause to play and pause.
SearchOver(fn, s, r) ==
  CASE fn = "search" -> disc' = s /\ stack' = r /\ UNCHANGED <<flag, paused, resumed>>
    [] fn = "skipToFrame" -> Plays("play", s, r)
    [] fn = "skipAndPause" -> Plays("playAndPause", s, r)

\* How a search can come out: refused while another one is under way, there
\* already, found, failed or, after seven seconds, late.
Outcomes == IF disc = "SEARCHING" THEN {disc}
            ELSE {"ERROR"} \cup (IF named THEN {"PAUSED", "SEARCHING"} ELSE {})
                 \cup ({disc} \cap {"PAUSED"})

\* sep_search, sep_skip_to_frame or sep_skip_and_pause without opening a file.
ScriptSearches(fn) ==
  /\ Runs /\ UNCHANGED named
  /\ \E s \in Outcomes : SearchOver(fn, s, stack)
  /\ UNCHANGED <<loop, user, queue>>

\* The frame is in another file.
ScriptOpens(fn) ==
  /\ Runs /\ disc # "SEARCHING"
  /\ disc' = "SEARCHING" /\ stack' = <<Wait(fn)>> \o stack
  /\ UNCHANGED <<loop, named, paused, flag, resumed, user, queue>>

\* ldp_vldp::wait_for_status handles input.
WaitChecks == /\ In("wait") /\ Len(stack) < MaxDepth
              /\ stack' = <<Check>> \o stack
              /\ UNCHANGED <<loop, player, user, queue>>

\* The file is open, or could not be opened.
WaitEnds(ok) ==
  /\ In("wait")
  /\ named' = (named \/ ok)
  /\ LET fn == Head(stack).fn
     IN \/ /\ fn \in Searches
           /\ \E s \in IF ok /\ disc = "SEARCHING" THEN {"PAUSED", "ERROR", "SEARCHING"}
                        ELSE IF ok THEN {disc, "ERROR"} ELSE {"ERROR"} :
                SearchOver(fn, s, Tail(stack))
        \/ fn \in DiscFunctions \ Searches /\ PlayOver(fn, "PLAYING") /\ Returns
  /\ UNCHANGED <<loop, user, queue>>

MainLoop == Started \/ Update \/ Input \/ Sounds \/ Shutdown
CheckInput == PollCoin \/ PollSwitch \/ PollQuit \/ PollPause \/ PollOver \/ CoinHandled
ScriptActs == \/ ScriptQuits \/ ScriptFails \/ ScriptIsGone
              \/ ScriptPauses \/ ScriptStops \/ ScriptAsks \/ ScriptPlays
              \/ \E b \in BOOLEAN : ScriptSetsFlag(b)
              \/ \E fn \in Searches : ScriptSearches(fn) \/ ScriptOpens(fn)
WaitEnd == \E ok \in BOOLEAN : WaitEnds(ok)

Next == /\ ~broken
        /\ \/ \E kind \in {"coin", "switch", "pause", "quit"} : Act(kind)
           \/ MainLoop \/ CheckInput \/ ScriptReturns \/ ScriptActs
           \/ WaitChecks \/ WaitEnd

\* The main thread runs; script functions return in the end, and the VLDP ends
\* the opening of a file, whatever was called in between.
Spec == Init /\ [][Next]_vars
FairSpec == /\ Spec /\ WF_vars(~broken /\ MainLoop) /\ WF_vars(~broken /\ CheckInput)
            /\ SF_vars(~broken /\ ScriptReturns) /\ SF_vars(~broken /\ WaitEnd)
            /\ WF_vars(~broken /\ ScriptIsGone)

-----------------------------------------------------------------------------
(* Properties                                                              *)

TypeOK ==
  /\ pc \in {"startup", "update", "input", "sounds", "bye", "over"}
  /\ stack \in Seq(Frames) /\ Len(stack) <= MaxDepth + 2
  /\ events \in Seq({"coin", "switch", "pause", "quit"})
  /\ coins \in Seq(1 .. MaxInputs) /\ given \in Seq(1 .. MaxInputs)
  /\ taken \in 0 .. inputs /\ inputs \in 0 .. MaxInputs
  /\ {quit, broken, paused, flag, named, again, resumed} \subseteq BOOLEAN
  /\ lua \in {"open", "closed", "freed"}
  /\ disc \in {"ERROR", "SEARCHING", "STOPPED", "PLAYING", "PAUSED"}

\* Coins that the script was not given.
Kept == IF \E i \in DOMAIN stack : stack[i].at = "coin" THEN Tail(coins) ELSE coins

\* "coin inputs are buffered to ensure that they are not dropped while the cpu
\* is busy (such as during a seek)" (input.cpp:1034): the script is given each
\* coin once and in order, wherever input is handled, and none is lost.
CoinsBuffered == ~broken => given \o Kept = [i \in 1 .. taken |-> i]

\* So it is as long as the script opens no file from its handler of a coin.
CoinsInOrder == ~again => CoinsBuffered

\* g_pause_state, which "keeps track" of a pause the script asked for
\* (singeproxy.cpp:1456), is never set while the disc plays because of the
\* script, whatever handlers ran while a function waited for a file; only the
\* pause key and singeSetPauseFlag can part the two.
FlagMeansStill == flag /\ disc = "PLAYING" => resumed

\* Once the program is told to quit it ends, from wherever it is, unless its
\* behaviour is undefined (daphne.cpp:119, singe.cpp:265).
QuitEnds == quit ~> pc = "over" \/ broken
=============================================================================
