-------------------------------- MODULE Input --------------------------------
(***************************************************************************)
(* From keys, joysticks and mice to what the script is told               *)
(* (io/input.cpp, singe::process_keydown and process_keyup).  An event of  *)
(* a device becomes calls of onInputPressed and onInputReleased, each with *)
(* the code of a switch or of a key.  A handler of the script may change   *)
(* the mode of the keyboard or of the mice, and may open a file of the     *)
(* disc: while it waits, wait_for_status handles the next events, inside   *)
(* the handling of the one before.                                         *)
(*                                                                         *)
(* A position of a device is a set: the directions of a hat or a stick,    *)
(* {HELD} for what is held, {} at rest.  The sticks' noise around the    *)
(* middle, the console and the coin queue (module Game) are left out.      *)
(*                                                                         *)
(* A definition introduced as Fault is a plausible bug in the definition   *)
(* after it.                                                               *)
(***************************************************************************)
EXTENDS Integers, Sequences, SequencesExt, FiniteSets

CONSTANTS
  Keys,            \* keys of the keyboard
  Sym(_),          \* SDL's number of a key
  Bound(_),        \* the switches a key is bound to (g_key_defs), ascending; SCREENSHOT
                   \* only if it is bound first, its second key has no function
  GrabKey,         \* SDLK_g
  Hats,            \* positions of the hat
  ButtonSwitch,    \* the entry of joystick_buttons_map for the button, of those that
                   \* input_enable hands to the game at once
  MouseSwitch(_),  \* the entry of mouse_buttons_map for the mouse's button, by mode
  MaxMoves,        \* bound: movements of the user
  MaxChanges,      \* bound: changes of mode by the script
  MaxNesting       \* bound: calls of SDL_check_input within one another

VARIABLES
  at,        \* positions of the devices
  sdlQueue,  \* SDL's queue
  mice,      \* ManyMouse's queue
  down,      \* codes the script was told are pressed and not since released
  prevHat,   \* prev_hat_position
  inUse,     \* y_axis_in_use
  keyMode,   \* i_keyboard_mode
  mouseOn, mouseMode, attached,  \* m_bMouseEnabled, g_mouse_mode, ManyMouse has a driver
  grab,      \* bolGrab
  quitflag,  \* the quit flag
  frames,    \* calls in progress, the innermost last
  moves, changes,  \* counts for the bounds
  orphan,    \* history: codes whose release may have gone under
  lost       \* history: <<device, code>> whose press may have gone under

queues == <<sdlQueue, mice>>
memory == <<prevHat, inUse>>
modes == <<keyMode, mouseOn, mouseMode, attached, changes>>
history == <<orphan, lost>>
inputVars == <<at, queues, down, memory, modes, grab, quitflag, frames, moves, history>>

\* The enum of io/input.h, in the part that the models use.
UP == 0
LEFT == 1
DOWN == 2
RIGHT == 3
SCREENSHOT == 17
QUIT == 18
PAUSE == 19
HELD == -1
ESCAPE == 27             \* SDLK_ESCAPE
Codes == 0 .. 255        \* singe::input_enable takes a Uint8
Modes == {"sdl", "many"}

\* Devices are the keys and these four; a second stick axis would be like the first.
Devices == Keys \cup {"hat", "stick", "button", "mouse"}
Positions(d) == CASE d = "hat" -> Hats
                  [] d = "stick" -> {{}, {UP}, {DOWN}}
                  [] OTHER -> {{}, {HELD}}

ASSUME InputAssumption ==
  /\ (Keys \cup {GrabKey}) \cap {"hat", "stick", "button", "mouse"} = {}
  /\ {} \in Hats /\ Hats \subseteq SUBSET {UP, RIGHT, DOWN, LEFT}
  /\ \A k \in Keys : Sym(k) \in Nat /\ Bound(k) \in Seq(Codes)
  /\ ButtonSwitch \in Codes /\ \A mode \in Modes : MouseSwitch(mode) \in Codes
  /\ MaxMoves \in Nat /\ MaxChanges \in Nat

Ask(code, press) == [code |-> code, press |-> press]
Press(codes) == [n \in DOMAIN codes |-> Ask(codes[n], TRUE)]
Release(codes) == [n \in DOMAIN codes |-> Ask(codes[n], FALSE)]
BoundTo(k, switch) == \E n \in DOMAIN Bound(k) : Bound(k)[n] = switch
\* What reaches the script of a key in full mode: 8 bits of its number, and of ESCAPE
\* nothing.  The few other keys that are not scanned are left out.
KeyCode(k) == IF Sym(k) = ESCAPE THEN <<>> ELSE <<Sym(k) % 256>>

\* singe::process_keydown
KeyDown(k) == Press(IF keyMode = "full" THEN KeyCode(k) ELSE RemoveFirst(Bound(k), PAUSE))

\* SDL_KEYUP and singe::process_keyup.  What a key bound to PAUSE, QUIT or SCREENSHOT
\* pressed besides stays pressed, and so does what GrabKey pressed.
KeyUp(k) == Release(IF k = GrabKey THEN <<>>
                    ELSE IF keyMode = "full" THEN KeyCode(k)
                    ELSE IF BoundTo(k, PAUSE) THEN <<PAUSE>>
                    ELSE IF BoundTo(k, QUIT) \/ BoundTo(k, SCREENSHOT) THEN <<>>
                    ELSE Bound(k))

Quits(k) ==
  /\ k # GrabKey
  /\ IF keyMode = "full" THEN Sym(k) = ESCAPE ELSE BoundTo(k, QUIT) /\ ~BoundTo(k, PAUSE)

\* process_joystick_motion: the middle releases both directions, if the stick was used.
StickMoved(to) ==
  CASE to # {} -> <<Ask(CHOOSE direction \in to : TRUE, TRUE)>>
    [] to = {} /\ inUse -> Release(<<UP, DOWN>>)
    [] OTHER -> <<>>

\* process_joystick_hat_motion asks of each direction in turn whether it is new; see Tell.
HatMoved(to) == <<Ask(UP, UP \in to), Ask(RIGHT, RIGHT \in to),
                  Ask(DOWN, DOWN \in to), Ask(LEFT, LEFT \in to)>>

\* The mouse is read from one of the two queues, with the map of its mode.
Hears(mode) == mouseOn /\ mouseMode = mode
MouseMoved(to, mode) ==
  IF Hears(mode) THEN <<Ask(MouseSwitch(mode), to # {})>> ELSE <<>>

\* What process_event will tell the script of an event.
Calls(e) == CASE e.of \in Keys -> IF e.to = {} THEN KeyUp(e.of) ELSE KeyDown(e.of)
              [] e.of = "hat" -> HatMoved(e.to)
              [] e.of = "stick" -> StickMoved(e.to)
              [] e.of = "button" -> <<Ask(ButtonSwitch, e.to # {})>>
              [] e.of = "mouse" -> MouseMoved(e.to, "sdl")

\* The codes a device may have pressed in any mode, and those its position means now.
AllCodes(d) == CASE d \in Keys -> {Sym(d) % 256} \cup ToSet(Bound(d))
                 [] d = "hat" -> UNION Hats
                 [] d = "stick" -> {UP, DOWN}
                 [] d = "button" -> {ButtonSwitch}
                 [] d = "mouse" -> {MouseSwitch(m) : m \in Modes}
Wants(d) == CASE d \in {"hat", "stick"} -> at[d]
              [] at[d] = {} -> {}
              [] d \in Keys /\ at[d] # {} -> {s.code : s \in ToSet(KeyDown(d))}
              [] d = "button" /\ at[d] # {} -> {ButtonSwitch}
              [] d = "mouse" /\ at[d] # {} ->
                   IF mouseOn /\ (mouseMode = "many" => attached) THEN {MouseSwitch(mouseMode)} ELSE {}

Frame(kind, of, to, todo) == [kind |-> kind, of |-> of, to |-> to, todo |-> todo, torn |-> FALSE]
Plain(kind) == Frame(kind, "none", {}, <<>>)
Is(kind) == frames # <<>> /\ Last(frames).kind = kind
Polls == Cardinality({n \in DOMAIN frames : frames[n].kind \in {"poll", "mice"}})
\* The script runs: it is drawing the overlay, or handling an input.
InScript == frames = <<>> \/ Is("script")

\* Modes change, or an event of a device is handled inside one: the events of these
\* devices that are being handled are torn from those that come before or after.
Tear(calls, ds) == [n \in DOMAIN calls |->
                      [calls[n] EXCEPT !.torn = @ \/ (calls[n].kind = "event" /\ calls[n].of \in ds)]]
Pairs(ds) == UNION {{d} \X AllCodes(d) : d \in ds}
Forgive(ds, codes) == /\ orphan' = orphan \cup codes
                      /\ lost' = lost \cup Pairs(ds)

-----------------------------------------------------------------------------
InputInit ==
  /\ at = [d \in Devices |-> {}]
  /\ sdlQueue = <<>> /\ mice = <<>> /\ down = {}
  /\ prevHat = {} /\ inUse = FALSE
  /\ keyMode = "normal" /\ mouseOn = TRUE /\ mouseMode = "sdl" /\ attached = FALSE
  /\ grab = FALSE /\ quitflag = FALSE /\ frames = <<>>
  /\ moves = 0 /\ changes = 0 /\ orphan = {} /\ lost = {}

\* The user.  SDL reports every mouse, and ManyMouse does when it has a driver.
Move(d, to) ==
  /\ moves < MaxMoves /\ ~quitflag
  /\ to # at[d]
  /\ at' = [at EXCEPT ![d] = to]
  /\ sdlQueue' = Append(sdlQueue, [of |-> d, to |-> to])
  /\ mice' = IF d = "mouse" /\ attached THEN Append(mice, to) ELSE mice
  /\ moves' = moves + 1
  /\ UNCHANGED <<down, memory, modes, grab, quitflag, frames, history>>

\* SDL_check_input is called by the main loop and by wait_for_status.
PollBegins ==
  /\ InScript /\ ~quitflag
  /\ Polls < MaxNesting
  /\ frames' = Append(frames, Plain("poll"))
  /\ UNCHANGED <<at, queues, down, memory, modes, grab, quitflag, moves, history>>

\* ManyMouse is left and begun again when the mouse is grabbed; it forgets its queue.
Grabs(e) == e.of = GrabKey /\ e.to = {} /\ Hears("many")
Regrab == /\ grab' = ~grab
          /\ IF grab THEN UNCHANGED <<mice, attached, history>>
             ELSE /\ mice' = <<>> /\ attached' = TRUE
                  /\ Forgive({"mouse"}, down \cap AllCodes("mouse"))

\* process_event; a key bound to QUIT ends the program when it is released.
Poll ==
  /\ Is("poll") /\ sdlQueue # <<>> /\ ~quitflag
  /\ LET e == Head(sdlQueue) IN
       /\ frames' = Append(Tear(frames, {e.of}), Frame("event", e.of, e.to, Calls(e)))
       /\ quitflag' = (e.of \in Keys /\ e.to = {} /\ Quits(e.of))
       /\ IF Grabs(e) THEN Regrab ELSE UNCHANGED <<mice, attached, grab, history>>
  /\ sdlQueue' = Tail(sdlQueue)
  /\ UNCHANGED <<at, down, memory, keyMode, mouseOn, mouseMode, changes, moves>>

\* SDL's events are done; ManyMouse's follow, if there are to be any.
PollEnds ==
  /\ Is("poll") /\ (sdlQueue = <<>> \/ quitflag)
  /\ frames' = IF Hears("many") THEN Append(Front(frames), Plain("mice")) ELSE Front(frames)
  /\ UNCHANGED <<at, queues, down, memory, modes, grab, quitflag, moves, history>>

\* ManyMouse_Update_Mice goes on to its end even if a handler has changed the mode.
PollMouse ==
  /\ Is("mice") /\ mice # <<>> /\ attached
  /\ LET call == Ask(MouseSwitch(mouseMode), Head(mice) # {})
         e == Frame("event", "mouse", Head(mice), <<call>>)
     IN frames' = Append(frames, [e EXCEPT !.torn = ~mouseOn])
  /\ mice' = Tail(mice)
  /\ UNCHANGED <<at, sdlQueue, down, memory, modes, grab, quitflag, moves, history>>

MiceEnd ==
  /\ Is("mice") /\ (mice = <<>> \/ ~attached)
  /\ frames' = Front(frames)
  /\ UNCHANGED <<at, queues, down, memory, modes, grab, quitflag, moves, history>>

\* The next call of an event is made.  A hat's direction that has not moved against
\* prev_hat_position, as it is now, is passed over.
Due(f) == LET Moved(s) == f.of = "hat" => s.press # (s.code \in prevHat)
          IN SelectInSeq(f.todo, Moved)
Tell ==
  /\ Is("event") /\ Due(Last(frames)) # 0
  /\ LET f == Last(frames)  n == Due(f)  s == f.todo[n] IN
       /\ down' = IF s.press THEN down \cup {s.code} ELSE down \ {s.code}
       /\ frames' = Append(Front(frames), [f EXCEPT !.todo = SubSeq(@, n + 1, Len(@))])
                     \o <<Plain("script")>>
       /\ IF s.press
          THEN lost' = lost \ {<<f.of, s.code>>} /\ UNCHANGED orphan
          ELSE /\ orphan' = orphan \ {s.code}
               /\ lost' = lost \cup {p \in Pairs(Devices \ {f.of}) : p[2] = s.code}
  /\ UNCHANGED <<at, queues, memory, modes, grab, quitflag, moves>>

\* Fault: the hat's last position is forgotten when the hat is let go.
HandledHat ==
  /\ Is("event") /\ Due(Last(frames)) = 0
  /\ LET f == Last(frames) IN
       /\ prevHat' = IF f.of = "hat" /\ f.to # {} THEN f.to ELSE prevHat
       /\ inUse' = IF f.of = "stick" THEN f.to # {} ELSE inUse
       /\ IF f.torn THEN Forgive({f.of}, AllCodes(f.of)) ELSE UNCHANGED history
  /\ frames' = Front(frames)
  /\ UNCHANGED <<at, queues, down, modes, grab, quitflag, moves>>

\* The statics of the stick and the hat are set behind their last call.
Handled ==
  /\ Is("event") /\ Due(Last(frames)) = 0
  /\ LET f == Last(frames) IN
       /\ prevHat' = IF f.of = "hat" THEN f.to ELSE prevHat
       /\ inUse' = IF f.of = "stick" THEN f.to # {} ELSE inUse
       /\ IF f.torn THEN Forgive({f.of}, AllCodes(f.of)) ELSE UNCHANGED history
  /\ frames' = Front(frames)
  /\ UNCHANGED <<at, queues, down, modes, grab, quitflag, moves>>

HandlerReturns ==
  /\ Is("script")
  /\ frames' = Front(frames)
  /\ UNCHANGED <<at, queues, down, memory, modes, grab, quitflag, moves, history>>

\* sep_keyboard_set_mode
ScriptSetsKeyboard ==
  /\ InScript /\ ~quitflag /\ changes < MaxChanges
  /\ keyMode' = IF keyMode = "full" THEN "normal" ELSE "full"
  /\ frames' = Tear(frames, Keys)
  /\ Forgive(Keys, down)
  /\ changes' = changes + 1
  /\ UNCHANGED <<at, queues, down, memory, mouseOn, mouseMode, attached, grab, quitflag, moves>>

\* sep_mouse_enable, sep_mouse_disable: ManyMouse keeps its driver and its queue.
ScriptTurnsMouse ==
  /\ InScript /\ ~quitflag /\ changes < MaxChanges
  /\ mouseOn' = ~mouseOn
  /\ Forgive({"mouse"}, down \cap AllCodes("mouse"))
  /\ changes' = changes + 1
  /\ UNCHANGED <<at, queues, down, memory, keyMode, mouseMode, attached, grab, quitflag, frames, moves>>

\* sep_mouse_set_mode and set_mouse_mode.  A mode that does not exist leaves ManyMouse
\* without a driver and is refused afterwards.
ScriptSetsMouse(mode) ==
  /\ InScript /\ ~quitflag /\ changes < MaxChanges
  /\ mouseOn
  /\ mouseMode' = IF mode \in Modes THEN mode ELSE mouseMode
  /\ attached' = IF mode = "many" THEN TRUE ELSE attached /\ mouseMode # "many"
  /\ mice' = IF mode = "many" \/ mouseMode = "many" THEN <<>> ELSE mice
  /\ Forgive({"mouse"}, down \cap AllCodes("mouse"))
  /\ changes' = changes + 1
  /\ UNCHANGED <<at, sdlQueue, down, memory, keyMode, mouseOn, grab, quitflag, frames, moves>>

InputNext ==
  \/ \E d \in Devices : \E to \in Positions(d) : Move(d, to)
  \/ PollBegins \/ Poll \/ PollEnds \/ PollMouse \/ MiceEnd \/ Tell \/ Handled
  \/ HandlerReturns \/ ScriptSetsKeyboard \/ ScriptTurnsMouse
  \/ \E mode \in Modes \cup {"none"} : ScriptSetsMouse(mode)

InputSpec == InputInit /\ [][InputNext]_inputVars

-----------------------------------------------------------------------------
\* Nothing is on its way: what the devices say and what the script was told can be compared.
Quiet == frames = <<>> /\ sdlQueue = <<>> /\ (Hears("many") => mice = <<>>) /\ ~quitflag

\* GrabKey and a key with a function of its own are never released.
Unreleased == UNION {AllCodes(k) : k \in {q \in Keys : \/ q = GrabKey \/ BoundTo(q, PAUSE)
                                                     \/ BoundTo(q, QUIT)
                                                     \/ BoundTo(q, SCREENSHOT)}}

\* A stick that is pushed from one direction to the other keeps both pressed until it
\* is let go.
Excused == Unreleased \cup IF at["stick"] # {} THEN {UP, DOWN} ELSE {}

EventType == [of : Devices, to : SUBSET Int]
Asks == [code : Codes, press : BOOLEAN]
FrameType == [kind : {"poll", "mice", "event", "script"}, of : Devices \cup {"none"},
              to : SUBSET Int, torn : BOOLEAN,
              todo : Seq(Asks)]

\* The events of a check are handled one by one, each by calls of the script, and in a
\* call the script may come to check again.
Inside(kind) == CASE kind = "event" -> {"script"}
                  [] kind = "script" -> {"poll", "mice"}
                  [] OTHER -> {"event"}
Nested(calls) ==
  /\ calls \in Seq(FrameType)
  /\ \A n \in DOMAIN calls : calls[n].kind = "event" =>
       calls[n].of \in Devices /\ calls[n].to \in Positions(calls[n].of)
  /\ calls # <<>> => calls[1].kind \in {"poll", "mice"}
  /\ \A n \in DOMAIN calls : n + 1 \in DOMAIN calls => calls[n + 1].kind \in Inside(calls[n].kind)

\* The state has its types, calls nest as they should, and the codes handed to the
\* script fit the byte they travel in.
InputTypeOK ==
  /\ DOMAIN at = Devices /\ \A d \in Devices : at[d] \in Positions(d)
  /\ sdlQueue \in Seq(EventType)
  /\ \A n \in DOMAIN sdlQueue : sdlQueue[n].to \in Positions(sdlQueue[n].of)
  /\ mice \in Seq(Positions("mouse"))
  /\ down \subseteq Codes /\ prevHat \in Hats
  /\ inUse \in BOOLEAN /\ keyMode \in {"normal", "full"} /\ mouseMode \in Modes
  /\ {mouseOn, attached, grab, quitflag} \subseteq BOOLEAN
  /\ Nested(frames)
  /\ moves \in 0 .. MaxMoves /\ changes \in 0 .. MaxChanges
  /\ orphan \subseteq Codes /\ lost \subseteq Pairs(Devices)

\* No switch stays pressed that nobody holds: when nothing is on its way, every code
\* the script believes pressed is held by a device (input_disable: "if user has
\* released a key/released a button/moved joystick back to center position"), unless
\* a mode was changed over it or a device was handled inside its own handling.
NothingSticks == Quiet => \A c \in down \ (orphan \cup Excused) : \E d \in Devices : c \in Wants(d)

\* No switch that is held is missed: its code was told and not taken back, unless by a
\* device that shares the switch, a change of mode, or a handling inside another.
HeldIsTold == Quiet => \A d \in Devices : \A c \in Wants(d) : c \in down \/ <<d, c>> \in lost

\* What the script believes of the switches is what the devices say.
SwitchesAgree == NothingSticks /\ HeldIsTold
=============================================================================
