------------------------------ MODULE Lifecycle ------------------------------
(***************************************************************************)
(* How the program comes up and goes down: main (daphne.cpp), sound_init   *)
(* and sound_shutdown (sound.cpp), the list of sound chips and the choice  *)
(* of a mixer, ldp::pre_init and pre_shutdown (ldp.cpp), init_player and   *)
(* shutdown_player (ldp-vldp.cpp).  Every step of the start may fail, or   *)
(* meet the user's wish to quit, and what came up before has to go down.   *)
(* Meanwhile SDL's audio thread walks the list of chips, and the private   *)
(* thread of the VLDP draws pictures.                                      *)
(*                                                                         *)
(* A call of SDL_LockAudio and what is done under it is one step of the    *)
(* main thread that is possible while no callback runs.  A definition      *)
(* introduced as Fault is a plausible bug in the definition after it.      *)
(***************************************************************************)
EXTENDS Naturals, Sequences, SequencesExt

VARIABLES
  pc,        \* where the main thread is, named for what it does next
  res,       \* what has been acquired and not yet released
  quit,      \* the quit flag
  enabled, initialized,  \* g_sound_enabled, g_sound_initialized
  playerUp,  \* player_initialized
  running,   \* the sound device is not paused
  chips, nextId, chipId, \* the list, g_uSoundChipNextID, m_uSoundChipID
  mixer, muted,          \* g_soundmix_callback, g_bSoundMuted
  quiet,     \* kinds of chip whose volume is below the maximum
  silent,    \* -startsilent, an option
  calling, asked,  \* audio thread: in the callback, which has these chips to ask
  drawing    \* private thread: between prepare_frame and its return

mainVars  == <<pc, res, quit, enabled, initialized, playerUp>>
chipVars  == <<chips, nextId, chipId>>
mixVars   == <<mixer, muted, quiet, silent>>
soundVars == <<running, chipVars, mixVars>>
threadVars == <<calling, asked, drawing>>
vars == <<mainVars, soundVars, threadVars>>

Idle == ~calling           \* no callback runs: the audio lock is free
Kinds == {"samples", "vldp"}
Own == {"objects", "bmps", "script", "surfaces", "lib", "mutex", "thread", "overlay"}
Sdl == {"display", "device", "input"}
Chip(k, id) == [kind |-> k, id |-> id]

TypeOK ==
  /\ pc \in {"options", "display", "sound", "input", "surfaces", "lib", "files",
             "mutex", "thread", "checks", "opening", "opened", "refused", "chip",
             "failed", "init", "start", "running", "ldp_down", "join", "unchip",
             "p_free", "surfaces_down", "input_down", "sound_down",
             "display_down", "free", "exit", "exit126"}
  /\ res \subseteq Own \cup Sdl
  /\ {quit, enabled, initialized, playerUp, running, muted, silent, calling, drawing} \subseteq BOOLEAN
  /\ \A i \in DOMAIN chips : chips[i] \in [kind : Kinds, id : 0..nextId - 1]
  /\ nextId \in 0..2 /\ chipId \in 0..1
  /\ mixer \in {"mute", "none", "max", "mults"}
  /\ quiet \subseteq Kinds

\* After SDL_Init, without which main ends at once (exit(1), with nothing of its own).
\* Sound may be off by option (-nosound); the volumes of both kinds of chip are
\* options too.
Init ==
  /\ pc = "options" /\ res = {} /\ quit = FALSE
  /\ enabled \in BOOLEAN /\ silent \in BOOLEAN /\ quiet \in SUBSET Kinds
  /\ initialized = FALSE /\ playerUp = FALSE /\ running = FALSE
  /\ chips = <<>> /\ nextId = 0 /\ chipId = 0
  /\ mixer = "none" /\ muted = FALSE
  /\ calling = FALSE /\ asked = <<>> /\ drawing = FALSE

-----------------------------------------------------------------------------
(* The list of chips                                                       *)

\* Fault: the new chip is not counted.
MixerForFew(cs, q, m) ==
  IF m THEN "mute"
  ELSE IF \E i \in DOMAIN cs : cs[i].kind \in q THEN "mults"
  ELSE IF Len(cs) > 2 THEN "max" ELSE "none"

\* update_soundchip_volumes: what mixes the chips cs when the volumes are low
\* for the kinds in q.
MixerFor(cs, q, m) ==
  IF m THEN "mute"
  ELSE IF \E i \in DOMAIN cs : cs[i].kind \in q THEN "mults"
  ELSE IF Len(cs) > 1 THEN "max" ELSE "none"

\* add_soundchip(k) under the lock: at the end of the list, with the next
\* number, and a mixer for the new list.
AddChip(k, m) ==
  /\ chips' = Append(chips, Chip(k, nextId)) /\ nextId' = nextId + 1
  /\ muted' = m /\ mixer' = MixerFor(chips', quiet, m)

\* delete_soundchip(id): the first chip of that number is unlinked, if there is
\* one; the mixer stays as it is.
DeleteChip(id) ==
  \/ /\ \A i \in DOMAIN chips : chips[i].id # id
     /\ UNCHANGED chips
  \/ \E i \in DOMAIN chips :
       /\ chips[i].id = id /\ \A j \in 1..i - 1 : chips[j].id # id
       /\ chips' = RemoveAt(chips, i)

-----------------------------------------------------------------------------
(* The main thread on its way up                                           *)

Goto(l) == pc' = l
Take(r) == res' = res \cup r
Same == UNCHANGED <<soundVars, threadVars>>
Flags == UNCHANGED <<quit, enabled, initialized, playerUp>>

\* parse_cmd_line allocates g_game and g_ldp, or the program ends.
ParseOptions ==
  /\ pc = "options" /\ Take({"objects"}) /\ Goto("display") /\ Flags /\ Same
OptionsFail ==
  /\ pc = "options" /\ Goto("free") /\ Flags /\ Same
  /\ \E r \in {{}, {"objects"}} : Take(r)

\* load_bmps() && init_display(): a display that fails half way stays to SDL_Quit.
InitDisplay ==
  /\ pc = "display" /\ Take({"bmps", "display"}) /\ Goto("sound") /\ Flags /\ Same
DisplayFails ==
  /\ pc = "display" /\ Goto("free") /\ Flags /\ Same
  /\ \E r \in {{}, {"bmps"}, {"bmps", "display"}} : Take(r)

\* sound_init.  Sound that is off, or has no device, does not stop the program;
\* a device of the wrong kind does, and is left open.
SoundOff ==
  /\ pc = "sound" /\ enabled' = FALSE /\ Goto("input") /\ Same
  /\ UNCHANGED <<res, quit, initialized, playerUp>>

SoundFails ==
  /\ pc = "sound" /\ enabled /\ Goto("display_down") /\ Flags /\ Same
  /\ \E r \in {{}, {"device"}} : Take(r)
\* load_waves misses one sample and ends the program with exit(126).
WavesMissing == pc = "sound" /\ enabled /\ Take({"device"}) /\ Goto("exit126") /\ Flags /\ Same
InitSound ==
  /\ pc = "sound" /\ enabled /\ Take({"device"})
  /\ AddChip("samples", silent)
  /\ initialized' = TRUE /\ running' = TRUE /\ Goto("input")
  /\ UNCHANGED <<quit, enabled, playerUp, chipId, quiet, silent, threadVars>>

InitInput == pc = "input" /\ Take({"input"}) /\ Goto("surfaces") /\ Flags /\ Same
InputFails == pc = "input" /\ Goto("sound_down") /\ UNCHANGED res /\ Flags /\ Same

\* game::video_init: surfaces that were created before one failed are not freed.
VideoInit == pc = "surfaces" /\ Take({"surfaces"}) /\ Goto("lib") /\ Flags /\ Same
VideoFails ==
  /\ pc = "surfaces" /\ Goto("input_down") /\ Flags /\ Same
  /\ \E r \in {{}, {"surfaces"}} : Take(r)

\* init_player, up to vldp_init: any failure goes to shutdown_player.  The notice
\* about parsing lets the user quit, which is looked at after the mutex exists.
LoadLib == pc = "lib" /\ Take({"lib"}) /\ Goto("files") /\ Flags /\ Same
Files ==
  /\ pc = "files" /\ Goto("mutex") /\ quit' \in {quit, TRUE}
  /\ UNCHANGED <<res, enabled, initialized, playerUp>> /\ Same
AudioInit ==
  /\ pc = "mutex" /\ Take({"mutex"}) /\ Goto(IF quit THEN "join" ELSE "thread")
  /\ Flags /\ Same
StartThread == pc = "thread" /\ Take({"thread"}) /\ Goto("checks") /\ Flags /\ Same
\* The version of the interface, tests, precaching and parsing.
Checks == pc = "checks" /\ Goto("opening") /\ UNCHANGED res /\ Flags /\ Same
\* Fault: a start that fails returns without shutdown_player.
PlayerFailsEarly ==
  /\ pc \in {"lib", "files", "mutex", "thread", "checks", "refused"}
  /\ Goto("surfaces_down") /\ UNCHANGED res /\ Flags /\ Same

PlayerFails ==
  /\ pc \in {"lib", "files", "mutex", "thread", "checks", "refused"}
  /\ Goto("join") /\ UNCHANGED res /\ Flags /\ Same

\* The first file is open: the chip of the disc's sound is added if there is
\* sound, and init_player has succeeded.
AddVldpChip ==
  /\ pc = "opened"
  /\ IF enabled
     THEN Idle /\ AddChip("vldp", muted) /\ chipId' = nextId
     ELSE UNCHANGED <<chips, nextId, chipId, mixer, muted>>
  /\ playerUp' = TRUE /\ Goto("init")
  /\ UNCHANGED <<res, quit, enabled, initialized, running, quiet, silent, threadVars>>

\* game::pre_init: the script's host is linked.
GameInit == pc = "init" /\ Goto("start") /\ UNCHANGED res /\ Flags /\ Same
GameInitFails == pc = "init" /\ Goto("ldp_down") /\ UNCHANGED res /\ Flags /\ Same

\* sep_startup, then the main loop, or none if the flag is up already.
Start == pc = "start" /\ Take({"script"}) /\ Goto("running") /\ Flags /\ Same

-----------------------------------------------------------------------------
(* While the program runs, or waits for the first file                     *)

Handling == pc \in {"opening", "running"}
SetQuit ==
  /\ Handling /\ ~quit /\ quit' = TRUE
  /\ UNCHANGED <<pc, res, enabled, initialized, playerUp>> /\ Same

\* The first key pressed undoes -startsilent (input.cpp, reset_idle).
Unmute ==
  /\ Handling /\ initialized /\ muted /\ Idle
  /\ muted' = FALSE /\ mixer' = MixerFor(chips, quiet, FALSE)
  /\ UNCHANGED <<mainVars, running, chipVars, quiet, silent, threadVars>>

\* set_soundchip_nonvldp_volume, from the script.
SetVolume ==
  /\ pc = "running" /\ Idle
  /\ \E q \in {quiet \cup {"samples"}, quiet \ {"samples"}} :
       quiet' = q /\ mixer' = MixerFor(chips, q, muted)
  /\ UNCHANGED <<mainVars, running, chipVars, muted, silent, threadVars>>

-----------------------------------------------------------------------------
(* The main thread on its way down                                         *)

\* sep_shutdown and game::pre_shutdown.
Stop == pc = "running" /\ quit /\ res' = res \ {"script"} /\ Goto("ldp_down") /\ Flags /\ Same

\* ldp::pre_shutdown, from main.
PreShutdown ==
  /\ pc = "ldp_down" /\ playerUp /\ playerUp' = FALSE /\ Goto("join")
  /\ UNCHANGED <<res, quit, enabled, initialized>> /\ Same

\* Fault: the thread is told to quit but not waited for.
JoinNot ==
  /\ pc = "join" /\ Goto("unchip") /\ UNCHANGED res /\ Flags /\ Same

\* shutdown_player: the private thread is waited for, the chip deleted, then the
\* library, the mutex and the overlay are freed.
Join ==
  /\ pc = "join" /\ "thread" \notin res /\ Goto("unchip") /\ UNCHANGED res /\ Flags /\ Same

Unchip ==
  /\ pc = "unchip" /\ Goto("p_free")
  /\ IF enabled THEN Idle /\ DeleteChip(chipId) ELSE UNCHANGED chips
  /\ UNCHANGED <<res, running, nextId, chipId, mixVars, threadVars>> /\ Flags

FreePlayer ==
  /\ pc = "p_free" /\ res' = res \ {"lib", "mutex", "overlay"}
  /\ Goto("surfaces_down") /\ Flags /\ Same

VideoShutdown ==
  /\ pc = "surfaces_down" /\ res' = res \ {"surfaces"} /\ Goto("input_down") /\ Flags /\ Same
InputShutdown ==
  /\ pc = "input_down" /\ res' = res \ {"input"} /\ Goto("sound_down") /\ Flags /\ Same

\* sound_shutdown: SDL_CloseAudio waits for the audio thread; the list is freed
\* and its head is left.
SoundShutdown ==
  /\ pc = "sound_down" /\ initialized /\ Idle
  /\ res' = res \ {"device"} /\ running' = FALSE
  /\ chips' = <<>> /\ initialized' = FALSE /\ Goto("display_down")
  /\ UNCHANGED <<quit, enabled, playerUp, nextId, chipId, mixVars, threadVars>>
SoundIsDown ==
  /\ pc = "sound_down" /\ ~initialized /\ Goto("display_down") /\ UNCHANGED res /\ Flags /\ Same

DisplayShutdown ==
  /\ pc = "display_down" /\ res' = res \ {"display"} /\ Goto("free") /\ Flags /\ Same

\* The destructors (that of g_ldp finds player_initialized cleared by now), then
\* free_bmps and SDL_Quit.
Exit ==
  /\ pc = "free" /\ Goto("exit") /\ Flags /\ Same
  /\ res' = res \ (Sdl \cup {"objects", "bmps"})

-----------------------------------------------------------------------------
(* The other threads                                                       *)

\* audio_callback: every chip in the list is asked for sound, then mixed.
CallbackBegins ==
  /\ Idle /\ running /\ calling' = TRUE /\ asked' = chips
  /\ UNCHANGED <<mainVars, soundVars, drawing>>
CallbackAsks ==
  /\ calling /\ asked # <<>> /\ asked' = Tail(asked)
  /\ UNCHANGED <<mainVars, soundVars, calling, drawing>>
CallbackMixes ==
  /\ calling /\ asked = <<>> /\ calling' = FALSE
  /\ UNCHANGED <<mainVars, soundVars, asked, drawing>>

\* report_mpeg_dimensions_callback, when a file is opened, parsed or precached.
MakeOverlay ==
  /\ "thread" \in res /\ pc \in {"checks", "opening", "running"} /\ ~drawing
  /\ Take({"overlay"}) /\ UNCHANGED <<pc, soundVars, threadVars>> /\ Flags

\* The first file has been opened, with an overlay or, if that could not be made,
\* with the quit flag up; or it cannot be opened.
OpenSucceeds ==
  /\ pc = "opening" /\ ~drawing /\ Goto("opened")
  /\ \/ Take({"overlay"}) /\ UNCHANGED quit
     \/ res' = res \ {"overlay"} /\ quit' = TRUE
  /\ UNCHANGED <<enabled, initialized, playerUp>> /\ Same
OpenFails == pc = "opening" /\ Goto("refused") /\ UNCHANGED res /\ Flags /\ Same

\* A picture, or a blank one, is drawn with the overlay and the game's surface.
DrawBegins ==
  /\ {"thread", "overlay"} \subseteq res /\ ~drawing /\ drawing' = TRUE
  /\ UNCHANGED <<mainVars, soundVars, calling, asked>>
DrawEnds == drawing /\ drawing' = FALSE /\ UNCHANGED <<mainVars, soundVars, calling, asked>>

\* Fault: the command is only met by an idle thread without an overlay.
ThreadEndsIdle ==
  /\ pc = "join" /\ "thread" \in res /\ "overlay" \notin res /\ res' = res \ {"thread"}
  /\ UNCHANGED <<pc, soundVars, threadVars>> /\ Flags

\* The quit command is met between two pictures.
ThreadEnds ==
  /\ pc = "join" /\ "thread" \in res /\ ~drawing /\ res' = res \ {"thread"}
  /\ UNCHANGED <<pc, soundVars, threadVars>> /\ Flags

-----------------------------------------------------------------------------
Up == \/ ParseOptions \/ OptionsFail \/ InitDisplay \/ DisplayFails \/ SoundOff
      \/ SoundFails \/ WavesMissing \/ InitSound \/ InitInput \/ InputFails
      \/ VideoInit \/ VideoFails \/ LoadLib \/ Files \/ AudioInit \/ StartThread
      \/ Checks \/ PlayerFails \/ AddVldpChip \/ GameInit \/ GameInitFails \/ Start
Down == \/ Stop \/ PreShutdown \/ Join \/ Unchip \/ FreePlayer \/ VideoShutdown
        \/ InputShutdown \/ SoundShutdown \/ SoundIsDown \/ DisplayShutdown \/ Exit
Callback == CallbackBegins \/ CallbackAsks \/ CallbackMixes
Private == MakeOverlay \/ OpenSucceeds \/ OpenFails \/ DrawBegins \/ DrawEnds \/ ThreadEnds
Next == Up \/ Down \/ SetQuit \/ Unmute \/ SetVolume \/ Callback \/ Private

Spec == Init /\ [][Next]_vars

\* The main thread goes on, and gets the audio lock between two callbacks; the
\* private thread is never starved.
FairSpec ==
  /\ Spec /\ WF_vars(Up) /\ WF_vars(Down)
  /\ SF_vars(AddVldpChip) /\ SF_vars(Unchip) /\ SF_vars(SoundShutdown)
  /\ WF_vars(CallbackAsks \/ CallbackMixes)
  /\ WF_vars(DrawEnds) /\ SF_vars(OpenSucceeds \/ OpenFails) /\ SF_vars(ThreadEnds)
-----------------------------------------------------------------------------
(* Properties                                                              *)

\* Whatever fails or is freed first, the threads only use what is there: a
\* picture is drawn with the library, the overlay and the game's surfaces in
\* place, the disc's chip is asked while its mutex exists, and a callback walks
\* chips of the list on an open device.
UsesWhatIsThere ==
  /\ drawing => {"lib", "overlay", "surfaces"} \subseteq res
  /\ ~Idle => "device" \in res /\ Range(asked) \subseteq Range(chips)
  /\ \A i \in DOMAIN chips : chips[i].kind = "vldp" => {"mutex", "lib"} \subseteq res

\* The mixer that was chosen last fits the list the callback walks: mixNone, which
\* copies the first chip only, is for one chip at full volume, mixWithMaxVolume
\* for full volumes, and a muted program is silent (update_soundchip_volumes).
MixerFits ==
  initialized =>
    /\ mixer = "mute" <=> muted
    /\ mixer = "none" => Len(chips) <= 1
    /\ mixer \in {"none", "max"} => \A i \in DOMAIN chips : chips[i].kind \notin quiet

\* When main ends ("Shutting down ..."), whatever failed, nothing of the program's
\* own is left but the surfaces of a video_init that failed half way.  The other
\* end is exit(126) in load_waves (sound.cpp:325-330), from below main: all that
\* main had so far is left, and the device that sound_init had opened, since
\* sound_shutdown does nothing yet; but no chip is left, and no thread was started.
LeftAtEnd ==
  /\ pc = "exit" => res \subseteq {"surfaces"} /\ chips = <<>>
  /\ pc = "exit126" =>
       /\ res = {"objects", "bmps", "display", "device"}
       /\ chips = <<>> /\ ~running /\ ~drawing

\* A user who quits gets the program to end, from whatever point of the start.
QuitEnds == quit ~> pc = "exit"
=============================================================================
