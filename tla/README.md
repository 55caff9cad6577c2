# A verification of Singe's laserdisc player in TLA+

Singe 1.18 runs laserdisc games. A Lua script is the game; it drives a simulated
laserdisc player whose "disc" is a set of MPEG files, decoded by a thread of
their own, with sound from a third. This directory models the player and what
surrounds it, checks the models with TLC on small instances, and proves what
matters most for every instance with TLAPS.

Paths below are relative to `src/src/`. Line numbers in the comments of the
modules are those of the files they name.

## 1. The system

### Threads

* The **main thread** runs `singe::start` (`game/singe.cpp`): it reads input,
  calls the Lua script, and through it the disc (`ldp-out/ldp.cpp`,
  `ldp-out/ldp-vldp.cpp`) and the samples (`sound/samples.cpp`).
* The **private thread** of the VLDP (`vldp2/vldp/vldp_internal.c`) opens,
  scans, seeks and decodes the MPEG files and draws their pictures through
  callbacks.
* The **audio thread** is SDL's: it calls `audio_callback` (`sound/sound.cpp`),
  which mixes the disc's sound (`ldp-out/ldp-vldp-audio.cpp`) and the samples.

The main and the private thread talk through a few shared words without a lock.
The audio thread is excluded by SDL's audio lock and a mutex around the stream.
The main thread is re-entrant: while a disc function waits for a file to open it
handles input, which calls Lua, which may call the disc again.

### Components

| component | source | state | operations | interacts with | hard behaviour | correct when |
|---|---|---|---|---|---|---|
| VLDP command channel | `vldp2/vldp/vldp.c`, `vldp_common.h` | request byte (command and 4-bit count), request parameters, last acknowledgement seen | `vldp_cmd`; `vldp_open`, `_search`, `_play`, `_skip`, `_pause`, `_lock` and the rest on top; `vldp_wait_for_status` | shared words with the private thread | two threads without a lock, time-outs, late answers | a command reported as acknowledged was taken, once |
| VLDP private thread | `vldp2/vldp/vldp_internal.c`, `vldp2/libvo/video_out_null.c` | acknowledgement counter, status, last request taken, pause and skip flags, picture held | `idle_handler` and its handlers, `ivldp_render`, `null_draw_frame`, `paused_handler`, `play_handler`, `ivldp_lock_handler` | polls the request from five places | a command can cut any of them short | the status tells the truth; every command is answered |
| Decoder | `vldp2/libmpeg2/decode.c`, `header.c`, `video_out_null.c`, `vldp_internal.c` | parser state, three buffers and their roles, frames left to skip | `mpeg2_parse`, headers, slices as one step, `decode_mpeg2`, restart for a search or a skip | index, private thread | decoding order is not display order; restarts cut anything short | pictures come in order from whole references; a search holds its picture |
| Frame index | `vldp2/vldp/mpegscan.c`, `vldp_internal.c` | scanner state, `.dat` file, entry table, precached copy | scan, write, check and load the index, precache, read | files | chunks, kills, full disks, files replaced | an open file is searched by its own index |
| Generic player | `ldp-out/ldp.cpp`, `ldp.h` | status, frame counter, skip offset, vblank and millisecond counters, last search | `pre_search`, `pre_play`, `pre_skip_*`, `pre_pause`, `pre_stop`, `pre_step_*`, `pre_change_speed`, `get_status`, `pre_think` | calls the driver; called by the script | blocking searches that time out, a counter that runs ahead of the picture | counter and status describe the picture shown |
| VLDP driver, framefile | `ldp-out/ldp-vldp.cpp` | table of files, current file, its offset, audio flags | `nonblocking_search`, `play`, `skip_forward`, `pause`, `open_and_block`, `wait_for_status`, `think`, `mpeg_info` | VLDP API, audio stream, input | runs input handlers while it waits | every search is answered from the right file, with its sound |
| Frame clock | `ldp.cpp` (`pre_think`), `video_out_null.c` (`null_draw_frame`) | two counts of the same frames and the timer they share | a tick, a picture; every command adjusts both | player and private thread | two counters of one quantity, integer rates, multi-speed | neither drifts, and they agree |
| Disc audio stream | `ldp-out/ldp-vldp-audio.cpp` | Ogg stream, samples played, leftover buffer | open, close, seek, play, pause, callback | driver, audio thread | a callback between any two calls; 32-bit counts; catching up | sound is in its place, and dropped only to catch up |
| Sound samples | `sound/samples.cpp` | slot table, queue of ends | play, stop, pause, resume, set state, flush, mix, do callbacks | script and audio thread | slots read without the lock, handlers run inside the queue | each end is told once; nothing freed is read |
| Sound chips and mixer | `sound/sound.cpp`, `mix.cpp` | chip list, volumes, mixer, streams | add, delete, init, shutdown, set volume, unmute, callback | audio thread | the list and the mixer outlive the choice | the mixer fits the list |
| Overlay output | `ldp-vldp.cpp`, `game/game.cpp`, `game/singe.cpp` | YUV overlay, two game surfaces, parse progress | report dimensions, prepare and blank pictures, parse meter, blit, repaint | private thread draws, main thread recreates | waits in both directions, one with a time-out | nothing in use is freed; the overlay is the file's |
| Keys, joysticks and mice | `io/input.cpp`, `game/singe.cpp` | key map, last hat and stick, mouse and keyboard modes | `process_event`, hat, axis, buttons, mode changes | script | re-entrance, modes that change with a key held | no switch stays pressed that nobody holds |
| Main loop, input queue, script host | `game/singe.cpp`, `game/game.cpp`, `game/singe/singeproxy.cpp`, `io/input.cpp` | quit flag, coin queue, pause flags, Lua context | main loop, `SDL_check_input`, `process_event`, script functions, `sep_error`, `sep_shutdown` | everything | re-entrance through a waiting disc function | coins come once and in order; flags follow the disc; quitting ends |
| Start-up and shutdown | `daphne.cpp` and the `init` and `shutdown` of each part | what has been acquired | every step of the start, each of which may fail, and of the end | everything | failures and quits half way, threads still running | nothing is used before or after its time; nothing is left |
| Script's fonts, sprites and drawing; video, console; timer; options; helpers; pixel arithmetic; frame conversion | `singeproxy.cpp`, `video/*`, `timer/*`, `io/*`, `framemod.cpp` | set up once | sequential | | | |
| Lua, the arithmetic of libmpeg2, ManyMouse, GP2X port | vendored or another platform | | | | | |

`PROJECT.json` lists all of them with what is modelled of each, and the hazards
of the code at the line where each bites.

## 2. Modules

| module | models | what it holds |
|---|---|---|
| `CmdChannel` | nothing: what `vldp_cmd` promises its callers | abstract specification |
| `Vldp` | `vldp.c`, `vldp_internal.c`, the polls of `video_out_null.c` | both threads, one action per handler, poll and return; implements `CmdChannel` |
| `VldpProofs` | | types, handshake, acknowledgement, lock, refinement; the status word, searches and openings |
| `Decoder` | `decode.c`, `header.c`, buffers of `video_out_null.c`, restarts of `vldp_internal.c` | a file as a sequence of chunks, the parser, the roles of three buffers, what is drawn |
| `FrameIndex` | `mpegscan.c`, the `.dat` file, precaching, the file input | the scanner a byte at a step, the `.dat` file, replaced files, kills, a full disk |
| `MpegProofs` | | of `FrameIndex`: a finished index is whole, an open file is searched by its index; of `Decoder`: types, pictures in their order, from whole references, searches land |
| `Deck` | nothing: what `ldp.h` promises the script | abstract specification |
| `Disc` | `ldp.cpp`, `ldp-vldp.cpp`, parts of `singeproxy.cpp` and of the audio stream | calls of the script as a stack, input handlers that call again, the framefile, the VLDP as a status word and a job; implements `Deck` |
| `DiscProofs` | | types, the right file and sound, searches land, none is left behind, refinement of `Deck` |
| `FrameClock` | `pre_think` and `null_draw_frame` | the two counts, milliseconds, vblanks, speeds |
| `FrameClockProofs` | | types, no drift, the two counts in step |
| `DiscAudio` | `ldp-vldp-audio.cpp` | the stream as positions, its mutex, the callback's catching up, 32-bit counts |
| `Samples` | `samples.cpp`, the callback's part of `sound.cpp` | main and audio thread, lock and queue |
| `SoundProofs` | | of `Samples`: types, silence after a flush, each end told once; of `DiscAudio`: types, sound in its place, catching up |
| `Overlay` | the callbacks of `ldp-vldp.cpp`, `video_blit`, `video_repaint` | who makes, paints, reads and frees overlay and surfaces |
| `OverlayProofs` | | types, nothing used is freed, the overlay's size, double buffering |
| `Game` | main loop, coin queue, pause flags, life of the script | calls in progress as a stack |
| `GameProofs` | | of `Game`: pause flag, order of coins; of `Input`: types, the switches agree with the devices |
| `Input` | `io/input.cpp`, `process_keydown`, `process_keyup` | devices, their last positions, the switches told, a stack of handlers |
| `Lifecycle` | `main`, the start and end of sound, input, video, player and script; the chip list | the main thread's position, what is held, the two other threads |
| `LifecycleProofs` | | threads are served, the mixer fits, nothing is left |
| `MCVldp`, `MCDecoder`, `MCDisc`, `MCClock`, `MCIndex`, `MCSamples`, `MCOverlay`, `MCInput` | | values of constants that a `.cfg` cannot express |

State corresponds to the code name by name: each `VARIABLES` section says which
variable of the source it stands for, or that it is history. Each operation of
the code is one action, except that a function that waits, polls or can be
interrupted is one action for each stretch between two points at which another
thread or a handler can act. A comment that begins with "Fault" introduces a
plausible bug in the definition that follows; faults are not part of any
specification, they serve to show that the properties can fail.

How the modules fit together. `Vldp` justifies the interface the others use: a
command to a prompt private thread is answered, the status is never stale after
it. `Disc` takes the VLDP as that interface (a status word, a job, a picture).
`FrameClock` and `Overlay` take a command as one step of both sides: the timer
stands still while one is answered. `Decoder` and `FrameIndex` open up the step
"the requested picture is decoded" that `Vldp` and `Disc` take as given:
`FrameIndex` says that the entries are those of the file, `Decoder` that a search
by right entries ends on the right picture. `DiscAudio` and `Samples` are the two
chips that the callback of `Lifecycle` asks. `Game` takes the disc as its status
and `Input` as single events. They are not composed into one state space: each
adds its own interleavings to an interface another states as a property.

## 3. Runs

| run | what it asks | bounds |
|---|---|---|
| `vldp` | the handshake, the overlay lock and the status word, in every order of calls; commands are answered, shutdown returns, busy ends; `Vldp` implements `CmdChannel` | two frames; the count has three values and the acknowledgement two; one unanswered call in a row; prompt thread |
| `disc_script` | every script function, one call at a time; right file, right sound; `Disc` implements `Deck` | two files, the first listed twice, four frames of which one is past its file's end, and one in no file; one file without a seekable stream; searches that may outlast the caller's patience; the counter stays below the last frame |
| `disc_handlers` | a main script that searches, plays and skips back, and handlers that search and play inside a wait; a search lands, every call returns, none leaves a search behind | as above with prompt searches and both streams seekable; two calls deep, two handlers for each call of the main script |
| `clock_in_step` | the player's count does not drift and the VLDP's stays with it | 7 ms and 4 vblanks to a "thousand seconds", rates 2 (synchronous) and 3; 1X, 2X, half speed; skips on the spot and forward; four commands between searches, eight milliseconds of play |
| `samples` | ends told once and in the end; nothing sounds behind a flush | two slots, lengths of just under a buffer and of exactly one, three plays, two other calls |
| `game` | coins in order, pause flag, quitting | two inputs, four calls deep |
| `index` | a finished index is whole, an open file is searched by its index, opening ends | eight files of up to fifty bytes, one of them too short for a start code, chunks of three bytes, at most five entries; disk and copy in memory |
| `audio` | sound is in its place, behind what a seek or an open left over of another; it is dropped only to catch up | a stream of ten units, chunks of four, buffers of two and of five, counts that wrap at eight |
| `lifecycle` | nothing used before or after its time, the mixer fits, what each end of the program leaves, quitting ends | none: the start is finite |
| `overlay` | nothing in use is freed, the overlay has the file's size, the other surface is painted, opening ends | three sizes, two of the same width |
| `input` | switches agree with what is held | three movements of the user, two changes of mode, two handlers deep; a key bound to a direction, one that grabs, one that quits |
| `decoder` | pictures in order, from whole references, a search ends on its picture, three buffers | four films of up to ten frames: open groups, fields, an end code, low delay |

Why the bounds are enough. The 4-bit count matters only through whether two
requests in a row differ and whether an unanswered one can come round to look
like the accepted one: that takes as many unanswered calls as there are counts,
so three counts with one unanswered call keep the code's margin. The
acknowledgement counter is only compared for equality with its last value: two
values are its worst case. Two files and four frames give searches within a
file, across files, to the second place a file is listed at, to a frame of no
file, past the end and, by a skip back, before the first frame. The code's counter is
an unchecked `Uint32`; that it does not pass `LastFrame` is a bound of `Call` (steps
and skips forward) and `Tick`, and so is, in `Tick`, that a skip back which is still
owed when the disc plays does not take it below 0 (section 5). Seven milliseconds
are not divisible by either rate, so rounding occurs; four commands are what it takes to play, skip, pause before the skip is
counted and play on, and eight milliseconds to skip between a frame's boundary and
the vblank that counts it. Two slots are the fewest in which a flush can be half done. Two
coins are the fewest that can be swapped. In `index`, pictures lie at all three
offsets against the chunks, the film lengths straddle the table's limit, and
files of the same length with different pictures can replace each other. In
`audio` one buffer is smaller and one larger than a chunk, neither divides it, and
time passes the wrap. Two movements and a handler between them are what it takes
to store a stale position; the third undoes it or does not. In `decoder` a search
may begin, and be cut short, at every chunk of every film, and up to three B
pictures stand between references. Every bound is a constant of its module and
its comment says so; deadlock is checked except where the guards that cap a
bound, or the program's end, stop the model.

### Fairness

* `Vldp`: weak fairness of the private thread (it polls in a loop with
  `MAKE_DELAY`, nothing blocks it) and of a call of the parent that has begun;
  no fairness of new calls. Strong fairness of `StallExpires`: between its calls
  the parent advances `uMsTimer` in `ldp_vldp::think`, so an unending series of
  calls does not keep a picture waiting.
* `Disc`: weak fairness of a call in progress and of the VLDP thread.
* `Samples`: weak fairness of the main thread's work and of a callback that has
  begun; strong fairness of the start of a callback and of the flush's writes,
  which need the audio lock: the audio thread waits for the device between two
  buffers, and the main loop polls every ten milliseconds, so neither holds the
  lock for ever.
* `Game`: weak fairness of the main loop and of input handling; strong fairness
  of a script function's return and of the end of a wait: script functions
  return, and by `Vldp`'s `BusyEnds` an opening ends.
* `FrameIndex`: weak fairness of the private thread's work on the file.
* `Overlay`: weak fairness of both threads' work; strong fairness of the main
  loop's blit, of a lock that is asked for, and of the next picture's reading,
  each of which the other thread can put off but does not for ever: it waits
  between two pictures for the timer, and in `think_delay` between two loops.
* `Lifecycle`: weak fairness of the main thread and of a callback that has begun;
  strong fairness of what waits for the audio lock (as in `Samples`), of the
  first file's opening and of the private thread's end, which come between two
  pictures.
* `DiscAudio`, `Input`, `Decoder`: none, their properties are safety.

## 4. Proofs

All theorems hold for every value of the constants under the named assumptions
of the modules (positive sizes, `NoFrame` not a frame, rates between 1 and the
number of milliseconds, and the like).

* `VldpProofs`. `TypeCorrect` stands alone. `AckedMeansAccepted` and
  `LockExcludes` are not inductive: what makes them hold is that with a prompt
  thread a call is in one of three phases, and that a request abandoned by its
  caller is one the thread will never answer. That is `Handshake`
  (`HandshakeCorrect`, for `Prompt = TRUE`); with it `AcknowledgedIsAccepted`,
  `LockIsExclusive` and `Refinement` (the initial states and every step map to
  those of `CmdChannel`) follow.
  On top of `Handshake`: what the parent sees in the status
  word depends on where the thread will go, so `StatusInv` follows a command from
  its acknowledgement to its effect: which status is held or resting at each
  point (`Holding`, `Resting`), that a step asked for comes before the next chunk
  (`StepPending`), and the course of a search and of an open (`Sought`,
  `Opening`). `StatusIsHonest`, `SearchIsFresh` and `OpenIsTruthful` are its
  consequences.
* `DiscProofs`. `TypeCorrect` rests on what a search may be asked for: a skip back
  asks for a frame that may not exist, `mpeg_info` finds no file before the first
  entry (`EntryFound`), so a search under way is for a frame of the disc
  (`GoalThere`) and landing keeps the counter there. The counter's upper end is a
  bound of the model (section 3) and not a result.
  The calls in progress are a stack, and a call below the top
  resumes where it waited, after whatever the handlers above it did. So the
  invariant of `Landed` and `SourceRight` speaks of owners, not of the top: a file
  that is being opened is opened for one call of the stack and only its frames are
  asked of the opening (`Openers`, `OpenedFor`), a search the VLDP works on belongs
  to the call that polls it (`Owner`, `PollGoal`), and what a call heard of the
  VLDP is still so until the call acts on it (`Heard`). The file that is open is
  then the one the last search was for, and `m_cur_mpeg_filename` names it
  (`Fresh`, `FileKnown`). `SourceRight` and `Landed` hold for every framefile, film
  and set of frames if no handler calls the disc, and also with handlers if
  searches end before `nonblocking_search`'s caller gives up and no handler is
  `discStop`: with a stop the code does open the wrong file (section 5), and
  without that hypothesis the proof fails in the step that finds it. `Settled`
  shows for prompt searches that no call returns with the VLDP still searching.
  `DeckImplemented` maps the initial states and every step to `Deck`, for prompt
  searches or without handlers.
* `MpegProofs`, the index. `FinishedWhole` and `IndexRight`: for every set of
  non-empty files, every size of chunk and every limit of the table, while the disk
  has room. What the scanner computes would be an induction over the bytes of a
  file; as it parses a byte at a step the induction is the invariant's. `Scanned`
  says how far the file was read and parsed (`Reached`), that the three bytes it
  remembers are those before that point, across the end of any chunk (`Newest`), and
  that it is within a picture header or an extension just where the file is, and as
  far into it (`InPicture`, `InExtension`). Both directions are needed: one shows
  that what is listed is a picture, the other that none is missed. No
  start code ends within the bytes that are looked at behind another, since it would
  have to begin with the other's second 0, its 1 or an extension's 181, which is
  what the cases of the step come to. `ListedTo` then says that the entries are those of the pictures that end before
  the point, in order, where the place of a picture is the number of those up to
  it (`Rank`). What a kill leaves is either not marked finished, or complete and
  flushed. A file shorter than a start code, which may pass for a film, has no
  pictures, and `Nought` keeps the scanner from finding one. Dropping what was
  remembered at the end of a chunk, or the length from what `Matches` compares, makes
  the proof fail where it should.
* `MpegProofs`, the decoder. All four properties of `Decoder`, for every film that
  `StreamsAssumption` allows: chunks in an order an encoder writes them, an index
  with an entry for each picture header, a first frame that is intra coded and not
  followed by a B picture, at most three B pictures in a row, and for frames of two
  fields a second field that is not intra coded. The second and third of these are
  what the code relies on when it begins to decode one intra picture earlier if
  fewer than three entries lie between (`vldp_internal.c:957`): `StartIs` shows that
  there is then always enough to leave out, and without them its proof fails.
  The invariant has three layers. `Phase` and `Placed` say where the parser is and
  that as many entries lie behind it as it has met pictures (`Advance`), so that a
  search by entries and the parser agree on which frame a chunk belongs to. `Roles`
  says what the buffers hold: those of the two references hold the frames `Before`
  the current one and before that, decoded from the right ones if those were reached
  (`Referred`), and `TurnIs` that a header turns them as `BeforeNext` turns the
  frames. `Counted` and `Asked` say that the next picture drawn has the next place
  of the film (`PlaceIs`, `SetFreeIs`), that as many are still left out as could be
  decoded from the wrong ones, and where a search then ends. Nothing is shown while
  pictures are left out, and behind the reference after the first all are whole:
  that is `CleanOnScreen`.
* `FrameClockProofs`. `TypeCorrect` shows that no stall or skip counter wraps.
  `CountKeepsTime`: frames are counted when `Due` says so, `Due` grows with the
  frame (`DueIncreases`, arithmetic of `\div`), and so the count is exactly the
  frames that have passed, whatever commands come between.
  `CountsInStep` rests on a sum (`Parted`): frames between the two counts, in times
  shown, with what each side has still to stall, less the pictures the thread lacks
  and those it is leaving out. A frame counted, a picture drawn, repeated or left
  out leave the sum as it is; a command that does not part the counts (`tame`) puts
  it into a small range. A thread on time lacks no picture (`LagOnTime`), so the sum
  bounds the difference of the counts. On a disc counted by vblanks the thread's
  being on time is a fact about two clocks, and `Phase` supplies it: since the
  vblank a play waited for, every vblank was counted, two to a frame
  (`FramesOfVblanks`, from `VblankSum`: vblanks are as regular as whole milliseconds
  allow). TLC checked the whole invariant on larger instances than the run's before
  it was proved.
* `SoundProofs`. `FlushSilences`: a slot the flush has passed is never active
  without `early`, however the audio thread interleaves; the strengthening says
  in which slots the mixing thread may be. `EachEndOnce`: `OnceInv` says that an
  end is in one place, once, among those told and those that wait, that slots
  hold different plays, and that an ended play is in no active slot; `AtMostOne`
  turns the places into the counts of `ToldOnce`.
  Of the disc's stream, `AudioTypeCorrect`: no chunk overruns the buffer kept for
  what is left of it. `SoundInPlace`: a round of the callback moves the position in
  the stream, less what is left over, by what it put into the buffer (`FillEffect`),
  so what is heard next stays as far into the stream as was played, whatever the
  driver does between two callbacks. What is left over is of that position only if no
  seek or open came since it was decoded; a history says where it ends (`upto`). If one
  did (`Stale`), `audio_play` owes it (`owed`): until that much is played the stream
  has not moved on, and behind it everything is that much late. `CatchesUpRight` rests on what the two 32-bit
  counts are while they are close (`SignedIsTrue`, `CaughtUpIsTrue`): their wrapped
  difference, read as a signed number, is the true one up to half their range, so
  the callback takes another round only when it is a buffer behind the clock.
* `OverlayProofs`. One invariant says who waits for whom: the surfaces change only
  while the private thread is parked or gone, and the screen is drawn on only
  while the overlay that is there is going to be replaced. From it
  `NothingUsedIsFreed`, `OverlayIsTheFiles` and `PainterKeepsAway`.
* `GameProofs`. `FlagTracksDisc`: `FlagMeansStill` is inductive. `CoinsComeInOrder`:
  the strengthening says that, until a coin is handled within the handling of
  another, at most one call on the stack is handling a coin, that this coin is
  still at the front of the queue, and that given and queued coins together are
  the numbers up to `taken`.
  `SwitchesRight`: `SwitchesAgree` speaks of moments when nothing is on its way, so
  `InputInvariant` says of every other moment what is on its way. A code that the
  script believes pressed has a device `Behind` it, which is going to release it
  (`Moves`), has it pressed where it is or has a newer movement in the queue
  (`Pending`), and what a device asks for was told or will be (`Telling`). An event
  that is being handled is of the device's position unless a newer one is pending
  (`Fits`, `Newest`); while another event of the same device, or a change of mode,
  comes inside its handling it is `Torn`, and its end forgives the device. Of the
  stick and the hat the last position is part of it: what it has pressed is told or
  a whole handling puts another in its place (`Remembered`, `HatTold`), because the
  release is left out if the code does not remember the press. It holds for any map
  of the keys to switches, any positions of the hat, either map of the mouse's
  button and any depth of handlers; TLC checked it on a smaller instance than the
  run's before it was proved. If the hat's last position is kept when the hat is
  let go, the proof fails in the step that stores it.
* `LifecycleProofs`. The invariant says what is held at each point of the main
  thread (`Held`), that a running private thread has its library, mutex and
  surfaces (`Drawn`), that the disc's chip is the one whose number the driver
  remembers (`Listed`, `Disced`) and that a callback walks chips of the list
  (`Called`): a step that frees something is taken where none of these needs it.
  `RemovedAt` and `MixerForFits` are the facts about the list it rests on.
  `WhatIsLeft` speaks of both ends of the program. That `exit(126)` leaves no thread
  behind needs a second invariant (`Early`): until the sound is up there is neither
  a chip nor a private thread.

Only model-checked: all liveness (TLAPS has no `ENABLED`), so also that every call
to the disc returns and that opening a file ends. Every invariant and every action
property of the runs is proved.

## 5. Known divergences of the code from its comments

Met while modelling; the models have these steps unless said otherwise, and the
properties that hold are stated so as to leave them out by name. No run is spent
on them.

VLDP
* A call that timed out may be answered late, and the answer is then taken for
  that of the next call (`vldp.c:78`). `Vldp` has it for `Prompt = FALSE`; the
  run and the theorems are for a thread that answers within `VLDP_TIMEOUT`.
* A skip met at the end of the file is handled with `STAT_STOPPED` and rolls video
  under it (`vldp_internal.c:860`: "our status is already STAT_PLAYING").
* A lock that is granted after its call timed out parks the thread until an
  unlock that nobody sends (`vldp_internal.c:232`).

Decoder
* The last two pictures of a file without an end code (one with low delay) are
  never drawn, though "we pause on last frame" (`vldp_internal.c:784`): a search
  for them ends in STOPPED.
* In a file coded as fields, the pictures to leave out are counted in index
  entries, two for each frame, but counted down in frames (`vldp_internal.c:966`);
  a search that starts at a frame's second field pairs fields wrongly.
* A second sequence after an end code inside a file is handed three more buffers
  than there is room for (`decode.c:332`); the films have an end code only at
  their end.
* After a search out of bounds a play goes on in mid-group with a reset decoder.

Frame index and file input
* A disk that fills up during the scan leaves an index that is marked finished and
  is not whole (`vldp_internal.c:1201`); one whose header cannot be written is made
  again without end (`:1041`), the second time from the end of the file, so that
  room on the disk then yields an index without entries.
* An index is matched by length alone, "with confidence that it's the right one"
  (`:1161`), and a precached file by the index beside the file on the disk. A
  `.dat` file shorter than a header is read as what was in memory, a film of fewer
  than eight bytes is judged by an uninitialised buffer (`:552`).
* Precaching reads until it has the whole length, without end if the file cannot
  be read to it (`:650`).

Player and driver
* A pause forgets a skip that the counter has not caught up with (`ldp.cpp:575`),
  and a search to the old frame number is then answered without a seek, with the
  skip's picture on hold (`:222`; the comment at `:219` speaks of "the frame we're
  already on").
* `discSkipToFrame`'s play is refused after a search timed out (`ldp.cpp:507`).
* The VLDP driver has no `skip_backward`, so `discSkipBackward` stops for a blocking
  search and plays again (`ldp.cpp:489`), whatever became of the search, where the
  comment promises to "continue playing forward" (`:404`). Nothing checks the frames
  skipped: before the first frame the search fails, and picture and counter go on
  from where they were. When the search times out the play is refused, and the counter
  owes the skip until another play forgets it; if that play is waiting for the first
  file it has forgotten it too early, and the counter may fall below 0.
* `m_cur_mpeg_filename` names a closed file after a failed open
  (`ldp-vldp.h:130`); a handler that stops and plays during an opening leaves a
  new file open under the old name, and the next search is answered from the
  wrong file (`ldp-vldp.cpp:391`). With a slow search and a handler it may name
  another file than the one open. `RightSource` is checked without handlers, and
  proved with them for searches that end in time and handlers that do not stop the
  disc.
* `pre_stop` never tells the VLDP (`ldp.cpp:592`); a stop and a play freeze the
  picture. A change to 1X starts sound whatever the status (`ldp-vldp.cpp:762`).
* `get_status` from a handler during an opening meets the assertion at
  `ldp.cpp:952`. PLAYING is reported after a failed play and after the end of the
  file (`ldp.cpp:545`). `pre_play`'s check is stale after its wait (`ldp.cpp:506`).
* A search that meets the end of the file stays SEARCHING until a stop; an
  unacknowledged search still returns true (`ldp-vldp.cpp:565`).
* `open_and_block` uses `mi` at the end of the map when the VLDP refuses a missing
  file or does not answer (`ldp-vldp.cpp:386`).

Frame clock
* Vblanks counted during a pause are taken for the first frame of the next play
  (`ldp.cpp:772` against the comment at `ldp.cpp:544`).
* "Our internal current frame" and the VLDP's are compared as if they were always
  the same (`ldp-vldp.cpp:796`). On a disc counted by vblanks a skip between a
  frame's boundary and its vblank leaves the VLDP two frames behind until the next
  search, at normal speed and with every command answered in time.
* A pause forgets a skip that is still owed, and the two counts then differ by its
  length; so do they after a change of speed behind a skip on the spot.
* A skip to frame 0 of a file is taken for no skip (`vldp_internal.c:74`). A pause
  leaves the screen one picture past `current_frame`. A speed change while paused
  is acknowledged and ignored. The frame rate is 0 until `discSetFPS`, and
  `ldp.cpp:526` divides by it.

Sound
* A paused sample's slot looks free and may be taken (`samples.cpp:191`); a stale
  handle then stops, pauses or resumes the new sample. A sample that is resumed
  after its end is told to the script twice. Negative handles are accepted
  (`singeproxy.cpp:1235`, `:1257`).
* Samples that were decoded before a search, a skip or an opened file are played
  ahead of the new place (`ldp-vldp-audio.cpp:571`), since `seek_audio` and
  `open_audio_stream` keep them (`:489`, `:363`); only a buffer of silence drops them,
  which the comment at `:699` gives as a way to "make sure we don't have any extraneous
  audio lingering around". `InPlace` says what is heard then; the end of a stream leaves the rest of the buffer unwritten (`:631`); a pause
  that a callback meets drops what was left over, so sound resumes up to a chunk
  ahead (`:523`); a file that is rejected leaves the stream structure uncleared
  (`:454`).
* `delete_soundchip` reads the list's head before it takes the lock
  (`sound.cpp:466`) and does not choose a new mixer; `shutdown_player` after a
  failed start deletes chip 0, that of the samples (`ldp-vldp.cpp:357`).

Overlay
* A lock that is not granted in time lets the surface shown be the older one
  (`singe.cpp:428`), and its late grant parks the private thread. With vertical
  stretch the overlay is made anew at every opening; a file that differs in height
  only gives no hint (`ldp-vldp.cpp:1720`). A failed scan leaves blank pictures on
  an overlay that the meter was drawn over.
* An overlay that cannot be made sets the quit flag and the thread goes on
  (`ldp-vldp.cpp:2222`). `sep_shutdown` frees the script's copy of the picture
  that the private thread may be filling (`singeproxy.cpp:362`), and
  `vldpGetPixel` reads it without a lock (`:923`); `Overlay` has no such copy.
* What a failing start leaves behind: the surfaces of a `video_init` that fails
  half way, and a device of the wrong kind, which is left to `SDL_Quit`. A missing
  `grumble.wav` ends the program in `load_waves` (`sound.cpp:329`) by
  `exit(126)`, from below `main`: the objects, bitmaps and display that were made so
  far and the audio device are all left (`LeftAtEnd`).

Input and script host
* A coin is handed to the script again when its handler opens a file, and the coin
  behind it is lost (`input.cpp:626`); coins from the keyboard bypass the queue.
* The last hat and stick position is stored behind the handlers it calls
  (`input.cpp:976`). Key codes are cut to eight bits in full mode. A key that is
  bound to PAUSE, QUIT or SCREENSHOT besides a switch never releases the switch
  (`singe.cpp:580`), and the release of 'g' never reaches the script
  (`input.cpp:690`). Mouse buttons are counted from 1 against a map from 0
  (`:167`), an item past the map is read (ManyMouse), and an invalid mode leaves
  ManyMouse without its driver (`:1121`).
* `sep_error` closes the Lua context and the script goes on being called
  (`singeproxy.cpp:242`); module `Game` stops there (`broken`).
* The pause key plays a disc the script holds (`FlagMeansStill`'s exception); a
  pause key during a search clears `m_game_paused` although the play is refused.

## 6. Plan

Done: the channel, the private thread, the decoder, the index and file input, the
player and driver, both clocks, the disc's sound, samples, chips and mixer, the
overlay, input devices, the script host, start and end; two refinements of
abstract specifications; proofs about eleven modules, of every property of the runs
but the liveness properties.

Left, in this order:

1. `Disc` and `DiscAudio` composed, so that a seek of the picture and one of the
   sound are two steps of one model.
2. ManyMouse devices that come and go, and the second axis.

### Not modelled

* The script's fonts, sprites and drawing (`singeproxy.cpp`): handles into arrays
  that only grow until the script ends, used by one thread; a property of them
  would restate a bounds check.
* The text of the framefile, the options and the key file: read once, before
  another part runs, into tables the modules take as constants.
* Pixel arithmetic, mixing, motion compensation and transforms: functions of
  data with no control to speak of, most of them with assembly twins that a model
  would have to take on trust.
* Console, palettes, text on the screen, logs, conversions, network statistics
  and the archive reader: sequential, without state that the properties above
  could be about.
* Lua, ManyMouse and the GP2X port: vendored, or not part of the desktop program.

About a quarter of the lines in `src/` are the program's own and built; of the
vendored rest only libmpeg2's control, which the program steers, is modelled.
