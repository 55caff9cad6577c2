------------------------------- MODULE Overlay -------------------------------
(***************************************************************************)
(* What the pictures of the disc are drawn on.  The private thread of the  *)
(* VLDP makes SDL's overlay for the size of each file it opens             *)
(* (idle_handler_open, report_mpeg_dimensions_callback) and draws pictures *)
(* on it together with the game's finished surface                         *)
(* (prepare_frame_callback_with_overlay).  The main thread draws the meter *)
(* of the parser over the screen while a file is opened (wait_for_status), *)
(* paints the surfaces in turn (game::video_blit) and makes them anew when *)
(* the size of the video has changed (singe::video_repaint).               *)
(*                                                                         *)
(* A file is known by the size of its pictures.  A command and its answer  *)
(* are one step (module Vldp has the two).  Surfaces can always be made;   *)
(* the overlay need not.  A definition introduced as Fault is a plausible  *)
(* bug in the definition after it.                                         *)
(***************************************************************************)
EXTENDS Naturals

CONSTANTS
  Sizes,      \* sizes of pictures
  NoSize,     \* the size of what does not exist
  Width(_)    \* two sizes may have the same width

ASSUME SizesAssumption == Sizes # {} /\ NoSize \notin Sizes

VARIABLES
  pc,         \* where the main thread is
  started,    \* init_player has succeeded: the script runs
  quit,       \* the quit flag
  disc,       \* m_discvideo_width and height
  fit,        \* m_video_overlay_width and height
  surf,       \* m_video_overlay: the sizes of the two surfaces
  active, finished,  \* m_active_video_overlay, m_finished_video_overlay
  needs,      \* m_video_overlay_needs_update
  priv,       \* where the private thread is
  status,     \* g_out_info.status, where a file that is open counts as stopped
  info,       \* g_out_info.w and h
  blanks,     \* blank pictures that are still to be drawn before the file is closed
  got, parsed,       \* g_bGotParseUpdate, g_parsed
  overlay,    \* the size of g_hw_overlay
  smudged,    \* the meter was drawn over the screen since the overlay was made
  reading,    \* the picture that is being prepared
  asked,      \* a request for the lock that was given up and not taken back
  late        \* somebody has waited in vain

mainVars == <<pc, started, disc>>
gameVars == <<fit, surf, active, finished>>
privVars == <<priv, status, info, blanks>>
overlayVars == <<overlay, smudged>>
parseVars == <<got, parsed>>
vars == <<mainVars, quit, gameVars, needs, privVars, parseVars, overlayVars, reading, asked, late>>

Idx == {0, 1}
Both(s) == [i \in Idx |-> s]
\* reading: the surface, its size when the picture was begun, and whether the main
\* thread has finished a painting since.
Nothing == [surface |-> 0, size |-> NoSize, passed |-> FALSE, busy |-> FALSE]
Free == ~reading.busy     \* the private thread is between two pictures

TypeOK ==
  /\ pc \in {"loop", "waits", "looks", "meters", "locking", "frees", "makes",
             "unlocks", "painting", "joining", "freeing", "surfaces", "gone"}
  /\ {started, quit, needs, got, parsed, smudged, asked, late} \subseteq BOOLEAN
  /\ disc \in Sizes /\ fit \in Sizes /\ surf \in [Idx -> Sizes \cup {NoSize}]
  /\ active \in Idx /\ finished \in Idx
  /\ priv \in {"show", "closing", "scanning", "reporting", "parked", "ended"}
  /\ status \in {"busy", "stopped", "error"} /\ info \in Sizes \cup {NoSize}
  /\ blanks \in 0..2 /\ overlay \in Sizes \cup {NoSize}
  /\ reading \in [surface : Idx, size : Sizes \cup {NoSize}, passed : BOOLEAN, busy : BOOLEAN]

\* game::video_init has made the surfaces; precaching may have left a report that
\* nobody has drawn.
Init ==
  /\ pc = "loop" /\ started = FALSE /\ quit = FALSE /\ disc \in Sizes
  /\ fit = disc /\ surf = Both(fit) /\ active = 0 /\ finished = 0 /\ needs = TRUE
  /\ priv = "show" /\ status = "error" /\ info = NoSize /\ blanks = 0
  /\ got \in BOOLEAN /\ parsed = got
  /\ overlay = NoSize /\ smudged = FALSE /\ reading = Nothing
  /\ asked = FALSE /\ late = FALSE

-----------------------------------------------------------------------------
(* Main thread: opening a file                                             *)

\* open_and_block, from parse_all_video, init_player or a search: the private
\* thread takes the command between two pictures and is busy from then on.
Open ==
  /\ pc = "loop" /\ ~quit /\ priv = "show" /\ Free
  /\ pc' = "waits" /\ status' = "busy" /\ priv' = "closing" /\ asked' = FALSE
  /\ blanks' \in {0, 2}     \* two if a file was open
  /\ UNCHANGED <<started, disc, quit, gameVars, needs, info, parseVars, overlayVars, reading, late>>

\* wait_for_status: the status, then the report, then the meter.
WaitBusy ==
  /\ pc = "waits" /\ status = "busy" /\ pc' = "looks"
  /\ UNCHANGED <<started, disc, quit, gameVars, needs, privVars, parseVars, overlayVars, reading, asked, late>>
\* Fault: the report is taken back before it is drawn.
WaitLooksEarly ==
  /\ pc = "looks" /\ pc' = (IF got THEN "meters" ELSE "waits") /\ got' = FALSE
  /\ smudged' = (smudged \/ (got /\ overlay # NoSize))
  /\ UNCHANGED <<started, disc, quit, gameVars, needs, privVars, parsed, overlay, reading, asked, late>>

WaitLooks ==
  /\ pc = "looks" /\ pc' = IF got THEN "meters" ELSE "waits"
  /\ smudged' = (smudged \/ (got /\ overlay # NoSize))
  /\ UNCHANGED <<started, disc, quit, gameVars, needs, privVars, parseVars, overlay, reading, asked, late>>

MeterDrawn ==
  /\ pc = "meters" /\ pc' = "waits" /\ got' = FALSE
  /\ smudged' = (smudged \/ overlay # NoSize)
  /\ UNCHANGED <<started, disc, quit, gameVars, needs, privVars, parsed, overlay, reading, asked, late>>

\* The player takes the size of the video from a file that a search has opened.
WaitEnds ==
  /\ pc = "waits" /\ status # "busy" /\ pc' = "loop"
  /\ disc' = IF started /\ status = "stopped" THEN info ELSE disc
  /\ UNCHANGED <<started, quit, gameVars, needs, privVars, parseVars, overlayVars, reading, asked, late>>

\* The end of init_player: its first file is open.
Starts ==
  /\ pc = "loop" /\ ~started /\ ~quit /\ status = "stopped"
  /\ started' = TRUE /\ disc' = info
  /\ UNCHANGED <<pc, quit, gameVars, needs, privVars, parseVars, overlayVars, reading, asked, late>>

-----------------------------------------------------------------------------
(* Main thread: the game's surfaces                                        *)

\* onOverlayUpdate returned 1.
AskUpdate ==
  /\ pc = "loop" /\ started /\ needs' = TRUE
  /\ UNCHANGED <<mainVars, quit, gameVars, privVars, parseVars, overlayVars, reading, asked, late>>

\* Fault: the surfaces are made anew without the lock.
BlitUnlocked ==
  /\ pc = "loop" /\ started /\ needs /\ active' = 1 - active
  /\ pc' = IF disc # fit THEN "frees" ELSE "painting"
  /\ UNCHANGED <<started, disc, quit, fit, surf, finished, needs, privVars, parseVars, overlayVars, reading, asked, late>>
\* Fault: the surface is shown before it is painted.
BlitShows ==
  /\ pc = "loop" /\ started /\ needs /\ active' = 1 - active /\ finished' = active'
  /\ pc' = IF disc # fit THEN "locking" ELSE "painting"
  /\ UNCHANGED <<started, disc, quit, fit, surf, needs, privVars, parseVars, overlayVars, reading, asked, late>>

\* video_blit: the other surface's turn; video_repaint compares the sizes.
Blit ==
  /\ pc = "loop" /\ started /\ needs /\ active' = 1 - active
  /\ pc' = IF disc # fit THEN "locking" ELSE "painting"
  /\ UNCHANGED <<started, disc, quit, fit, surf, finished, needs, privVars, parseVars, overlayVars, reading, asked, late>>

\* lock_overlay: the private thread is parked between two pictures, or the call
\* gives up and video_repaint returns; the request may be met later on.
LockGranted ==
  /\ pc = "locking" /\ priv = "show" /\ Free /\ priv' = "parked" /\ pc' = "frees"
  /\ UNCHANGED <<started, disc, quit, gameVars, needs, status, info, blanks, parseVars, overlayVars, reading, asked, late>>
LockTimesOut ==
  /\ pc = "locking" /\ pc' = "loop" /\ asked' = TRUE /\ late' = TRUE
  /\ needs' = FALSE /\ finished' = active
  /\ UNCHANGED <<started, disc, quit, fit, surf, active, privVars, parseVars, overlayVars, reading>>

\* sep_set_surface, video_shutdown and video_init, then unlock_overlay.
SurfacesFreed ==
  /\ pc = "frees" /\ pc' = "makes" /\ fit' = disc /\ surf' = Both(NoSize)
  /\ UNCHANGED <<started, disc, quit, active, finished, needs, privVars, parseVars, overlayVars, reading, asked, late>>
SurfacesMade ==
  /\ pc = "makes" /\ pc' = "unlocks" /\ surf' = Both(fit)
  /\ UNCHANGED <<started, disc, quit, fit, active, finished, needs, privVars, parseVars, overlayVars, reading, asked, late>>
Unlock ==
  /\ pc = "unlocks" /\ pc' = "painting" /\ priv' = "show"
  /\ UNCHANGED <<started, disc, quit, gameVars, needs, status, info, blanks, parseVars, overlayVars, reading, asked, late>>

\* sep_do_blit has filled the active surface, which is shown from now on.
Painted ==
  /\ pc = "painting" /\ pc' = "loop" /\ needs' = FALSE /\ finished' = active
  /\ reading' = [reading EXCEPT !.passed = reading.busy]
  /\ UNCHANGED <<started, disc, quit, fit, surf, active, privVars, parseVars, overlayVars, asked, late>>

-----------------------------------------------------------------------------
(* Main thread: the end                                                    *)

SetQuit ==
  /\ pc \in {"loop", "waits"} /\ ~quit /\ quit' = TRUE
  /\ UNCHANGED <<mainVars, gameVars, needs, privVars, parseVars, overlayVars, reading, asked, late>>

\* A start that failed, or the end of the game's loop.
Leave ==
  /\ pc = "loop" /\ (quit \/ (~started /\ status = "error")) /\ pc' = "joining"
  /\ UNCHANGED <<started, disc, quit, gameVars, needs, privVars, parseVars, overlayVars, reading, asked, late>>

\* vldp_shutdown, then free_yuv_overlay, then game::video_shutdown.
Joined ==
  /\ pc = "joining" /\ priv = "show" /\ Free /\ priv' = "ended" /\ pc' = "freeing"
  /\ status' = "error"
  /\ UNCHANGED <<started, disc, quit, gameVars, needs, info, blanks, parseVars, overlayVars, reading, asked, late>>
OverlayFreed ==
  /\ pc = "freeing" /\ pc' = "surfaces" /\ overlay' = NoSize /\ smudged' = FALSE
  /\ UNCHANGED <<started, disc, quit, gameVars, needs, privVars, parseVars, reading, asked, late>>
VideoShutdown ==
  /\ pc = "surfaces" /\ pc' = "gone" /\ surf' = Both(NoSize)
  /\ UNCHANGED <<started, disc, quit, fit, active, finished, needs, privVars, parseVars, overlayVars, reading, asked, late>>

-----------------------------------------------------------------------------
(* Private thread                                                          *)

Fewer == IF blanks > 0 THEN blanks - 1 ELSE 0

\* prepare_frame, for a picture of the file or a blank one: the finished surface
\* is looked up once.  A surface of another width is not read, and the game is
\* told that its surface needs an update.
ReadBegins ==
  /\ overlay # NoSize /\ Free
  /\ priv = "show" \/ (priv = "closing" /\ blanks > 0)
  /\ IF Width(surf[finished]) = Width(overlay)
     THEN /\ reading' = [surface |-> finished, size |-> surf[finished], passed |-> FALSE, busy |-> TRUE]
          /\ UNCHANGED <<needs, blanks>>
     ELSE needs' = TRUE /\ blanks' = Fewer /\ UNCHANGED reading
  /\ UNCHANGED <<mainVars, quit, gameVars, priv, status, info, parseVars, overlayVars, asked, late>>

ReadEnds ==
  /\ ~Free /\ reading' = Nothing /\ blanks' = Fewer
  /\ UNCHANGED <<mainVars, quit, gameVars, needs, priv, status, info, parseVars, overlayVars, asked, late>>

\* A request for the lock that the main thread no longer waits for: the thread
\* parks, and nobody unlocks it.
ParkLate ==
  /\ asked /\ priv = "show" /\ Free /\ priv' = "parked" /\ asked' = FALSE
  /\ UNCHANGED <<mainVars, quit, gameVars, needs, status, info, blanks, parseVars, overlayVars, reading, late>>

Closed == priv = "closing" /\ Free /\ (blanks = 0 \/ overlay = NoSize)

\* Fault: a file that cannot be opened leaves the thread busy.
OpenFailsBusy ==
  /\ Closed /\ priv' = "show" /\ blanks' = 0 /\ info' \in Sizes \cup {info}
  /\ UNCHANGED <<mainVars, quit, gameVars, needs, status, parseVars, overlayVars, reading, asked, late>>

\* The file cannot be opened, is no video, or its index cannot be written.
OpenFails ==
  /\ Closed /\ priv' = "show" /\ blanks' = 0 /\ status' = "error"
  /\ info' \in Sizes \cup {info}
  /\ UNCHANGED <<mainVars, quit, gameVars, needs, parseVars, overlayVars, reading, asked, late>>

\* The index is there, or the file has to be scanned.
HasIndex ==
  /\ Closed /\ priv' = "reporting" /\ blanks' = 0 /\ info' \in Sizes
  /\ UNCHANGED <<mainVars, quit, gameVars, needs, status, parseVars, overlayVars, reading, asked, late>>
ScanBegins ==
  /\ Closed /\ priv' = "scanning" /\ blanks' = 0 /\ info' \in Sizes
  /\ got' = TRUE /\ parsed' = TRUE
  /\ UNCHANGED <<mainVars, quit, gameVars, needs, status, overlayVars, reading, asked, late>>

\* report_parse_progress, the last time at the end of the file, broken or not.
ScanReports ==
  /\ priv = "scanning" /\ got' = TRUE /\ parsed' = TRUE
  /\ UNCHANGED <<mainVars, quit, gameVars, needs, privVars, overlayVars, reading, asked, late>>
ScanEnds ==
  /\ priv = "scanning" /\ got' = TRUE /\ parsed' = TRUE
  /\ \/ priv' = "reporting" /\ UNCHANGED status
     \/ priv' = "show" /\ status' = "error"
  /\ UNCHANGED <<mainVars, quit, gameVars, needs, info, blanks, overlayVars, reading, asked, late>>

\* report_mpeg_dimensions_callback waits until the last report is drawn, or for
\* three seconds; it makes a new overlay if the screen was drawn on or the size has
\* changed (at vertical stretch 0: with g_vertical_stretch set the new overlay is that
\* much lower than the file, ldp-vldp.cpp:2214).  Then the file is open.
Report ==
  /\ priv = "reporting"
  /\ late' = (late \/ got)
  /\ IF parsed \/ overlay # info
     THEN smudged' = FALSE /\ (\/ overlay' = info /\ UNCHANGED quit
                               \/ overlay' = NoSize /\ quit' = TRUE)
     ELSE UNCHANGED <<overlayVars, quit>>
  /\ parsed' = FALSE /\ priv' = "show" /\ status' = "stopped"
  /\ UNCHANGED <<mainVars, gameVars, needs, info, blanks, got, reading, asked>>

-----------------------------------------------------------------------------
MainNext ==
  \/ Open \/ WaitBusy \/ WaitLooks \/ MeterDrawn \/ WaitEnds \/ Starts \/ AskUpdate
  \/ Blit \/ LockGranted \/ LockTimesOut \/ SurfacesFreed \/ SurfacesMade \/ Unlock
  \/ Painted \/ SetQuit \/ Leave \/ Joined \/ OverlayFreed \/ VideoShutdown
PrivNext ==
  \/ ReadBegins \/ ReadEnds \/ ParkLate \/ OpenFails \/ HasIndex \/ ScanBegins
  \/ ScanReports \/ ScanEnds \/ Report
Next == MainNext \/ PrivNext

Spec == Init /\ [][Next]_vars

\* The main thread goes on with what it has begun, comes to video_blit in every
\* round of its loop, and is granted the lock by a thread that polls for it between
\* any two pictures; the private thread draws, and comes to the end of every file.
Onward ==
  \/ WaitBusy \/ WaitLooks \/ MeterDrawn \/ WaitEnds \/ SurfacesFreed \/ SurfacesMade
  \/ Unlock \/ Painted
Opens == OpenFails \/ HasIndex \/ ScanBegins
FairSpec ==
  /\ Spec /\ WF_vars(Onward) /\ SF_vars(Blit) /\ SF_vars(LockGranted)
  /\ SF_vars(ReadBegins) /\ WF_vars(ReadEnds)
  /\ WF_vars(Opens) /\ WF_vars(ScanEnds) /\ WF_vars(Report)
-----------------------------------------------------------------------------
(* Properties                                                              *)

\* A picture of a file is never drawn on an overlay the parser's meter was drawn
\* over: the overlay is made after the last report was shown, unless the main
\* thread took more than three seconds for it ("if we drew some stuff on the
\* screen, then we need to free the overlay and re-create it").
FreshOverlay == status = "stopped" /\ ~Free => ~smudged \/ late

\* Pictures of a file are drawn on an overlay of their size: the loops of
\* prepare_frame run over the overlay, whatever the picture's size.
SizeFits == status = "stopped" /\ overlay # NoSize => overlay = info

\* The overlay is the file's, when its pictures are drawn (open_and_block).
OverlayFits == FreshOverlay /\ SizeFits

\* While the private thread prepares a picture, the overlay and the surface it
\* reads are neither freed nor made anew (video_repaint's lock, shutdown's join).
UsesAlive == ~Free => overlay # NoSize /\ surf[reading.surface] = reading.size /\ reading.size # NoSize

\* With two surfaces the game paints on the one a picture is made from only if it
\* has finished the other since the picture was begun (video_blit).
PaintsTheOther == pc = "painting" /\ ~Free /\ reading.surface = active => reading.passed

\* Opening a file ends, whether it can be opened or not and whoever waits for whom.
OpenEnds == pc = "waits" /\ status = "busy" ~> status # "busy" /\ pc \notin {"waits", "looks", "meters"}
=============================================================================
