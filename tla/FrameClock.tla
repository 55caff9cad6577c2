----------------------------- MODULE FrameClock -----------------------------
(***************************************************************************)
(* Two clocks for one disc.  The player counts frames by milliseconds or   *)
(* by vblanks (ldp::pre_think); the VLDP thread counts the pictures it     *)
(* draws against the player's millisecond timer (null_draw_frame).  Skips, *)
(* speed changes, pauses and plays adjust both, each in its own way.       *)
(*                                                                         *)
(* The timer stands still while a command is answered, so a command is one *)
(* step of both; the handshake under it is module Vldp.  Abstracted: files *)
(* (the disc is one mpeg longer than a run, at the disc's frame rate) and  *)
(* decoding (the picture that follows p is p + 1, a seek reaches its       *)
(* picture at once, the thread draws a picture when it is due or later).   *)
(*                                                                         *)
(* A definition introduced as "Fault" is a plausible bug in the definition *)
(* after it; it is not part of the specification.                          *)
(***************************************************************************)
EXTENDS Integers

CONSTANTS
  Kiloseconds,  \* milliseconds in a thousand seconds (1 000 000)
  Vpks,         \* VBLANKS_PER_KILOSECOND
  Rates,        \* values of get_disc_fpks(), frames in that time
  Speeds,       \* [skip, stall]: m_uFramesToSkipPerFrame, ...StallPerFrame
  Goals,        \* frames a search asks for
  Jumps,        \* distances of a skip forward
  Home,         \* the frame the disc is on to begin with
  MaxAsked,     \* bound: commands between two searches
  LastMs,       \* bound: milliseconds since a play
  LastFrame     \* bound: no time passes and no skip is made beyond it

ASSUME RatesAssumption ==
  /\ Kiloseconds \in Nat /\ Vpks \in 1 .. Kiloseconds
  /\ Rates \subseteq 1 .. Kiloseconds
ASSUME SpeedsAssumption == /\ Speeds \subseteq [skip : Nat, stall : Nat]
                           /\ \A s \in Speeds : s.skip = 0 \/ s.stall = 0
ASSUME BoundsAssumption ==
  /\ Jumps \subseteq Nat /\ MaxAsked \in Nat /\ LastMs \in Nat
  /\ LastFrame \in Nat /\ Home \in 0 .. LastFrame /\ Goals \subseteq Nat

VARIABLES
  fpks,      \* get_disc_fpks() and g_out_info.uFpks
  ms,        \* m_uElapsedMsSinceStart, modulo Kiloseconds
  status,    \* m_status
  waiting,   \* m_bWaitingForVblankToPlay
  mini,      \* m_uVblankMiniCount, up to the 2 it is compared with
  elapsed,   \* m_uElapsedMsSincePlay, which is also uMsTimer
  offset,    \* m_uCurrentOffsetFrame
  skipped,   \* m_iSkipOffsetSincePlay
  seeked,    \* m_last_seeked_frame
  cur,       \* m_uCurrentFrame
  speed,     \* m_uFramesToSkipPerFrame, m_uFramesToStallPerFrame
  stall,     \* m_uStallFrames
  paused,    \* s_paused
  shown,     \* s_uFramesShownSinceTimer
  current,   \* g_out_info.current_frame
  pending,   \* s_uPendingSkipFrame
  vspeed,    \* s_skip_per_frame, s_stall_per_frame
  stalls,    \* uStallFrames of null_draw_frame
  toSkip,    \* s_frames_to_skip, s_frames_to_skip_with_inc
  hand,      \* the picture null_draw_frame holds
  fresh,     \* it still has to be displayed
  screen,    \* the picture on the screen
  asked,     \* commands since the last search, for the bound
  tame       \* history: no command since the last search is known to part the
             \* two counts (each command says when it is)

player == <<fpks, ms, status, waiting, mini, elapsed, offset, skipped, seeked,
            cur, speed, stall>>
thread == <<paused, shown, current, pending, vspeed, stalls, toSkip, hand,
            fresh, screen>>
vars   == <<player, thread, asked, tame>>

\* The millisecond at which n frames have passed.
Due(n) == (n * Kiloseconds) \div fpks

\* Vblank n comes n * Kiloseconds \div Vpks milliseconds after the start.
VblankAt(m) == \E n \in 1 .. Vpks : m = (n * Kiloseconds) \div Vpks

\* The disc's frames are pairs of vblanks.
Synchronous == 2 * fpks = Vpks

\* A search has landed on Home.
Init ==
  /\ fpks \in Rates /\ ms = 0 /\ status = "PAUSED"
  /\ waiting = FALSE /\ mini = 0 /\ elapsed = 0
  /\ offset = 0 /\ skipped = 0 /\ seeked = Home /\ cur = Home
  /\ speed = [skip |-> 0, stall |-> 0] /\ stall = 0
  /\ paused = TRUE /\ shown = 1 /\ current = Home /\ pending = 0
  /\ vspeed = speed /\ stalls = 0 /\ toSkip = 0
  /\ hand = Home /\ fresh = FALSE /\ screen = Home
  /\ asked = 0 /\ tame = TRUE

-----------------------------------------------------------------------------
(* A millisecond: pre_think                                                *)

\* increment_current_frame.
NextFrame ==
  /\ offset' = offset + 1
  /\ stall' = IF stall = 0 THEN speed.stall ELSE stall - 1
  /\ skipped' = skipped + speed.skip - (IF stall = 0 THEN 0 ELSE 1)
  /\ cur' = seeked + skipped' + offset'

SameFrame == UNCHANGED <<offset, stall, skipped, cur>>

\* The vblank count since the last frame.
CountVblank(asserted) ==
  IF ~asserted THEN mini
  ELSE IF waiting THEN 0
  ELSE IF mini < 2 THEN mini + 1 ELSE 2

\* Fault: a frame ends one millisecond late.
FrameOverLate(vblanks) == IF Synchronous THEN vblanks = 2
                          ELSE elapsed' > Due(offset + 1)

\* A frame has passed for the player.
FrameOver(vblanks) == IF Synchronous THEN vblanks = 2
                      ELSE elapsed' >= Due(offset + 1)

Tick ==
  /\ elapsed < LastMs /\ cur <= LastFrame /\ hand <= LastFrame
  /\ ms' = (ms + 1) % Kiloseconds
  /\ LET asserted == VblankAt(ms + 1)
         vblanks == CountVblank(asserted)
     IN /\ waiting' = (waiting /\ ~asserted)
        /\ elapsed' = IF waiting' THEN elapsed ELSE elapsed + 1
        /\ IF status = "PLAYING" /\ FrameOver(vblanks)
             THEN NextFrame /\ mini' = IF Synchronous THEN 0 ELSE vblanks
             ELSE SameFrame /\ mini' = vblanks
  /\ UNCHANGED <<fpks, status, seeked, speed, thread, asked, tame>>

-----------------------------------------------------------------------------
(* The VLDP thread: null_draw_frame                                        *)

OnTime == fresh => elapsed < Due(shown)

\* The picture is displayed, or dropped if it is two frames late.
Displayed == IF elapsed < Due(shown) + (2 * Kiloseconds) \div fpks
             THEN hand ELSE screen

\* Fault: a picture that is shown again in slow motion counts again.
CountedStalled(done) == IF pending # 0 THEN pending
                        ELSE IF done THEN current + 1 ELSE current

\* The frame number once the picture in hand is done with; it counts when it was
\* displayed or dropped, not when a command cut it short.
Counted(done) == IF stalls > 0 THEN current
                 ELSE IF pending # 0 THEN pending
                 ELSE IF done THEN current + 1 ELSE current

\* A held picture is stalled some more, or the next one is decoded.
Onward(left) == /\ stalls' = left
                /\ hand' = IF left = 0 THEN hand + 1 ELSE hand
                /\ fresh' = TRUE

Draw ==
  /\ ~paused /\ toSkip = 0 /\ ~OnTime
  /\ screen' = Displayed /\ shown' = shown + 1
  /\ current' = Counted(TRUE)
  /\ IF stalls > 0
       THEN Onward(stalls - 1) /\ UNCHANGED <<pending, toSkip>>
       ELSE /\ pending' = 0
            /\ toSkip' = IF pending = 0 THEN vspeed.skip ELSE 0
            /\ Onward(IF pending = 0 THEN vspeed.stall ELSE 0)
  /\ UNCHANGED <<player, paused, vspeed, asked, tame>>

\* A picture left out at more than 1X.
SkipPicture ==
  /\ toSkip > 0
  /\ toSkip' = toSkip - 1 /\ current' = current + 1 /\ hand' = hand + 1
  /\ UNCHANGED <<player, paused, shown, pending, vspeed, stalls, fresh, screen,
                 asked, tame>>

\* The picture that was in hand when a pause came is displayed all the same,
\* and not counted (paused_handler).
DrawStill ==
  /\ paused /\ ~OnTime
  /\ screen' = Displayed /\ fresh' = FALSE /\ shown' = 1
  /\ UNCHANGED <<player, paused, current, pending, vspeed, stalls, toSkip, hand,
                 asked, tame>>

-----------------------------------------------------------------------------
(* Commands                                                                *)

\* A skip was asked for and the count has not made it yet.
Owed == cur # seeked + skipped + offset

Asks == asked < MaxAsked /\ asked' = asked + 1

\* A search that lands.  The player keeps its stall count, the thread does not.
Search(f) ==
  /\ ~(status = "PAUSED" /\ f = cur)
  /\ status' = "PAUSED" /\ cur' = f /\ seeked' = f
  /\ paused' = TRUE /\ shown' = 1 /\ current' = f /\ pending' = 0
  /\ stalls' = 0 /\ toSkip' = 0
  /\ hand' = f /\ screen' = f /\ fresh' = FALSE
  /\ asked' = 0 /\ tame' = (stall = 0 /\ speed = vspeed)
  /\ UNCHANGED <<fpks, ms, waiting, mini, elapsed, offset, skipped, speed,
                 stall, vspeed>>

\* pre_play and ivldp_respond_req_play; a thread that was never paused (a stop
\* does not reach it) takes the command for a redundant one, and loses the
\* picture it held.  The vblanks counted while the disc was paused are still in
\* mini, which parts the counts of a synchronous disc.
Play ==
  /\ Asks
  /\ status \in {"PAUSED", "STOPPED"} /\ toSkip = 0 /\ hand <= LastFrame
  /\ status' = "PLAYING" /\ waiting' = TRUE
  /\ elapsed' = 0 /\ skipped' = 0 /\ offset' = 0
  /\ tame' = (tame /\ ~(Synchronous /\ mini = 2))
  /\ IF paused
       THEN /\ paused' = FALSE /\ shown' = 1
            /\ Onward(stalls)
            /\ UNCHANGED <<current, pending>>
       ELSE /\ current' = Counted(FALSE)
            /\ pending' = IF stalls = 0 THEN 0 ELSE pending
            /\ Onward(IF stalls = 0 THEN 0 ELSE stalls - 1)
            /\ UNCHANGED <<paused, shown>>
  /\ UNCHANGED <<fpks, ms, mini, seeked, cur, speed, stall, vspeed, toSkip,
                 screen>>

\* The picture in hand will be displayed and not counted, so a pause that finds
\* the thread late, ahead or in a skip, or a skip the count has not made and now
\* forgets, keeps that difference for good.
Pause ==
  /\ Asks
  /\ status = "PLAYING" /\ toSkip = 0
  /\ status' = "PAUSED" /\ seeked' = cur /\ skipped' = 0 /\ offset' = 0
  /\ paused' = TRUE
  /\ tame' = (tame /\ pending = 0 /\ ~Owed /\ OnTime /\ cur >= current)
  /\ UNCHANGED <<fpks, ms, waiting, mini, elapsed, cur, speed, stall, shown,
                 current, pending, vspeed, stalls, toSkip, hand, fresh, screen>>

\* The VLDP is not told.
Stop ==
  /\ Asks
  /\ status' = "STOPPED" /\ seeked' = 0 /\ cur' = 0
  /\ tame' = FALSE
  /\ UNCHANGED <<fpks, ms, waiting, mini, elapsed, offset, skipped, speed, stall,
                 thread>>

\* pre_skip_forward and idle_handler_search(1): the pictures shown are recomputed
\* from the timer; the count makes the skip with its next frame.  A skip back is a
\* Search and a Play (ldp::skip_backward).  Pending frame 0 means no skip; a skip in a frame that already owes one
\* leaves the thread with the second only; at another speed they differ too.
Skip(n) ==
  /\ Asks
  /\ status = "PLAYING" /\ ~paused /\ toSkip = 0 /\ OnTime
  /\ cur + n <= LastFrame
  /\ skipped' = skipped + n
  /\ shown' = (elapsed * fpks) \div Kiloseconds + 1
  /\ current' = Counted(FALSE)
  /\ pending' = cur + n /\ hand' = cur + n
  /\ stalls' = 0 /\ fresh' = TRUE
  /\ tame' = (tame /\ ~Owed /\ cur + n # 0
            /\ speed = [skip |-> 0, stall |-> 0] /\ vspeed = speed)
  /\ UNCHANGED <<fpks, ms, status, waiting, mini, elapsed, offset, seeked, cur,
                 speed, stall, paused, vspeed, toSkip, screen>>

\* pre_change_speed; a paused thread acknowledges and ignores it.
ChangeSpeed(s) ==
  /\ Asks
  /\ toSkip = 0
  /\ speed' = s
  /\ vspeed' = IF paused /\ ~fresh THEN vspeed ELSE s
  /\ tame' = (tame /\ OnTime /\ stall = 0 /\ stalls = 0 /\ ~Owed /\ pending = 0
            /\ ~Synchronous /\ vspeed' = s)
  /\ UNCHANGED <<fpks, ms, status, waiting, mini, elapsed, offset, skipped,
                 seeked, cur, stall, paused, shown, current, pending, stalls,
                 toSkip, hand, fresh, screen>>

Next == \/ Tick \/ Draw \/ SkipPicture \/ DrawStill
        \/ \E f \in Goals : Search(f)
        \/ Play \/ Pause \/ Stop
        \/ \E n \in Jumps : Skip(n)
        \/ \E s \in Speeds : ChangeSpeed(s)

Spec == Init /\ [][Next]_vars

-----------------------------------------------------------------------------
(* Properties                                                              *)

CountType ==
  /\ fpks \in Rates /\ ms \in 0 .. Kiloseconds - 1
  /\ status \in {"PAUSED", "PLAYING", "STOPPED"}
  /\ mini \in 0 .. 2 /\ elapsed \in Nat
  /\ offset \in Nat /\ skipped \in Int /\ seeked \in Int /\ cur \in Int
  /\ asked \in 0 .. MaxAsked

PictureType ==
  /\ shown \in Nat /\ current \in Int /\ pending \in Int
  /\ hand \in Int /\ screen \in Int

SpeedType ==
  /\ speed \in [skip : Nat, stall : Nat] /\ stall \in Nat
  /\ vspeed \in [skip : Nat, stall : Nat] /\ stalls \in Nat /\ toSkip \in Nat

FlagType == {waiting, paused, fresh, tame} \subseteq BOOLEAN

TypeOK == CountType /\ PictureType /\ SpeedType /\ FlagType

\* pre_think computes every frame boundary from the start of playback, so the
\* count never drifts from the clock ("what it should be", ldp.cpp:796): at any
\* millisecond exactly the frames that have passed are counted.
KeepsTime ==
  status = "PLAYING" /\ ~Synchronous => /\ Due(offset) <= elapsed
                                        /\ elapsed < Due(offset + 1)

\* "make sure VLDP's current frame is the same as our internal current frame"
\* (ldp-vldp.cpp:796): while the disc plays and the thread is on time, the VLDP
\* is never ahead, and one frame behind at most, the one a skip costs.  On a disc
\* counted by vblanks it is ahead until the vblank after each picture, and two
\* frames behind after a skip between a picture and that vblank.
InStep ==
  /\ tame /\ status = "PLAYING" /\ OnTime /\ toSkip = 0
  /\ ~Owed /\ pending = 0
  => cur - current \in IF Synchronous THEN -1 - speed.skip .. 2 ELSE 0 .. 1
=============================================================================
