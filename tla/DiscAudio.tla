------------------------------ MODULE DiscAudio ------------------------------
(***************************************************************************)
(* The sound of the disc (ldp-vldp-audio.cpp): one Ogg stream that the main *)
(* thread opens, seeks, plays and pauses for the driver, and that the audio *)
(* thread decodes whenever the sound card asks for a buffer.  Both hold     *)
(* g_ogg_mutex for as long as they touch the stream, but the clock that the *)
(* audio thread compares itself with, m_uElapsedMsSincePlay, is advanced by *)
(* the main thread without it.                                             *)
(*                                                                         *)
(* Sound is measured in units of the stream, and time in the units that     *)
(* play in it (uBYTES_PER_S times milliseconds in the code).  Abstracted:   *)
(* the samples themselves and the muting of a channel, which only changes   *)
(* how they are copied.  External: libvorbis, which decodes between one     *)
(* unit and Chunk at a time, and the user's files.                          *)
(*                                                                         *)
(* The names every specification has begin with Audio here, because module *)
(* SoundProofs is about Samples as well.                                   *)
(*                                                                         *)
(* A definition introduced as "Fault" is a plausible bug in the definition  *)
(* after it; it is not part of the specification.                          *)
(***************************************************************************)
EXTENDS Integers

CONSTANTS
  Length,    \* of every stream
  Goals,     \* positions that are sought
  Chunk,     \* AUDIO_BUF_CHUNK, the most ov_read decodes at a time
  Lens,      \* the buffer sizes a sound card may insist on
  Rounds,    \* buffers decoded in one callback to catch up, 10 in the code
  Wrap,      \* 2^32: the counts of samples are 32 bits wide
  MaxTime    \* bound: the clock and the count of what was played stop there

ASSUME SizeAssumption == /\ Length \in Nat /\ Goals \subseteq 0 .. Length /\ Chunk \in Nat \ {0}
                         /\ Lens \subseteq Nat \ {0} /\ Rounds \in Nat \ {0}
ASSUME CountAssumption == Wrap \in Nat \ {0} /\ MaxTime \in Nat

VARIABLES
  len,       \* g_uSoundChipBufSize
  ogg,       \* s_ogg: "none", "good", or "bad" when it was rejected after it
             \* was opened
  ready,     \* g_audio_ready
  playing,   \* g_audio_playing
  at,        \* where s_ogg decodes next
  left,      \* g_leftover_samples: decoded, but not played yet
  timer,     \* g_playing_timer
  played,    \* g_samples_played, before it wraps
  elapsed,   \* m_uElapsedMsSincePlay
  rolling,   \* ldp::m_status is LDP_PLAYING
  opened,    \* m_audio_file_opened
  named,     \* m_cur_mpeg_filename is not empty
  todo,      \* what the driver's function still has to do
  round,     \* loop_count: 0 unless the audio thread is in its loop
  upto,      \* history: the position at which what is left over ends, or
             \* Elsewhere when it is of a stream that was closed since
  from,      \* history: where the stream itself goes on at audio_play, and
  owed       \* how much that is not of that place was left over then

stream == <<ogg, ready, at>>
count  == <<timer, played, from, owed>>
leftover == <<left, upto>>
driver == <<rolling, opened, named, todo>>
audioVars == <<len, stream, playing, leftover, count, elapsed, driver, round>>

Positions == 0 .. Length
Elsewhere == -1
\* A seek or an open came between what is left over and what is decoded next.
Stale == left > 0 /\ upto # at
\* The position of what is heard next.
Heard == IF left > 0 THEN upto - left ELSE at
Unlocked == round = 0

AudioTypeOK ==
  /\ len \in Lens /\ ogg \in {"none", "good", "bad"}
  /\ ready \in BOOLEAN /\ playing \in BOOLEAN
  /\ ready => ogg = "good"
  /\ at \in Positions /\ upto \in Positions \cup {Elsewhere} /\ left \in 0 .. Chunk - 1
  /\ timer \in 0 .. MaxTime /\ elapsed \in 0 .. MaxTime
  /\ played \in Nat /\ from \in Int /\ owed \in 0 .. Chunk - 1
  /\ rolling \in BOOLEAN /\ opened \in BOOLEAN /\ named \in BOOLEAN
  /\ todo \in {"none", "find", "open", "seek", "restart", "load", "play"}
  /\ round \in 0 .. Rounds - 1

AudioInit ==
  /\ len \in Lens /\ ogg = "none" /\ ready = FALSE /\ playing = FALSE
  /\ at = 0 /\ left = 0 /\ upto = 0
  /\ timer = 0 /\ played = 0 /\ from = 0 /\ owed = 0 /\ elapsed = 0
  /\ rolling = FALSE /\ opened = FALSE /\ named = FALSE /\ todo = "none"
  /\ round = 0
-----------------------------------------------------------------------------
(* The driver, in the main thread.  A step that takes the mutex waits for   *)
(* the audio thread to leave its loop.                                     *)

\* audio_pause.  The driver goes on with next.
Pauses(next) == /\ Unlocked /\ todo' = next /\ playing' = FALSE /\ rolling' = FALSE
                /\ UNCHANGED <<len, stream, leftover, count, elapsed, opened, named, round>>

\* ldp_vldp::pause, and change_speed to anything but 1X, with the disc playing.
Pause == todo = "none" /\ rolling /\ Pauses("none")
ChangeSpeed ==
  /\ todo = "none" /\ Unlocked /\ playing' = FALSE
  /\ UNCHANGED <<len, stream, leftover, count, elapsed, driver, round>>

\* nonblocking_search, first step.
Search == todo = "none" /\ Pauses("find")

\* The frame is in the open file, or the driver opens another; or neither.
SearchFinds ==
  /\ todo = "find" /\ todo' \in {"open", "none"} \cup (IF named THEN {"seek"} ELSE {})
  /\ UNCHANGED <<len, stream, playing, leftover, count, elapsed, rolling, opened, named, round>>

\* open_audio_stream, which closes the stream before, if its handle is still
\* there.  The file may be missing, or not be an Ogg stream, or not be stereo at
\* 44100 Hz: then its memory is released, but s_ogg is not cleared.  What is left
\* over of the stream before stays.
Opens(result) ==
  /\ Unlocked
  /\ ready' = (result = "good") /\ opened' = (result = "good")
  /\ playing' = (playing /\ ogg # "good")
  /\ ogg' = IF result # "missing" THEN result ELSE IF ogg = "good" THEN "none" ELSE ogg
  /\ at' = IF result = "good" THEN 0 ELSE at
  /\ named' = TRUE /\ upto' = Elsewhere
  /\ UNCHANGED <<len, left, count, elapsed, rolling, round>>

\* In a search, and in the play of a disc with no file open.
Open(result) == \/ todo = "open" /\ todo' = "seek" /\ Opens(result)
                \/ todo = "load" /\ todo' = "play" /\ Opens(result)

\* seek_audio to p of a stream that ov_seekable accepts.  What libvorbis makes of
\* a rejected stream, whose memory is gone, is undefined, but it is never heard.
\* What is left over of the place before stays.
Seek(p) == /\ Unlocked /\ ogg # "none"
           /\ at' = p /\ playing' = FALSE

\* seek_audio in a search, unless the VLDP refused it or no stream is open.
SearchSeeks ==
  /\ todo = "seek" /\ todo' = "none"
  /\ \/ opened /\ (\E p \in Goals : Seek(p)) /\ UNCHANGED <<ogg, ready>>
     \/ UNCHANGED <<stream, playing>>
  /\ UNCHANGED <<len, leftover, count, elapsed, rolling, opened, named, round>>

\* skip_forward with a stream open, or change_speed back to 1X: seek_audio, and
\* audio_play when that is done.
Skip == /\ todo = "none" /\ todo' = "restart"
        /\ (rolling /\ opened) \/ ogg # "none"
        /\ \E p \in Goals : Seek(p)
        /\ UNCHANGED <<len, ogg, ready, leftover, count, elapsed, rolling, opened, named, round>>

\* audio_play, with the clock at now.
AudioPlay(now) == /\ Unlocked /\ timer' = now /\ played' = 0 /\ playing' = TRUE
                  /\ from' = IF Stale THEN at ELSE Heard
                  /\ owed' = IF Stale THEN left ELSE 0

Restart == /\ todo = "restart" /\ todo' = "none" /\ AudioPlay(elapsed)
           /\ UNCHANGED <<len, stream, leftover, elapsed, rolling, opened, named, round>>

\* pre_play sets the clock back, without the mutex; the driver opens the first
\* file if there was none.
PrePlay == /\ todo = "none" /\ ~rolling
           /\ elapsed' = 0 /\ todo' = IF named THEN "play" ELSE "load"
           /\ UNCHANGED <<len, stream, playing, leftover, count, rolling, opened, named, round>>

\* No file could be opened; the player takes the disc to be playing all the same.
PlayFails == /\ todo = "load" /\ todo' = "none" /\ rolling' = TRUE
             /\ UNCHANGED <<len, stream, playing, leftover, count, elapsed, opened, named, round>>

PlayStarts == /\ todo = "play" /\ todo' = "none" /\ AudioPlay(0) /\ rolling' = TRUE
              /\ UNCHANGED <<len, stream, leftover, elapsed, opened, named, round>>

\* pre_think, between two calls of the driver, also while the disc is paused.
Tick == /\ todo = "none" /\ elapsed < MaxTime /\ elapsed' = elapsed + 1
        /\ UNCHANGED <<len, stream, playing, leftover, count, driver, round>>

-----------------------------------------------------------------------------
(* ldp_vldp_audio_callback                                                 *)

\* The card wants a buffer, and there is nothing to play.
Silence == /\ Unlocked /\ ~(ready /\ playing)
           /\ left' = 0 /\ upto' = at
           /\ UNCHANGED <<len, ogg, ready, at, playing, count, elapsed, driver, round>>

\* How much has to be decoded, once what was left over is copied.
Wanted == IF left < len THEN len - left ELSE 0

\* Fault: what was left over stays when all of it is copied.
FillKeeps == /\ \E extra \in 0 .. Chunk - 1 :
                  /\ at + Wanted + extra <= Length
                  /\ at' = at + Wanted + extra
                  /\ left' = IF Wanted = 0 THEN left - len
                             ELSE IF extra = 0 THEN left ELSE extra
             /\ UNCHANGED playing

\* The buffer is filled.  The last chunk may hold more than that.
Fill == /\ \E extra \in 0 .. IF Wanted = 0 THEN 0 ELSE Chunk - 1 :
             /\ at + Wanted + extra <= Length
             /\ at' = at + Wanted + extra
             /\ left' = IF Wanted = 0 THEN left - len ELSE extra
        /\ UNCHANGED playing

\* The stream ends, or cannot be read on, before the buffer is full.
RunsDry == /\ Wanted > 0 /\ left' = 0 /\ playing' = FALSE
           /\ \/ at + Wanted > Length /\ at' = Length
              \/ at' \in at .. at + Wanted - 1 /\ at' <= Length

\* The signed value of a 32-bit difference.
Signed(n) == IF 2 * (n % Wrap) < Wrap THEN n % Wrap ELSE (n % Wrap) - Wrap

\* Fault: the difference is taken as it is, without a sign.
CaughtUpUnsigned(p) ==
  LET correct == IF timer < elapsed THEN (elapsed - timer) % Wrap ELSE 0
  IN correct <= p % Wrap \/ (correct - p) % Wrap < len

\* Is the stream, with p played, less than a buffer behind the clock?
CaughtUp(p) ==
  LET correct == IF timer < elapsed THEN (elapsed - timer) % Wrap ELSE 0
  IN correct <= p % Wrap \/ Signed(correct - p) < len

\* The loop is entered, or goes on; the mutex is released when the stream has
\* caught up, or after Rounds.  Bound: what was played.
Round ==
  /\ round > 0 \/ (ready /\ playing /\ played <= MaxTime)
  /\ Fill \/ RunsDry
  /\ upto' = IF Wanted = 0 THEN upto ELSE at'
  /\ played' = played + len
  /\ round' = IF CaughtUp(played') \/ round + 1 = Rounds THEN 0 ELSE round + 1
  /\ UNCHANGED <<len, ogg, ready, timer, from, owed, elapsed, driver>>

Driver == \/ Pause \/ ChangeSpeed \/ Search \/ SearchFinds \/ SearchSeeks \/ Skip
          \/ Restart \/ PrePlay \/ PlayFails \/ PlayStarts
          \/ \E result \in {"good", "bad", "missing"} : Open(result)

AudioNext == Driver \/ Tick \/ Silence \/ Round

AudioSpec == AudioInit /\ [][AudioNext]_audioVars

-----------------------------------------------------------------------------
(* Properties                                                              *)

\* From audio_play on, what is heard next is as far into the stream as was played
\* since, however the decoder cut it into chunks, through every pause of the loop
\* and every skip to catch up; but when a seek or an open came after the last
\* buffer, and no silence was asked for before audio_play, what was left over of
\* the place before (seek_audio and open_audio_stream keep it, :363-511) is heard
\* first (:571-586), and all that follows comes that much late.
InPlace ==
  ready /\ playing =>
    IF played < owed
    THEN left = owed - played /\ at = from
    ELSE ~Stale /\ Heard = from + played - owed

\* How far the sound is behind the clock, which is less than half of what a count
\* can hold: over three hours.
Lag == elapsed - timer - played
Near == 2 * Lag < Wrap /\ -2 * Lag < Wrap

\* Sound is dropped to catch up only when it is a whole buffer behind the clock, also
\* when one of the two 32-bit counts has wrapped and the other has not.
DropsOnlyWhenLate == Near' /\ round' > round => Lag' >= len

\* The other way round: the audio thread leaves the sound a buffer or more behind
\* only after all its rounds, or while just one of the counts has wrapped.
LeavesInStep ==
  Near' /\ played' > played /\ round' = 0 =>
    \/ Lag' < len \/ round + 1 = Rounds
    \/ (elapsed' - timer') \div Wrap # played' \div Wrap

\* The catching up of ldp_vldp_audio_callback (ldp-vldp-audio.cpp:655).
CatchesUp == [][DropsOnlyWhenLate /\ LeavesInStep]_audioVars
=============================================================================
