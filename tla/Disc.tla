-------------------------------- MODULE Disc --------------------------------
(***************************************************************************)
(* The laserdisc as the script sees it: the generic player of ldp.cpp on   *)
(* top of the VLDP driver of ldp-vldp.cpp.  One thread runs the script, the *)
(* player and the driver; but while a file is being opened the driver      *)
(* handles input events, whose Lua handlers may call the disc again.  The  *)
(* calls in progress form a stack.                                         *)
(*                                                                         *)
(* Kept: the player's status, the frame counter and what a skip owes it,   *)
(* the driver's idea of the open file and its offset, the audio stream,    *)
(* and the two loops that wait (handling input while a file opens, polling *)
(* in a blocking search).  Abstracted: milliseconds (a frame is one Tick), *)
(* playback speed, and the VLDP thread, which is here the status word and  *)
(* the picture that module Vldp describes; a command to a busy VLDP blocks *)
(* until the job is done.  External: the files and the framefile's table.  *)
(***************************************************************************)
EXTENDS Integers, Sequences, FiniteSetsExt

CONSTANTS
  LastFrame,   \* bound: frames are 0 .. LastFrame
  Framefile,   \* m_mpeginfo: its entries, each the name of a file and the frame
               \* it begins at; a file may be listed more than once
  Pictures,    \* the number of pictures of each file
  NoFile,      \* no file; also the empty m_cur_mpeg_filename
  Present,     \* the files that exist on the disk
  Sounding,    \* the files that come with an audio stream
  Seekable,    \* the files whose audio stream ov_seekable accepts
  Functions,   \* the script functions that the main script calls
  Handlers,    \* those that the input handlers call
  MaxDepth,    \* bound: disc calls in progress at a time
  MaxNested,   \* bound: handlers that run during one call of the main script
  Prompt       \* TRUE: a search ends within the seven seconds that a caller
               \* waits, with its picture or an error

Frames == 0 .. LastFrame
Goals == -LastFrame .. LastFrame    \* to search: a skip back may ask for less than 0
Files == {Framefile[i].name : i \in DOMAIN Framefile}
FirstFile == Framefile[1].name

ASSUME FrameAssumption == /\ LastFrame \in Nat
                          /\ Framefile \in Seq([frame : Frames, name : Files]) \ {<<>>}
                          /\ NoFile \notin Files
ASSUME FileAssumption == /\ Pictures \in [Files -> 1 .. LastFrame + 1]
                         /\ FirstFile \in Present /\ Present \subseteq Files /\ Sounding \subseteq Files
                         /\ Seekable \subseteq Sounding
ASSUME BoundAssumption == MaxDepth \in Nat \ {0} /\ MaxNested \in Nat
                          /\ Prompt \in BOOLEAN

\* The functions of the script that reach the player, by the names they have there.
DiscFunctions ==
  {"discSearch", "discSkipToFrame", "discPauseAtFrame", "discStepForward",
   "discStepBackward", "discSkipForward", "discSkipBackward", "discChangeSpeed",
   "discPlay", "discPause", "discStop", "discGetState"}
ASSUME FunctionAssumption == Functions \cup Handlers \subseteq DiscFunctions

VARIABLES
  status,    \* m_status
  cur,       \* m_uCurrentFrame
  lead,      \* frames skipped that the counter has not caught up with
  tryF,      \* m_last_try_frame
  dontGet,   \* m_dont_get_search_result
  curFile,   \* m_cur_mpeg_filename
  offset,    \* m_cur_ldframe_offset
  target,    \* m_target_mpegframe
  sound,     \* file of the open audio stream, or NoFile
  audioOn,   \* g_audio_playing
  stack,     \* calls in progress, innermost first
  nested,    \* handlers run since the main script's last call
  answer,    \* how the last operation to end did end
  video,     \* VLDP: g_out_info.status
  job,       \* VLDP: what it is busy with
  file,      \* VLDP: the open file
  pos        \* VLDP: index in its file of the picture shown

player == <<status, cur, lead, tryF, dontGet>>
driver == <<curFile, offset, target, sound, audioOn>>
vldp   == <<video, job, file, pos>>
vars   == <<player, driver, stack, nested, answer, vldp>>

Statuses == {"ERROR", "SEARCHING", "STOPPED", "PLAYING", "PAUSED"}
Stats == {"ERROR", "BUSY", "STOPPED", "PLAYING", "PAUSED"}
Jobs == [kind : {"none"}] \cup [kind : {"open"}, name : Files]
        \cup [kind : {"seek"}, index : Frames]

\* The entry that mpeg_info finds for a frame: it stops at the first that begins
\* later, and takes the first entry of all when none is left.
Entry(f) == Max({1} \cup {i \in DOMAIN Framefile :
                             \A j \in 2 .. i : Framefile[j].frame <= f})

\* The file a frame is in, if in any, and where in it.
Start(f) == Framefile[Entry(f)].frame
FileOf(f) == IF f >= Start(f) THEN Framefile[Entry(f)].name ELSE NoFile
Index(f) == f - Start(f)

\* An operation of the player, with the frame or the count it is given.
Ops == [do : {"search", "step", "skip", "back", "speed", "play", "pause", "stop", "get"},
        arg : Int]
Op(d, a) == [do |-> d, arg |-> a]

\* The player operations that a script function makes, in order
\* (singeproxy.cpp), for frame or count a.
Script(fn, a) ==
  CASE fn = "discSearch"       -> <<Op("search", a)>>
    [] fn = "discSkipToFrame"  -> <<Op("search", a), Op("play", 0)>>
    [] fn = "discPauseAtFrame" -> <<Op("search", a), Op("play", 0), Op("pause", 0)>>
    [] fn = "discStepForward"  -> <<Op("step", 1)>>
    [] fn = "discStepBackward" -> <<Op("step", -1)>>
    [] fn = "discSkipForward"  -> <<Op("skip", a)>>
    [] fn = "discSkipBackward" -> <<Op("back", a)>>
    [] fn = "discChangeSpeed"  -> <<Op("speed", a)>>
    [] fn = "discPlay"         -> <<Op("play", 0)>>
    [] fn = "discPause"        -> <<Op("pause", 0)>>
    [] fn = "discStop"         -> <<Op("stop", 0)>>
    [] fn = "discGetState"     -> <<Op("get", 0)>>

Arguments(fn) ==
  CASE fn \in {"discSearch", "discSkipToFrame", "discPauseAtFrame"} -> Frames
    [] fn \in {"discSkipForward", "discSkipBackward"} -> 1 .. LastFrame
    [] fn = "discChangeSpeed" -> {1, 2}
    [] OTHER -> {0}

\* A call: what is left of it, and where it waits.  "open": in wait_for_status,
\* for file name; "poll": in the loop of a blocking search.
Calls == [todo : Seq(Ops), at : {"run", "open", "poll"}, name : Files \cup {NoFile}]
Top == Head(stack)
Running(d) == /\ stack # <<>> /\ Top.at = "run" /\ Top.todo # <<>>
              /\ Head(Top.todo).do = d
Arg == Head(Top.todo).arg

PlayerType ==
  /\ status \in Statuses /\ cur \in Frames /\ tryF \in Goals
  /\ lead \in Int /\ lead <= LastFrame /\ dontGet \in BOOLEAN

DriverType ==
  /\ curFile \in Files \cup {NoFile} /\ offset \in Frames
  /\ target \in Frames /\ sound \in Files \cup {NoFile} /\ audioOn \in BOOLEAN

CallType ==
  /\ stack \in Seq(Calls) /\ Len(stack) <= MaxDepth /\ nested \in 0 .. MaxNested
  /\ answer \in {"none", "landed", "same", "failed", "refused", "late", "unheard"}

VldpType ==
  /\ video \in Stats /\ job \in Jobs /\ file \in Files \cup {NoFile}
  /\ pos \in Frames
  /\ video = "BUSY" <=> job.kind # "none"

TypeOK == PlayerType /\ DriverType /\ CallType /\ VldpType

\* After ldp_vldp::init_player: the first file is open, but its name is
\* forgotten so that the first search opens it again, with its audio.
Init ==
  /\ status = "STOPPED" /\ cur = 0 /\ lead = 0 /\ tryF = 0 /\ dontGet = FALSE
  /\ curFile = NoFile /\ offset = 0 /\ target = 0
  /\ sound = NoFile /\ audioOn = FALSE
  /\ stack = <<>> /\ nested = 0 /\ answer = "none"
  /\ video = "STOPPED" /\ job = [kind |-> "none"] /\ file = FirstFile /\ pos = 0
-----------------------------------------------------------------------------
(* The script                                                              *)

\* The main script, or a handler that runs while a file opens, calls fn.  Bound:
\* no step, skip or play beyond LastFrame, which the code does not look for.
Call(fn, a) ==
  /\ \/ stack = <<>> /\ fn \in Functions /\ nested' = 0
     \/ /\ stack # <<>> /\ Top.at = "open" /\ fn \in Handlers
        /\ Len(stack) < MaxDepth /\ nested < MaxNested /\ nested' = nested + 1
  /\ fn = "discStepForward" => cur < LastFrame
  /\ fn = "discSkipForward" => cur + lead + a < LastFrame
  /\ stack' = <<[todo |-> Script(fn, a), at |-> "run", name |-> NoFile]>> \o stack
  /\ answer' = "none"
  /\ UNCHANGED <<player, driver, vldp>>

\* The current operation is over, as a says; the call goes on with the next.
Done(a) == /\ stack' = <<[todo |-> Tail(Top.todo), at |-> "run", name |-> NoFile]>>
                       \o Tail(stack)
           /\ answer' = a

\* The current operation waits, for file n if for a file.
Waits(where, n) == /\ stack' = <<[Top EXCEPT !.at = where, !.name = n]>> \o Tail(stack)
                   /\ answer' = "none"
                   /\ UNCHANGED nested

Return == /\ stack # <<>> /\ Top.at = "run" /\ Top.todo = <<>>
          /\ stack' = Tail(stack)
          /\ UNCHANGED <<player, driver, nested, answer, vldp>>

-----------------------------------------------------------------------------
(* ldp::get_status                                                         *)

\* vldp_cmd does not come back before the VLDP thread has ended its job.
Free == video # "BUSY"

\* Fault: the counter is left where it was.
SearchResultKeepsFrame ==
  CASE status = "SEARCHING" /\ video = "PAUSED" ->
         status' = "PAUSED" /\ dontGet' = TRUE /\ UNCHANGED <<cur, lead, tryF>>
    [] status = "SEARCHING" /\ video = "ERROR" ->
         status' = "ERROR" /\ UNCHANGED <<cur, lead, tryF, dontGet>>
    [] OTHER -> UNCHANGED player

\* What get_status makes of get_search_result.
SearchResult ==
  CASE status = "SEARCHING" /\ video = "PAUSED" ->
         status' = "PAUSED" /\ cur' = tryF /\ dontGet' = TRUE
         /\ UNCHANGED <<lead, tryF>>
    [] status = "SEARCHING" /\ video = "ERROR" ->
         status' = "ERROR" /\ UNCHANGED <<cur, lead, tryF, dontGet>>
    [] OTHER -> UNCHANGED player

Get == /\ Running("get") /\ Done("none")
       /\ SearchResult
       /\ UNCHANGED <<driver, nested, vldp>>

-----------------------------------------------------------------------------
(* ldp::pre_search and ldp_vldp::nonblocking_search                        *)

\* The frame to look for: given, or the next or last but one for a step.
Wanted == IF Head(Top.todo).do = "search" THEN Arg
          ELSE IF cur + Arg < 0 THEN 0 ELSE cur + Arg

Searching(f) == (Running("search") \/ Running("step")) /\ f = Wanted

\* "tried to search without checking for search result first!"
SearchRefused(f) ==
  /\ Searching(f) /\ status = "SEARCHING"
  /\ Done("refused")
  /\ UNCHANGED <<player, driver, nested, vldp>>

\* "ignoring seek because we're already on that frame"
SearchSame(f) ==
  /\ Searching(f) /\ status = "PAUSED" /\ f = cur
  /\ Done("same")
  /\ UNCHANGED <<player, driver, nested, vldp>>

Seeks(f) == /\ Searching(f) /\ status # "SEARCHING"
            /\ ~(status = "PAUSED" /\ f = cur)

\* mpeg_info finds no file for the frame.
SearchNowhere(f) ==
  /\ Seeks(f) /\ FileOf(f) = NoFile
  /\ status' = "ERROR" /\ tryF' = f /\ dontGet' = FALSE
  /\ target' = 0 /\ audioOn' = FALSE
  /\ Done("failed")
  /\ UNCHANGED <<cur, lead, curFile, offset, sound, nested, vldp>>

\* The search command for picture i and the audio seek, with s the open stream:
\* the blocking search then polls, unless the stream cannot be sought.
Sought(s) == s \in Seekable \cup {NoFile}
Send(i, s) ==
  /\ video' = "BUSY" /\ job' = [kind |-> "seek", index |-> i]
  /\ IF Sought(s) THEN Waits("poll", NoFile) ELSE Done("unheard") /\ UNCHANGED nested
  /\ dontGet' = FALSE
  /\ UNCHANGED <<file, pos>>

\* Fault: any file will do once one is open.
SearchHereAny(f) ==
  /\ Seeks(f) /\ FileOf(f) # NoFile /\ curFile # NoFile /\ Free
  /\ Send(Index(f), sound)
  /\ status' = IF Sought(sound) THEN "SEARCHING" ELSE "ERROR"
  /\ tryF' = f /\ target' = Index(f) /\ offset' = Start(f)
  /\ audioOn' = FALSE
  /\ UNCHANGED <<cur, lead, curFile, sound>>

\* The frame is in the open file.
SearchHere(f) ==
  /\ Seeks(f) /\ FileOf(f) # NoFile /\ FileOf(f) = curFile /\ Free
  /\ Send(Index(f), sound)
  /\ status' = IF Sought(sound) THEN "SEARCHING" ELSE "ERROR"
  /\ tryF' = f /\ target' = Index(f) /\ offset' = Start(f)
  /\ audioOn' = FALSE
  /\ UNCHANGED <<cur, lead, curFile, sound>>

\* open_and_block begins: the VLDP closes the file it has open first.
Opens(n) == /\ Free
            /\ video' = "BUSY" /\ job' = [kind |-> "open", name |-> n]
            /\ file' = NoFile /\ pos' = 0
            /\ Waits("open", n)

\* The frame is in another file.  When vldp_open refuses a missing file the
\* condition goes on to open_precached(mi->second) with mi past the end of the
\* map: an index out of range makes the VLDP fail to open anything.
SearchOpens(f) ==
  /\ Seeks(f) /\ FileOf(f) # NoFile /\ FileOf(f) # curFile
  /\ Opens(FileOf(f))
  /\ status' = "SEARCHING" /\ tryF' = f
  /\ target' = Index(f) /\ offset' = Start(f) /\ audioOn' = FALSE
  /\ UNCHANGED <<cur, lead, dontGet, curFile, sound>>

\* The stream that is open once the file has been.
StreamOf(n) == IF n \in Sounding THEN n ELSE NoFile

\* wait_for_status ends while a search opens a file.
Opened(d, st) == /\ stack # <<>> /\ Top.at = "open" /\ Free
                 /\ Head(Top.todo).do \in d
                 /\ video \in st

\* Fault: m_cur_mpeg_filename is not brought up to date.
SearchOpenedForgets ==
  /\ Opened({"search", "step"}, {"STOPPED"})
  /\ sound' = StreamOf(Top.name)
  /\ Send(target, sound')
  /\ status' = IF Sought(sound') THEN status ELSE "ERROR"
  /\ audioOn' = (audioOn /\ sound = NoFile /\ sound' \notin Seekable)
  /\ UNCHANGED <<cur, lead, tryF, curFile, offset, target>>

\* The file is open; so is its audio stream, after the old one was closed.
SearchOpened ==
  /\ Opened({"search", "step"}, {"STOPPED"})
  /\ curFile' = Top.name /\ sound' = StreamOf(Top.name)
  /\ Send(target, sound')
  /\ status' = IF Sought(sound') THEN status ELSE "ERROR"
  /\ audioOn' = (audioOn /\ sound = NoFile /\ sound' \notin Seekable)
  /\ UNCHANGED <<cur, lead, tryF, offset, target>>

\* Fault: the status is left at SEARCHING.
SearchUnopenedKeeps ==
  /\ Opened({"search", "step"}, Stats \ {"STOPPED", "BUSY"})
  /\ dontGet' = FALSE
  /\ Done("failed")
  /\ UNCHANGED <<status, cur, lead, tryF, driver, nested, vldp>>

\* It is not: m_cur_mpeg_filename and the audio stream stay as they were.
SearchUnopened ==
  /\ Opened({"search", "step"}, Stats \ {"STOPPED", "BUSY"})
  /\ status' = "ERROR" /\ dontGet' = FALSE
  /\ Done("failed")
  /\ UNCHANGED <<cur, lead, tryF, driver, nested, vldp>>

Polling == stack # <<>> /\ Top.at = "poll"

\* The loop of a blocking search sees the end of the search.
PollEnds ==
  /\ Polling /\ SearchResult /\ status' # "SEARCHING"
  /\ Done(IF status' = "PAUSED" THEN "landed" ELSE "failed")
  /\ UNCHANGED <<driver, nested, vldp>>

\* Seven seconds have passed: the search failed for the caller, but the status
\* remains.
PollTimeout ==
  /\ Polling /\ status = "SEARCHING" /\ video \notin {"PAUSED", "ERROR"}
  /\ Prompt => Free
  /\ Done("late")
  /\ UNCHANGED <<player, driver, nested, vldp>>

-----------------------------------------------------------------------------
(* pre_play, pre_pause, pre_stop, pre_skip_*, pre_change_speed             *)

\* "tried to play without checking to see if we were still seeking!"
PlayRefused == /\ Running("play") /\ status = "SEARCHING"
               /\ Done("refused")
               /\ UNCHANGED <<player, driver, nested, vldp>>

PlayIgnored == /\ Running("play") /\ status = "PLAYING"
               /\ Done("none")
               /\ UNCHANGED <<player, driver, nested, vldp>>

Plays == Running("play") /\ status \notin {"SEARCHING", "PLAYING"}

\* The play command, in a VLDP with file n open: pre_play says PLAYING whatever
\* comes of it.
StartPlaying(n) ==
  /\ status' = "PLAYING" /\ audioOn' = TRUE
  /\ video' = IF n # NoFile THEN "PLAYING" ELSE "ERROR"
  /\ Done("none")
  /\ UNCHANGED <<cur, tryF, dontGet, offset, target, nested, job, file, pos>>

PlayHere == /\ Plays /\ curFile # NoFile /\ Free
            /\ StartPlaying(file)
            /\ lead' = 0
            /\ UNCHANGED <<curFile, sound>>

\* No file was opened yet, except by init_player: the first one is.  What the
\* counter owes is forgotten before.
PlayOpens == /\ Plays /\ curFile = NoFile
             /\ Opens(FirstFile)
             /\ lead' = 0
             /\ UNCHANGED <<status, cur, tryF, dontGet, driver>>

PlayOpened == /\ Opened({"play"}, {"STOPPED"})
              /\ StartPlaying(Top.name)
              /\ curFile' = Top.name /\ sound' = StreamOf(Top.name)
              /\ UNCHANGED lead

PlayUnopened == /\ Opened({"play"}, Stats \ {"STOPPED", "BUSY"})
                /\ status' = "PLAYING"
                /\ Done("failed")
                /\ UNCHANGED <<cur, lead, tryF, dontGet, driver, nested, vldp>>

\* A pause in a VLDP that is not rolling or paused is an error.
Pause ==
  /\ Running("pause") /\ status = "PLAYING" /\ Free
  /\ status' = "PAUSED" /\ lead' = 0 /\ audioOn' = FALSE
  /\ video' = IF video \in {"PLAYING", "PAUSED"} THEN "PAUSED" ELSE "ERROR"
  /\ Done("none")
  /\ UNCHANGED <<cur, tryF, dontGet, curFile, offset, target, sound, nested, job,
                 file, pos>>

PauseIgnored == /\ Running("pause") /\ status # "PLAYING"
                /\ Done("none")
                /\ UNCHANGED <<player, driver, nested, vldp>>

\* ldp::stop does nothing and the VLDP is not told.
Stop == /\ Running("stop")
        /\ status' = "STOPPED" /\ cur' = 0
        /\ Done("none")
        /\ UNCHANGED <<lead, tryF, dontGet, driver, nested, vldp>>

\* A skip forward.  The counter owes it from its next frame on; the VLDP skips at once, to
\* a picture counted from the offset the driver has.  The audio plays on, from
\* there, whatever the VLDP does.
Skip ==
  /\ Running("skip") /\ status = "PLAYING" /\ Free
  /\ lead' = lead + Arg
  /\ audioOn' = (audioOn \/ sound \in Seekable)
  /\ LET i == cur + Arg - offset
         reached == video = "PLAYING" /\ i >= 0 /\ i < Pictures[file]
     IN /\ pos' = IF reached THEN i ELSE pos
        /\ video' = IF video = "PLAYING" /\ ~reached THEN "ERROR" ELSE video
        /\ Done(IF video = "PLAYING" THEN "none" ELSE "failed")
  /\ UNCHANGED <<status, cur, tryF, dontGet, curFile, offset, target, sound,
                 nested, job, file>>

\* The driver has no skip_backward: the one of ldp.cpp is a blocking search, for
\* a frame that may lie before the first one, and then a play, whatever became of
\* the search.  The counter owes the skip until the play.
SkipBack ==
  /\ Running("back") /\ status = "PLAYING"
  /\ lead' = lead - Arg
  /\ stack' = <<[todo |-> <<Op("search", cur - Arg), Op("play", 0)>> \o Tail(Top.todo),
                 at |-> "run", name |-> NoFile]>> \o Tail(stack)
  /\ answer' = "none"
  /\ UNCHANGED <<status, cur, tryF, dontGet, driver, nested, vldp>>

SkipIgnored == /\ Running("skip") \/ Running("back")
               /\ status # "PLAYING"
               /\ Done("failed")
               /\ UNCHANGED <<player, driver, nested, vldp>>

\* At 1X the audio is found again, which looks up the file of the counter; at
\* any other speed it is silent.
ChangeSpeed ==
  /\ Running("speed") /\ Free
  /\ IF Arg = 1
       THEN /\ offset' = IF FileOf(cur) = NoFile THEN offset ELSE Start(cur)
            /\ audioOn' = (audioOn \/ sound \in Seekable)
       ELSE audioOn' = FALSE /\ UNCHANGED offset
  /\ Done("none")
  /\ UNCHANGED <<player, curFile, target, sound, nested, vldp>>

-----------------------------------------------------------------------------
(* Time and the VLDP thread                                                *)

\* A frame goes by between two calls of the script: the counter of a playing
\* disc goes up and makes good what it owes (increment_current_frame); rolling
\* video shows its next picture or comes to the end of its file, where the VLDP
\* rewinds.  Bound: the counter stays in Frames.  It could fall below 0 only when a
\* handler skipped back, too late for its own play, while the play that opens the
\* first file was waiting.
Tick ==
  /\ stack = <<>>
  /\ IF status = "PLAYING"
       THEN /\ cur + 1 + lead \in Frames
            /\ cur' = cur + 1 + lead /\ lead' = 0
       ELSE UNCHANGED <<cur, lead>>
  /\ IF video = "PLAYING"
       THEN IF pos + 1 < Pictures[file]
              THEN pos' = pos + 1 /\ UNCHANGED video
              ELSE pos' = 0 /\ video' = "STOPPED"
       ELSE UNCHANGED <<pos, video>>
  /\ UNCHANGED <<status, tryF, dontGet, driver, stack, nested, answer, job, file>>

\* Fault: the status never leaves STAT_BUSY after a bad header.
VldpOpenedBusy(ok) ==
  /\ job.kind = "open" /\ (ok => job.name \in Present)
  /\ video' = IF ok THEN "STOPPED" ELSE "BUSY"
  /\ file' = IF ok THEN job.name ELSE NoFile
  /\ pos' = 0 /\ job' = [kind |-> "none"]
  /\ UNCHANGED <<player, driver, stack, nested, answer>>

\* idle_handler_open ends.
VldpOpened(ok) ==
  /\ job.kind = "open" /\ (ok => job.name \in Present)
  /\ video' = IF ok THEN "STOPPED" ELSE "ERROR"
  /\ file' = IF ok THEN job.name ELSE NoFile
  /\ pos' = 0 /\ job' = [kind |-> "none"]
  /\ UNCHANGED <<player, driver, stack, nested, answer>>

\* idle_handler_search ends: at the picture, out of bounds or without a file, or
\* at the end of the file before the picture came.
VldpSought(st) ==
  /\ job.kind = "seek" /\ job' = [kind |-> "none"]
  /\ \/ st = "PAUSED" /\ file # NoFile /\ pos' = job.index /\ pos' < Pictures[file]
     \/ st = "STOPPED" /\ ~Prompt /\ file # NoFile /\ pos' = 0
     \/ st = "ERROR" /\ UNCHANGED pos
  /\ video' = st
  /\ UNCHANGED <<player, driver, stack, nested, answer, file>>

Search == \/ \E f \in Goals : \/ SearchRefused(f) \/ SearchSame(f)
                              \/ SearchNowhere(f) \/ SearchHere(f)
                              \/ SearchOpens(f)
          \/ SearchOpened \/ SearchUnopened \/ PollEnds \/ PollTimeout

Play == PlayRefused \/ PlayIgnored \/ PlayHere \/ PlayOpens \/ PlayOpened
        \/ PlayUnopened

Operation == Search \/ Play \/ Pause \/ PauseIgnored \/ Stop \/ Skip
             \/ SkipBack \/ SkipIgnored \/ ChangeSpeed \/ Get \/ Return

Vldp == (\E ok \in BOOLEAN : VldpOpened(ok))
        \/ (\E st \in {"PAUSED", "STOPPED", "ERROR"} : VldpSought(st))

Next == (\E fn \in Functions \cup Handlers : \E a \in Arguments(fn) : Call(fn, a))
        \/ Operation \/ Tick \/ Vldp

Spec == Init /\ [][Next]_vars

\* A call that has begun goes on, and the VLDP thread is not starved.
FairSpec == Spec /\ WF_vars(Operation) /\ WF_vars(Vldp)

-----------------------------------------------------------------------------
(* Properties                                                              *)

\* The picture the VLDP shows is that of frame f: some entry of the framefile
\* begins at or before f, the next one after it, and names the open file.
Shows(f) == \E i \in DOMAIN Framefile :
  /\ file = Framefile[i].name /\ pos = f - Framefile[i].frame
  /\ i < Len(Framefile) => f < Framefile[i + 1].frame

\* A blocking search "will return true if the search was successful" (ldp.h:83):
\* whatever handlers ran meanwhile, the picture is on the screen, in the right
\* file, and the counter says so.
SearchLands ==
  answer = "landed" => /\ status = "PAUSED" /\ video = "PAUSED" /\ Shows(cur)
                       /\ cur = tryF

\* "name of the mpeg file we currently have open" (ldp-vldp.h:130): no search is
\* ever answered from a file other than the one it names.
RightFile == stack = <<>> /\ file # NoFile => curFile \in {NoFile, file}

\* What is heard with moving pictures is the sound of their file.
RightSound == audioOn /\ sound # NoFile /\ video = "PLAYING" => sound = file

\* Picture and sound come from the file the player believes open.
RightSource == RightFile /\ RightSound

\* A search left unfinished would make every later search and play fail
\* ("that's bad!", ldp.cpp:200): no call comes back to the main script with one.
SettledAtReturn == stack = <<>> => status # "SEARCHING"

\* The player is the deck that ldp.h describes.
Deck == INSTANCE Deck WITH frame <- cur, goal <- tryF
ImplementsDeck == Deck!Spec

\* Every call of the script returns.
CallsReturn == stack # <<>> ~> stack = <<>>
=============================================================================
