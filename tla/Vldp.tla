-------------------------------- MODULE Vldp --------------------------------
(***************************************************************************)
(* The virtual laserdisc player (src/src/vldp2): the parent thread calls   *)
(* the API of vldp.c, the private thread runs idle_handler of              *)
(* vldp_internal.c and draws pictures through null_draw_frame.  The two    *)
(* share one request byte (a command and a count), one acknowledgement     *)
(* counter, one status word and the request's parameters, without a lock.  *)
(*                                                                         *)
(* Kept: every write of a shared word and every command poll, in the order *)
(* of the code.  Abstracted: which picture comes next (only whether it is  *)
(* the one a search or a skip asked for), and elapsed time (a wait may     *)
(* expire).  Frame arithmetic and multi-speed playback are not here.       *)
(*                                                                         *)
(* A definition introduced as "Fault" is a plausible bug in the definition *)
(* after it; it is not part of the specification.                          *)
(***************************************************************************)
EXTENDS Naturals

CONSTANTS
  Frames,     \* frame numbers a search or a skip may ask for
  NoFrame,    \* a picture no search or skip asked for
  CountMod,   \* values of the count in the request byte (16 in the code)
  AckMod,     \* values of g_ack_count (2^32 in the code)
  MaxMisses,  \* bound: calls in a row that may go without an answer
  Prompt      \* TRUE: a command the private thread will answer, it answers
              \* within VLDP_TIMEOUT; FALSE: it may be arbitrarily slow

ASSUME NoFrameAssumption == NoFrame \notin Frames
ASSUME CountAssumption == /\ CountMod \in Nat /\ AckMod \in Nat
                          /\ CountMod > 1 /\ AckMod > 1
ASSUME MissesAssumption == MaxMisses \in Nat
ASSUME PromptAssumption == Prompt \in BOOLEAN

VARIABLES
  req,       \* g_req_cmdORcount: the command and its count
  reqFrame,  \* g_req_frame
  ack,       \* g_ack_count
  status,    \* g_out_info.status
  at,        \* parent: where it is in vldp.c
  want,      \* parent: the status the current call waits for, or "NONE"
  oldAck,    \* parent: old_ack_count, static in vldp_cmd
  cmdOk,     \* parent: what the last vldp_cmd returned
  res,       \* parent: what the last API call returned
  held,      \* parent: a lock was granted and not yet given back
  misses,    \* parent: calls since the last acknowledged one
  pc,        \* private thread: where it is
  dest,      \* private thread: where it goes after ivldp_ack_command
  back,      \* private thread: where it goes when unlocked
  sOld,      \* s_old_req_cmdORcount
  paused,    \* s_paused
  skipAll,   \* s_skip_all
  stepFwd,   \* s_step_forward
  fileOpen,  \* io_is_open()
  next,      \* frame the next drawn picture stands for
  hand,      \* frame of the picture null_draw_frame holds
  due        \* the time to display the picture has come

shared  == <<req, reqFrame, ack, status>>
parent  == <<at, want, oldAck, cmdOk, res, held, misses>>
flow    == <<pc, dest, back, sOld>>
picture == <<next, hand, due>>
private == <<flow, paused, skipAll, stepFwd, fileOpen, picture>>
vars    == <<shared, parent, private>>

Cmds == {"OPEN", "PRECACHE", "SEARCH", "SKIP", "PLAY", "PAUSE",
         "STEP_FORWARD", "SPEEDCHANGE", "LOCK", "UNLOCK", "QUIT"}
Stats == {"ERROR", "BUSY", "STOPPED", "PLAYING", "PAUSED"}

\* The default case of idle_handler's switch: neither handled nor acknowledged.
IdleIgnored == {"STEP_FORWARD", "SPEEDCHANGE", "UNLOCK"}

\* The next value of an unsigned counter of n values.
Inc(c, n) == IF c + 1 = n THEN 0 ELSE c + 1

got == req # sOld     \* ivldp_got_new_command

Requests == [cmd : Cmds \cup {"NONE"}, count : 0 .. CountMod - 1]

ChannelType ==
  /\ req \in Requests /\ sOld \in Requests
  /\ reqFrame \in Frames \cup {NoFrame}
  /\ ack \in 0 .. AckMod - 1 /\ oldAck \in 0 .. AckMod - 1
  /\ status \in Stats

ParentType ==
  /\ at \in {"ready", "ack", "wait", "seen", "join", "gone"}
  /\ want \in Stats \cup {"NONE"}
  /\ res \in 0 .. 2 /\ misses \in 0 .. MaxMisses

PrivateType ==
  /\ pc \in {"idle", "acking", "opening", "precaching", "seeking", "render",
             "chunk", "frame", "stall", "poll", "loop", "locked", "done"}
  /\ dest \in {"idle", "opening", "precaching", "seeking", "render", "stall",
               "loop", "locked", "done"}
  /\ back \in {"idle", "loop"}
  /\ next \in Frames \cup {NoFrame} /\ hand \in Frames \cup {NoFrame}

FlagType ==
  /\ cmdOk \in BOOLEAN /\ held \in BOOLEAN
  /\ paused \in BOOLEAN /\ skipAll \in BOOLEAN /\ stepFwd \in BOOLEAN
  /\ fileOpen \in BOOLEAN /\ due \in BOOLEAN

TypeOK == ChannelType /\ ParentType /\ PrivateType /\ FlagType

\* vldp_init: the counters are CMDORCOUNT_INITIAL and ACK_COUNT_INITIAL, the
\* status is zero, STAT_ERROR, and the private thread is in its idle loop.
Init ==
  /\ req = [cmd |-> "NONE", count |-> 0] /\ sOld = req
  /\ reqFrame = NoFrame /\ ack = 0 /\ oldAck = 0 /\ status = "ERROR"
  /\ at = "ready" /\ want = "NONE" /\ cmdOk = FALSE /\ res = 0
  /\ held = FALSE /\ misses = 0
  /\ pc = "idle" /\ dest = "idle" /\ back = "idle"
  /\ paused = FALSE /\ skipAll = FALSE /\ stepFwd = FALSE /\ fileOpen = FALSE
  /\ next = NoFrame /\ hand = NoFrame /\ due = FALSE

-----------------------------------------------------------------------------
(* The parent thread: vldp.c                                               *)

\* vldp_cmd up to its loop: the count goes up, the old command is replaced.
Publish(c) == req' = [cmd |-> c, count |-> Inc(req.count, CountMod)]

\* An API function stores its parameters and enters vldp_cmd; w is the status
\* it will wait for.  A thread that was granted a lock gives it back before any
\* other call (singe::video_repaint).  A command that may go unanswered is not
\* repeated for ever (bound MaxMisses).
Call(c, w) ==
  /\ at = "ready"
  /\ held <=> c = "UNLOCK"
  /\ c \in IdleIgnored \/ ~Prompt => misses < MaxMisses
  /\ Publish(c)
  /\ at' = "ack" /\ want' = w /\ res' = 0
  /\ UNCHANGED <<ack, status, oldAck, cmdOk, held, misses, private>>

\* vldp_open (w = "NONE") and vldp_open_and_block (w = "STOPPED").
Open(w) == w \in {"NONE", "STOPPED"} /\ Call("OPEN", w) /\ UNCHANGED reqFrame

\* vldp_search (w = "NONE") and vldp_search_and_block (w = "PAUSED").
Search(f, w) ==
  /\ w \in {"NONE", "PAUSED"} /\ Call("SEARCH", w) /\ reqFrame' = f

\* vldp_skip reads the status before it asks.
Skip(f) == status = "PLAYING" /\ Call("SKIP", "NONE") /\ reqFrame' = f

Play == Call("PLAY", "PLAYING") /\ UNCHANGED reqFrame

\* vldp_precache, vldp_pause, vldp_step_forward, vldp_speedchange, vldp_lock,
\* vldp_unlock and vldp_shutdown's command.
Simple(c) ==
  /\ c \in {"PRECACHE", "PAUSE", "STEP_FORWARD", "SPEEDCHANGE", "LOCK",
            "UNLOCK", "QUIT"}
  /\ Call(c, "NONE") /\ UNCHANGED reqFrame

\* vldp_open of a missing file, vldp_skip when not playing: no command is sent.
Refuse == /\ at = "ready" /\ ~held
          /\ want' = "NONE" /\ res' = 0
          /\ UNCHANGED <<shared, at, oldAck, cmdOk, held, misses, private>>

\* vldp_cmd sees the counter move: it returns 1, and the API function goes on.
AckSeen ==
  /\ at = "ack" /\ ack # oldAck
  /\ oldAck' = ack /\ cmdOk' = TRUE /\ misses' = 0
  /\ res' = IF want = "NONE" THEN 1 ELSE 0
  /\ held' = (req.cmd = "LOCK")
  /\ at' = IF req.cmd = "QUIT" THEN "join"
           ELSE IF want = "NONE" THEN "ready" ELSE "wait"
  /\ UNCHANGED <<shared, want, private>>

\* The private thread is where it will never acknowledge the request.
Unanswerable ==
  \/ ~got /\ pc # "acking" /\ ack = oldAck
  \/ got /\ pc = "idle" /\ req.cmd \in IdleIgnored
  \/ got /\ pc = "locked" /\ req.cmd # "UNLOCK"

\* Fault: VLDP_TIMEOUT is shorter than the private thread may take.
AckTimeoutEarly ==
  /\ at = "ack" /\ req.cmd # "QUIT"
  /\ cmdOk' = FALSE /\ held' = FALSE
  /\ misses' = IF misses < MaxMisses THEN misses + 1 ELSE misses
  /\ at' = IF want \in {"PLAYING", "PAUSED"} THEN "wait" ELSE "ready"
  /\ UNCHANGED <<shared, want, oldAck, res, private>>

\* VLDP_TIMEOUT in vldp_cmd.  vldp_play and vldp_search_and_block do not look at
\* the result and wait for the status all the same; vldp_shutdown joins.
AckTimeout ==
  /\ at = "ack"
  /\ Prompt => Unanswerable
  /\ cmdOk' = FALSE /\ held' = FALSE
  /\ misses' = IF misses < MaxMisses THEN misses + 1 ELSE misses
  /\ at' = IF req.cmd = "QUIT" THEN "join"
           ELSE IF want \in {"PLAYING", "PAUSED"} THEN "wait" ELSE "ready"
  /\ UNCHANGED <<shared, want, oldAck, res, private>>

\* vldp_wait_for_status leaves its loop: the status came, or an error, or time
\* is up.
WaitEnds ==
  /\ at = "wait"
  /\ res' = IF status = want THEN 1 ELSE 0
  /\ at' = "seen"
  /\ UNCHANGED <<shared, want, oldAck, cmdOk, held, misses, private>>

\* It then reads the status again: 2 if it is busy.  vldp_open_and_block repeats
\* the wait as long as the answer is 2.
WaitReturns ==
  /\ at = "seen"
  /\ res' = IF status = "BUSY" THEN 2 ELSE res
  /\ at' = IF status = "BUSY" /\ want = "STOPPED" THEN "wait" ELSE "ready"
  /\ UNCHANGED <<shared, want, oldAck, cmdOk, held, misses, private>>

\* SDL_WaitThread in vldp_shutdown.
Join == /\ at = "join" /\ pc = "done"
        /\ at' = "gone"
        /\ UNCHANGED <<shared, want, oldAck, cmdOk, res, held, misses, private>>

ParentStep ==
  \/ \E w \in {"NONE", "STOPPED"} : Open(w)
  \/ \E f \in Frames, w \in {"NONE", "PAUSED"} : Search(f, w)
  \/ \E f \in Frames : Skip(f)
  \/ Play
  \/ \E c \in Cmds : Simple(c)
  \/ Refuse
  \/ AckSeen \/ AckTimeout \/ WaitEnds \/ WaitReturns \/ Join

-----------------------------------------------------------------------------
(* The private thread: vldp_internal.c and video_out_null.c                *)

\* A handler is about to call ivldp_ack_command and then to go on at d.
Respond(d) == pc' = "acking" /\ dest' = d

\* Fault: the counter moves but the request is not remembered.
AckForgets ==
  /\ pc = "acking"
  /\ ack' = Inc(ack, AckMod)
  /\ pc' = dest /\ dest' = "idle"
  /\ UNCHANGED <<req, reqFrame, status, parent, back, sOld, paused, skipAll,
                 stepFwd, fileOpen, picture>>

\* ivldp_ack_command: it takes the request byte as it is now for the one it
\* acknowledges.
Ack ==
  /\ pc = "acking"
  /\ sOld' = req /\ ack' = Inc(ack, AckMod)
  /\ pc' = dest /\ dest' = "idle"
  /\ UNCHANGED <<req, reqFrame, status, parent, back, paused, skipAll, stepFwd,
                 fileOpen, picture>>

\* A command found by the idle loop: the handler copies the parameters and sets
\* the status before it acknowledges.
Idle(c) == pc = "idle" /\ got /\ req.cmd = c

IdleQuit ==
  /\ Idle("QUIT") /\ Respond("done")
  /\ status' = "ERROR" /\ fileOpen' = FALSE
  /\ UNCHANGED <<req, reqFrame, ack, parent, back, sOld, paused, skipAll,
                 stepFwd, picture>>

\* Fault: busy only after the acknowledgement.
IdleOpenLate ==
  /\ \/ Idle("OPEN") /\ Respond("opening")
     \/ Idle("PRECACHE") /\ Respond("precaching")
  /\ UNCHANGED <<shared, parent, back, sOld, paused, skipAll, stepFwd, fileOpen,
                 picture>>

IdleOpen ==
  /\ \/ Idle("OPEN") /\ Respond("opening")
     \/ Idle("PRECACHE") /\ Respond("precaching")
  /\ status' = "BUSY"
  /\ UNCHANGED <<req, reqFrame, ack, parent, back, sOld, paused, skipAll,
                 stepFwd, fileOpen, picture>>

IdlePlay ==
  /\ Idle("PLAY") /\ Respond("render")
  /\ status' = "PLAYING" /\ paused' = FALSE
  /\ UNCHANGED <<req, reqFrame, ack, parent, back, sOld, skipAll, stepFwd,
                 fileOpen, picture>>

\* idle_handler_search(0) turns busy; idle_handler_search(1), a skip, leaves the
\* status alone.
IdleSearch ==
  /\ \/ Idle("SEARCH") /\ status' = "BUSY" /\ paused' = TRUE
     \/ Idle("SKIP") /\ paused' = FALSE /\ UNCHANGED status
  /\ Respond("seeking") /\ next' = reqFrame
  /\ UNCHANGED <<req, reqFrame, ack, parent, back, sOld, skipAll, stepFwd,
                 fileOpen, hand, due>>

\* Fault: the status says error, and the acknowledgement is forgotten.
IdlePauseSilent ==
  /\ Idle("PAUSE") /\ status' = "ERROR"
  /\ UNCHANGED <<req, reqFrame, ack, parent, flow, paused, skipAll, stepFwd,
                 fileOpen, picture>>

IdlePause ==
  /\ Idle("PAUSE") /\ Respond("idle") /\ status' = "ERROR"
  /\ UNCHANGED <<req, reqFrame, ack, parent, back, sOld, paused, skipAll,
                 stepFwd, fileOpen, picture>>

IdleLock ==
  /\ Idle("LOCK") /\ Respond("locked") /\ back' = "idle"
  /\ UNCHANGED <<shared, parent, sOld, paused, skipAll, stepFwd, fileOpen,
                 picture>>

\* ivldp_lock_handler waits for the unlock and for nothing else.
Unlock ==
  /\ pc = "locked" /\ got /\ req.cmd = "UNLOCK"
  /\ Respond(back) /\ back' = "idle"
  /\ UNCHANGED <<shared, parent, sOld, paused, skipAll, stepFwd,
                 fileOpen, picture>>

\* idle_handler_open after its acknowledgement: the file opens, or it is
\* missing, has a bad header or does not parse.
Opened(ok) ==
  /\ pc = "opening" /\ pc' = "idle"
  /\ fileOpen' = ok /\ status' = IF ok THEN "STOPPED" ELSE "ERROR"
  /\ next' = NoFrame
  /\ UNCHANGED <<req, reqFrame, ack, parent, dest, back, sOld, paused, skipAll,
                 stepFwd, hand, due>>

Precached(ok) ==
  /\ pc = "precaching" /\ pc' = "idle"
  /\ status' = IF ok THEN "STOPPED" ELSE "ERROR"
  /\ UNCHANGED <<req, reqFrame, ack, parent, dest, back, sOld, paused, skipAll,
                 stepFwd, fileOpen, picture>>

\* Fault: nothing is reported when no file is open.
RenderSilent ==
  /\ pc \in {"render", "seeking"}
  /\ skipAll' = FALSE
  /\ pc' = IF fileOpen THEN "chunk" ELSE "idle"
  /\ UNCHANGED <<shared, parent, dest, back, sOld, paused, stepFwd, fileOpen,
                 picture>>

\* ivldp_render begins, after a play or after a seek within bounds.
Render ==
  /\ pc \in {"render", "seeking"}
  /\ skipAll' = FALSE
  /\ pc' = IF fileOpen THEN "chunk" ELSE "idle"
  /\ status' = IF fileOpen THEN status ELSE "ERROR"
  /\ UNCHANGED <<req, reqFrame, ack, parent, dest, back, sOld, paused, stepFwd,
                 fileOpen, picture>>

OutOfBounds ==
  /\ pc = "seeking" /\ pc' = "idle" /\ status' = "ERROR"
  /\ UNCHANGED <<req, reqFrame, ack, parent, dest, back, sOld, paused, skipAll,
                 stepFwd, fileOpen, picture>>

\* decode_mpeg2 reaches a picture that is neither decoded only to be skipped nor
\* dropped because of s_skip_all.
Picture ==
  /\ pc = "chunk" /\ ~skipAll /\ pc' = "frame"
  /\ hand' = next /\ next' = NoFrame
  /\ UNCHANGED <<shared, parent, dest, back, sOld, paused, skipAll, stepFwd,
                 fileOpen, due>>

\* A chunk of the stream is used up, the last one (eof) or not, and a command
\* that ends the rendering is there.
ChunkAbort(eof) ==
  /\ pc = "chunk" /\ got /\ req.cmd \in {"QUIT", "OPEN", "SEARCH", "SKIP"}
  /\ pc' = "idle"
  /\ status' = IF req.cmd # "SKIP" THEN "BUSY"
               ELSE IF eof THEN "STOPPED" ELSE status
  /\ next' = NoFrame /\ hand' = NoFrame
  /\ UNCHANGED <<req, reqFrame, ack, parent, dest, back, sOld, paused, skipAll,
                 stepFwd, fileOpen, due>>

\* Fault: nothing is reported at the end of the file.
ChunkEofSilent ==
  /\ pc = "chunk" /\ ~(got /\ req.cmd \in {"QUIT", "OPEN", "SEARCH", "SKIP"})
  /\ pc' = "idle"
  /\ next' = NoFrame /\ hand' = NoFrame
  /\ UNCHANGED <<shared, parent, dest, back, sOld, paused, skipAll, stepFwd,
                 fileOpen, due>>

\* The last chunk is used up and no such command is there.
ChunkEof ==
  /\ pc = "chunk" /\ ~(got /\ req.cmd \in {"QUIT", "OPEN", "SEARCH", "SKIP"})
  /\ pc' = "idle" /\ status' = "STOPPED"
  /\ next' = NoFrame /\ hand' = NoFrame
  /\ UNCHANGED <<req, reqFrame, ack, parent, dest, back, sOld, paused, skipAll,
                 stepFwd, fileOpen, due>>

\* The top of null_draw_frame's loop: the picture is dropped (too late, or
\* prepare_frame failed) or waits for its time, which may have come already.
Frame ==
  /\ pc = "frame"
  /\ \/ pc' = "poll" /\ UNCHANGED due
     \/ pc' = "stall" /\ due' \in BOOLEAN
  /\ UNCHANGED <<shared, parent, dest, back, sOld, paused, skipAll, stepFwd,
                 fileOpen, next, hand>>

\* Fault: a lock is acknowledged like a pause, without parking the thread.
StallCmdLocks ==
  /\ pc = "stall" /\ got
  /\ IF req.cmd \in {"PAUSE", "STEP_FORWARD", "SPEEDCHANGE", "LOCK"}
       THEN Respond("stall") /\ UNCHANGED due
       ELSE pc' = "poll" /\ due' = FALSE /\ UNCHANGED dest
  /\ paused' = (paused \/ req.cmd \in {"PAUSE", "STEP_FORWARD"})
  /\ stepFwd' = (stepFwd \/ req.cmd = "STEP_FORWARD")
  /\ UNCHANGED <<shared, parent, back, sOld, skipAll, fileOpen, next, hand>>

\* Fault: a search is acknowledged at once instead of ending the wait.
StallCmdSearches ==
  /\ pc = "stall" /\ got
  /\ IF req.cmd \in {"PAUSE", "STEP_FORWARD", "SPEEDCHANGE", "SEARCH"}
       THEN Respond("stall") /\ UNCHANGED due
       ELSE pc' = "poll" /\ due' = FALSE /\ UNCHANGED dest
  /\ paused' = (paused \/ req.cmd \in {"PAUSE", "STEP_FORWARD"})
  /\ stepFwd' = (stepFwd \/ req.cmd = "STEP_FORWARD")
  /\ UNCHANGED <<shared, parent, back, sOld, skipAll, fileOpen, next, hand>>

\* A command while the picture waits: a pause, a step or a speed change is
\* answered on the spot, any other one ends the wait and the picture is not
\* shown.
StallCmd ==
  /\ pc = "stall" /\ got
  /\ IF req.cmd \in {"PAUSE", "STEP_FORWARD", "SPEEDCHANGE"}
       THEN Respond("stall") /\ UNCHANGED due
       ELSE pc' = "poll" /\ due' = FALSE /\ UNCHANGED dest
  /\ paused' = (paused \/ req.cmd \in {"PAUSE", "STEP_FORWARD"})
  /\ stepFwd' = (stepFwd \/ req.cmd = "STEP_FORWARD")
  /\ UNCHANGED <<shared, parent, back, sOld, skipAll, fileOpen, next, hand>>

\* The picture's time comes and it is displayed.  uMsTimer is advanced by the
\* parent, which is then outside vldp.c.
StallExpires ==
  /\ pc = "stall" /\ (due \/ at = "ready")
  /\ pc' = "poll" /\ due' = FALSE
  /\ UNCHANGED <<shared, parent, dest, back, sOld, paused, skipAll, stepFwd,
                 fileOpen, next, hand>>

\* paused_handler
PausedPoll ==
  /\ pc = "poll" /\ paused
  /\ \/ ~got /\ pc' = "loop" /\ status' = "PAUSED"
        /\ UNCHANGED <<dest, back, paused, skipAll, stepFwd>>
     \/ got /\ req.cmd = "PLAY" /\ Respond("loop")
        /\ status' = "PLAYING" /\ paused' = FALSE
        /\ UNCHANGED <<back, skipAll, stepFwd>>
     \/ got /\ req.cmd \in {"QUIT", "OPEN", "SEARCH"} /\ pc' = "loop"
        /\ status' = "PAUSED" /\ skipAll' = TRUE
        /\ UNCHANGED <<dest, back, paused, stepFwd>>
     \/ got /\ req.cmd = "LOCK" /\ Respond("locked") /\ back' = "loop"
        /\ status' = "PAUSED" /\ UNCHANGED <<paused, skipAll, stepFwd>>
     \/ got /\ req.cmd \notin {"PLAY", "QUIT", "OPEN", "SEARCH", "LOCK"}
        /\ Respond("loop")
        /\ status' = "PAUSED" /\ stepFwd' = (stepFwd \/ req.cmd = "STEP_FORWARD")
        /\ UNCHANGED <<back, paused, skipAll>>
  /\ UNCHANGED <<req, reqFrame, ack, parent, sOld, fileOpen, picture>>

\* play_handler
PlayPoll ==
  /\ pc = "poll" /\ ~paused
  /\ \/ ~got /\ pc' = "loop" /\ UNCHANGED <<dest, back, paused, skipAll, stepFwd>>
     \/ got /\ req.cmd \in {"PAUSE", "STEP_FORWARD"} /\ Respond("loop")
        /\ paused' = TRUE /\ stepFwd' = (stepFwd \/ req.cmd = "STEP_FORWARD")
        /\ UNCHANGED <<back, skipAll>>
     \/ got /\ req.cmd \in {"QUIT", "OPEN", "SEARCH", "SKIP"} /\ pc' = "loop"
        /\ skipAll' = TRUE /\ UNCHANGED <<dest, back, paused, stepFwd>>
     \/ got /\ req.cmd = "LOCK" /\ Respond("locked") /\ back' = "loop"
        /\ UNCHANGED <<paused, skipAll, stepFwd>>
     \/ got /\ req.cmd \in {"SPEEDCHANGE", "PLAY", "PRECACHE", "UNLOCK"}
        /\ Respond("loop") /\ UNCHANGED <<back, paused, skipAll, stepFwd>>
  /\ UNCHANGED <<shared, parent, sOld, fileOpen, picture>>

\* The end of null_draw_frame's loop: a paused picture is drawn again.
Loop ==
  /\ pc = "loop"
  /\ IF paused /\ ~skipAll /\ ~stepFwd
       THEN pc' = "frame" /\ UNCHANGED stepFwd
       ELSE pc' = "chunk" /\ stepFwd' = FALSE
  /\ UNCHANGED <<shared, parent, dest, back, sOld, paused, skipAll, fileOpen,
                 picture>>

PrivateStep ==
  \/ Ack
  \/ IdleQuit \/ IdleOpen \/ IdlePlay \/ IdleSearch \/ IdlePause \/ IdleLock
  \/ Unlock
  \/ \E ok \in BOOLEAN : Opened(ok) \/ Precached(ok)
  \/ Render \/ OutOfBounds
  \/ Picture \/ \E eof \in BOOLEAN : ChunkAbort(eof)
  \/ ChunkEof
  \/ Frame \/ StallCmd \/ StallExpires \/ PausedPoll \/ PlayPoll \/ Loop

\* After vldp_shutdown nothing is left to do.
Terminated == at = "gone" /\ UNCHANGED vars

Next == ParentStep \/ PrivateStep \/ Terminated

Spec == Init /\ [][Next]_vars

\* The private thread is never starved by the scheduler; a call of the parent
\* that has begun goes on, but nothing makes the parent call again.  Between its
\* calls the parent advances uMsTimer (ldp_vldp::think), so a picture that waits
\* cannot be kept waiting by an unending series of calls: StallExpires is
\* strongly fair.
ParentGoesOn == AckSeen \/ AckTimeout \/ WaitEnds \/ WaitReturns \/ Join
FairSpec == /\ Spec
            /\ WF_vars(PrivateStep) /\ SF_vars(StallExpires)
            /\ WF_vars(ParentGoesOn)
-----------------------------------------------------------------------------
(* Properties                                                              *)

\* "returns 1 if the internal thread acknowledged our command" (vldp.c:58):
\* when vldp_cmd has returned 1, the request byte the private thread accepted
\* last is the one the parent sent.
AckedMeansAccepted == cmdOk /\ at # "ack" => sOld = req

\* Why the two-counter handshake works when the private thread is prompt: a call
\* is in one of three phases (sent, being acknowledged, taken), and a request
\* left behind by a call that gave up is one the thread will never answer.
Dead == \/ pc = "idle" /\ req.cmd \in IdleIgnored
        \/ pc = "locked" /\ req.cmd # "UNLOCK"

Handshake ==
  /\ at = "ack" => \/ ack = oldAck
                   \/ ack = Inc(oldAck, AckMod) /\ ~got /\ pc # "acking"
  /\ at # "ack" => ack = oldAck /\ (got => Dead)
  /\ pc = "acking" => /\ at = "ack" /\ ack = oldAck
                      /\ req.cmd = "LOCK" => dest = "locked"
  /\ at = "ack" /\ ack # oldAck /\ req.cmd = "LOCK" => pc = "locked"

\* The command channel that vldp_cmd and ivldp_ack_command implement together.
Channel == INSTANCE CmdChannel WITH
  Commands <- Cmds,
  phase <- IF at # "ack" THEN "free" ELSE IF ack = oldAck THEN "sent" ELSE "taken",
  asked <- req.cmd,
  accepted <- sOld.cmd,
  ok <- cmdOk

\* vldp_cmd "returns 1 if the internal thread acknowledged our command or 0 if we
\* timed out" (vldp.c:58-60): each command is taken at most once, confirmed only
\* when it was taken, and never taken after its caller gave up.
ImplementsChannel == Channel!Spec

\* A parent that was granted the overlay lock has the private thread parked in
\* ivldp_lock_handler: nothing is drawn while the overlay is being recreated.
LockExcludes == held /\ at = "ready" => pc = "locked"

\* Once a search was acknowledged, a status of PAUSED is never left over from an
\* earlier still frame: it means that the picture held is the requested one.
\* ("status must be changed before acknowledging command", vldp_internal.c:857)
SearchFresh ==
  at # "ack" /\ cmdOk /\ req.cmd = "SEARCH" /\ status = "PAUSED"
    => paused /\ hand = reqFrame

\* vldp_open_and_block "returns 1 if status is STAT_STOPPED" (vldp.h:106): the
\* STOPPED it saw is the new file's, and the file is open.
OpenAndBlockTruthful ==
  at = "ready" /\ req.cmd = "OPEN" /\ want = "STOPPED" /\ res = 1 => fileOpen

\* The status never says that video rolls, is held or is being looked for when
\* the private thread sits in its idle loop with nothing to do.
IdleStatus ==
  pc = "idle" => \/ status \in {"ERROR", "STOPPED"}
                 \/ got /\ req.cmd \notin IdleIgnored

\* A status of PAUSED is backed by a thread that holds a picture, or that is
\* leaving it: one step forward, or for a command it has already seen.
PausedIsHeld ==
  status = "PAUSED" =>
    paused /\ pc \in {"chunk", "frame", "stall", "poll", "loop", "acking", "locked"}

\* What the status says of the private thread is true, whichever command cut short
\* what it was doing (vldp_internal.c:775).
StatusHonest == IdleStatus /\ PausedIsHeld

\* Every command but the three that an idle thread ignores is acknowledged, and
\* vldp_cmd returns 1 (vldp.c:62), whatever the private thread is doing; and
\* vldp_shutdown returns, as the thread it joins does terminate.
CommandsAnswered ==
  /\ \A c \in Cmds \ IdleIgnored :
       at = "ack" /\ req.cmd = c ~> at # "ack" /\ cmdOk
  /\ at = "join" ~> at = "gone"

\* A parent that has stopped calling, to poll the status it was promised, does
\* not see STAT_BUSY for ever: every open, precache and search comes to an end
\* whatever was replaced, ignored or aborted before.
BusyEnds == <>[](at = "ready") => <>[](status # "BUSY")
=============================================================================
