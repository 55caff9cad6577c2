----------------------------- MODULE VldpProofs -----------------------------
(***************************************************************************)
(* Theorems about the command channel between vldp.c and vldp_internal.c,  *)
(* for every set of frames, every width of the two counters and every      *)
(* bound on the unanswered calls: the channel itself, its refinement, and  *)
(* the status word.                                                        *)
(***************************************************************************)
EXTENDS Vldp, TLAPS

(* A counter of n values stays below n, and moves.                         *)
LEMMA IncType ==
  ASSUME NEW n \in Nat, n > 1, NEW c \in 0 .. n - 1
  PROVE  Inc(c, n) \in 0 .. n - 1 /\ Inc(c, n) # c
BY DEF Inc

(* Type correctness of the two threads' state (vldp.c, vldp_internal.c).   *)
THEOREM TypeCorrect == Spec => []TypeOK
<1>1. Init => TypeOK
  <2> SUFFICES ASSUME Init PROVE TypeOK
    OBVIOUS
  <2>1. 0 \in 0 .. CountMod - 1 /\ 0 \in 0 .. AckMod - 1 /\ 0 \in 0 .. MaxMisses
    BY CountAssumption, MissesAssumption
  <2>2. ChannelType
    BY <2>1 DEF Init, ChannelType, Stats, Requests
  <2>3. ParentType
    BY <2>1 DEF Init, ParentType
  <2>4. PrivateType
    BY DEF Init, PrivateType
  <2>5. FlagType
    BY DEF Init, FlagType
  <2> QED BY <2>2, <2>3, <2>4, <2>5 DEF TypeOK
<1>2. TypeOK /\ [Next]_vars => TypeOK'
  <2> SUFFICES ASSUME TypeOK, [Next]_vars
               PROVE  TypeOK'
    OBVIOUS
  <2> USE CountAssumption, MissesAssumption DEF TypeOK, ChannelType, ParentType, PrivateType, FlagType, Requests
  <2>1. ASSUME NEW c \in Cmds, NEW w \in Stats \cup {"NONE"}, Call(c, w),
               reqFrame' \in Frames \cup {NoFrame}
        PROVE  TypeOK'
    <3>1. req'.count \in 0 .. CountMod - 1
      BY <2>1, IncType DEF Call, Publish
    <3>2. req' \in [cmd : Cmds \cup {"NONE"}, count : 0 .. CountMod - 1]
      BY <2>1, <3>1 DEF Call, Publish
    <3> QED BY <2>1, <3>2 DEF Call, private, flow, picture
  <2>2. ASSUME ParentStep PROVE TypeOK'
    <3>1. ASSUME NEW w \in {"NONE", "STOPPED"}, Open(w) PROVE TypeOK'
      BY <3>1, <2>1 DEF Open, Cmds, Stats
    <3>2. ASSUME NEW f \in Frames, NEW w \in {"NONE", "PAUSED"}, Search(f, w)
          PROVE  TypeOK'
      BY <3>2, <2>1 DEF Search, Cmds, Stats
    <3>3. ASSUME NEW f \in Frames, Skip(f) PROVE TypeOK'
      BY <3>3, <2>1 DEF Skip, Cmds, Stats
    <3>4. CASE Play
      BY <3>4, <2>1 DEF Play, Cmds, Stats
    <3>5. ASSUME NEW c \in Cmds, Simple(c) PROVE TypeOK'
      BY <3>5, <2>1 DEF Simple, Stats
    <3>6. CASE Refuse
      BY <3>6 DEF Refuse, shared, private, flow, picture
    <3>7. CASE AckSeen
      BY <3>7 DEF AckSeen, shared, private, flow, picture
    <3>8. CASE AckTimeout
      <4>1. ChannelType'
        BY <3>8 DEF AckTimeout, shared, private, flow, picture
      <4>2. ParentType'
        BY <3>8 DEF AckTimeout, shared, private, flow, picture
      <4>3. PrivateType'
        BY <3>8 DEF AckTimeout, shared, private, flow, picture
      <4>4. FlagType'
        BY <3>8 DEF AckTimeout, shared, private, flow, picture
      <4> QED BY <4>1, <4>2, <4>3, <4>4
    <3>9. CASE WaitEnds
      BY <3>9 DEF WaitEnds, shared, private, flow, picture
    <3>10. CASE WaitReturns
      BY <3>10 DEF WaitReturns, shared, private, flow, picture
    <3>11. CASE Join
      BY <3>11 DEF Join, shared, private, flow, picture
    <3> QED BY <2>2, <3>1, <3>2, <3>3, <3>4, <3>5, <3>6, <3>7, <3>8, <3>9,
               <3>10, <3>11 DEF ParentStep
  <2>3. ASSUME PrivateStep PROVE TypeOK'
    <3> USE DEF shared, parent, picture, Stats, Respond, Idle
    <3>1. CASE Ack
      BY <3>1, IncType DEF Ack
    <3>2. CASE IdleQuit \/ IdleOpen \/ IdlePlay \/ IdlePause \/ IdleLock
      <4>1. ChannelType'
        BY <3>2 DEF IdleQuit, IdleOpen, IdlePlay, IdlePause, IdleLock
      <4>2. ParentType'
        BY <3>2 DEF IdleQuit, IdleOpen, IdlePlay, IdlePause, IdleLock
      <4>3. PrivateType'
        BY <3>2 DEF IdleQuit, IdleOpen, IdlePlay, IdlePause, IdleLock
      <4>4. FlagType'
        BY <3>2 DEF IdleQuit, IdleOpen, IdlePlay, IdlePause, IdleLock
      <4> QED BY <4>1, <4>2, <4>3, <4>4
    <3>3. CASE IdleSearch
      <4>1. ChannelType'
        BY <3>3 DEF IdleSearch
      <4>2. ParentType'
        BY <3>3 DEF IdleSearch
      <4>3. PrivateType'
        BY <3>3 DEF IdleSearch
      <4>4. FlagType'
        BY <3>3 DEF IdleSearch
      <4> QED BY <4>1, <4>2, <4>3, <4>4
    <3>4. CASE Unlock
      BY <3>4 DEF Unlock
    <3>5. ASSUME NEW ok \in BOOLEAN, Opened(ok) \/ Precached(ok) PROVE TypeOK'
      BY <3>5 DEF Opened, Precached
    <3>6. CASE Render \/ OutOfBounds
      <4>1. ChannelType'
        BY <3>6 DEF Render, OutOfBounds
      <4>2. ParentType'
        BY <3>6 DEF Render, OutOfBounds
      <4>3. PrivateType'
        BY <3>6 DEF Render, OutOfBounds
      <4>4. FlagType'
        BY <3>6 DEF Render, OutOfBounds
      <4> QED BY <4>1, <4>2, <4>3, <4>4
    <3>7. CASE Picture
      BY <3>7 DEF Picture
    <3>8. ASSUME NEW eof \in BOOLEAN, ChunkAbort(eof) PROVE TypeOK'
      BY <3>8 DEF ChunkAbort
    <3>9. CASE ChunkEof
      BY <3>9 DEF ChunkEof
    <3>10. CASE Frame
      BY <3>10 DEF Frame
    <3>11. CASE StallCmd
      <4>1. ChannelType'
        BY <3>11 DEF StallCmd
      <4>2. ParentType'
        BY <3>11 DEF StallCmd
      <4>3. PrivateType'
        BY <3>11 DEF StallCmd
      <4>4. FlagType'
        BY <3>11 DEF StallCmd
      <4> QED BY <4>1, <4>2, <4>3, <4>4
    <3>12. CASE StallExpires
      <4>1. ChannelType'
        BY <3>12 DEF StallExpires
      <4>2. ParentType'
        BY <3>12 DEF StallExpires
      <4>3. PrivateType'
        BY <3>12 DEF StallExpires
      <4>4. FlagType'
        BY <3>12 DEF StallExpires
      <4> QED BY <4>1, <4>2, <4>3, <4>4
    <3>13. CASE PausedPoll
      <4>1. ChannelType'
        BY <3>13 DEF PausedPoll
      <4>2. ParentType'
        BY <3>13 DEF PausedPoll
      <4>3. PrivateType'
        BY <3>13 DEF PausedPoll
      <4>4. FlagType'
        BY <3>13 DEF PausedPoll
      <4> QED BY <4>1, <4>2, <4>3, <4>4
    <3>14. CASE PlayPoll
      <4>1. ChannelType'
        BY <3>14 DEF PlayPoll
      <4>2. ParentType'
        BY <3>14 DEF PlayPoll
      <4>3. PrivateType'
        BY <3>14 DEF PlayPoll
      <4>4. FlagType'
        BY <3>14 DEF PlayPoll
      <4> QED BY <4>1, <4>2, <4>3, <4>4
    <3>15. CASE Loop
      <4>1. ChannelType'
        BY <3>15 DEF Loop
      <4>2. ParentType'
        BY <3>15 DEF Loop
      <4>3. PrivateType'
        BY <3>15 DEF Loop
      <4>4. FlagType'
        BY <3>15 DEF Loop
      <4> QED BY <4>1, <4>2, <4>3, <4>4
    <3> QED BY <2>3, <3>1, <3>2, <3>3, <3>4, <3>5, <3>6, <3>7, <3>8, <3>9,
               <3>10, <3>11, <3>12, <3>13, <3>14, <3>15 DEF PrivateStep
  <2>4. CASE UNCHANGED vars
    BY <2>4 DEF vars, shared, parent, private, flow, picture
  <2> QED BY <2>2, <2>3, <2>4 DEF Next, Terminated
<1> QED BY <1>1, <1>2, PTL DEF Spec

-----------------------------------------------------------------------------
(* Apart from its acknowledgement, the private thread writes nothing of the *)
(* handshake, and it comes to acknowledge only a command that is there; a   *)
(* lock it acknowledges parks it.                                           *)
LEMMA PrivateKeepsHandshake ==
  ASSUME PrivateStep, ~Ack
  PROVE  /\ UNCHANGED <<req, ack, sOld, parent>>
         /\ pc' = "acking" => got /\ (req.cmd = "LOCK" => dest' = "locked")
         /\ pc = "locked" => req.cmd = "UNLOCK" /\ got
         /\ ~(pc = "idle" /\ req.cmd \in IdleIgnored)
<1> USE DEF shared, Respond, Idle, IdleIgnored
<1>1. CASE IdleQuit \/ IdleOpen \/ IdlePlay \/ IdlePause
  BY <1>1 DEF IdleQuit, IdleOpen, IdlePlay, IdlePause
<1>2. CASE IdleSearch \/ IdleLock \/ Unlock
  BY <1>2 DEF IdleSearch, IdleLock, Unlock
<1>3. ASSUME NEW ok \in BOOLEAN, Opened(ok) \/ Precached(ok)
      PROVE  /\ UNCHANGED <<req, ack, sOld, parent>>
             /\ pc \notin {"locked", "idle"} /\ pc' # "acking"
  BY <1>3 DEF Opened, Precached
<1>4. CASE Render \/ OutOfBounds \/ Picture \/ ChunkEof
  BY <1>4 DEF Render, OutOfBounds, Picture, ChunkEof
<1>5. ASSUME NEW eof \in BOOLEAN, ChunkAbort(eof)
      PROVE  /\ UNCHANGED <<req, ack, sOld, parent>>
             /\ pc \notin {"locked", "idle"} /\ pc' # "acking"
  BY <1>5 DEF ChunkAbort
<1>6. CASE Frame \/ StallExpires \/ Loop
  BY <1>6 DEF Frame, StallExpires, Loop
<1>7. CASE StallCmd
  BY <1>7 DEF StallCmd
<1>8. CASE PausedPoll
  BY <1>8 DEF PausedPoll
<1>9. CASE PlayPoll
  BY <1>9 DEF PlayPoll
<1> QED BY <1>1, <1>2, <1>3, <1>4, <1>5, <1>6, <1>7, <1>8, <1>9 DEF PrivateStep

(* A call enters vldp_cmd with nothing of the handshake under way.         *)
LEMMA CallKeepsHandshake ==
  ASSUME Handshake, NEW c, NEW w, Call(c, w)
  PROVE  Handshake'
<1>1. at = "ready" /\ at' = "ack" /\ pc # "acking" /\ ack = oldAck
  BY DEF Call, Handshake
<1>2. UNCHANGED <<ack, oldAck, pc>>
  BY DEF Call, private, flow
<1> QED BY <1>1, <1>2 DEF Handshake

\* What the parent thread does keeps the handshake.
LEMMA ParentKeepsHandshake ==
  ASSUME TypeOK, Prompt, Handshake, ParentStep
  PROVE  Handshake'
<1> USE DEF Handshake, private, flow, shared, got, Dead
<1>1. ASSUME NEW w \in {"NONE", "STOPPED"}, Open(w) PROVE Handshake'
  BY <1>1, CallKeepsHandshake DEF Open
<1>2. ASSUME NEW f \in Frames, NEW w \in {"NONE", "PAUSED"}, Search(f, w)
      PROVE  Handshake'
  BY <1>2, CallKeepsHandshake DEF Search
<1>3. ASSUME NEW f \in Frames, Skip(f) PROVE Handshake'
  BY <1>3, CallKeepsHandshake DEF Skip
<1>4. CASE Play
  BY <1>4, CallKeepsHandshake DEF Play
<1>5. ASSUME NEW c \in Cmds, Simple(c) PROVE Handshake'
  BY <1>5, CallKeepsHandshake DEF Simple
<1>6. CASE Refuse
  BY <1>6 DEF Refuse
<1>7. CASE AckSeen
  BY <1>7 DEF AckSeen
<1>8. CASE AckTimeout
  BY <1>8 DEF AckTimeout, Unanswerable
<1>9. CASE WaitEnds \/ WaitReturns \/ Join
  BY <1>9 DEF WaitEnds, WaitReturns, Join
<1> QED BY <1>1, <1>2, <1>3, <1>4, <1>5, <1>6, <1>7, <1>8, <1>9 DEF ParentStep

\* What the private thread does keeps the handshake.
LEMMA PrivateStepKeepsHandshake ==
  ASSUME TypeOK, Handshake, PrivateStep
  PROVE  Handshake'
<1>1. CASE Ack
  <2>1. /\ at' = "ack" /\ ack' = Inc(oldAck, AckMod) /\ ack' # oldAck'
        /\ sOld' = req' /\ oldAck' = oldAck
    BY <1>1, IncType, CountAssumption
    DEF Ack, Handshake, parent, TypeOK, ChannelType
  <2>2. pc' # "acking" /\ (req'.cmd = "LOCK" => pc' = "locked")
    BY <1>1 DEF Ack, Handshake, TypeOK, PrivateType
  <2> QED BY <2>1, <2>2 DEF Handshake, got
<1>2. CASE ~Ack
  <2>1. UNCHANGED <<req, ack, sOld, at, oldAck>>
    BY <1>2, PrivateKeepsHandshake DEF parent
  <2>2. at # "ack" => ~got
    BY <1>2, PrivateKeepsHandshake DEF Handshake, Dead
  <2>3. at = "ack" /\ ack # oldAck => pc' # "acking" /\ pc # "locked"
    BY <1>2, PrivateKeepsHandshake DEF Handshake
  <2>4. pc' = "acking" => at = "ack" /\ ack = oldAck
                          /\ (req.cmd = "LOCK" => dest' = "locked")
    BY <1>2, <2>2, PrivateKeepsHandshake DEF Handshake
  <2> QED BY <2>1, <2>2, <2>3, <2>4 DEF Handshake, got
<1> QED BY <1>1, <1>2

(* The handshake of vldp_cmd (vldp.c:56-95) and ivldp_ack_command          *)
(* (vldp_internal.c:217-221) stays in one of its three phases when every   *)
(* answer that comes at all comes within VLDP_TIMEOUT.                     *)
THEOREM HandshakeCorrect ==
  ASSUME Prompt
  PROVE  Spec => []Handshake
<1>1. Init => Handshake
  BY DEF Init, Handshake, got
<1>2. TypeOK /\ Handshake /\ [Next]_vars => Handshake'
  <2> SUFFICES ASSUME TypeOK, Handshake, [Next]_vars
               PROVE  Handshake'
    OBVIOUS
  <2>1. CASE ParentStep
    BY <2>1, ParentKeepsHandshake
  <2>2. CASE PrivateStep
    BY <2>2, PrivateStepKeepsHandshake
  <2>3. CASE UNCHANGED vars
    BY <2>3 DEF vars, shared, parent, private, flow, Handshake, got, Dead
  <2> QED BY <2>1, <2>2, <2>3 DEF Next, Terminated
<1> QED BY <1>1, <1>2, TypeCorrect, PTL DEF Spec

-----------------------------------------------------------------------------
(* Outside vldp_cmd the private thread finds no command: it leaves the      *)
(* handshake alone and, if it was locked, it stays so.                      *)
LEMMA NoCommandOutsideCall ==
  ASSUME Handshake, PrivateStep, at # "ack"
  PROVE  pc # "locked" /\ UNCHANGED <<req, sOld, parent>>
<1>1. ~Ack
  BY DEF Ack, Handshake
<1> QED BY <1>1, PrivateKeepsHandshake DEF Handshake, Dead

(* When vldp_cmd has returned 1, the private thread has accepted the very   *)
(* request that was sent (vldp.c:58).                                       *)
THEOREM AcknowledgedIsAccepted ==
  ASSUME Prompt
  PROVE  Spec => []AckedMeansAccepted
<1>1. Init => AckedMeansAccepted
  BY DEF Init, AckedMeansAccepted
<1>2. Handshake /\ AckedMeansAccepted /\ [Next]_vars => AckedMeansAccepted'
  <2> SUFFICES ASSUME Handshake, AckedMeansAccepted, [Next]_vars
               PROVE  AckedMeansAccepted'
    OBVIOUS
  <2> USE DEF AckedMeansAccepted, private, flow, shared
  <2>1. ASSUME NEW c, NEW w, Call(c, w) PROVE AckedMeansAccepted'
    BY <2>1 DEF Call
  <2>2. CASE ParentStep
    <3>1. CASE AckSeen
      BY <3>1 DEF AckSeen, Handshake, got
    <3>2. CASE AckTimeout
      BY <3>2 DEF AckTimeout
    <3>3. CASE Refuse \/ WaitEnds \/ WaitReturns \/ Join
      BY <3>3 DEF Refuse, WaitEnds, WaitReturns, Join
    <3> QED BY <2>2, <2>1, <3>1, <3>2, <3>3
            DEF ParentStep, Open, Search, Skip, Play, Simple
  <2>3. CASE PrivateStep
    <3>1. UNCHANGED <<at, cmdOk>>
      BY <2>3, PrivateKeepsHandshake DEF Ack, parent
    <3> QED BY <2>3, <3>1, NoCommandOutsideCall
  <2>4. CASE UNCHANGED vars
    BY <2>4 DEF vars, parent
  <2> QED BY <2>2, <2>3, <2>4 DEF Next, Terminated
<1> QED BY <1>1, <1>2, HandshakeCorrect, PTL DEF Spec

(* While the parent holds the overlay lock (vldp_lock returned 1 and no      *)
(* vldp_unlock followed), the private thread is parked in                    *)
(* ivldp_lock_handler (vldp_internal.c:223-253).                             *)
THEOREM LockIsExclusive ==
  ASSUME Prompt
  PROVE  Spec => []LockExcludes
<1> DEFINE Parked == held /\ at # "ack" => pc = "locked"
<1>1. Init => Parked
  BY DEF Init
<1>2. Handshake /\ Parked /\ [Next]_vars => Parked'
  <2> SUFFICES ASSUME Handshake, Parked, [Next]_vars
               PROVE  Parked'
    OBVIOUS
  <2> USE DEF private, flow, shared
  <2>1. ASSUME NEW c, NEW w, Call(c, w) PROVE Parked'
    BY <2>1 DEF Call
  <2>2. CASE ParentStep
    <3>1. CASE AckSeen
      BY <3>1 DEF AckSeen, Handshake
    <3>2. CASE AckTimeout
      BY <3>2 DEF AckTimeout
    <3>3. CASE Refuse \/ WaitEnds \/ WaitReturns \/ Join
      BY <3>3 DEF Refuse, WaitEnds, WaitReturns, Join
    <3> QED BY <2>2, <2>1, <3>1, <3>2, <3>3
            DEF ParentStep, Open, Search, Skip, Play, Simple
  <2>3. CASE PrivateStep
    <3>1. UNCHANGED <<at, held>>
      BY <2>3, PrivateKeepsHandshake DEF Ack, parent
    <3> QED BY <2>3, <3>1, NoCommandOutsideCall
  <2>4. CASE UNCHANGED vars
    BY <2>4 DEF vars, parent
  <2> QED BY <2>2, <2>3, <2>4 DEF Next, Terminated
<1>3. Parked => LockExcludes
  BY DEF LockExcludes
<1> QED BY <1>1, <1>2, <1>3, HandshakeCorrect, PTL DEF Spec

-----------------------------------------------------------------------------
(* The two threads implement the command channel that vldp_cmd promises:    *)
(* one acceptance per acknowledged command, none after a time out           *)
(* (vldp.c:58-63).                                                          *)
THEOREM Refinement ==
  ASSUME Prompt
  PROVE  Spec => ImplementsChannel
<1>1. Init => Channel!Init
  BY DEF Init, Channel!Init
<1>2. TypeOK /\ Handshake /\ [Next]_vars => [Channel!Next]_(Channel!vars)
  <2> SUFFICES ASSUME TypeOK, Handshake, [Next]_vars
               PROVE  [Channel!Next]_(Channel!vars)
    OBVIOUS
  <2> USE DEF private, flow, shared, Channel!vars
  <2>1. ASSUME NEW c \in Cmds, NEW w, Call(c, w) PROVE Channel!Send(c)
    BY <2>1 DEF Call, Publish, Channel!Send, Handshake
  <2>2. CASE ParentStep
    <3>1. CASE AckSeen
      <4>1. Channel!Confirm
        BY <3>1 DEF AckSeen, Channel!Confirm
      <4> QED BY <4>1 DEF Channel!Next
    <3>2. CASE AckTimeout
      <4>1. Channel!GiveUp
        BY <3>2 DEF AckTimeout, Unanswerable, Handshake, got, Channel!GiveUp
      <4> QED BY <4>1 DEF Channel!Next
    <3>3. CASE Refuse \/ WaitEnds \/ WaitReturns \/ Join
      BY <3>3 DEF Refuse, WaitEnds, WaitReturns, Join
    <3>4. CASE \E c \in Cmds : \E w : Call(c, w)
      BY <3>4, <2>1 DEF Channel!Next
    <3> QED BY <2>2, <3>1, <3>2, <3>3, <3>4
            DEF ParentStep, Open, Search, Skip, Play, Simple, Cmds
  <2>3. CASE PrivateStep
    <3>1. CASE Ack
      <4>1. Channel!Take
        BY <3>1, IncType, CountAssumption
        DEF Ack, Handshake, parent, TypeOK, ChannelType, Channel!Take
      <4> QED BY <4>1 DEF Channel!Next
    <3>2. CASE ~Ack
      BY <2>3, <3>2, PrivateKeepsHandshake DEF parent
    <3> QED BY <3>1, <3>2
  <2>4. CASE UNCHANGED vars
    BY <2>4 DEF vars, parent
  <2> QED BY <2>2, <2>3, <2>4 DEF Next, Terminated
<1> QED BY <1>1, <1>2, TypeCorrect, HandshakeCorrect, PTL
        DEF Spec, ImplementsChannel, Channel!Spec

-----------------------------------------------------------------------------
(* The status word: what the parent may read into it after a search, after *)
(* an open, and at any time.  It rests on Handshake and StatusInv, which   *)
(* follows a command from its acknowledgement to its end; each part of it  *)
(* says where the private thread may be, and what it has in hand there.    *)

\* The request c was taken by the private thread, and no other was published since.
Taken(c) == req.cmd = c /\ IF at = "ack" THEN ack # oldAck ELSE cmdOk

\* The private thread is locked, or is about to be.
Locks == pc = "locked" \/ (pc = "acking" /\ dest = "locked")

\* A step forward that was asked for is made before the next chunk is read.
StepPending ==
  stepFwd => \/ pc \in {"stall", "poll", "loop"}
             \/ pc = "acking" /\ dest \in {"stall", "loop"}
             \/ Locks /\ back = "loop"

\* PausedIsHeld, with where the thread will be when it has acknowledged or was
\* unlocked; a skip it would be cut short by is never pending.
Holding ==
  status = "PAUSED" =>
    /\ paused
    /\ pc \in {"chunk", "frame", "stall", "poll", "loop", "acking", "locked"}
    /\ pc = "acking" => dest \in {"stall", "loop", "locked"}
    /\ Locks => back = "loop"
    /\ got /\ req.cmd = "SKIP" => pc = "acking"

\* IdleStatus, likewise: the command that left another status is still there.
Settled == status \in {"ERROR", "STOPPED"}
Resting ==
  /\ pc = "idle" => Settled \/ (got /\ req.cmd \in {"QUIT", "OPEN", "SEARCH", "SKIP"})
  /\ pc = "acking" /\ dest = "idle" => Settled
  /\ Locks /\ back = "idle" => Settled

\* The course of a search, from the acknowledgement to the picture that is held.
Sought ==
  /\ pc = "acking" /\ req.cmd = "SEARCH" =>
       dest = "seeking" /\ paused /\ next = reqFrame /\ status = "BUSY"
  /\ Taken("SEARCH") =>
       \/ pc = "seeking" /\ paused /\ next = reqFrame /\ status = "BUSY"
       \/ pc = "chunk" /\ paused /\ ~skipAll /\ next = reqFrame /\ status = "BUSY"
       \/ /\ pc \in {"frame", "stall", "poll", "loop"} /\ paused /\ ~skipAll /\ ~stepFwd
          /\ hand = reqFrame /\ status \in {"BUSY", "PAUSED"}
       \/ pc = "idle" /\ Settled

\* The course of an open, from the acknowledgement to the answer of
\* vldp_open_and_block.
Opening ==
  /\ pc = "acking" /\ req.cmd = "OPEN" => dest = "opening" /\ status = "BUSY"
  /\ Taken("OPEN") => \/ pc = "opening" /\ status = "BUSY"
                      \/ pc = "idle" /\ Settled /\ (status = "STOPPED" => fileOpen)
  /\ at = "ack" => res = 0
  /\ at \in {"wait", "seen"} /\ want = "STOPPED" => cmdOk
  /\ at \in {"seen", "ready"} /\ req.cmd = "OPEN" /\ want = "STOPPED" /\ res = 1
       => cmdOk /\ fileOpen /\ pc = "idle"

StatusInv == StepPending /\ Holding /\ Resting /\ Sought /\ Opening

-----------------------------------------------------------------------------
(* The private thread keeps each part.  A step forward is asked for and made *)
(* inside null_draw_frame's loop.                                          *)
LEMMA StepPendingKept ==
  ASSUME TypeOK, StepPending, PrivateStep
  PROVE  StepPending'
<1> USE DEF StepPending, Locks, got, Idle, Respond, shared, parent, picture,
           TypeOK, ChannelType, ParentType, PrivateType, FlagType
<1>1. CASE Ack
  BY <1>1 DEF Ack
<1>2. CASE IdleQuit \/ IdleOpen
  BY <1>2 DEF IdleQuit, IdleOpen
<1>3. CASE IdlePlay \/ IdlePause
  BY <1>3 DEF IdlePlay, IdlePause
<1>4. CASE IdleSearch
  BY <1>4 DEF IdleSearch
<1>5. CASE IdleLock
  BY <1>5 DEF IdleLock
<1>6. CASE Unlock
  BY <1>6 DEF Unlock
<1>7. CASE Render \/ OutOfBounds
  BY <1>7 DEF Render, OutOfBounds
<1>8. CASE Picture
  BY <1>8 DEF Picture
<1>9. CASE ChunkEof
  BY <1>9 DEF ChunkEof
<1>10. CASE Frame
  BY <1>10 DEF Frame
<1>11. CASE StallCmd
  BY <1>11 DEF StallCmd
<1>12. CASE StallExpires
  BY <1>12 DEF StallExpires
<1>13. CASE PausedPoll
  BY <1>13 DEF PausedPoll
<1>14. CASE PlayPoll
  BY <1>14 DEF PlayPoll
<1>15. CASE Loop
  BY <1>15 DEF Loop
<1>16. ASSUME NEW ok \in BOOLEAN, Opened(ok) \/ Precached(ok) PROVE StepPending'
  BY <1>16 DEF Opened, Precached
<1>17. ASSUME NEW eof \in BOOLEAN, ChunkAbort(eof) PROVE StepPending'
  BY <1>17 DEF ChunkAbort
<1> QED BY <1>1, <1>2, <1>3, <1>4, <1>5, <1>6, <1>7, <1>8, <1>9, <1>10, <1>11, <1>12, <1>13, <1>14, <1>15, <1>16, <1>17
        DEF PrivateStep

(* Only paused_handler says PAUSED, and what leaves the picture it holds has *)
(* changed the status by then.                                             *)
LEMMA HoldingKept ==
  ASSUME TypeOK, Holding, PrivateStep
  PROVE  Holding'
<1> USE DEF Holding, Locks, got, Idle, Respond, shared, parent, picture,
           TypeOK, ChannelType, ParentType, PrivateType, FlagType
<1>1. CASE Ack
  BY <1>1 DEF Ack
<1>2. CASE IdleQuit \/ IdleOpen
  BY <1>2 DEF IdleQuit, IdleOpen
<1>3. CASE IdlePlay \/ IdlePause
  BY <1>3 DEF IdlePlay, IdlePause
<1>4. CASE IdleSearch
  BY <1>4 DEF IdleSearch
<1>5. CASE IdleLock
  BY <1>5 DEF IdleLock
<1>6. CASE Unlock
  BY <1>6 DEF Unlock
<1>7. CASE Render \/ OutOfBounds
  BY <1>7 DEF Render, OutOfBounds
<1>8. CASE Picture
  BY <1>8 DEF Picture
<1>9. CASE ChunkEof
  BY <1>9 DEF ChunkEof
<1>10. CASE Frame
  BY <1>10 DEF Frame
<1>11. CASE StallCmd
  BY <1>11 DEF StallCmd
<1>12. CASE StallExpires
  BY <1>12 DEF StallExpires
<1>13. CASE PausedPoll
  BY <1>13 DEF PausedPoll
<1>14. CASE PlayPoll
  BY <1>14 DEF PlayPoll
<1>15. CASE Loop
  BY <1>15 DEF Loop
<1>16. ASSUME NEW ok \in BOOLEAN, Opened(ok) \/ Precached(ok) PROVE Holding'
  BY <1>16 DEF Opened, Precached
<1>17. ASSUME NEW eof \in BOOLEAN, ChunkAbort(eof) PROVE Holding'
  BY <1>17 DEF ChunkAbort
<1> QED BY <1>1, <1>2, <1>3, <1>4, <1>5, <1>6, <1>7, <1>8, <1>9, <1>10, <1>11, <1>12, <1>13, <1>14, <1>15, <1>16, <1>17
        DEF PrivateStep

(* The thread comes to rest with an error, at the end of a file, or for a  *)
(* command that the idle loop takes next.                                  *)
LEMMA RestingKept ==
  ASSUME TypeOK, Resting, PrivateStep
  PROVE  Resting'
<1> USE DEF Resting, Locks, Settled, Stats, got, Idle, Respond, shared, parent, picture,
           TypeOK, ChannelType, ParentType, PrivateType, FlagType
<1>1. CASE Ack
  BY <1>1 DEF Ack
<1>2. CASE IdleQuit \/ IdleOpen
  BY <1>2 DEF IdleQuit, IdleOpen
<1>3. CASE IdlePlay \/ IdlePause
  BY <1>3 DEF IdlePlay, IdlePause
<1>4. CASE IdleSearch
  BY <1>4 DEF IdleSearch
<1>5. CASE IdleLock
  BY <1>5 DEF IdleLock
<1>6. CASE Unlock
  BY <1>6 DEF Unlock
<1>7. CASE Render \/ OutOfBounds
  BY <1>7 DEF Render, OutOfBounds
<1>8. CASE Picture
  BY <1>8 DEF Picture
<1>9. CASE ChunkEof
  BY <1>9 DEF ChunkEof
<1>10. CASE Frame
  BY <1>10 DEF Frame
<1>11. CASE StallCmd
  BY <1>11 DEF StallCmd
<1>12. CASE StallExpires
  BY <1>12 DEF StallExpires
<1>13. CASE PausedPoll
  BY <1>13 DEF PausedPoll
<1>14. CASE PlayPoll
  BY <1>14 DEF PlayPoll
<1>15. CASE Loop
  BY <1>15 DEF Loop
<1>16. ASSUME NEW ok \in BOOLEAN, Opened(ok) \/ Precached(ok) PROVE Resting'
  BY <1>16 DEF Opened, Precached
<1>17. ASSUME NEW eof \in BOOLEAN, ChunkAbort(eof) PROVE Resting'
  BY <1>17 DEF ChunkAbort
<1> QED BY <1>1, <1>2, <1>3, <1>4, <1>5, <1>6, <1>7, <1>8, <1>9, <1>10, <1>11, <1>12, <1>13, <1>14, <1>15, <1>16, <1>17
        DEF PrivateStep

(* Once a search was taken no other command is there to be found, so the   *)
(* thread goes on to the picture, or fails.                                *)
LEMMA SoughtKept ==
  ASSUME TypeOK, Handshake, StepPending, Sought, PrivateStep
  PROVE  Sought'
<1> USE DEF Sought, Taken, Settled, Handshake, Dead, IdleIgnored, StepPending, Locks, got, Idle, Respond, shared, parent, picture,
           TypeOK, ChannelType, ParentType, PrivateType, FlagType
<1>1. CASE Ack
  BY <1>1 DEF Ack
<1>2. CASE IdleQuit \/ IdleOpen
  BY <1>2 DEF IdleQuit, IdleOpen
<1>3. CASE IdlePlay \/ IdlePause
  BY <1>3 DEF IdlePlay, IdlePause
<1>4. CASE IdleSearch
  BY <1>4 DEF IdleSearch
<1>5. CASE IdleLock
  BY <1>5 DEF IdleLock
<1>6. CASE Unlock
  BY <1>6 DEF Unlock
<1>7. CASE Render \/ OutOfBounds
  BY <1>7 DEF Render, OutOfBounds
<1>8. CASE Picture
  BY <1>8 DEF Picture
<1>9. CASE ChunkEof
  BY <1>9 DEF ChunkEof
<1>10. CASE Frame
  BY <1>10 DEF Frame
<1>11. CASE StallCmd
  BY <1>11 DEF StallCmd
<1>12. CASE StallExpires
  BY <1>12 DEF StallExpires
<1>13. CASE PausedPoll
  <2>1. pc' = "acking" => req.cmd # "SEARCH"
    BY <1>13 DEF PausedPoll
  <2>2. UNCHANGED <<req, reqFrame, at, ack, oldAck, cmdOk, next, hand>>
    BY <1>13 DEF PausedPoll
  <2>3. Taken("SEARCH") => ~got
    OBVIOUS
  <2>4. CASE Taken("SEARCH")
    <3>1. /\ pc' = "loop" /\ status' = "PAUSED" /\ UNCHANGED <<paused, skipAll, stepFwd>>
          /\ paused /\ ~skipAll /\ ~stepFwd /\ hand = reqFrame
      BY <1>13, <2>3, <2>4 DEF PausedPoll
    <3> QED BY <2>1, <2>2, <3>1
  <2> QED BY <2>1, <2>2, <2>4
<1>14. CASE PlayPoll
  <2>1. pc' = "acking" => req.cmd # "SEARCH"
    BY <1>14 DEF PlayPoll
  <2>2. ~Taken("SEARCH") /\ UNCHANGED <<req, at, ack, oldAck, cmdOk>>
    BY <1>14 DEF PlayPoll
  <2> QED BY <2>1, <2>2
<1>15. CASE Loop
  BY <1>15 DEF Loop
<1>16. ASSUME NEW ok \in BOOLEAN, Opened(ok) \/ Precached(ok) PROVE Sought'
  BY <1>16 DEF Opened, Precached
<1>17. ASSUME NEW eof \in BOOLEAN, ChunkAbort(eof) PROVE Sought'
  BY <1>17 DEF ChunkAbort
<1> QED BY <1>1, <1>2, <1>3, <1>4, <1>5, <1>6, <1>7, <1>8, <1>9, <1>10, <1>11, <1>12, <1>13, <1>14, <1>15, <1>16, <1>17
        DEF PrivateStep

(* The same holds of an open.                                              *)
LEMMA OpeningKept ==
  ASSUME TypeOK, Handshake, Opening, PrivateStep
  PROVE  Opening'
<1> USE DEF Opening, Taken, Settled, Handshake, Dead, IdleIgnored, got, Idle, Respond, shared, parent, picture,
           TypeOK, ChannelType, ParentType, PrivateType, FlagType
<1>1. CASE Ack
  BY <1>1 DEF Ack
<1>2. CASE IdleQuit \/ IdleOpen
  BY <1>2 DEF IdleQuit, IdleOpen
<1>3. CASE IdlePlay \/ IdlePause
  BY <1>3 DEF IdlePlay, IdlePause
<1>4. CASE IdleSearch
  BY <1>4 DEF IdleSearch
<1>5. CASE IdleLock
  BY <1>5 DEF IdleLock
<1>6. CASE Unlock
  BY <1>6 DEF Unlock
<1>7. CASE Render \/ OutOfBounds
  BY <1>7 DEF Render, OutOfBounds
<1>8. CASE Picture
  BY <1>8 DEF Picture
<1>9. CASE ChunkEof
  BY <1>9 DEF ChunkEof
<1>10. CASE Frame
  BY <1>10 DEF Frame
<1>11. CASE StallCmd
  BY <1>11 DEF StallCmd
<1>12. CASE StallExpires
  BY <1>12 DEF StallExpires
<1>13. CASE PausedPoll
  BY <1>13 DEF PausedPoll
<1>14. CASE PlayPoll
  BY <1>14 DEF PlayPoll
<1>15. CASE Loop
  BY <1>15 DEF Loop
<1>16. ASSUME NEW ok \in BOOLEAN, Opened(ok) \/ Precached(ok) PROVE Opening'
  BY <1>16 DEF Opened, Precached
<1>17. ASSUME NEW eof \in BOOLEAN, ChunkAbort(eof) PROVE Opening'
  BY <1>17 DEF ChunkAbort
<1> QED BY <1>1, <1>2, <1>3, <1>4, <1>5, <1>6, <1>7, <1>8, <1>9, <1>10, <1>11, <1>12, <1>13, <1>14, <1>15, <1>16, <1>17
        DEF PrivateStep

(* A call replaces the request, when the private thread is not answering one.  *)
LEMMA CallKeepsStatus ==
  ASSUME TypeOK, Handshake, StatusInv, NEW c \in Cmds, NEW w, Call(c, w),
         c \in {"SEARCH", "SKIP"} \/ UNCHANGED reqFrame, c = "SKIP" => status = "PLAYING"
  PROVE  StatusInv'
<1> USE DEF Call, Publish, private, flow, picture, got, Handshake, Dead, IdleIgnored
<1>1. pc # "acking" /\ at' = "ack" /\ ack' = oldAck' /\ req'.cmd = c /\ status' = status
  OBVIOUS
<1>2. StepPending'
  BY DEF StatusInv, StepPending, Locks
<1>3. Holding'
  BY <1>1 DEF StatusInv, Holding, Locks
<1>4. Resting'
  BY <1>1 DEF StatusInv, Resting, Settled, Locks
<1>5. Sought' /\ Opening'
  BY <1>1 DEF Sought, Opening, Taken
<1> QED BY <1>2, <1>3, <1>4, <1>5 DEF StatusInv

\* What the parent thread does keeps the status in step with the command.
LEMMA ParentKeepsStatus ==
  ASSUME TypeOK, Prompt, Handshake, StatusInv, ParentStep
  PROVE  StatusInv'
<1> USE DEF private, flow, picture, shared, got
<1>1. ASSUME NEW w \in {"NONE", "STOPPED"}, Open(w) PROVE StatusInv'
  BY <1>1, CallKeepsStatus DEF Open, Cmds
<1>2. ASSUME NEW f \in Frames, NEW w \in {"NONE", "PAUSED"}, Search(f, w)
      PROVE  StatusInv'
  BY <1>2, CallKeepsStatus DEF Search, Cmds
<1>3. ASSUME NEW f \in Frames, Skip(f) PROVE StatusInv'
  BY <1>3, CallKeepsStatus DEF Skip, Cmds
<1>4. CASE Play
  BY <1>4, CallKeepsStatus DEF Play, Cmds
<1>5. ASSUME NEW c \in Cmds, Simple(c) PROVE StatusInv'
  BY <1>5, CallKeepsStatus DEF Simple
<1>6. ASSUME Refuse \/ AckSeen \/ AckTimeout \/ WaitEnds \/ WaitReturns \/ Join
      PROVE  StepPending' /\ Holding' /\ Resting'
  <2>1. UNCHANGED <<req, status, private>>
    BY <1>6 DEF Refuse, AckSeen, AckTimeout, WaitEnds, WaitReturns, Join
  <2> QED BY <2>1 DEF StatusInv, StepPending, Holding, Resting, Settled, Locks
<1>7. ASSUME Refuse \/ AckSeen \/ AckTimeout \/ WaitEnds \/ WaitReturns \/ Join
      PROVE  Sought' /\ Opening'
  <2> USE DEF StatusInv, Sought, Opening, Settled, Taken
  <2>1. CASE Refuse
    BY <2>1 DEF Refuse
  <2>2. CASE AckSeen
    BY <2>2 DEF AckSeen
  <2>3. CASE AckTimeout
    BY <2>3 DEF AckTimeout, Unanswerable, Handshake
  <2>4. CASE WaitEnds
    BY <2>4 DEF WaitEnds
  <2>5. CASE WaitReturns
    BY <2>5 DEF WaitReturns
  <2>6. CASE Join
    BY <2>6 DEF Join
  <2> QED BY <1>7, <2>1, <2>2, <2>3, <2>4, <2>5, <2>6
<1> QED BY <1>1, <1>2, <1>3, <1>4, <1>5, <1>6, <1>7 DEF ParentStep, StatusInv

(* StatusInv is an invariant when answers come within VLDP_TIMEOUT.        *)
THEOREM StatusCorrect ==
  ASSUME Prompt
  PROVE  Spec => []StatusInv
<1>1. Init => StatusInv
  BY DEF Init, StatusInv, StepPending, Holding, Resting, Settled, Sought, Opening,
         Locks, Taken
<1>2. TypeOK /\ Handshake /\ StatusInv /\ [Next]_vars => StatusInv'
  <2> SUFFICES ASSUME TypeOK, Handshake, StatusInv, [Next]_vars
               PROVE  StatusInv'
    OBVIOUS
  <2>1. CASE ParentStep
    BY <2>1, ParentKeepsStatus
  <2>2. CASE PrivateStep
    BY <2>2, StepPendingKept, HoldingKept, RestingKept, SoughtKept, OpeningKept
    DEF StatusInv
  <2>3. CASE UNCHANGED vars
    <3>1. StepPending' /\ Holding' /\ Resting'
      BY <2>3 DEF vars, shared, parent, private, flow, picture, got, StatusInv,
                  StepPending, Holding, Resting, Settled, Locks
    <3>2. Sought' /\ Opening'
      BY <2>3 DEF vars, shared, parent, private, flow, picture, StatusInv,
                  Sought, Opening, Settled, Taken
    <3> QED BY <3>1, <3>2 DEF StatusInv
  <2> QED BY <2>1, <2>2, <2>3 DEF Next, Terminated
<1> QED BY <1>1, <1>2, TypeCorrect, HandshakeCorrect, PTL DEF Spec

-----------------------------------------------------------------------------
(* A thread in its idle loop never reports rolling, held or searched video  *)
(* with nothing to do, and PAUSED is said of a picture that is held          *)
(* (vldp_internal.c:775).                                                   *)
THEOREM StatusIsHonest ==
  ASSUME Prompt
  PROVE  Spec => []StatusHonest
<1>1. StatusInv => StatusHonest
  BY DEF StatusInv, Holding, Resting, Settled, StatusHonest, IdleStatus,
         PausedIsHeld, IdleIgnored
<1> QED BY <1>1, StatusCorrect, PTL

(* After an acknowledged search, PAUSED means that the picture asked for is *)
(* held, never the still frame of before (vldp_internal.c:857).             *)
THEOREM SearchIsFresh ==
  ASSUME Prompt
  PROVE  Spec => []SearchFresh
<1>1. StatusInv => SearchFresh
  BY DEF StatusInv, Sought, Taken, Settled, SearchFresh
<1> QED BY <1>1, StatusCorrect, PTL

(* vldp_open_and_block says 1 only of a file that is open (vldp.h:106).     *)
THEOREM OpenIsTruthful ==
  ASSUME Prompt
  PROVE  Spec => []OpenAndBlockTruthful
<1>1. StatusInv => OpenAndBlockTruthful
  BY DEF StatusInv, Opening, OpenAndBlockTruthful
<1> QED BY <1>1, StatusCorrect, PTL
=============================================================================
