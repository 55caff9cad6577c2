------------------------------ MODULE Samples ------------------------------
(***************************************************************************)
(* Sound samples (samples.cpp): a table of slots that the script fills and *)
(* the audio thread plays, and the queue by which the audio thread has the *)
(* main thread tell the script that a sample has ended.                    *)
(*                                                                         *)
(* SDL's audio lock (external) is recursive, and SDL holds it while it     *)
(* runs the audio callback: mixing < N is the callback, and the main       *)
(* thread holds it through the script's completion handlers.  A sample is  *)
(* the number of output samples that are left of it.                       *)
(*                                                                         *)
(* A definition introduced as "Fault" is a plausible bug in the definition *)
(* after it; it is not part of the specification.                          *)
(***************************************************************************)
EXTENDS Integers, Sequences, FiniteSets

CONSTANTS
  N,         \* MAX_DYNAMIC_SAMPLES
  Buffer,    \* output samples that one audio callback asks for
  Lengths,   \* lengths of the samples the script has loaded
  MaxPlays,  \* bound: samples played
  MaxCalls   \* bound: other sound functions the script calls

ASSUME SlotsAssumption == N \in Nat \ {0} /\ Buffer \in Nat \ {0}
ASSUME LengthsAssumption == Lengths \subseteq Nat
ASSUME BoundsAssumption == MaxPlays \in Nat /\ MaxCalls \in Nat

Slots == 0 .. N - 1
Plays == 1 .. MaxPlays

VARIABLES
  slot,    \* g_SampleStates; play numbers what the slot holds, 0 is nothing
  next,    \* g_uNextSampleIdx
  queue,   \* g_qCallbacks
  mixing,  \* u of samples_get_stream, N when the audio thread waits
  pc,      \* main thread: "script", "told" (the script handles the end of a
           \* sample), "look" or "set" (samples_flush_queue), "closed"
  after,   \* where samples_flush_queue returns to
  look,    \* uSlot of samples_flush_queue
  plays,   \* samples played so far
  calls,   \* calls made so far
  told,    \* history: the ends the script was told of
  paused,  \* history: samples the script has paused while they played
  revived  \* history: samples it resumed after their end

vars == <<slot, next, queue, mixing, pc, after, look, plays, calls, told,
          paused, revived>>

Elements(s) == {s[i] : i \in DOMAIN s}

\* samples_init.
Init ==
  /\ slot = [u \in Slots |-> [active |-> FALSE, early |-> FALSE, left |-> 0,
                              notify |-> FALSE, play |-> 0]]
  /\ next = 0 /\ queue = <<>> /\ mixing = N
  /\ pc = "script" /\ after = "script" /\ look = 0
  /\ plays = 0 /\ calls = 0 /\ told = <<>> /\ paused = {} /\ revived = {}

-----------------------------------------------------------------------------
(* The audio thread                                                        *)

\* The main thread holds the audio lock through samples_do_queued_callbacks.
Locked == "told" \in {pc, after}

\* SDL asks for a buffer.
Begin == /\ mixing = N /\ ~Locked /\ mixing' = 0
         /\ UNCHANGED <<slot, next, queue, pc, after, look, plays, calls, told,
                        paused, revived>>

\* A sample is found to be over when the buffer has room behind it.
Over(s) == s.early \/ s.left < Buffer

\* Fault: the slot stays active.
MixedActive(s) == [s EXCEPT !.left = IF Over(s) THEN 0 ELSE @ - Buffer]

Mixed(s) == [s EXCEPT !.left = IF Over(s) THEN 0 ELSE @ - Buffer,
                      !.active = ~Over(s)]

\* One slot of samples_get_stream.
Mix ==
  /\ mixing < N /\ mixing' = mixing + 1
  /\ LET s == slot[mixing]
     IN IF s.active
          THEN /\ slot' = [slot EXCEPT ![mixing] = Mixed(s)]
               /\ queue' = IF Over(s) /\ s.notify
                             THEN Append(queue, [slot |-> mixing, play |-> s.play])
                             ELSE queue
          ELSE UNCHANGED <<slot, queue>>
  /\ UNCHANGED <<next, pc, after, look, plays, calls, told,
                 paused, revived>>

-----------------------------------------------------------------------------
(* The script: each function takes the lock for itself                     *)

Script == pc \in {"script", "told"} /\ mixing = N

\* The first slot from next on that is not active.
IsFree(u) ==
  \E d \in Slots : /\ u = (next + d) % N
                   /\ ~slot[u].active
                   /\ \A e \in 0 .. d - 1 : slot[(next + e) % N].active

\* samples_play_sample; with every slot active it does nothing.
Play(length, notify) ==
  /\ Script /\ plays < MaxPlays
  /\ \E u \in Slots :
       /\ IsFree(u)
       /\ slot' = [slot EXCEPT ![u] = [active |-> TRUE, early |-> FALSE,
                     left |-> length, notify |-> notify, play |-> plays + 1]]
       /\ next' = (u + 1) % N
  /\ plays' = plays + 1
  /\ UNCHANGED <<queue, mixing, pc, after, look, calls, told, paused,
                 revived>>

Calls == calls < MaxCalls /\ calls' = calls + 1

\* The script was told of the end of p, or will be.
Ended(p) == p \in Elements(told) \/ \E q \in Elements(queue) : q.play = p

\* samples_set_state: nothing tells a sample that is paused from one that is over.
SetState(u, state) ==
  /\ Script /\ Calls
  /\ slot' = [slot EXCEPT ![u].active = state]
  /\ revived' = IF state /\ Ended(slot[u].play) THEN revived \cup {slot[u].play}
                ELSE revived
  /\ paused' = IF state THEN paused \ {slot[u].play}
               ELSE IF slot[u].active THEN paused \cup {slot[u].play} ELSE paused
  /\ UNCHANGED <<next, queue, mixing, pc, after, look, plays, told>>

\* samples_end_early.
EndEarly(u) ==
  /\ Script /\ Calls
  /\ slot' = [slot EXCEPT ![u].early = TRUE]
  /\ UNCHANGED <<next, queue, mixing, pc, after, look, plays, told, paused,
                 revived>>

\* samples_flush_queue, for soundFullStop or, at the end, for sep_unload_sounds.
Flush ==
  /\ pc \in {"script", "told"} /\ Calls
  /\ pc' = "look" /\ look' = 0
  /\ after' \in IF pc = "script" THEN {"script", "closed"} ELSE {"told"}
  /\ UNCHANGED <<slot, next, queue, mixing, plays, told, paused, revived>>

\* Fault: the last slot is not looked at.
FlushLookNotLast ==
  /\ pc = "look"
  /\ IF look = N - 1
       THEN pc' = after /\ look' = 0 /\ after' = "script"
       ELSE IF slot[look].active
         THEN pc' = "set" /\ UNCHANGED <<look, after>>
         ELSE look' = look + 1 /\ UNCHANGED <<pc, after>>
  /\ UNCHANGED <<slot, next, queue, mixing, plays, calls, told, paused, revived>>

\* bActive is read without the lock, and bEndEarly is written with it.
FlushLook ==
  /\ pc = "look"
  /\ IF look = N
       THEN pc' = after /\ look' = 0 /\ after' = "script"
       ELSE IF slot[look].active
         THEN pc' = "set" /\ UNCHANGED <<look, after>>
         ELSE look' = look + 1 /\ UNCHANGED <<pc, after>>
  /\ UNCHANGED <<slot, next, queue, mixing, plays, calls, told, paused, revived>>

FlushSet ==
  /\ pc = "set" /\ mixing = N
  /\ slot' = [slot EXCEPT ![look].early = TRUE]
  /\ pc' = "look" /\ look' = look + 1
  /\ UNCHANGED <<next, queue, mixing, after, plays, calls, told, paused, revived>>

-----------------------------------------------------------------------------
(* samples_do_queued_callbacks: the front of the queue stays there while   *)
(* the script handles it                                                   *)

CallbackBegins ==
  /\ pc = "script" /\ mixing = N /\ queue # <<>>
  /\ pc' = "told" /\ told' = Append(told, Head(queue).play)
  /\ UNCHANGED <<slot, next, queue, mixing, after, look, plays, calls, paused,
                 revived>>

\* Fault: the ends behind the first are dropped.
CallbackReturnsOnce ==
  /\ pc = "told"
  /\ queue' = <<>> /\ pc' = "script"
  /\ UNCHANGED <<slot, next, mixing, after, look, plays, calls, told,
                 paused, revived>>

CallbackReturns ==
  /\ pc = "told"
  /\ queue' = Tail(queue)
  /\ IF Len(queue) > 1
       THEN told' = Append(told, queue[2].play) /\ pc' = pc
       ELSE pc' = "script" /\ UNCHANGED told
  /\ UNCHANGED <<slot, next, mixing, after, look, plays, calls, paused,
                 revived>>

Next ==
  \/ Begin \/ Mix
  \/ \E length \in Lengths, notify \in BOOLEAN : Play(length, notify)
  \/ \E u \in Slots : (\E state \in BOOLEAN : SetState(u, state)) \/ EndEarly(u)
  \/ Flush \/ FlushLook \/ FlushSet \/ CallbackBegins \/ CallbackReturns

\* The audio device keeps asking for buffers and waits in between; the script
\* returns from its handlers, and its main loop comes by the queue every 10 ms.
Fairness ==
  /\ WF_vars(Begin) /\ WF_vars(Mix)
  /\ SF_vars(CallbackBegins) /\ WF_vars(CallbackReturns)
  /\ WF_vars(FlushLook) /\ SF_vars(FlushSet)

Spec == Init /\ [][Next]_vars
FairSpec == Spec /\ Fairness

-----------------------------------------------------------------------------
(* Properties                                                              *)

SlotType == [active : BOOLEAN, early : BOOLEAN, left : Nat, notify : BOOLEAN,
             play : Nat]

CallbackType == [slot : Slots, play : Nat]

TypeOK ==
  /\ slot \in [Slots -> SlotType] /\ next \in Slots
  /\ queue \in Seq(CallbackType) /\ mixing \in 0 .. N
  /\ pc \in {"script", "told", "look", "set", "closed"}
  /\ after \in {"script", "told", "closed"} /\ look \in 0 .. N
  /\ plays \in Nat /\ calls \in Nat /\ told \in Seq(Nat)
  /\ paused \subseteq Nat /\ revived \subseteq Nat

\* The flush has passed slot u, and nothing is played any more.
Flushed(u) == pc = "closed" \/ (pc \in {"look", "set"} /\ u < look)

\* samples_flush_queue "stops ALL active samples" (samples.cpp:310) slot by slot
\* while the audio thread plays; then the samples are unloaded without the audio
\* lock ("Singe will crash if waves are unloaded from memory before clearing the
\* audio queue", singeproxy.cpp:628).  A slot the flush has passed is over before
\* its data is read again, whatever the audio thread was doing meanwhile.
Silenced == \A u \in Slots : Flushed(u) /\ slot[u].active => slot[u].early

\* Ends that are queued and not yet handled.
Waiting == IF Locked THEN Tail(queue) ELSE queue

\* The script is told of the end of a sample once, unless it resumed the sample
\* after its end, and never of the end of one that still plays.
ToldOnce ==
  \A p \in Plays \ revived :
    /\ Cardinality({i \in DOMAIN told : told[i] = p})
       + Cardinality({i \in DOMAIN Waiting : Waiting[i].play = p}) <= 1
    /\ Ended(p) => \A u \in Slots : slot[u].play = p => ~slot[u].active

Sounds(p) == \E u \in Slots : /\ slot[u].play = p
                              /\ slot[u].active /\ slot[u].notify

\* A sample with a completion handler that plays is told to the script in the
\* end, unless the script pauses it or is closed.
EndIsTold ==
  \A p \in Plays :
    Sounds(p) ~> \/ p \in Elements(told)
                 \/ p \in paused
                 \/ "closed" \in {pc, after}
=============================================================================
