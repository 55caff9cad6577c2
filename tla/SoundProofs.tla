----------------------------- MODULE SoundProofs -----------------------------
(***************************************************************************)
(* What is proved about the two sources of sound: the slots of the script's *)
(* samples (module Samples), for every number of slots and every buffer,    *)
(* and then the stream of the disc (module DiscAudio), for every size of    *)
(* chunk, buffer and stream, any number of rounds and any width of the      *)
(* counts.                                                                 *)
(***************************************************************************)
EXTENDS Samples, DiscAudio, FiniteSetTheorems, TLAPS

-----------------------------------------------------------------------------
(* Samples                                                                 *)

\* A free slot is a slot (samples.cpp:187), and so is the one after it (:199).
LEMMA Wraps ==
  ASSUME NEW u \in Slots
  PROVE  (u + 1) % N \in Slots
  BY SlotsAssumption, SMT DEF Slots

\* What the audio thread leaves in a slot is a slot again.
LEMMA MixedIsSlot ==
  ASSUME NEW s \in SlotType
  PROVE  /\ Mixed(s) \in SlotType
         /\ Mixed(s).early = s.early
         /\ Mixed(s).active = ~Over(s)
<1>1. CASE Over(s)
  BY <1>1 DEF SlotType, Mixed
<1>2. CASE ~Over(s)
  <2>1. s.left - Buffer \in Nat
    BY <1>2, SlotsAssumption DEF Over, SlotType
  <2> QED BY <1>2, <2>1 DEF SlotType, Mixed
<1> QED BY <1>1, <1>2

\* The end of a queue is handled before it is taken off (samples.cpp:336-342).
Handled == Locked => queue # <<>>

\* samples_flush_queue writes to the slot it has looked at.
Looks == pc = "set" => look \in Slots

\* It runs to its end before its caller goes on.
Returns == after # "script" => pc \in {"look", "set"}

IndType == TypeOK /\ Handled /\ Looks /\ Returns

\* The audio thread queues one end at a time.
LEMMA MixQueues ==
  ASSUME TypeOK, Mix
  PROVE  queue' = queue \/ \E q \in CallbackType : queue' = Append(queue, q)
<1> DEFINE s == slot[mixing]
<1>1. mixing \in Slots /\ s \in SlotType
  BY SlotsAssumption DEF Mix, TypeOK, Slots
<1>2. [slot |-> mixing, play |-> s.play] \in CallbackType
  BY <1>1 DEF SlotType, CallbackType
<1>3. \/ queue' = queue
      \/ queue' = Append(queue, [slot |-> mixing, play |-> s.play])
  BY Zenon DEF Mix
<1> QED BY <1>2, <1>3

\* Every step keeps the variables in their types.
LEMMA TypePreserved ==
  ASSUME IndType, [Next]_vars
  PROVE  TypeOK'
<1> USE SlotsAssumption, LengthsAssumption, BoundsAssumption DEF IndType
<1>1. CASE Begin
  BY <1>1 DEF Begin, TypeOK
<1>2. CASE Mix
  <2>1. slot' \in [Slots -> SlotType]
    <3>1. mixing \in Slots /\ slot[mixing] \in SlotType
      BY <1>2 DEF Mix, TypeOK, Slots
    <3>2. slot' = slot \/ slot' = [slot EXCEPT ![mixing] = Mixed(slot[mixing])]
      BY <1>2 DEF Mix
    <3> QED BY <3>1, <3>2, MixedIsSlot DEF TypeOK
  <2>2. queue' \in Seq(CallbackType)
    <3>1. CASE queue' = queue
      BY <3>1 DEF TypeOK
    <3>2. ASSUME NEW q \in CallbackType, queue' = Append(queue, q)
          PROVE  queue' \in Seq(CallbackType)
      BY <3>2 DEF TypeOK
    <3> QED BY <1>2, <3>1, <3>2, MixQueues
  <2> QED BY <1>2, <2>1, <2>2 DEF Mix, TypeOK
<1>3. ASSUME NEW length \in Lengths, NEW notify \in BOOLEAN, Play(length, notify)
      PROVE  TypeOK'
  <2>1. PICK u \in Slots :
          /\ slot' = [slot EXCEPT ![u] = [active |-> TRUE, early |-> FALSE,
                        left |-> length, notify |-> notify, play |-> plays + 1]]
          /\ next' = (u + 1) % N
    BY <1>3 DEF Play
  <2>2. [active |-> TRUE, early |-> FALSE, left |-> length,
         notify |-> notify, play |-> plays + 1] \in SlotType
    BY DEF TypeOK, SlotType
  <2>3. slot' \in [Slots -> SlotType] /\ next' \in Slots
    BY <2>1, <2>2, Wraps DEF TypeOK
  <2> QED BY <1>3, <2>3 DEF Play, TypeOK
<1>4. ASSUME NEW u \in Slots, NEW state \in BOOLEAN, SetState(u, state)
      PROVE  TypeOK'
  <2>1. slot' \in [Slots -> SlotType]
    BY <1>4 DEF SetState, TypeOK, SlotType
  <2>2. slot[u].play \in Nat
    BY DEF TypeOK, SlotType
  <2> QED BY <1>4, <2>1, <2>2 DEF SetState, Calls, TypeOK
<1>5. ASSUME NEW u \in Slots, EndEarly(u) PROVE TypeOK'
  <2>1. slot' \in [Slots -> SlotType]
    BY <1>5 DEF EndEarly, TypeOK, SlotType
  <2> QED BY <1>5, <2>1 DEF EndEarly, Calls, TypeOK
<1>6. CASE Flush
  BY <1>6 DEF Flush, Calls, TypeOK
<1>7. CASE FlushLook
  BY <1>7 DEF FlushLook, TypeOK
<1>8. CASE FlushSet
  <2>1. slot' \in [Slots -> SlotType]
    BY <1>8 DEF FlushSet, TypeOK, SlotType
  <2>2. look' \in 0 .. N
    BY <1>8 DEF FlushSet, TypeOK, Looks, Slots
  <2> QED BY <1>8, <2>1, <2>2 DEF FlushSet, TypeOK
<1>9. CASE CallbackBegins
  <2>1. Head(queue) \in CallbackType
    BY <1>9 DEF CallbackBegins, TypeOK
  <2>2. Head(queue).play \in Nat
    BY <2>1 DEF CallbackType
  <2> QED BY <1>9, <2>2 DEF CallbackBegins, TypeOK
<1>10. CASE CallbackReturns
  <2>1. queue \in Seq(CallbackType) /\ queue # <<>>
    BY <1>10 DEF CallbackReturns, TypeOK, Handled, Locked
  <2>2. Tail(queue) \in Seq(CallbackType)
    BY <2>1
  <2>3. Len(queue) > 1 => queue[2] \in CallbackType
    BY <2>1
  <2>4. Len(queue) > 1 => queue[2].play \in Nat
    BY <2>3 DEF CallbackType
  <2>5. told' \in Seq(Nat)
    <3>1. \/ told' = told
          \/ Len(queue) > 1 /\ told' = Append(told, queue[2].play)
      BY <1>10 DEF CallbackReturns
    <3>2. told \in Seq(Nat)
      BY DEF TypeOK
    <3>3. CASE told' = told
      BY <3>2, <3>3
    <3>4. CASE Len(queue) > 1 /\ told' = Append(told, queue[2].play)
      <4> DEFINE p == queue[2].play
      <4>1. p \in Nat
        BY <2>4, <3>4
      <4>2. told' = Append(told, p)
        BY <3>4
      <4> HIDE DEF p
      <4> QED BY <3>2, <4>1, <4>2
    <3> QED BY <3>1, <3>3, <3>4
  <2> QED BY <1>10, <2>2, <2>5 DEF CallbackReturns, TypeOK
<1>11. CASE UNCHANGED vars
  BY <1>11 DEF vars, TypeOK
<1> QED BY <1>1, <1>2, <1>3, <1>4, <1>5, <1>6, <1>7, <1>8, <1>9, <1>10, <1>11
        DEF Next


\* The types, and who holds the lock, at any time.
LEMMA IndTypeInvariant == Spec => []IndType
<1> USE SlotsAssumption, LengthsAssumption, BoundsAssumption
<1>1. Init => IndType
  BY DEF Init, IndType, Handled, Looks, Returns, Locked, TypeOK, SlotType, Slots
<1>2. IndType /\ [Next]_vars => IndType'
  <2> SUFFICES ASSUME IndType, [Next]_vars PROVE IndType'
    OBVIOUS
  <2>1. TypeOK'
    BY TypePreserved DEF IndType
  <2>2. Handled'
    <3> USE DEF Handled, Locked
    <3>1. CASE Begin \/ FlushLook \/ FlushSet \/ UNCHANGED vars
      BY <3>1 DEF Begin, FlushLook, FlushSet, vars, IndType
    <3>2. CASE Mix
      <4>1. queue' = queue \/ \E q \in CallbackType : queue' = Append(queue, q)
        BY <3>2, MixQueues DEF IndType
      <4> QED BY <3>2, <4>1 DEF Mix, IndType, TypeOK
    <3>3. ASSUME NEW length \in Lengths, NEW notify \in BOOLEAN,
                 Play(length, notify)
          PROVE  Handled'
      BY <3>3 DEF Play, IndType
    <3>4. ASSUME NEW u \in Slots,
                 (\E state \in BOOLEAN : SetState(u, state)) \/ EndEarly(u)
          PROVE  Handled'
      BY <3>4 DEF SetState, EndEarly, IndType
    <3>5. CASE Flush \/ CallbackBegins
      BY <3>5 DEF Flush, CallbackBegins, IndType
    <3>6. CASE CallbackReturns
      <4>1. queue \in Seq(CallbackType) /\ queue # <<>>
        BY <3>6 DEF CallbackReturns, IndType, TypeOK
      <4>2. Len(queue) > 1 => Tail(queue) # <<>>
        <5> SUFFICES ASSUME Len(queue) > 1, Tail(queue) = <<>> PROVE FALSE
          OBVIOUS
        <5>1. Len(queue) \in Nat /\ Len(Tail(queue)) = Len(queue) - 1
          BY <4>1
        <5>2. Len(Tail(queue)) = 0
          <6>1. Len(<<>>) = 0
            OBVIOUS
          <6> QED BY <6>1, Zenon
        <5> DEFINE before == Len(queue)
                   behind == Len(Tail(queue))
        <5>3. before \in Nat /\ before > 1 /\ behind = before - 1 /\ behind = 0
          BY <5>1, <5>2
        <5> HIDE DEF before, behind
        <5> QED BY <5>3
      <4>3. after = "told" => pc \in {"look", "set"}
        BY DEF IndType, Returns
      <4> QED BY <3>6, <4>2, <4>3 DEF CallbackReturns
    <3> QED BY <3>1, <3>2, <3>3, <3>4, <3>5, <3>6 DEF Next
  <2>3. Looks' /\ Returns'
    <3> USE DEF Looks, Returns
    <3>1. CASE Begin \/ Mix \/ CallbackBegins \/ CallbackReturns \/ UNCHANGED vars
      BY <3>1 DEF Begin, Mix, CallbackBegins, CallbackReturns, vars, IndType
    <3>2. ASSUME NEW length \in Lengths, NEW notify \in BOOLEAN,
                 Play(length, notify)
          PROVE  Looks' /\ Returns'
      BY <3>2 DEF Play, IndType
    <3>3. ASSUME NEW u \in Slots,
                 (\E state \in BOOLEAN : SetState(u, state)) \/ EndEarly(u)
          PROVE  Looks' /\ Returns'
      BY <3>3 DEF SetState, EndEarly, IndType
    <3>4. CASE Flush \/ FlushSet
      BY <3>4 DEF Flush, FlushSet, IndType
    <3>5. CASE FlushLook
      BY <3>5 DEF FlushLook, IndType, TypeOK, Slots
    <3> QED BY <3>1, <3>2, <3>3, <3>4, <3>5 DEF Next
  <2> QED BY <2>1, <2>2, <2>3 DEF IndType
<1> QED BY <1>1, <1>2, PTL DEF Spec

\* Type correctness of samples.cpp: no sample is read past its end.
THEOREM TypeCorrect == Spec => []TypeOK
<1>1. IndType => TypeOK
  BY DEF IndType
<1> QED BY <1>1, IndTypeInvariant, PTL

\* No sample of the script is read once its memory is given back, whatever the
\* audio thread is doing while samples_flush_queue runs (samples.cpp:308,
\* singeproxy.cpp:625).
THEOREM FlushSilences == Spec => []Silenced
<1>1. Init => Silenced
  BY DEF Init, Silenced, Flushed
<1>2. IndType /\ Silenced /\ [Next]_vars => Silenced'
  <2> SUFFICES ASSUME IndType, Silenced, [Next]_vars,
                      NEW w \in Slots, Flushed(w)', slot'[w].active
               PROVE  slot'[w].early
    BY DEF Silenced
  <2> USE DEF Silenced, Flushed
  <2>1. CASE Begin \/ CallbackBegins \/ CallbackReturns \/ UNCHANGED vars
    BY <2>1 DEF Begin, CallbackBegins, CallbackReturns, vars
  <2>2. CASE Mix
    <3>1. pc' = pc /\ look' = look
      BY <2>2 DEF Mix
    <3>2. CASE w # mixing \/ ~slot[mixing].active
      <4>1. slot'[w] = slot[w]
        BY <2>2, <3>2 DEF Mix, IndType, TypeOK
      <4> QED BY <3>1, <4>1
    <3>3. CASE w = mixing /\ slot[w].active
      <4>1. slot[w] \in SlotType
        BY DEF IndType, TypeOK
      <4>2. slot'[w] = Mixed(slot[w])
        BY <2>2, <3>3 DEF Mix, IndType, TypeOK
      <4> QED BY <3>1, <3>3, <4>1, <4>2, MixedIsSlot
    <3> QED BY <3>2, <3>3
  <2>3. ASSUME NEW length \in Lengths, NEW notify \in BOOLEAN, Play(length, notify)
        PROVE  FALSE
    BY <2>3 DEF Play, Script
  <2>4. ASSUME NEW u \in Slots,
               (\E state \in BOOLEAN : SetState(u, state)) \/ EndEarly(u)
        PROVE  FALSE
    BY <2>4 DEF SetState, EndEarly, Script
  <2>5. CASE Flush
    BY <2>5 DEF Flush, Slots
  <2>6. CASE FlushLook
    <3>1. slot' = slot /\ pc = "look"
      BY <2>6 DEF FlushLook
    <3>2. CASE look = N
      BY <3>1, <3>2, SlotsAssumption DEF Slots
    <3>3. CASE look # N /\ slot[look].active
      BY <2>6, <3>1, <3>3 DEF FlushLook
    <3>4. CASE look # N /\ ~slot[look].active
      BY <2>6, <3>1, <3>4 DEF FlushLook, IndType, TypeOK, Slots
    <3> QED BY <3>2, <3>3, <3>4
  <2>7. CASE FlushSet
    <3>1. CASE w = look
      <4>1. slot[w] \in SlotType
        BY DEF IndType, TypeOK
      <4>2. slot'[w] = [slot[w] EXCEPT !.early = TRUE]
        BY <2>7, <3>1 DEF FlushSet, IndType, TypeOK
      <4> QED BY <4>1, <4>2 DEF SlotType
    <3>2. CASE w # look
      <4>1. slot'[w] = slot[w]
        BY <2>7, <3>2 DEF FlushSet, IndType, TypeOK
      <4> QED BY <2>7, <3>2, <4>1 DEF FlushSet, IndType, TypeOK, Slots
    <3> QED BY <3>1, <3>2
  <2> QED BY <2>1, <2>2, <2>3, <2>4, <2>5, <2>6, <2>7 DEF Next
<1> QED BY <1>1, <1>2, IndTypeInvariant, PTL DEF Spec

-----------------------------------------------------------------------------
(* Each end is told once.  An end is in one of two places, among those the *)
(* script was told of or among those that wait; t and w stand for them.    *)

In(t, w, p) == p \in Elements(t) \/ \E j \in DOMAIN w : w[j].play = p

Once(t, w, p) ==
  /\ \A i, j \in DOMAIN t : t[i] = p /\ t[j] = p => i = j
  /\ \A i, j \in DOMAIN w : w[i].play = p /\ w[j].play = p => i = j
  /\ \A i \in DOMAIN t, j \in DOMAIN w : ~(t[i] = p /\ w[j].play = p)

\* The end that is being handled is told already, and still in front.
Fronted == Locked => Head(queue).play \in Elements(told)

\* Slots hold different plays, each of which has begun, as have those that ended.
Numbered ==
  /\ \A u \in Slots : slot[u].play <= plays
  /\ \A u, v \in Slots : slot[u].play = slot[v].play /\ slot[u].play # 0 => u = v
  /\ \A p \in Nat : In(told, Waiting, p) => p <= plays

Onces == \A p \in Plays \ revived : Once(told, Waiting, p)
Overs == \A p \in Plays \ revived, u \in Slots :
           In(told, Waiting, p) /\ slot[u].play = p => ~slot[u].active

OnceInv == Fronted /\ Numbered /\ Onces /\ Overs

\* An end that the audio thread queues is the only one of its play.
LEMMA QueuedOnce ==
  ASSUME NEW t \in Seq(Nat), NEW w \in Seq(CallbackType), NEW q \in CallbackType, NEW p,
         Once(t, w, p), q.play = p => ~In(t, w, p)
  PROVE  Once(t, Append(w, q), p)
<1> DEFINE x == Append(w, q)
<1>1. /\ DOMAIN w = 1 .. Len(w) /\ Len(w) \in Nat
      /\ DOMAIN x = 1 .. Len(w) + 1
      /\ \A i \in 1 .. Len(w) : x[i] = w[i]
      /\ x[Len(w) + 1] = q
  OBVIOUS
<1> HIDE DEF x
<1>2. \A i \in DOMAIN x : (i \in DOMAIN w /\ x[i] = w[i]) \/ (i = Len(w) + 1 /\ x[i] = q)
  BY <1>1
<1>3. q.play = p => \A i \in DOMAIN w : w[i].play # p
  BY DEF In
<1>4. q.play = p => \A i \in DOMAIN t : t[i] # p
  BY DEF In, Elements
<1>5. \A i, j \in DOMAIN x : x[i].play = p /\ x[j].play = p => i = j
  BY <1>2, <1>3 DEF Once
<1>6. \A i \in DOMAIN t, j \in DOMAIN x : ~(t[i] = p /\ x[j].play = p)
  BY <1>2, <1>4 DEF Once
<1>7. Once(t, x, p)
  BY <1>5, <1>6 DEF Once
<1> QED BY <1>7 DEF x

\* A callback is among those waiting only if it was before or is the one that is queued.
LEMMA QueuedIn ==
  ASSUME NEW t, NEW w \in Seq(CallbackType), NEW q \in CallbackType, NEW p,
         In(t, Append(w, q), p)
  PROVE  In(t, w, p) \/ q.play = p
  BY DEF In

\* An end that goes from the queue to the script stays the only one.
LEMMA ToldStays ==
  ASSUME NEW t \in Seq(Nat), NEW w \in Seq(CallbackType), w # <<>>, NEW p
  PROVE  /\ In(Append(t, Head(w).play), Tail(w), p) <=> In(t, w, p)
         /\ Once(t, w, p) => Once(Append(t, Head(w).play), Tail(w), p)
<1> DEFINE h == Head(w).play
           y == Append(t, h)
           x == Tail(w)
<1>1. /\ DOMAIN w = 1 .. Len(w) /\ Len(w) \in Nat /\ Len(w) >= 1
      /\ DOMAIN x = 1 .. Len(w) - 1
      /\ \A i \in 1 .. Len(w) - 1 : x[i] = w[i + 1]
      /\ h = w[1].play /\ h \in Nat
  <2>1. /\ DOMAIN w = 1 .. Len(w) /\ Len(w) \in Nat /\ Len(w) >= 1
        /\ Head(w) = w[1] /\ w[1] \in CallbackType
    OBVIOUS
  <2>2. w[1].play \in Nat
    BY <2>1 DEF CallbackType
  <2>3. /\ DOMAIN x = 1 .. Len(w) - 1
        /\ \A i \in 1 .. Len(w) - 1 : x[i] = w[i + 1]
    BY <2>1
  <2> QED BY <2>1, <2>2, <2>3
<1>2. /\ DOMAIN t = 1 .. Len(t) /\ Len(t) \in Nat
      /\ DOMAIN y = 1 .. Len(t) + 1
      /\ \A i \in 1 .. Len(t) : y[i] = t[i]
      /\ y[Len(t) + 1] = h
  BY <1>1
<1> HIDE DEF h, x, y
<1>3. \A i \in DOMAIN y : (i \in DOMAIN t /\ y[i] = t[i]) \/ (i = Len(t) + 1 /\ y[i] = h)
  BY <1>2
<1>4. \A i \in DOMAIN x : i + 1 \in DOMAIN w /\ i + 1 # 1 /\ x[i] = w[i + 1]
  BY <1>1
<1>5. \A j \in DOMAIN w : j = 1 \/ (j - 1 \in DOMAIN x /\ x[j - 1] = w[j])
  BY <1>1
<1>6. \A i \in DOMAIN t : i \in DOMAIN y /\ y[i] = t[i]
  BY <1>2
<1>7. 1 \in DOMAIN w /\ w[1].play = h /\ Len(t) + 1 \in DOMAIN y /\ y[Len(t) + 1] = h
  BY <1>1, <1>2
<1>8. In(y, x, p) => In(t, w, p)
  BY <1>3, <1>4, <1>7 DEF In, Elements
<1>9. In(t, w, p) => In(y, x, p)
  <2>1. ASSUME NEW i \in DOMAIN t, t[i] = p PROVE In(y, x, p)
    BY <1>6, <2>1 DEF In, Elements
  <2>2. ASSUME NEW j \in DOMAIN w, w[j].play = p PROVE In(y, x, p)
    <3>1. CASE j = 1
      BY <1>7, <2>2, <3>1 DEF In, Elements
    <3>2. CASE j # 1
      BY <1>5, <2>2, <3>2 DEF In
    <3> QED BY <3>1, <3>2
  <2> QED BY <2>1, <2>2 DEF In, Elements
<1>10. ASSUME Once(t, w, p) PROVE Once(y, x, p)
  <2>1. \A i, j \in DOMAIN y : y[i] = p /\ y[j] = p => i = j
    BY <1>3, <1>7, <1>10 DEF Once
  <2>2. \A i, j \in DOMAIN x : x[i].play = p /\ x[j].play = p => i = j
    <3> SUFFICES ASSUME NEW i \in DOMAIN x, NEW j \in DOMAIN x,
                        x[i].play = p, x[j].play = p
                 PROVE  i = j
      OBVIOUS
    <3>1. i + 1 = j + 1
      BY <1>4, <1>10 DEF Once
    <3> QED BY <1>1, <3>1
  <2>3. ASSUME NEW i \in DOMAIN y, NEW j \in DOMAIN x, y[i] = p, x[j].play = p
        PROVE  FALSE
    <3>1. j + 1 \in DOMAIN w /\ j + 1 # 1 /\ w[j + 1].play = p
      BY <1>4, <2>3
    <3>2. CASE i \in DOMAIN t /\ y[i] = t[i]
      BY <1>10, <2>3, <3>1, <3>2 DEF Once
    <3>3. CASE y[i] = h
      BY <1>7, <1>10, <2>3, <3>1, <3>3 DEF Once
    <3> QED BY <1>3, <3>2, <3>3
  <2> QED BY <2>1, <2>2, <2>3 DEF Once
<1> QED BY <1>8, <1>9, <1>10 DEF h, x, y

\* What waits is a queue, and what has ended is told or waits.
LEMMA WaitingIsQueue ==
  ASSUME IndType
  PROVE  Waiting \in Seq(CallbackType) /\ told \in Seq(Nat)
  BY DEF IndType, TypeOK, Handled, Waiting

\* An end is there just when it was told or still waits to be.
LEMMA EndedIsIn ==
  ASSUME IndType, Fronted, NEW p
  PROVE  Ended(p) <=> In(told, Waiting, p)
<1>1. CASE ~Locked
  BY <1>1 DEF Ended, In, Waiting, Elements
<1>2. CASE Locked
  <2>1. queue \in Seq(CallbackType) /\ queue # <<>> /\ Waiting = Tail(queue)
    BY <1>2 DEF IndType, TypeOK, Handled, Waiting
  <2>2. /\ \A i \in DOMAIN queue : \/ i = 1
                                    \/ /\ i - 1 \in DOMAIN Tail(queue)
                                       /\ Tail(queue)[i - 1] = queue[i]
        /\ \A i \in DOMAIN Tail(queue) : /\ i + 1 \in DOMAIN queue
                                          /\ Tail(queue)[i] = queue[i + 1]
        /\ Head(queue) = queue[1]
    BY <2>1
  <2>3. queue[1].play \in Elements(told)
    BY <1>2, <2>2 DEF Fronted
  <2>4. 1 \in DOMAIN queue
    BY <2>1
  <2>5. (\E i \in DOMAIN queue : queue[i].play = p)
          <=> queue[1].play = p \/ \E j \in DOMAIN Tail(queue) : Tail(queue)[j].play = p
    BY <2>2, <2>4
  <2>6. (\E q \in Elements(queue) : q.play = p) <=> \E i \in DOMAIN queue : queue[i].play = p
    BY DEF Elements
  <2> QED BY <2>1, <2>3, <2>5, <2>6 DEF Ended, In
<1> QED BY <1>1, <1>2

\* What a step does to the ends that are told and those that wait.
LEMMA EndsMove ==
  ASSUME IndType, [Next]_vars
  PROVE  \/ told' = told /\ Waiting' = Waiting
         \/ /\ Mix /\ told' = told /\ slot[mixing].active
            /\ Over(slot[mixing]) /\ slot[mixing].notify
            /\ Waiting' = Append(Waiting, [slot |-> mixing, play |-> slot[mixing].play])
         \/ /\ CallbackBegins \/ CallbackReturns
            /\ Waiting # <<>> /\ Waiting' = Tail(Waiting)
            /\ told' = Append(told, Head(Waiting).play)
<1> USE DEF Waiting, Locked
<1>1. CASE Begin \/ FlushSet \/ UNCHANGED vars
  BY <1>1 DEF Begin, FlushSet, vars
<1>2. ASSUME NEW length \in Lengths, NEW notify \in BOOLEAN, Play(length, notify)
      PROVE  told' = told /\ Waiting' = Waiting
  BY <1>2 DEF Play
<1>3. ASSUME NEW u \in Slots,
             (\E state \in BOOLEAN : SetState(u, state)) \/ EndEarly(u)
      PROVE  told' = told /\ Waiting' = Waiting
  BY <1>3 DEF SetState, EndEarly
<1>4. CASE Flush
  BY <1>4 DEF Flush, IndType, Returns
<1>5. CASE FlushLook
  BY <1>5 DEF FlushLook, IndType, Returns, TypeOK
<1>6. CASE Mix
  <2> DEFINE q == [slot |-> mixing, play |-> slot[mixing].play]
  <2>1. \/ queue' = queue
        \/ /\ slot[mixing].active /\ Over(slot[mixing]) /\ slot[mixing].notify
           /\ queue' = Append(queue, q)
    BY <1>6 DEF Mix
  <2>2. UNCHANGED <<told, pc, after>>
    BY <1>6 DEF Mix
  <2>3. mixing \in Slots /\ slot[mixing] \in SlotType
    BY <1>6, SlotsAssumption DEF Mix, IndType, TypeOK, Slots
  <2>4. q \in CallbackType
    BY <2>3 DEF SlotType, CallbackType
  <2> HIDE DEF q
  <2>5. Locked => Tail(Append(queue, q)) = Append(Tail(queue), q)
    BY <2>4 DEF IndType, TypeOK, Handled
  <2>6. CASE queue' = queue
    BY <2>2, <2>6
  <2>7. CASE queue' # queue
    BY <1>6, <2>1, <2>2, <2>5, <2>7 DEF q
  <2> QED BY <2>6, <2>7
<1>7. CASE CallbackBegins
  BY <1>7 DEF CallbackBegins, IndType, Returns
<1>8. CASE CallbackReturns
  <2>1. queue \in Seq(CallbackType) /\ queue # <<>> /\ Waiting = Tail(queue)
    BY <1>8 DEF CallbackReturns, IndType, TypeOK, Handled
  <2>2. after = "script"
    BY <1>8 DEF CallbackReturns, IndType, Returns, TypeOK
  <2>3. CASE Len(queue) > 1
    <3>1. Tail(queue) # <<>> /\ Head(Tail(queue)) = queue[2]
      BY <2>1, <2>3
    <3>2. Locked'
      BY <1>8, <2>3 DEF CallbackReturns
    <3> QED BY <1>8, <2>1, <2>3, <3>1, <3>2 DEF CallbackReturns
  <2>4. CASE ~(Len(queue) > 1)
    <3>1. ~Locked' /\ told' = told /\ queue' = Tail(queue)
      BY <1>8, <2>2, <2>4 DEF CallbackReturns
    <3> QED BY <2>1, <3>1
  <2> QED BY <2>3, <2>4
<1> QED BY <1>1, <1>2, <1>3, <1>4, <1>5, <1>6, <1>7, <1>8 DEF Next

\* While the queue is handled, its first end has been told to the script.
LEMMA FrontedStep ==
  ASSUME IndType, IndType', OnceInv, [Next]_vars
  PROVE  Fronted'
<1> USE DEF Fronted, Locked, OnceInv
<1>1. CASE Begin \/ FlushSet \/ UNCHANGED vars
  BY <1>1 DEF Begin, FlushSet, vars
<1>2. ASSUME NEW length \in Lengths, NEW notify \in BOOLEAN, Play(length, notify)
      PROVE  Fronted'
  BY <1>2 DEF Play
<1>3. ASSUME NEW u \in Slots,
             (\E state \in BOOLEAN : SetState(u, state)) \/ EndEarly(u)
      PROVE  Fronted'
  BY <1>3 DEF SetState, EndEarly
<1>4. CASE Flush
  BY <1>4 DEF Flush, IndType, Returns
<1>5. CASE FlushLook
  BY <1>5 DEF FlushLook, IndType, Returns, TypeOK
<1>6. CASE Mix
  <2>1. UNCHANGED <<told, pc, after>>
    BY <1>6 DEF Mix
  <2>2. Locked => queue # <<>> /\ queue \in Seq(CallbackType)
    BY DEF IndType, TypeOK, Handled
  <2>3. queue' = queue \/ \E q \in CallbackType : queue' = Append(queue, q)
    BY <1>6, MixQueues DEF IndType
  <2>4. Locked => Head(queue') = Head(queue)
    BY <2>2, <2>3
  <2> QED BY <2>1, <2>4
<1>7. CASE CallbackBegins
  <2>1. told' = Append(told, Head(queue).play) /\ queue' = queue
    BY <1>7 DEF CallbackBegins
  <2>2. told \in Seq(Nat) /\ Head(queue).play \in Nat
    <3>1. Head(queue) \in CallbackType
      BY <1>7 DEF CallbackBegins, IndType, TypeOK
    <3> QED BY <3>1 DEF CallbackType, IndType, TypeOK
  <2>3. Len(told) + 1 \in DOMAIN told' /\ told'[Len(told) + 1] = Head(queue).play
    BY <2>1, <2>2
  <2> QED BY <2>1, <2>3 DEF Elements
<1>8. CASE CallbackReturns
  <2>1. queue \in Seq(CallbackType) /\ queue # <<>> /\ after = "script"
    BY <1>8 DEF CallbackReturns, IndType, TypeOK, Handled, Returns
  <2>2. CASE Len(queue) > 1
    <3>1. /\ Head(Tail(queue)) = queue[2] /\ queue[2] \in CallbackType
          /\ told \in Seq(Nat)
      BY <2>1, <2>2 DEF IndType, TypeOK
    <3>2. queue' = Tail(queue) /\ told' = Append(told, queue[2].play)
      BY <1>8, <2>2 DEF CallbackReturns
    <3>3. queue[2].play \in Nat
      BY <3>1 DEF CallbackType
    <3>4. Len(told) + 1 \in DOMAIN told' /\ told'[Len(told) + 1] = queue[2].play
      BY <3>1, <3>2, <3>3
    <3> QED BY <3>1, <3>2, <3>4 DEF Elements
  <2>3. CASE ~(Len(queue) > 1)
    BY <1>8, <2>1, <2>3 DEF CallbackReturns
  <2> QED BY <2>2, <2>3
<1> QED BY <1>1, <1>2, <1>3, <1>4, <1>5, <1>6, <1>7, <1>8 DEF Next

\* Only a new play gets a number, and it is a new one.
LEMMA SlotsMove ==
  ASSUME IndType, [Next]_vars
  PROVE  \/ /\ \E u \in Slots : /\ slot'[u].play = plays + 1
                                /\ \A v \in Slots \ {u} : slot'[v] = slot[v]
            /\ plays' = plays + 1 /\ revived' = revived
            /\ told' = told /\ Waiting' = Waiting
         \/ /\ plays' = plays /\ \A u \in Slots : slot'[u].play = slot[u].play
            /\ revived \subseteq revived'
            /\ \/ revived' = revived
                  /\ \A u \in Slots : slot'[u].active => slot[u].active
               \/ \E u \in Slots, state \in BOOLEAN : SetState(u, state)
<1>1. CASE Begin \/ Flush \/ FlushLook \/ CallbackBegins \/ CallbackReturns \/ UNCHANGED vars
  BY <1>1 DEF Begin, Flush, FlushLook, CallbackBegins, CallbackReturns, vars
<1>2. ASSUME NEW length \in Lengths, NEW notify \in BOOLEAN, Play(length, notify)
      PROVE  /\ \E u \in Slots : /\ slot'[u].play = plays + 1
                                 /\ \A v \in Slots \ {u} : slot'[v] = slot[v]
             /\ plays' = plays + 1 /\ revived' = revived
             /\ told' = told /\ Waiting' = Waiting
  <2>1. PICK u \in Slots :
          slot' = [slot EXCEPT ![u] = [active |-> TRUE, early |-> FALSE,
                     left |-> length, notify |-> notify, play |-> plays + 1]]
    BY <1>2 DEF Play
  <2>2. slot'[u].play = plays + 1 /\ \A v \in Slots \ {u} : slot'[v] = slot[v]
    BY <2>1 DEF IndType, TypeOK
  <2> QED BY <1>2, <2>2 DEF Play, Waiting, Locked
<1>3. ASSUME NEW u \in Slots, NEW state \in BOOLEAN, SetState(u, state)
      PROVE  /\ plays' = plays /\ \A v \in Slots : slot'[v].play = slot[v].play
             /\ revived \subseteq revived'
  <2>1. \A v \in Slots : slot'[v].play = slot[v].play
    BY <1>3 DEF SetState, IndType, TypeOK, SlotType
  <2> QED BY <1>3, <2>1 DEF SetState
<1>4. ASSUME NEW w \in Slots, EndEarly(w) \/ (FlushSet /\ w = look)
      PROVE  /\ plays' = plays /\ revived' = revived
             /\ \A u \in Slots : slot'[u].play = slot[u].play
             /\ \A u \in Slots : slot'[u].active => slot[u].active
  <2>1. slot' = [slot EXCEPT ![w].early = TRUE]
    BY <1>4 DEF EndEarly, FlushSet
  <2>2. \A u \in Slots : slot[u] \in SlotType
    BY DEF IndType, TypeOK
  <2>3. \A u \in Slots : slot'[u].play = slot[u].play /\ slot'[u].active = slot[u].active
    BY <2>1, <2>2 DEF IndType, TypeOK, SlotType
  <2> QED BY <1>4, <2>3 DEF EndEarly, FlushSet
<1>5. CASE Mix
  <2>1. mixing \in Slots /\ \A u \in Slots : slot[u] \in SlotType
    BY <1>5, SlotsAssumption DEF Mix, IndType, TypeOK, Slots
  <2>2. slot' = slot \/ /\ slot[mixing].active
                        /\ slot' = [slot EXCEPT ![mixing] = Mixed(slot[mixing])]
    BY <1>5 DEF Mix
  <2>3. Mixed(slot[mixing]).play = slot[mixing].play
    BY <2>1 DEF Mixed, SlotType
  <2>4. \A u \in Slots : slot'[u].play = slot[u].play
    BY <2>1, <2>2, <2>3 DEF IndType, TypeOK
  <2>5. \A u \in Slots : slot'[u].active => slot[u].active
    BY <2>1, <2>2 DEF IndType, TypeOK
  <2> QED BY <1>5, <2>4, <2>5 DEF Mix
<1>6. FlushSet => look \in Slots
  BY DEF FlushSet, IndType, Looks
<1> QED BY <1>1, <1>2, <1>3, <1>4, <1>5, <1>6 DEF Next

\* Every step keeps the ends of each play to one.
LEMMA OnceInvStep ==
  ASSUME IndType, IndType', OnceInv, [Next]_vars
  PROVE  OnceInv'
<1> DEFINE P == Plays \ revived
           s == slot[mixing]
           q == [slot |-> mixing, play |-> s.play]
           h == Head(Waiting).play
<1>1. Waiting \in Seq(CallbackType) /\ told \in Seq(Nat)
  BY WaitingIsQueue
<1>2. /\ plays \in Nat /\ \A u \in Slots : slot[u] \in SlotType
      /\ \A u \in Slots : slot[u].play \in Nat
  <2>1. plays \in Nat /\ \A u \in Slots : slot[u] \in SlotType
    BY DEF IndType, TypeOK
  <2> QED BY <2>1 DEF SlotType
<1>3. revived \subseteq revived'
  BY SlotsMove
<1>4. CASE told' = told /\ Waiting' = Waiting
  <2>1. Numbered'
    <3>1. CASE plays' = plays /\ \A u \in Slots : slot'[u].play = slot[u].play
      BY <1>4, <3>1 DEF OnceInv, Numbered
    <3>2. ASSUME NEW u \in Slots, slot'[u].play = plays + 1, plays' = plays + 1,
                 \A v \in Slots \ {u} : slot'[v] = slot[v]
          PROVE  Numbered'
      <4>1. \A v \in Slots : slot'[v].play <= plays'
        BY <1>2, <3>2 DEF OnceInv, Numbered
      <4>2. ASSUME NEW v \in Slots, NEW w \in Slots,
                   slot'[v].play = slot'[w].play, slot'[v].play # 0
            PROVE  v = w
        <5>1. \A x \in Slots \ {u} : slot'[x].play \in Nat /\ slot'[x].play <= plays
          BY <1>2, <3>2 DEF OnceInv, Numbered
        <5>2. \A x \in Slots \ {u} : slot'[x].play # slot'[u].play
          BY <1>2, <3>2, <5>1
        <5> QED BY <3>2, <4>2, <5>2 DEF OnceInv, Numbered
      <4>3. \A p \in Nat : In(told', Waiting', p) => p <= plays'
        BY <1>2, <1>4, <3>2 DEF OnceInv, Numbered
      <4> QED BY <4>1, <4>2, <4>3 DEF Numbered
    <3> QED BY <3>1, <3>2, SlotsMove
  <2>2. Onces'
    BY <1>3, <1>4 DEF OnceInv, Onces
  <2>3. Overs'
    <3> SUFFICES ASSUME NEW p \in Plays, p \notin revived', NEW v \in Slots,
                        In(told, Waiting, p), slot'[v].play = p, slot'[v].active
                 PROVE  FALSE
      BY <1>4 DEF Overs
    <3>1. p \in Nat /\ p \notin revived /\ p <= plays
      BY <1>3, BoundsAssumption DEF OnceInv, Numbered, Plays
    <3>2. slot[v].play = p => ~slot[v].active
      BY <3>1 DEF OnceInv, Overs
    <3>3. ASSUME NEW u \in Slots, slot'[u].play = plays + 1,
                 \A w \in Slots \ {u} : slot'[w] = slot[w]
          PROVE  FALSE
      <4>1. v # u
        BY <1>2, <3>1, <3>3
      <4> QED BY <3>2, <3>3, <4>1
    <3>4. ASSUME \A u \in Slots : slot'[u].play = slot[u].play,
                 \A u \in Slots : slot'[u].active => slot[u].active
          PROVE  FALSE
      BY <3>2, <3>4
    <3>5. ASSUME NEW u \in Slots, NEW state \in BOOLEAN, SetState(u, state),
                 \A w \in Slots : slot'[w].play = slot[w].play
          PROVE  FALSE
      <4>1. slot' = [slot EXCEPT ![u].active = state]
        BY <3>5 DEF SetState
      <4>2. slot[v].play = p /\ ~slot[v].active
        BY <3>2, <3>5
      <4>3. v = u
        BY <4>1, <4>2 DEF IndType, TypeOK, SlotType
      <4>4. state
        <5>1. slot'[u].active = state
          BY <1>2, <4>1 DEF IndType, TypeOK, SlotType
        <5> QED BY <4>3, <5>1
      <4>5. Ended(p)
        BY EndedIsIn DEF OnceInv
      <4>6. p \in revived'
        BY <3>5, <4>2, <4>3, <4>4, <4>5 DEF SetState
      <4> QED BY <4>6
    <3> QED BY <3>3, <3>4, <3>5, SlotsMove
  <2> QED BY <2>1, <2>2, <2>3, FrontedStep DEF OnceInv
<1>5. CASE /\ Mix /\ told' = told /\ s.active /\ Over(s) /\ s.notify
           /\ Waiting' = Append(Waiting, q)
  <2>1. mixing \in Slots
    BY <1>5, SlotsAssumption DEF Mix, IndType, TypeOK, Slots
  <2>2. q \in CallbackType /\ q.play = s.play
    BY <1>2, <2>1 DEF CallbackType
  <2>3. \A p : In(told', Waiting', p) => In(told, Waiting, p) \/ s.play = p
    BY <1>1, <1>5, <2>2, QueuedIn
  <2>4. /\ plays' = plays /\ revived' = revived
        /\ \A u \in Slots : slot'[u].play = slot[u].play
        /\ \A u \in Slots : slot'[u].active => slot[u].active
    <3>1. plays' = plays /\ revived' = revived /\ pc' = pc
      BY <1>5 DEF Mix
    <3>2. ~(\E u \in Slots, state \in BOOLEAN : SetState(u, state))
      BY <1>5 DEF Mix, SetState, Script
    <3>3. plays' # plays + 1
      BY <1>2, <3>1
    <3> QED BY <3>1, <3>2, <3>3, SlotsMove
  <2>5. ~slot'[mixing].active
    <3>1. slot' = [slot EXCEPT ![mixing] = Mixed(s)]
      BY <1>5 DEF Mix
    <3>2. Mixed(s).active = ~Over(s)
      BY <1>2, <2>1, MixedIsSlot
    <3> QED BY <1>5, <2>1, <3>1, <3>2 DEF IndType, TypeOK
  <2>6. Numbered'
    <3>1. \A p \in Nat : In(told', Waiting', p) => p <= plays'
      BY <1>2, <2>1, <2>3, <2>4 DEF OnceInv, Numbered
    <3> QED BY <2>4, <3>1 DEF OnceInv, Numbered
  <2>7. Onces'
    <3> SUFFICES ASSUME NEW p \in P PROVE Once(told', Waiting', p)
      BY <2>4 DEF Onces
    <3>1. q.play = p => ~In(told, Waiting, p)
      BY <1>5, <2>1, <2>2 DEF OnceInv, Overs
    <3>2. Once(told, Waiting, p)
      BY DEF OnceInv, Onces
    <3>3. Once(told, Append(Waiting, q), p)
      <4> HIDE DEF q, P
      <4> QED BY <1>1, <2>2, <3>1, <3>2, QueuedOnce
    <3> QED BY <1>5, <3>3
  <2>8. Overs'
    <3> SUFFICES ASSUME NEW p \in P, NEW u \in Slots,
                        In(told', Waiting', p), slot'[u].play = p, slot'[u].active
                 PROVE  FALSE
      BY <2>4 DEF Overs
    <3>1. slot[u].play = p /\ slot[u].active
      BY <2>4
    <3>2. ~In(told, Waiting, p)
      BY <3>1 DEF OnceInv, Overs
    <3>3. s.play = p /\ p # 0
      BY <2>3, <3>2, BoundsAssumption DEF Plays
    <3>4. u = mixing
      BY <2>1, <3>1, <3>3 DEF OnceInv, Numbered
    <3> QED BY <2>5, <3>4
  <2> QED BY <2>6, <2>7, <2>8, FrontedStep DEF OnceInv
<1>6. CASE /\ CallbackBegins \/ CallbackReturns
           /\ Waiting # <<>> /\ Waiting' = Tail(Waiting) /\ told' = Append(told, h)
  <2>1. \A p : In(told', Waiting', p) <=> In(told, Waiting, p)
    BY <1>1, <1>6, ToldStays
  <2>2. \A p : Once(told, Waiting, p) => Once(told', Waiting', p)
    BY <1>1, <1>6, ToldStays
  <2>3. UNCHANGED <<slot, plays, revived>>
    BY <1>6 DEF CallbackBegins, CallbackReturns
  <2>4. Numbered' /\ Onces' /\ Overs'
    BY <2>1, <2>2, <2>3 DEF OnceInv, Numbered, Onces, Overs
  <2> QED BY <2>4, FrontedStep DEF OnceInv
<1> QED BY <1>4, <1>5, <1>6, EndsMove

\* At most one place in a sequence holds a play that was told once.
LEMMA AtMostOne ==
  ASSUME NEW S, \A x, y \in S : x = y
  PROVE  Cardinality(S) = IF S = {} THEN 0 ELSE 1
<1>1. CASE S = {}
  BY <1>1, FS_EmptySet
<1>2. ASSUME NEW x \in S PROVE Cardinality(S) = 1
  <2>1. S = {x}
    OBVIOUS
  <2> QED BY <2>1, FS_Singleton
<1> QED BY <1>1, <1>2

\* The script is told of each end once, and of none that still plays, however the
\* audio thread and the handlers come in between (samples.cpp:159, :334), but for
\* samples that it resumed after their end.
THEOREM EachEndOnce == Spec => []ToldOnce
<1>1. Init => OnceInv
  <2> SUFFICES ASSUME Init PROVE OnceInv
    OBVIOUS
  <2>1. ~Locked /\ Waiting = <<>> /\ told = <<>> /\ plays = 0
    BY DEF Init, Locked, Waiting
  <2>2. \A p : ~In(told, Waiting, p) /\ Once(told, Waiting, p)
    BY <2>1 DEF In, Once, Elements
  <2>3. \A u \in Slots : slot[u].play = 0
    BY DEF Init
  <2> QED BY <2>1, <2>2, <2>3 DEF OnceInv, Fronted, Numbered, Onces, Overs
<1>2. IndType /\ IndType' /\ OnceInv /\ [Next]_vars => OnceInv'
  BY OnceInvStep
<1>3. IndType /\ OnceInv => ToldOnce
  <2> SUFFICES ASSUME IndType, OnceInv, NEW p \in Plays \ revived
               PROVE  /\ Cardinality({i \in DOMAIN told : told[i] = p})
                         + Cardinality({i \in DOMAIN Waiting : Waiting[i].play = p}) <= 1
                      /\ Ended(p) => \A u \in Slots : slot[u].play = p => ~slot[u].active
    BY DEF ToldOnce
  <2> DEFINE T == {i \in DOMAIN told : told[i] = p}
             W == {i \in DOMAIN Waiting : Waiting[i].play = p}
  <2>1. Once(told, Waiting, p)
    BY DEF OnceInv, Onces
  <2>2. (\A x, y \in T : x = y) /\ (\A x, y \in W : x = y) /\ (T = {} \/ W = {})
    BY <2>1 DEF Once
  <2> HIDE DEF T, W
  <2>3. Cardinality(T) + Cardinality(W) <= 1
    <3>1. /\ Cardinality(T) = IF T = {} THEN 0 ELSE 1
          /\ Cardinality(W) = IF W = {} THEN 0 ELSE 1
      BY <2>2, AtMostOne
    <3> QED BY <2>2, <3>1
  <2>4. Ended(p) => \A u \in Slots : slot[u].play = p => ~slot[u].active
    BY EndedIsIn DEF OnceInv, Overs
  <2> QED BY <2>3, <2>4 DEF T, W
<1> QED BY <1>1, <1>2, <1>3, IndTypeInvariant, PTL DEF Spec

-----------------------------------------------------------------------------
(* The disc's stream                                                       *)

\* Sound never begins to play while a stream is being opened: only a stream that
\* was opened can be sought, and a search has paused the sound before.
Quiet ==
  /\ ~named => ogg = "none" /\ ~playing /\ todo \notin {"play", "restart", "seek"}
  /\ todo = "load" => ~named
  /\ todo \in {"find", "open", "seek", "restart"} => ~playing

Inv == AudioTypeOK /\ Quiet /\ InPlace

-----------------------------------------------------------------------------

\* AudioTypeOK in parts that the provers manage one at a time.
Numbers ==
  /\ len \in Lens /\ at \in Positions /\ upto \in Positions \cup {Elsewhere} /\ left \in 0 .. Chunk - 1
  /\ timer \in 0 .. MaxTime /\ elapsed \in 0 .. MaxTime
  /\ played \in Nat /\ from \in Int /\ owed \in 0 .. Chunk - 1 /\ round \in 0 .. Rounds - 1

Flags == /\ ready \in BOOLEAN /\ playing \in BOOLEAN /\ rolling \in BOOLEAN
         /\ opened \in BOOLEAN /\ named \in BOOLEAN

Words == /\ ogg \in {"none", "good", "bad"} /\ (ready => ogg = "good")
         /\ todo \in {"none", "find", "open", "seek", "restart", "load", "play"}

\* The type invariant, in three parts that are proved apart.
LEMMA TypeParts == AudioTypeOK <=> Numbers /\ Flags /\ Words
  BY Zenon DEF AudioTypeOK, Numbers, Flags, Words

\* No stream is open and nothing is buffered when the driver starts.
LEMMA InitInv == AudioInit => Inv
<1> SUFFICES ASSUME AudioInit PROVE Inv
  OBVIOUS
<1>1. Numbers
  BY SizeAssumption, CountAssumption DEF AudioInit, Numbers, Positions, Elsewhere
<1>2. Flags
  BY DEF AudioInit, Flags
<1>3. Words
  BY DEF AudioInit, Words
<1>4. Quiet
  BY DEF AudioInit, Quiet
<1>5. InPlace
  BY DEF AudioInit, InPlace
<1> QED
  BY <1>1, <1>2, <1>3, <1>4, <1>5, TypeParts DEF Inv

\* What one round does to the stream and to what is left over.
LEMMA FillEffect ==
  ASSUME AudioTypeOK, Fill
  PROVE  /\ at' \in Positions /\ left' \in 0 .. Chunk - 1
         /\ at' - left' = at - left + len /\ playing' = playing
         /\ Wanted = 0 => at' = at /\ left' = left - len
  BY SizeAssumption, CountAssumption DEF AudioTypeOK, Fill, Wanted, Positions

\* A stream that runs dry stays within its length, and nothing of it plays on.
LEMMA DryEffect ==
  ASSUME AudioTypeOK, RunsDry
  PROVE  at' \in Positions /\ left' \in 0 .. Chunk - 1 /\ playing' = FALSE
  BY SizeAssumption, CountAssumption DEF AudioTypeOK, RunsDry, Wanted, Positions

\* Every step keeps the positions and the lengths in their ranges.
LEMMA NumbersStep == AudioTypeOK /\ [AudioNext]_audioVars => Numbers'
<1> SUFFICES ASSUME AudioTypeOK, [AudioNext]_audioVars PROVE Numbers'
  OBVIOUS
<1> USE SizeAssumption, CountAssumption, TypeParts DEF Numbers
<1>1. CASE Pause \/ ChangeSpeed \/ Search
  BY <1>1 DEF Pause, ChangeSpeed, Search, Pauses, stream, count, leftover, driver
<1>2. CASE SearchFinds
  BY <1>2 DEF SearchFinds, stream, count, leftover
<1>3. CASE SearchSeeks
  BY <1>3 DEF SearchSeeks, Seek, stream, count, leftover, Positions
<1>4. CASE Skip
  BY <1>4 DEF Skip, Seek, count, leftover, Positions
<1>5. CASE Restart \/ PlayStarts
  BY <1>5 DEF Restart, PlayStarts, AudioPlay, stream, leftover, Stale, Heard, Positions, Elsewhere
<1>6. CASE PrePlay \/ PlayFails
  BY <1>6 DEF PrePlay, PlayFails, stream, count, leftover
<1>7. ASSUME NEW result \in {"good", "bad", "missing"}, Open(result) PROVE Numbers'
  BY <1>7 DEF Open, Opens, count, leftover, Positions, Elsewhere
<1>8. CASE Tick
  BY <1>8 DEF Tick, stream, count, leftover, driver
<1>9. CASE Silence
  BY <1>9 DEF Silence, count, leftover, driver, Unlocked
<1>10. CASE Round
  <2>1. at' \in Positions /\ left' \in 0 .. Chunk - 1
    BY <1>10, FillEffect, DryEffect DEF Round
  <2>2. /\ played' = played + len
        /\ round' = 0 \/ (round + 1 # Rounds /\ round' = round + 1)
    BY <1>10, Zenon DEF Round
  <2> HIDE TypeParts
  <2>3. len \in Nat /\ Rounds \in Nat \ {0} /\ played \in Nat /\ round \in 0 .. Rounds - 1
    BY TypeParts
  <2>4. played' \in Nat
    BY <2>2, <2>3
  <2>5. round' \in 0 .. Rounds - 1
    <3>1. CASE round' = 0
      BY <3>1, <2>3
    <3>2. CASE round + 1 # Rounds /\ round' = round + 1
      BY <3>2, <2>3
    <3> QED
      BY <2>2, <3>1, <3>2
  <2>6. upto' \in Positions \cup {Elsewhere}
    BY <1>10, <2>1, TypeParts DEF Round
  <2> QED
    BY <1>10, <2>1, <2>4, <2>5, <2>6, TypeParts DEF Round, driver
<1>11. CASE UNCHANGED audioVars
  BY <1>11 DEF audioVars, stream, count, leftover, driver
<1> QED
  BY <1>1, <1>2, <1>3, <1>4, <1>5, <1>6, <1>7, <1>8, <1>9, <1>10, <1>11 DEF AudioNext, Driver

\* Every step keeps the flags Boolean.
LEMMA FlagsStep == AudioTypeOK /\ [AudioNext]_audioVars => Flags'
<1> SUFFICES ASSUME AudioTypeOK, [AudioNext]_audioVars PROVE Flags'
  OBVIOUS
<1> USE TypeParts DEF Flags
<1>1. CASE Pause \/ ChangeSpeed \/ Search
  BY <1>1 DEF Pause, ChangeSpeed, Search, Pauses, stream, count, leftover, driver
<1>2. CASE SearchFinds
  BY <1>2 DEF SearchFinds, stream, count, leftover
<1>3. CASE SearchSeeks
  BY <1>3 DEF SearchSeeks, Seek, stream
<1>4. CASE Skip
  BY <1>4 DEF Skip, Seek
<1>5. CASE Restart \/ PlayStarts
  BY <1>5 DEF Restart, PlayStarts, AudioPlay, stream, leftover, Stale, Heard, Positions, Elsewhere
<1>6. CASE PrePlay \/ PlayFails
  BY <1>6 DEF PrePlay, PlayFails, stream, count, leftover
<1>7. ASSUME NEW result \in {"good", "bad", "missing"}, Open(result) PROVE Flags'
  <2>1. Opens(result)
    BY <1>7 DEF Open
  <2>2. ready' \in BOOLEAN /\ opened' \in BOOLEAN
    BY <2>1, Zenon DEF Opens
  <2>3. playing' \in BOOLEAN
    BY <2>1, Zenon DEF Opens
  <2> QED
    BY <2>1, <2>2, <2>3 DEF Opens
<1>8. CASE Tick
  BY <1>8 DEF Tick, stream, count, leftover, driver
<1>9. CASE Silence
  BY <1>9 DEF Silence, count, leftover, driver, Unlocked
<1>10. CASE Round
  <2>1. playing' \in BOOLEAN
    BY <1>10, FillEffect, DryEffect DEF Round
  <2> QED
    BY <1>10, <2>1 DEF Round, driver
<1>11. CASE UNCHANGED audioVars
  BY <1>11 DEF audioVars, stream, count, leftover, driver
<1> QED
  BY <1>1, <1>2, <1>3, <1>4, <1>5, <1>6, <1>7, <1>8, <1>9, <1>10, <1>11 DEF AudioNext, Driver

\* Every step keeps the states of the stream and of the driver among their names.
LEMMA WordsStep == AudioTypeOK /\ [AudioNext]_audioVars => Words'
<1> SUFFICES ASSUME AudioTypeOK, [AudioNext]_audioVars PROVE Words'
  OBVIOUS
<1> USE TypeParts DEF Words
<1>1. CASE Pause \/ ChangeSpeed \/ Search
  BY <1>1 DEF Pause, ChangeSpeed, Search, Pauses, stream, count, leftover, driver
<1>2. CASE SearchFinds
  BY <1>2 DEF SearchFinds, stream, count, leftover
<1>3. CASE SearchSeeks
  BY <1>3 DEF SearchSeeks, Seek, stream, count, leftover, Positions
<1>4. CASE Skip
  BY <1>4 DEF Skip, Seek, count, leftover, Positions
<1>5. CASE Restart \/ PlayStarts
  BY <1>5 DEF Restart, PlayStarts, AudioPlay, stream, leftover, Stale, Heard, Positions, Elsewhere
<1>6. CASE PrePlay \/ PlayFails
  BY <1>6 DEF PrePlay, PlayFails, stream, count, leftover
<1>7. ASSUME NEW result \in {"good", "bad", "missing"}, Open(result) PROVE Words'
  BY <1>7 DEF Open, Opens, count, leftover, Positions, Elsewhere
<1>8. CASE Tick
  BY <1>8 DEF Tick, stream, count, leftover, driver
<1>9. CASE Silence
  BY <1>9 DEF Silence, count, leftover, driver, Unlocked
<1>10. CASE Round
  BY <1>10 DEF Round, driver
<1>11. CASE UNCHANGED audioVars
  BY <1>11 DEF audioVars, stream, count, leftover, driver
<1> QED
  BY <1>1, <1>2, <1>3, <1>4, <1>5, <1>6, <1>7, <1>8, <1>9, <1>10, <1>11 DEF AudioNext, Driver

\* Every step keeps the types.
LEMMA TypeStep == AudioTypeOK /\ [AudioNext]_audioVars => AudioTypeOK'
<1> SUFFICES ASSUME AudioTypeOK, [AudioNext]_audioVars PROVE AudioTypeOK'
  OBVIOUS
<1>1. Numbers' /\ Flags' /\ Words'
  BY NumbersStep, FlagsStep, WordsStep
<1> QED
  BY <1>1 DEF AudioTypeOK, Numbers, Flags, Words

\* Without a stream nothing is open or plays, and while one is sought none does.
LEMMA QuietStep == AudioTypeOK /\ Quiet /\ [AudioNext]_audioVars => Quiet'
<1> SUFFICES ASSUME AudioTypeOK, Quiet, [AudioNext]_audioVars PROVE Quiet'
  OBVIOUS
<1>1. CASE Pause \/ ChangeSpeed \/ Search
  BY <1>1 DEF Pause, ChangeSpeed, Search, Pauses, Quiet, AudioTypeOK, stream, count, leftover, driver
<1>2. CASE SearchFinds
  BY <1>2 DEF SearchFinds, Quiet, AudioTypeOK, stream, count, leftover
<1>3. CASE SearchSeeks
  BY <1>3 DEF SearchSeeks, Seek, Quiet, AudioTypeOK, stream, count, leftover
<1>4. CASE Skip
  BY <1>4 DEF Skip, Seek, Quiet, AudioTypeOK, count
<1>5. CASE Restart \/ PlayStarts
  BY <1>5 DEF Restart, PlayStarts, AudioPlay, Quiet, AudioTypeOK, stream
<1>6. CASE PrePlay \/ PlayFails
  BY <1>6 DEF PrePlay, PlayFails, Quiet, AudioTypeOK, stream, count, leftover
<1>7. ASSUME NEW result \in {"good", "bad", "missing"}, Open(result) PROVE Quiet'
  BY <1>7 DEF Open, Opens, Quiet, AudioTypeOK, count
<1>8. CASE Tick \/ Silence \/ UNCHANGED audioVars
  BY <1>8 DEF Tick, Silence, Quiet, AudioTypeOK, audioVars, stream, count, leftover, driver
<1>9. CASE Round
  <2>1. playing' => playing
    BY <1>9, FillEffect, DryEffect DEF Round
  <2>2. UNCHANGED <<ogg, named, todo>>
    BY <1>9 DEF Round, driver
  <2> QED
    BY <2>1, <2>2 DEF Quiet
<1> QED
  BY <1>1, <1>2, <1>3, <1>4, <1>5, <1>6, <1>7, <1>8, <1>9 DEF AudioNext, Driver

\* A buffer of the card takes what is left over first, so that it takes exactly
\* what was left over of another place before the stream goes on.
LEMMA PlaceStep == Inv /\ [AudioNext]_audioVars => InPlace'
<1> SUFFICES ASSUME Inv, [AudioNext]_audioVars PROVE InPlace'
  OBVIOUS
<1> USE DEF Inv, InPlace
<1>1. CASE Pause \/ ChangeSpeed \/ Search
  BY <1>1 DEF Pause, ChangeSpeed, Search, Pauses, Heard, Stale, stream, count, leftover
<1>2. CASE SearchFinds \/ PrePlay \/ PlayFails
  BY <1>2 DEF SearchFinds, PrePlay, PlayFails, Heard, Stale, stream, count, leftover
<1>3. CASE SearchSeeks
  BY <1>3 DEF SearchSeeks, Seek, Heard, Stale, stream, count, leftover
<1>4. CASE Skip
  BY <1>4 DEF Skip, Seek, count, leftover
<1>5. CASE Restart \/ PlayStarts
  <2>1. Numbers
    BY TypeParts
  <2>2. /\ from' = (IF Stale THEN at ELSE Heard) /\ owed' = IF Stale THEN left ELSE 0
        /\ played' = 0 /\ UNCHANGED <<at, left, upto>>
    BY <1>5 DEF Restart, PlayStarts, AudioPlay, stream, leftover
  <2>3. at \in Int /\ left \in Nat /\ upto \in Int
    BY <2>1, SizeAssumption DEF Numbers, Positions, Elsewhere
  <2>4. Heard' = Heard /\ Heard \in Int /\ (Stale' <=> Stale) /\ (Stale => left > 0)
    BY <2>2, <2>3 DEF Heard, Stale
  <2>5. CASE Stale
    BY <2>2, <2>3, <2>4, <2>5
  <2>6. CASE ~Stale
    BY <2>2, <2>3, <2>4, <2>6
  <2> QED
    BY <2>5, <2>6
<1>6. ASSUME NEW result \in {"good", "bad", "missing"}, Open(result) PROVE InPlace'
  \* Nothing plays afterwards: the sound was paused, or never began.
  BY <1>6 DEF Open, Opens, Quiet, AudioTypeOK
<1>7. CASE Tick \/ Silence \/ UNCHANGED audioVars
  BY <1>7 DEF Tick, Silence, Heard, Stale, audioVars, stream, count, leftover
<1>8. CASE Round
  <2>1. CASE Fill
    <3>1. /\ at' - left' = at - left + len /\ playing' = playing
          /\ Wanted = 0 => at' = at /\ left' = left - len
          /\ at' \in Int /\ left' \in Nat
      BY <2>1, FillEffect, SizeAssumption DEF Positions
    <3>2. /\ played' = played + len /\ from' = from /\ owed' = owed /\ ready' = ready
          /\ upto' = IF Wanted = 0 THEN upto ELSE at'
      BY <1>8 DEF Round
    <3>3. /\ at \in Nat /\ left \in Nat /\ played \in Nat /\ from \in Int /\ owed \in Nat
          /\ len \in Nat \ {0} /\ upto \in Int
      BY SizeAssumption DEF AudioTypeOK, Positions, Elsewhere
    <3>4. SUFFICES ASSUME ready, playing PROVE InPlace'
      BY <3>1, <3>2
    <3>5. CASE Wanted = 0
      <4>1. len <= left /\ UNCHANGED <<at, upto>> /\ left' = left - len
        BY <3>1, <3>2, <3>3, <3>5 DEF Wanted
      <4>2. CASE played < owed
        BY <3>2, <3>3, <3>4, <4>1, <4>2 DEF Stale, Heard
      <4>3. CASE ~(played < owed)
        BY <3>2, <3>3, <3>4, <4>1, <4>3 DEF Stale, Heard
      <4> QED BY <4>2, <4>3
    <3>6. CASE Wanted # 0
      \* All that was left over is played, and the chunk decoded last ends at at'.
      <4>1. left < len /\ upto' = at'
        BY <3>2, <3>3, <3>6 DEF Wanted
      <4>2. Heard' = at - left + len /\ ~Stale'
        <5>1. left' \in Nat /\ at' \in Int /\ upto' = at' /\ at' - left' = at - left + len
          BY <3>1, <4>1
        <5>2. CASE left' > 0
          BY <5>1, <5>2 DEF Heard, Stale
        <5>3. CASE ~(left' > 0)
          <6>1. left' = 0
            BY <5>1, <5>3
          <6> QED BY <5>1, <6>1 DEF Heard, Stale
        <5> QED BY <5>2, <5>3
      <4>3. CASE played < owed
        BY <3>1, <3>2, <3>3, <3>4, <4>1, <4>2, <4>3
      <4>4. CASE ~(played < owed)
        <5>1. at - left = from + played - owed
          BY <3>3, <3>4, <4>4 DEF Heard, Stale
        <5> QED BY <3>1, <3>2, <3>3, <4>1, <4>2, <4>4, <5>1
      <4> QED BY <4>3, <4>4
    <3> QED BY <3>5, <3>6
  <2>2. CASE RunsDry
    BY <2>2, DryEffect
  <2> QED
    BY <1>8, <2>1, <2>2 DEF Round
<1> QED
  BY <1>1, <1>2, <1>3, <1>4, <1>5, <1>6, <1>7, <1>8 DEF AudioNext, Driver

\* The state of the stream keeps its types: no chunk overruns the buffer that
\* keeps what is left of it (AUDIO_BUF_CHUNK).
THEOREM AudioTypeCorrect == AudioSpec => []AudioTypeOK
  BY InitInv, TypeStep, PTL DEF AudioSpec, Inv

\* For every size of chunk and buffer: after audio_play, what a seek or an open
\* left over of another place (seek_audio, open_audio_stream) is heard first, whole
\* and once, and from then on what is heard is as far into the stream as
\* g_samples_played says, less that.
THEOREM SoundInPlace == AudioSpec => []InPlace
<1>1. AudioInit => Inv
  BY InitInv
<1>2. Inv /\ [AudioNext]_audioVars => Inv'
  BY TypeStep, QuietStep, PlaceStep DEF Inv
<1>3. Inv => InPlace
  BY DEF Inv
<1> QED
  BY <1>1, <1>2, <1>3, PTL DEF AudioSpec

-----------------------------------------------------------------------------
(* Counts that wrap                                                        *)

\* What a remainder is.
LEMMA Remainder ==
  ASSUME NEW a \in Int, NEW b \in Nat \ {0}
  PROVE  /\ a % b \in 0 .. b - 1 /\ a \div b \in Int
         /\ a = b * (a \div b) + (a % b)
  BY SMT

\* Multiples less than one apart are the same.
LEMMA Multiples ==
  ASSUME NEW b \in Nat \ {0}, NEW q \in Int, -b < b * q, b * q < b
  PROVE  q = 0
<1>1. ~(1 <= q)
  <2> SUFFICES ASSUME 1 <= q PROVE FALSE
    OBVIOUS
  <2>1. b <= b * q
    BY SMT
  <2> QED BY <2>1
<1>2. ~(q <= -1)
  <2> SUFFICES ASSUME q <= -1 PROVE FALSE
    OBVIOUS
  <2>1. b * q <= -b
    BY SMT
  <2> QED BY <2>1
<1> QED BY <1>1, <1>2

\* The signed difference of two counts that have wrapped is the true one, if that is
\* less than half of what a count can hold.
LEMMA SignedIsTrue ==
  ASSUME NEW n \in Int, NEW x \in Int, NEW k \in Int, n = x + Wrap * k,
         2 * x < Wrap, -2 * x < Wrap
  PROVE  Signed(n) = x
<1> DEFINE r == n % Wrap
           q == n \div Wrap
           s == Signed(n)
<1>1. Wrap \in Nat \ {0}
  BY CountAssumption
<1>2. r \in 0 .. Wrap - 1 /\ q \in Int /\ n = Wrap * q + r
  BY <1>1, Remainder
<1>3. s = IF 2 * r < Wrap THEN r ELSE r - Wrap
  BY DEF Signed
<1> HIDE DEF r, q, s
<1>4. CASE 2 * r < Wrap
  <2>1. Wrap * (k - q) = r - x
    BY <1>1, <1>2
  <2>2. k - q = 0
    BY <1>1, <1>2, <1>4, <2>1, Multiples
  <2>3. Wrap * (k - q) = 0
    BY <1>1, <2>2
  <2> QED BY <1>1, <1>2, <1>3, <1>4, <2>1, <2>3 DEF s
<1>5. CASE ~(2 * r < Wrap)
  <2>1. Wrap * (k - (q + 1)) = r - Wrap - x
    BY <1>1, <1>2
  <2>2. k - (q + 1) = 0
    <3>1. k - (q + 1) \in Int
      BY <1>2
    <3> QED BY <1>1, <1>2, <1>5, <2>1, <3>1, Multiples
  <2>3. Wrap * (k - (q + 1)) = 0
    BY <1>1, <2>2
  <2>4. s = r - Wrap
    BY <1>3, <1>5
  <2> QED BY <1>1, <1>2, <2>1, <2>3, <2>4 DEF s
<1> QED BY <1>4, <1>5

\* What the loop of the callback takes for "caught up" is it, within half of what a
\* count can hold, unless just one count has wrapped.
LEMMA CaughtUpIsTrue ==
  ASSUME AudioTypeOK, NEW p \in Nat,
         2 * (elapsed - timer - p) < Wrap, -2 * (elapsed - timer - p) < Wrap
  PROVE  /\ ~CaughtUp(p) => elapsed - timer - p >= len
         /\ CaughtUp(p) => \/ elapsed - timer - p < len
                           \/ (elapsed - timer) \div Wrap # p \div Wrap
<1> DEFINE d == elapsed - timer
           c == d % Wrap
           r == p % Wrap
<1>1. /\ Wrap \in Nat \ {0} /\ len \in Nat \ {0} /\ d \in Int /\ elapsed \in Nat /\ timer \in Nat
      /\ timer < elapsed <=> 0 < d
  BY SizeAssumption, CountAssumption DEF AudioTypeOK
<1>2. /\ c \in 0 .. Wrap - 1 /\ d \div Wrap \in Int /\ d = Wrap * (d \div Wrap) + c
      /\ r \in 0 .. Wrap - 1 /\ p \div Wrap \in Int /\ p = Wrap * (p \div Wrap) + r
  BY <1>1, Remainder
<1>3. CASE ~(timer < elapsed)
  <2>1. CaughtUp(p)
    BY <1>2, <1>3 DEF CaughtUp
  <2> QED BY <1>1, <1>3, <2>1
<1>4. CASE timer < elapsed
  <2>1. CaughtUp(p) <=> c <= r \/ Signed(c - p) < len
    BY <1>4 DEF CaughtUp
  <2>2. Signed(c - p) = d - p
    <3> DEFINE k == d \div Wrap
    <3>1. c - p = (d - p) + Wrap * (0 - k) /\ c - p \in Int /\ d - p \in Int /\ 0 - k \in Int
      BY <1>1, <1>2
    <3> HIDE DEF c, d, k
    <3>2. 2 * (d - p) < Wrap /\ -2 * (d - p) < Wrap
      BY DEF d
    <3> QED BY <3>1, <3>2, SignedIsTrue
  <2>3. c <= r => d - p < len \/ d \div Wrap # p \div Wrap
    <3> SUFFICES ASSUME c <= r, d \div Wrap = p \div Wrap PROVE d - p < len
      OBVIOUS
    <3> QED BY <1>1, <1>2
  <2> HIDE DEF c, r
  <2>4. ~CaughtUp(p) => d - p >= len
    BY <1>1, <2>1, <2>2
  <2> QED BY <2>1, <2>2, <2>3, <2>4
<1> QED BY <1>3, <1>4

\* For every width of the counts, buffer and number of rounds: the callback drops
\* sound only when it is a buffer behind the clock, and leaves off only when it is
\* not, or has done all its rounds, or one count has wrapped (ldp-vldp-audio.cpp:655).
THEOREM CatchesUpRight == AudioSpec => CatchesUp
<1>1. AudioTypeOK /\ [AudioNext]_audioVars => DropsOnlyWhenLate /\ LeavesInStep
  <2> SUFFICES ASSUME AudioTypeOK, [AudioNext]_audioVars PROVE DropsOnlyWhenLate /\ LeavesInStep
    OBVIOUS
  <2>1. CASE Round
    <3>1. /\ len' = len /\ timer' = timer /\ elapsed' = elapsed /\ played' \in Nat
          /\ round' = IF CaughtUp(played') \/ round + 1 = Rounds THEN 0 ELSE round + 1
          /\ round \in Nat
      BY <2>1, SizeAssumption DEF Round, driver, AudioTypeOK
    <3>2. Lag' = elapsed - timer - played'
      BY <3>1 DEF Lag
    <3> DEFINE p == played'
    <3>3. Near' => /\ 2 * (elapsed - timer - p) < Wrap /\ -2 * (elapsed - timer - p) < Wrap
      BY <3>2 DEF Near
    <3> HIDE DEF p
    <3>4. p \in Nat
      BY <3>1 DEF p
    <3>5. Near' => /\ ~CaughtUp(p) => elapsed - timer - p >= len
                   /\ CaughtUp(p) => \/ elapsed - timer - p < len
                                     \/ (elapsed - timer) \div Wrap # p \div Wrap
      BY <3>3, <3>4, CaughtUpIsTrue
    <3>6. DropsOnlyWhenLate
      <4>1. round' > round => ~CaughtUp(p)
        BY <3>1 DEF p
      <4>2. Near' /\ round' > round => elapsed - timer - p >= len
        BY <3>5, <4>1
      <4>3. elapsed - timer - p = Lag' /\ len' = len
        BY <3>1, <3>2 DEF p
      <4> QED BY <4>2, <4>3 DEF DropsOnlyWhenLate
    <3>7. LeavesInStep
      BY <3>1, <3>2, <3>5 DEF LeavesInStep, p
    <3> QED BY <3>6, <3>7
  <2>2. ASSUME round' = round, played' = 0 \/ played' = played
        PROVE  DropsOnlyWhenLate /\ LeavesInStep
    BY <2>2, SizeAssumption DEF DropsOnlyWhenLate, LeavesInStep, AudioTypeOK
  <2>3. CASE Pause \/ ChangeSpeed \/ Search \/ SearchFinds \/ SearchSeeks \/ Skip
    BY <2>2, <2>3 DEF Pause, ChangeSpeed, Search, Pauses, SearchFinds, SearchSeeks, Skip,
                      Seek, count
  <2>4. CASE Restart \/ PrePlay \/ PlayFails \/ PlayStarts
    BY <2>2, <2>4 DEF Restart, PrePlay, PlayFails, PlayStarts, AudioPlay, count
  <2>5. ASSUME NEW result \in {"good", "bad", "missing"}, Open(result)
        PROVE  round' = round /\ (played' = 0 \/ played' = played)
    BY <2>5 DEF Open, Opens, count
  <2>6. CASE Tick \/ Silence \/ UNCHANGED audioVars
    BY <2>2, <2>6 DEF Tick, Silence, audioVars, count
  <2> QED BY <2>1, <2>2, <2>3, <2>4, <2>5, <2>6 DEF AudioNext, Driver
<1> QED BY <1>1, AudioTypeCorrect, PTL DEF AudioSpec, CatchesUp

=============================================================================
