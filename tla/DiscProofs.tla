----------------------------- MODULE DiscProofs -----------------------------
(***************************************************************************)
(* Theorems about the player and the VLDP driver (ldp.cpp, ldp-vldp.cpp),  *)
(* for every framefile, every number of frames and every depth of calls.   *)
(*                                                                         *)
(* What the script may rely on depends on the calls in progress: a file    *)
(* that is being opened is opened for one of them (Openers), a search that *)
(* is under way belongs to one (Owner), and handlers may have called the   *)
(* disc in between.  The invariants say what each call that waits may      *)
(* still assume when it goes on.                                           *)
(***************************************************************************)
EXTENDS Disc, FiniteSetTheorems, SequenceTheorems, TLAPS

-----------------------------------------------------------------------------
(* The framefile: what mpeg_info finds for a frame                         *)

\* A set of numbers from 1 on without a gap holds the number of its elements.
LEMMA LastOfPrefix ==
  ASSUME NEW n \in Nat, NEW S \in SUBSET (1 .. n), 1 \in S,
         \A m \in S : 1 .. m \subseteq S
  PROVE  Max(S) \in S /\ \A m \in S : m <= Max(S)
<1>1. IsFiniteSet(S) /\ Cardinality(S) \in Nat
  <2>1. IsFiniteSet(1 .. n)
    BY FS_Interval
  <2>2. IsFiniteSet(S)
    BY <2>1, FS_Subset
  <2> QED BY <2>2, FS_CardinalityType
<1> DEFINE k == Cardinality(S)
<1>2. \A m \in S : m <= k
  <2> TAKE m \in S
  <2>1. Cardinality(1 .. m) = m
    BY FS_Interval
  <2> QED BY <1>1, <2>1, FS_Subset
<1>3. k \in S
  <2> SUFFICES ASSUME k \notin S PROVE FALSE
    OBVIOUS
  <2>1. S \subseteq 1 .. k - 1
    BY <1>1, <1>2
  <2>2. k >= 1
    BY <1>2
  <2>3. Cardinality(1 .. k - 1) = k - 1 /\ IsFiniteSet(1 .. k - 1)
    BY <1>1, <2>2, FS_Interval
  <2>4. Cardinality(S) <= Cardinality(1 .. k - 1)
    BY <2>1, <2>3, FS_Subset
  <2> QED BY <1>1, <2>3, <2>4
<1>4. \E x \in S : \A y \in S : x >= y
  BY <1>1, <1>2, <1>3
<1> QED BY <1>4 DEF Max

\* A search may be for any frame of the disc.
LEMMA FramesAreGoals == Frames \subseteq Goals
  BY FrameAssumption DEF Frames, Goals

\* The entry of a frame is an entry, and the last that begins at or before it; a
\* frame that has a file is on the disc.
LEMMA EntryFound ==
  ASSUME NEW f \in Goals
  PROVE  /\ Entry(f) \in DOMAIN Framefile
         /\ Start(f) \in Frames
         /\ FileOf(f) \in Files \cup {NoFile}
         /\ FileOf(f) # NoFile =>
              /\ f \in Frames
              /\ Start(f) <= f /\ FileOf(f) = Framefile[Entry(f)].name
              /\ Index(f) \in Frames
              /\ Entry(f) < Len(Framefile) => f < Framefile[Entry(f) + 1].frame
<1> DEFINE n == Len(Framefile)
           S == {1} \cup {i \in DOMAIN Framefile :
                            \A j \in 2 .. i : Framefile[j].frame <= f}
<1>1. /\ n \in Nat \ {0} /\ DOMAIN Framefile = 1 .. n
      /\ \A i \in 1 .. n : Framefile[i] \in [frame : Frames, name : Files]
  <2> DEFINE T == [frame : Frames, name : Files]
  <2>1. Framefile \in Seq(T) /\ Framefile # <<>>
    BY FrameAssumption
  <2> HIDE DEF T
  <2>2. n \in Nat \ {0} /\ DOMAIN Framefile = 1 .. n /\ \A i \in 1 .. n : Framefile[i] \in T
    BY <2>1, LenProperties, EmptySeq
  <2> QED BY <2>2 DEF T
<1>2. S \in SUBSET (1 .. n) /\ 1 \in S
  BY <1>1
<1>3. ASSUME NEW m \in S PROVE 1 .. m \subseteq S
  BY <1>1
<1>4. Max(S) \in S /\ \A m \in S : m <= Max(S)
  <2> HIDE DEF S
  <2> QED BY <1>1, <1>2, <1>3, LastOfPrefix
<1>5. Entry(f) \in S /\ \A m \in S : m <= Entry(f)
  BY <1>4 DEF Entry
<1>6. Entry(f) \in 1 .. n
  BY <1>2, <1>5
<1>7. Start(f) \in Frames /\ Framefile[Entry(f)].name \in Files
  BY <1>1, <1>6 DEF Start
<1>8. ASSUME Entry(f) < n, Framefile[Entry(f) + 1].frame <= f
      PROVE  FALSE
  <2>1. Entry(f) + 1 \in 1 .. n
    BY <1>1, <1>6, <1>8
  <2>2. \A j \in 2 .. Entry(f) : Framefile[j].frame <= f
    BY <1>5, <1>6
  <2>3. Entry(f) + 1 \in S
    BY <1>1, <1>6, <1>8, <2>1, <2>2
  <2> QED BY <1>5, <1>6, <2>3
<1>9. Entry(f) < n => f < Framefile[Entry(f) + 1].frame
  <2> SUFFICES ASSUME Entry(f) < n PROVE f < Framefile[Entry(f) + 1].frame
    OBVIOUS
  <2>1. Framefile[Entry(f) + 1].frame \in Frames
    BY <1>1, <1>6
  <2> QED BY <1>8, <2>1, FrameAssumption DEF Frames, Goals
<1>10. ASSUME FileOf(f) # NoFile PROVE Start(f) <= f /\ f \in Frames /\ Index(f) \in Frames
  <2>1. f >= Start(f)
    BY <1>10 DEF FileOf
  <2> QED BY <1>7, <2>1, FrameAssumption DEF Index, Frames, Goals
<1> QED BY <1>1, <1>6, <1>7, <1>9, <1>10, FrameAssumption DEF FileOf

-----------------------------------------------------------------------------
(* Calls: what the script hands to the player, and the stack of them       *)

\* The operations of a call after the first are a play and a pause.
TailOps == {"play", "pause"}

ScriptType(s) == /\ s \in Seq(Ops) /\ s # <<>>
                 /\ \A j \in 2 .. Len(s) : s[j].do \in TailOps

\* A call of one operation.
LEMMA OneOp ==
  ASSUME NEW d \in {"search", "step", "skip", "back", "speed", "play", "pause", "stop", "get"},
         NEW b \in Int
  PROVE  ScriptType(<<Op(d, b)>>) /\ Head(<<Op(d, b)>>) = Op(d, b)
  BY DEF ScriptType, Op, Ops

\* What a script function asks of the player: a skip comes first, either way by more
\* than nothing, and only discStop stops.
LEMMA ScriptShape ==
  ASSUME NEW fn \in DiscFunctions, NEW a \in Arguments(fn)
  PROVE  LET s == Script(fn, a)
         IN /\ ScriptType(s)
            /\ Head(s).do = "skip" => fn = "discSkipForward"
            /\ Head(s).do \in {"skip", "back"} => Head(s).arg = a /\ a \in 1 .. LastFrame
            /\ Head(s).do = "stop" => fn = "discStop"
<1>1. a \in Int /\ 1 \in Int /\ -1 \in Int /\ 0 \in Int
  BY FrameAssumption DEF Arguments, DiscFunctions, Frames
<1>2. CASE fn \in {"discSearch", "discStepForward", "discStepBackward", "discChangeSpeed",
                   "discPlay", "discPause", "discStop", "discGetState"}
  <2>1. \E d \in {"search", "step", "speed", "play", "pause", "stop", "get"}, b \in Int :
           Script(fn, a) = <<Op(d, b)>> /\ (d = "stop" => fn = "discStop")
    BY <1>1, <1>2 DEF Script
  <2>2. PICK d \in {"search", "step", "speed", "play", "pause", "stop", "get"}, b \in Int :
           Script(fn, a) = <<Op(d, b)>> /\ (d = "stop" => fn = "discStop")
    BY <2>1
  <2> QED BY <2>2, OneOp DEF Op
<1>3. CASE fn \in {"discSkipForward", "discSkipBackward"}
  <2>1. a \in 1 .. LastFrame
    BY <1>3, FrameAssumption DEF Arguments
  <2>2. Script(fn, a) = <<Op(IF fn = "discSkipForward" THEN "skip" ELSE "back", a)>>
    BY <1>3 DEF Script
  <2> QED BY <1>1, <1>3, <2>1, <2>2, OneOp DEF Op
<1>4. CASE fn = "discSkipToFrame"
  <2>1. Script(fn, a) = <<Op("search", a), Op("play", 0)>>
    BY <1>4 DEF Script
  <2> QED BY <1>1, <2>1 DEF ScriptType, Op, Ops, TailOps
<1>5. CASE fn = "discPauseAtFrame"
  <2>1. Script(fn, a) = <<Op("search", a), Op("play", 0), Op("pause", 0)>>
    BY <1>5 DEF Script
  <2> QED BY <1>1, <2>1 DEF ScriptType, Op, Ops, TailOps
<1> QED BY <1>2, <1>3, <1>4, <1>5 DEF DiscFunctions

\* A call that waits still has the operation it waits for in front.
CallShape(c) ==
  /\ \A j \in 2 .. Len(c.todo) : c.todo[j].do \in TailOps
  /\ c.at # "run" => c.todo # <<>>
  /\ c.at = "open" => Head(c.todo).do \in {"search", "step", "play"} /\ c.name \in Files
  /\ c.at = "poll" => Head(c.todo).do \in {"search", "step"}

Stops(c) == c.todo # <<>> /\ Head(c.todo).do = "stop"

\* Only an opening handles input, and only the functions of the handlers run then.
StackShape ==
  /\ \A i \in 1 .. Len(stack) : CallShape(stack[i])
  /\ \A i \in 2 .. Len(stack) : stack[i].at = "open"
  /\ Handlers = {} => Len(stack) <= 1
  /\ "discStop" \notin Handlers => \A i \in 1 .. Len(stack) - 1 : ~Stops(stack[i])

\* The call, if any, for which the VLDP was last asked to open a file.
Below == IF Len(stack) > 1 THEN {stack[2]} ELSE {}
Openers == IF stack = <<>> THEN {}
           ELSE IF Top.at = "open" THEN {Top} ELSE Below

\* The call on top is the first of the stack, and a call.
LEMMA TopIsFirst ==
  ASSUME CallType, stack # <<>>
  PROVE  /\ Len(stack) \in Nat \ {0} /\ DOMAIN stack = 1 .. Len(stack)
         /\ \A i \in 1 .. Len(stack) : stack[i] \in Calls
         /\ Top = stack[1] /\ Top \in Calls
         /\ Top.todo \in Seq(Ops)
<1>1. stack \in Seq(Calls)
  BY DEF CallType
<1>2. /\ Len(stack) \in Nat \ {0} /\ DOMAIN stack = 1 .. Len(stack)
      /\ \A i \in 1 .. Len(stack) : stack[i] \in Calls
      /\ Head(stack) = stack[1]
  BY <1>1, LenProperties, EmptySeq
<1> QED BY <1>2 DEF Top, Calls

\* An operation comes with a number.
LEMMA ArgIsWhole ==
  ASSUME CallType, stack # <<>>, Top.todo # <<>>
  PROVE  Arg \in Int
<1>1. Head(Top.todo) \in Ops
  BY TopIsFirst, HeadTailProperties
<1> QED BY <1>1 DEF Arg, Ops

\* A sequence with one more element in front.
LEMMA Consed ==
  ASSUME NEW S, NEW c \in S, NEW t \in Seq(S)
  PROVE  /\ <<c>> \o t \in Seq(S) /\ Len(<<c>> \o t) = Len(t) + 1
         /\ (<<c>> \o t)[1] = c
         /\ \A i \in 1 .. Len(t) : (<<c>> \o t)[i + 1] = t[i]
  OBVIOUS

\* The top of the stack is replaced.
LEMMA Replaced ==
  ASSUME CallType, StackShape, stack # <<>>, NEW c \in Calls, CallShape(c),
         Stops(c) => Stops(Top), stack' = <<c>> \o Tail(stack)
  PROVE  /\ stack' \in Seq(Calls) /\ Len(stack') = Len(stack) /\ stack' # <<>>
         /\ Top' = c /\ StackShape'
         /\ Openers' = IF c.at = "open" THEN {c} ELSE Below
<1> DEFINE t == Tail(stack)
<1>1. /\ t \in Seq(Calls) /\ Len(t) = Len(stack) - 1
      /\ \A i \in 1 .. Len(t) : t[i] = stack[i + 1]
  BY HeadTailProperties DEF CallType
<1>2. /\ stack' \in Seq(Calls) /\ Len(stack') = Len(t) + 1 /\ stack'[1] = c
      /\ \A i \in 1 .. Len(t) : stack'[i + 1] = t[i]
  BY <1>1, Consed
<1>3. Len(stack) \in Nat \ {0} /\ Top = stack[1]
  BY TopIsFirst
<1>4. /\ stack' \in Seq(Calls) /\ Len(stack') = Len(stack) /\ stack' # <<>>
      /\ Top' = c
  BY <1>1, <1>2, <1>3, EmptySeq DEF Top
<1>5. \A i \in 2 .. Len(stack) : stack'[i] = stack[i]
  <2> TAKE i \in 2 .. Len(stack)
  <2>1. i - 1 \in 1 .. Len(t)
    BY <1>1, <1>3
  <2> QED BY <1>1, <1>2, <2>1
<1>6. StackShape'
  BY <1>2, <1>3, <1>4, <1>5 DEF StackShape
<1>7. Below' = Below
  <2>1. Len(stack) > 1 => stack'[2] = stack[2]
    BY <1>3, <1>5
  <2> QED BY <1>3, <1>4, <2>1, Zenon DEF Below
<1>8. Openers' = IF c.at = "open" THEN {c} ELSE Below
  BY <1>4, <1>7 DEF Openers
<1> QED BY <1>4, <1>6, <1>8

\* A call comes on top: of an opening whose input is being handled, or of nothing.
LEMMA Pushed ==
  ASSUME CallType, StackShape, NEW c \in Calls, CallShape(c), c.at = "run",
         stack # <<>> => /\ Top.at = "open" /\ Handlers # {}
                         /\ Stops(c) => "discStop" \in Handlers,
         stack' = <<c>> \o stack
  PROVE  /\ stack' \in Seq(Calls) /\ Len(stack') = Len(stack) + 1 /\ stack' # <<>>
         /\ Top' = c /\ StackShape' /\ Openers' = Openers
<1>1. /\ stack' \in Seq(Calls) /\ Len(stack') = Len(stack) + 1 /\ stack'[1] = c
      /\ Len(stack) \in Nat
      /\ \A i \in 1 .. Len(stack) : stack'[i + 1] = stack[i]
  BY DEF CallType
<1>2. stack' # <<>> /\ Top' = c
  BY <1>1, EmptySeq DEF Top
<1>3. \A i \in 2 .. Len(stack') : i - 1 \in 1 .. Len(stack) /\ stack'[i] = stack[i - 1]
  <2> TAKE i \in 2 .. Len(stack')
  <2>1. i - 1 \in 1 .. Len(stack)
    BY <1>1
  <2> QED BY <1>1, <2>1
<1>4. stack # <<>> => Top = stack[1] /\ Len(stack) > 0
  BY TopIsFirst
<1>5. stack = <<>> => Len(stack) = 0
  OBVIOUS
<1>6. StackShape'
  <2>1. \A i \in 1 .. Len(stack') : CallShape(stack'[i])
    BY <1>1, <1>3 DEF StackShape
  <2>2. \A i \in 2 .. Len(stack') : stack'[i].at = "open"
    <3> TAKE i \in 2 .. Len(stack')
    <3>1. CASE i = 2
      BY <1>1, <1>3, <1>4, <1>5, <3>1
    <3>2. CASE i # 2
      BY <1>1, <1>3, <3>2 DEF StackShape
    <3> QED BY <3>1, <3>2
  <2>3. Handlers = {} => Len(stack') <= 1
    BY <1>1, <1>5
  <2>4. "discStop" \notin Handlers => \A i \in 1 .. Len(stack') - 1 : ~Stops(stack'[i])
    BY <1>1, <1>3, <1>5 DEF StackShape
  <2> QED BY <2>1, <2>2, <2>3, <2>4 DEF StackShape
<1>7. Openers' = Openers
  <2>1. CASE stack = <<>>
    BY <1>1, <1>2, <1>5, <2>1 DEF Openers, Below
  <2>2. CASE stack # <<>>
    <3>1. Len(stack') > 1 /\ stack'[2] = Top
      BY <1>1, <1>4, <2>2
    <3> QED BY <1>2, <2>2, <3>1 DEF Openers, Below
  <2> QED BY <2>1, <2>2
<1> QED BY <1>1, <1>2, <1>6, <1>7

\* A finished call leaves; the one below waits for a file.
LEMMA Popped ==
  ASSUME CallType, StackShape, stack # <<>>, Top.at = "run", stack' = Tail(stack)
  PROVE  /\ stack' \in Seq(Calls) /\ Len(stack') = Len(stack) - 1
         /\ stack' # <<>> => Top'.at = "open"
         /\ StackShape' /\ Openers' = Openers
<1>1. /\ stack' \in Seq(Calls) /\ Len(stack') = Len(stack) - 1
      /\ \A i \in 1 .. Len(stack') : stack'[i] = stack[i + 1]
  BY HeadTailProperties DEF CallType
<1>2. Len(stack) \in Nat \ {0} /\ Top = stack[1]
  BY TopIsFirst
<1>3. stack' # <<>> => Len(stack') > 0 /\ Top' = stack[2]
  BY <1>1, <1>2, EmptySeq DEF Top
<1>4. stack' = <<>> => Len(stack) = 1
  <2> SUFFICES ASSUME stack' = <<>> PROVE Len(stack) = 1
    OBVIOUS
  <2>1. Len(stack') = 0
    BY <1>1, EmptySeq
  <2> QED BY <1>1, <1>2, <2>1
<1>5. StackShape'
  BY <1>1, <1>2 DEF StackShape
<1>6. stack' # <<>> => Top'.at = "open"
  BY <1>1, <1>2, <1>3 DEF StackShape
<1>7. Openers' = Openers
  <2>1. Openers = Below
    BY DEF Openers
  <2>2. CASE stack' = <<>>
    BY <1>4, <2>1, <2>2 DEF Openers, Below
  <2>3. CASE stack' # <<>>
    <3>1. Openers' = {Top'} /\ Top' = stack[2]
      BY <1>3, <1>6, <2>3 DEF Openers
    <3>2. Below = {stack[2]}
      <4>1. Len(stack') > 0
        BY <1>3, <2>3
      <4> QED BY <1>1, <1>2, <4>1 DEF Below
    <3> QED BY <2>1, <3>1, <3>2
  <2> QED BY <2>2, <2>3
<1> QED BY <1>1, <1>5, <1>6, <1>7

\* An operation ends, with what it leaves of its call.
LEMMA AfterDone ==
  ASSUME CallType, StackShape, stack # <<>>, Top.todo # <<>>, NEW a, Done(a)
  PROVE  /\ stack' \in Seq(Calls) /\ Len(stack') = Len(stack) /\ stack' # <<>>
         /\ Top'.at = "run" /\ Top'.todo = Tail(Top.todo)
         /\ Top'.todo # <<>> => Head(Top'.todo).do \in TailOps
         /\ StackShape' /\ Openers' = Below /\ answer' = a
<1> DEFINE c == [todo |-> Tail(Top.todo), at |-> "run", name |-> NoFile]
           t == Top.todo
<1>1. t \in Seq(Ops) /\ t # <<>> /\ Len(stack) \in Nat \ {0} /\ Top = stack[1]
  BY TopIsFirst
<1>2. /\ Tail(t) \in Seq(Ops) /\ Len(Tail(t)) = Len(t) - 1 /\ Len(t) \in Nat
      /\ \A i \in 1 .. Len(Tail(t)) : Tail(t)[i] = t[i + 1]
  BY <1>1, HeadTailProperties, LenProperties
<1>3. \A j \in 2 .. Len(t) : t[j].do \in TailOps
  BY <1>1 DEF StackShape, CallShape
<1>4. \A j \in 1 .. Len(Tail(t)) : Tail(t)[j].do \in TailOps
  <2> HIDE DEF t
  <2> TAKE j \in 1 .. Len(Tail(t))
  <2>1. j + 1 \in 2 .. Len(t)
    BY <1>2
  <2> QED BY <1>2, <1>3, <2>1
<1>5. Tail(t) # <<>> => Head(Tail(t)).do \in TailOps
  <2> SUFFICES ASSUME Tail(t) # <<>> PROVE Head(Tail(t)).do \in TailOps
    OBVIOUS
  <2>1. Head(Tail(t)) = Tail(t)[1] /\ Len(Tail(t)) >= 1
    BY <1>2, EmptySeq
  <2> QED BY <1>2, <1>4, <2>1
<1>6. c \in Calls
  BY <1>2 DEF Calls
<1>7. CallShape(c) /\ ~Stops(c)
  BY <1>2, <1>4, <1>5 DEF CallShape, Stops, TailOps
<1>8. stack' = <<c>> \o Tail(stack) /\ answer' = a
  BY DEF Done
<1> HIDE DEF c
<1>9. /\ stack' \in Seq(Calls) /\ Len(stack') = Len(stack) /\ stack' # <<>>
      /\ Top' = c /\ StackShape'
      /\ Openers' = IF c.at = "open" THEN {c} ELSE Below
  BY <1>6, <1>7, <1>8, Replaced
<1> QED BY <1>5, <1>8, <1>9 DEF c

\* An operation waits: for the end of a search, or for a file.
LEMMA AfterWaits ==
  ASSUME CallType, StackShape, stack # <<>>, Top.todo # <<>>,
         NEW where \in {"open", "poll"}, NEW n, Waits(where, n),
         where = "poll" => Head(Top.todo).do \in {"search", "step"} /\ n = NoFile,
         where = "open" => Head(Top.todo).do \in {"search", "step", "play"} /\ n \in Files
  PROVE  /\ stack' \in Seq(Calls) /\ Len(stack') = Len(stack) /\ stack' # <<>>
         /\ Top'.at = where /\ Top'.todo = Top.todo /\ Top'.name = n
         /\ StackShape' /\ answer' = "none"
         /\ Openers' = IF where = "open" THEN {Top'} ELSE Below
<1> DEFINE c == [Top EXCEPT !.at = where, !.name = n]
<1>1. Top \in Calls /\ Len(stack) \in Nat \ {0} /\ Top = stack[1]
  BY TopIsFirst
<1>2. c \in Calls /\ c.todo = Top.todo /\ c.at = where /\ c.name = n
  BY <1>1 DEF Calls
<1>3. CallShape(c) /\ (Stops(c) => Stops(Top))
  BY <1>1, <1>2 DEF CallShape, Stops, StackShape
<1>4. stack' = <<c>> \o Tail(stack) /\ answer' = "none"
  BY DEF Waits
<1> HIDE DEF c
<1>5. /\ stack' \in Seq(Calls) /\ Len(stack') = Len(stack) /\ stack' # <<>>
      /\ Top' = c /\ StackShape'
      /\ Openers' = IF c.at = "open" THEN {c} ELSE Below
  BY <1>2, <1>3, <1>4, Replaced
<1> QED BY <1>2, <1>4, <1>5

-----------------------------------------------------------------------------
(* Types                                                                   *)

\* A skip forward is still within the bound it was called with when it is made; one
\* back asks for no frame but those of Goals.
SkipBound == /\ Running("skip") => cur + lead + Arg < LastFrame
             /\ Running("back") => Arg \in 1 .. LastFrame

\* A search under way is for a frame of the disc.
GoalThere == status = "SEARCHING" => tryF \in Frames

\* A VLDP that is neither busy nor in error has a file open.
FileThere == video \in {"STOPPED", "PLAYING", "PAUSED"} => file # NoFile

Grounded == TypeOK /\ StackShape /\ SkipBound /\ GoalThere /\ FileThere

\* What a step does to the calls in progress.
Answers == {"none", "landed", "same", "failed", "refused", "late", "unheard"}
Busy == stack # <<>> /\ Top.todo # <<>> /\ UNCHANGED nested
Ends == Busy /\ \E a \in Answers : Done(a)
Rests == /\ Busy
         /\ \/ Waits("poll", NoFile) /\ Head(Top.todo).do \in {"search", "step"}
            \/ \E n \in Files : /\ Waits("open", n)
                               /\ Head(Top.todo).do \in {"search", "step", "play"}
Idles == UNCHANGED <<stack, nested, answer>> /\ (stack = <<>> \/ UNCHANGED <<cur, lead>>)
Calling == \E fn \in Functions \cup Handlers : \E a \in Arguments(fn) : Call(fn, a)

\* What a call that waits is in the middle of.
LEMMA Waiting ==
  ASSUME CallType, StackShape, stack # <<>>, Top.at # "run"
  PROVE  /\ Top.todo # <<>>
         /\ Top.at = "open" => /\ Head(Top.todo).do \in {"search", "step", "play"}
                               /\ Top.name \in Files
         /\ Top.at = "poll" => Head(Top.todo).do \in {"search", "step"}
  BY TopIsFirst DEF StackShape, CallShape

\* The steps of a search and of a step: the operation ends or waits.
LEMMA SearchStacks ==
  ASSUME Grounded, Search
  PROVE  Ends \/ Rests
<1> USE DEF Grounded, TypeOK
<1>1. ASSUME NEW f \in Goals, SearchRefused(f) \/ SearchSame(f) \/ SearchNowhere(f)
      PROVE  Ends
  BY <1>1 DEF SearchRefused, SearchSame, SearchNowhere, Seeks, Searching, Running, Ends,
              Busy, Answers
<1>2. ASSUME NEW f \in Goals, SearchHere(f) PROVE Ends \/ Rests
  <2>1. /\ stack # <<>> /\ Top.todo # <<>> /\ Head(Top.todo).do \in {"search", "step"}
        /\ (Waits("poll", NoFile) /\ UNCHANGED nested) \/ (Done("unheard") /\ UNCHANGED nested)
    BY <1>2 DEF SearchHere, Send, Seeks, Searching, Running, Waits
  <2> QED BY <2>1 DEF Ends, Rests, Busy, Answers
<1>3. ASSUME NEW f \in Goals, SearchOpens(f) PROVE Rests
  <2>1. FileOf(f) \in Files
    BY <1>3, EntryFound DEF SearchOpens
  <2> QED BY <1>3, <2>1 DEF SearchOpens, Opens, Seeks, Searching, Running, Rests, Busy,
                            Waits
<1>4. CASE SearchOpened
  <2>1. /\ stack # <<>> /\ Top.todo # <<>> /\ Head(Top.todo).do \in {"search", "step"}
        /\ (Waits("poll", NoFile) /\ UNCHANGED nested) \/ (Done("unheard") /\ UNCHANGED nested)
    BY <1>4, Waiting DEF SearchOpened, Opened, Send, Waits
  <2> QED BY <2>1 DEF Ends, Rests, Busy, Answers
<1>5. CASE SearchUnopened
  BY <1>5, Waiting DEF SearchUnopened, Opened, Ends, Busy, Answers
<1>6. CASE PollEnds \/ PollTimeout
  BY <1>6, Waiting DEF PollEnds, PollTimeout, Polling, Ends, Busy, Answers
<1> QED BY <1>1, <1>2, <1>3, <1>4, <1>5, <1>6 DEF Search

\* The steps of a play.
LEMMA PlayStacks ==
  ASSUME Grounded, Play
  PROVE  Ends \/ Rests
<1> USE DEF Grounded, TypeOK
<1>1. CASE PlayRefused \/ PlayIgnored \/ PlayHere
  BY <1>1 DEF PlayRefused, PlayIgnored, PlayHere, Plays, Running, StartPlaying, Ends, Busy,
              Answers
<1>2. CASE PlayOpens
  <2>1. FirstFile \in Files
    <3>1. 1 \in DOMAIN Framefile
      BY FrameAssumption, LenProperties, EmptySeq
    <3> QED BY <3>1 DEF FirstFile, Files
  <2> QED BY <1>2, <2>1 DEF PlayOpens, Opens, Plays, Running, Rests, Busy, Waits
<1>3. CASE PlayOpened \/ PlayUnopened
  BY <1>3, Waiting DEF PlayOpened, PlayUnopened, Opened, StartPlaying, Ends, Busy, Answers
<1> QED BY <1>1, <1>2, <1>3 DEF Play

\* Every step calls, ends an operation, lets it wait, puts a search and a play in the
\* place of a skip back, returns, or leaves the calls alone.
LEMMA Stacks ==
  ASSUME Grounded, [Next]_vars
  PROVE  Calling \/ Ends \/ Rests \/ SkipBack \/ Return \/ Idles
<1> USE DEF Grounded, TypeOK
<1>1. CASE Search \/ Play
  BY <1>1, SearchStacks, PlayStacks
<1>2. CASE Pause \/ PauseIgnored \/ Stop
  BY <1>2 DEF Pause, PauseIgnored, Stop, Running, Ends, Busy, Answers
<1>3. CASE Skip \/ SkipIgnored \/ ChangeSpeed \/ Get
  BY <1>3 DEF Skip, SkipIgnored, ChangeSpeed, Get, Running, Ends, Busy, Answers
<1>4. CASE Tick \/ Vldp \/ UNCHANGED vars
  BY <1>4 DEF Tick, Vldp, VldpOpened, VldpSought, vars, player, Idles
<1> QED BY <1>1, <1>2, <1>3, <1>4 DEF Next, Operation, Calling

\* A function that the script calls comes on top of the stack.
LEMMA Called ==
  ASSUME CallType, StackShape,
         NEW fn \in Functions \cup Handlers, NEW a \in Arguments(fn), Call(fn, a)
  PROVE  /\ stack' \in Seq(Calls) /\ Len(stack') = Len(stack) + 1 /\ stack' # <<>>
         /\ Top'.at = "run" /\ Top'.todo = Script(fn, a)
         /\ StackShape' /\ Openers' = Openers /\ answer' = "none"
         /\ stack # <<>> => Top.at = "open" /\ fn \in Handlers
         /\ UNCHANGED <<player, driver, vldp>>
<1> DEFINE s == Script(fn, a)
           c == [todo |-> s, at |-> "run", name |-> NoFile]
<1>1. /\ ScriptType(s)
      /\ Head(s).do = "stop" => fn = "discStop"
  BY FunctionAssumption, ScriptShape
<1>2. c \in Calls /\ CallShape(c) /\ c.at = "run" /\ c.todo = s
  BY <1>1 DEF ScriptType, Calls, CallShape
<1>3. stack # <<>> => /\ Top.at = "open" /\ fn \in Handlers /\ Handlers # {}
                      /\ Stops(c) => "discStop" \in Handlers
  BY <1>1 DEF Call, Stops
<1>4. stack' = <<c>> \o stack /\ answer' = "none" /\ UNCHANGED <<player, driver, vldp>>
  BY DEF Call
<1> HIDE DEF c
<1>5. /\ stack' \in Seq(Calls) /\ Len(stack') = Len(stack) + 1 /\ stack' # <<>>
      /\ Top' = c /\ StackShape' /\ Openers' = Openers
  BY <1>2, <1>3, <1>4, Pushed
<1> QED BY <1>2, <1>3, <1>4, <1>5

\* A skip back goes on as a search.
LEMMA AfterBack ==
  ASSUME CallType, StackShape, SkipBack, cur \in Int
  PROVE  /\ stack' \in Seq(Calls) /\ Len(stack') = Len(stack) /\ stack' # <<>>
         /\ Top'.at = "run" /\ Top'.todo # <<>> /\ Head(Top'.todo).do = "search"
         /\ StackShape' /\ Openers' = Openers /\ answer' = "none"
<1> DEFINE t == Top.todo
           s == <<Op("search", cur - Arg), Op("play", 0)>> \o Tail(t)
           c == [todo |-> s, at |-> "run", name |-> NoFile]
<1>1. /\ stack # <<>> /\ Top.at = "run" /\ t # <<>> /\ stack' = <<c>> \o Tail(stack)
      /\ answer' = "none"
  BY DEF SkipBack, Running
<1>2. t \in Seq(Ops) /\ Top = stack[1] /\ Len(stack) \in Nat \ {0}
  BY <1>1, TopIsFirst
<1>3. /\ Tail(t) \in Seq(Ops) /\ Len(Tail(t)) = Len(t) - 1 /\ Len(t) \in Nat
      /\ \A i \in 1 .. Len(Tail(t)) : Tail(t)[i] = t[i + 1]
  BY <1>1, <1>2, HeadTailProperties, LenProperties
<1>4. \A j \in 1 .. Len(Tail(t)) : Tail(t)[j].do \in TailOps
  <2>1. \A j \in 2 .. Len(t) : t[j].do \in TailOps
    BY <1>2 DEF StackShape, CallShape
  <2> HIDE DEF t
  <2> TAKE j \in 1 .. Len(Tail(t))
  <2>2. j + 1 \in 2 .. Len(t)
    BY <1>3
  <2> QED BY <1>3, <2>1, <2>2
<1>5. Op("search", cur - Arg) \in Ops /\ Op("play", 0) \in Ops
  <2>1. Arg \in Int
    BY <1>1, ArgIsWhole
  <2> QED BY <2>1 DEF Op, Ops
<1>6. /\ s \in Seq(Ops) /\ Len(s) = Len(t) + 1 /\ s[1] = Op("search", cur - Arg)
      /\ s[2] = Op("play", 0)
      /\ \A j \in 3 .. Len(s) : s[j] = Tail(t)[j - 2]
  <2> HIDE DEF t
  <2> QED BY <1>3, <1>5
<1>7. s # <<>> /\ Head(s).do = "search"
  BY <1>3, <1>6, EmptySeq DEF Op
<1>8. \A j \in 2 .. Len(s) : s[j].do \in TailOps
  <2>1. s[2].do = "play"
    BY <1>6 DEF Op
  <2>2. \A j \in 3 .. Len(s) : s[j].do \in TailOps
    <3> HIDE DEF s, t
    <3> TAKE j \in 3 .. Len(s)
    <3>1. j - 2 \in 1 .. Len(Tail(t))
      BY <1>3, <1>6
    <3> QED BY <1>4, <1>6, <3>1
  <2> HIDE DEF s, t
  <2> QED BY <1>3, <1>6, <2>1, <2>2 DEF TailOps
<1> HIDE DEF s
<1>9. c \in Calls /\ CallShape(c) /\ ~Stops(c)
  BY <1>6, <1>7, <1>8 DEF Calls, CallShape, Stops
<1>10. /\ stack' \in Seq(Calls) /\ Len(stack') = Len(stack) /\ stack' # <<>>
       /\ Top' = c /\ StackShape'
       /\ Openers' = IF c.at = "open" THEN {c} ELSE Below
  <2>1. c.at = "run"
    OBVIOUS
  <2> HIDE DEF c
  <2> QED BY <1>1, <1>9, <2>1, Replaced
<1> QED BY <1>1, <1>7, <1>10 DEF Openers

\* The calls in progress stay well formed, and a skip within its bound.
LEMMA StackKept ==
  ASSUME Grounded, [Next]_vars
  PROVE  CallType' /\ StackShape' /\ SkipBound'
<1>1. CallType /\ StackShape /\ SkipBound
  BY DEF Grounded, TypeOK
<1>2. Len(stack) \in Nat /\ (stack = <<>> => Len(stack) = 0)
  BY <1>1 DEF CallType
<1>3. ASSUME NEW fn \in Functions \cup Handlers, NEW a \in Arguments(fn), Call(fn, a)
      PROVE  CallType' /\ StackShape' /\ SkipBound'
  <2> DEFINE s == Script(fn, a)
  <2>1. /\ Head(s).do = "skip" => fn = "discSkipForward"
        /\ Head(s).do \in {"skip", "back"} => Head(s).arg = a /\ a \in 1 .. LastFrame
    BY FunctionAssumption, ScriptShape
  <2>2. /\ stack' \in Seq(Calls) /\ Len(stack') = Len(stack) + 1
        /\ Top'.todo = s /\ StackShape' /\ UNCHANGED <<player, driver, vldp>>
    BY <1>1, <1>3, Called
  <2>3. CallType'
    BY <1>1, <1>2, <1>3, <2>2, BoundAssumption DEF Call, CallType
  <2>4. SkipBound'
    <3>1. UNCHANGED <<cur, lead>>
      BY <1>3 DEF Call, player
    <3>2. \A d : Running(d)' => Head(s).do = d /\ Arg' = Head(s).arg
      BY <2>2 DEF Running, Arg
    <3>3. ASSUME Running("skip")' PROVE (cur + lead + Arg < LastFrame)'
      <4>1. cur + lead + a < LastFrame
        BY <1>3, <2>1, <3>2, <3>3 DEF Call
      <4> QED BY <2>1, <3>1, <3>2, <3>3, <4>1
    <3>4. ASSUME Running("back")' PROVE (Arg \in 1 .. LastFrame)'
      BY <2>1, <3>2, <3>4
    <3> QED BY <3>3, <3>4 DEF SkipBound
  <2> QED BY <2>2, <2>3, <2>4
<1>4. CASE Ends
  <2>1. PICK a \in Answers : Done(a)
    BY <1>4 DEF Ends
  <2>2. /\ stack' \in Seq(Calls) /\ Len(stack') = Len(stack)
        /\ Top'.todo # <<>> => Head(Top'.todo).do \in TailOps
        /\ StackShape' /\ answer' = a
    BY <1>1, <1>4, <2>1, AfterDone DEF Ends, Busy
  <2>3. CallType'
    BY <1>1, <1>4, <2>2 DEF CallType, Ends, Busy, Answers
  <2>4. ~Running("skip")' /\ ~Running("back")'
    BY <2>2 DEF Running, TailOps
  <2> QED BY <2>2, <2>3, <2>4 DEF SkipBound
<1>5. CASE Rests
  <2>1. /\ stack' \in Seq(Calls) /\ Len(stack') = Len(stack)
        /\ Top'.at # "run" /\ StackShape' /\ answer' = "none"
    BY <1>1, <1>5, AfterWaits DEF Rests, Busy
  <2>2. CallType'
    BY <1>1, <1>5, <2>1 DEF CallType, Rests, Busy
  <2>3. ~Running("skip")' /\ ~Running("back")'
    BY <2>1 DEF Running
  <2> QED BY <2>1, <2>2, <2>3 DEF SkipBound
<1>6. CASE Return
  <2>1. /\ stack' \in Seq(Calls) /\ Len(stack') = Len(stack) - 1
        /\ stack' # <<>> => Top'.at = "open"
        /\ StackShape'
    BY <1>1, <1>6, Popped DEF Return
  <2>2. CallType'
    BY <1>1, <1>2, <1>6, <2>1, BoundAssumption DEF CallType, Return
  <2>3. ~Running("skip")' /\ ~Running("back")'
    BY <2>1 DEF Running
  <2> QED BY <2>1, <2>2, <2>3 DEF SkipBound
<1>7. CASE Idles
  <2>1. CallType' /\ StackShape'
    BY <1>1, <1>7 DEF Idles, CallType, StackShape
  <2>2. SkipBound'
    BY <1>1, <1>7 DEF Idles, SkipBound, Running, Arg, Top
  <2> QED BY <2>1, <2>2
<1>8. CASE SkipBack
  <2>1. /\ stack' \in Seq(Calls) /\ Len(stack') = Len(stack)
        /\ Top'.todo # <<>> /\ Head(Top'.todo).do = "search" /\ StackShape' /\ answer' = "none"
    BY <1>1, <1>8, AfterBack DEF Grounded, TypeOK, PlayerType, Frames
  <2>2. CallType'
    BY <1>1, <1>8, <2>1 DEF CallType, SkipBack
  <2>3. ~Running("skip")' /\ ~Running("back")'
    BY <2>1 DEF Running
  <2> QED BY <2>1, <2>2, <2>3 DEF SkipBound
<1> QED BY <1>3, <1>4, <1>5, <1>6, <1>7, <1>8, Stacks DEF Calling

\* ldp.cpp: the status, the counter and what a skip owes it keep their types, and a
\* search is under way only for a frame that has a file.
LEMMA PlayerTypeKept ==
  ASSUME Grounded, [Next]_vars
  PROVE  PlayerType' /\ GoalThere'
<1>1. /\ PlayerType /\ SkipBound /\ GoalThere /\ CallType /\ StackShape
      /\ LastFrame \in Nat /\ tryF \in Goals
  BY FrameAssumption DEF Grounded, TypeOK, PlayerType
<1> USE DEF PlayerType, GoalThere
<1>2. ASSUME SearchResult PROVE PlayerType' /\ GoalThere'
  BY <1>1, <1>2 DEF SearchResult, Statuses, player
<1>3. CASE Search
  <2>1. ASSUME NEW f \in Goals, SearchRefused(f) \/ SearchSame(f) \/ SearchNowhere(f)
        PROVE  PlayerType' /\ GoalThere'
    BY <1>1, <2>1 DEF SearchRefused, SearchSame, SearchNowhere, player, Statuses
  <2>2. ASSUME NEW f \in Goals, SearchHere(f) \/ SearchOpens(f)
        PROVE  PlayerType' /\ GoalThere'
    <3>1. f \in Frames
      BY <2>2, EntryFound DEF SearchHere, SearchOpens
    <3> QED BY <1>1, <2>2, <3>1 DEF SearchHere, SearchOpens, Send, player, Statuses
  <2>3. CASE SearchOpened \/ SearchUnopened
    BY <1>1, <2>3 DEF SearchOpened, SearchUnopened, Send, Statuses
  <2>4. CASE PollEnds \/ PollTimeout
    BY <1>1, <1>2, <2>4 DEF PollEnds, PollTimeout, player
  <2> QED BY <1>3, <2>1, <2>2, <2>3, <2>4 DEF Search
<1>4. CASE Play
  <2>1. 0 \in Int /\ 0 <= LastFrame
    BY <1>1
  <2> QED BY <1>1, <1>4, <2>1
          DEF Play, PlayRefused, PlayIgnored, PlayHere, PlayOpens, PlayOpened, PlayUnopened,
              StartPlaying, player, Statuses
<1>5. CASE Pause \/ PauseIgnored \/ Stop
  <2>1. 0 \in Int /\ 0 <= LastFrame /\ 0 \in Frames
    BY <1>1 DEF Frames
  <2> QED BY <1>1, <1>5, <2>1 DEF Pause, PauseIgnored, Stop, player, Statuses
<1>6. CASE Skip
  <2>1. Running("skip") /\ lead' = lead + Arg /\ UNCHANGED <<status, cur, tryF, dontGet>>
    BY <1>6 DEF Skip
  <2>2. Arg \in Int
    BY <1>1, <2>1, ArgIsWhole DEF Running
  <2>3. lead + Arg \in Int /\ lead + Arg <= LastFrame
    BY <1>1, <2>1, <2>2 DEF SkipBound, Frames
  <2> QED BY <1>1, <2>1, <2>3
<1>7. CASE SkipIgnored \/ ChangeSpeed \/ Return \/ Vldp \/ Calling \/ UNCHANGED vars
  BY <1>1, <1>7 DEF SkipIgnored, ChangeSpeed, Return, Vldp, VldpOpened, VldpSought, Calling,
                    Call, player, vars
<1>8. CASE Get
  BY <1>2, <1>8 DEF Get
<1>9. CASE Tick
  <2>1. 0 \in Int /\ 0 <= LastFrame
    BY <1>1
  <2> QED BY <1>1, <1>9, <2>1 DEF Tick
<1>10. CASE SkipBack
  <2>1. Running("back") /\ lead' = lead - Arg /\ UNCHANGED <<status, cur, tryF, dontGet>>
    BY <1>10 DEF SkipBack
  <2>2. lead - Arg \in Int /\ lead - Arg <= LastFrame
    BY <1>1, <2>1 DEF SkipBound
  <2> QED BY <1>1, <2>1, <2>2
<1> QED BY <1>3, <1>4, <1>5, <1>6, <1>7, <1>8, <1>9, <1>10 DEF Next, Operation, Calling

\* ldp-vldp.cpp: the file, its offset and the stream keep their types.
LEMMA DriverTypeKept ==
  ASSUME Grounded, [Next]_vars
  PROVE  DriverType'
<1>1. /\ DriverType /\ 0 \in Frames /\ cur \in Goals
      /\ CallType /\ StackShape
  BY FramesAreGoals, FrameAssumption DEF Grounded, TypeOK, PlayerType, Frames
<1> USE DEF DriverType
<1>2. CASE Search
  <2>1. ASSUME NEW f \in Goals, SearchRefused(f) \/ SearchSame(f) \/ SearchNowhere(f)
        PROVE  DriverType'
    BY <1>1, <2>1 DEF SearchRefused, SearchSame, SearchNowhere, driver
  <2>2. ASSUME NEW f \in Goals, SearchHere(f) \/ SearchOpens(f)
        PROVE  DriverType'
    <3>1. FileOf(f) # NoFile
      BY <2>2 DEF SearchHere, SearchOpens
    <3>2. Index(f) \in Frames /\ Start(f) \in Frames
      BY <3>1, EntryFound
    <3> QED BY <1>1, <2>2, <3>2 DEF SearchHere, SearchOpens
  <2>3. CASE SearchOpened
    <3>1. Top.name \in Files
      BY <1>1, <2>3, Waiting DEF SearchOpened, Opened
    <3>2. StreamOf(Top.name) \in Files \cup {NoFile}
      BY <3>1 DEF StreamOf
    <3> QED BY <1>1, <2>3, <3>1, <3>2 DEF SearchOpened
  <2>4. CASE SearchUnopened \/ PollEnds \/ PollTimeout
    BY <1>1, <2>4 DEF SearchUnopened, PollEnds, PollTimeout, driver
  <2> QED BY <1>2, <2>1, <2>2, <2>3, <2>4 DEF Search
<1>3. CASE Play
  <2>1. CASE PlayOpened
    <3>1. Top.name \in Files
      BY <1>1, <2>1, Waiting DEF PlayOpened, Opened
    <3>2. StreamOf(Top.name) \in Files \cup {NoFile}
      BY <3>1 DEF StreamOf
    <3> QED BY <1>1, <2>1, <3>1, <3>2 DEF PlayOpened, StartPlaying
  <2> QED BY <1>1, <1>3, <2>1
          DEF Play, PlayRefused, PlayIgnored, PlayHere, PlayOpens, PlayUnopened,
              StartPlaying, driver
<1>4. CASE Pause \/ PauseIgnored \/ Stop \/ Skip \/ SkipBack \/ SkipIgnored \/ Get
  BY <1>1, <1>4 DEF Pause, PauseIgnored, Stop, Skip, SkipBack, SkipIgnored, Get, driver
<1>5. CASE ChangeSpeed
  <2>1. Start(cur) \in Frames
    BY <1>1, EntryFound
  <2> QED BY <1>1, <1>5, <2>1 DEF ChangeSpeed
<1>6. CASE Return \/ Tick \/ Vldp \/ Calling \/ UNCHANGED vars
  BY <1>1, <1>6 DEF Return, Tick, Vldp, VldpOpened, VldpSought, Calling, Call, driver, vars
<1> QED BY <1>2, <1>3, <1>4, <1>5, <1>6 DEF Next, Operation, Calling

\* The status word and the job of the VLDP agree, and what is shown comes from a file.
LEMMA VldpTypeKept ==
  ASSUME Grounded, [Next]_vars
  PROVE  VldpType' /\ FileThere'
<1>1. /\ VldpType /\ FileThere /\ CallType /\ StackShape /\ target \in Frames
      /\ 0 \in Frames /\ LastFrame \in Nat
      /\ \A n \in Files : Pictures[n] \in 1 .. LastFrame + 1
  BY FrameAssumption, FileAssumption DEF Grounded, TypeOK, DriverType, Frames
<1> USE DEF VldpType, FileThere
<1>2. ASSUME NEW i \in Frames, NEW s, Send(i, s), Free PROVE VldpType' /\ FileThere'
  <2>1. [kind |-> "seek", index |-> i] \in Jobs
    BY DEF Jobs
  <2> QED BY <1>1, <1>2, <2>1 DEF Send, Stats
<1>3. ASSUME NEW n \in Files, Opens(n) PROVE VldpType' /\ FileThere'
  <2>1. [kind |-> "open", name |-> n] \in Jobs
    BY DEF Jobs
  <2> QED BY <1>1, <1>3, <2>1 DEF Opens, Stats
<1>4. CASE Search
  <2>1. ASSUME NEW f \in Goals, SearchRefused(f) \/ SearchSame(f) \/ SearchNowhere(f)
        PROVE  VldpType' /\ FileThere'
    BY <1>1, <2>1 DEF SearchRefused, SearchSame, SearchNowhere, vldp
  <2>2. ASSUME NEW f \in Goals, SearchHere(f) PROVE VldpType' /\ FileThere'
    <3>1. Index(f) \in Frames
      BY <2>2, EntryFound DEF SearchHere
    <3> QED BY <1>2, <2>2, <3>1 DEF SearchHere
  <2>3. ASSUME NEW f \in Goals, SearchOpens(f) PROVE VldpType' /\ FileThere'
    <3>1. FileOf(f) \in Files
      BY <2>3, EntryFound DEF SearchOpens
    <3> QED BY <1>3, <2>3, <3>1 DEF SearchOpens
  <2>4. CASE SearchOpened
    BY <1>1, <1>2, <2>4 DEF SearchOpened, Opened
  <2>5. CASE SearchUnopened \/ PollEnds \/ PollTimeout
    BY <1>1, <2>5 DEF SearchUnopened, PollEnds, PollTimeout, vldp
  <2> QED BY <1>4, <2>1, <2>2, <2>3, <2>4, <2>5 DEF Search
<1>5. CASE Play
  <2>1. ASSUME NEW n \in Files \cup {NoFile}, StartPlaying(n), Free, n # NoFile => file # NoFile
        PROVE  VldpType' /\ FileThere'
    BY <1>1, <2>1 DEF StartPlaying, Stats, Free
  <2>2. CASE PlayHere
    BY <1>1, <2>1, <2>2 DEF PlayHere
  <2>3. CASE PlayOpened
    <3>1. Top.name \in Files /\ file # NoFile
      BY <1>1, <2>3, Waiting DEF PlayOpened, Opened
    <3> QED BY <2>1, <2>3, <3>1 DEF PlayOpened, Opened
  <2>4. CASE PlayOpens
    <3>1. FirstFile \in Files
      BY FileAssumption
    <3> QED BY <1>3, <2>4, <3>1 DEF PlayOpens
  <2>5. CASE PlayRefused \/ PlayIgnored \/ PlayUnopened
    BY <1>1, <2>5 DEF PlayRefused, PlayIgnored, PlayUnopened, vldp
  <2> QED BY <1>5, <2>2, <2>3, <2>4, <2>5 DEF Play
<1>6. CASE Pause
  BY <1>1, <1>6 DEF Pause, Stats, Free
<1>7. CASE Skip
  <2>1. Arg \in Int /\ cur \in Int /\ offset \in Int
    BY <1>1, <1>7, ArgIsWhole
       DEF Skip, Running, Grounded, TypeOK, PlayerType, DriverType, Frames
  <2> DEFINE i == cur + Arg - offset
             reached == video = "PLAYING" /\ i >= 0 /\ i < Pictures[file]
  <2>2. /\ pos' = IF reached THEN i ELSE pos
        /\ video' = IF video = "PLAYING" /\ ~reached THEN "ERROR" ELSE video
        /\ UNCHANGED <<job, file>> /\ Free
    BY <1>7 DEF Skip
  <2>3. reached => file \in Files
    BY <1>1
  <2>4. reached => i \in Frames
    <3> SUFFICES ASSUME reached PROVE i \in Frames
      OBVIOUS
    <3>1. Pictures[file] \in 1 .. LastFrame + 1
      BY <1>1, <2>3
    <3> QED BY <1>1, <2>1, <3>1 DEF Frames
  <2> HIDE DEF i, reached
  <2> QED BY <1>1, <2>2, <2>4 DEF Free, Stats
<1>8. CASE PauseIgnored \/ Stop \/ SkipBack \/ SkipIgnored \/ Get \/ ChangeSpeed \/ Return
           \/ Calling \/ UNCHANGED vars
  BY <1>1, <1>8 DEF PauseIgnored, Stop, SkipBack, SkipIgnored, Get, ChangeSpeed, Return, Calling, Call,
                    vldp, vars
<1>9. CASE Tick
  <2>1. CASE video = "PLAYING" /\ pos + 1 < Pictures[file]
    <3>1. Pictures[file] \in 1 .. LastFrame + 1
      BY <1>1, <2>1
    <3>2. pos + 1 \in Frames
      BY <1>1, <2>1, <3>1 DEF Frames
    <3> QED BY <1>1, <1>9, <2>1, <3>2 DEF Tick
  <2>2. CASE video = "PLAYING" /\ ~(pos + 1 < Pictures[file])
    BY <1>1, <1>9, <2>2 DEF Tick, Stats
  <2>3. CASE video # "PLAYING"
    BY <1>1, <1>9, <2>3 DEF Tick
  <2> QED BY <2>1, <2>2, <2>3
<1>10. [kind |-> "none"] \in Jobs
  BY DEF Jobs
<1>11. ASSUME NEW ok \in BOOLEAN, VldpOpened(ok) PROVE VldpType' /\ FileThere'
  <2>1. job.name \in Files
    BY <1>1, <1>11 DEF VldpOpened, Jobs
  <2>2. job.name # NoFile
    BY <2>1, FrameAssumption
  <2> QED BY <1>1, <1>10, <1>11, <2>1, <2>2 DEF VldpOpened, Stats
<1>12. ASSUME NEW st \in {"PAUSED", "STOPPED", "ERROR"}, VldpSought(st)
       PROVE  VldpType' /\ FileThere'
  <2>1. job.index \in Frames
    BY <1>1, <1>12 DEF VldpSought, Jobs
  <2> QED BY <1>1, <1>10, <1>12, <2>1 DEF VldpSought, Stats
<1> QED BY <1>4, <1>5, <1>6, <1>7, <1>8, <1>9, <1>11, <1>12 DEF Next, Operation, Vldp, Calling

\* What everything below rests on: the types, and the shape of the calls in progress.
THEOREM Groundwork == Spec => []Grounded
<1>1. Init => Grounded
  <2> SUFFICES ASSUME Init PROVE Grounded
    OBVIOUS
  <2> USE FrameAssumption, FileAssumption, BoundAssumption DEF Init
  <2>1. PlayerType
    <3>1. 0 \in Frames /\ 0 \in Goals /\ 0 \in Int /\ 0 <= LastFrame
      BY FramesAreGoals DEF Frames
    <3> QED BY <3>1 DEF PlayerType, Statuses
  <2>2. DriverType
    <3>1. 0 \in Frames
      BY DEF Frames
    <3> QED BY <3>1 DEF DriverType
  <2>3. CallType
    BY EmptySeq DEF CallType
  <2>4. VldpType
    BY DEF VldpType, Stats, Jobs, Frames
  <2>5. StackShape
    BY DEF StackShape
  <2>6. SkipBound
    BY DEF SkipBound, Running
  <2>7. FileThere
    BY DEF FileThere
  <2>8. GoalThere
    BY DEF GoalThere
  <2> QED BY <2>1, <2>2, <2>3, <2>4, <2>5, <2>6, <2>7, <2>8 DEF Grounded, TypeOK
<1>2. Grounded /\ [Next]_vars => Grounded'
  BY StackKept, PlayerTypeKept, DriverTypeKept, VldpTypeKept DEF Grounded, TypeOK
<1> QED BY <1>1, <1>2, PTL DEF Spec

\* Type correctness of the player, the driver, the calls and the VLDP (ldp.cpp,
\* ldp-vldp.cpp): whatever the handlers call meanwhile, a search that is said to have
\* landed leaves the counter on a frame that has a file, and the status word is
\* STAT_BUSY exactly while the VLDP thread has a job.  That the counter does not pass
\* LastFrame, or fall below 0 on a skip that is still owed, is the bound of Call and Tick.
THEOREM TypeCorrect == Spec => []TypeOK
  BY Groundwork, PTL DEF Grounded

-----------------------------------------------------------------------------
(* Who a search under way belongs to                                       *)

\* The call looks for a frame, by a search or a step.
Finds(c) == Head(c.todo).do \in {"search", "step"}

\* A search that is polled for is under way in the VLDP, or has ended.
PollAnswered == stack # <<>> /\ Top.at = "poll" /\ status = "SEARCHING"
                  => job.kind = "seek" \/ video \in {"PAUSED", "ERROR"}

\* A search under way is polled for, or waits for the file that is being opened.
Owner == status = "SEARCHING" =>
           stack # <<>> /\ (Top.at = "poll" \/ \E c \in Openers : Finds(c))

\* A play that waits for its file is not to find a search under way.
PlaySettled == stack # <<>> /\ Top.at = "open" /\ status = "SEARCHING" => Finds(Top)

\* What an operation leaves behind, for a call that did not wait.
LEMMA EndsRunning ==
  ASSUME Grounded, Ends, stack # <<>> => Top.at # "open"
  PROVE  /\ stack' # <<>> /\ Top'.at = "run" /\ Openers' = Openers
         /\ Len(stack') = Len(stack)
<1>1. PICK a \in Answers : Done(a)
  BY DEF Ends
<1> QED BY <1>1, AfterDone DEF Grounded, TypeOK, Ends, Busy, Openers

\* Every step leaves a search under way with the call it belongs to.
LEMMA OwnerKept ==
  ASSUME Prompt, Grounded, PollAnswered, Owner, [Next]_vars
  PROVE  PollAnswered' /\ Owner'
<1>1. CallType /\ StackShape /\ VldpType
  BY DEF Grounded, TypeOK
<1>2. ASSUME Ends \/ Rests, status' # "SEARCHING" PROVE PollAnswered' /\ Owner'
  BY <1>2 DEF PollAnswered, Owner
<1>3. ASSUME Ends, Top.at = "run", status' = "SEARCHING" => status = "SEARCHING"
      PROVE  PollAnswered' /\ Owner'
  BY <1>3, EndsRunning DEF PollAnswered, Owner
<1>4. ASSUME NEW i, NEW s, Send(i, s), Top.todo # <<>>, stack # <<>>,
             Head(Top.todo).do \in {"search", "step"},
             status' = "SEARCHING" => Sought(s)
      PROVE  PollAnswered' /\ Owner'
  <2>1. CASE Sought(s)
    <3>1. Waits("poll", NoFile) /\ job'.kind = "seek"
      BY <1>4, <2>1 DEF Send
    <3>2. stack' # <<>> /\ Top'.at = "poll"
      BY <1>1, <1>4, <3>1, AfterWaits
    <3> QED BY <3>1, <3>2 DEF PollAnswered, Owner
  <2> QED BY <1>4, <2>1 DEF PollAnswered, Owner
<1>5. CASE Search
  <2>1. ASSUME NEW f \in Goals, SearchRefused(f) \/ SearchSame(f) \/ SearchNowhere(f)
        PROVE  PollAnswered' /\ Owner'
    <3>1. Ends /\ Top.at = "run"
      BY <2>1 DEF SearchRefused, SearchSame, SearchNowhere, Seeks, Searching, Running, Ends,
                  Busy, Answers
    <3>2. status' = "SEARCHING" => status = "SEARCHING"
      BY <2>1 DEF SearchRefused, SearchSame, SearchNowhere, player
    <3> QED BY <1>3, <3>1, <3>2
  <2>2. ASSUME NEW f \in Goals, SearchHere(f) PROVE PollAnswered' /\ Owner'
    BY <1>4, <2>2 DEF SearchHere, Seeks, Searching, Running
  <2>3. ASSUME NEW f \in Goals, SearchOpens(f) PROVE PollAnswered' /\ Owner'
    <3>1. FileOf(f) \in Files
      BY <2>3, EntryFound DEF SearchOpens
    <3>2. /\ Waits("open", FileOf(f)) /\ stack # <<>> /\ Top.todo # <<>>
          /\ Head(Top.todo).do \in {"search", "step"}
      BY <2>3 DEF SearchOpens, Opens, Seeks, Searching, Running
    <3>3. stack' # <<>> /\ Top'.at = "open" /\ Top'.todo = Top.todo
      BY <1>1, <3>1, <3>2, AfterWaits
    <3>4. Openers' = {Top'} /\ Finds(Top')
      BY <3>2, <3>3 DEF Openers, Finds
    <3> QED BY <3>3, <3>4 DEF PollAnswered, Owner
  <2>4. CASE SearchOpened
    BY <1>1, <1>4, <2>4, Waiting DEF SearchOpened, Opened
  <2>5. CASE SearchUnopened \/ PollEnds
    BY <2>5 DEF SearchUnopened, PollEnds, PollAnswered, Owner
  <2>6. ~PollTimeout
    BY <1>1 DEF PollTimeout, Polling, Free, PollAnswered, VldpType
  <2> QED BY <1>5, <2>1, <2>2, <2>3, <2>4, <2>5, <2>6 DEF Search
<1>6. CASE Play
  <2>1. CASE PlayRefused \/ PlayIgnored
    BY <1>3, <2>1 DEF PlayRefused, PlayIgnored, Running, Ends, Busy, Answers, player
  <2>2. CASE PlayHere \/ PlayOpens \/ PlayOpened \/ PlayUnopened
    BY <2>2 DEF PlayHere, PlayOpens, Plays, PlayOpened, PlayUnopened, StartPlaying,
                PollAnswered, Owner
  <2> QED BY <1>6, <2>1, <2>2 DEF Play
<1>7. CASE Pause \/ Stop
  BY <1>7 DEF Pause, Stop, PollAnswered, Owner
<1>8. CASE PauseIgnored \/ Skip \/ SkipIgnored \/ ChangeSpeed \/ Get
  <2>1. Ends /\ Top.at = "run"
    BY <1>8 DEF PauseIgnored, Skip, SkipIgnored, ChangeSpeed, Get, Running, Ends, Busy, Answers
  <2>2. status' = "SEARCHING" => status = "SEARCHING"
    BY <1>8 DEF PauseIgnored, Skip, SkipIgnored, ChangeSpeed, Get, SearchResult, player
  <2> QED BY <1>3, <2>1, <2>2
<1>9. CASE Return
  <2>1. Openers' = Openers /\ (stack' # <<>> => Top'.at = "open")
    BY <1>1, <1>9, Popped DEF Return
  <2>2. status' = status /\ Top.at = "run"
    BY <1>9 DEF Return, player
  <2> QED BY <2>1, <2>2 DEF PollAnswered, Owner, Openers
<1>10. CASE Tick
  BY <1>10 DEF Tick, PollAnswered, Owner
<1>11. CASE Vldp
  <2>1. UNCHANGED <<stack, status>>
    BY <1>11 DEF Vldp, VldpOpened, VldpSought, player
  <2>2. Owner'
    BY <2>1 DEF Owner, Openers, Below, Top
  <2>3. ASSUME NEW ok \in BOOLEAN, VldpOpened(ok) PROVE PollAnswered'
    BY <1>1, <2>1, <2>3 DEF VldpOpened, PollAnswered, VldpType, Top
  <2>4. ASSUME NEW st \in {"PAUSED", "STOPPED", "ERROR"}, VldpSought(st) PROVE PollAnswered'
    BY <2>4 DEF VldpSought, PollAnswered
  <2> QED BY <1>11, <2>2, <2>3, <2>4 DEF Vldp
<1>12. CASE Calling
  <2>1. PICK fn \in Functions \cup Handlers : \E a \in Arguments(fn) : Call(fn, a)
    BY <1>12 DEF Calling
  <2>2. PICK a \in Arguments(fn) : Call(fn, a)
    BY <2>1
  <2>3. /\ stack' # <<>> /\ Top'.at = "run" /\ Openers' = Openers
        /\ status' = status /\ (stack # <<>> => Top.at = "open")
    BY <1>1, <2>2, Called DEF player
  <2> QED BY <2>3 DEF PollAnswered, Owner
<1>13. CASE UNCHANGED vars
  BY <1>13 DEF vars, player, vldp, PollAnswered, Owner, Openers, Below, Top
<1>14. CASE SkipBack
  BY <1>14 DEF SkipBack, PollAnswered, Owner
<1> QED BY <1>5, <1>6, <1>7, <1>8, <1>9, <1>10, <1>11, <1>12, <1>13, <1>14 DEF Next, Operation, Calling

\* When every search ends in time, one under way has its owner.
LEMMA SearchOwned ==
  ASSUME Prompt
  PROVE  Spec => [](Grounded /\ PollAnswered /\ Owner)
<1>1. Init => PollAnswered /\ Owner
  BY DEF Init, PollAnswered, Owner
<1>2. Grounded /\ PollAnswered /\ Owner /\ [Next]_vars => PollAnswered' /\ Owner'
  BY OwnerKept
<1> QED BY <1>1, <1>2, Groundwork, PTL DEF Spec

\* When searches end within the time a caller waits (ldp.cpp:307), no call returns to
\* the main script with a search under way, whatever the handlers do meanwhile.
THEOREM Settled ==
  ASSUME Prompt
  PROVE  Spec => []SettledAtReturn
<1>1. Owner => SettledAtReturn
  BY DEF Owner, SettledAtReturn
<1> QED BY <1>1, SearchOwned, PTL

-----------------------------------------------------------------------------
(* The player is the deck                                                  *)

\* Without handlers a play that waits was let through by pre_play, and nothing
\* has called the disc since.
LEMMA PlaySettledKept ==
  ASSUME Handlers = {}, Grounded, PlaySettled, [Next]_vars
  PROVE  PlaySettled'
<1>1. CallType /\ StackShape
  BY DEF Grounded, TypeOK
<1>2. CASE Calling
  <2>1. PICK fn \in Functions \cup Handlers : \E a \in Arguments(fn) : Call(fn, a)
    BY <1>2 DEF Calling
  <2>2. PICK a \in Arguments(fn) : Call(fn, a)
    BY <2>1
  <2>3. Top'.at = "run"
    BY <1>1, <2>2, Called
  <2> QED BY <2>3 DEF PlaySettled
<1>3. CASE Ends
  <2>1. PICK a \in Answers : Done(a)
    BY <1>3 DEF Ends
  <2>2. Top'.at = "run"
    BY <1>1, <1>3, <2>1, AfterDone DEF Ends, Busy
  <2> QED BY <2>2 DEF PlaySettled
<1>4. ASSUME Rests, Finds(Top) PROVE PlaySettled'
  <2>1. Top'.todo = Top.todo
    BY <1>1, <1>4, AfterWaits DEF Rests, Busy
  <2> QED BY <1>4, <2>1 DEF PlaySettled, Finds
<1>5. CASE Search
  <2>1. Ends \/ Rests
    BY <1>5, SearchStacks
  <2>2. Finds(Top)
    BY <1>1, <1>5, Waiting
       DEF Search, SearchRefused, SearchSame, SearchNowhere, SearchHere, SearchOpens, Seeks,
           Searching, Running, SearchOpened, SearchUnopened, Opened, PollEnds, PollTimeout,
           Polling, Finds
  <2> QED BY <1>3, <1>4, <2>1, <2>2
<1>6. CASE Play
  <2>1. CASE PlayRefused \/ PlayIgnored
    BY <1>3, <2>1 DEF PlayRefused, PlayIgnored, Running, Ends, Busy, Answers
  <2>2. CASE PlayHere \/ PlayOpens \/ PlayOpened \/ PlayUnopened
    BY <2>2 DEF PlayHere, PlayOpens, Plays, PlayOpened, PlayUnopened, StartPlaying, PlaySettled
  <2> QED BY <1>6, <2>1, <2>2 DEF Play
<1>7. CASE Pause \/ PauseIgnored \/ Stop \/ Skip \/ SkipIgnored \/ ChangeSpeed \/ Get
  <2>1. Ends
    BY <1>7 DEF Pause, PauseIgnored, Stop, Skip, SkipIgnored, ChangeSpeed, Get, Running, Ends,
                Busy, Answers
  <2> QED BY <1>3, <2>1
<1>8. CASE Return
  <2>1. Len(stack') = Len(stack) - 1
    BY <1>1, <1>8, Popped DEF Return
  <2>2. stack' = <<>>
    BY <1>1, <1>8, <2>1, TopIsFirst, EmptySeq, Popped DEF Return, StackShape
  <2> QED BY <2>2 DEF PlaySettled
<1>9. CASE Tick \/ Vldp \/ UNCHANGED vars
  BY <1>9 DEF Tick, Vldp, VldpOpened, VldpSought, vars, player, PlaySettled, Top
<1>10. CASE SkipBack
  BY <1>10 DEF SkipBack, PlaySettled
<1> QED BY <1>2, <1>5, <1>6, <1>7, <1>8, <1>9, <1>10 DEF Next, Operation, Calling

\* A play that waited for its file finds no search under way.
LEMMA PlaysSettled ==
  ASSUME Prompt \/ Handlers = {}
  PROVE  Spec => [](Grounded /\ PlaySettled)
<1>1. CASE Prompt
  <2>1. Owner => PlaySettled
    BY DEF Owner, PlaySettled, Openers
  <2> QED BY <1>1, <2>1, SearchOwned, PTL
<1>2. CASE Handlers = {}
  <2>1. Init => PlaySettled
    BY DEF Init, PlaySettled
  <2>2. Grounded /\ PlaySettled /\ [Next]_vars => PlaySettled'
    BY <1>2, PlaySettledKept
  <2> QED BY <2>1, <2>2, Groundwork, PTL DEF Spec
<1> QED BY <1>1, <1>2

\* Every step of the player is a step of the deck, or none.
LEMMA DeckStep ==
  ASSUME Grounded, PlaySettled, [Next]_vars
  PROVE  [Deck!Next]_Deck!vars
<1> USE DEF Deck!vars
<1>1. /\ tryF \in Deck!Goals /\ Deck!Goals = Goals /\ Deck!Frames = Frames
      /\ CallType /\ StackShape
  BY DEF Grounded, TypeOK, PlayerType, Frames, Goals, Deck!Frames, Deck!Goals
<1>2. ASSUME UNCHANGED player PROVE [Deck!Next]_Deck!vars
  BY <1>2 DEF player
<1>3. ASSUME SearchResult PROVE [Deck!Next]_Deck!vars
  BY <1>3 DEF SearchResult, player, Deck!Next, Deck!Land, Deck!Fail
<1>4. CASE Search
  <2>1. ASSUME NEW f \in Goals, SearchRefused(f) \/ SearchSame(f)
        PROVE  [Deck!Next]_Deck!vars
    BY <1>2, <2>1 DEF SearchRefused, SearchSame
  <2>2. ASSUME NEW f \in Goals, SearchNowhere(f) \/ SearchHere(f) \/ SearchOpens(f)
        PROVE  [Deck!Next]_Deck!vars
    <3>1. Deck!Search(f)
      BY <2>2 DEF SearchNowhere, SearchHere, SearchOpens, Seeks, Deck!Search
    <3> QED BY <1>1, <3>1 DEF Deck!Next
  <2>3. CASE SearchOpened \/ SearchUnopened
    <3>1. UNCHANGED <<cur, tryF>> /\ status' \in {status, "ERROR"}
      BY <2>3 DEF SearchOpened, SearchUnopened
    <3>2. status # "SEARCHING" /\ status' = "ERROR" => Deck!Search(tryF)
      BY <3>1 DEF Deck!Search
    <3> QED BY <1>1, <3>1, <3>2 DEF Deck!Next, Deck!Fail
  <2>4. CASE PollEnds \/ PollTimeout
    BY <1>2, <1>3, <2>4 DEF PollEnds, PollTimeout
  <2> QED BY <1>4, <2>1, <2>2, <2>3, <2>4 DEF Search
<1>5. CASE Play
  <2>1. CASE PlayRefused \/ PlayIgnored
    BY <1>2, <2>1 DEF PlayRefused, PlayIgnored
  <2>2. CASE PlayHere
    BY <2>2 DEF PlayHere, Plays, StartPlaying, Deck!Next, Deck!Play
  <2>3. CASE PlayOpens
    BY <2>3 DEF PlayOpens
  <2>4. CASE PlayOpened \/ PlayUnopened
    <3>1. status # "SEARCHING"
      BY <2>4 DEF PlayOpened, PlayUnopened, Opened, PlaySettled, Finds
    <3>2. status' = "PLAYING" /\ UNCHANGED <<cur, tryF>>
      BY <2>4 DEF PlayOpened, PlayUnopened, StartPlaying
    <3> QED BY <3>1, <3>2 DEF Deck!Next, Deck!Play
  <2> QED BY <1>5, <2>1, <2>2, <2>3, <2>4 DEF Play
<1>6. CASE Pause
  BY <1>6 DEF Pause, Deck!Next, Deck!Pause
<1>7. CASE Stop
  BY <1>7 DEF Stop, Deck!Next, Deck!Stop
<1>8. CASE Tick
  <2>1. CASE status = "PLAYING"
    <3>1. Deck!Advance
      BY <1>1, <1>8, <2>1 DEF Tick, Deck!Advance
    <3> QED BY <3>1 DEF Deck!Next
  <2>2. CASE status # "PLAYING"
    BY <1>8, <2>2 DEF Tick
  <2> QED BY <2>1, <2>2
<1>9. CASE Get
  BY <1>3, <1>9 DEF Get
<1>10. CASE Skip \/ SkipBack
  BY <1>10 DEF Skip, SkipBack
<1>11. CASE PauseIgnored \/ SkipIgnored \/ ChangeSpeed \/ Return \/ Vldp \/ Calling
            \/ UNCHANGED vars
  BY <1>2, <1>11 DEF PauseIgnored, SkipIgnored, ChangeSpeed, Return, Vldp, VldpOpened,
                     VldpSought, Calling, Call, vars
<1> QED BY <1>4, <1>5, <1>6, <1>7, <1>8, <1>9, <1>10, <1>11 DEF Next, Operation, Calling

\* The player is the deck of ldp.h, if no handler touches the disc or every search ends
\* in time: it leaves a search by landing where it was sent, by failing or by a stop.
THEOREM DeckImplemented ==
  ASSUME Prompt \/ Handlers = {}
  PROVE  Spec => ImplementsDeck
<1>1. Init => Deck!Init
  BY DEF Init, Deck!Init
<1>2. Grounded /\ PlaySettled /\ [Next]_vars => [Deck!Next]_Deck!vars
  BY DeckStep
<1> QED BY <1>1, <1>2, PlaysSettled, PTL DEF Spec, ImplementsDeck, Deck!Spec

-----------------------------------------------------------------------------
(* Which file is open, and what the VLDP is after                          *)

\* What the VLDP opens, or has just opened, is the file that is waited for.  A
\* search that may end like an opening does not run while a file is waited for.
Opening == \A c \in Openers :
  /\ video = "STOPPED" => file = c.name
  /\ job.kind = "open" => job.name = c.name
  /\ ~Prompt => job.kind # "seek"
OpenedFor == job.kind = "open" => Openers # {}

\* Until the file that is waited for is open and its call has seen it, the search
\* it is for is the last one made; a play that waits finds no file named.
Fresh == job.kind = "open" \/ video = "STOPPED" =>
  \A c \in Openers : IF Finds(c) THEN /\ status = "SEARCHING" /\ FileOf(tryF) = c.name
                                      /\ target = Index(tryF)
                                 ELSE curFile = NoFile

\* The driver names the open file, except one that it has yet to see open.
FileKnown == file # NoFile => curFile \in {NoFile, file} \/ (video = "STOPPED" /\ Openers # {})

\* The audio stream is that of the file the driver names.
Heard == sound = IF curFile = NoFile THEN NoFile ELSE StreamOf(curFile)

\* A search that is polled for is the last one made, in the right file.
PollGoal == stack # <<>> /\ Top.at = "poll" =>
  /\ status = "SEARCHING" /\ FileOf(tryF) # NoFile /\ file \in {NoFile, FileOf(tryF)}
  /\ job.kind = "seek" => job.index = Index(tryF)
  /\ video = "PAUSED" => pos = Index(tryF)
  /\ video # "PLAYING" /\ job.kind # "open"

Sourced == Opening /\ OpenedFor /\ Fresh /\ FileKnown /\ Heard /\ PollGoal

\* Either no handler touches the disc, or every search ends in time and no
\* handler stops the disc.
Orderly == Handlers = {} \/ (Prompt /\ "discStop" \notin Handlers)

\* Nothing waits below a stop, and without prompt searches nothing waits below at all.
LEMMA OrderlyStack ==
  ASSUME Orderly, Grounded, stack # <<>>
  PROVE  /\ ~Prompt => Below = {}
         /\ Stops(Top) => Below = {}
<1>1. CallType /\ StackShape
  BY DEF Grounded, TypeOK
<1>2. Len(stack) \in Nat \ {0} /\ Top = stack[1]
  BY <1>1, TopIsFirst
<1>3. Handlers = {} => Below = {}
  BY <1>1, <1>2 DEF StackShape, Below
<1>4. "discStop" \notin Handlers /\ Stops(Top) => Below = {}
  BY <1>1, <1>2 DEF StackShape, Below
<1> QED BY <1>3, <1>4 DEF Orderly

\* A search or a play finds a file that is named, so none has just been opened for
\* a call below.
LEMMA NoneArrived ==
  ASSUME Sourced, status # "SEARCHING", curFile # NoFile
  PROVE  file # NoFile => curFile = file
  BY DEF Sourced, Fresh, FileKnown

\* Steps that leave the driver's file and the VLDP alone.
Quiet == /\ Openers' = Openers /\ UNCHANGED <<curFile, sound, vldp>>
         /\ \/ stack' = <<>> \/ Top'.at # "poll"
            \/ UNCHANGED <<stack, status, tryF>>
         /\ \/ UNCHANGED <<status, tryF, target>>
            \/ status # "SEARCHING"
            \/ video \in {"PAUSED", "ERROR"}
            \/ Openers = {}

\* They disturb nothing here.
LEMMA QuietKept ==
  ASSUME Grounded, Sourced, Quiet
  PROVE  Sourced'
<1>1. UNCHANGED <<video, job, file, pos>> /\ (video = "BUSY" <=> job.kind # "none")
  BY DEF Quiet, vldp, Grounded, TypeOK, VldpType
<1>2. Opening' /\ OpenedFor' /\ FileKnown' /\ Heard'
  BY <1>1 DEF Quiet, Sourced, Opening, OpenedFor, FileKnown, Heard
<1>3. Fresh'
  BY <1>1 DEF Quiet, Sourced, Fresh
<1>4. PollGoal'
  BY <1>1 DEF Quiet, Sourced, PollGoal, Top
<1> QED BY <1>2, <1>3, <1>4 DEF Sourced

\* Most steps are of that kind.
LEMMA QuietSteps ==
  ASSUME Orderly, Grounded,
         \/ Calling \/ PollEnds \/ PollTimeout \/ PlayRefused \/ PlayIgnored
         \/ PauseIgnored \/ Stop \/ SkipBack \/ SkipIgnored \/ ChangeSpeed \/ Get
         \/ Return \/ UNCHANGED vars
         \/ \E f \in Goals : SearchRefused(f) \/ SearchSame(f) \/ SearchNowhere(f)
  PROVE  Quiet
<1>1. CallType /\ StackShape
  BY DEF Grounded, TypeOK
<1>2. ASSUME Ends, Top.at # "open", UNCHANGED <<curFile, sound, vldp>>,
             \/ UNCHANGED <<status, tryF, target>>
             \/ status # "SEARCHING"
             \/ video \in {"PAUSED", "ERROR"}
             \/ Openers = {}
      PROVE  Quiet
  <2>1. Top'.at = "run" /\ Openers' = Openers
    BY <1>2, EndsRunning
  <2> QED BY <1>2, <2>1 DEF Quiet
<1>3. ASSUME SearchResult
      PROVE  \/ UNCHANGED <<status, tryF>>
             \/ video \in {"PAUSED", "ERROR"}
  BY <1>3 DEF SearchResult, player
<1>4. CASE Calling
  <2>1. PICK fn \in Functions \cup Handlers : \E a \in Arguments(fn) : Call(fn, a)
    BY <1>4 DEF Calling
  <2>2. PICK a \in Arguments(fn) : Call(fn, a)
    BY <2>1
  <2>3. Top'.at = "run" /\ Openers' = Openers /\ UNCHANGED <<player, driver, vldp>>
    BY <1>1, <2>2, Called
  <2> QED BY <2>3 DEF Quiet, player, driver
<1>5. CASE PollEnds \/ PollTimeout
  BY <1>1, <1>2, <1>3, <1>5, Waiting
     DEF PollEnds, PollTimeout, Polling, Ends, Busy, Answers, player, driver
<1>6. CASE PlayRefused \/ PlayIgnored \/ PauseIgnored \/ SkipIgnored \/ ChangeSpeed
  BY <1>2, <1>6 DEF PlayRefused, PlayIgnored, PauseIgnored, SkipIgnored, ChangeSpeed, Running,
                    Ends, Busy, Answers, player, driver
<1>7. CASE Get
  BY <1>2, <1>3, <1>7 DEF Get, Running, Ends, Busy, Answers, driver
<1>8. CASE Stop
  <2>1. Openers = {}
    BY <1>8, OrderlyStack DEF Stop, Running, Stops, Openers
  <2> QED BY <1>2, <1>8, <2>1 DEF Stop, Running, Ends, Busy, Answers, driver
<1>9. CASE Return
  <2>1. Openers' = Openers /\ (stack' # <<>> => Top'.at = "open")
    BY <1>1, <1>9, Popped DEF Return
  <2> QED BY <1>9, <2>1 DEF Return, Quiet, player, driver
<1>10. CASE UNCHANGED vars
  BY <1>10 DEF vars, player, driver, Quiet, Openers, Below, Top
<1>11. ASSUME NEW f \in Goals, SearchRefused(f) \/ SearchSame(f) \/ SearchNowhere(f)
       PROVE  Quiet
  BY <1>2, <1>11 DEF SearchRefused, SearchSame, SearchNowhere, Seeks, Searching, Running, Ends,
                     Busy, Answers, player, driver
<1>12. CASE SkipBack
  <2>1. Top'.at = "run" /\ Openers' = Openers
    BY <1>1, <1>12, AfterBack DEF Grounded, TypeOK, PlayerType, Frames
  <2> QED BY <1>12, <2>1 DEF SkipBack, Quiet, driver
<1> QED BY <1>4, <1>5, <1>6, <1>7, <1>8, <1>9, <1>10, <1>11, <1>12

\* The seek command: what it does to the calls.
LEMMA AfterSend ==
  ASSUME Orderly, Grounded, NEW i, NEW s, Send(i, s), stack # <<>>, Top.todo # <<>>, Finds(Top)
  PROVE  /\ Openers' = Below /\ stack' # <<>>
         /\ Top'.at = IF Sought(s) THEN "poll" ELSE "run"
         /\ Opening' /\ OpenedFor' /\ Fresh'
         /\ video' = "BUSY" /\ job'.kind = "seek" /\ job'.index = i /\ UNCHANGED file
<1>1. CallType /\ StackShape
  BY DEF Grounded, TypeOK
<1>2. /\ video' = "BUSY" /\ job'.kind = "seek" /\ job'.index = i /\ UNCHANGED file
      /\ IF Sought(s) THEN Waits("poll", NoFile) ELSE Done("unheard")
  BY DEF Send
<1>3. Openers' = Below /\ stack' # <<>> /\ Top'.at = IF Sought(s) THEN "poll" ELSE "run"
  BY <1>1, <1>2, AfterWaits, AfterDone DEF Finds
<1>4. ~Prompt => Below = {}
  BY OrderlyStack
<1> QED BY <1>2, <1>3, <1>4 DEF Opening, OpenedFor, Fresh

\* nonblocking_search in the open file: the file named is the one open.
LEMMA SearchHereKept ==
  ASSUME Orderly, Grounded, Sourced, NEW f \in Goals, SearchHere(f)
  PROVE  Sourced'
<1>1. /\ FileOf(f) # NoFile /\ FileOf(f) = curFile /\ status # "SEARCHING"
      /\ Send(Index(f), sound)
      /\ status' = IF Sought(sound) THEN "SEARCHING" ELSE "ERROR"
      /\ tryF' = f /\ UNCHANGED <<curFile, sound>>
      /\ stack # <<>> /\ Top.todo # <<>> /\ Finds(Top)
  BY DEF SearchHere, Seeks, Searching, Running, Finds
<1>2. /\ stack' # <<>> /\ Top'.at = IF Sought(sound) THEN "poll" ELSE "run"
      /\ Opening' /\ OpenedFor' /\ Fresh'
      /\ video' = "BUSY" /\ job'.kind = "seek" /\ job'.index = Index(f) /\ UNCHANGED file
  BY <1>1, AfterSend
<1>3. file # NoFile => curFile = file
  BY <1>1, NoneArrived
<1>4. FileKnown' /\ Heard'
  BY <1>1, <1>2, <1>3 DEF FileKnown, Heard, Sourced
<1>5. PollGoal'
  BY <1>1, <1>2, <1>3 DEF PollGoal
<1> QED BY <1>2, <1>4, <1>5 DEF Sourced

\* nonblocking_search goes on in the file it waited for.
LEMMA SearchOpenedKept ==
  ASSUME Orderly, Grounded, Sourced, SearchOpened
  PROVE  Sourced'
<1>1. /\ stack # <<>> /\ Top.at = "open" /\ Finds(Top) /\ video = "STOPPED"
      /\ curFile' = Top.name /\ sound' = StreamOf(Top.name)
      /\ Send(target, sound')
      /\ status' = IF Sought(sound') THEN status ELSE "ERROR"
      /\ UNCHANGED tryF
  BY DEF SearchOpened, Opened, Finds
<1>2. Top.todo # <<>> /\ Top.name \in Files /\ Top.name # NoFile
  BY <1>1, Waiting, FrameAssumption DEF Grounded, TypeOK
<1>3. /\ stack' # <<>> /\ Top'.at = IF Sought(sound') THEN "poll" ELSE "run"
      /\ Opening' /\ OpenedFor' /\ Fresh'
      /\ video' = "BUSY" /\ job'.kind = "seek" /\ job'.index = target /\ UNCHANGED file
  BY <1>1, <1>2, AfterSend
<1>4. Openers = {Top}
  BY <1>1 DEF Openers
<1>5. /\ file = Top.name /\ status = "SEARCHING" /\ FileOf(tryF) = Top.name
      /\ target = Index(tryF)
  BY <1>1, <1>4 DEF Sourced, Opening, Fresh
<1>6. FileKnown' /\ Heard'
  BY <1>1, <1>2, <1>3, <1>5 DEF FileKnown, Heard, StreamOf
<1>7. PollGoal'
  BY <1>1, <1>2, <1>3, <1>5 DEF PollGoal
<1> QED BY <1>3, <1>6, <1>7 DEF Sourced

\* A file begins to be opened, for a search or a play.
LEMMA OpensKept ==
  ASSUME Grounded, Sourced, NEW n \in Files, Opens(n), stack # <<>>, Top.todo # <<>>,
         Head(Top.todo).do \in {"search", "step", "play"}, UNCHANGED <<curFile, sound>>,
         IF Finds(Top) THEN /\ status' = "SEARCHING" /\ FileOf(tryF') = n
                            /\ target' = Index(tryF')
                       ELSE curFile = NoFile
  PROVE  Sourced'
<1>1. /\ video' = "BUSY" /\ job' = [kind |-> "open", name |-> n] /\ file' = NoFile
      /\ Waits("open", n)
  BY DEF Opens
<1>2. Top'.at = "open" /\ Top'.name = n /\ Top'.todo = Top.todo /\ stack' # <<>>
  BY <1>1, AfterWaits DEF Grounded, TypeOK
<1>3. Openers' = {Top'} /\ Finds(Top') = Finds(Top)
  BY <1>2 DEF Openers, Finds
<1>4. job'.kind = "open" /\ job'.name = n
  BY <1>1
<1>5. Opening' /\ OpenedFor'
  BY <1>1, <1>2, <1>3, <1>4 DEF Opening, OpenedFor
<1>6. Fresh'
  BY <1>2, <1>3 DEF Fresh
<1>7. FileKnown' /\ Heard' /\ PollGoal'
  BY <1>1, <1>2 DEF FileKnown, Heard, PollGoal, Sourced
<1> QED BY <1>5, <1>6, <1>7 DEF Sourced

\* A command that is over at once, or a wait for a file that failed: the VLDP is
\* not opening a file then, and has not just opened one for a call below.
LEMMA EndsKept ==
  ASSUME Grounded, Sourced, Ends, Free, video' # "STOPPED", UNCHANGED job,
         file' # NoFile => curFile' \in {NoFile, file'}, Heard'
  PROVE  Sourced'
<1>1. job'.kind = "none"
  BY DEF Grounded, TypeOK, VldpType, Free
<1>2. Top'.at = "run"
  <2>1. PICK a \in Answers : Done(a)
    BY DEF Ends
  <2> QED BY <2>1, AfterDone DEF Grounded, TypeOK, Ends, Busy
<1> QED BY <1>1, <1>2 DEF Sourced, Opening, OpenedFor, Fresh, FileKnown, PollGoal

\* The file that was waited for could not be opened.
LEMMA UnopenedKept ==
  ASSUME Grounded, Sourced, SearchUnopened \/ PlayUnopened
  PROVE  Sourced'
<1>1. /\ Ends /\ Free /\ video \in Stats \ {"STOPPED", "BUSY"}
      /\ UNCHANGED <<curFile, sound, video, job, file>>
  BY Waiting DEF SearchUnopened, PlayUnopened, Opened, Ends, Busy, Answers, driver, vldp,
                 Grounded, TypeOK
<1>2. Heard' /\ (file' # NoFile => curFile' \in {NoFile, file'})
  BY <1>1 DEF Sourced, Heard, FileKnown
<1> QED BY <1>1, <1>2, EndsKept

\* A play in the open file.
LEMMA PlayHereKept ==
  ASSUME Grounded, Sourced, PlayHere
  PROVE  Sourced'
<1>1. /\ Ends /\ Free /\ video' # "STOPPED" /\ UNCHANGED <<curFile, sound, job, file>>
      /\ curFile # NoFile /\ status # "SEARCHING"
  BY DEF PlayHere, Plays, Running, StartPlaying, Ends, Busy, Answers
<1>2. file # NoFile => curFile = file
  BY <1>1, NoneArrived
<1>3. Heard'
  BY <1>1 DEF Sourced, Heard
<1> QED BY <1>1, <1>2, <1>3, EndsKept

\* A play in the file it waited for.
LEMMA PlayOpenedKept ==
  ASSUME Grounded, Sourced, PlayOpened
  PROVE  Sourced'
<1>1. /\ Ends /\ Free /\ Top.at = "open" /\ stack # <<>> /\ video = "STOPPED"
      /\ video' # "STOPPED" /\ UNCHANGED <<job, file>>
      /\ curFile' = Top.name /\ sound' = StreamOf(Top.name)
  BY Waiting DEF PlayOpened, Opened, StartPlaying, Ends, Busy, Answers, Grounded, TypeOK
<1>2. Openers = {Top}
  BY <1>1 DEF Openers
<1>3. file = Top.name
  BY <1>1, <1>2 DEF Sourced, Opening
<1>4. Top.name # NoFile
  BY <1>1, Waiting, FrameAssumption DEF Grounded, TypeOK
<1>5. Heard'
  BY <1>1, <1>4 DEF Heard
<1> QED BY <1>1, <1>3, <1>5, EndsKept

\* A pause.
LEMMA PauseKept ==
  ASSUME Grounded, Sourced, Pause
  PROVE  Sourced'
<1>1. /\ Ends /\ Free /\ video' # "STOPPED" /\ UNCHANGED <<curFile, sound, job, file>>
      /\ status # "SEARCHING"
  BY DEF Pause, Running, Ends, Busy, Answers
<1>2. file # NoFile => curFile \in {NoFile, file}
  BY <1>1, NoneArrived
<1>3. Heard'
  BY <1>1 DEF Sourced, Heard
<1> QED BY <1>1, <1>2, <1>3, EndsKept

\* A skip finds the disc playing, so no search waits for a file below.
LEMMA SkipKept ==
  ASSUME Grounded, Sourced, Skip
  PROVE  Sourced'
<1>1. /\ Ends /\ Top.at = "run" /\ status # "SEARCHING" /\ job.kind = "none"
      /\ UNCHANGED <<curFile, sound, job, file, status, tryF, target>>
      /\ video' = "STOPPED" <=> video = "STOPPED"
  BY DEF Skip, Running, Ends, Busy, Answers, Free, Grounded, TypeOK, VldpType
<1>2. Top'.at = "run" /\ Openers' = Openers
  BY <1>1, EndsRunning
<1>3. Fresh'
  BY <1>1, <1>2 DEF Sourced, Fresh
<1> QED BY <1>1, <1>2, <1>3 DEF Sourced, Opening, OpenedFor, FileKnown, Heard, PollGoal

\* Between two calls of the script nothing waits.
LEMMA TickKept ==
  ASSUME Grounded, Sourced, Tick
  PROVE  Sourced'
<1>1. /\ stack = <<>> /\ stack' = <<>> /\ UNCHANGED <<curFile, sound, job, file>>
  BY DEF Tick, driver
<1>2. Openers = {} /\ Openers' = {}
  BY <1>1 DEF Openers
<1> QED BY <1>1, <1>2 DEF Sourced, Opening, OpenedFor, Fresh, FileKnown, Heard, PollGoal

\* The VLDP thread ends what it was asked for.
LEMMA VldpKept ==
  ASSUME Grounded, Sourced, Vldp
  PROVE  Sourced'
<1>1. UNCHANGED <<status, tryF, curFile, sound, target, stack>> /\ job'.kind = "none"
  BY DEF Vldp, VldpOpened, VldpSought, player, driver
<1>2. Openers' = Openers /\ Top' = Top
  BY <1>1 DEF Openers, Below, Top
<1>3. Heard' /\ OpenedFor'
  BY <1>1 DEF Sourced, Heard, OpenedFor
<1>4. ASSUME NEW ok \in BOOLEAN, VldpOpened(ok) PROVE Sourced'
  <2>1. /\ job.kind = "open" /\ video' = (IF ok THEN "STOPPED" ELSE "ERROR")
        /\ file' = (IF ok THEN job.name ELSE NoFile)
    BY <1>4 DEF VldpOpened
  <2>2. Opening' /\ Fresh' /\ FileKnown'
    BY <1>1, <1>2, <2>1 DEF Sourced, Opening, OpenedFor, Fresh, FileKnown
  <2>3. PollGoal'
    BY <1>1, <1>2, <2>1 DEF Sourced, PollGoal
  <2> QED BY <1>3, <2>2, <2>3 DEF Sourced
<1>5. ASSUME NEW st \in {"PAUSED", "STOPPED", "ERROR"}, VldpSought(st) PROVE Sourced'
  <2>1. /\ job.kind = "seek" /\ video' = st /\ UNCHANGED file /\ video = "BUSY"
        /\ st = "PAUSED" => pos' = job.index
        /\ st = "STOPPED" => ~Prompt
    BY <1>5 DEF VldpSought, Grounded, TypeOK, VldpType
  <2>2. st = "STOPPED" => Openers = {}
    BY <2>1 DEF Sourced, Opening
  <2>3. Opening' /\ Fresh'
    BY <1>1, <1>2, <2>1, <2>2 DEF Opening, Fresh
  <2>4. FileKnown'
    BY <1>1, <2>1 DEF Sourced, FileKnown
  <2>5. PollGoal'
    BY <1>1, <1>2, <2>1 DEF Sourced, PollGoal
  <2> QED BY <1>3, <2>3, <2>4, <2>5 DEF Sourced
<1> QED BY <1>4, <1>5 DEF Vldp

\* One step per action.
LEMMA SourcedKept ==
  ASSUME Orderly, Grounded, Sourced, [Next]_vars
  PROVE  Sourced'
<1>1. ASSUME NEW f \in Goals, SearchOpens(f) PROVE Sourced'
  <2>1. FileOf(f) \in Files
    BY <1>1, EntryFound DEF SearchOpens
  <2> QED BY <1>1, <2>1, OpensKept DEF SearchOpens, Seeks, Searching, Running, Finds
<1>2. CASE PlayOpens
  <2>1. FirstFile \in Files
    BY FileAssumption
  <2> QED BY <1>2, <2>1, OpensKept DEF PlayOpens, Plays, Running, Finds, driver
<1>3. ASSUME Quiet PROVE Sourced'
  BY <1>3, QuietKept
<1> QED BY <1>1, <1>2, <1>3, QuietSteps, SearchHereKept, SearchOpenedKept, UnopenedKept,
           PlayHereKept, PlayOpenedKept, PauseKept, SkipKept, TickKept, VldpKept
        DEF Next, Operation, Search, Play, Calling

\* The driver and the VLDP agree on the file at every step.
LEMMA AlwaysSourced ==
  ASSUME Orderly
  PROVE  Spec => [](Grounded /\ Sourced)
<1>1. Init => Sourced
  BY DEF Init, Sourced, Opening, OpenedFor, Fresh, FileKnown, Heard, PollGoal, Openers
<1>2. Grounded /\ Sourced /\ [Next]_vars => Sourced'
  BY SourcedKept
<1> QED BY <1>1, <1>2, Groundwork, PTL DEF Spec

\* Picture and sound come from the file that m_cur_mpeg_filename names
\* (ldp-vldp.h:130), if no handler touches the disc, or if searches end in time and no
\* handler stops the disc.
THEOREM SourceRight ==
  ASSUME Handlers = {} \/ (Prompt /\ "discStop" \notin Handlers)
  PROVE  Spec => []RightSource
<1>1. Orderly
  BY DEF Orderly
<1>2. Grounded /\ Sourced => RightSource
  <2> SUFFICES ASSUME Grounded, Sourced PROVE RightFile /\ RightSound
    BY DEF RightSource
  <2>1. RightFile
    BY DEF Sourced, FileKnown, Openers, RightFile
  <2>2. RightSound
    <3> SUFFICES ASSUME sound # NoFile, video = "PLAYING" PROVE sound = file
      BY DEF RightSound
    <3>1. file # NoFile
      BY DEF Grounded, FileThere
    <3>2. curFile # NoFile /\ sound = StreamOf(curFile)
      BY DEF Sourced, Heard
    <3> QED BY <3>1, <3>2 DEF Sourced, FileKnown, StreamOf
  <2> QED BY <2>1, <2>2
<1> QED BY <1>1, <1>2, AlwaysSourced, PTL

-----------------------------------------------------------------------------
(* Where a search that says it landed has landed                           *)

\* The picture a search is sent to is that of its frame.
LEMMA Shown ==
  ASSUME NEW f \in Goals, FileOf(f) # NoFile, file = FileOf(f), pos = Index(f)
  PROVE  Shows(f)
<1>1. /\ Entry(f) \in DOMAIN Framefile
      /\ file = Framefile[Entry(f)].name
      /\ Entry(f) < Len(Framefile) => f < Framefile[Entry(f) + 1].frame
  BY EntryFound
<1> QED BY <1>1 DEF Shows, Index, Start

\* Only a poll says that a search landed, and nothing moves the picture until the next
\* operation.
LEMMA LandsKept ==
  ASSUME Grounded, Sourced, SearchLands, [Next]_vars
  PROVE  SearchLands'
<1>1. ASSUME answer' # "landed" PROVE SearchLands'
  BY <1>1 DEF SearchLands
<1>2. CASE PollEnds
  <2> SUFFICES ASSUME answer' = "landed" PROVE SearchLands'
    BY <1>1
  <2>1. /\ stack # <<>> /\ Top.at = "poll" /\ SearchResult /\ status' = "PAUSED"
        /\ UNCHANGED vldp
    BY <1>2 DEF PollEnds, Polling, Done
  <2>2. status = "SEARCHING" /\ FileOf(tryF) # NoFile /\ file \in {NoFile, FileOf(tryF)}
        /\ (video = "PAUSED" => pos = Index(tryF))
    BY <2>1 DEF Sourced, PollGoal
  <2>3. video = "PAUSED" /\ cur' = tryF /\ tryF' = tryF
    BY <2>1, <2>2 DEF SearchResult, player
  <2>4. tryF \in Goals /\ file # NoFile
    BY <2>3 DEF Grounded, TypeOK, PlayerType, FileThere
  <2>5. Shows(tryF)
    BY <2>2, <2>3, <2>4, Shown
  <2> QED BY <2>1, <2>3, <2>5 DEF SearchLands, Shows, vldp
<1>3. CASE Search
  BY <1>1, <1>2, <1>3 DEF Search, SearchRefused, SearchSame, SearchNowhere, SearchHere,
     SearchOpens, SearchOpened, SearchUnopened, PollTimeout, Send, Opens, Waits, Done
<1>4. CASE Play
  BY <1>1, <1>4 DEF Play, PlayRefused, PlayIgnored, PlayHere, PlayOpens, PlayOpened,
     PlayUnopened, StartPlaying, Opens, Waits, Done
<1>5. CASE Pause \/ PauseIgnored \/ Stop \/ Skip \/ SkipBack \/ SkipIgnored \/ ChangeSpeed
           \/ Get
  BY <1>1, <1>5 DEF Pause, PauseIgnored, Stop, Skip, SkipBack, SkipIgnored, ChangeSpeed, Get,
                    Done
<1>6. CASE Calling
  BY <1>1, <1>6 DEF Calling, Call
<1>7. CASE Return \/ UNCHANGED vars
  BY <1>7 DEF Return, vars, player, vldp, SearchLands, Shows
<1>8. CASE Tick
  BY <1>8 DEF Tick, SearchLands, Shows
<1>9. CASE Vldp
  <2>1. video = "BUSY" /\ UNCHANGED answer
    BY <1>9 DEF Vldp, VldpOpened, VldpSought, Grounded, TypeOK, VldpType
  <2> QED BY <2>1 DEF SearchLands
<1> QED BY <1>3, <1>4, <1>5, <1>6, <1>7, <1>8, <1>9 DEF Next, Operation, Calling

\* A blocking search that returns true (ldp.h:83) has its picture on the screen and its
\* frame in the counter, under the conditions of SourceRight.
THEOREM Landed ==
  ASSUME Handlers = {} \/ (Prompt /\ "discStop" \notin Handlers)
  PROVE  Spec => []SearchLands
<1>1. Orderly
  BY DEF Orderly
<1>2. Init => SearchLands
  BY DEF Init, SearchLands
<1>3. Grounded /\ Sourced /\ SearchLands /\ [Next]_vars => SearchLands'
  BY LandsKept
<1> QED BY <1>1, <1>2, <1>3, AlwaysSourced, PTL DEF Spec
=============================================================================
