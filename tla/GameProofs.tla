----------------------------- MODULE GameProofs -----------------------------
(***************************************************************************)
(* What goes in and out of the script: the coin queue and g_pause_state,   *)
(* for any number of inputs and calls in progress; and the switches that   *)
(* keys, joysticks and mice press, for any map of the keys.                *)
(***************************************************************************)
EXTENDS Game, Input, SequenceTheorems, NaturalsInduction, WellFoundedInduction, TLAPS

\* The end of pre_play, in whichever function, leaves the flag right.
LEMMA PlayOverKeeps ==
  ASSUME NEW fn \in DiscFunctions, NEW s, PlayOver(fn, s),
         fn \in {"play", "playAndPause", "key"}
  PROVE  FlagMeansStill'
  BY Zenon DEF PlayOver, FlagMeansStill

\* So does the end of pre_search, from a status that agrees with the flag.
LEMMA SearchOverKeeps ==
  ASSUME NEW fn \in Searches, NEW s, NEW r, SearchOver(fn, s, r),
         flag /\ s = "PLAYING" => resumed
  PROVE  FlagMeansStill'
<1>1. CASE fn = "search"
  BY <1>1 DEF SearchOver, FlagMeansStill
<1>2. ASSUME NEW f \in {"play", "playAndPause"}, Plays(f, s, r)
      PROVE  FlagMeansStill'
  <2>1. CASE named' \/ Played(s) = s
    BY <1>2, <2>1, PlayOverKeeps DEF Plays, DiscFunctions
  <2>2. CASE ~(named' \/ Played(s) = s)
    BY <1>2, <2>2 DEF Plays, FlagMeansStill
  <2> QED BY <2>1, <2>2
<1>3. CASE fn = "skipToFrame"
  BY <1>2, <1>3 DEF SearchOver
<1>4. CASE fn = "skipAndPause"
  BY <1>2, <1>4 DEF SearchOver
<1> QED BY <1>1, <1>3, <1>4 DEF Searches

\* A script that asks whether it has paused the disc is not told so of a disc
\* that it plays itself, however deep its handlers nest (singeproxy.cpp:1451).
THEOREM FlagTracksDisc == Spec => []FlagMeansStill
<1>1. Init => FlagMeansStill
  BY DEF Init, FlagMeansStill
<1>2. FlagMeansStill /\ [Next]_vars => FlagMeansStill'
  <2> SUFFICES ASSUME FlagMeansStill, [Next]_vars PROVE FlagMeansStill'
    OBVIOUS
  <2>1. CASE UNCHANGED player
    BY <2>1 DEF player, FlagMeansStill
  <2>2. CASE PollPause
    <3>1. CASE UNCHANGED player
      BY <3>1, <2>1
    <3>2. CASE /\ disc' = Played(disc)
               /\ resumed' = (resumed \/ Played(disc) # disc)
               /\ UNCHANGED flag
      BY <3>2 DEF FlagMeansStill
    <3>3. CASE disc' = "PAUSED"
      BY <3>3 DEF FlagMeansStill
    <3> QED BY <2>2, <3>1, <3>2, <3>3 DEF PollPause
  <2>3. CASE ScriptPauses \/ ScriptStops \/ ScriptAsks
    BY <2>3 DEF ScriptPauses, ScriptStops, ScriptAsks, FlagMeansStill
  <2>4. ASSUME NEW b \in BOOLEAN, ScriptSetsFlag(b) PROVE FlagMeansStill'
    BY <2>4 DEF ScriptSetsFlag, FlagMeansStill
  <2>5. CASE ScriptPlays
    <3>1. CASE named' \/ Played(disc) = disc
      BY <2>5, <3>1, PlayOverKeeps DEF ScriptPlays, Plays, DiscFunctions
    <3>2. CASE ~(named' \/ Played(disc) = disc)
      BY <2>5, <3>2 DEF ScriptPlays, Plays, FlagMeansStill
    <3> QED BY <3>1, <3>2
  <2>6. ASSUME NEW fn \in Searches, ScriptSearches(fn) PROVE FlagMeansStill'
    <3>1. PICK s \in Outcomes : SearchOver(fn, s, stack)
      BY <2>6 DEF ScriptSearches
    <3>2. s = "PLAYING" => s = disc
      BY DEF Outcomes
    <3> QED BY <3>1, <3>2, SearchOverKeeps DEF FlagMeansStill
  <2>7. ASSUME NEW fn \in Searches, ScriptOpens(fn) PROVE FlagMeansStill'
    BY <2>7 DEF ScriptOpens, FlagMeansStill
  <2>8. ASSUME NEW ok \in BOOLEAN, WaitEnds(ok) PROVE FlagMeansStill'
    <3> DEFINE fn == Head(stack).fn
    <3>1. CASE fn \in Searches
      <4>1. PICK s : /\ SearchOver(fn, s, Tail(stack))
                     /\ s = "PLAYING" => s = disc
        BY <2>8, <3>1 DEF WaitEnds, Searches
      <4> QED BY <3>1, <4>1, SearchOverKeeps DEF FlagMeansStill
    <3>2. CASE fn \notin Searches
      <4>1. fn \in DiscFunctions \ Searches /\ PlayOver(fn, "PLAYING")
        BY <2>8, <3>2, Zenon DEF WaitEnds
      <4>2. fn \in {"play", "playAndPause", "key"}
        BY <4>1, Zenon DEF DiscFunctions
      <4> QED BY <4>1, <4>2, PlayOverKeeps
    <3> QED BY <3>1, <3>2
  <2> QED BY <2>1, <2>2, <2>3, <2>4, <2>5, <2>6, <2>7, <2>8
          DEF Next, MainLoop, CheckInput, ScriptActs, WaitEnd, Act, Started,
              Update, Input, Sounds, Shutdown, PollCoin, PollSwitch, PollQuit,
              PollOver, CoinHandled, ScriptReturns, ScriptQuits, ScriptFails,
              ScriptIsGone, WaitChecks, vars
<1> QED BY <1>1, <1>2, PTL DEF Spec

-----------------------------------------------------------------------------
(* The coin queue                                                          *)

\* A coin is being handled in the calls s; no more than one is.
Has(s) == \E i \in DOMAIN s : s[i].at = "coin"
Once(s) == \A i, j \in DOMAIN s : s[i].at = "coin" /\ s[j].at = "coin" => i = j

\* A call that is not of a handed-on coin changes neither.
LEMMA PushOther ==
  ASSUME NEW s \in Seq(Frames), NEW f \in Frames, f.at # "coin"
  PROVE  /\ <<f>> \o s \in Seq(Frames)
         /\ Has(<<f>> \o s) <=> Has(s)
         /\ Once(s) => Once(<<f>> \o s)
<1> DEFINE t == <<f>> \o s
<1>1. t \in Seq(Frames) /\ Len(t) = Len(s) + 1 /\ t[1] = f
      /\ \A i \in 1 .. Len(s) : t[i + 1] = s[i]
  OBVIOUS
<1>2. DOMAIN t = 1 .. Len(t) /\ DOMAIN s = 1 .. Len(s) /\ Len(s) \in Nat
  BY <1>1
<1>3. \A i \in DOMAIN t : t[i].at = "coin" => i - 1 \in DOMAIN s /\ s[i - 1].at = "coin"
  <2> SUFFICES ASSUME NEW i \in DOMAIN t, t[i].at = "coin"
               PROVE  i - 1 \in DOMAIN s /\ s[i - 1].at = "coin"
    OBVIOUS
  <2> HIDE DEF t
  <2>1. i # 1
    BY <1>1
  <2>2. i - 1 \in 1 .. Len(s) /\ (i - 1) + 1 = i
    BY <2>1, <1>1, <1>2
  <2> QED BY <2>2, <1>1, <1>2
<1>4. \A i \in DOMAIN s : i + 1 \in DOMAIN t /\ t[i + 1] = s[i]
  <2> HIDE DEF t
  <2> QED BY <1>1, <1>2
<1> HIDE DEF t
<1>5. Has(t) <=> Has(s)
  BY <1>3, <1>4 DEF Has
<1>6. Once(s) => Once(t)
  <2> SUFFICES ASSUME Once(s), NEW i \in DOMAIN t, NEW j \in DOMAIN t,
                      t[i].at = "coin", t[j].at = "coin"
               PROVE  i = j
    BY DEF Once
  <2>1. i - 1 = j - 1
    BY <1>3 DEF Once
  <2> QED BY <2>1, <1>2
<1> QED BY <1>1, <1>5, <1>6 DEF t

\* Handing on a coin.
LEMMA PushCoin ==
  ASSUME NEW s \in Seq(Frames), ~Has(s)
  PROVE  <<Coin>> \o s \in Seq(Frames) /\ Has(<<Coin>> \o s) /\ Once(<<Coin>> \o s)
<1> DEFINE t == <<Coin>> \o s
<1>1. t \in Seq(Frames) /\ Len(t) = Len(s) + 1 /\ t[1] = Coin
      /\ \A i \in 1 .. Len(s) : t[i + 1] = s[i]
  BY DEF Coin, Frames
<1>2. DOMAIN t = 1 .. Len(t) /\ DOMAIN s = 1 .. Len(s) /\ Len(s) \in Nat
  BY <1>1
<1> HIDE DEF t
<1>3. \A i \in DOMAIN t : t[i].at = "coin" => i = 1
  <2> SUFFICES ASSUME NEW i \in DOMAIN t, t[i].at = "coin", i # 1 PROVE FALSE
    OBVIOUS
  <2>1. i - 1 \in 1 .. Len(s) /\ (i - 1) + 1 = i
    BY <1>1, <1>2
  <2> QED BY <2>1, <1>1, <1>2 DEF Has
<1>4. 1 \in DOMAIN t /\ t[1].at = "coin"
  BY <1>1, <1>2 DEF Coin
<1>5. Has(t) /\ Once(t)
  BY <1>3, <1>4 DEF Has, Once
<1> QED BY <1>1, <1>5 DEF t

\* A call returns.
LEMMA Pop ==
  ASSUME NEW s \in Seq(Frames), s # <<>>
  PROVE  /\ Tail(s) \in Seq(Frames)
         /\ Once(s) => Once(Tail(s))
         /\ Head(s).at # "coin" => (Has(Tail(s)) <=> Has(s))
         /\ Head(s).at = "coin" /\ Once(s) => ~Has(Tail(s))
<1> DEFINE t == Tail(s)
<1>1. t \in Seq(Frames) /\ Len(t) = Len(s) - 1 /\ Head(s) = s[1]
      /\ \A i \in 1 .. Len(t) : t[i] = s[i + 1]
  OBVIOUS
<1>2. DOMAIN t = 1 .. Len(t) /\ DOMAIN s = 1 .. Len(s) /\ Len(s) \in Nat \ {0}
  BY <1>1
<1> HIDE DEF t
<1>3. \A i \in DOMAIN t : i + 1 \in DOMAIN s /\ t[i] = s[i + 1] /\ i + 1 # 1
  BY <1>1, <1>2
<1>4. \A i \in DOMAIN s : i # 1 => i - 1 \in DOMAIN t /\ t[i - 1] = s[i]
  <2> SUFFICES ASSUME NEW i \in DOMAIN s, i # 1 PROVE i - 1 \in DOMAIN t /\ t[i - 1] = s[i]
    OBVIOUS
  <2>1. i - 1 \in 1 .. Len(t) /\ (i - 1) + 1 = i
    BY <1>1, <1>2
  <2> QED BY <2>1, <1>1, <1>2
<1>5. 1 \in DOMAIN s /\ Head(s) = s[1]
  BY <1>1, <1>2
<1>6. Once(s) => Once(t)
  <2> SUFFICES ASSUME Once(s), NEW i \in DOMAIN t, NEW j \in DOMAIN t,
                      t[i].at = "coin", t[j].at = "coin"
               PROVE  i = j
    BY DEF Once
  <2>1. i + 1 = j + 1
    BY <1>3 DEF Once
  <2> QED BY <2>1, <1>2
<1>7. Head(s).at # "coin" => (Has(t) <=> Has(s))
  BY <1>3, <1>4, <1>5 DEF Has
<1>8. Head(s).at = "coin" /\ Once(s) => ~Has(t)
  BY <1>3, <1>5 DEF Has, Once
<1> QED BY <1>1, <1>6, <1>7, <1>8 DEF t

-----------------------------------------------------------------------------

\* Each coin in its place: first those given to the script, then those kept.
Ordered == /\ Len(given) + Len(Kept) = taken
           /\ \A i \in 1 .. Len(given) : given[i] = i
           /\ \A i \in 1 .. Len(Kept) : Kept[i] = Len(given) + i

\* The inductive invariant: as long as no coin is handled within another, one
\* at most is, it is still in front of the queue, and all are in order.
QueueInv ==
  /\ stack \in Seq(Frames) /\ coins \in Seq(Nat) /\ given \in Seq(Nat)
  /\ taken \in Nat
  /\ ~again => /\ Once(stack)
               /\ Has(stack) => coins # <<>>
               /\ Ordered

\* s holds the same coin as the calls in progress.
Like(s) == /\ s \in Seq(Frames)
           /\ Has(s) <=> Has(stack)
           /\ Once(stack) => Once(s)

\* Kept, by Has.
LEMMA KeptIs == Kept = IF Has(stack) THEN Tail(coins) ELSE coins
  BY DEF Kept, Has

\* Calls that keep the coin handled: one is made,
LEMMA LikePush ==
  ASSUME NEW s, Like(s), NEW f \in Frames, f.at # "coin"
  PROVE  Like(<<f>> \o s)
  BY PushOther DEF Like

\* one comes back,
LEMMA LikePop ==
  ASSUME stack \in Seq(Frames), NEW kind, In(kind), kind # "coin"
  PROVE  Like(Tail(stack))
  BY Pop DEF Like, In

\* and the queue goes on being in order.
LEMMA LikeKeeps ==
  ASSUME QueueInv, Like(stack'), UNCHANGED queue
  PROVE  QueueInv'
<1>1. Kept' = Kept
  BY KeptIs DEF Like, queue, Kept, Has
<1>2. Ordered => Ordered'
  BY <1>1 DEF Ordered, queue
<1>3. Once(stack)' = Once(stack') /\ Has(stack)' = Has(stack')
  BY DEF Once, Has
<1> QED BY <1>2, <1>3 DEF QueueInv, Like, queue

\* What the frames are.
LEMMA FramesAre ==
  /\ Script \in Frames /\ Script.at # "coin"
  /\ Check \in Frames /\ Check.at # "coin"
  /\ \A fn \in DiscFunctions : Wait(fn) \in Frames /\ Wait(fn).at # "coin"
  BY DEF Script, Check, Wait, Frames, Waiting

\* The functions of the script that call or return.
LEMMA CallsLike ==
  ASSUME NEW s, Like(s), CallsScript(s)
  PROVE  Like(stack')
  BY LikePush, FramesAre DEF CallsScript

\* pre_play in whichever function.
LEMMA PlaysLike ==
  ASSUME NEW fn \in DiscFunctions, NEW s, NEW r, Like(r), Plays(fn, s, r)
  PROVE  Like(stack')
  BY LikePush, FramesAre DEF Plays

\* pre_search in whichever function.
LEMMA SearchOverLike ==
  ASSUME NEW fn \in Searches, NEW s, NEW r, Like(r), SearchOver(fn, s, r)
  PROVE  Like(stack')
  BY PlaysLike DEF SearchOver, Searches, DiscFunctions

\* PollCoin: a coin that comes while another one is handled.
LEMMA PollCoinKeeps == QueueInv /\ PollCoin => QueueInv'
<1> SUFFICES ASSUME QueueInv, PollCoin PROVE QueueInv'
  OBVIOUS
<1> USE DEF QueueInv
<1>1. UNCHANGED <<stack, given, again>> /\ taken' = taken + 1
      /\ coins' = Append(coins, taken + 1)
  BY DEF PollCoin
<1>2. coins' \in Seq(Nat) /\ taken' \in Nat /\ coins' # <<>>
  BY <1>1
<1>3. ASSUME ~again PROVE Ordered'
  <2>1. Kept' = Append(Kept, taken + 1) /\ Kept \in Seq(Nat)
    <3>1. CASE Has(stack)
      <4>1. coins # <<>>
        BY <1>3, <3>1
      <4>2. /\ Tail(Append(coins, taken + 1)) = Append(Tail(coins), taken + 1)
            /\ Tail(coins) \in Seq(Nat)
        BY <4>1
      <4>3. Kept' = Tail(coins') /\ Kept = Tail(coins)
        BY <3>1, <1>1 DEF Kept, Has
      <4> QED BY <4>2, <4>3, <1>1
    <3>2. CASE ~Has(stack)
      BY <3>2, <1>1, KeptIs DEF Kept, Has
    <3> QED BY <3>1, <3>2
  <2>2. Len(Kept') = Len(Kept) + 1 /\ Kept'[Len(Kept) + 1] = taken + 1
        /\ \A i \in 1 .. Len(Kept) : Kept'[i] = Kept[i]
    BY <2>1, <1>1
  <2>3. Len(Kept) \in Nat /\ Len(given) \in Nat
    BY <2>1
  <2> HIDE DEF QueueInv
  <2>4. Ordered /\ taken \in Nat
    BY <1>3 DEF QueueInv
  <2> QED BY <1>1, <2>2, <2>3, <2>4 DEF Ordered
<1>4. Once(stack)' = Once(stack)
  BY <1>1 DEF Once
<1> QED BY <1>1, <1>2, <1>3, <1>4

\* CoinHandled: the coin that is popped is the one the script was given.
LEMMA HandledKeeps == QueueInv /\ CoinHandled => QueueInv'
<1> SUFFICES ASSUME QueueInv, CoinHandled PROVE QueueInv'
  OBVIOUS
<1>1. stack # <<>> /\ Head(stack).at = "coin" /\ stack' = Tail(stack)
      /\ UNCHANGED <<taken, given, again>>
  BY DEF CoinHandled, In, Returns
<1>2. stack \in Seq(Frames) /\ coins \in Seq(Nat) /\ given \in Seq(Nat) /\ taken \in Nat
  BY DEF QueueInv
<1>3. stack' \in Seq(Frames) /\ coins' \in Seq(Nat)
  <2>1. coins' = IF coins = <<>> THEN coins ELSE Tail(coins)
    BY DEF CoinHandled
  <2>2. coins' \in Seq(Nat)
    BY <2>1, <1>2
  <2> QED BY <2>2, <1>1, <1>2, Pop
<1>4. ASSUME ~again PROVE Once(stack') /\ ~Has(stack') /\ Ordered'
  <2>1. Has(stack)
    BY <1>1, <1>2, Pop DEF Has, Frames
  <2>2. Once(stack) /\ coins # <<>> /\ Ordered
    BY <1>4, <2>1 DEF QueueInv
  <2>3. Once(stack') /\ ~Has(stack')
    BY <1>1, <1>2, <2>2, Pop
  <2>4. coins' = Tail(coins)
    BY <2>2 DEF CoinHandled
  <2>5. Kept' = Kept
    BY <2>1, <2>3, <2>4, KeptIs DEF Kept, Has
  <2> QED BY <2>2, <2>3, <2>5, <1>1 DEF Ordered
<1>5. Once(stack)' = Once(stack') /\ Has(stack)' = Has(stack')
  BY DEF Once, Has
<1> QED BY <1>1, <1>2, <1>3, <1>4, <1>5 DEF QueueInv

\* PollOver: the script is given the front coin, or again is set.
LEMMA PollOverKeeps == QueueInv /\ PollOver => QueueInv'
<1> SUFFICES ASSUME QueueInv, PollOver PROVE QueueInv'
  OBVIOUS
<1>1. stack \in Seq(Frames) /\ coins \in Seq(Nat) /\ given \in Seq(Nat) /\ taken \in Nat
  BY DEF QueueInv
<1>2. Like(Tail(stack))
  BY <1>1, LikePop DEF PollOver
<1>3. CASE coins = <<>>
  BY <1>2, <1>3, LikeKeeps DEF PollOver, Returns, queue
<1>4. CASE coins # <<>>
  <2>1. /\ CallsScript(<<Coin>> \o Tail(stack))
        /\ given' = Append(given, Head(coins))
        /\ again' = (again \/ Has(stack))
        /\ UNCHANGED <<coins, taken>>
    BY <1>4 DEF PollOver, Has
  <2> DEFINE s == <<Coin>> \o Tail(stack)
  <2>2. s \in Seq(Frames)
    BY <1>2 DEF Like, Coin, Frames
  <2>3. stack' \in Seq(Frames) /\ (Has(stack') <=> Has(s)) /\ (Once(s) => Once(stack'))
    BY <2>1, <2>2, PushOther, FramesAre DEF CallsScript
  <2>4. given' \in Seq(Nat)
    BY <1>1, <1>4, <2>1
  <2>5. ASSUME ~again' PROVE Once(stack') /\ Ordered'
    <3>1. ~again /\ ~Has(stack) /\ Ordered
      BY <2>1, <2>5 DEF QueueInv
    <3>2. ~Has(Tail(stack)) /\ Tail(stack) \in Seq(Frames)
      BY <3>1, <1>2 DEF Like
    <3>3. Has(s) /\ Once(s)
      BY <3>2, PushCoin
    <3>4. Kept = coins /\ Kept' = Tail(coins)
      BY <3>1, <3>3, <2>3, <2>1, KeptIs DEF Kept, Has
    <3>5. /\ Len(coins) \in Nat \ {0} /\ Len(given) \in Nat
          /\ Len(Tail(coins)) = Len(coins) - 1
          /\ \A i \in 1 .. Len(Tail(coins)) : Tail(coins)[i] = coins[i + 1]
          /\ Head(coins) = coins[1]
      BY <1>1, <1>4
    <3>6. /\ Len(given') = Len(given) + 1 /\ given'[Len(given) + 1] = Head(coins)
          /\ \A i \in 1 .. Len(given) : given'[i] = given[i]
      BY <1>1, <1>4, <2>1
    <3>7. Ordered'
      <4>1. /\ Len(given) + Len(coins) = taken
            /\ \A i \in 1 .. Len(given) : given[i] = i
            /\ \A i \in 1 .. Len(coins) : coins[i] = Len(given) + i
        BY <3>1, <3>4 DEF Ordered
      <4>2. /\ Len(given') + Len(Kept') = taken'
            /\ \A i \in 1 .. Len(given') : given'[i] = i
        BY <4>1, <3>4, <3>5, <3>6, <2>1
      <4>3. \A i \in 1 .. Len(Kept') : Kept'[i] = Len(given') + i
        BY <4>1, <3>4, <3>5, <3>6
      <4> QED BY <4>2, <4>3 DEF Ordered
    <3> QED BY <2>3, <3>3, <3>7
  <2>6. Once(stack)' = Once(stack') /\ Has(stack)' = Has(stack')
    BY DEF Once, Has
  <2> QED BY <1>1, <1>4, <2>1, <2>3, <2>4, <2>5, <2>6 DEF QueueInv
<1> QED BY <1>3, <1>4

\* The invariant says what CoinsInOrder says, by position.
LEMMA QueueIsOrdered == QueueInv => CoinsInOrder
<1> SUFFICES ASSUME QueueInv, ~again PROVE given \o Kept = [i \in 1 .. taken |-> i]
  BY DEF CoinsInOrder, CoinsBuffered
<1>1. Ordered /\ given \in Seq(Nat) /\ Kept \in Seq(Nat) /\ taken \in Nat
  <2>1. CASE Has(stack)
    <3>1. coins # <<>> /\ coins \in Seq(Nat)
      BY <2>1 DEF QueueInv
    <3>2. Tail(coins) \in Seq(Nat)
      BY <3>1
    <3> QED BY <2>1, <3>2, KeptIs DEF QueueInv
  <2>2. CASE ~Has(stack)
    BY <2>2, KeptIs DEF QueueInv
  <2> QED BY <2>1, <2>2
<1> DEFINE all == given \o Kept
<1>2. Len(given) \in Nat /\ Len(Kept) \in Nat /\ Len(given) + Len(Kept) = taken
  BY <1>1 DEF Ordered
<1>3. /\ all \in Seq(Nat) /\ Len(all) = taken
      /\ \A i \in 1 .. taken :
           all[i] = IF i <= Len(given) THEN given[i] ELSE Kept[i - Len(given)]
  BY <1>1, <1>2, ConcatProperties
<1> HIDE DEF all
<1>4. ASSUME NEW i \in 1 .. taken PROVE all[i] = i
  <2>1. CASE i <= Len(given)
    <3>1. i \in 1 .. Len(given)
      BY <2>1, <1>2
    <3>2. given[i] = i
      BY <3>1, <1>1 DEF Ordered
    <3> QED BY <3>2, <2>1, <1>3
  <2>2. CASE ~(i <= Len(given))
    <3>1. i - Len(given) \in 1 .. Len(Kept)
      BY <2>2, <1>2
    <3>2. Kept[i - Len(given)] = Len(given) + (i - Len(given))
      BY <3>1, <1>1 DEF Ordered
    <3> QED BY <3>2, <2>2, <1>2, <1>3
  <2> QED BY <2>1, <2>2
<1>5. all = [i \in 1 .. taken |-> i]
  BY <1>1, <1>3, <1>4
<1> QED BY <1>5 DEF all

\* The script is given each coin once and in order, however its other calls
\* nest (input.cpp:608).
THEOREM CoinsComeInOrder == Spec => []CoinsInOrder
<1>1. Init => QueueInv
  <2> SUFFICES ASSUME Init PROVE QueueInv
    OBVIOUS
  <2>1. Once(stack) /\ ~Has(stack)
    BY DEF Init, Once, Has, Script
  <2>2. coins = <<>> /\ given = <<>> /\ taken = 0 /\ stack \in Seq(Frames)
    BY FramesAre DEF Init
  <2>3. Kept = <<>>
    BY <2>1, <2>2, KeptIs
  <2> QED BY <2>1, <2>2, <2>3 DEF QueueInv, Ordered
<1>2. QueueInv /\ [Next]_vars => QueueInv'
  <2> SUFFICES ASSUME QueueInv, [Next]_vars PROVE QueueInv'
    OBVIOUS
  <2>0. stack \in Seq(Frames) /\ Like(stack)
    BY DEF QueueInv, Like
  <2>1. ASSUME UNCHANGED queue, UNCHANGED stack PROVE QueueInv'
    BY <2>0, <2>1, LikeKeeps
  <2>2. CASE Update \/ Sounds \/ PollSwitch
    <3>1. CallsScript(stack) \/ UNCHANGED stack
      BY <2>2 DEF Update, Sounds, PollSwitch
    <3>2. UNCHANGED queue
      BY <2>2 DEF Update, Sounds, PollSwitch
    <3> QED BY <3>1, <3>2, <2>0, <2>1, CallsLike, LikeKeeps
  <2>3. CASE Input
    <3>1. stack' = <<Check>> \o stack /\ UNCHANGED queue
      BY <2>3 DEF Input
    <3> QED BY <3>1, <2>0, LikePush, LikeKeeps, FramesAre
  <2>4. CASE PollPause
    <3>1. UNCHANGED queue /\ (stack' = <<Wait("key")>> \o stack \/ UNCHANGED stack)
      BY <2>4 DEF PollPause
    <3> QED BY <3>1, <2>0, <2>1, LikePush, LikeKeeps, FramesAre DEF DiscFunctions
  <2>5. CASE ScriptReturns \/ ScriptFails
    <3>1. Like(Tail(stack))
      BY <2>5, <2>0, LikePop DEF ScriptReturns, ScriptFails, Runs
    <3> QED BY <2>5, <3>1, LikeKeeps DEF ScriptReturns, ScriptFails, Returns
  <2>6. CASE ScriptPlays
    BY <2>6, <2>0, PlaysLike, LikeKeeps DEF ScriptPlays, DiscFunctions
  <2>7. ASSUME NEW fn \in Searches, ScriptSearches(fn) PROVE QueueInv'
    BY <2>7, <2>0, SearchOverLike, LikeKeeps DEF ScriptSearches
  <2>8. ASSUME NEW fn \in Searches, ScriptOpens(fn) PROVE QueueInv'
    BY <2>8, <2>0, LikePush, LikeKeeps, FramesAre DEF ScriptOpens, DiscFunctions
  <2>9. CASE WaitChecks
    BY <2>9, <2>0, LikePush, LikeKeeps, FramesAre DEF WaitChecks
  <2>10. ASSUME NEW ok \in BOOLEAN, WaitEnds(ok) PROVE QueueInv'
    <3>1. Like(Tail(stack))
      BY <2>10, <2>0, LikePop DEF WaitEnds
    <3>2. UNCHANGED queue
      BY <2>10 DEF WaitEnds
    <3>3. stack' = Tail(stack) \/ \E s : Head(stack).fn \in Searches
                                         /\ SearchOver(Head(stack).fn, s, Tail(stack))
      BY <2>10 DEF WaitEnds, Returns
    <3> QED BY <3>1, <3>2, <3>3, SearchOverLike, LikeKeeps
  <2>11. CASE \/ \E kind \in {"coin", "switch", "pause", "quit"} : Act(kind)
              \/ Started \/ Shutdown \/ PollQuit
              \/ ScriptQuits \/ ScriptIsGone \/ ScriptPauses \/ ScriptStops
              \/ ScriptAsks \/ (\E b \in BOOLEAN : ScriptSetsFlag(b))
              \/ UNCHANGED vars
    BY <2>11, <2>1 DEF Act, Started, Shutdown, PollQuit, ScriptQuits,
       ScriptIsGone, ScriptPauses, ScriptStops, ScriptAsks, ScriptSetsFlag, vars
  <2> QED BY <2>2, <2>3, <2>4, <2>5, <2>6, <2>7, <2>8, <2>9, <2>10, <2>11,
             PollCoinKeeps, HandledKeeps, PollOverKeeps
          DEF Next, MainLoop, CheckInput, ScriptActs, WaitEnd
<1> QED BY <1>1, <1>2, QueueIsOrdered, PTL DEF Spec

-----------------------------------------------------------------------------
(* Keys, joysticks and mice: the inductive invariant.                      *)

\* The codes that calls of a device carry as the modes are now.
Means(d) == CASE d \in Keys -> IF keyMode = "full" THEN ToSet(KeyCode(d)) ELSE ToSet(Bound(d))
              [] d = "hat" -> UNION Hats
              [] d = "stick" -> {UP, DOWN}
              [] d = "button" -> {ButtonSwitch}
              [] d = "mouse" -> IF mouseOn /\ (mouseMode = "many" => attached)
                                  THEN {MouseSwitch(mouseMode)} ELSE {}

\* A movement of the device has yet to be read from the queue its mode reads.
Pending(d) == IF d = "mouse" /\ mouseMode = "many" THEN mice # <<>>
              ELSE \E n \in DOMAIN sdlQueue : sdlQueue[n].of = d

\* The n-th call in progress handles an event of the device; it is torn, or it is whole.
Handles(n, d) == n \in DOMAIN frames /\ frames[n].kind = "event" /\ frames[n].of = d
Torn(d) == \E n \in DOMAIN frames : Handles(n, d) /\ frames[n].torn
Whole(n, d) == Handles(n, d) /\ ~frames[n].torn

\* A device's last movement in the queue is where it is, and ManyMouse's queue is only
\* filled in its mode.
Newest ==
  /\ \A n \in DOMAIN sdlQueue :
       \/ sdlQueue[n].to = at[sdlQueue[n].of]
       \/ \E m \in DOMAIN sdlQueue : m > n /\ sdlQueue[m].of = sdlQueue[n].of
  /\ mice # <<>> => attached /\ mice[Len(mice)] = at["mouse"]
  /\ attached => mouseMode = "many"

\* A call as it should be made of position to.
Right(d, to, s) == /\ s.press \/ d # "hat" => s.code \in Means(d)
                   /\ s.press <=> IF d = "hat" THEN s.code \in to ELSE to # {}

\* What is being handled of a device: never two events that are both whole, and a whole
\* one is of the device's position, or a newer one is pending.
Fits(n, d) ==
  /\ \A i \in DOMAIN frames[n].todo :
       frames[n].todo[i].press => frames[n].todo[i].code \in AllCodes(d)
  /\ d # "mouse" => \A m \in DOMAIN frames : m < n => ~Whole(m, d)
  /\ ~frames[n].torn =>
       /\ d # "mouse" \/ frames[n].todo # <<>> => frames[n].to = at[d] \/ Pending(d)
       /\ \A i \in DOMAIN frames[n].todo : Right(d, frames[n].to, frames[n].todo[i])
Fitting(d) == \A n \in DOMAIN frames : Handles(n, d) => Fits(n, d)
MouseMade == \A n \in DOMAIN frames : Handles(n, "mouse") =>
               Len(frames[n].todo) <= IF n = Len(frames) THEN 1 ELSE 0

\* A whole handling is still to release the code, or to press it.
Moves(d, c, press) == \E n \in DOMAIN frames :
  /\ Whole(n, d)
  /\ \E i \in DOMAIN frames[n].todo : frames[n].todo[i] = Ask(c, press)
  /\ d = "hat" => (press <=> c \notin prevHat)

\* The device's last position, as far as it is remembered, has the code pressed.
Remembered(d, c) ==
  CASE d = "stick" -> IF \E n \in DOMAIN frames : Whole(n, d)
                        THEN \E n \in DOMAIN frames : Whole(n, d) /\ frames[n].to # {} ELSE inUse
    [] d = "hat" -> IF \E n \in DOMAIN frames : Whole(n, d)
                      THEN \E n \in DOMAIN frames : Whole(n, d) /\ c \in frames[n].to
                      ELSE c \in prevHat
    [] OTHER -> TRUE
Held(d, c) == IF d = "hat" THEN c \in at[d] ELSE at[d] # {}

\* The device answers for a code that the script believes pressed: it will be forgiven,
\* is about to be released, or is held or yet to move.
Behind(d, c) ==
  \/ Torn(d) /\ c \in AllCodes(d)
  \/ Moves(d, c, FALSE)
  \/ c \in Means(d) /\ (Pending(d) \/ Held(d, c)) /\ Remembered(d, c)
Sticking == \A c \in down \ orphan : c \in Unreleased \/ \E d \in Devices : Behind(d, c)

\* What a device holds was told, or will be.
Told(d, c) == c \in down \/ <<d, c>> \in lost
Telling(d) == \A c \in Wants(d) : Pending(d) \/ Torn(d) \/ Told(d, c) \/ Moves(d, c, TRUE)

\* The hat's last position was told, or a handling will put another in its place.
HatTold ==
  /\ \A c \in prevHat : Told("hat", c) \/ Torn("hat")
                     \/ \E n \in DOMAIN frames : Whole(n, "hat") /\ c \notin frames[n].to
  /\ \A n \in DOMAIN frames : Whole(n, "hat") =>
       \A c \in frames[n].to : c \in prevHat \/ Told("hat", c) \/ Moves("hat", c, TRUE)

InputInvariant ==
  /\ InputTypeOK /\ Newest /\ MouseMade /\ Sticking /\ HatTold
  /\ \A d \in Devices : Fitting(d) /\ Telling(d)

-----------------------------------------------------------------------------
(* Sequences                                                               *)

\* The least of a set of natural numbers is one of them.
LEMMA Least ==
  ASSUME NEW S \in SUBSET Nat, S # {}
  PROVE  Min(S) \in S /\ \A k \in S : Min(S) <= k
<1> DEFINE R == OpToRel(<, Nat)
<1>1. IsWellFoundedOn(R, Nat)
  BY NatLessThanWellFounded
<1>2. \A a, b \in Nat : <<a, b>> \in R <=> a < b
  BY DEF OpToRel
<1> HIDE DEF R
<1>3. PICK m \in S : \A k \in S : ~(<<k, m>> \in R)
  BY <1>1, WFMin
<1>4. \A k \in S : ~(k < m)
  BY <1>2, <1>3
<1>5. \A k \in S : m <= k
  BY <1>4
<1> QED BY <1>5 DEF Min

\* What is left of a sequence without the first of some member.
LEMMA RemoveFirstIs ==
  ASSUME NEW S, NEW s \in Seq(S), NEW e
  PROVE  RemoveFirst(s, e) \in Seq(S) /\ ToSet(RemoveFirst(s, e)) \subseteq ToSet(s)
<1> DEFINE i == SelectInSeq(s, LAMBDA v : v = e)
<1>1. CASE \E j \in 1 .. Len(s) : s[j] = e
  <2>1. RemoveFirst(s, e) = SubSeq(s, 1, i - 1) \o SubSeq(s, i + 1, Len(s))
    BY <1>1 DEF RemoveFirst, RemoveAt
  <2>2. i \in 1 .. Len(s)
    <3> DEFINE I == {j \in 1 .. Len(s) : s[j] = e}
    <3>1. I \in SUBSET Nat /\ I # {}
      BY <1>1
    <3>2. i = Min(I)
      BY <3>1 DEF SelectInSeq
    <3> HIDE DEF I, i
    <3>3. Min(I) \in I
      BY <3>1, Least
    <3> QED BY <3>2, <3>3 DEF I
  <2> HIDE DEF i
  <2> DEFINE a == SubSeq(s, 1, i - 1)  b == SubSeq(s, i + 1, Len(s))
  <2>3. a \in Seq(S) /\ Len(a) = i - 1 /\ \A j \in 1 .. i - 1 : a[j] = s[j]
    BY <2>2, SubSeqProperties, SMTT(60)
  <2>4. b \in Seq(S) /\ Len(b) = Len(s) - i /\ \A j \in 1 .. Len(s) - i : b[j] = s[j + i]
    BY <2>2, SubSeqProperties, SMTT(60)
  <2> HIDE DEF a, b
  <2>5. Len(s) \in Nat /\ DOMAIN s = 1 .. Len(s)
    OBVIOUS
  <2>6. a \o b \in Seq(S)
    BY <2>3, <2>4, ConcatProperties
  <2>7. Len(a \o b) = Len(s) - 1
    BY <2>2, <2>3, <2>4, <2>5, ConcatProperties
  <2>8. \A j \in 1 .. Len(s) - 1 : (a \o b)[j] = IF j < i THEN s[j] ELSE s[j + 1]
    BY <2>2, <2>3, <2>4, <2>5, ConcatProperties
  <2>9. \A j \in DOMAIN (a \o b) : \E k \in DOMAIN s : (a \o b)[j] = s[k]
    <3> TAKE j \in DOMAIN (a \o b)
    <3>1. j \in 1 .. Len(s) - 1
      BY <2>6, <2>7
    <3>2. j \in DOMAIN s /\ j + 1 \in DOMAIN s
      BY <2>5, <3>1
    <3> QED BY <2>8, <3>1, <3>2
  <2> QED BY <2>1, <2>6, <2>9 DEF ToSet, a, b
<1>2. CASE ~\E j \in 1 .. Len(s) : s[j] = e
  BY <1>2 DEF RemoveFirst
<1> QED BY <1>1, <1>2

\* Due finds the first call that is to be made: those before it are of a hat and say nothing new.
LEMMA DueIs ==
  ASSUME NEW f, NEW S, f.todo \in Seq(S)
  PROVE  /\ Due(f) \in 0 .. Len(f.todo)
         /\ Due(f) # 0 /\ f.of = "hat" => f.todo[Due(f)].press # (f.todo[Due(f)].code \in prevHat)
         /\ \A i \in 1 .. Len(f.todo) : i < Due(f) \/ Due(f) = 0 =>
              f.of = "hat" /\ f.todo[i].press = (f.todo[i].code \in prevHat)
<1> DEFINE I == {i \in 1 .. Len(f.todo) :
                  f.of = "hat" => f.todo[i].press # (f.todo[i].code \in prevHat)}
<1>1. Due(f) = IF I # {} THEN Min(I) ELSE 0
  BY DEF Due, SelectInSeq
<1>2. I \in SUBSET Nat
  OBVIOUS
<1>3. Len(f.todo) \in Nat
  OBVIOUS
<1>4. CASE I = {}
  BY <1>1, <1>3, <1>4
<1>5. CASE I # {}
  <2> HIDE DEF I
  <2>1. Due(f) \in I /\ \A k \in I : Due(f) <= k
    BY <1>1, <1>2, <1>5, Least
  <2> QED BY <2>1, <1>3 DEF I
<1> QED BY <1>4, <1>5

-----------------------------------------------------------------------------
(* Devices and the calls made of their movements                           *)

\* No key is one of the other devices, and the directions fit a byte.
LEMMA Apart ==
  /\ \A k \in Keys : k # "hat" /\ k # "stick" /\ k # "button" /\ k # "mouse"
  /\ Devices = Keys \cup {"hat", "stick", "button", "mouse"}
  /\ UNION Hats \subseteq {UP, RIGHT, DOWN, LEFT}
  /\ {UP, RIGHT, DOWN, LEFT, PAUSE} \subseteq Codes
BY InputAssumption DEF Devices, UP, RIGHT, DOWN, LEFT, PAUSE, Codes

\* The codes of each kind of device, one by one.
LEMMA AllCodesIs ==
  /\ \A k \in Keys : AllCodes(k) = {Sym(k) % 256} \cup ToSet(Bound(k))
  /\ AllCodes("hat") = UNION Hats /\ AllCodes("stick") = {UP, DOWN}
  /\ AllCodes("button") = {ButtonSwitch} /\ AllCodes("mouse") = {MouseSwitch(m) : m \in Modes}
<1>1. \A k \in Keys : AllCodes(k) = {Sym(k) % 256} \cup ToSet(Bound(k))
  BY Apart DEF AllCodes
<1> QED BY <1>1, Apart DEF AllCodes

\* What is left of the number of a key is a byte.
LEMMA LowByte ==
  ASSUME NEW k \in Keys
  PROVE  Sym(k) % 256 \in Codes
<1>1. Sym(k) \in Nat
  BY InputAssumption
<1>2. \A n \in Nat : n % 256 \in 0 .. 255
  OBVIOUS
<1> QED BY <1>1, <1>2 DEF Codes

\* In full mode a key hands on the low byte of its number, or nothing.
LEMMA KeyCodeIs ==
  ASSUME NEW k \in Keys
  PROVE  /\ KeyCode(k) \in Seq(Codes)
         /\ ToSet(KeyCode(k)) \subseteq {Sym(k) % 256}
<1>1. Sym(k) % 256 \in Codes
  BY LowByte
<1>2. CASE Sym(k) = ESCAPE
  BY <1>2 DEF KeyCode, ToSet
<1>3. CASE Sym(k) # ESCAPE
  <2>1. KeyCode(k) = <<Sym(k) % 256>>
    BY <1>3 DEF KeyCode
  <2> QED BY <1>1, <2>1 DEF ToSet
<1> QED BY <1>2, <1>3

\* Every code of a device fits the byte it travels in.
LEMMA AllCodesIn ==
  ASSUME NEW d \in Devices
  PROVE  AllCodes(d) \subseteq Codes
<1>1. CASE d \in Keys
  <2>1. Sym(d) % 256 \in Codes
    BY <1>1, LowByte
  <2>2. ToSet(Bound(d)) \subseteq Codes
    BY <1>1, InputAssumption DEF ToSet
  <2> QED BY <1>1, <2>1, <2>2, AllCodesIs
<1>2. CASE d \in {"hat", "stick"}
  BY <1>2, Apart, AllCodesIs
<1>3. CASE d \in {"button", "mouse"}
  BY <1>3, InputAssumption, AllCodesIs
<1> QED BY <1>1, <1>2, <1>3, Apart

\* What each kind of device means now, one by one.
LEMMA MeansIs ==
  /\ \A k \in Keys : Means(k) = IF keyMode = "full" THEN ToSet(KeyCode(k)) ELSE ToSet(Bound(k))
  /\ Means("hat") = UNION Hats /\ Means("stick") = {UP, DOWN}
  /\ Means("button") = {ButtonSwitch}
  /\ Means("mouse") = IF mouseOn /\ (mouseMode = "many" => attached)
                        THEN {MouseSwitch(mouseMode)} ELSE {}
<1>1. \A k \in Keys : Means(k) = IF keyMode = "full" THEN ToSet(KeyCode(k)) ELSE ToSet(Bound(k))
  BY Apart DEF Means
<1> QED BY <1>1, Apart DEF Means

\* What a device means now is among the codes it may have pressed in any mode.
LEMMA MeansIn ==
  ASSUME InputTypeOK, NEW d \in Devices
  PROVE  Means(d) \subseteq AllCodes(d)
<1>1. CASE d \in Keys
  BY <1>1, MeansIs, AllCodesIs, KeyCodeIs
<1>2. mouseMode \in Modes
  BY DEF InputTypeOK
<1>3. CASE d \in {"hat", "stick", "button", "mouse"}
  BY <1>2, <1>3, MeansIs, AllCodesIs
<1> QED BY <1>1, <1>3, Apart

\* The calls that press codes.
LEMMA PressIs ==
  ASSUME NEW codes \in Seq(Codes)
  PROVE  /\ Press(codes) \in Seq(Asks)
         /\ \A n \in DOMAIN Press(codes) : Press(codes)[n].code \in ToSet(codes)
              /\ Press(codes)[n].press
         /\ \A c \in ToSet(codes) : \E n \in DOMAIN Press(codes) : Press(codes)[n] = Ask(c, TRUE)
<1>1. DOMAIN codes = 1 .. Len(codes) /\ Len(codes) \in Nat
  OBVIOUS
<1>2. \A n \in DOMAIN codes : codes[n] \in Codes
  BY <1>1, ElementOfSeq
<1>3. \A n \in DOMAIN codes : Ask(codes[n], TRUE) \in Asks
  BY <1>2 DEF Ask, Asks
<1>4. Press(codes) = [n \in 1 .. Len(codes) |-> Ask(codes[n], TRUE)]
  BY <1>1 DEF Press
<1>5. Press(codes) \in [1 .. Len(codes) -> Asks]
  BY <1>1, <1>3, <1>4
<1>6. Press(codes) \in Seq(Asks)
  BY <1>1, <1>5
<1>7. DOMAIN Press(codes) = 1 .. Len(codes)
  BY <1>4
<1>8. \A n \in 1 .. Len(codes) : Press(codes)[n] = Ask(codes[n], TRUE)
  BY <1>4
<1>9. \A n \in 1 .. Len(codes) : codes[n] \in ToSet(codes)
  BY <1>1 DEF ToSet
<1>10. \A c \in ToSet(codes) : \E n \in 1 .. Len(codes) : codes[n] = c
  BY <1>1 DEF ToSet
<1>11. \A c : Ask(c, TRUE).code = c /\ Ask(c, TRUE).press
  BY DEF Ask
<1>12. ASSUME NEW n \in DOMAIN Press(codes)
       PROVE  Press(codes)[n].code \in ToSet(codes) /\ Press(codes)[n].press
  <2>1. Press(codes)[n] = Ask(codes[n], TRUE) /\ codes[n] \in ToSet(codes)
    BY <1>7, <1>8, <1>9
  <2> QED BY <2>1, <1>11
<1>13. ASSUME NEW c \in ToSet(codes)
       PROVE  \E n \in DOMAIN Press(codes) : Press(codes)[n] = Ask(c, TRUE)
  BY <1>7, <1>8, <1>10
<1> QED BY <1>6, <1>12, <1>13

\* The calls that release codes.
LEMMA ReleaseIs ==
  ASSUME NEW codes \in Seq(Codes)
  PROVE  /\ Release(codes) \in Seq(Asks)
         /\ \A n \in DOMAIN Release(codes) : Release(codes)[n].code \in ToSet(codes)
              /\ ~Release(codes)[n].press
         /\ \A c \in ToSet(codes) : \E n \in DOMAIN Release(codes) : Release(codes)[n] = Ask(c, FALSE)
<1>1. DOMAIN codes = 1 .. Len(codes) /\ Len(codes) \in Nat
  OBVIOUS
<1>2. \A n \in DOMAIN codes : codes[n] \in Codes
  BY <1>1, ElementOfSeq
<1>3. \A n \in DOMAIN codes : Ask(codes[n], FALSE) \in Asks
  BY <1>2 DEF Ask, Asks
<1>4. Release(codes) = [n \in 1 .. Len(codes) |-> Ask(codes[n], FALSE)]
  BY <1>1 DEF Release
<1>5. Release(codes) \in [1 .. Len(codes) -> Asks]
  BY <1>1, <1>3, <1>4
<1>6. Release(codes) \in Seq(Asks)
  BY <1>1, <1>5
<1>7. DOMAIN Release(codes) = 1 .. Len(codes)
  BY <1>4
<1>8. \A n \in 1 .. Len(codes) : Release(codes)[n] = Ask(codes[n], FALSE)
  BY <1>4
<1>9. \A n \in 1 .. Len(codes) : codes[n] \in ToSet(codes)
  BY <1>1 DEF ToSet
<1>10. \A c \in ToSet(codes) : \E n \in 1 .. Len(codes) : codes[n] = c
  BY <1>1 DEF ToSet
<1>11. \A c : Ask(c, FALSE).code = c /\ ~Ask(c, FALSE).press
  BY DEF Ask
<1>12. ASSUME NEW n \in DOMAIN Release(codes)
       PROVE  Release(codes)[n].code \in ToSet(codes) /\ ~Release(codes)[n].press
  <2>1. Release(codes)[n] = Ask(codes[n], FALSE) /\ codes[n] \in ToSet(codes)
    BY <1>7, <1>8, <1>9
  <2> QED BY <2>1, <1>11
<1>13. ASSUME NEW c \in ToSet(codes)
       PROVE  \E n \in DOMAIN Release(codes) : Release(codes)[n] = Ask(c, FALSE)
  BY <1>7, <1>8, <1>10
<1> QED BY <1>6, <1>12, <1>13

\* A key that goes down presses what the key means.
LEMMA KeyDownIs ==
  ASSUME InputTypeOK, NEW k \in Keys
  PROVE  /\ KeyDown(k) \in Seq(Asks)
         /\ \A n \in DOMAIN KeyDown(k) : KeyDown(k)[n].code \in Means(k) /\ KeyDown(k)[n].press
<1> DEFINE codes == IF keyMode = "full" THEN KeyCode(k) ELSE RemoveFirst(Bound(k), PAUSE)
<1>1. Bound(k) \in Seq(Codes)
  BY InputAssumption
<1>2. codes \in Seq(Codes) /\ ToSet(codes) \subseteq Means(k)
  BY <1>1, KeyCodeIs, RemoveFirstIs, MeansIs
<1>3. KeyDown(k) = Press(codes)
  BY DEF KeyDown
<1> HIDE DEF codes
<1> QED BY <1>2, <1>3, PressIs

\* A key that goes up releases what the key means, but for a key that is never released.
LEMMA KeyUpIs ==
  ASSUME InputTypeOK, NEW k \in Keys
  PROVE  /\ KeyUp(k) \in Seq(Asks)
         /\ \A n \in DOMAIN KeyUp(k) : KeyUp(k)[n].code \in Means(k) /\ ~KeyUp(k)[n].press
         /\ \A c \in Means(k) \ Unreleased : \E n \in DOMAIN KeyUp(k) : KeyUp(k)[n] = Ask(c, FALSE)
<1> DEFINE codes == IF k = GrabKey THEN <<>>
                    ELSE IF keyMode = "full" THEN KeyCode(k)
                    ELSE IF BoundTo(k, PAUSE) THEN <<PAUSE>>
                    ELSE IF BoundTo(k, QUIT) \/ BoundTo(k, SCREENSHOT) THEN <<>>
                    ELSE Bound(k)
<1>1. Bound(k) \in Seq(Codes) /\ KeyCode(k) \in Seq(Codes)
  BY InputAssumption, KeyCodeIs
<1>2. BoundTo(k, PAUSE) => PAUSE \in ToSet(Bound(k))
  BY DEF BoundTo, ToSet
<1>3. codes \in Seq(Codes)
  BY <1>1, Apart
<1>4. ToSet(<<>>) = {} /\ ToSet(<<PAUSE>>) = {PAUSE}
  BY DEF ToSet
<1>5. ToSet(codes) \subseteq Means(k)
  BY <1>1, <1>2, <1>4, MeansIs, Zenon
<1>6. Means(k) \ Unreleased \subseteq ToSet(codes)
  <2>1. CASE k = GrabKey \/ BoundTo(k, PAUSE) \/ BoundTo(k, QUIT) \/ BoundTo(k, SCREENSHOT)
    <3>1. AllCodes(k) \subseteq Unreleased
      BY <2>1 DEF Unreleased
    <3>2. k \in Devices
      BY Apart
    <3> QED BY <3>1, <3>2, MeansIn
  <2>2. CASE ~(k = GrabKey \/ BoundTo(k, PAUSE) \/ BoundTo(k, QUIT) \/ BoundTo(k, SCREENSHOT))
    BY <2>2, MeansIs
  <2> QED BY <2>1, <2>2
<1>7. KeyUp(k) = Release(codes)
  BY DEF KeyUp
<1> HIDE DEF codes
<1> QED BY <1>3, <1>5, <1>6, <1>7, ReleaseIs

\* What the position of each kind of device asks for, one by one.
LEMMA WantsIs ==
  /\ \A k \in Keys : Wants(k) = IF at[k] = {} THEN {} ELSE {s.code : s \in ToSet(KeyDown(k))}
  /\ Wants("hat") = at["hat"] /\ Wants("stick") = at["stick"]
  /\ Wants("button") = IF at["button"] = {} THEN {} ELSE {ButtonSwitch}
  /\ Wants("mouse") = IF at["mouse"] = {} THEN {} ELSE Means("mouse")
<1>1. ASSUME NEW k \in Keys
      PROVE  Wants(k) = IF at[k] = {} THEN {} ELSE {s.code : s \in ToSet(KeyDown(k))}
  BY Apart DEF Wants
<1>2. ASSUME NEW d \in {"hat", "stick"}
      PROVE  Wants(d) = at[d]
  <2>1. CASE at[d] = {}
    BY <2>1, Apart DEF Wants
  <2>2. CASE at[d] # {}
    BY <2>2, Apart DEF Wants
  <2> QED BY <2>1, <2>2
<1>3. Wants("button") = IF at["button"] = {} THEN {} ELSE {ButtonSwitch}
  BY Apart DEF Wants
<1>4. Wants("mouse") = IF at["mouse"] = {} THEN {} ELSE Means("mouse")
  BY Apart, MeansIs DEF Wants
<1> QED BY <1>1, <1>2, <1>3, <1>4

\* The positions of each kind of device.
LEMMA PositionsAre ==
  /\ Positions("hat") = Hats /\ Positions("stick") = {{}, {UP}, {DOWN}}
  /\ \A d : d # "hat" /\ d # "stick" => Positions(d) = {{}, {HELD}}
BY DEF Positions

\* A device asks only for what it means, and only when it is not at rest.
LEMMA WantsIn ==
  ASSUME InputTypeOK, NEW d \in Devices, NEW c \in Wants(d)
  PROVE  c \in Means(d) /\ c \in AllCodes(d) /\ Held(d, c) /\ at[d] # {}
<1>1. at[d] \in Positions(d)
  BY DEF InputTypeOK
<1>2. CASE d \in Keys
  <2>1. at[d] # {} /\ \E s \in ToSet(KeyDown(d)) : c = s.code
    BY <1>2, WantsIs
  <2>2. c \in Means(d)
    BY <1>2, <2>1, KeyDownIs DEF ToSet
  <2> QED BY <1>2, <2>1, <2>2, MeansIn, Apart DEF Held
<1>3. CASE d = "hat"
  <2>1. c \in Means(d)
    BY <1>1, <1>3, WantsIs, MeansIs, PositionsAre
  <2> QED BY <1>3, <2>1, MeansIn, WantsIs DEF Held
<1>4. CASE d = "stick"
  <2>1. c \in Means(d)
    BY <1>1, <1>4, WantsIs, MeansIs, PositionsAre
  <2> QED BY <1>4, <2>1, MeansIn, WantsIs DEF Held
<1>5. CASE d \in {"button", "mouse"}
  <2>1. c \in Means(d)
    BY <1>5, WantsIs, MeansIs
  <2> QED BY <1>5, <2>1, MeansIn, WantsIs DEF Held
<1> QED BY <1>2, <1>3, <1>4, <1>5, Apart

\* A sequence of one call.
LEMMA OneCall ==
  ASSUME NEW c \in Codes, NEW press \in BOOLEAN
  PROVE  /\ <<Ask(c, press)>> \in Seq(Asks) /\ DOMAIN <<Ask(c, press)>> = {1}
         /\ <<Ask(c, press)>>[1] = Ask(c, press)
         /\ Ask(c, press) \in Asks /\ Ask(c, press).code = c /\ Ask(c, press).press = press
<1>1. Ask(c, press) \in Asks
  BY DEF Ask, Asks
<1> QED BY <1>1 DEF Ask

\* What an event makes process_event call, by its device.
LEMMA CallsAre ==
  ASSUME NEW e
  PROVE  /\ e.of \in Keys => Calls(e) = IF e.to = {} THEN KeyUp(e.of) ELSE KeyDown(e.of)
         /\ e.of = "hat" => Calls(e) = HatMoved(e.to)
         /\ e.of = "stick" => Calls(e) = StickMoved(e.to)
         /\ e.of = "button" => Calls(e) = <<Ask(ButtonSwitch, e.to # {})>>
         /\ e.of = "mouse" => Calls(e) = IF Hears("sdl") THEN <<Ask(MouseSwitch("sdl"), e.to # {})>>
                                         ELSE <<>>
BY Apart DEF Calls, MouseMoved

\* A movement of the hat asks of every direction whether it is pressed.
LEMMA HatCalls ==
  ASSUME NEW to \in Hats
  PROVE  /\ HatMoved(to) \in Seq(Asks) /\ DOMAIN HatMoved(to) = 1 .. 4
         /\ \A i \in 1 .. 4 : HatMoved(to)[i] = Ask(HatMoved(to)[i].code, HatMoved(to)[i].code \in to)
         /\ \A c \in UNION Hats : \E i \in 1 .. 4 : HatMoved(to)[i] = Ask(c, c \in to)
<1>1. /\ Ask(UP, UP \in to) \in Asks /\ Ask(RIGHT, RIGHT \in to) \in Asks
      /\ Ask(DOWN, DOWN \in to) \in Asks /\ Ask(LEFT, LEFT \in to) \in Asks
  BY Apart DEF Ask, Asks
<1>2. HatMoved(to) \in Seq(Asks) /\ DOMAIN HatMoved(to) = 1 .. 4
  BY <1>1 DEF HatMoved
<1>3. /\ HatMoved(to)[1] = Ask(UP, UP \in to) /\ HatMoved(to)[2] = Ask(RIGHT, RIGHT \in to)
      /\ HatMoved(to)[3] = Ask(DOWN, DOWN \in to) /\ HatMoved(to)[4] = Ask(LEFT, LEFT \in to)
  BY DEF HatMoved
<1>4. \A c, p : Ask(c, p).code = c
  BY DEF Ask
<1>5. \A i \in 1 .. 4 : HatMoved(to)[i] = Ask(HatMoved(to)[i].code, HatMoved(to)[i].code \in to)
  <2> TAKE i \in 1 .. 4
  <2>1. i = 1 \/ i = 2 \/ i = 3 \/ i = 4
    OBVIOUS
  <2> QED BY <1>3, <1>4, <2>1
<1>6. \A c \in UNION Hats : \E i \in 1 .. 4 : HatMoved(to)[i] = Ask(c, c \in to)
  BY <1>3, Apart
<1> QED BY <1>2, <1>5, <1>6

\* A movement of the stick presses its direction, or releases both if it was used.
LEMMA StickCalls ==
  ASSUME NEW to \in {{}, {UP}, {DOWN}}, InputTypeOK
  PROVE  /\ StickMoved(to) \in Seq(Asks)
         /\ \A i \in DOMAIN StickMoved(to) : StickMoved(to)[i].code \in {UP, DOWN}
                                          /\ (StickMoved(to)[i].press <=> to # {})
         /\ \A c \in to : \E i \in DOMAIN StickMoved(to) : StickMoved(to)[i] = Ask(c, TRUE)
         /\ to = {} /\ inUse => \A c \in {UP, DOWN} :
              \E i \in DOMAIN StickMoved(to) : StickMoved(to)[i] = Ask(c, FALSE)
<1>1. CASE to # {}
  <2>1. PICK x \in {UP, DOWN} : to = {x}
    BY <1>1
  <2>2. (CHOOSE direction \in to : TRUE) = x
    BY <2>1
  <2>3. StickMoved(to) = <<Ask(x, TRUE)>>
    BY <1>1, <2>2 DEF StickMoved
  <2>4. x \in Codes /\ TRUE \in BOOLEAN
    BY Apart
  <2>5. /\ <<Ask(x, TRUE)>> \in Seq(Asks) /\ DOMAIN <<Ask(x, TRUE)>> = {1}
        /\ <<Ask(x, TRUE)>>[1] = Ask(x, TRUE) /\ Ask(x, TRUE).code = x /\ Ask(x, TRUE).press
    BY <2>4, OneCall
  <2>6. \A i \in DOMAIN StickMoved(to) : StickMoved(to)[i].code \in {UP, DOWN}
                                         /\ StickMoved(to)[i].press
    <3> TAKE i \in DOMAIN StickMoved(to)
    <3>1. i = 1 /\ StickMoved(to)[i] = Ask(x, TRUE)
      BY <2>3, <2>5
    <3> QED BY <2>5, <3>1
  <2>7. \E i \in DOMAIN StickMoved(to) : StickMoved(to)[i] = Ask(x, TRUE)
    BY <2>3, <2>5
  <2>8. StickMoved(to) \in Seq(Asks)
    BY <2>3, <2>5
  <2> QED BY <1>1, <2>1, <2>6, <2>7, <2>8
<1>2. CASE to = {} /\ inUse
  <2>1. StickMoved(to) = Release(<<UP, DOWN>>)
    BY <1>2 DEF StickMoved
  <2>2. <<UP, DOWN>> \in Seq(Codes) /\ ToSet(<<UP, DOWN>>) = {UP, DOWN}
    <3>1. DOMAIN <<UP, DOWN>> = {1, 2}
      OBVIOUS
    <3> QED BY <3>1, Apart DEF ToSet
  <2> DEFINE codes == <<UP, DOWN>>
  <2>3. /\ Release(codes) \in Seq(Asks)
        /\ \A n \in DOMAIN Release(codes) : Release(codes)[n].code \in ToSet(codes)
             /\ ~Release(codes)[n].press
        /\ \A c \in ToSet(codes) : \E n \in DOMAIN Release(codes) : Release(codes)[n] = Ask(c, FALSE)
    BY <2>2, ReleaseIs
  <2> HIDE DEF codes
  <2>4. codes = <<UP, DOWN>>
    BY DEF codes
  <2>5. StickMoved(to) = Release(codes) /\ ToSet(codes) = {UP, DOWN}
    BY <2>1, <2>2, <2>4
  <2>6. \A i \in DOMAIN StickMoved(to) : StickMoved(to)[i].code \in {UP, DOWN}
                                         /\ ~StickMoved(to)[i].press
    BY <2>3, <2>5
  <2>7. \A c \in {UP, DOWN} : \E i \in DOMAIN StickMoved(to) : StickMoved(to)[i] = Ask(c, FALSE)
    BY <2>3, <2>5
  <2>8. StickMoved(to) \in Seq(Asks)
    BY <2>3, <2>5
  <2> QED BY <1>2, <2>6, <2>7, <2>8
<1>3. CASE to = {} /\ ~inUse
  <2>1. StickMoved(to) = <<>>
    BY <1>3 DEF StickMoved
  <2>2. <<>> \in Seq(Asks) /\ DOMAIN <<>> = {}
    OBVIOUS
  <2>3. \A i \in DOMAIN StickMoved(to) : FALSE
    BY <2>1, <2>2
  <2> QED BY <1>3, <2>1, <2>2, <2>3
<1> QED BY <1>1, <1>2, <1>3

\* A call is what it asks for.
LEMMA AskOf ==
  ASSUME NEW s \in Asks
  PROVE  s = Ask(s.code, s.press) /\ s.code \in Codes /\ s.press \in BOOLEAN
BY DEF Asks, Ask

\* Every call made of a movement is right.
LEMMA CallsMade ==
  ASSUME InputTypeOK, NEW e, e.of \in Devices, e.to \in Positions(e.of)
  PROVE  /\ Calls(e) \in Seq(Asks)
         /\ \A i \in DOMAIN Calls(e) :
              /\ Right(e.of, e.to, Calls(e)[i])
              /\ Calls(e)[i].press => Calls(e)[i].code \in AllCodes(e.of)
         /\ e.of = "mouse" => Len(Calls(e)) <= 1
<1>1. Means(e.of) \subseteq AllCodes(e.of)
  BY MeansIn
<1>2. CASE e.of \in Keys
  <2>1. e.of # "hat" /\ e.of # "mouse"
    BY <1>2, Apart
  <2>2. CASE e.to = {}
    <3>1. Calls(e) = KeyUp(e.of)
      BY <1>2, <2>2, CallsAre
    <3> QED BY <1>2, <2>1, <2>2, <3>1, KeyUpIs DEF Right
  <2>3. CASE e.to # {}
    <3>1. Calls(e) = KeyDown(e.of)
      BY <1>2, <2>3, CallsAre
    <3> QED BY <1>1, <1>2, <2>1, <2>3, <3>1, KeyDownIs DEF Right
  <2> QED BY <2>2, <2>3
<1>3. CASE e.of = "hat"
  <2>1. Calls(e) = HatMoved(e.to) /\ e.to \in Hats
    BY <1>3, CallsAre, PositionsAre
  <2>2. /\ Calls(e) \in Seq(Asks) /\ DOMAIN Calls(e) = 1 .. 4
        /\ \A i \in 1 .. 4 : Calls(e)[i] = Ask(Calls(e)[i].code, Calls(e)[i].code \in e.to)
    BY <2>1, HatCalls
  <2>3. \A i \in 1 .. 4 : Calls(e)[i].press = (Calls(e)[i].code \in e.to)
    <3> TAKE i \in 1 .. 4
    <3>1. \A c, p : Ask(c, p).press = p
      BY DEF Ask
    <3> QED BY <2>2, <3>1
  <2>4. \A i \in 1 .. 4 : Calls(e)[i].press => Calls(e)[i].code \in Means(e.of)
    BY <1>3, <2>1, <2>3, MeansIs
  <2> QED BY <1>1, <1>3, <2>2, <2>3, <2>4 DEF Right
<1>4. CASE e.of = "stick"
  <2>1. Calls(e) = StickMoved(e.to) /\ e.to \in {{}, {UP}, {DOWN}}
    BY <1>4, CallsAre, PositionsAre
  <2>2. /\ Calls(e) \in Seq(Asks)
        /\ \A i \in DOMAIN Calls(e) : Calls(e)[i].code \in {UP, DOWN}
             /\ (Calls(e)[i].press <=> e.to # {})
    BY <2>1, StickCalls
  <2> QED BY <1>1, <1>4, <2>2, MeansIs DEF Right
<1>5. ASSUME e.of \in {"button", "mouse"}, NEW c \in Means(e.of), Calls(e) = <<Ask(c, e.to # {})>>
      PROVE  /\ Calls(e) \in Seq(Asks) /\ Len(Calls(e)) <= 1
             /\ \A i \in DOMAIN Calls(e) : Right(e.of, e.to, Calls(e)[i])
                                         /\ Calls(e)[i].code \in AllCodes(e.of)
  <2>1. c \in AllCodes(e.of) /\ c \in Codes
    BY <1>1, AllCodesIn
  <2> DEFINE p == e.to # {}
  <2>2. p \in BOOLEAN
    OBVIOUS
  <2> HIDE DEF p
  <2>3. /\ <<Ask(c, p)>> \in Seq(Asks) /\ DOMAIN <<Ask(c, p)>> = {1}
        /\ <<Ask(c, p)>>[1] = Ask(c, p) /\ Ask(c, p).code = c /\ Ask(c, p).press = p
    BY <2>1, <2>2, OneCall
  <2>4. Calls(e) = <<Ask(c, p)>>
    BY <1>5 DEF p
  <2>5. Calls(e) \in Seq(Asks) /\ DOMAIN Calls(e) = {1} /\ Len(Calls(e)) <= 1
    BY <2>3, <2>4
  <2>6. Calls(e)[1].code = c /\ Calls(e)[1].press = p
    BY <2>3, <2>4
  <2>7. Right(e.of, e.to, Calls(e)[1])
    BY <1>5, <2>6 DEF Right, p
  <2> QED BY <2>1, <2>5, <2>6, <2>7
<1>6. CASE e.of = "button"
  <2>1. Calls(e) = <<Ask(ButtonSwitch, e.to # {})>> /\ ButtonSwitch \in Means(e.of)
    BY <1>6, CallsAre, MeansIs
  <2> QED BY <1>5, <1>6, <2>1
<1>7. CASE e.of = "mouse" /\ Hears("sdl")
  <2>1. Calls(e) = <<Ask(MouseSwitch("sdl"), e.to # {})>> /\ MouseSwitch("sdl") \in Means(e.of)
    BY <1>7, CallsAre, MeansIs DEF Hears
  <2> QED BY <1>5, <1>7, <2>1
<1>8. CASE e.of = "mouse" /\ ~Hears("sdl")
  <2>1. Calls(e) = <<>>
    BY <1>8, CallsAre
  <2>2. <<>> \in Seq(Asks) /\ DOMAIN <<>> = {} /\ Len(<<>>) <= 1
    OBVIOUS
  <2> QED BY <2>1, <2>2
<1> QED BY <1>2, <1>3, <1>4, <1>6, <1>7, <1>8, Apart

\* A device that is let go releases what it may have pressed, the hat what has moved.
LEMMA CallsRelease ==
  ASSUME InputTypeOK, NEW e, e.of \in Devices, e.of # "hat", e.to = {},
         NEW c \in Means(e.of) \ Unreleased,
         e.of = "stick" => inUse, e.of = "mouse" => mouseMode = "sdl"
  PROVE  \E i \in DOMAIN Calls(e) : Calls(e)[i] = Ask(c, FALSE)
<1>1. CASE e.of \in Keys
  BY <1>1, CallsAre, KeyUpIs
<1>2. CASE e.of = "stick"
  <2>1. Calls(e) = StickMoved({}) /\ c \in {UP, DOWN} /\ inUse
    BY <1>2, CallsAre, MeansIs
  <2> QED BY <2>1, StickCalls
<1>3. ASSUME Calls(e) = <<Ask(c, e.to # {})>>
      PROVE  \E i \in DOMAIN Calls(e) : Calls(e)[i] = Ask(c, FALSE)
  <2>1. (e.to # {}) = FALSE
    OBVIOUS
  <2>2. Calls(e) = <<Ask(c, FALSE)>>
    BY <1>3, <2>1
  <2>3. 1 \in DOMAIN <<Ask(c, FALSE)>> /\ <<Ask(c, FALSE)>>[1] = Ask(c, FALSE)
    OBVIOUS
  <2> QED BY <2>2, <2>3
<1>4. CASE e.of = "button"
  BY <1>3, <1>4, CallsAre, MeansIs
<1>5. CASE e.of = "mouse"
  BY <1>3, <1>5, CallsAre, MeansIs DEF Hears
<1> QED BY <1>1, <1>2, <1>4, <1>5, Apart

\* A movement to where the device is presses what it means there.
LEMMA CallsPress ==
  ASSUME InputTypeOK, NEW e, e.of \in Devices, e.to = at[e.of], NEW c \in Wants(e.of),
         e.of = "mouse" => mouseMode = "sdl"
  PROVE  \E i \in DOMAIN Calls(e) : Calls(e)[i] = Ask(c, TRUE)
<1>1. at[e.of] \in Positions(e.of) /\ c \in Means(e.of) /\ at[e.of] # {}
  BY WantsIn DEF InputTypeOK
<1>2. CASE e.of \in Keys
  <2>1. Calls(e) = KeyDown(e.of)
    BY <1>1, <1>2, CallsAre
  <2>2. PICK i \in DOMAIN KeyDown(e.of) : KeyDown(e.of)[i].code = c
    BY <1>1, <1>2, WantsIs DEF ToSet
  <2>3. KeyDown(e.of)[i] \in Asks /\ KeyDown(e.of)[i].press
    BY <1>2, KeyDownIs
  <2>4. KeyDown(e.of)[i].press = TRUE
    BY <2>3, AskOf
  <2>5. KeyDown(e.of)[i] = Ask(c, TRUE)
    BY <2>2, <2>3, <2>4, AskOf
  <2> QED BY <2>1, <2>5
<1>3. CASE e.of = "hat"
  <2>1. at["hat"] \in Hats /\ c \in at["hat"] /\ c \in UNION Hats
    BY <1>1, <1>3, WantsIs, PositionsAre
  <2>2. Calls(e) = HatMoved(at["hat"])
    BY <1>3, CallsAre
  <2>3. (c \in at["hat"]) = TRUE
    BY <2>1
  <2>4. PICK i \in 1 .. 4 : HatMoved(at["hat"])[i] = Ask(c, c \in at["hat"])
    BY <2>1, HatCalls
  <2>5. DOMAIN HatMoved(at["hat"]) = 1 .. 4
    BY <2>1, HatCalls
  <2>6. HatMoved(at["hat"])[i] = Ask(c, TRUE)
    BY <2>3, <2>4
  <2> QED BY <2>2, <2>5, <2>6
<1>4. CASE e.of = "stick"
  <2> DEFINE to == at["stick"]
  <2>1. Calls(e) = StickMoved(to) /\ c \in to /\ to \in {{}, {UP}, {DOWN}}
    BY <1>1, <1>4, CallsAre, WantsIs, PositionsAre
  <2> HIDE DEF to
  <2>2. \A x \in to : \E i \in DOMAIN StickMoved(to) : StickMoved(to)[i] = Ask(x, TRUE)
    BY <2>1, StickCalls
  <2> QED BY <2>1, <2>2
<1>5. ASSUME Calls(e) = <<Ask(c, e.to # {})>>
      PROVE  \E i \in DOMAIN Calls(e) : Calls(e)[i] = Ask(c, TRUE)
  <2>1. (e.to # {}) = TRUE
    BY <1>1
  <2>2. Calls(e) = <<Ask(c, TRUE)>>
    BY <1>5, <2>1
  <2>3. 1 \in DOMAIN <<Ask(c, TRUE)>> /\ <<Ask(c, TRUE)>>[1] = Ask(c, TRUE)
    OBVIOUS
  <2> QED BY <2>2, <2>3
<1>6. CASE e.of = "button"
  BY <1>1, <1>5, <1>6, CallsAre, MeansIs
<1>7. CASE e.of = "mouse"
  BY <1>1, <1>5, <1>7, CallsAre, MeansIs DEF Hears
<1> QED BY <1>2, <1>3, <1>4, <1>6, <1>7, Apart

-----------------------------------------------------------------------------
(* What a step leaves alone                                                *)

\* The calls that handle events of the device are the same.
KeptFor(d) == \A n : /\ Handles(n, d)' <=> Handles(n, d)
                     /\ Handles(n, d) => frames'[n] = frames[n]
SameModes(d) == /\ d \in Keys => keyMode' = keyMode
                /\ d = "mouse" => /\ mouseOn' = mouseOn /\ mouseMode' = mouseMode
                                  /\ attached' = attached
Steady(d) == /\ KeptFor(d) /\ SameModes(d) /\ at'[d] = at[d]
             /\ Pending(d) => Pending(d)'
             /\ d = "hat" => prevHat' = prevHat
             /\ d = "stick" => inUse' = inUse
ToldStays(d) == \A c \in AllCodes(d) : Told(d, c) => Told(d, c)'

\* The codes and positions of a device, and the keys that are never released, do not change.
LEMMA ConstantCodes == /\ \A d : AllCodes(d)' = AllCodes(d) /\ Positions(d)' = Positions(d)
                       /\ Unreleased' = Unreleased
OBVIOUS

\* If the calls that handle a device stay, so does all that is said of them.
LEMMA KeptViews ==
  ASSUME NEW d, KeptFor(d), d = "hat" => prevHat' = prevHat, d = "stick" => inUse' = inUse
  PROVE  /\ Torn(d)' <=> Torn(d)
         /\ \A n : Whole(n, d)' <=> Whole(n, d)
         /\ \A c, p : Moves(d, c, p) => Moves(d, c, p)'
         /\ \A c : Remembered(d, c)' <=> Remembered(d, c)
<1>1. \A n : Whole(n, d)' <=> Whole(n, d)
  BY DEF KeptFor, Whole
<1>2. \A n : Whole(n, d) => frames'[n] = frames[n]
  BY DEF KeptFor, Whole
<1>3. \A n : Whole(n, d) => n \in DOMAIN frames /\ n \in DOMAIN frames'
  BY <1>1 DEF Whole, Handles
<1>4. Torn(d)' <=> Torn(d)
  BY DEF KeptFor, Torn, Handles
<1>5. ASSUME NEW c, NEW p, Moves(d, c, p)
      PROVE  Moves(d, c, p)'
  <2>1. PICK n : /\ Whole(n, d) /\ \E i \in DOMAIN frames[n].todo : frames[n].todo[i] = Ask(c, p)
                 /\ d = "hat" => (p <=> c \notin prevHat)
    BY <1>5 DEF Moves
  <2>2. n \in DOMAIN frames' /\ frames'[n] = frames[n] /\ Whole(n, d)'
    BY <1>1, <1>2, <1>3, <2>1
  <2>3. Ask(c, p)' = Ask(c, p)
    OBVIOUS
  <2> QED BY <2>1, <2>2, <2>3 DEF Moves
<1>6. ASSUME NEW c
      PROVE  Remembered(d, c)' <=> Remembered(d, c)
  <2>1. (\E n \in DOMAIN frames' : Whole(n, d)') <=> \E n \in DOMAIN frames : Whole(n, d)
    BY <1>1, <1>3
  <2>2. (\E n \in DOMAIN frames' : Whole(n, d)' /\ frames'[n].to # {})
          <=> \E n \in DOMAIN frames : Whole(n, d) /\ frames[n].to # {}
    BY <1>1, <1>2, <1>3
  <2>3. (\E n \in DOMAIN frames' : Whole(n, d)' /\ c \in frames'[n].to)
          <=> \E n \in DOMAIN frames : Whole(n, d) /\ c \in frames[n].to
    BY <1>1, <1>2, <1>3
  <2>4. CASE d = "stick"
    BY <2>1, <2>2, <2>4 DEF Remembered
  <2>5. CASE d = "hat"
    BY <2>1, <2>3, <2>5 DEF Remembered
  <2>6. CASE d # "stick" /\ d # "hat"
    BY <2>6 DEF Remembered
  <2> QED BY <2>4, <2>5, <2>6
<1> QED BY <1>1, <1>4, <1>5, <1>6

\* A device that did not move, in the same modes, means and asks for the same.
LEMMA SameMeans ==
  ASSUME NEW d \in Devices, SameModes(d), at'[d] = at[d]
  PROVE  /\ Means(d)' = Means(d) /\ Wants(d)' = Wants(d)
         /\ \A c : Held(d, c)' <=> Held(d, c)
<1>1. Means(d)' = Means(d)
  <2>1. CASE d \in Keys
    BY <2>1, Apart DEF SameModes, Means
  <2>2. CASE d = "mouse"
    BY <2>2, Apart DEF SameModes, Means
  <2>3. CASE d \in {"hat", "stick", "button"}
    BY <2>3, Apart DEF Means
  <2> QED BY <2>1, <2>2, <2>3, Apart
<1>2. Wants(d)' = Wants(d)
  <2>1. CASE d \in Keys
    BY <2>1, Apart DEF SameModes, Wants, KeyDown
  <2>2. CASE d = "mouse"
    BY <2>2, Apart DEF SameModes, Wants
  <2>3. CASE d \in {"hat", "stick", "button"}
    <3>1. CASE at[d] = {}
      BY <2>3, <3>1, Apart DEF Wants
    <3>2. CASE at[d] # {}
      BY <2>3, <3>2, Apart DEF Wants
    <3> QED BY <3>1, <3>2
  <2> QED BY <2>1, <2>2, <2>3, Apart
<1> QED BY <1>1, <1>2 DEF Held

\* A device that a step leaves alone still answers for what it answered for.
LEMMA SteadyBehind ==
  ASSUME NEW d \in Devices, Steady(d), NEW c, Behind(d, c)
  PROVE  Behind(d, c)'
<1>1. /\ Torn(d)' <=> Torn(d)
      /\ Moves(d, c, FALSE) => Moves(d, c, FALSE)'
      /\ Remembered(d, c)' <=> Remembered(d, c)
  BY KeptViews DEF Steady
<1>2. Means(d)' = Means(d) /\ (Held(d, c)' <=> Held(d, c)) /\ (Pending(d) => Pending(d)')
  BY SameMeans DEF Steady
<1> QED BY <1>1, <1>2, ConstantCodes DEF Behind

\* What such a device holds was told before, and is told still.
LEMMA SteadyTelling ==
  ASSUME NEW d \in Devices, Steady(d), ToldStays(d), Telling(d), InputTypeOK
  PROVE  Telling(d)'
<1>1. /\ Torn(d)' <=> Torn(d)
      /\ \A c : Moves(d, c, TRUE) => Moves(d, c, TRUE)'
  BY KeptViews DEF Steady
<1>2. Wants(d)' = Wants(d) /\ (Pending(d) => Pending(d)')
  BY SameMeans DEF Steady
<1>3. ASSUME NEW c \in Wants(d), Told(d, c)
      PROVE  Told(d, c)'
  BY <1>3, WantsIn DEF ToldStays
<1> QED BY <1>1, <1>2, <1>3 DEF Telling

\* What is being handled of such a device still fits.
LEMMA SteadyFitting ==
  ASSUME NEW d \in Devices, Steady(d), Fitting(d)
  PROVE  Fitting(d)'
<1> SUFFICES ASSUME NEW n \in DOMAIN frames', Handles(n, d)'
             PROVE  Fits(n, d)'
  BY DEF Fitting
<1>1. Handles(n, d) /\ frames'[n] = frames[n]
  BY DEF Steady, KeptFor
<1>2. Fits(n, d)
  BY <1>1 DEF Fitting, Handles
<1>3. \A m : Whole(m, d)' <=> Whole(m, d)
  BY KeptViews DEF Steady
<1>4. \A m \in DOMAIN frames' : m < n => (~Whole(m, d)' \/ d = "mouse")
  BY <1>2, <1>3 DEF Fits, Whole, Handles
<1>5. Means(d)' = Means(d) /\ at'[d] = at[d] /\ (Pending(d) => Pending(d)')
  BY SameMeans DEF Steady
<1>6. \A to, s : Right(d, to, s)' <=> Right(d, to, s)
  BY <1>5 DEF Right
<1> QED BY <1>1, <1>2, <1>4, <1>5, <1>6, ConstantCodes DEF Fits

\* If the hat is left alone, its last position is told still.
LEMMA SteadyHat ==
  ASSUME InputTypeOK, Steady("hat"), ToldStays("hat"), HatTold
  PROVE  HatTold'
<1>1. /\ Torn("hat")' <=> Torn("hat")
      /\ \A n : Whole(n, "hat")' <=> Whole(n, "hat")
      /\ \A c : Moves("hat", c, TRUE) => Moves("hat", c, TRUE)'
      /\ prevHat' = prevHat
  BY KeptViews DEF Steady
<1>2. \A n : Whole(n, "hat") => n \in DOMAIN frames /\ n \in DOMAIN frames' /\ frames'[n] = frames[n]
  BY <1>1 DEF Steady, KeptFor, Whole, Handles
<1>3. AllCodes("hat") = UNION Hats /\ prevHat \in Hats
  BY AllCodesIs DEF InputTypeOK
<1>4. \A n : Whole(n, "hat") => frames[n].to \in Hats
  BY PositionsAre DEF InputTypeOK, Nested, Whole, Handles
<1>5. \A c \in UNION Hats : Told("hat", c) => Told("hat", c)'
  BY <1>3 DEF ToldStays
<1>6. ASSUME NEW c \in prevHat
      PROVE  \/ Told("hat", c)' \/ Torn("hat")'
             \/ \E n \in DOMAIN frames' : Whole(n, "hat")' /\ c \notin frames'[n].to
  BY <1>1, <1>2, <1>3, <1>5 DEF HatTold
<1>7. ASSUME NEW n \in DOMAIN frames', Whole(n, "hat")', NEW c \in frames'[n].to
      PROVE  c \in prevHat \/ Told("hat", c)' \/ Moves("hat", c, TRUE)'
  <2>1. Whole(n, "hat") /\ n \in DOMAIN frames /\ frames'[n] = frames[n]
    BY <1>1, <1>2, <1>7
  <2>2. c \in UNION Hats
    BY <1>4, <1>7, <2>1
  <2>3. c \in prevHat \/ Told("hat", c) \/ Moves("hat", c, TRUE)
    BY <1>7, <2>1 DEF HatTold
  <2> QED BY <1>1, <1>5, <2>2, <2>3
<1> QED BY <1>1, <1>6, <1>7 DEF HatTold

-----------------------------------------------------------------------------
(* The calls in progress                                                   *)

\* Calls in progress are a sequence of frames.
LEMMA NestedIs ==
  ASSUME NEW s, Nested(s)
  PROVE  /\ s \in Seq(FrameType) /\ Len(s) \in Nat /\ DOMAIN s = 1 .. Len(s)
         /\ \A n \in 1 .. Len(s) : s[n] \in FrameType
BY DEF Nested

\* A call within the innermost one leaves the calls nested.
LEMMA Pushed ==
  ASSUME NEW s, Nested(s), NEW f \in FrameType,
         f.kind = "event" => f.of \in Devices /\ f.to \in Positions(f.of),
         IF s = <<>> THEN f.kind \in {"poll", "mice"} ELSE f.kind \in Inside(Last(s).kind)
  PROVE  /\ Nested(Append(s, f)) /\ Len(Append(s, f)) = Len(s) + 1
         /\ \A n \in 1 .. Len(s) : Append(s, f)[n] = s[n]
         /\ Append(s, f)[Len(s) + 1] = f
<1> DEFINE t == Append(s, f)
<1>1. /\ t \in Seq(FrameType) /\ Len(t) = Len(s) + 1 /\ t[Len(s) + 1] = f
      /\ \A n \in 1 .. Len(s) : t[n] = s[n]
  BY NestedIs, AppendProperties
<1>2. Len(s) \in Nat /\ DOMAIN s = 1 .. Len(s) /\ DOMAIN t = 1 .. Len(s) + 1
  BY <1>1, NestedIs
<1> HIDE DEF t
<1>3. \A n \in DOMAIN t : t[n].kind = "event" => t[n].of \in Devices /\ t[n].to \in Positions(t[n].of)
  <2> TAKE n \in DOMAIN t
  <2>1. CASE n \in DOMAIN s
    BY <1>1, <1>2, <2>1 DEF Nested
  <2>2. CASE n = Len(s) + 1
    BY <1>1, <2>2
  <2> QED BY <1>2, <2>1, <2>2
<1>4. t[1].kind \in {"poll", "mice"}
  <2>1. CASE s = <<>>
    BY <1>1, <2>1
  <2>2. CASE s # <<>>
    BY <1>1, <1>2, <2>2, EmptySeq, NestedIs DEF Nested
  <2> QED BY <2>1, <2>2
<1>5. \A n \in DOMAIN t : n + 1 \in DOMAIN t => t[n + 1].kind \in Inside(t[n].kind)
  <2> SUFFICES ASSUME NEW n \in DOMAIN t, n + 1 \in DOMAIN t
               PROVE  t[n + 1].kind \in Inside(t[n].kind)
    OBVIOUS
  <2>1. CASE n + 1 \in DOMAIN s
    BY <1>1, <1>2, <2>1 DEF Nested
  <2>2. CASE n + 1 = Len(s) + 1
    <3>1. n = Len(s) /\ n \in 1 .. Len(s) /\ s # <<>>
      BY <1>2, <2>2
    <3> QED BY <1>1, <2>2, <3>1 DEF Last
  <2> QED BY <1>2, <2>1, <2>2
<1> QED BY <1>1, <1>3, <1>4, <1>5 DEF Nested, t

\* So does the return of the innermost call.
LEMMA Popped ==
  ASSUME NEW s, Nested(s), s # <<>>
  PROVE  /\ Nested(Front(s)) /\ Len(Front(s)) = Len(s) - 1 /\ Len(s) \in Nat \ {0}
         /\ \A n \in 1 .. Len(s) - 1 : Front(s)[n] = s[n]
<1> DEFINE t == Front(s)
<1>1. Len(s) \in Nat \ {0} /\ DOMAIN s = 1 .. Len(s)
  BY NestedIs, EmptySeq
<1>2. \A n \in 1 .. Len(s) - 1 : s[n] \in FrameType
  BY <1>1, NestedIs
<1>3. t = SubSeq(s, 1, Len(s) - 1)
  BY DEF Front
<1>4. 1 \in Int /\ Len(s) - 1 \in Int
  BY <1>1
<1>5. /\ t \in Seq(FrameType)
      /\ Len(t) = IF 1 <= Len(s) - 1 THEN (Len(s) - 1) - 1 + 1 ELSE 0
      /\ \A n \in 1 .. (Len(s) - 1) - 1 + 1 : t[n] = s[1 + n - 1]
  BY <1>2, <1>3, <1>4, SubSeqProperties
<1> HIDE DEF t
<1>6. t \in Seq(FrameType) /\ Len(t) = Len(s) - 1 /\ \A n \in 1 .. Len(s) - 1 : t[n] = s[n]
  <2>1. Len(t) = Len(s) - 1
    <3>1. CASE Len(s) = 1
      BY <1>5, <3>1
    <3>2. CASE Len(s) # 1
      <4>1. 1 <= Len(s) - 1 /\ (Len(s) - 1) - 1 + 1 = Len(s) - 1
        BY <1>1, <3>2
      <4> QED BY <1>5, <4>1
    <3> QED BY <3>1, <3>2
  <2>2. (Len(s) - 1) - 1 + 1 = Len(s) - 1 /\ \A n \in 1 .. Len(s) - 1 : 1 + n - 1 = n
    BY <1>1
  <2> QED BY <1>5, <2>1, <2>2
<1>7. DOMAIN t = 1 .. Len(s) - 1
  BY <1>6
<1>8. Nested(t)
  BY <1>1, <1>6, <1>7 DEF Nested
<1> QED BY <1>1, <1>6, <1>8 DEF t

\* Tearing the events of some devices leaves all else of the calls as it was.
LEMMA Teared ==
  ASSUME NEW s, Nested(s), NEW ds
  PROVE  /\ Nested(Tear(s, ds)) /\ Len(Tear(s, ds)) = Len(s)
         /\ \A n \in 1 .. Len(s) :
              /\ Tear(s, ds)[n].kind = s[n].kind /\ Tear(s, ds)[n].of = s[n].of
              /\ Tear(s, ds)[n].to = s[n].to /\ Tear(s, ds)[n].todo = s[n].todo
              /\ Tear(s, ds)[n].torn <=> s[n].torn \/ (s[n].kind = "event" /\ s[n].of \in ds)
              /\ ~(s[n].kind = "event" /\ s[n].of \in ds) => Tear(s, ds)[n] = s[n]
<1> DEFINE t == Tear(s, ds)
<1>1. /\ Len(s) \in Nat /\ DOMAIN s = 1 .. Len(s)
      /\ \A n \in 1 .. Len(s) : s[n] \in FrameType
  BY NestedIs
<1>2. t = [n \in 1 .. Len(s) |-> [s[n] EXCEPT !.torn = @ \/ (s[n].kind = "event" /\ s[n].of \in ds)]]
  BY <1>1 DEF Tear
<1> HIDE DEF t
<1>3. ASSUME NEW n \in 1 .. Len(s)
      PROVE  /\ t[n] \in FrameType
             /\ t[n].kind = s[n].kind /\ t[n].of = s[n].of /\ t[n].to = s[n].to
                  /\ t[n].todo = s[n].todo
             /\ t[n].torn <=> s[n].torn \/ (s[n].kind = "event" /\ s[n].of \in ds)
             /\ ~(s[n].kind = "event" /\ s[n].of \in ds) => t[n] = s[n]
  <2> DEFINE f == s[n]  b == f.torn \/ (f.kind = "event" /\ f.of \in ds)
  <2>1. f \in FrameType
    BY <1>1
  <2>2. t[n] = [f EXCEPT !.torn = b]
    BY <1>2
  <2>3. b \in BOOLEAN
    OBVIOUS
  <2>4. ~(f.kind = "event" /\ f.of \in ds) => b = f.torn
    BY <2>1 DEF FrameType
  <2> HIDE DEF f, b
  <2>5. /\ t[n] \in FrameType /\ t[n].kind = f.kind /\ t[n].of = f.of /\ t[n].to = f.to
        /\ t[n].todo = f.todo /\ t[n].torn = b /\ (b = f.torn => t[n] = f)
    <3>1. /\ t[n].kind = f.kind /\ t[n].of = f.of /\ t[n].to = f.to /\ t[n].todo = f.todo
          /\ t[n].torn = b
      BY <2>1, <2>2 DEF FrameType
    <3>2. t[n] \in FrameType
      BY <2>1, <2>2, <2>3 DEF FrameType
    <3>3. ASSUME b = f.torn
          PROVE  t[n] = f
      BY <2>1, <2>2, <3>3 DEF FrameType
    <3> QED BY <3>1, <3>2, <3>3
  <2> QED BY <2>4, <2>5 DEF f, b
<1>4. t \in Seq(FrameType) /\ Len(t) = Len(s) /\ DOMAIN t = 1 .. Len(s)
  <2>1. t \in [1 .. Len(s) -> FrameType]
    BY <1>2, <1>3
  <2> QED BY <1>1, <2>1
<1>5. t # <<>> => s # <<>> /\ 1 \in DOMAIN s
  BY <1>1, <1>4
<1>6. Nested(t)
  <2>1. t # <<>> => t[1].kind \in {"poll", "mice"}
    BY <1>1, <1>3, <1>5 DEF Nested
  <2>2. \A n \in DOMAIN t : t[n].kind = "event" => t[n].of \in Devices
          /\ t[n].to \in Positions(t[n].of)
    BY <1>1, <1>3, <1>4 DEF Nested
  <2>3. \A n \in DOMAIN t : n + 1 \in DOMAIN t => t[n + 1].kind \in Inside(t[n].kind)
    BY <1>1, <1>3, <1>4 DEF Nested
  <2> QED BY <1>4, <2>1, <2>2, <2>3 DEF Nested
<1> QED BY <1>3, <1>4, <1>6 DEF t

-----------------------------------------------------------------------------
(* The shape of each step                                                  *)

\* A call that is no event is a frame.
LEMMA PlainIs ==
  ASSUME NEW kind \in {"poll", "mice", "script"}
  PROVE  Plain(kind) \in FrameType /\ Plain(kind).kind = kind
<1>1. Plain(kind) = [kind |-> kind, of |-> "none", to |-> {}, todo |-> <<>>, torn |-> FALSE]
  BY DEF Plain, Frame
<1>2. <<>> \in Seq(Asks) /\ {} \in SUBSET Int
  OBVIOUS
<1> DEFINE todo == <<>>  to == {}
<1>3. Plain(kind) = [kind |-> kind, of |-> "none", to |-> to, todo |-> todo, torn |-> FALSE]
      /\ todo \in Seq(Asks) /\ to \in SUBSET Int
  BY <1>1, <1>2
<1> HIDE DEF todo, to
<1>4. Plain(kind).kind = kind
  BY <1>3
<1>5. kind \in {"poll", "mice", "event", "script"} /\ "none" \in Devices \cup {"none"}
        /\ FALSE \in BOOLEAN
  OBVIOUS
<1> QED BY <1>3, <1>4, <1>5 DEF FrameType

\* A position of a device is a set of numbers.
LEMMA PositionsIn ==
  ASSUME NEW d, NEW to \in Positions(d)
  PROVE  to \in SUBSET Int
<1>1. CASE d = "hat"
  <2>1. to \in SUBSET {UP, RIGHT, DOWN, LEFT}
    BY <1>1, InputAssumption, PositionsAre
  <2>2. {UP, RIGHT, DOWN, LEFT} \subseteq Int
    BY DEF UP, RIGHT, DOWN, LEFT
  <2> QED BY <2>1, <2>2
<1>2. CASE d = "stick"
  <2>1. to \in {{}, {UP}, {DOWN}}
    BY <1>2, PositionsAre
  <2>2. UP \in Int /\ DOWN \in Int
    BY DEF UP, DOWN
  <2> QED BY <2>1, <2>2
<1>3. CASE d # "hat" /\ d # "stick"
  <2>1. to = {} \/ to = {HELD}
    BY <1>3, PositionsAre
  <2>2. {HELD} \in SUBSET Int
    BY DEF HELD
  <2> QED BY <2>1, <2>2
<1> QED BY <1>1, <1>2, <1>3

\* The handling of an event is a frame, and whole.
LEMMA EventIs ==
  ASSUME NEW d \in Devices, NEW to \in Positions(d), NEW calls \in Seq(Asks)
  PROVE  LET f == Frame("event", d, to, calls)
         IN  /\ f \in FrameType /\ f.kind = "event" /\ f.of = d /\ f.to = to /\ f.todo = calls
             /\ ~f.torn
<1>1. Frame("event", d, to, calls) =
        [kind |-> "event", of |-> d, to |-> to, todo |-> calls, torn |-> FALSE]
  BY DEF Frame
<1>2. to \in SUBSET Int
  BY PositionsIn
<1> DEFINE f == [kind |-> "event", of |-> d, to |-> to, todo |-> calls, torn |-> FALSE]
<1>3. f \in FrameType
  BY <1>2 DEF FrameType
<1>4. f.kind = "event" /\ f.of = d /\ f.to = to /\ f.todo = calls /\ f.torn = FALSE
  OBVIOUS
<1> HIDE DEF f
<1>5. Frame("event", d, to, calls) = f
  BY <1>1 DEF f
<1> QED BY <1>3, <1>4, <1>5

\* The innermost call, if its kind is known.
LEMMA TopIs ==
  ASSUME InputTypeOK, NEW kind, Is(kind)
  PROVE  /\ Nested(frames) /\ frames # <<>> /\ Len(frames) \in Nat \ {0}
         /\ DOMAIN frames = 1 .. Len(frames) /\ Last(frames) = frames[Len(frames)]
         /\ frames[Len(frames)] \in FrameType /\ frames[Len(frames)].kind = kind
         /\ Len(frames) \in DOMAIN frames
<1>1. Nested(frames) /\ frames # <<>>
  BY DEF InputTypeOK, Is
<1>2. /\ Len(frames) \in Nat /\ DOMAIN frames = 1 .. Len(frames)
      /\ \A n \in 1 .. Len(frames) : frames[n] \in FrameType
  BY <1>1, NestedIs
<1>3. Len(frames) # 0
  BY <1>1, <1>2, EmptySeq, NestedIs
<1> QED BY <1>1, <1>2, <1>3 DEF Is, Last

\* A call that is no event's comes or goes.
LEMMA PlainPush ==
  ASSUME InputTypeOK, NEW kind \in {"poll", "mice", "script"}, frames' = Append(frames, Plain(kind)),
         IF frames = <<>> THEN kind # "script" ELSE kind \in Inside(Last(frames).kind)
  PROVE  /\ Nested(frames') /\ \A d : KeptFor(d)
         /\ Len(frames') = Len(frames) + 1
<1>1. Nested(frames)
  BY DEF InputTypeOK
<1>2. Len(frames) \in Nat /\ DOMAIN frames = 1 .. Len(frames)
  BY <1>1, NestedIs
<1>3. /\ Nested(frames') /\ Len(frames') = Len(frames) + 1
      /\ \A n \in 1 .. Len(frames) : frames'[n] = frames[n]
      /\ frames'[Len(frames) + 1] = Plain(kind)
  <2>1. IF frames = <<>> THEN Plain(kind).kind \in {"poll", "mice"}
                         ELSE Plain(kind).kind \in Inside(Last(frames).kind)
    BY PlainIs
  <2>2. Plain(kind).kind # "event" /\ Plain(kind) \in FrameType
    BY PlainIs
  <2> QED BY <1>1, <2>1, <2>2, Pushed
<1>4. DOMAIN frames' = 1 .. Len(frames) + 1
  BY <1>3, NestedIs
<1>5. frames'[Len(frames) + 1].kind # "event"
  BY <1>3, PlainIs
<1> QED BY <1>2, <1>3, <1>4, <1>5 DEF KeptFor, Handles

\* A call that is no event returns.
LEMMA PlainPop ==
  ASSUME InputTypeOK, NEW kind, Is(kind), frames' = Front(frames)
  PROVE  /\ Nested(frames') /\ Len(frames') = Len(frames) - 1
         /\ \A n \in 1 .. Len(frames) - 1 : frames'[n] = frames[n]
         /\ kind # "event" => \A d : KeptFor(d)
<1>1. /\ Nested(frames) /\ frames # <<>> /\ Len(frames) \in Nat \ {0}
      /\ DOMAIN frames = 1 .. Len(frames) /\ frames[Len(frames)].kind = kind
  BY TopIs
<1>2. /\ Nested(frames') /\ Len(frames') = Len(frames) - 1
      /\ \A n \in 1 .. Len(frames) - 1 : frames'[n] = frames[n]
  BY <1>1, Popped
<1>3. DOMAIN frames' = 1 .. Len(frames) - 1
  BY <1>2, NestedIs
<1> QED BY <1>1, <1>2, <1>3 DEF KeptFor, Handles

\* An event is taken: its handling begins on top of the calls, and those of its device are torn.
LEMMA PollShape ==
  ASSUME InputTypeOK, Poll
  PROVE  LET e == Head(sdlQueue)  L == Len(frames) IN
         /\ e.of \in Devices /\ e.to \in Positions(e.of) /\ L \in Nat
         /\ DOMAIN frames = 1 .. L /\ DOMAIN frames' = 1 .. L + 1
         /\ Nested(frames') /\ Len(frames') = L + 1
         /\ \A n \in 1 .. L :
              /\ frames'[n].kind = frames[n].kind /\ frames'[n].of = frames[n].of
              /\ frames'[n].to = frames[n].to /\ frames'[n].todo = frames[n].todo
              /\ frames'[n].torn <=> frames[n].torn \/ Handles(n, e.of)
              /\ ~Handles(n, e.of) => frames'[n] = frames[n]
         /\ frames'[L + 1].kind = "event" /\ frames'[L + 1].of = e.of /\ frames'[L + 1].to = e.to
         /\ frames'[L + 1].todo = Calls(e) /\ ~frames'[L + 1].torn
         /\ frames[L].kind = "poll" /\ L >= 1
<1> DEFINE e == Head(sdlQueue)  L == Len(frames)  t == Tear(frames, {e.of})
           f == Frame("event", e.of, e.to, Calls(e))
<1>1. /\ Nested(frames) /\ frames # <<>> /\ L \in Nat \ {0} /\ DOMAIN frames = 1 .. L
      /\ frames[L].kind = "poll"
  BY TopIs DEF Poll
<1>2. sdlQueue \in Seq(EventType) /\ sdlQueue # <<>> /\ e = sdlQueue[1]
      /\ \A n \in DOMAIN sdlQueue : sdlQueue[n].to \in Positions(sdlQueue[n].of)
  BY DEF InputTypeOK, Poll
<1>3. e \in EventType /\ 1 \in DOMAIN sdlQueue
  BY <1>2, HeadTailProperties, EmptySeq
<1>4. e.of \in Devices /\ e.to \in Positions(e.of)
  BY <1>2, <1>3 DEF EventType
<1>5. frames' = Append(t, f)
  BY DEF Poll
<1> HIDE DEF e
<1>6. Calls(e) \in Seq(Asks)
  BY <1>4, CallsMade
<1>7. f \in FrameType /\ f.kind = "event" /\ f.of = e.of /\ f.to = e.to /\ f.todo = Calls(e)
        /\ ~f.torn
  BY <1>4, <1>6, EventIs
<1>8. /\ Nested(t) /\ Len(t) = L
      /\ \A n \in 1 .. L :
           /\ t[n].kind = frames[n].kind /\ t[n].of = frames[n].of
           /\ t[n].to = frames[n].to /\ t[n].todo = frames[n].todo
           /\ t[n].torn <=> frames[n].torn \/ (frames[n].kind = "event" /\ frames[n].of \in {e.of})
           /\ ~(frames[n].kind = "event" /\ frames[n].of \in {e.of}) => t[n] = frames[n]
  BY <1>1, Teared
<1> HIDE DEF t, f
<1>9. t # <<>> /\ Last(t).kind = "poll" /\ "event" \in Inside("poll")
  <2>1. Last(t) = t[L]
    BY <1>8 DEF Last
  <2>2. Len(<<>>) = 0
    OBVIOUS
  <2> QED BY <1>1, <1>8, <2>1, <2>2 DEF Inside
<1>10. /\ Nested(frames') /\ Len(frames') = L + 1 /\ frames'[L + 1] = f
       /\ \A n \in 1 .. L : frames'[n] = t[n]
  BY <1>4, <1>5, <1>7, <1>8, <1>9, Pushed
<1>11. DOMAIN frames' = 1 .. L + 1
  BY <1>10, NestedIs
<1>12. \A n \in 1 .. L : Handles(n, e.of) <=> frames[n].kind = "event" /\ frames[n].of \in {e.of}
  BY <1>1 DEF Handles
<1>13. \A n \in 1 .. L :
         /\ frames'[n].kind = frames[n].kind /\ frames'[n].of = frames[n].of
         /\ frames'[n].to = frames[n].to /\ frames'[n].todo = frames[n].todo
         /\ frames'[n].torn <=> frames[n].torn \/ Handles(n, e.of)
         /\ ~Handles(n, e.of) => frames'[n] = frames[n]
  BY <1>8, <1>10, <1>12
<1> QED BY <1>1, <1>4, <1>7, <1>10, <1>11, <1>13 DEF e

\* A movement of ManyMouse is taken: its one call is to be made.
LEMMA PollMouseShape ==
  ASSUME InputTypeOK, PollMouse
  PROVE  LET L == Len(frames)  to == Head(mice)  s == Ask(MouseSwitch(mouseMode), to # {}) IN
         /\ L \in Nat /\ DOMAIN frames = 1 .. L /\ DOMAIN frames' = 1 .. L + 1
         /\ Nested(frames') /\ Len(frames') = L + 1 /\ to \in Positions("mouse")
         /\ \A n \in 1 .. L : frames'[n] = frames[n]
         /\ frames'[L + 1].kind = "event" /\ frames'[L + 1].of = "mouse" /\ frames'[L + 1].to = to
         /\ frames'[L + 1].todo = <<s>> /\ frames'[L + 1].torn = ~mouseOn
         /\ s.code = MouseSwitch(mouseMode) /\ (s.press <=> to # {}) /\ s \in Asks
         /\ frames[L].kind = "mice" /\ L >= 1
<1> DEFINE L == Len(frames)  to == Head(mice)  s == Ask(MouseSwitch(mouseMode), to # {})
           f == Frame("event", "mouse", to, <<s>>)  g == [f EXCEPT !.torn = ~mouseOn]
<1>1. /\ Nested(frames) /\ frames # <<>> /\ L \in Nat \ {0} /\ DOMAIN frames = 1 .. L
      /\ frames[L].kind = "mice" /\ Last(frames) = frames[L]
  BY TopIs DEF PollMouse
<1>2. to \in Positions("mouse")
  BY HeadTailProperties DEF InputTypeOK, PollMouse
<1>3. s \in Asks /\ s.code = MouseSwitch(mouseMode) /\ (s.press <=> to # {})
  <2>1. MouseSwitch(mouseMode) \in Codes
    BY InputAssumption DEF InputTypeOK
  <2> QED BY <2>1 DEF Ask, Asks
<1>4. frames' = Append(frames, g)
  BY DEF PollMouse
<1> HIDE DEF to, s
<1>5. <<s>> \in Seq(Asks)
  BY <1>3
<1>6. /\ f \in FrameType /\ f.kind = "event" /\ f.of = "mouse" /\ f.to = to /\ f.todo = <<s>>
  BY <1>2, <1>5, EventIs, Apart
<1> HIDE DEF f
<1>7. mouseOn \in BOOLEAN
  BY DEF InputTypeOK
<1>8. /\ g \in FrameType /\ g.kind = "event" /\ g.of = "mouse" /\ g.to = to /\ g.todo = <<s>>
      /\ g.torn = ~mouseOn
  BY <1>6, <1>7 DEF FrameType
<1> HIDE DEF g
<1>9. "event" \in Inside("mice") /\ "mouse" \in Devices
  BY Apart DEF Inside
<1>10. /\ Nested(frames') /\ Len(frames') = L + 1 /\ frames'[L + 1] = g
       /\ \A n \in 1 .. L : frames'[n] = frames[n]
  BY <1>1, <1>2, <1>4, <1>8, <1>9, Pushed
<1>11. DOMAIN frames' = 1 .. L + 1
  BY <1>10, NestedIs
<1> QED BY <1>1, <1>2, <1>3, <1>8, <1>10, <1>11 DEF to, s

\* A call is made: it and those passed over are taken from what the event still has to do.
LEMMA TellShape ==
  ASSUME InputTypeOK, Tell
  PROVE  LET L == Len(frames)  f == frames[L]  n == Due(f) IN
         /\ L \in Nat \ {0} /\ DOMAIN frames = 1 .. L /\ DOMAIN frames' = 1 .. L + 1
         /\ Nested(frames') /\ Len(frames') = L + 1
         /\ Last(frames) = f /\ f \in FrameType /\ f.kind = "event" /\ f.of \in Devices
         /\ n \in 1 .. Len(f.todo) /\ f.todo[n] \in Asks /\ f.todo \in Seq(Asks)
         /\ \A m \in 1 .. L - 1 : frames'[m] = frames[m]
         /\ frames'[L].kind = "event" /\ frames'[L].of = f.of /\ frames'[L].to = f.to
         /\ frames'[L].torn = f.torn
         /\ frames'[L].todo \in Seq(Asks) /\ Len(frames'[L].todo) = Len(f.todo) - n
         /\ \A i \in 1 .. Len(f.todo) - n : frames'[L].todo[i] = f.todo[n + i]
         /\ frames'[L + 1].kind = "script"
<1> DEFINE L == Len(frames)  f == frames[L]  n == Due(f)
           rest == SubSeq(f.todo, n + 1, Len(f.todo))  g == [f EXCEPT !.todo = rest]
           t == Front(frames)  u == Append(t, g)
<1>1. /\ Nested(frames) /\ frames # <<>> /\ L \in Nat \ {0} /\ DOMAIN frames = 1 .. L
      /\ f.kind = "event" /\ Last(frames) = f /\ f \in FrameType /\ L \in DOMAIN frames
  BY TopIs DEF Tell
<1>2. f.of \in Devices /\ f.to \in Positions(f.of)
  BY <1>1 DEF Nested
<1>3. frames' = u \o <<Plain("script")>>
  BY <1>1 DEF Tell
<1>4. f.todo \in Seq(Asks)
  BY <1>1 DEF FrameType
<1>5. n # 0
  BY <1>1 DEF Tell
<1> HIDE DEF n, f
<1>6. n \in 1 .. Len(f.todo) /\ Len(f.todo) \in Nat
  <2>1. Due(f) \in 0 .. Len(f.todo)
    BY <1>4, DueIs
  <2> QED BY <1>4, <1>5, <2>1 DEF n
<1>7. \A i \in 1 .. Len(f.todo) : f.todo[i] \in Asks
  BY <1>4
<1>8. /\ rest \in Seq(Asks) /\ Len(rest) = Len(f.todo) - n
      /\ \A i \in 1 .. Len(f.todo) - n : rest[i] = f.todo[n + i]
  <2>1. n + 1 \in Int /\ Len(f.todo) \in Int /\ \A i \in n + 1 .. Len(f.todo) : f.todo[i] \in Asks
    BY <1>6, <1>7
  <2>2. /\ rest \in Seq(Asks)
        /\ Len(rest) = IF n + 1 <= Len(f.todo) THEN Len(f.todo) - (n + 1) + 1 ELSE 0
        /\ \A i \in 1 .. Len(f.todo) - (n + 1) + 1 : rest[i] = f.todo[(n + 1) + i - 1]
    BY <2>1, SubSeqProperties
  <2>3. Len(f.todo) - (n + 1) + 1 = Len(f.todo) - n
    BY <1>6
  <2>4. Len(rest) = Len(f.todo) - n
    BY <1>6, <2>2, <2>3
  <2>5. \A i \in 1 .. Len(f.todo) - n : (n + 1) + i - 1 = n + i
    BY <1>6
  <2> QED BY <2>2, <2>3, <2>4, <2>5
<1> HIDE DEF rest
<1>9. /\ g \in FrameType /\ g.kind = "event" /\ g.of = f.of /\ g.to = f.to /\ g.torn = f.torn
      /\ g.todo = rest
  BY <1>1, <1>8 DEF FrameType
<1> HIDE DEF g
<1>10. /\ Nested(t) /\ Len(t) = L - 1 /\ \A m \in 1 .. L - 1 : t[m] = frames[m]
  BY <1>1, Popped
<1>11. IF t = <<>> THEN FALSE ELSE "event" \in Inside(Last(t).kind)
  <2>1. L # 1
    BY <1>1 DEF Nested, f
  <2>2. L - 1 \in DOMAIN frames /\ (L - 1) + 1 = L
    BY <1>1, <2>1
  <2>3. "event" \in Inside(frames[L - 1].kind)
    BY <1>1, <2>2 DEF Nested, f
  <2>4. t # <<>> /\ Last(t) = frames[L - 1]
    <3>1. Len(<<>>) = 0
      OBVIOUS
    <3> QED BY <1>1, <1>10, <2>1, <3>1 DEF Last
  <2> QED BY <2>3, <2>4
<1> HIDE DEF t
<1>12. /\ Nested(u) /\ Len(u) = L /\ u[L] = g /\ \A m \in 1 .. L - 1 : u[m] = frames[m]
  <2>1. /\ Nested(u) /\ Len(u) = Len(t) + 1 /\ u[Len(t) + 1] = g
        /\ \A m \in 1 .. Len(t) : u[m] = t[m]
    BY <1>2, <1>9, <1>10, <1>11, Pushed
  <2>2. Len(t) + 1 = L /\ Len(t) = L - 1
    BY <1>1, <1>10
  <2> QED BY <1>10, <2>1, <2>2
<1> HIDE DEF u
<1>13. Plain("script") \in FrameType /\ Plain("script").kind = "script"
  BY PlainIs
<1>14. frames' = Append(u, Plain("script"))
  BY <1>3, <1>12, <1>13, NestedIs, AppendIsConcat
<1>15. u # <<>> /\ "script" \in Inside(Last(u).kind)
  <2>1. Len(<<>>) = 0
    OBVIOUS
  <2> QED BY <1>1, <1>9, <1>12, <2>1 DEF Last, Inside
<1>16. /\ Nested(frames') /\ Len(frames') = L + 1 /\ frames'[L + 1] = Plain("script")
       /\ \A m \in 1 .. L : frames'[m] = u[m]
  BY <1>12, <1>13, <1>14, <1>15, Pushed
<1>17. DOMAIN frames' = 1 .. L + 1
  BY <1>16, NestedIs
<1>18. frames'[L] = g /\ \A m \in 1 .. L - 1 : frames'[m] = frames[m]
  BY <1>1, <1>12, <1>16
<1>19. f.todo[n] \in Asks
  BY <1>6, <1>7
<1> QED BY <1>1, <1>2, <1>4, <1>6, <1>8, <1>9, <1>13, <1>16, <1>17, <1>18, <1>19 DEF n, f

-----------------------------------------------------------------------------
(* Types                                                                   *)

\* What is left of the queue when its first event is taken.
LEMMA QueueTail ==
  ASSUME InputTypeOK, sdlQueue # <<>>
  PROVE  LET q == Tail(sdlQueue) IN
         /\ q \in Seq(EventType) /\ Len(sdlQueue) \in Nat \ {0}
         /\ DOMAIN sdlQueue = 1 .. Len(sdlQueue) /\ DOMAIN q = 1 .. Len(sdlQueue) - 1
         /\ \A n \in DOMAIN q : n + 1 \in DOMAIN sdlQueue /\ q[n] = sdlQueue[n + 1]
         /\ \A n \in DOMAIN q : q[n].to \in Positions(q[n].of)
         /\ Head(sdlQueue) = sdlQueue[1]
<1> DEFINE q == Tail(sdlQueue)
<1>1. sdlQueue \in Seq(EventType)
        /\ \A n \in DOMAIN sdlQueue : sdlQueue[n].to \in Positions(sdlQueue[n].of)
  BY DEF InputTypeOK
<1>2. Len(sdlQueue) \in Nat \ {0} /\ DOMAIN sdlQueue = 1 .. Len(sdlQueue)
  BY <1>1, EmptySeq
<1>3. /\ q \in Seq(EventType) /\ Len(q) = Len(sdlQueue) - 1
      /\ \A n \in 1 .. Len(q) : q[n] = sdlQueue[n + 1]
  BY <1>1, HeadTailProperties
<1> HIDE DEF q
<1>4. DOMAIN q = 1 .. Len(sdlQueue) - 1
  BY <1>3
<1>5. \A n \in DOMAIN q : n + 1 \in DOMAIN sdlQueue /\ q[n] = sdlQueue[n + 1]
  BY <1>2, <1>3, <1>4
<1>6. Head(sdlQueue) = sdlQueue[1]
  BY <1>1
<1> QED BY <1>1, <1>2, <1>3, <1>4, <1>5, <1>6 DEF q

\* A movement that is put into the queue.
LEMMA QueuePut ==
  ASSUME InputTypeOK, NEW d \in Devices, NEW to \in Positions(d)
  PROVE  LET e == [of |-> d, to |-> to]  q == Append(sdlQueue, e) IN
         /\ q \in Seq(EventType) /\ Len(sdlQueue) \in Nat
         /\ DOMAIN sdlQueue = 1 .. Len(sdlQueue) /\ DOMAIN q = 1 .. Len(sdlQueue) + 1
         /\ \A n \in 1 .. Len(sdlQueue) : q[n] = sdlQueue[n]
         /\ q[Len(sdlQueue) + 1].of = d /\ q[Len(sdlQueue) + 1].to = to
         /\ \A n \in DOMAIN q : q[n].to \in Positions(q[n].of)
<1> DEFINE e == [of |-> d, to |-> to]  q == Append(sdlQueue, e)
<1>1. sdlQueue \in Seq(EventType)
        /\ \A n \in DOMAIN sdlQueue : sdlQueue[n].to \in Positions(sdlQueue[n].of)
  BY DEF InputTypeOK
<1>2. e \in EventType /\ e.of = d /\ e.to = to
  BY PositionsIn DEF EventType
<1> HIDE DEF e
<1>3. /\ q \in Seq(EventType) /\ Len(q) = Len(sdlQueue) + 1
      /\ \A n \in 1 .. Len(sdlQueue) : q[n] = sdlQueue[n]
      /\ q[Len(sdlQueue) + 1] = e
  BY <1>1, <1>2, AppendProperties
<1>4. Len(sdlQueue) \in Nat /\ DOMAIN sdlQueue = 1 .. Len(sdlQueue)
  BY <1>1
<1> HIDE DEF q
<1>5. DOMAIN q = 1 .. Len(sdlQueue) + 1
  BY <1>3
<1>6. \A n \in DOMAIN q : q[n].to \in Positions(q[n].of)
  BY <1>1, <1>2, <1>3, <1>4, <1>5
<1> QED BY <1>2, <1>3, <1>4, <1>5, <1>6 DEF e, q

\* What is forgiven has its type, and the modes and the queue of mice have theirs.
LEMMA ForgiveTyped ==
  ASSUME InputTypeOK, NEW ds \in SUBSET Devices, NEW codes \in SUBSET Codes, Forgive(ds, codes)
  PROVE  orphan' \subseteq Codes /\ lost' \subseteq Pairs(Devices)
<1>1. Pairs(ds) \subseteq Pairs(Devices)
  BY DEF Pairs
<1> QED BY <1>1 DEF InputTypeOK, Forgive

\* The user keeps the types.
LEMMA MoveTyped ==
  ASSUME InputTypeOK, NEW d \in Devices, NEW to \in Positions(d), Move(d, to)
  PROVE  InputTypeOK'
<1>1. DOMAIN at' = Devices /\ \A x \in Devices : at'[x] \in Positions(x)
  BY DEF Move, InputTypeOK
<1>2. /\ sdlQueue' \in Seq(EventType)
      /\ \A n \in DOMAIN sdlQueue' : sdlQueue'[n].to \in Positions(sdlQueue'[n].of)
  BY QueuePut DEF Move
<1>3. mice' \in Seq(Positions("mouse"))
  <2>1. CASE d = "mouse" /\ attached
    BY <2>1, AppendProperties DEF Move, InputTypeOK
  <2>2. CASE ~(d = "mouse" /\ attached)
    BY <2>2 DEF Move, InputTypeOK
  <2> QED BY <2>1, <2>2
<1>4. moves' \in 0 .. MaxMoves
  BY InputAssumption DEF Move, InputTypeOK
<1>5. UNCHANGED <<down, prevHat, inUse, keyMode, mouseOn, mouseMode, attached, changes,
                  grab, quitflag, frames, orphan, lost>>
  BY DEF Move, memory, modes, history
<1> QED BY <1>1, <1>2, <1>3, <1>4, <1>5 DEF InputTypeOK

\* The variables but for the calls in progress.
Rest == <<at, sdlQueue, mice, down, prevHat, inUse, keyMode, mouseOn, mouseMode, attached,
          changes, grab, quitflag, moves, orphan, lost>>

\* A check that begins keeps the types and every event that is being handled.
LEMMA PollBeginsTyped == InputTypeOK /\ PollBegins => InputTypeOK' /\ \A d : KeptFor(d)
<1> SUFFICES ASSUME InputTypeOK, PollBegins
             PROVE  InputTypeOK' /\ \A d : KeptFor(d)
  OBVIOUS
<1>1. UNCHANGED Rest
  BY DEF PollBegins, Rest, queues, memory, modes, history
<1>2. IF frames = <<>> THEN "poll" # "script" ELSE "poll" \in Inside(Last(frames).kind)
  BY DEF PollBegins, InScript, Is, Inside
<1>3. Nested(frames') /\ \A d : KeptFor(d)
  BY <1>2, PlainPush DEF PollBegins
<1> QED BY <1>1, <1>3 DEF InputTypeOK, Rest

\* So does the end of ManyMouse.
LEMMA MiceEndTyped == InputTypeOK /\ MiceEnd => InputTypeOK' /\ \A d : KeptFor(d)
<1> SUFFICES ASSUME InputTypeOK, MiceEnd
             PROVE  InputTypeOK' /\ \A d : KeptFor(d)
  OBVIOUS
<1>1. UNCHANGED Rest
  BY DEF MiceEnd, Rest, queues, memory, modes, history
<1>2. Nested(frames') /\ \A d : KeptFor(d)
  BY PlainPop DEF MiceEnd
<1> QED BY <1>1, <1>2 DEF InputTypeOK, Rest

\* So does a handler that returns.
LEMMA HandlerReturnsTyped == InputTypeOK /\ HandlerReturns => InputTypeOK' /\ \A d : KeptFor(d)
<1> SUFFICES ASSUME InputTypeOK, HandlerReturns
             PROVE  InputTypeOK' /\ \A d : KeptFor(d)
  OBVIOUS
<1>1. UNCHANGED Rest
  BY DEF HandlerReturns, Rest, queues, memory, modes, history
<1>2. Nested(frames') /\ \A d : KeptFor(d)
  BY PlainPop DEF HandlerReturns
<1> QED BY <1>1, <1>2 DEF InputTypeOK, Rest

\* So does the end of the events, which ManyMouse may follow.
LEMMA PollEndsTyped == InputTypeOK /\ PollEnds => InputTypeOK' /\ \A d : KeptFor(d)
<1> SUFFICES ASSUME InputTypeOK, PollEnds
             PROVE  InputTypeOK' /\ \A d : KeptFor(d)
  OBVIOUS
<1>1. UNCHANGED Rest
  BY DEF PollEnds, Rest, queues, memory, modes, history
<1>2. CASE ~Hears("many")
  <2>1. Nested(frames') /\ \A d : KeptFor(d)
    BY <1>2, PlainPop DEF PollEnds
  <2> QED BY <1>1, <2>1 DEF InputTypeOK, Rest
<1>3. CASE Hears("many")
  <2> DEFINE L == Len(frames)  t == Front(frames)
  <2>1. /\ Nested(frames) /\ frames # <<>> /\ L \in Nat \ {0} /\ DOMAIN frames = 1 .. L
        /\ frames[L].kind = "poll" /\ L \in DOMAIN frames
    BY TopIs DEF PollEnds
  <2>2. Nested(t) /\ Len(t) = L - 1 /\ \A n \in 1 .. L - 1 : t[n] = frames[n]
    BY <2>1, Popped
  <2>3. frames' = Append(t, Plain("mice"))
    BY <1>3 DEF PollEnds
  <2>4. t # <<>> => "mice" \in Inside(Last(t).kind)
    <3> SUFFICES ASSUME t # <<>>
                 PROVE  "mice" \in Inside(Last(t).kind)
      OBVIOUS
    <3>1. L - 1 # 0
      BY <2>1, <2>2, EmptySeq, NestedIs
    <3>2. L - 1 \in DOMAIN frames /\ (L - 1) + 1 = L
      BY <2>1, <3>1
    <3>3. "poll" \in Inside(frames[L - 1].kind)
      BY <2>1, <3>2 DEF Nested
    <3>4. Last(t) = frames[L - 1]
      BY <2>1, <2>2, <3>1 DEF Last
    <3> QED BY <3>3, <3>4 DEF Inside
  <2> HIDE DEF t
  <2>5. Plain("mice") \in FrameType /\ Plain("mice").kind = "mice"
    BY PlainIs
  <2>6. /\ Nested(frames') /\ Len(frames') = Len(t) + 1 /\ frames'[Len(t) + 1] = Plain("mice")
        /\ \A n \in 1 .. Len(t) : frames'[n] = t[n]
    BY <2>2, <2>3, <2>4, <2>5, Pushed
  <2>7. DOMAIN frames' = 1 .. L /\ frames'[L].kind = "mice"
          /\ \A n \in 1 .. L - 1 : frames'[n] = frames[n]
    BY <2>1, <2>2, <2>5, <2>6, NestedIs
  <2>8. \A d : KeptFor(d)
    BY <2>1, <2>7 DEF KeptFor, Handles
  <2> QED BY <1>1, <2>6, <2>8 DEF InputTypeOK, Rest
<1> QED BY <1>2, <1>3

\* A grab of the mouse keeps the types.
LEMMA RegrabTyped ==
  ASSUME InputTypeOK, Regrab
  PROVE  /\ grab' \in BOOLEAN /\ mice' \in Seq(Positions("mouse")) /\ attached' \in BOOLEAN
         /\ orphan' \subseteq Codes /\ lost' \subseteq Pairs(Devices)
<1>1. CASE grab
  BY <1>1 DEF Regrab, InputTypeOK, history
<1>2. CASE ~grab
  <2>1. {"mouse"} \in SUBSET Devices /\ down \cap AllCodes("mouse") \in SUBSET Codes
    BY Apart DEF InputTypeOK
  <2>2. Forgive({"mouse"}, down \cap AllCodes("mouse")) /\ mice' = <<>> /\ attached' = TRUE
          /\ grab' = ~grab
    BY <1>2 DEF Regrab
  <2>3. orphan' \subseteq Codes /\ lost' \subseteq Pairs(Devices)
    BY <2>1, <2>2, ForgiveTyped
  <2> QED BY <2>2, <2>3
<1> QED BY <1>1, <1>2

\* Taking an event keeps the types.
LEMMA PollTyped == InputTypeOK /\ Poll => InputTypeOK'
<1> SUFFICES ASSUME InputTypeOK, Poll
             PROVE  InputTypeOK'
  OBVIOUS
<1>1. Nested(frames')
  BY PollShape
<1>2. /\ sdlQueue' \in Seq(EventType)
      /\ \A n \in DOMAIN sdlQueue' : sdlQueue'[n].to \in Positions(sdlQueue'[n].of)
  BY QueueTail DEF Poll
<1>3. quitflag' \in BOOLEAN
  <2>1. quitflag' = (Head(sdlQueue).of \in Keys /\ Head(sdlQueue).to = {} /\ Quits(Head(sdlQueue).of))
    BY DEF Poll
  <2> QED BY <2>1
<1>4. /\ grab' \in BOOLEAN /\ mice' \in Seq(Positions("mouse")) /\ attached' \in BOOLEAN
      /\ orphan' \subseteq Codes /\ lost' \subseteq Pairs(Devices)
  <2>1. CASE Grabs(Head(sdlQueue))
    BY <2>1, RegrabTyped DEF Poll
  <2>2. CASE ~Grabs(Head(sdlQueue))
    BY <2>2 DEF Poll, InputTypeOK, history
  <2> QED BY <2>1, <2>2
<1>5. UNCHANGED <<at, down, prevHat, inUse, keyMode, mouseOn, mouseMode, changes, moves>>
  BY DEF Poll, memory
<1> QED BY <1>1, <1>2, <1>3, <1>4, <1>5 DEF InputTypeOK

\* Taking a movement of ManyMouse keeps the types.
LEMMA PollMouseTyped == InputTypeOK /\ PollMouse => InputTypeOK'
<1> SUFFICES ASSUME InputTypeOK, PollMouse
             PROVE  InputTypeOK'
  OBVIOUS
<1>1. Nested(frames')
  BY PollMouseShape
<1>2. mice' \in Seq(Positions("mouse"))
  BY HeadTailProperties DEF PollMouse, InputTypeOK
<1>3. UNCHANGED <<at, sdlQueue, down, prevHat, inUse, keyMode, mouseOn, mouseMode, attached, changes,
                  grab, quitflag, moves, orphan, lost>>
  BY DEF PollMouse, memory, modes, history
<1> QED BY <1>1, <1>2, <1>3 DEF InputTypeOK

\* A call of the script keeps the types.
LEMMA TellTyped == InputTypeOK /\ Tell => InputTypeOK'
<1> SUFFICES ASSUME InputTypeOK, Tell
             PROVE  InputTypeOK'
  OBVIOUS
<1> DEFINE f == Last(frames)  s == f.todo[Due(f)]
<1>1. Nested(frames') /\ s \in Asks
  BY TellShape
<1>2. /\ down' = IF s.press THEN down \cup {s.code} ELSE down \ {s.code}
      /\ IF s.press THEN lost' = lost \ {<<f.of, s.code>>} /\ UNCHANGED orphan
         ELSE /\ orphan' = orphan \ {s.code}
              /\ lost' = lost \cup {p \in Pairs(Devices \ {f.of}) : p[2] = s.code}
  BY DEF Tell
<1>3. Pairs(Devices \ {f.of}) \subseteq Pairs(Devices)
  BY DEF Pairs
<1> HIDE DEF f, s
<1>4. s.code \in Codes
  BY <1>1, AskOf
<1>5. down' \subseteq Codes /\ orphan' \subseteq Codes /\ lost' \subseteq Pairs(Devices)
  BY <1>2, <1>3, <1>4 DEF InputTypeOK
<1>6. UNCHANGED <<at, sdlQueue, mice, prevHat, inUse, keyMode, mouseOn, mouseMode, attached, changes,
                  grab, quitflag, moves>>
  BY DEF Tell, queues, memory, modes
<1> QED BY <1>1, <1>5, <1>6 DEF InputTypeOK

\* An event is done: nothing it asked for is left, but directions that say nothing new.
LEMMA HandledShape ==
  ASSUME InputTypeOK, Handled
  PROVE  LET L == Len(frames)  f == frames[L] IN
         /\ L \in Nat \ {0} /\ DOMAIN frames = 1 .. L /\ DOMAIN frames' = 1 .. L - 1
         /\ Nested(frames') /\ Len(frames') = L - 1
         /\ \A m \in 1 .. L - 1 : frames'[m] = frames[m]
         /\ Last(frames) = f /\ f \in FrameType /\ f.kind = "event" /\ f.of \in Devices
         /\ f.to \in Positions(f.of) /\ f.todo \in Seq(Asks)
         /\ \A i \in 1 .. Len(f.todo) : f.of = "hat" /\ f.todo[i].press = (f.todo[i].code \in prevHat)
<1> DEFINE L == Len(frames)  f == frames[L]
<1>1. /\ Nested(frames) /\ frames # <<>> /\ L \in Nat \ {0} /\ DOMAIN frames = 1 .. L
      /\ f.kind = "event" /\ Last(frames) = f /\ f \in FrameType /\ L \in DOMAIN frames
  BY TopIs DEF Handled
<1>2. f.of \in Devices /\ f.to \in Positions(f.of)
  BY <1>1 DEF Nested
<1>3. f.todo \in Seq(Asks)
  BY <1>1 DEF FrameType
<1>4. Due(f) = 0
  BY <1>1 DEF Handled
<1>5. \A i \in 1 .. Len(f.todo) : f.of = "hat" /\ f.todo[i].press = (f.todo[i].code \in prevHat)
  BY <1>3, <1>4, DueIs
<1>6. /\ Nested(frames') /\ Len(frames') = L - 1
      /\ \A n \in 1 .. L - 1 : frames'[n] = frames[n]
  BY <1>1, Popped DEF Handled
<1>7. DOMAIN frames' = 1 .. L - 1
  BY <1>6, NestedIs
<1> QED BY <1>1, <1>2, <1>3, <1>5, <1>6, <1>7

\* The end of an event keeps the types.
LEMMA HandledTyped == InputTypeOK /\ Handled => InputTypeOK'
<1> SUFFICES ASSUME InputTypeOK, Handled
             PROVE  InputTypeOK'
  OBVIOUS
<1> DEFINE f == Last(frames)
<1>1. Nested(frames') /\ f.of \in Devices /\ f.to \in Positions(f.of)
  BY HandledShape
<1>2. /\ prevHat' = IF f.of = "hat" THEN f.to ELSE prevHat
      /\ inUse' = IF f.of = "stick" THEN f.to # {} ELSE inUse
      /\ IF f.torn THEN Forgive({f.of}, AllCodes(f.of)) ELSE UNCHANGED history
  BY DEF Handled
<1> HIDE DEF f
<1>3. prevHat' \in Hats /\ inUse' \in BOOLEAN
  BY <1>1, <1>2, PositionsAre DEF InputTypeOK
<1>4. orphan' \subseteq Codes /\ lost' \subseteq Pairs(Devices)
  <2>1. CASE f.torn
    <3>1. {f.of} \in SUBSET Devices /\ AllCodes(f.of) \in SUBSET Codes
      BY <1>1, AllCodesIn
    <3> QED BY <1>2, <2>1, <3>1, ForgiveTyped
  <2>2. CASE ~f.torn
    BY <1>2, <2>2 DEF history, InputTypeOK
  <2> QED BY <2>1, <2>2
<1>5. UNCHANGED <<at, sdlQueue, mice, down, keyMode, mouseOn, mouseMode, attached, changes,
                  grab, quitflag, moves>>
  BY DEF Handled, queues, modes
<1> QED BY <1>1, <1>3, <1>4, <1>5 DEF InputTypeOK

\* A change of the mode of the keyboard keeps the types.
LEMMA ScriptSetsKeyboardTyped == InputTypeOK /\ ScriptSetsKeyboard => InputTypeOK'
<1> SUFFICES ASSUME InputTypeOK, ScriptSetsKeyboard
             PROVE  InputTypeOK'
  OBVIOUS
<1>1. Nested(frames')
  BY Teared DEF InputTypeOK, ScriptSetsKeyboard
<1>2. orphan' \subseteq Codes /\ lost' \subseteq Pairs(Devices)
  <2>1. Keys \in SUBSET Devices /\ down \in SUBSET Codes
    BY Apart DEF InputTypeOK
  <2> QED BY <2>1, ForgiveTyped DEF ScriptSetsKeyboard
<1>3. changes' \in 0 .. MaxChanges
  BY InputAssumption DEF InputTypeOK, ScriptSetsKeyboard
<1>4. keyMode' \in {"normal", "full"}
  BY DEF ScriptSetsKeyboard
<1>5. UNCHANGED <<at, sdlQueue, mice, down, prevHat, inUse, mouseOn, mouseMode, attached,
                  grab, quitflag, moves>>
  BY DEF ScriptSetsKeyboard, queues, memory
<1> QED BY <1>1, <1>2, <1>3, <1>4, <1>5 DEF InputTypeOK

\* Forgiving the mouse keeps the types of the history.
LEMMA MouseForgiven ==
  ASSUME InputTypeOK, Forgive({"mouse"}, down \cap AllCodes("mouse"))
  PROVE  orphan' \subseteq Codes /\ lost' \subseteq Pairs(Devices)
<1>1. {"mouse"} \in SUBSET Devices /\ down \cap AllCodes("mouse") \in SUBSET Codes
  BY Apart DEF InputTypeOK
<1> QED BY <1>1, ForgiveTyped

\* Enabling and disabling the mouse keeps the types.
LEMMA ScriptTurnsMouseTyped == InputTypeOK /\ ScriptTurnsMouse => InputTypeOK'
<1> SUFFICES ASSUME InputTypeOK, ScriptTurnsMouse
             PROVE  InputTypeOK'
  OBVIOUS
<1>1. orphan' \subseteq Codes /\ lost' \subseteq Pairs(Devices)
  BY MouseForgiven DEF ScriptTurnsMouse
<1>2. changes' \in 0 .. MaxChanges /\ mouseOn' \in BOOLEAN
  BY InputAssumption DEF InputTypeOK, ScriptTurnsMouse
<1>3. UNCHANGED <<at, sdlQueue, mice, down, prevHat, inUse, keyMode, mouseMode, attached,
                  grab, quitflag, frames, moves>>
  BY DEF ScriptTurnsMouse, queues, memory
<1> QED BY <1>1, <1>2, <1>3 DEF InputTypeOK

\* A change of the mode of the mice keeps the types.
LEMMA ScriptSetsMouseTyped ==
  ASSUME InputTypeOK, NEW mode \in Modes \cup {"none"}, ScriptSetsMouse(mode)
  PROVE  InputTypeOK'
<1>1. orphan' \subseteq Codes /\ lost' \subseteq Pairs(Devices)
  BY MouseForgiven DEF ScriptSetsMouse
<1>2. changes' \in 0 .. MaxChanges /\ mouseMode' \in Modes
  BY InputAssumption DEF InputTypeOK, ScriptSetsMouse
<1>3. attached' \in BOOLEAN
  BY DEF InputTypeOK, ScriptSetsMouse
<1>4. mice' \in Seq(Positions("mouse"))
  BY DEF InputTypeOK, ScriptSetsMouse
<1>5. UNCHANGED <<at, sdlQueue, down, prevHat, inUse, keyMode, mouseOn,
                  grab, quitflag, frames, moves>>
  BY DEF ScriptSetsMouse, memory
<1> QED BY <1>1, <1>2, <1>3, <1>4, <1>5 DEF InputTypeOK

\* The initial state has the types.
LEMMA InputInitTyped == InputInit => InputTypeOK
<1> SUFFICES ASSUME InputInit
             PROVE  InputTypeOK
  OBVIOUS
<1>1. DOMAIN at = Devices /\ \A d \in Devices : at[d] \in Positions(d)
  BY InputAssumption, PositionsAre DEF InputInit
<1>2. sdlQueue \in Seq(EventType)
        /\ \A n \in DOMAIN sdlQueue : sdlQueue[n].to \in Positions(sdlQueue[n].of)
  BY DEF InputInit
<1>3. mice \in Seq(Positions("mouse"))
  BY DEF InputInit
<1>4. Nested(frames)
  BY DEF InputInit, Nested
<1>5. moves \in 0 .. MaxMoves /\ changes \in 0 .. MaxChanges /\ prevHat \in Hats
  BY InputAssumption DEF InputInit
<1>6. /\ down \subseteq Codes /\ inUse \in BOOLEAN /\ keyMode \in {"normal", "full"}
      /\ mouseMode \in Modes /\ {mouseOn, attached, grab, quitflag} \subseteq BOOLEAN
      /\ orphan \subseteq Codes /\ lost \subseteq Pairs(Devices)
  BY DEF InputInit, Modes
<1> QED BY <1>1, <1>2, <1>3, <1>4, <1>5, <1>6 DEF InputTypeOK

\* Every step keeps the types.
LEMMA InputStepTyped == InputTypeOK /\ [InputNext]_inputVars => InputTypeOK'
<1> SUFFICES ASSUME InputTypeOK, [InputNext]_inputVars
             PROVE  InputTypeOK'
  OBVIOUS
<1>1. CASE UNCHANGED inputVars
  BY <1>1 DEF inputVars, queues, memory, modes, history, InputTypeOK
<1>2. CASE InputNext
  BY <1>2, MoveTyped, PollBeginsTyped, PollTyped, PollEndsTyped, PollMouseTyped, MiceEndTyped, TellTyped,
     HandledTyped, HandlerReturnsTyped, ScriptSetsKeyboardTyped, ScriptTurnsMouseTyped, ScriptSetsMouseTyped
     DEF InputNext
<1> QED BY <1>1, <1>2

\* The state of io/input.cpp and of the handlers in progress has its types: calls nest as
\* they should, and every code handed to the script fits the byte it travels in.
THEOREM InputTypeCorrect == InputSpec => []InputTypeOK
<1> QED BY InputInitTyped, InputStepTyped, PTL DEF InputSpec

-----------------------------------------------------------------------------
(* The invariant                                                           *)

\* What a device asks for is among its codes,
LEMMA WantsCodes == InputTypeOK => \A d \in Devices : Wants(d) \subseteq AllCodes(d)
BY WantsIn

\* and so it is after a step.
LEMMA WantsCodesNext == InputTypeOK' => (\A d \in Devices : Wants(d) \subseteq AllCodes(d))'
BY WantsCodes, PTL

\* A device answers only for its own codes.
LEMMA BehindCodes ==
  ASSUME InputTypeOK, NEW d \in Devices, Fitting(d), NEW c, Behind(d, c)
  PROVE  c \in AllCodes(d)
<1>1. Means(d) \subseteq AllCodes(d)
  BY MeansIn
<1>2. ASSUME Moves(d, c, FALSE)
      PROVE  c \in AllCodes(d)
  <2>1. PICK n \in DOMAIN frames :
          /\ Whole(n, d) /\ \E i \in DOMAIN frames[n].todo : frames[n].todo[i] = Ask(c, FALSE)
          /\ d = "hat" => c \in prevHat
    BY <1>2 DEF Moves
  <2>2. CASE d = "hat"
    BY <2>1, <2>2, AllCodesIs DEF InputTypeOK
  <2>3. CASE d # "hat"
    <3>1. PICK i \in DOMAIN frames[n].todo : frames[n].todo[i] = Ask(c, FALSE)
      BY <2>1
    <3>2. Right(d, frames[n].to, frames[n].todo[i])
      BY <2>1 DEF Fitting, Fits, Whole
    <3>3. frames[n].todo[i].code = c
      BY <3>1 DEF Ask
    <3> QED BY <1>1, <2>3, <3>2, <3>3 DEF Right
  <2> QED BY <2>2, <2>3
<1> QED BY <1>1, <1>2 DEF Behind

\* A step after which every device that it disturbs still fits.
LEMMA StepKeeps ==
  ASSUME InputInvariant, InputTypeOK', Newest', MouseMade', NEW D,
         \A d \in Devices \ D : Steady(d) /\ ToldStays(d),
         \A d \in Devices \cap D : Fitting(d)' /\ Telling(d)',
         "hat" \in D => HatTold',
         \A c \in down' \ orphan' :
           \/ c \in Unreleased
           \/ \E q \in Devices : Behind(q, c)'
           \/ c \in down \ orphan /\ \A d \in Devices \cap D : Behind(d, c) =>
                c \in Unreleased \/ \E q \in Devices : Behind(q, c)'
  PROVE  InputInvariant'
<1>1. InputTypeOK /\ Sticking /\ HatTold /\ \A d \in Devices : Fitting(d) /\ Telling(d)
  BY DEF InputInvariant
<1>2. ASSUME NEW d \in Devices
      PROVE  Fitting(d)' /\ Telling(d)'
  <2>1. CASE d \in D
    BY <2>1
  <2>2. CASE d \notin D
    BY <1>1, <2>2, SteadyFitting, SteadyTelling
  <2> QED BY <2>1, <2>2
<1>3. HatTold'
  <2>1. CASE "hat" \in D
    BY <2>1
  <2>2. CASE "hat" \notin D
    BY <1>1, <2>2, SteadyHat, Apart
  <2> QED BY <2>1, <2>2
<1>4. ASSUME NEW c \in down' \ orphan'
      PROVE  c \in Unreleased \/ \E q \in Devices : Behind(q, c)'
  <2>1. CASE c \in down \ orphan /\ \A d \in Devices \cap D : Behind(d, c) =>
               c \in Unreleased \/ \E q \in Devices : Behind(q, c)'
    <3>1. c \in Unreleased \/ \E d \in Devices : Behind(d, c)
      BY <1>1, <2>1 DEF Sticking
    <3>2. CASE c \in Unreleased
      BY <3>2
    <3>3. ASSUME NEW d \in Devices, Behind(d, c)
          PROVE  c \in Unreleased \/ \E q \in Devices : Behind(q, c)'
      <4>1. CASE d \in D
        BY <2>1, <3>3, <4>1
      <4>2. CASE d \notin D
        BY <3>3, <4>2, SteadyBehind
      <4> QED BY <4>1, <4>2
    <3> QED BY <3>1, <3>2, <3>3
  <2> QED BY <2>1
<1>5. Sticking'
  BY <1>4, ConstantCodes DEF Sticking
<1> QED BY <1>2, <1>3, <1>5 DEF InputInvariant

\* The events of the mouse that are handled below another call are done.
LEMMA MouseDone ==
  ASSUME InputTypeOK, MouseMade, NEW n, Handles(n, "mouse"), n # Len(frames)
  PROVE  frames[n].todo = <<>>
<1>1. frames[n] \in FrameType
  BY NestedIs DEF InputTypeOK, Handles
<1>2. frames[n].todo \in Seq(Asks)
  BY <1>1 DEF FrameType
<1>3. Len(frames[n].todo) <= 0
  BY DEF MouseMade, Handles
<1> QED BY <1>2, <1>3, EmptySeq

\* If the innermost call is no event, no event is handled in it.
LEMMA TopFree ==
  ASSUME InputTypeOK, frames = <<>> \/ Last(frames).kind # "event"
  PROVE  \A n, d : Handles(n, d) => n # Len(frames)
<1>1. ASSUME NEW n, NEW d, Handles(n, d), n = Len(frames)
      PROVE  FALSE
  <2>1. n \in DOMAIN frames /\ frames[n].kind = "event"
    BY <1>1 DEF Handles
  <2>2. frames # <<>>
    BY <2>1
  <2> QED BY <1>1, <2>1, <2>2 DEF Last
<1> QED BY <1>1

\* A call that is no event's comes or goes, and nothing else happens.
LEMMA PlainKeeps ==
  ASSUME InputInvariant, InputTypeOK', UNCHANGED Rest, \A d : KeptFor(d),
         frames = <<>> \/ Last(frames).kind # "event"
  PROVE  InputInvariant'
<1>1. ASSUME NEW d \in Devices
      PROVE  Steady(d) /\ ToldStays(d)
  <2>1. Pending(d) => Pending(d)'
    BY DEF Pending, Rest
  <2>2. SameModes(d)
    BY DEF SameModes, Rest
  <2>3. ToldStays(d)
    BY DEF ToldStays, Told, Rest
  <2> QED BY <2>1, <2>2, <2>3 DEF Steady, Rest
<1>2. Newest'
  BY DEF InputInvariant, Newest, Rest
<1>3. MouseMade'
  <2> SUFFICES ASSUME NEW n \in DOMAIN frames', Handles(n, "mouse")'
               PROVE  Len(frames'[n].todo) <= 0
    BY DEF MouseMade
  <2>1. Handles(n, "mouse") /\ frames'[n] = frames[n]
    BY DEF KeptFor
  <2>2. n # Len(frames)
    BY <2>1, TopFree DEF InputInvariant
  <2> QED BY <2>1, <2>2, MouseDone DEF InputInvariant
<1>4. \A c \in down' \ orphan' : c \in down \ orphan
  BY DEF Rest
<1> DEFINE D == {}
<1>5. /\ \A d \in Devices \ D : Steady(d) /\ ToldStays(d)
      /\ \A d \in Devices \cap D : Fitting(d)' /\ Telling(d)'
      /\ "hat" \notin D
      /\ \A d \in Devices \cap D : FALSE
  BY <1>1
<1> HIDE DEF D
<1> QED BY <1>2, <1>3, <1>4, <1>5, StepKeeps

\* The calls that are no event keep the invariant.
LEMMA PlainCallsKeep ==
  InputInvariant /\ (PollBegins \/ PollEnds \/ MiceEnd \/ HandlerReturns) => InputInvariant'
<1>1. ASSUME InputInvariant, PollBegins
      PROVE  InputInvariant'
  <2>1. UNCHANGED Rest /\ (frames = <<>> \/ Last(frames).kind # "event")
    BY <1>1 DEF PollBegins, InScript, Is, Rest, queues, memory, modes, history
  <2> QED BY <1>1, <2>1, PollBeginsTyped, PlainKeeps DEF InputInvariant
<1>2. ASSUME InputInvariant, PollEnds
      PROVE  InputInvariant'
  <2>1. UNCHANGED Rest /\ (frames = <<>> \/ Last(frames).kind # "event")
    BY <1>2 DEF PollEnds, Is, Rest, queues, memory, modes, history
  <2> QED BY <1>2, <2>1, PollEndsTyped, PlainKeeps DEF InputInvariant
<1>3. ASSUME InputInvariant, MiceEnd
      PROVE  InputInvariant'
  <2>1. UNCHANGED Rest /\ (frames = <<>> \/ Last(frames).kind # "event")
    BY <1>3 DEF MiceEnd, Is, Rest, queues, memory, modes, history
  <2> QED BY <1>3, <2>1, MiceEndTyped, PlainKeeps DEF InputInvariant
<1>4. ASSUME InputInvariant, HandlerReturns
      PROVE  InputInvariant'
  <2>1. UNCHANGED Rest /\ (frames = <<>> \/ Last(frames).kind # "event")
    BY <1>4 DEF HandlerReturns, Is, Rest, queues, memory, modes, history
  <2> QED BY <1>4, <2>1, HandlerReturnsTyped, PlainKeeps DEF InputInvariant
<1> QED BY <1>1, <1>2, <1>3, <1>4

\* The script changes a mode of the mouse.
LEMMA MouseModeKeeps ==
  ASSUME InputInvariant, InputTypeOK', Newest', InScript,
         UNCHANGED <<at, sdlQueue, down, prevHat, inUse, keyMode, frames>>,
         Forgive({"mouse"}, down \cap AllCodes("mouse"))
  PROVE  InputInvariant'
<1>1. /\ InputTypeOK /\ MouseMade /\ \A d \in Devices : Fitting(d)
      /\ "mouse" \in Devices
  BY Apart DEF InputInvariant
<1> DEFINE D == {"mouse"}
<1>2. /\ lost' = lost \cup ({"mouse"} \X AllCodes("mouse"))
      /\ orphan' = orphan \cup (down \cap AllCodes("mouse"))
  BY DEF Forgive, Pairs
<1>3. ASSUME NEW d \in Devices \ D
      PROVE  Steady(d) /\ ToldStays(d)
  <2>1. Pending(d) => Pending(d)'
    BY <1>3 DEF Pending
  <2>2. SameModes(d) /\ KeptFor(d)
    BY <1>3 DEF SameModes, KeptFor, Handles
  <2>3. ToldStays(d)
    BY <1>2 DEF ToldStays, Told
  <2> QED BY <2>1, <2>2, <2>3 DEF Steady
<1>4. Telling("mouse")'
  <2>1. \A c \in Wants("mouse")' : <<"mouse", c>> \in lost'
    BY <1>1, <1>2, WantsCodesNext, ConstantCodes
  <2> QED BY <2>1 DEF Telling, Told
<1>5. \A n : Handles(n, "mouse")' => Handles(n, "mouse") /\ frames'[n] = frames[n]
  BY DEF Handles
<1>6. \A n : Handles(n, "mouse")' => frames'[n].todo = <<>>
  <2>1. frames = <<>> \/ Last(frames).kind # "event"
    BY DEF InScript, Is
  <2> QED BY <1>1, <1>5, <2>1, TopFree, MouseDone
<1>7. Fitting("mouse")'
  <2>1. DOMAIN <<>> = {}
    OBVIOUS
  <2> QED BY <1>6, <2>1 DEF Fitting, Fits
<1>8. MouseMade'
  BY <1>1 DEF MouseMade, Handles
<1>9. ASSUME NEW c \in down' \ orphan'
      PROVE  c \in down \ orphan /\ ~Behind("mouse", c)
  BY <1>1, <1>2, <1>9, BehindCodes
<1>10. /\ \A d \in Devices \cap D : Fitting(d)' /\ Telling(d)'
       /\ "hat" \notin D
       /\ \A c \in down' \ orphan' : c \in down \ orphan /\ \A d \in Devices \cap D : ~Behind(d, c)
  BY <1>4, <1>7, <1>9
<1> HIDE DEF D
<1> QED BY <1>3, <1>8, <1>10, StepKeeps

\* Enabling and disabling the mouse forgives it.
LEMMA ScriptTurnsMouseKeeps == InputInvariant /\ ScriptTurnsMouse => InputInvariant'
<1> SUFFICES ASSUME InputInvariant, ScriptTurnsMouse
             PROVE  InputInvariant'
  OBVIOUS
<1>1. InputTypeOK'
  BY ScriptTurnsMouseTyped DEF InputInvariant
<1>2. UNCHANGED <<at, sdlQueue, mice, down, prevHat, inUse, keyMode, mouseMode, attached, frames>>
  BY DEF ScriptTurnsMouse, queues, memory
<1>3. Newest'
  BY <1>2 DEF InputInvariant, Newest
<1>4. InScript /\ Forgive({"mouse"}, down \cap AllCodes("mouse"))
  BY DEF ScriptTurnsMouse
<1> QED BY <1>1, <1>2, <1>3, <1>4, MouseModeKeeps

\* A change of the mode of the mice forgives the mouse.
LEMMA ScriptSetsMouseKeeps ==
  ASSUME InputInvariant, NEW mode \in Modes \cup {"none"}, ScriptSetsMouse(mode)
  PROVE  InputInvariant'
<1>1. InputTypeOK'
  BY ScriptSetsMouseTyped DEF InputInvariant
<1>2. UNCHANGED <<at, sdlQueue, down, prevHat, inUse, keyMode, frames>>
  BY DEF ScriptSetsMouse, memory
<1>3. Newest'
  <2>1. Newest /\ mouseMode \in Modes
    BY DEF InputInvariant, InputTypeOK
  <2>2. mice' # <<>> => mice' = mice /\ mode # "many" /\ mouseMode # "many"
    BY DEF ScriptSetsMouse
  <2>3. mice' = <<>>
    BY <2>1, <2>2 DEF Newest
  <2>4. attached' => mouseMode' = "many"
    BY <2>1 DEF ScriptSetsMouse, Newest, Modes
  <2> QED BY <1>2, <2>1, <2>3, <2>4 DEF Newest
<1>4. InScript /\ Forgive({"mouse"}, down \cap AllCodes("mouse"))
  BY DEF ScriptSetsMouse
<1> QED BY <1>1, <1>2, <1>3, <1>4, MouseModeKeeps

\* A change of the mode of the keyboard tears and forgives the keys.
LEMMA ScriptSetsKeyboardKeeps == InputInvariant /\ ScriptSetsKeyboard => InputInvariant'
<1> SUFFICES ASSUME InputInvariant, ScriptSetsKeyboard
             PROVE  InputInvariant'
  OBVIOUS
<1>1. InputTypeOK' /\ InputTypeOK /\ MouseMade /\ \A d \in Devices : Fitting(d)
  BY ScriptSetsKeyboardTyped DEF InputInvariant
<1>2. UNCHANGED <<at, sdlQueue, mice, down, prevHat, inUse, mouseOn, mouseMode, attached>>
  BY DEF ScriptSetsKeyboard, queues, memory
<1>3. Newest'
  BY <1>2 DEF InputInvariant, Newest
<1>4. lost' = lost \cup Pairs(Keys) /\ orphan' = orphan \cup down
  BY DEF ScriptSetsKeyboard, Forgive
<1>5. /\ Nested(frames) /\ Len(frames) \in Nat /\ DOMAIN frames = 1 .. Len(frames)
      /\ frames' = Tear(frames, Keys)
  <2>1. Nested(frames)
    BY <1>1 DEF InputTypeOK
  <2> QED BY <2>1, NestedIs DEF ScriptSetsKeyboard
<1>6. /\ Nested(frames') /\ Len(frames') = Len(frames)
      /\ \A n \in 1 .. Len(frames) :
           /\ frames'[n].kind = frames[n].kind /\ frames'[n].of = frames[n].of
           /\ frames'[n].to = frames[n].to /\ frames'[n].todo = frames[n].todo
           /\ frames'[n].torn <=> frames[n].torn \/ (frames[n].kind = "event" /\ frames[n].of \in Keys)
           /\ ~(frames[n].kind = "event" /\ frames[n].of \in Keys) => frames'[n] = frames[n]
  BY <1>5, Teared
<1>7. DOMAIN frames' = DOMAIN frames
  BY <1>5, <1>6, NestedIs
<1>8. \A n, d : Handles(n, d)' <=> Handles(n, d)
  BY <1>5, <1>6, <1>7 DEF Handles
<1>9. ASSUME NEW d \in Devices \ Keys
      PROVE  Steady(d) /\ ToldStays(d)
  <2>1. Pending(d) => Pending(d)'
    BY <1>2 DEF Pending
  <2>2. KeptFor(d)
    BY <1>5, <1>6, <1>8, <1>9 DEF KeptFor, Handles
  <2>3. SameModes(d)
    BY <1>2, <1>9 DEF SameModes
  <2>4. ToldStays(d)
    BY <1>2, <1>4 DEF ToldStays, Told
  <2> QED BY <1>2, <2>1, <2>2, <2>3, <2>4 DEF Steady
<1>10. ASSUME NEW k \in Keys
       PROVE  Fitting(k)' /\ Telling(k)'
  <2>1. k \in Devices
    BY Apart
  <2>2. \A n : Handles(n, k) => n \in 1 .. Len(frames) /\ frames'[n].torn
          /\ frames'[n].todo = frames[n].todo
    BY <1>5, <1>6 DEF Handles
  <2>3. \A n : ~Whole(n, k)'
    BY <1>8, <2>2 DEF Whole
  <2>4. ASSUME NEW n, Handles(n, k)'
        PROVE  Fits(n, k)'
    <3>1. frames'[n].torn /\ frames'[n].todo = frames[n].todo
      BY <1>8, <2>2, <2>4
    <3>2. Fits(n, k)
      BY <1>1, <1>8, <2>1, <2>4 DEF Fitting, Handles
    <3> QED BY <2>3, <3>1, <3>2, ConstantCodes DEF Fits
  <2>5. Fitting(k)'
    BY <2>4 DEF Fitting
  <2>6. \A c \in Wants(k)' : <<k, c>> \in lost'
    BY <1>1, <1>4, <2>1, WantsCodesNext, ConstantCodes DEF Pairs
  <2>7. Telling(k)'
    BY <2>6 DEF Telling, Told
  <2> QED BY <2>5, <2>7
<1>11. MouseMade'
  BY <1>1, <1>5, <1>6, <1>7, <1>8 DEF MouseMade
<1>12. "hat" \notin Keys /\ down' \ orphan' = {}
  BY <1>2, <1>4, Apart
<1>13. \A d \in Devices \cap Keys : Fitting(d)' /\ Telling(d)'
  BY <1>10
<1> QED BY <1>1, <1>3, <1>9, <1>11, <1>12, <1>13, StepKeeps

\* A movement is under way.
LEMMA MoveKeeps ==
  ASSUME InputInvariant, NEW d \in Devices, NEW to \in Positions(d), Move(d, to)
  PROVE  InputInvariant'
<1>1. InputTypeOK' /\ InputTypeOK /\ Newest /\ MouseMade /\ HatTold
        /\ \A x \in Devices : Fitting(x) /\ Telling(x)
  BY MoveTyped DEF InputInvariant
<1>2. UNCHANGED <<down, prevHat, inUse, keyMode, mouseOn, mouseMode, attached, frames, orphan, lost>>
  BY DEF Move, memory, modes, history
<1> DEFINE N == Len(sdlQueue)
<1>3. /\ N \in Nat /\ DOMAIN sdlQueue = 1 .. N /\ DOMAIN sdlQueue' = 1 .. N + 1
      /\ \A n \in 1 .. N : sdlQueue'[n] = sdlQueue[n]
      /\ sdlQueue'[N + 1].of = d /\ sdlQueue'[N + 1].to = to
  BY QueuePut DEF Move
<1> HIDE DEF N
<1>4. at'[d] = to /\ \A x \in Devices \ {d} : at'[x] = at[x]
  BY DEF Move, InputTypeOK, InputInvariant
<1>5. /\ d = "mouse" /\ attached => mice' # <<>> /\ mice'[Len(mice')] = to
      /\ ~(d = "mouse" /\ attached) => mice' = mice
  <2>1. CASE d = "mouse" /\ attached
    <3>1. mice' = Append(mice, to) /\ mice \in Seq(Positions("mouse")) /\ to \in Positions("mouse")
      BY <1>1, <2>1 DEF Move, InputTypeOK
    <3> QED BY <2>1, <3>1, AppendProperties
  <2>2. CASE ~(d = "mouse" /\ attached)
    BY <2>2 DEF Move
  <2> QED BY <2>1, <2>2
<1>6. Newest'
  <2>1. ASSUME NEW n \in DOMAIN sdlQueue'
        PROVE  \/ sdlQueue'[n].to = at'[sdlQueue'[n].of]
               \/ \E m \in DOMAIN sdlQueue' : m > n /\ sdlQueue'[m].of = sdlQueue'[n].of
    <3>1. CASE n = N + 1
      BY <1>3, <1>4, <3>1
    <3>2. CASE n \in 1 .. N /\ sdlQueue[n].of = d
      <4>1. N + 1 \in DOMAIN sdlQueue' /\ N + 1 > n /\ sdlQueue'[N + 1].of = sdlQueue'[n].of
        BY <1>3, <3>2
      <4> QED BY <4>1
    <3>3. CASE n \in 1 .. N /\ sdlQueue[n].of # d
      <4>1. sdlQueue[n].of \in Devices
        <5>1. sdlQueue \in Seq(EventType) /\ n \in 1 .. Len(sdlQueue)
          BY <1>1, <3>3 DEF InputTypeOK, N
        <5>2. sdlQueue[n] \in EventType
          BY <5>1, ElementOfSeq
        <5> QED BY <5>2 DEF EventType
      <4>2. \/ sdlQueue[n].to = at[sdlQueue[n].of]
            \/ \E m \in DOMAIN sdlQueue : m > n /\ sdlQueue[m].of = sdlQueue[n].of
        BY <1>1, <1>3, <3>3 DEF Newest
      <4>3. sdlQueue'[n] = sdlQueue[n]
        BY <1>3, <3>3
      <4>4. \A m \in DOMAIN sdlQueue : m \in DOMAIN sdlQueue' /\ sdlQueue'[m] = sdlQueue[m]
        BY <1>3
      <4> QED BY <1>4, <3>3, <4>1, <4>2, <4>3, <4>4
    <3> QED BY <1>3, <3>1, <3>2, <3>3
  <2>2. mice' # <<>> => attached' /\ mice'[Len(mice')] = at'["mouse"]
    BY <1>1, <1>2, <1>4, <1>5, Apart DEF Newest
  <2> QED BY <1>1, <1>2, <2>1, <2>2 DEF Newest
<1>7. \A x : KeptFor(x) /\ SameModes(x)
  BY <1>2 DEF KeptFor, Handles, SameModes
<1>8. \A x : Pending(x) => Pending(x)'
  <2>1. \A n \in DOMAIN sdlQueue : n \in DOMAIN sdlQueue' /\ sdlQueue'[n] = sdlQueue[n]
    BY <1>3
  <2>2. mice # <<>> => mice' # <<>>
    BY <1>5
  <2> QED BY <1>2, <2>1, <2>2 DEF Pending
<1>9. Pending(d)' \/ (d = "mouse" /\ Means("mouse") = {})
  <2>1. N + 1 \in DOMAIN sdlQueue' /\ sdlQueue'[N + 1].of = d
    BY <1>3
  <2> QED BY <1>2, <1>5, <2>1, MeansIs DEF Pending
<1> DEFINE D == {d}
<1>10. ASSUME NEW x \in Devices \ D
       PROVE  Steady(x) /\ ToldStays(x)
  BY <1>2, <1>4, <1>7, <1>8, <1>10 DEF Steady, ToldStays, Told
<1>11. Means(d)' = Means(d)
  BY <1>2 DEF Means
<1>12. /\ Torn(d)' <=> Torn(d)
       /\ \A n : Whole(n, d)' <=> Whole(n, d)
       /\ \A c, p : Moves(d, c, p) => Moves(d, c, p)'
       /\ \A c : Remembered(d, c)' <=> Remembered(d, c)
  BY <1>2, <1>7, KeptViews
<1>13. Fitting(d)'
  <2> SUFFICES ASSUME NEW n \in DOMAIN frames', Handles(n, d)'
               PROVE  Fits(n, d)'
    BY DEF Fitting
  <2>1. Handles(n, d) /\ frames'[n] = frames[n] /\ n \in DOMAIN frames
    BY <1>2, <1>7 DEF KeptFor
  <2>2. Fits(n, d)
    BY <1>1, <2>1 DEF Fitting
  <2>3. \A p, s : Right(d, p, s)' <=> Right(d, p, s)
    BY <1>11 DEF Right
  <2>4. \A m \in DOMAIN frames' : m < n => (~Whole(m, d)' \/ d = "mouse")
    BY <1>2, <1>12, <2>2 DEF Fits
  <2>5. CASE Pending(d)'
    BY <2>1, <2>2, <2>3, <2>4, <2>5, ConstantCodes DEF Fits
  <2>6. CASE d = "mouse" /\ Means("mouse") = {}
    <3>1. frames[n].torn \/ \A i \in DOMAIN frames[n].todo : FALSE
      BY <2>2, <2>6 DEF Fits, Right
    <3>2. frames[n].todo \in Seq(Asks)
      BY <1>1, <2>1, NestedIs DEF InputTypeOK, FrameType
    <3>3. frames[n].torn \/ frames[n].todo = <<>>
      <4>1. frames[n].todo # <<>> => 1 \in DOMAIN frames[n].todo
        BY <3>2, EmptySeq
      <4> QED BY <3>1, <4>1
    <3> QED BY <2>1, <2>2, <2>3, <2>6, <3>3, ConstantCodes DEF Fits
  <2> QED BY <1>9, <2>5, <2>6
<1>14. Telling(d)'
  <2>1. CASE Pending(d)'
    BY <2>1 DEF Telling
  <2>2. CASE d = "mouse" /\ Means("mouse") = {}
    <3>1. Wants("mouse")' = {}
      BY <1>2, <2>2, Apart, MeansIs DEF Wants
    <3> QED BY <2>2, <3>1 DEF Telling
  <2> QED BY <1>9, <2>1, <2>2
<1>15. HatTold'
  BY <1>1, <1>2 DEF HatTold, Told, Torn, Whole, Handles, Moves, Ask
<1>16. ASSUME NEW c, Behind(d, c)
       PROVE  Behind(d, c)'
  BY <1>9, <1>11, <1>12, <1>16, ConstantCodes DEF Behind
<1>17. MouseMade'
  BY <1>1, <1>2 DEF MouseMade, Handles
<1>18. /\ \A x \in Devices \cap D : Fitting(x)' /\ Telling(x)'
       /\ \A c \in down' \ orphan' : c \in down \ orphan /\
            \A x \in Devices \cap D : Behind(x, c) => \E q \in Devices : Behind(q, c)'
  BY <1>2, <1>13, <1>14, <1>16
<1> HIDE DEF D
<1> QED BY <1>1, <1>6, <1>10, <1>15, <1>17, <1>18, StepKeeps

\* A movement of ManyMouse begins to be handled.
LEMMA PollMouseKeeps == InputInvariant /\ PollMouse => InputInvariant'
<1> SUFFICES ASSUME InputInvariant, PollMouse
             PROVE  InputInvariant'
  OBVIOUS
<1> PICK L : L = Len(frames)
  OBVIOUS
<1> PICK to : to = Head(mice)
  OBVIOUS
<1> PICK s : s = Ask(MouseSwitch(mouseMode), to # {})
  OBVIOUS
<1> DEFINE D == {"mouse"}
<1>1. InputTypeOK' /\ InputTypeOK /\ Newest /\ MouseMade
      /\ \A x \in Devices : Fitting(x) /\ Telling(x)
  BY PollMouseTyped DEF InputInvariant
<1>2. UNCHANGED <<at, sdlQueue, down, prevHat, inUse, keyMode, mouseOn, mouseMode, attached, orphan, lost>>
  BY DEF PollMouse, memory, modes, history
<1>3. /\ L \in Nat /\ DOMAIN frames = 1 .. L /\ DOMAIN frames' = 1 .. L + 1 /\ Len(frames') = L + 1
      /\ \A n \in 1 .. L : frames'[n] = frames[n]
      /\ frames'[L + 1].kind = "event" /\ frames'[L + 1].of = "mouse" /\ frames'[L + 1].to = to
      /\ frames'[L + 1].todo = <<s>> /\ frames'[L + 1].torn = ~mouseOn
      /\ s.code = MouseSwitch(mouseMode) /\ (s.press <=> to # {}) /\ s \in Asks
      /\ frames[L].kind = "mice" /\ L >= 1
  BY <1>1, PollMouseShape
<1>4. mice # <<>> /\ mouseMode = "many" /\ attached /\ mice' = Tail(mice)
  BY <1>1 DEF PollMouse, Newest
<1>5. mice' = <<>> => to = at["mouse"]
  <2>1. mice \in Seq(Positions("mouse"))
    BY <1>1 DEF InputTypeOK
  <2>2. mice' = <<>> => Len(mice) = 1 /\ to = mice[1]
    <3>1. Len(Tail(mice)) = Len(mice) - 1
      BY <1>4, <2>1, HeadTailProperties
    <3>2. Len(<<>>) = 0 /\ Len(mice) \in Nat
      BY <2>1
    <3>3. to = mice[1]
      BY <1>4, <2>1
    <3>4. ASSUME mice' = <<>>
          PROVE  Len(mice) = 1
      <4>1. Len(mice) - 1 = 0
        BY <1>4, <3>1, <3>2, <3>4
      <4> QED BY <3>2, <4>1
    <3> QED BY <3>3, <3>4
  <2> QED BY <1>1, <1>4, <2>2 DEF Newest
<1>6. s = Ask(s.code, s.press) /\ s.press \in BOOLEAN
  BY <1>3, AskOf
<1>7. Newest'
  <2>1. mice \in Seq(Positions("mouse"))
    BY <1>1 DEF InputTypeOK
  <2>2. mice' # <<>> => mice'[Len(mice')] = mice[Len(mice)]
    <3> DEFINE q == Tail(mice)
    <3>1. /\ q \in Seq(Positions("mouse")) /\ Len(q) = Len(mice) - 1 /\ Len(mice) \in Nat
          /\ \A i \in 1 .. Len(q) : q[i] = mice[i + 1]
      BY <1>4, <2>1, HeadTailProperties
    <3> HIDE DEF q
    <3>2. q # <<>> => Len(q) \in 1 .. Len(q) /\ Len(q) + 1 = Len(mice)
      BY <3>1, EmptySeq
    <3>3. q # <<>> => q[Len(q)] = mice[Len(mice)]
      BY <3>1, <3>2
    <3> QED BY <1>4, <3>3 DEF q
  <2> QED BY <1>1, <1>2, <1>4, <2>2 DEF Newest
<1>8. \A n, d : d # "mouse" => (Handles(n, d)' <=> Handles(n, d))
  BY <1>3 DEF Handles
<1>9. \A n : Handles(n, "mouse")' <=> Handles(n, "mouse") \/ n = L + 1
  BY <1>3 DEF Handles
<1>10. \A n, d : Handles(n, d) => n \in DOMAIN frames /\ n \in DOMAIN frames'
         /\ frames'[n] = frames[n]
  BY <1>3 DEF Handles
<1>11. \A n : Handles(n, "mouse") => frames[n].todo = <<>>
  <2>1. \A n, d : Handles(n, d) => n # Len(frames)
    BY <1>3 DEF Handles
  <2> QED BY <1>1, <2>1, MouseDone
<1>12. ASSUME NEW x \in Devices \ D
       PROVE  Steady(x) /\ ToldStays(x)
  <2>1. Pending(x) => Pending(x)'
    BY <1>2, <1>12 DEF Pending
  <2>2. SameModes(x) /\ KeptFor(x)
    BY <1>2, <1>8, <1>10, <1>12 DEF SameModes, KeptFor
  <2>3. ToldStays(x)
    BY <1>2 DEF ToldStays, Told
  <2> QED BY <1>2, <2>1, <2>2, <2>3 DEF Steady
<1>13. Means("mouse")' = Means("mouse")
       /\ Means("mouse") = IF mouseOn THEN {MouseSwitch(mouseMode)} ELSE {}
  BY <1>2, <1>4, MeansIs DEF Means
<1>14. to = at'["mouse"] \/ Pending("mouse")'
  BY <1>2, <1>4, <1>5 DEF Pending
<1>15. "mouse" # "hat" /\ "mouse" # "stick" /\ "mouse" \in Devices
  BY Apart
<1>16. Fitting("mouse")'
  <2> SUFFICES ASSUME NEW n \in DOMAIN frames', Handles(n, "mouse")'
               PROVE  Fits(n, "mouse")'
    BY DEF Fitting
  <2>1. CASE Handles(n, "mouse")
    <3>1. frames'[n].todo = <<>> /\ DOMAIN <<>> = {}
      BY <1>10, <1>11, <2>1
    <3> QED BY <3>1 DEF Fits
  <2>2. CASE n = L + 1
    <3>1. MouseSwitch(mouseMode) \in AllCodes("mouse")
      BY <1>1, AllCodesIs DEF InputTypeOK
    <3>2. \A i \in DOMAIN frames'[n].todo : frames'[n].todo[i] = s
      BY <1>3, <2>2
    <3>3. mouseOn => Right("mouse", to, s)'
      BY <1>3, <1>13 DEF Right
    <3> QED BY <1>3, <1>14, <2>2, <3>1, <3>2, <3>3, ConstantCodes DEF Fits
  <2> QED BY <1>9, <2>1, <2>2
<1>17. mouseOn => Whole(L + 1, "mouse")' /\ L + 1 \in DOMAIN frames'
         /\ 1 \in DOMAIN frames'[L + 1].todo
                  /\ frames'[L + 1].todo[1] = s
  <2>1. 1 \in DOMAIN <<s>> /\ <<s>>[1] = s
    OBVIOUS
  <2>2. L + 1 \in DOMAIN frames' /\ Handles(L + 1, "mouse")'
    BY <1>3, <1>9
  <2>3. mouseOn => ~frames'[L + 1].torn
    BY <1>3
  <2> QED BY <1>3, <2>1, <2>2, <2>3 DEF Whole
<1>18. Telling("mouse")'
  <2> SUFFICES ASSUME NEW c \in Wants("mouse")', ~Pending("mouse")'
               PROVE  Moves("mouse", c, TRUE)'
    BY DEF Telling
  <2>1. Wants("mouse")' = IF at["mouse"] = {} THEN {} ELSE Means("mouse")
    BY <1>2, <1>13, Apart, MeansIs DEF Wants
  <2>2. mouseOn /\ c = s.code /\ at["mouse"] # {}
    BY <1>3, <1>13, <2>1
  <2>3. s = Ask(c, TRUE)
    BY <1>2, <1>3, <1>6, <1>14, <2>2
  <2> QED BY <1>15, <1>17, <2>2, <2>3 DEF Moves, Ask
<1>19. ASSUME NEW c, Behind("mouse", c)
       PROVE  Behind("mouse", c)'
  <2>1. ASSUME Torn("mouse"), c \in AllCodes("mouse")
        PROVE  Behind("mouse", c)'
    <3>1. Torn("mouse")'
      BY <1>9, <1>10, <2>1 DEF Torn
    <3> QED BY <2>1, <3>1, ConstantCodes DEF Behind
  <2>2. ~Moves("mouse", c, FALSE)
    <3>1. DOMAIN <<>> = {}
      OBVIOUS
    <3> QED BY <1>11, <3>1 DEF Moves, Whole
  <2>3. ASSUME c \in Means("mouse")
        PROVE  Behind("mouse", c)'
    <3>1. mouseOn /\ c = s.code
      BY <1>3, <1>13, <2>3
    <3>2. CASE to # {}
      <4>1. Remembered("mouse", c)'
        BY DEF Remembered
      <4>2. Pending("mouse")' \/ Held("mouse", c)'
        BY <1>14, <3>2, <1>15 DEF Held
      <4> QED BY <1>13, <2>3, <4>1, <4>2 DEF Behind
    <3>3. CASE to = {}
      <4>1. s = Ask(c, FALSE)
        BY <1>3, <1>6, <3>1, <3>3
      <4>2. Moves("mouse", c, FALSE)'
        BY <1>15, <1>17, <3>1, <4>1 DEF Moves, Ask
      <4> QED BY <4>2 DEF Behind
    <3> QED BY <3>2, <3>3
  <2> QED BY <1>19, <2>1, <2>2, <2>3 DEF Behind
<1>20. MouseMade'
  <2> SUFFICES ASSUME NEW n \in DOMAIN frames', Handles(n, "mouse")'
               PROVE  Len(frames'[n].todo) <= IF n = Len(frames') THEN 1 ELSE 0
    BY DEF MouseMade
  <2>1. CASE Handles(n, "mouse")
    <3>1. frames'[n].todo = <<>> /\ Len(<<>>) = 0
      BY <1>10, <1>11, <2>1
    <3> QED BY <3>1
  <2>2. CASE n = L + 1
    <3>1. n = Len(frames') /\ frames'[n].todo = <<s>> /\ Len(<<s>>) = 1
      BY <1>3, <2>2
    <3> QED BY <3>1
  <2> QED BY <1>9, <2>1, <2>2
<1>21. /\ \A x \in Devices \cap D : Fitting(x)' /\ Telling(x)'
       /\ "hat" \notin D
       /\ \A c \in down' \ orphan' : c \in down \ orphan /\
            \A x \in Devices \cap D : Behind(x, c) => \E q \in Devices : Behind(q, c)'
  BY <1>2, <1>16, <1>18, <1>19
<1> HIDE DEF D
<1> QED BY <1>1, <1>7, <1>12, <1>20, <1>21, StepKeeps

\* What a poll does to the queues: nothing is lost but what the grab clears.
LEMMA PollQueues ==
  ASSUME InputInvariant, Poll, NEW e, e = Head(sdlQueue)
  PROVE  /\ Newest' /\ e.of \in Devices /\ e.to \in Positions(e.of)
         /\ \A d : d # e.of /\ (d # "mouse" \/ ~Grabs(e)) => (Pending(d) => Pending(d)')
         /\ e.of # "mouse" \/ mouseMode = "sdl" => e.to = at[e.of] \/ Pending(e.of)'
         /\ Grabs(e) => e.of \in Keys
         /\ e.of = "mouse" /\ mouseMode # "sdl" => (Pending("mouse") => Pending("mouse")')
<1>1. InputTypeOK /\ Newest
  BY DEF InputInvariant
<1>2. sdlQueue # <<>> /\ sdlQueue' = Tail(sdlQueue) /\ UNCHANGED <<at, mouseMode>>
  BY DEF Poll
<1> PICK q : q = sdlQueue'
  OBVIOUS
<1> PICK K : K = Len(sdlQueue)
  OBVIOUS
<1>3. /\ K \in Nat \ {0} /\ DOMAIN sdlQueue = 1 .. K /\ DOMAIN q = 1 .. K - 1
      /\ \A n \in DOMAIN q : n + 1 \in DOMAIN sdlQueue /\ q[n] = sdlQueue[n + 1]
      /\ e = sdlQueue[1]
  BY <1>1, <1>2, QueueTail
<1>4. e.of \in Devices /\ e.to \in Positions(e.of)
  BY <1>1, PollShape
<1>5. \A n \in DOMAIN sdlQueue : n > 1 => n - 1 \in DOMAIN q /\ q[n - 1] = sdlQueue[n]
  BY <1>3
<1>6. e.to = at[e.of] \/ \E n \in DOMAIN q : q[n].of = e.of
  <2>1. \/ e.to = at[e.of]
        \/ \E m \in DOMAIN sdlQueue : m > 1 /\ sdlQueue[m].of = e.of
    BY <1>1, <1>3 DEF Newest
  <2> QED BY <1>5, <2>1
<1>7. ASSUME NEW n \in DOMAIN q
      PROVE  q[n].to = at[q[n].of] \/ \E m \in DOMAIN q : m > n /\ q[m].of = q[n].of
  <2>1. \/ sdlQueue[n + 1].to = at[sdlQueue[n + 1].of]
        \/ \E m \in DOMAIN sdlQueue : m > n + 1 /\ sdlQueue[m].of = sdlQueue[n + 1].of
    BY <1>1, <1>3, <1>7 DEF Newest
  <2>2. \A m \in DOMAIN sdlQueue : m > n + 1 => m > 1 /\ m - 1 > n
    BY <1>3, <1>7
  <2> QED BY <1>3, <1>5, <1>7, <2>1, <2>2
<1>8. \A d : d # e.of /\ (\E n \in DOMAIN sdlQueue : sdlQueue[n].of = d) =>
        \E n \in DOMAIN q : q[n].of = d
  <2> SUFFICES ASSUME NEW d, d # e.of, NEW n \in DOMAIN sdlQueue, sdlQueue[n].of = d
               PROVE  \E m \in DOMAIN q : q[m].of = d
    OBVIOUS
  <2>1. n > 1
    BY <1>3
  <2> QED BY <1>5, <2>1
<1>9. Grabs(e) => Regrab
  BY DEF Poll
<1>10. ~Grabs(e) => UNCHANGED <<mice, attached>>
  BY DEF Poll
<1>11. Grabs(e) => e.of \in Keys /\ mouseMode = "many"
  <2>1. GrabKey \notin {"hat", "stick", "button", "mouse"}
    BY InputAssumption
  <2> QED BY <1>4, <2>1, Apart DEF Grabs, Hears
<1>12. Newest'
  <2>1. mice' # <<>> => attached' /\ mice'[Len(mice')] = at["mouse"]
    BY <1>1, <1>9, <1>10 DEF Newest, Regrab
  <2>2. attached' => mouseMode = "many"
    BY <1>1, <1>9, <1>10, <1>11 DEF Newest, Regrab
  <2> QED BY <1>2, <1>7, <2>1, <2>2 DEF Newest
<1>13. \A d : d # e.of /\ (d # "mouse" \/ ~Grabs(e)) => (Pending(d) => Pending(d)')
  BY <1>2, <1>8, <1>10 DEF Pending
<1>14. e.of # "mouse" \/ mouseMode = "sdl" => e.to = at[e.of] \/ Pending(e.of)'
  BY <1>2, <1>6 DEF Pending
<1>15. e.of = "mouse" /\ mouseMode # "sdl" => (Pending("mouse") => Pending("mouse")')
  <2>1. e.of = "mouse" => ~Grabs(e)
    BY <1>11, Apart
  <2>2. mouseMode # "sdl" => mouseMode = "many"
    BY <1>1 DEF InputTypeOK, Modes
  <2> QED BY <1>2, <1>10, <2>1, <2>2 DEF Pending
<1> QED BY <1>4, <1>11, <1>12, <1>13, <1>14, <1>15

\* A taken event answers for its device's last position: what that had pressed is to be
\* released or stays, and what the new one presses is to be told.
LEMMA PollKeeps == InputInvariant /\ Poll => InputInvariant'
<1> SUFFICES ASSUME InputInvariant, Poll
             PROVE  InputInvariant'
  OBVIOUS
<1> PICK e : e = Head(sdlQueue)
  OBVIOUS
<1> PICK L : L = Len(frames)
  OBVIOUS
<1> PICK d : d = e.of
  OBVIOUS
<1> PICK calls : calls = Calls(e)
  OBVIOUS
<1> DEFINE D == {d} \cup (IF Grabs(e) THEN {"mouse"} ELSE {})
<1>1. InputTypeOK' /\ InputTypeOK /\ Newest /\ MouseMade /\ HatTold
        /\ \A x \in Devices : Fitting(x) /\ Telling(x)
  BY PollTyped DEF InputInvariant
<1>2. UNCHANGED <<at, down, prevHat, inUse, keyMode, mouseOn, mouseMode>>
  BY DEF Poll, memory
<1>3. /\ Newest' /\ d \in Devices /\ e.to \in Positions(d)
      /\ \A x : x # d /\ (x # "mouse" \/ ~Grabs(e)) => (Pending(x) => Pending(x)')
      /\ d # "mouse" \/ mouseMode = "sdl" => e.to = at[d] \/ Pending(d)'
      /\ Grabs(e) => d \in Keys
      /\ d = "mouse" /\ mouseMode # "sdl" => (Pending("mouse") => Pending("mouse")')
  BY PollQueues
<1>4. /\ L \in Nat /\ DOMAIN frames = 1 .. L /\ DOMAIN frames' = 1 .. L + 1 /\ Len(frames') = L + 1
      /\ \A n \in 1 .. L :
           /\ frames'[n].kind = frames[n].kind /\ frames'[n].of = frames[n].of
           /\ frames'[n].to = frames[n].to /\ frames'[n].todo = frames[n].todo
           /\ frames'[n].torn <=> frames[n].torn \/ Handles(n, d)
           /\ ~Handles(n, d) => frames'[n] = frames[n]
      /\ frames'[L + 1].kind = "event" /\ frames'[L + 1].of = d /\ frames'[L + 1].to = e.to
      /\ frames'[L + 1].todo = calls /\ ~frames'[L + 1].torn
      /\ frames[L].kind = "poll" /\ L >= 1
  BY <1>1, PollShape
<1>5. ~Grabs(e) => UNCHANGED <<mice, attached, orphan, lost>>
  BY DEF Poll, history
<1>6. Grabs(e) => \/ UNCHANGED <<mice, attached, orphan, lost>>
                  \/ /\ lost' = lost \cup ({"mouse"} \X AllCodes("mouse"))
                     /\ orphan' = orphan \cup (down \cap AllCodes("mouse"))
  BY DEF Poll, Regrab, Forgive, Pairs, history
<1>7. lost \subseteq lost' /\ orphan \subseteq orphan'
  BY <1>5, <1>6
<1>8. \A x : ToldStays(x) /\ \A c : Told(x, c) => Told(x, c)'
  BY <1>2, <1>7 DEF ToldStays, Told
<1>9. \A n, x : x # d => (Handles(n, x)' <=> Handles(n, x))
        /\ (Handles(n, x) => frames'[n] = frames[n])
  BY <1>4 DEF Handles
<1>10. \A n : Handles(n, d)' <=> Handles(n, d) \/ n = L + 1
  BY <1>4 DEF Handles
<1>11. \A n : Handles(n, d) => n \in 1 .. L /\ frames'[n].torn /\ frames'[n].todo = frames[n].todo
  BY <1>4 DEF Handles
<1>12. \A n : Whole(n, d)' <=> n = L + 1
  BY <1>4, <1>10, <1>11 DEF Whole
<1>13. ASSUME NEW x \in Devices \ D
       PROVE  Steady(x) /\ ToldStays(x)
  <2>1. KeptFor(x)
    BY <1>9, <1>13 DEF KeptFor
  <2>2. x # d /\ (x # "mouse" \/ ~Grabs(e))
    BY <1>13
  <2>3. SameModes(x)
    BY <1>2, <1>5, <2>2 DEF SameModes
  <2> QED BY <1>2, <1>3, <1>8, <2>1, <2>2, <2>3 DEF Steady
<1>14. SameModes(d)
  BY <1>2, <1>3, <1>5, Apart DEF SameModes
<1>15. /\ Means(d)' = Means(d) /\ Wants(d)' = Wants(d)
       /\ \A c : Held(d, c)' <=> Held(d, c)
  BY <1>2, <1>3, <1>14, SameMeans
<1>16. /\ calls \in Seq(Asks)
       /\ \A i \in DOMAIN calls : Right(d, e.to, calls[i])
            /\ (calls[i].press => calls[i].code \in AllCodes(d))
       /\ d = "mouse" => Len(calls) <= 1
  BY <1>1, <1>3, CallsMade
<1>17. d = "mouse" /\ mouseMode # "sdl" => calls = <<>>
  BY CallsAre DEF Hears
<1>18. Fitting(d)'
  <2> SUFFICES ASSUME NEW n \in DOMAIN frames', Handles(n, d)'
               PROVE  Fits(n, d)'
    BY DEF Fitting
  <2>1. \A m \in DOMAIN frames' : m < n => ~Whole(m, d)'
    BY <1>4, <1>12
  <2>2. CASE Handles(n, d)
    <3>1. frames'[n].torn /\ frames'[n].todo = frames[n].todo /\ Fits(n, d)
      BY <1>1, <1>3, <1>11, <2>2 DEF Fitting, Handles
    <3> QED BY <2>1, <3>1, ConstantCodes DEF Fits
  <2>3. CASE n = L + 1
    <3>1. \A p, s : Right(d, p, s)' <=> Right(d, p, s)
      BY <1>15 DEF Right
    <3>2. d # "mouse" \/ calls # <<>> => e.to = at'[d] \/ Pending(d)'
      BY <1>2, <1>3, <1>17
    <3> QED BY <1>4, <1>16, <2>1, <2>3, <3>1, <3>2, ConstantCodes DEF Fits
  <2> QED BY <1>10, <2>2, <2>3
<1>19. (\E n : Handles(n, d)) => Torn(d)'
  BY <1>4, <1>10, <1>11 DEF Torn
<1>20. (~\E n : Handles(n, d)) => ~Torn(d) /\ \A c, p : ~Moves(d, c, p)
  BY DEF Torn, Moves, Whole
<1>21. ASSUME NEW c, NEW p, d = "hat" => (p <=> c \notin prevHat),
              \E i \in DOMAIN calls : calls[i] = Ask(c, p)
       PROVE  Moves(d, c, p)'
  <2>1. L + 1 \in DOMAIN frames' /\ Whole(L + 1, d)' /\ frames'[L + 1].todo = calls
    BY <1>4, <1>12
  <2>2. Ask(c, p)' = Ask(c, p)
    OBVIOUS
  <2> QED BY <1>2, <1>21, <2>1, <2>2 DEF Moves
<1>22. Telling(d)'
  <2> SUFFICES ASSUME NEW c \in Wants(d), ~Pending(d)', ~Torn(d)', ~Told(d, c)'
               PROVE  Moves(d, c, TRUE)'
    BY <1>15 DEF Telling
  <2>1. ~\E n : Handles(n, d)
    BY <1>19
  <2>2. Pending(d)
    BY <1>1, <1>3, <1>8, <1>20, <2>1 DEF Telling
  <2>3. d # "mouse" \/ mouseMode = "sdl"
    BY <1>3, <2>2
  <2>4. e.to = at[d]
    BY <1>3, <2>3
  <2>5. \E i \in DOMAIN calls : calls[i] = Ask(c, TRUE)
    BY <1>1, <1>3, <2>3, <2>4, CallsPress
  <2>6. d = "hat" => c \notin prevHat
    <3> SUFFICES ASSUME d = "hat", c \in prevHat
                 PROVE  FALSE
      OBVIOUS
    <3>1. Told("hat", c)
      BY <1>1, <1>20, <2>1 DEF HatTold, Whole
    <3> QED BY <1>8, <3>1
  <2> QED BY <1>21, <2>5, <2>6
<1>23. ASSUME NEW c, c \notin Unreleased, Behind(d, c)
       PROVE  Behind(d, c)'
  <2>1. CASE \E n : Handles(n, d)
    <3>1. c \in AllCodes(d)
      BY <1>1, <1>3, <1>23, BehindCodes
    <3> QED BY <1>19, <2>1, <3>1, ConstantCodes DEF Behind
  <2>2. CASE ~\E n : Handles(n, d)
    <3>1. c \in Means(d) /\ (Pending(d) \/ Held(d, c)) /\ Remembered(d, c)
      BY <1>20, <1>23, <2>2 DEF Behind
    <3>2. (d = "stick" => inUse) /\ (d = "hat" => c \in prevHat)
      BY <2>2, <3>1 DEF Remembered, Whole
    <3>3. d # "stick" /\ d # "hat" => Remembered(d, c)'
      BY DEF Remembered
    <3>4. CASE d = "mouse" /\ mouseMode # "sdl"
      BY <1>3, <1>15, <3>1, <3>3, <3>4 DEF Behind
    <3>5. CASE (d # "mouse" \/ mouseMode = "sdl") /\ (IF d = "hat" THEN c \in e.to ELSE e.to # {})
      <4>1. L + 1 \in DOMAIN frames' /\ Whole(L + 1, d)' /\ frames'[L + 1].to = e.to
        BY <1>4, <1>12
      <4>2. Remembered(d, c)'
        <5>1. d = "stick" => Remembered(d, c)'
          BY <3>5, <4>1 DEF Remembered
        <5>2. d = "hat" => Remembered(d, c)'
          BY <3>5, <4>1 DEF Remembered
        <5> QED BY <3>3, <5>1, <5>2
      <4>3. Pending(d)' \/ Held(d, c)'
        BY <1>2, <1>3, <3>5 DEF Held
      <4> QED BY <1>15, <3>1, <4>2, <4>3 DEF Behind
    <3>6. CASE (d # "mouse" \/ mouseMode = "sdl") /\ ~(IF d = "hat" THEN c \in e.to ELSE e.to # {})
      <4>1. \E i \in DOMAIN calls : calls[i] = Ask(c, FALSE)
        <5>1. CASE d = "hat"
          <6>1. c \in UNION Hats /\ e.to \in Hats /\ (c \in e.to) = FALSE
            BY <1>3, <3>1, <3>6, <5>1, MeansIs, PositionsAre
          <6>2. calls = HatMoved(e.to)
            BY <5>1, CallsAre
          <6>3. DOMAIN HatMoved(e.to) = 1 .. 4
            BY <6>1, HatCalls
          <6>4. PICK i \in 1 .. 4 : HatMoved(e.to)[i] = Ask(c, c \in e.to)
            BY <6>1, HatCalls
          <6>5. HatMoved(e.to)[i] = Ask(c, FALSE)
            BY <6>1, <6>4
          <6> QED BY <6>2, <6>3, <6>5
        <5>2. CASE d # "hat"
          <6>1. e.to = {} /\ c \in Means(e.of) \ Unreleased
            BY <1>23, <3>1, <3>6, <5>2
          <6> QED BY <1>1, <1>3, <3>2, <3>6, <5>2, <6>1, CallsRelease
        <5> QED BY <5>1, <5>2
      <4>2. Moves(d, c, FALSE)'
        BY <1>21, <3>2, <4>1
      <4> QED BY <4>2 DEF Behind
    <3> QED BY <3>4, <3>5, <3>6
  <2> QED BY <2>1, <2>2
<1>24. d = "hat" => HatTold'
  <2> SUFFICES ASSUME d = "hat"
               PROVE  HatTold'
    OBVIOUS
  <2>1. ASSUME NEW c \in prevHat
        PROVE  Told("hat", c)' \/ Torn("hat")'
    <3>1. CASE \E n : Handles(n, d)
      BY <1>19, <3>1
    <3>2. CASE ~\E n : Handles(n, d)
      <4>1. Told("hat", c)
        BY <1>1, <1>20, <3>2 DEF HatTold, Whole
      <4> QED BY <1>8, <4>1
    <3> QED BY <3>1, <3>2
  <2>2. ASSUME NEW c \in e.to
        PROVE  c \in prevHat \/ Moves("hat", c, TRUE)'
    <3>1. c \in UNION Hats /\ e.to \in Hats /\ (c \in e.to) = TRUE
      BY <1>3, <2>2, PositionsAre
    <3>2. calls = HatMoved(e.to)
      BY CallsAre
    <3>3. DOMAIN HatMoved(e.to) = 1 .. 4
      BY <3>1, HatCalls
    <3>4. PICK i \in 1 .. 4 : HatMoved(e.to)[i] = Ask(c, c \in e.to)
      BY <3>1, HatCalls
    <3>5. HatMoved(e.to)[i] = Ask(c, TRUE)
      BY <3>1, <3>4
    <3> QED BY <1>21, <3>2, <3>3, <3>5
  <2>3. \A n : Whole(n, "hat")' => frames'[n].to = e.to
    BY <1>4, <1>12
  <2> QED BY <1>2, <2>1, <2>2, <2>3 DEF HatTold
<1>25. MouseMade'
  <2> SUFFICES ASSUME NEW n \in DOMAIN frames', Handles(n, "mouse")'
               PROVE  Len(frames'[n].todo) <= IF n = Len(frames') THEN 1 ELSE 0
    BY DEF MouseMade
  <2>1. CASE Handles(n, "mouse")
    <3>1. n # Len(frames) /\ n \in 1 .. L
      BY <1>4, <2>1 DEF Handles
    <3>2. frames[n].todo = <<>> /\ Len(<<>>) = 0
      BY <1>1, <2>1, <3>1, MouseDone
    <3>3. frames'[n].todo = frames[n].todo
      BY <1>4, <3>1
    <3> QED BY <3>2, <3>3
  <2>2. CASE ~Handles(n, "mouse")
    <3>1. n = L + 1 /\ d = "mouse"
      BY <1>9, <1>10, <2>2
    <3> QED BY <1>4, <1>16, <3>1
  <2> QED BY <2>1, <2>2
<1>26. ASSUME Grabs(e), ~UNCHANGED <<mice, attached, orphan, lost>>
       PROVE  Telling("mouse")' /\ \A c \in down' \ orphan' : ~Behind("mouse", c)
  <2>1. /\ lost' = lost \cup ({"mouse"} \X AllCodes("mouse"))
        /\ orphan' = orphan \cup (down \cap AllCodes("mouse"))
    BY <1>6, <1>26
  <2>2. "mouse" \in Devices
    BY Apart
  <2>3. \A c \in Wants("mouse")' : <<"mouse", c>> \in lost'
    BY <1>1, <2>1, <2>2, WantsCodesNext, ConstantCodes
  <2>4. \A c \in down' \ orphan' : ~Behind("mouse", c)
    BY <1>1, <1>2, <2>1, <2>2, BehindCodes
  <2> QED BY <2>3, <2>4 DEF Telling, Told
<1>27. ASSUME Grabs(e), UNCHANGED <<mice, attached, orphan, lost>>
       PROVE  Steady("mouse") /\ ToldStays("mouse")
  <2>1. d # "mouse" /\ "mouse" # "hat" /\ "mouse" # "stick"
    BY <1>3, <1>27, Apart
  <2>2. KeptFor("mouse") /\ SameModes("mouse")
    BY <1>2, <1>9, <1>27, <2>1 DEF KeptFor, SameModes
  <2>3. Pending("mouse") => Pending("mouse")'
    <3>1. mouseMode = "many"
      BY <1>27 DEF Grabs, Hears
    <3> QED BY <1>2, <1>27, <3>1 DEF Pending
  <2> QED BY <1>2, <1>8, <2>1, <2>2, <2>3 DEF Steady
<1>28. ASSUME Grabs(e)
       PROVE  /\ Fitting("mouse")' /\ Telling("mouse")'
              /\ \A c \in down' \ orphan' : Behind("mouse", c) => Behind("mouse", c)'
  <2>1. "mouse" \in Devices /\ d # "mouse"
    BY <1>3, <1>28, Apart
  <2>2. CASE UNCHANGED <<mice, attached, orphan, lost>>
    BY <1>1, <1>27, <1>28, <2>1, <2>2, SteadyFitting, SteadyTelling, SteadyBehind
  <2>3. CASE ~UNCHANGED <<mice, attached, orphan, lost>>
    <3>1. \A n : Handles(n, "mouse")' => frames'[n].todo = <<>>
      <4>1. \A n : Handles(n, "mouse") => n # Len(frames)
        BY <1>4 DEF Handles
      <4> QED BY <1>1, <1>9, <2>1, <4>1, MouseDone
    <3>2. DOMAIN <<>> = {}
      OBVIOUS
    <3>3. Fitting("mouse")'
      BY <3>1, <3>2 DEF Fitting, Fits
    <3> QED BY <1>26, <1>28, <2>3, <3>3
  <2> QED BY <2>2, <2>3
<1>29. \A x \in Devices \cap D : Fitting(x)' /\ Telling(x)'
  BY <1>18, <1>22, <1>28
<1>30. "hat" \in D => HatTold'
  BY <1>24
<1>31. ASSUME NEW c \in down' \ orphan'
       PROVE  c \in down \ orphan /\ \A x \in Devices \cap D : Behind(x, c) =>
                c \in Unreleased \/ \E q \in Devices : Behind(q, c)'
  <2>1. c \in down \ orphan
    BY <1>2, <1>7, <1>31
  <2>2. ASSUME NEW x \in Devices \cap D, Behind(x, c), c \notin Unreleased
        PROVE  Behind(x, c)'
    <3>1. CASE x = d
      BY <1>23, <2>2, <3>1
    <3>2. CASE x = "mouse" /\ Grabs(e)
      BY <1>28, <1>31, <2>2, <3>2
    <3> QED BY <2>2, <3>1, <3>2
  <2> QED BY <2>1, <2>2
<1> HIDE DEF D
<1> QED BY <1>1, <1>3, <1>13, <1>25, <1>29, <1>30, <1>31, StepKeeps

\* A call that is made leaves everything told, and everything answered for.
LEMMA TellKeeps == InputInvariant /\ Tell => InputInvariant'
<1> SUFFICES ASSUME InputInvariant, Tell
             PROVE  InputInvariant'
  OBVIOUS
<1> PICK L : L = Len(frames)
  OBVIOUS
<1> PICK f : f = frames[L]
  OBVIOUS
<1> PICK n : n = Due(f)
  OBVIOUS
<1> PICK s : s = f.todo[n]
  OBVIOUS
<1> PICK g : g = frames'[L]
  OBVIOUS
<1> PICK d : d = f.of
  OBVIOUS
<1> DEFINE D == {d}
<1>1. InputTypeOK' /\ InputTypeOK /\ Newest /\ MouseMade /\ HatTold
        /\ \A x \in Devices : Fitting(x) /\ Telling(x)
  BY TellTyped DEF InputInvariant
<1>2. UNCHANGED <<at, sdlQueue, mice, prevHat, inUse, keyMode, mouseOn, mouseMode, attached>>
  BY DEF Tell, queues, memory, modes
<1>3. /\ L \in Nat \ {0} /\ DOMAIN frames = 1 .. L /\ DOMAIN frames' = 1 .. L + 1
           /\ Len(frames') = L + 1
      /\ Last(frames) = f /\ f.kind = "event" /\ d \in Devices
      /\ n \in 1 .. Len(f.todo) /\ s \in Asks /\ f.todo \in Seq(Asks)
      /\ \A m \in 1 .. L - 1 : frames'[m] = frames[m]
      /\ g.kind = "event" /\ g.of = d /\ g.to = f.to /\ g.torn = f.torn
      /\ g.todo \in Seq(Asks) /\ Len(g.todo) = Len(f.todo) - n
      /\ \A i \in 1 .. Len(f.todo) - n : g.todo[i] = f.todo[n + i]
      /\ frames'[L + 1].kind = "script"
  BY <1>1, TellShape
<1>4. /\ down' = IF s.press THEN down \cup {s.code} ELSE down \ {s.code}
      /\ IF s.press THEN lost' = lost \ {<<d, s.code>>} /\ orphan' = orphan
         ELSE /\ orphan' = orphan \ {s.code}
              /\ lost' = lost \cup {p \in Pairs(Devices \ {d}) : p[2] = s.code}
  <2>1. Last(frames) = f
    BY <1>3
  <2>2. /\ down' = IF f.todo[Due(f)].press THEN down \cup {f.todo[Due(f)].code}
                                          ELSE down \ {f.todo[Due(f)].code}
        /\ IF f.todo[Due(f)].press
           THEN lost' = lost \ {<<f.of, f.todo[Due(f)].code>>} /\ UNCHANGED orphan
           ELSE /\ orphan' = orphan \ {f.todo[Due(f)].code}
                /\ lost' = lost \cup {p \in Pairs(Devices \ {f.of}) : p[2] = f.todo[Due(f)].code}
    BY <2>1, Zenon DEF Tell
  <2> QED BY <2>2
<1>5. s = Ask(s.code, s.press) /\ s.press \in BOOLEAN /\ Len(f.todo) \in Nat /\ n \in DOMAIN f.todo
  BY <1>3, AskOf
<1>6. \A m, x : (Handles(m, x)' <=> Handles(m, x))
        /\ (Handles(m, x) /\ m # L => frames'[m] = frames[m])
  <2> TAKE m, x
  <2>1. CASE m \in 1 .. L - 1
    BY <1>3, <2>1 DEF Handles
  <2>2. CASE m = L
    BY <1>3, <2>2 DEF Handles
  <2>3. CASE m = L + 1
    BY <1>3, <2>3 DEF Handles
  <2>4. CASE m \notin 1 .. L + 1
    <3>1. m \notin DOMAIN frames /\ m \notin DOMAIN frames'
      BY <1>3, <2>4
    <3> QED BY <3>1 DEF Handles
  <2>5. L \in Nat \ {0}
    BY <1>3
  <2> QED BY <2>1, <2>2, <2>3, <2>4, <2>5
<1>7. Handles(L, d) /\ \A x : x # d => ~Handles(L, x)
  BY <1>3 DEF Handles
<1>8. \A m : Whole(m, d)' <=> Whole(m, d)
  BY <1>3, <1>6 DEF Whole
<1>9. Torn(d)' <=> Torn(d)
  <2>1. \A m : Handles(m, d) => /\ m \in DOMAIN frames /\ m \in DOMAIN frames'
                                /\ frames'[m].torn = frames[m].torn
    BY <1>3, <1>6 DEF Handles
  <2> QED BY <1>6, <2>1 DEF Torn
<1>10. \A m : Handles(m, d) => m \in DOMAIN frames /\ m \in DOMAIN frames'
         /\ frames'[m].to = frames[m].to
  BY <1>3, <1>6 DEF Handles
<1>11. Pending(d)' <=> Pending(d)
  BY <1>2 DEF Pending
<1>12. SameModes(d)
  BY <1>2 DEF SameModes
<1>13. /\ Means(d)' = Means(d) /\ Wants(d)' = Wants(d)
       /\ \A c : Held(d, c)' <=> Held(d, c)
  BY <1>2, <1>3, <1>12, SameMeans
<1>14. ASSUME NEW c
       PROVE  Remembered(d, c)' <=> Remembered(d, c)
  <2>1. (\E m \in DOMAIN frames' : Whole(m, d)') <=> \E m \in DOMAIN frames : Whole(m, d)
    BY <1>8, <1>10 DEF Whole
  <2>2. (\E m \in DOMAIN frames' : Whole(m, d)' /\ frames'[m].to # {})
          <=> \E m \in DOMAIN frames : Whole(m, d) /\ frames[m].to # {}
    BY <1>8, <1>10 DEF Whole
  <2>3. (\E m \in DOMAIN frames' : Whole(m, d)' /\ c \in frames'[m].to)
          <=> \E m \in DOMAIN frames : Whole(m, d) /\ c \in frames[m].to
    BY <1>8, <1>10 DEF Whole
  <2>4. CASE d = "stick"
    BY <1>2, <2>1, <2>2, <2>4 DEF Remembered
  <2>5. CASE d = "hat"
    BY <1>2, <2>1, <2>3, <2>5 DEF Remembered
  <2>6. CASE d # "stick" /\ d # "hat"
    BY <2>6 DEF Remembered
  <2> QED BY <2>4, <2>5, <2>6
<1> PICK K : K = Len(f.todo)
  OBVIOUS
<1>0. /\ K \in Nat /\ n \in 1 .. K /\ DOMAIN f.todo = 1 .. K /\ DOMAIN g.todo = 1 .. K - n
      /\ \A i \in 1 .. K - n : g.todo[i] = f.todo[n + i]
  BY <1>3
<1>15. \A i \in DOMAIN g.todo : n + i \in DOMAIN f.todo /\ g.todo[i] = f.todo[n + i]
  <2> TAKE i \in DOMAIN g.todo
  <2>1. i \in 1 .. K - n
    BY <1>0
  <2>2. n + i \in 1 .. K
    BY <1>0, <2>1
  <2> QED BY <1>0, <2>1, <2>2
<1>16. \A j \in DOMAIN f.todo : j > n => j - n \in DOMAIN g.todo /\ g.todo[j - n] = f.todo[j]
  <2> SUFFICES ASSUME NEW j \in 1 .. K, j > n
               PROVE  j - n \in 1 .. K - n /\ g.todo[j - n] = f.todo[j]
    BY <1>0
  <2>1. j - n \in 1 .. K - n /\ n + (j - n) = j
    BY <1>0
  <2>2. g.todo[j - n] = f.todo[n + (j - n)]
    BY <1>0, <2>1
  <2> QED BY <2>1, <2>2
<1>17. /\ d = "hat" => s.press # (s.code \in prevHat)
       /\ \A i \in DOMAIN f.todo : i < n => d = "hat"
            /\ f.todo[i].press = (f.todo[i].code \in prevHat)
  <2>1. /\ Due(f) \in 0 .. Len(f.todo)
        /\ Due(f) # 0 /\ f.of = "hat" => f.todo[Due(f)].press # (f.todo[Due(f)].code \in prevHat)
        /\ \A i \in 1 .. Len(f.todo) : i < Due(f) \/ Due(f) = 0 =>
              f.of = "hat" /\ f.todo[i].press = (f.todo[i].code \in prevHat)
    BY <1>3, DueIs
  <2>2. n # 0
    BY <1>0
  <2>3. d = "hat" => s.press # (s.code \in prevHat)
    BY <2>1, <2>2
  <2> QED BY <1>0, <2>1, <2>3
<1>18. ASSUME NEW c, NEW p \in BOOLEAN, Moves(d, c, p)
       PROVE  Moves(d, c, p)' \/ (Whole(L, d) /\ s = Ask(c, p))
  <2>1. PICK m : /\ Whole(m, d) /\ \E i \in DOMAIN frames[m].todo : frames[m].todo[i] = Ask(c, p)
                 /\ d = "hat" => (p <=> c \notin prevHat)
    BY <1>18 DEF Moves
  <2>2. PICK i \in DOMAIN frames[m].todo : frames[m].todo[i] = Ask(c, p)
    BY <2>1
  <2>3. ASSUME NEW j \in DOMAIN frames'[m].todo, frames'[m].todo[j] = Ask(c, p)
        PROVE  Moves(d, c, p)'
    <3>1. Whole(m, d)' /\ m \in DOMAIN frames'
      BY <1>8, <1>10, <2>1 DEF Whole
    <3>2. Ask(c, p)' = Ask(c, p)
      OBVIOUS
    <3> QED BY <1>2, <2>1, <2>3, <3>1, <3>2 DEF Moves
  <2>4. CASE m # L
    <3>1. frames'[m] = frames[m]
      BY <1>6, <2>1, <2>4 DEF Whole
    <3> QED BY <2>2, <2>3, <3>1
  <2>5. CASE m = L
    <3>1. i \in DOMAIN f.todo /\ f.todo[i] = Ask(c, p)
      BY <2>2, <2>5
    <3>2. ~(i < n)
      <4> SUFFICES ASSUME i < n
                   PROVE  FALSE
        OBVIOUS
      <4>1. d = "hat" /\ Ask(c, p).press = (Ask(c, p).code \in prevHat)
        BY <1>17, <3>1
      <4>2. p = (c \in prevHat)
        BY <4>1 DEF Ask
      <4> QED BY <2>1, <4>1, <4>2
    <3>3. CASE i = n
      BY <2>1, <2>5, <3>1, <3>3
    <3>4. CASE i > n
      <4>1. i - n \in DOMAIN frames'[m].todo /\ frames'[m].todo[i - n] = Ask(c, p)
        BY <1>16, <2>5, <3>1, <3>4
      <4> QED BY <2>3, <4>1
    <3>5. i \in Int /\ n \in Int
      BY <1>3, <3>1
    <3> QED BY <3>2, <3>3, <3>4, <3>5
  <2> QED BY <2>4, <2>5
<1>19. Fits(L, d)
  BY <1>1, <1>3, <1>7 DEF Fitting
<1>20. s.press => s.code \in AllCodes(d)
  BY <1>5, <1>19 DEF Fits
<1>21. f.todo # <<>>
  <2>1. DOMAIN <<>> = {}
    OBVIOUS
  <2> QED BY <1>5, <2>1
<1>22. Whole(L, d) => (f.to = at[d] \/ Pending(d)) /\ Right(d, f.to, s)
  BY <1>5, <1>19, <1>21 DEF Fits, Whole
<1>23. ~Torn(d) => Whole(L, d)
  BY <1>3, <1>7 DEF Torn, Whole
<1>24. ASSUME NEW c, Told(d, c), s.press \/ c # s.code
       PROVE  Told(d, c)'
  BY <1>4, <1>24 DEF Told
<1>25. ASSUME NEW x \in Devices \ D
       PROVE  Steady(x) /\ ToldStays(x)
  <2>1. Pending(x) => Pending(x)'
    BY <1>2 DEF Pending
  <2>2. SameModes(x) /\ KeptFor(x)
    BY <1>2, <1>6, <1>7, <1>25 DEF SameModes, KeptFor
  <2>3. ASSUME NEW c \in AllCodes(x), Told(x, c)
        PROVE  Told(x, c)'
    <3>1. CASE s.press
      BY <1>4, <1>25, <2>3, <3>1 DEF Told
    <3>2. CASE ~s.press /\ c # s.code
      BY <1>4, <2>3, <3>2 DEF Told
    <3>3. CASE ~s.press /\ c = s.code
      <4>1. <<x, c>> \in Pairs(Devices \ {d})
        BY <1>25, <2>3 DEF Pairs
      <4> QED BY <1>4, <3>3, <4>1 DEF Told
    <3> QED BY <3>1, <3>2, <3>3
  <2> QED BY <1>2, <2>1, <2>2, <2>3 DEF Steady, ToldStays
<1>26. Fitting(d)'
  <2> SUFFICES ASSUME NEW m \in DOMAIN frames', Handles(m, d)'
               PROVE  Fits(m, d)'
    BY DEF Fitting
  <2>1. Handles(m, d) /\ Fits(m, d)
    <3>1. Handles(m, d) /\ m \in DOMAIN frames
      BY <1>6 DEF Handles
    <3> QED BY <1>1, <1>3, <3>1 DEF Fitting
  <2>2. \A k \in DOMAIN frames' : k < m => (~Whole(k, d)' \/ d = "mouse")
    BY <1>8, <2>1 DEF Fits, Whole, Handles
  <2>3. \A to, a : Right(d, to, a)' <=> Right(d, to, a)
    BY <1>13 DEF Right
  <2>4. CASE m # L
    <3>1. frames'[m] = frames[m]
      BY <1>6, <2>1, <2>4
    <3> QED BY <1>2, <1>11, <2>1, <2>2, <2>3, <3>1, ConstantCodes DEF Fits
  <2>5. CASE m = L
    <3>1. \A i \in DOMAIN g.todo : g.todo[i].press => g.todo[i].code \in AllCodes(d)
      BY <1>15, <1>19 DEF Fits
    <3>2. ~g.torn => \A i \in DOMAIN g.todo : Right(d, g.to, g.todo[i])
      BY <1>3, <1>15, <1>19 DEF Fits
    <3>3. ~g.torn => g.to = at[d] \/ Pending(d)
      BY <1>3, <1>19, <1>21 DEF Fits
    <3> QED BY <1>2, <1>11, <2>2, <2>3, <2>5, <3>1, <3>2, <3>3, ConstantCodes DEF Fits
  <2> QED BY <2>4, <2>5
<1>27. Telling(d)'
  <2> SUFFICES ASSUME NEW c \in Wants(d), ~Pending(d), ~Torn(d)
               PROVE  Told(d, c)' \/ Moves(d, c, TRUE)'
    BY <1>9, <1>11, <1>13 DEF Telling
  <2>1. Told(d, c) \/ Moves(d, c, TRUE)
    BY <1>1, <1>3 DEF Telling
  <2>2. ASSUME Moves(d, c, TRUE)
        PROVE  Told(d, c)' \/ Moves(d, c, TRUE)'
    <3>1. Moves(d, c, TRUE)' \/ s = Ask(c, TRUE)
      BY <1>18, <2>2
    <3>2. s = Ask(c, TRUE) => s.press /\ s.code = c
      BY DEF Ask
    <3> QED BY <1>4, <3>1, <3>2 DEF Told
  <2>3. s.press \/ c # s.code
    <3> SUFFICES ASSUME ~s.press, c = s.code
                 PROVE  FALSE
      OBVIOUS
    <3>1. Right(d, at[d], s)
      BY <1>22, <1>23
    <3>2. at[d] # {} /\ (d = "hat" => c \in at[d])
      BY <1>1, <1>3, WantsIn DEF Held
    <3> QED BY <3>1, <3>2 DEF Right
  <2> QED BY <1>24, <2>1, <2>2, <2>3
<1>28. ASSUME s.press
       PROVE  Behind(d, s.code)'
  <2>1. CASE Torn(d)
    BY <1>9, <1>20, <1>28, <2>1, ConstantCodes DEF Behind
  <2>2. CASE ~Torn(d)
    <3>1. Whole(L, d) /\ (f.to = at[d] \/ Pending(d)) /\ Right(d, f.to, s) /\ L \in DOMAIN frames
      BY <1>3, <1>22, <1>23, <2>2
    <3>2. s.code \in Means(d)
      <4>1. CASE d = "hat"
        BY <1>20, <1>28, <4>1, AllCodesIs, MeansIs
      <4>2. CASE d # "hat"
        BY <3>1, <4>2 DEF Right
      <4> QED BY <4>1, <4>2
    <3>3. IF d = "hat" THEN s.code \in f.to ELSE f.to # {}
      BY <1>28, <3>1 DEF Right
    <3>4. Pending(d) \/ Held(d, s.code)
      BY <3>1, <3>3 DEF Held
    <3>5. Remembered(d, s.code)
      <4>1. CASE d = "stick"
        BY <3>1, <3>3, <4>1 DEF Remembered
      <4>2. CASE d = "hat"
        BY <3>1, <3>3, <4>2 DEF Remembered
      <4>3. CASE d # "stick" /\ d # "hat"
        BY <4>3 DEF Remembered
      <4> QED BY <4>1, <4>2, <4>3
    <3>6. s.code \in Means(d)' /\ (Pending(d)' \/ Held(d, s.code)') /\ Remembered(d, s.code)'
      BY <1>11, <1>13, <1>14, <3>2, <3>4, <3>5
    <3> QED BY <3>6 DEF Behind
  <2> QED BY <2>1, <2>2
<1>29. ASSUME NEW c, c # s.code, Behind(d, c)
       PROVE  Behind(d, c)'
  <2>1. Moves(d, c, FALSE) => Moves(d, c, FALSE)'
    <3>1. s = Ask(c, FALSE) => s.code = c
      BY DEF Ask
    <3> QED BY <1>18, <1>29, <3>1
  <2>2. /\ c \in Means(d)' <=> c \in Means(d)
        /\ Pending(d)' \/ Held(d, c)' <=> Pending(d) \/ Held(d, c)
        /\ Remembered(d, c)' <=> Remembered(d, c)
    BY <1>11, <1>13, <1>14
  <2> QED BY <1>9, <1>29, <2>1, <2>2, ConstantCodes DEF Behind
<1>30. d = "hat" => HatTold'
  <2> SUFFICES ASSUME d = "hat"
               PROVE  HatTold'
    OBVIOUS
  <2>1. ASSUME NEW c \in prevHat
        PROVE  \/ Told("hat", c)' \/ Torn("hat")'
               \/ \E m \in DOMAIN frames' : Whole(m, "hat")' /\ c \notin frames'[m].to
    <3>1. CASE s.press \/ c # s.code
      <4>1. \/ Told("hat", c) \/ Torn("hat")
            \/ \E m \in DOMAIN frames : Whole(m, "hat") /\ c \notin frames[m].to
        BY <1>1, <2>1 DEF HatTold
      <4>2. \A m : Whole(m, "hat") => m \in DOMAIN frames' /\ Whole(m, "hat")'
              /\ frames'[m].to = frames[m].to
        BY <1>8, <1>10 DEF Whole
      <4> QED BY <1>9, <1>24, <3>1, <4>1, <4>2
    <3>2. CASE ~s.press /\ c = s.code /\ ~Torn(d)
      <4>1. Whole(L, "hat")' /\ Right(d, f.to, s) /\ L \in DOMAIN frames'
        BY <1>3, <1>8, <1>22, <1>23, <3>2
      <4>2. c \notin frames'[L].to
        BY <1>3, <3>2, <4>1 DEF Right
      <4> QED BY <4>1, <4>2
    <3> QED BY <1>9, <3>1, <3>2
  <2>2. ASSUME NEW m \in DOMAIN frames', Whole(m, "hat")', NEW c \in frames'[m].to
        PROVE  c \in prevHat \/ Told("hat", c)' \/ Moves("hat", c, TRUE)'
    <3>1. Whole(m, "hat") /\ m \in DOMAIN frames /\ c \in frames[m].to
      BY <1>8, <1>10, <2>2 DEF Whole
    <3>2. c \in prevHat \/ Told("hat", c) \/ Moves("hat", c, TRUE)
      BY <1>1, <3>1 DEF HatTold
    <3>3. ~s.press /\ c = s.code => c \in prevHat
      <4>1. s.press # (s.code \in prevHat) /\ s.press \in BOOLEAN
        BY <1>5, <1>17
      <4> QED BY <4>1
    <3>4. ASSUME Moves("hat", c, TRUE)
          PROVE  Told("hat", c)' \/ Moves("hat", c, TRUE)'
      <4>1. Moves("hat", c, TRUE)' \/ s = Ask(c, TRUE)
        BY <1>18, <3>4
      <4>2. s = Ask(c, TRUE) => s.press /\ s.code = c
        BY DEF Ask
      <4> QED BY <1>4, <4>1, <4>2 DEF Told
    <3> QED BY <1>24, <3>2, <3>3, <3>4
  <2> QED BY <1>2, <2>1, <2>2 DEF HatTold
<1>31. MouseMade'
  <2> SUFFICES ASSUME NEW m \in DOMAIN frames', Handles(m, "mouse")'
               PROVE  Len(frames'[m].todo) <= IF m = Len(frames') THEN 1 ELSE 0
    BY DEF MouseMade
  <2>1. Handles(m, "mouse") /\ m \in 1 .. L
    BY <1>3, <1>6 DEF Handles
  <2>2. CASE m # L
    BY <1>1, <1>3, <1>6, <2>1, <2>2 DEF MouseMade
  <2>3. CASE m = L
    <3>1. Len(f.todo) <= 1
      BY <1>1, <1>3, <2>1, <2>3 DEF MouseMade
    <3> QED BY <1>3, <1>5, <2>3, <3>1
  <2> QED BY <2>2, <2>3
<1>32. Newest'
  BY <1>1, <1>2 DEF Newest
<1>33. ASSUME NEW c \in down' \ orphan'
       PROVE  \/ \E q \in Devices : Behind(q, c)'
              \/ c \in down \ orphan /\ \A x \in Devices \cap D : Behind(x, c) =>
                   \E q \in Devices : Behind(q, c)'
  <2>1. CASE s.press /\ c = s.code
    BY <1>3, <1>28, <2>1
  <2>2. CASE c # s.code
    BY <1>4, <1>29, <1>33, <2>2
  <2>3. ~s.press => c # s.code
    BY <1>4, <1>33
  <2> QED BY <2>1, <2>2, <2>3
<1>34. /\ \A x \in Devices \cap D : Fitting(x)' /\ Telling(x)'
       /\ "hat" \in D => HatTold'
  BY <1>26, <1>27, <1>30
<1> HIDE DEF D
<1> QED BY <1>1, <1>25, <1>31, <1>32, <1>33, <1>34, StepKeeps

\* An event that is done was made of all it asked for, or it was torn and is forgiven.
LEMMA EventHandledKeeps == InputInvariant /\ Handled => InputInvariant'
<1> SUFFICES ASSUME InputInvariant, Handled
             PROVE  InputInvariant'
  OBVIOUS
<1> PICK L : L = Len(frames)
  OBVIOUS
<1> PICK f : f = frames[L]
  OBVIOUS
<1> PICK d : d = f.of
  OBVIOUS
<1> DEFINE D == {d}
<1>1. InputTypeOK' /\ InputTypeOK /\ Newest /\ MouseMade /\ HatTold
        /\ \A x \in Devices : Fitting(x) /\ Telling(x)
  BY HandledTyped DEF InputInvariant
<1>2. UNCHANGED <<at, sdlQueue, mice, down, keyMode, mouseOn, mouseMode, attached>>
  BY DEF Handled, queues, modes
<1>3. /\ L \in Nat \ {0} /\ DOMAIN frames = 1 .. L /\ DOMAIN frames' = 1 .. L - 1
           /\ Len(frames') = L - 1
      /\ \A m \in 1 .. L - 1 : frames'[m] = frames[m]
      /\ Last(frames) = f /\ f.kind = "event" /\ d \in Devices /\ f.to \in Positions(d)
      /\ f.todo \in Seq(Asks)
      /\ \A i \in 1 .. Len(f.todo) : d = "hat" /\ f.todo[i].press = (f.todo[i].code \in prevHat)
  BY <1>1, HandledShape
<1>4. /\ prevHat' = IF d = "hat" THEN f.to ELSE prevHat
      /\ inUse' = IF d = "stick" THEN f.to # {} ELSE inUse
      /\ IF f.torn THEN Forgive({d}, AllCodes(d)) ELSE UNCHANGED history
  <2>1. Last(frames) = f
    BY <1>3
  <2>2. /\ prevHat' = IF f.of = "hat" THEN f.to ELSE prevHat
        /\ inUse' = IF f.of = "stick" THEN f.to # {} ELSE inUse
        /\ IF f.torn THEN Forgive({f.of}, AllCodes(f.of)) ELSE UNCHANGED history
    BY <2>1, Zenon DEF Handled
  <2> QED BY <2>2
<1>5. IF f.torn THEN lost' = lost \cup ({d} \X AllCodes(d)) /\ orphan' = orphan \cup AllCodes(d)
                ELSE UNCHANGED <<orphan, lost>>
  BY <1>4 DEF Forgive, Pairs, history
<1>6. \A m, x : (Handles(m, x)' <=> Handles(m, x) /\ m # L)
  BY <1>3 DEF Handles
<1>7. \A m, x : Handles(m, x) /\ m # L => m \in 1 .. L - 1 /\ frames'[m] = frames[m]
  BY <1>3 DEF Handles
<1>8. Handles(L, d) /\ \A x : x # d => ~Handles(L, x)
  BY <1>3 DEF Handles
<1>9. \A m : Whole(m, d)' <=> Whole(m, d) /\ m # L
  BY <1>6, <1>7 DEF Whole
<1>10. Pending(d)' <=> Pending(d)
  BY <1>2 DEF Pending
<1>11. SameModes(d)
  BY <1>2 DEF SameModes
<1>12. /\ Means(d)' = Means(d) /\ Wants(d)' = Wants(d)
       /\ \A c : Held(d, c)' <=> Held(d, c)
  BY <1>2, <1>3, <1>11, SameMeans
<1>13. \A x : ToldStays(x) /\ \A c : Told(x, c) => Told(x, c)'
  BY <1>2, <1>5 DEF ToldStays, Told
<1>14. ASSUME NEW x \in Devices \ D
       PROVE  Steady(x) /\ ToldStays(x)
  <2>1. Pending(x) => Pending(x)'
    BY <1>2 DEF Pending
  <2>2. SameModes(x)
    BY <1>2 DEF SameModes
  <2>3. KeptFor(x)
    BY <1>6, <1>7, <1>8, <1>14 DEF KeptFor
  <2> QED BY <1>2, <1>4, <1>13, <1>14, <2>1, <2>2, <2>3 DEF Steady
<1>15. Fitting(d)'
  <2> SUFFICES ASSUME NEW m \in DOMAIN frames', Handles(m, d)'
               PROVE  Fits(m, d)'
    BY DEF Fitting
  <2>1. Handles(m, d) /\ m # L /\ frames'[m] = frames[m] /\ m \in DOMAIN frames
    BY <1>6, <1>7 DEF Handles
  <2>2. Fits(m, d)
    BY <1>1, <1>3, <2>1 DEF Fitting
  <2>3. \A k \in DOMAIN frames' : k < m => (~Whole(k, d)' \/ d = "mouse")
    BY <1>9, <2>2 DEF Fits, Whole, Handles
  <2>4. \A to, a : Right(d, to, a)' <=> Right(d, to, a)
    BY <1>12 DEF Right
  <2> QED BY <1>2, <1>10, <2>1, <2>2, <2>3, <2>4, ConstantCodes DEF Fits
<1>16. MouseMade'
  <2> SUFFICES ASSUME NEW m \in DOMAIN frames', Handles(m, "mouse")'
               PROVE  Len(frames'[m].todo) <= 0
    BY DEF MouseMade
  <2>1. Handles(m, "mouse") /\ m # Len(frames) /\ frames'[m] = frames[m]
    BY <1>6, <1>7
  <2>2. frames[m].todo = <<>> /\ Len(<<>>) = 0
    BY <1>1, <2>1, MouseDone
  <2> QED BY <2>1, <2>2
<1>17. Newest'
  BY <1>1, <1>2 DEF Newest
<1>18. CASE f.torn
  <2>1. lost' = lost \cup ({d} \X AllCodes(d)) /\ orphan' = orphan \cup AllCodes(d)
    BY <1>5, <1>18
  <2>2. \A c \in AllCodes(d) : Told(d, c)'
    BY <2>1 DEF Told
  <2>3. Telling(d)'
    <3>1. Wants(d)' \subseteq AllCodes(d)
      BY <1>1, <1>3, WantsCodesNext, ConstantCodes
    <3> QED BY <2>2, <3>1 DEF Telling
  <2>4. d = "hat" => HatTold'
    <3> SUFFICES ASSUME d = "hat"
                 PROVE  HatTold'
      OBVIOUS
    <3>1. f.to \subseteq AllCodes("hat")
      BY <1>3, AllCodesIs, PositionsAre
    <3>2. ASSUME NEW m \in DOMAIN frames', Whole(m, "hat")'
          PROVE  frames'[m].to \subseteq AllCodes("hat")
      <4>1. frames'[m].to \in Hats
        BY <1>1, <3>2, PositionsAre DEF InputTypeOK, Nested, Whole, Handles
      <4> QED BY <4>1, AllCodesIs
    <3>3. prevHat' = f.to
      BY <1>4
    <3> QED BY <2>2, <3>1, <3>2, <3>3 DEF HatTold
  <2>5. ASSUME NEW c \in down' \ orphan'
        PROVE  c \in down \ orphan /\ \A x \in Devices \cap D : ~Behind(x, c)
    <3>1. c \in down \ orphan /\ c \notin AllCodes(d)
      BY <1>2, <2>1, <2>5
    <3> QED BY <1>1, <1>3, <3>1, BehindCodes
  <2>6. /\ \A x \in Devices \cap D : Fitting(x)' /\ Telling(x)'
        /\ "hat" \in D => HatTold'
    BY <1>15, <2>3, <2>4
  <2> HIDE DEF D
  <2> QED BY <1>1, <1>14, <1>16, <1>17, <2>5, <2>6, StepKeeps
<1>19. CASE ~f.torn
  <2>1. UNCHANGED <<orphan, lost>>
    BY <1>5, <1>19
  <2>2. Whole(L, d) /\ L \in DOMAIN frames
    BY <1>3, <1>8, <1>19 DEF Whole
  <2>3. Fits(L, d)
    BY <1>1, <1>3, <1>8 DEF Fitting
  <2>4. d # "mouse" => \A m : Whole(m, d) => m = L
    <3> SUFFICES ASSUME d # "mouse", NEW m, Whole(m, d), m # L
                 PROVE  FALSE
      OBVIOUS
    <3>1. m \in 1 .. L - 1
      BY <1>7 DEF Whole
    <3>2. m \in DOMAIN frames /\ m < L
      BY <1>3, <3>1
    <3> QED BY <2>3, <3>2 DEF Fits
  <2>5. Torn(d) => Torn(d)'
    <3> SUFFICES ASSUME NEW m \in DOMAIN frames, Handles(m, d), frames[m].torn
                 PROVE  Torn(d)'
      BY DEF Torn
    <3>1. m # L
      BY <1>19
    <3>2. m \in 1 .. L - 1 /\ frames'[m] = frames[m] /\ Handles(m, d)'
      BY <1>6, <1>7, <3>1
    <3> QED BY <1>3, <3>2 DEF Torn
  <2>6. ASSUME NEW c, NEW p \in BOOLEAN, Moves(d, c, p)
        PROVE  FALSE
    <3>1. PICK m : /\ Whole(m, d) /\ \E i \in DOMAIN frames[m].todo : frames[m].todo[i] = Ask(c, p)
                   /\ d = "hat" => (p <=> c \notin prevHat)
      BY <2>6 DEF Moves
    <3>2. PICK i \in DOMAIN frames[m].todo : frames[m].todo[i] = Ask(c, p)
      BY <3>1
    <3>3. CASE m = L
      <4>1. i \in 1 .. Len(f.todo) /\ f.todo[i] = Ask(c, p)
        BY <1>3, <3>2, <3>3
      <4>2. d = "hat" /\ Ask(c, p).press = (Ask(c, p).code \in prevHat)
        BY <1>3, <4>1
      <4>3. p = (c \in prevHat)
        BY <4>2 DEF Ask
      <4> QED BY <3>1, <4>2, <4>3
    <3>4. CASE m # L
      <4>1. d = "mouse"
        BY <2>4, <3>1, <3>4
      <4>2. frames[m].todo = <<>> /\ DOMAIN <<>> = {}
        BY <1>1, <3>1, <3>4, <4>1, MouseDone DEF Whole
      <4> QED BY <3>2, <4>2
    <3> QED BY <3>3, <3>4
  <2>7. Telling(d)'
    <3> SUFFICES ASSUME NEW c \in Wants(d), ~Pending(d), ~Torn(d)
                 PROVE  Told(d, c)'
      BY <1>10, <1>12, <2>5 DEF Telling
    <3>1. Told(d, c)
      BY <1>1, <1>3, <2>6 DEF Telling
    <3> QED BY <1>13, <3>1
  <2>8. ASSUME NEW c, Remembered(d, c)
        PROVE  Remembered(d, c)'
    <3>1. CASE d = "stick"
      <4>1. f.to # {}
        BY <2>2, <2>4, <2>8, <3>1 DEF Remembered
      <4>2. inUse'
        BY <1>4, <3>1, <4>1
      <4>3. ~\E m \in DOMAIN frames' : Whole(m, d)'
        BY <1>9, <2>4, <3>1
      <4> QED BY <3>1, <4>2, <4>3 DEF Remembered
    <3>2. CASE d = "hat"
      <4>1. c \in f.to
        BY <2>2, <2>4, <2>8, <3>2 DEF Remembered
      <4>2. c \in prevHat'
        BY <1>4, <3>2, <4>1
      <4>3. ~\E m \in DOMAIN frames' : Whole(m, d)'
        BY <1>9, <2>4, <3>2
      <4> QED BY <3>2, <4>2, <4>3 DEF Remembered
    <3>3. CASE d # "stick" /\ d # "hat"
      BY <3>3 DEF Remembered
    <3> QED BY <3>1, <3>2, <3>3
  <2>9. ASSUME NEW c, Behind(d, c)
        PROVE  Behind(d, c)'
    <3>1. ~Moves(d, c, FALSE)
      BY <2>6
    <3> QED BY <1>10, <1>12, <2>5, <2>8, <2>9, <3>1, ConstantCodes DEF Behind
  <2>10. d = "hat" => HatTold'
    <3> SUFFICES ASSUME d = "hat"
                 PROVE  HatTold'
      OBVIOUS
    <3>1. ASSUME NEW c \in f.to
          PROVE  Told("hat", c)' \/ Torn("hat")'
      <4>1. c \in prevHat \/ Told("hat", c)
        BY <1>1, <2>2, <2>6, <3>1 DEF HatTold
      <4>2. ASSUME c \in prevHat
            PROVE  Told("hat", c) \/ Torn("hat")
        BY <1>1, <2>4, <3>1, <4>2 DEF HatTold
      <4> QED BY <1>13, <2>5, <4>1, <4>2
    <3>2. \A m : ~Whole(m, "hat")'
      BY <1>9, <2>4, Apart
    <3>3. prevHat' = f.to
      BY <1>4
    <3> QED BY <3>1, <3>2, <3>3 DEF HatTold
  <2>11. /\ \A x \in Devices \cap D : Fitting(x)' /\ Telling(x)'
         /\ "hat" \in D => HatTold'
         /\ \A c \in down' \ orphan' : c \in down \ orphan /\
              \A x \in Devices \cap D : Behind(x, c) => \E q \in Devices : Behind(q, c)'
    BY <1>2, <1>3, <1>15, <2>1, <2>7, <2>9, <2>10
  <2> HIDE DEF D
  <2> QED BY <1>1, <1>14, <1>16, <1>17, <2>11, StepKeeps
<1> QED BY <1>18, <1>19

\* Nothing is pressed and nothing on its way at the start.
LEMMA InputInitKeeps == InputInit => InputInvariant
<1> SUFFICES ASSUME InputInit
             PROVE  InputInvariant
  OBVIOUS
<1>1. InputTypeOK
  BY InputInitTyped
<1>2. /\ frames = <<>> /\ sdlQueue = <<>> /\ mice = <<>> /\ down = {} /\ prevHat = {} /\ ~attached
      /\ \A d \in Devices : at[d] = {}
      /\ DOMAIN frames = {} /\ DOMAIN sdlQueue = {}
  BY DEF InputInit
<1>3. Newest /\ MouseMade /\ Sticking
  BY <1>2 DEF Newest, MouseMade, Sticking
<1>4. HatTold
  BY <1>2 DEF HatTold
<1>5. \A d \in Devices : Fitting(d)
  BY <1>2 DEF Fitting
<1>6. \A d \in Devices : Telling(d)
  BY <1>1, <1>2, WantsIn DEF Telling
<1> QED BY <1>1, <1>3, <1>4, <1>5, <1>6 DEF InputInvariant

\* Every step keeps the invariant.
LEMMA InputStepKeeps == InputInvariant /\ [InputNext]_inputVars => InputInvariant'
<1> SUFFICES ASSUME InputInvariant, [InputNext]_inputVars
             PROVE  InputInvariant'
  OBVIOUS
<1>1. CASE UNCHANGED inputVars
  <2>1. UNCHANGED Rest /\ UNCHANGED frames
    BY <1>1 DEF inputVars, Rest, queues, memory, modes, history
  <2>2. InputTypeOK'
    BY <1>1, InputStepTyped DEF InputInvariant
  <2> DEFINE D == {}
  <2>3. ASSUME NEW d \in Devices
        PROVE  Steady(d) /\ ToldStays(d)
    BY <2>1 DEF Steady, KeptFor, Handles, SameModes, Pending, ToldStays, Told, Rest
  <2>4. Newest' /\ MouseMade'
    BY <2>1 DEF InputInvariant, Newest, MouseMade, Handles, Rest
  <2>5. \A c \in down' \ orphan' : c \in down \ orphan
    BY <2>1 DEF Rest
  <2>6. /\ \A d \in Devices \ D : Steady(d) /\ ToldStays(d)
        /\ "hat" \notin D /\ Devices \cap D = {}
    BY <2>3
  <2> HIDE DEF D
  <2> QED BY <2>2, <2>4, <2>5, <2>6, StepKeeps
<1>2. CASE InputNext
  BY <1>2, MoveKeeps, PlainCallsKeep, PollKeeps, PollMouseKeeps, TellKeeps, EventHandledKeeps,
     ScriptSetsKeyboardKeeps, ScriptTurnsMouseKeeps, ScriptSetsMouseKeeps DEF InputNext
<1> QED BY <1>1, <1>2

\* When nothing is on its way, the invariant says what the devices and the script agree on.
LEMMA InvariantAgrees == InputInvariant => SwitchesAgree
<1> SUFFICES ASSUME InputInvariant, Quiet
             PROVE  /\ \A c \in down \ (orphan \cup Excused) : \E d \in Devices : c \in Wants(d)
                    /\ \A d \in Devices : \A c \in Wants(d) : c \in down \/ <<d, c>> \in lost
  BY DEF SwitchesAgree, NothingSticks, HeldIsTold
<1>1. InputTypeOK /\ Sticking /\ \A d \in Devices : Telling(d)
  BY DEF InputInvariant
<1>2. DOMAIN frames = {} /\ DOMAIN sdlQueue = {} /\ (Hears("many") => mice = <<>>)
  BY DEF Quiet
<1>3. \A d : ~Torn(d) /\ \A c, p : ~Moves(d, c, p)
  BY <1>2 DEF Torn, Moves
<1>4. \A d : Pending(d) => d = "mouse" /\ Means("mouse") = {}
  BY <1>2, MeansIs DEF Pending, Hears
<1>5. ASSUME NEW d \in Devices, NEW c \in Wants(d)
      PROVE  c \in down \/ <<d, c>> \in lost
  <2>1. ~Pending(d)
    BY <1>1, <1>4, <1>5, WantsIn
  <2> QED BY <1>1, <1>3, <1>5, <2>1 DEF Telling, Told
<1>6. ASSUME NEW c \in down \ (orphan \cup Excused)
      PROVE  \E d \in Devices : c \in Wants(d)
  <2>1. c \notin Unreleased
    BY <1>6 DEF Excused
  <2>2. PICK d \in Devices : c \in Means(d) /\ (Pending(d) \/ Held(d, c))
    BY <1>1, <1>3, <1>6, <2>1 DEF Sticking, Behind
  <2>3. Held(d, c)
    BY <1>4, <2>2
  <2>4. CASE d \in Keys
    <3>1. at[d] # {}
      BY <2>3, <2>4, Apart DEF Held
    <3> DEFINE codes == IF keyMode = "full" THEN KeyCode(d) ELSE RemoveFirst(Bound(d), PAUSE)
    <3>2. codes \in Seq(Codes)
      BY <2>4, InputAssumption, KeyCodeIs, RemoveFirstIs
    <3>3. keyMode # "full" => codes = Bound(d)
      <4> SUFFICES ASSUME keyMode # "full"
                   PROVE  codes = Bound(d)
        OBVIOUS
      <4>1. c \in AllCodes(d)
        BY <1>1, <2>2, MeansIn
      <4>2. ~BoundTo(d, PAUSE)
        BY <2>1, <2>4, <4>1 DEF Unreleased
      <4>3. Bound(d) \in Seq(Codes)
        BY <2>4, InputAssumption
      <4>4. ~\E j \in 1 .. Len(Bound(d)) : Bound(d)[j] = PAUSE
        BY <4>2, <4>3 DEF BoundTo
      <4> QED BY <4>4 DEF RemoveFirst
    <3>4. c \in ToSet(codes)
      BY <2>2, <2>4, <3>3, MeansIs
    <3>5. KeyDown(d) = Press(codes)
      BY DEF KeyDown
    <3> HIDE DEF codes
    <3>6. PICK n \in DOMAIN KeyDown(d) : KeyDown(d)[n] = Ask(c, TRUE)
      BY <3>2, <3>4, <3>5, PressIs
    <3>7. Ask(c, TRUE) \in ToSet(KeyDown(d)) /\ Ask(c, TRUE).code = c
      BY <3>6 DEF ToSet, Ask
    <3>8. c \in {s.code : s \in ToSet(KeyDown(d))}
      BY <3>7
    <3> QED BY <2>4, <3>1, <3>8, WantsIs
  <2>5. CASE d = "hat"
    BY <2>3, <2>5, WantsIs DEF Held
  <2>6. CASE d = "stick"
    <3>1. at["stick"] # {}
      BY <2>3, <2>6 DEF Held
    <3> QED BY <1>6, <2>2, <2>6, <3>1, MeansIs DEF Excused
  <2>7. CASE d = "button"
    BY <2>2, <2>3, <2>7, MeansIs, WantsIs DEF Held
  <2>8. CASE d = "mouse"
    BY <2>2, <2>3, <2>8, WantsIs DEF Held
  <2> QED BY <2>4, <2>5, <2>6, <2>7, <2>8, Apart
<1> QED BY <1>5, <1>6

\* What the script believes of the switches is what the keys, joysticks and mice say when
\* nothing is on its way, however handlers of input nest (io/input.cpp, process_event).
THEOREM SwitchesRight == InputSpec => []SwitchesAgree
<1>1. InputSpec => []InputInvariant
  BY InputInitKeeps, InputStepKeeps, PTL DEF InputSpec
<1> QED BY <1>1, InvariantAgrees, PTL
=============================================================================
