-------------------------- MODULE FrameClockProofs --------------------------
(***************************************************************************)
(* The two clocks, for every timer resolution, frame rate and speed: the   *)
(* player's count does not drift, and the thread's stays in step with it,  *)
(* whatever is asked of the player.                                        *)
(***************************************************************************)
EXTENDS FrameClock, TLAPS

\* What integer division is: the only fact about it the other proofs use.
LEMMA Division ==
  ASSUME NEW a \in Nat, NEW b \in Nat \ {0}
  PROVE  /\ a \div b \in Nat
         /\ b * (a \div b) <= a
         /\ a < b * (a \div b) + b
  BY SMT

\* Frame boundaries are at least a millisecond apart when a frame lasts one: the
\* boundary pre_think computes next is never one that has passed.
LEMMA DueIncreases ==
  ASSUME NEW n \in Nat, fpks \in Rates
  PROVE  /\ Due(n) \in Nat /\ Due(n + 1) \in Nat
         /\ Due(n) < Due(n + 1)
         /\ Due(0) = 0
  BY RatesAssumption, Division DEF Due

\* Type correctness of both sides of the clock (ldp.cpp, video_out_null.c).
THEOREM TypeCorrect == Spec => []TypeOK
<1> USE RatesAssumption, SpeedsAssumption, BoundsAssumption
<1>1. Init => TypeOK
  <2> SUFFICES ASSUME Init PROVE TypeOK
    OBVIOUS
  <2>1. CountType
    BY DEF Init, CountType
  <2>2. PictureType
    BY DEF Init, PictureType
  <2>3. SpeedType
    BY DEF Init, SpeedType
  <2>4. FlagType
    BY DEF Init, FlagType
  <2> QED BY <2>1, <2>2, <2>3, <2>4 DEF TypeOK
<1>2. TypeOK /\ [Next]_vars => TypeOK'
  <2> SUFFICES ASSUME TypeOK, [Next]_vars
               PROVE  TypeOK'
    OBVIOUS
  <2> USE DEF TypeOK
  <2>1. CountType'
    <3> USE DEF CountType
    <3>1. CASE Tick
      <4>1. ms' \in 0 .. Kiloseconds - 1 /\ elapsed' \in Nat
        BY <3>1 DEF Tick
      <4>2. offset' \in Nat /\ skipped' \in Int /\ cur' \in Int
        BY <3>1 DEF Tick, NextFrame, SameFrame, SpeedType
      <4>3. mini' \in 0 .. 2
        BY <3>1 DEF Tick, CountVblank
      <4> QED BY <3>1, <4>1, <4>2, <4>3 DEF Tick
    <3>2. CASE Draw \/ SkipPicture \/ DrawStill \/ UNCHANGED vars
      BY <3>2 DEF Draw, SkipPicture, DrawStill, vars, player
    <3>3. ASSUME NEW f \in Goals, Search(f) PROVE CountType'
      BY <3>3 DEF Search
    <3>4. CASE Play
      <4>1. asked' \in 0 .. MaxAsked
        <5>1. Asks
          BY <3>4 DEF Play
        <5> QED BY <5>1 DEF Asks
      <4>2. /\ status' = "PLAYING" /\ elapsed' = 0 /\ offset' = 0 /\ skipped' = 0
            /\ UNCHANGED <<fpks, ms, mini, seeked, cur>>
        BY <3>4, Zenon DEF Play
      <4> QED BY <4>1, <4>2
    <3>8. CASE Pause
      BY <3>8 DEF Pause, Asks
    <3>5. CASE Stop
      BY <3>5 DEF Stop, Asks
    <3>6. ASSUME NEW n \in Jumps, Skip(n) PROVE CountType'
      BY <3>6 DEF Skip, Asks
    <3>7. ASSUME NEW s \in Speeds, ChangeSpeed(s) PROVE CountType'
      BY <3>7 DEF ChangeSpeed, Asks
    <3> QED BY <3>1, <3>2, <3>3, <3>4, <3>5, <3>6, <3>7, <3>8 DEF Next
  <2>2. PictureType'
    <3> USE DEF PictureType
    <3>1. CASE Tick \/ Pause \/ Stop \/ UNCHANGED vars
      BY <3>1 DEF Tick, Pause, Stop, vars, thread
    <3>2. CASE Draw
      BY <3>2 DEF Draw, Displayed, Counted, Onward
    <3>3. CASE SkipPicture \/ DrawStill
      BY <3>3 DEF SkipPicture, DrawStill, Displayed
    <3>4. ASSUME NEW f \in Goals, Search(f) PROVE PictureType'
      BY <3>4 DEF Search
    <3>5. CASE Play
      BY <3>5 DEF Play, Counted, Onward
    <3>6. ASSUME NEW n \in Jumps, Skip(n) PROVE PictureType'
      <4>1. (elapsed * fpks) \div Kiloseconds \in Nat
        BY Division DEF CountType
      <4> QED BY <3>6, <4>1 DEF Skip, Counted, CountType
    <3>7. ASSUME NEW s \in Speeds, ChangeSpeed(s) PROVE PictureType'
      BY <3>7 DEF ChangeSpeed
    <3> QED BY <3>1, <3>2, <3>3, <3>4, <3>5, <3>6, <3>7 DEF Next
  <2>3. SpeedType'
    <3> USE DEF SpeedType
    <3>1. CASE Tick
      BY <3>1 DEF Tick, NextFrame, SameFrame, thread
    <3>2. CASE Draw
      BY <3>2 DEF Draw, Onward, player
    <3>3. CASE SkipPicture \/ DrawStill \/ Pause \/ Stop \/ UNCHANGED vars
      BY <3>3 DEF SkipPicture, DrawStill, Pause, Stop, vars, player, thread
    <3>4. ASSUME NEW f \in Goals, Search(f) PROVE SpeedType'
      BY <3>4 DEF Search
    <3>5. CASE Play
      <4>1. UNCHANGED <<speed, stall, vspeed, toSkip>>
        BY <3>5 DEF Play
      <4>2. stalls' \in {stalls, 0, IF stalls = 0 THEN 0 ELSE stalls - 1}
        BY <3>5, Zenon DEF Play, Onward
      <4> QED BY <4>1, <4>2
    <3>6. ASSUME NEW n \in Jumps, Skip(n) PROVE SpeedType'
      BY <3>6 DEF Skip
    <3>7. ASSUME NEW s \in Speeds, ChangeSpeed(s) PROVE SpeedType'
      BY <3>7 DEF ChangeSpeed
    <3> QED BY <3>1, <3>2, <3>3, <3>4, <3>5, <3>6, <3>7 DEF Next
  <2>4. FlagType'
    <3> USE DEF FlagType
    <3>1. CASE Tick \/ SkipPicture \/ Stop \/ UNCHANGED vars
      BY <3>1 DEF Tick, SkipPicture, Stop, vars, player, thread
    <3>2. CASE Draw \/ DrawStill
      BY <3>2 DEF Draw, DrawStill, Onward, player
    <3>3. ASSUME NEW f \in Goals, Search(f) PROVE FlagType'
      BY <3>3 DEF Search
    <3>4. CASE Play \/ Pause
      BY <3>4 DEF Play, Pause, Onward
    <3>5. ASSUME NEW n \in Jumps, Skip(n) PROVE FlagType'
      BY <3>5 DEF Skip
    <3>6. ASSUME NEW s \in Speeds, ChangeSpeed(s) PROVE FlagType'
      BY <3>6 DEF ChangeSpeed
    <3> QED BY <3>1, <3>2, <3>3, <3>4, <3>5, <3>6 DEF Next
  <2> QED BY <2>1, <2>2, <2>3, <2>4
<1> QED BY <1>1, <1>2, PTL DEF Spec

\* The count of a disc that is not synchronous with the vblank never drifts:
\* each boundary is computed from the start of playback (ldp.cpp:787), so one
\* frame per pre_think is enough to stay on time.
THEOREM CountKeepsTime == Spec => []KeepsTime
<1>1. Init => KeepsTime
  BY DEF Init, KeepsTime
<1>2. TypeOK /\ KeepsTime /\ [Next]_vars => KeepsTime'
  <2> SUFFICES ASSUME TypeOK, KeepsTime, [Next]_vars,
                      status' = "PLAYING", ~Synchronous'
               PROVE  /\ (Due(offset) <= elapsed)'
                      /\ (elapsed < Due(offset + 1))'
    BY DEF KeepsTime
  <2>1. fpks' = fpks
    BY DEF Next, Tick, Draw, SkipPicture, DrawStill, Search, Play, Pause, Stop,
           Skip, ChangeSpeed, vars, player
  <2>2. ~Synchronous
    BY <2>1 DEF Synchronous
  <2>4. CASE Tick
    <3>1. status = "PLAYING" /\ Due(offset) <= elapsed /\ elapsed < Due(offset + 1)
      BY <2>2, <2>4 DEF Tick, KeepsTime
    <3>2. offset \in Nat /\ elapsed \in Nat /\ elapsed' \in {elapsed, elapsed + 1}
      BY <2>4 DEF TypeOK, CountType, Tick
    <3>3. Due(offset) \in Nat /\ Due(offset + 1) \in Nat
          /\ Due(offset + 1) < Due(offset + 1 + 1)
      BY <3>2, DueIncreases DEF TypeOK, CountType
    <3>4. CASE elapsed' >= Due(offset + 1)
      <4>1. offset' = offset + 1
        BY <2>2, <2>4, <3>1, <3>4 DEF Tick, FrameOver, NextFrame
      <4> QED BY <2>1, <3>1, <3>2, <3>3, <3>4, <4>1 DEF Due
    <3>5. CASE ~(elapsed' >= Due(offset + 1))
      <4>1. offset' = offset
        BY <2>2, <2>4, <3>5 DEF Tick, FrameOver, SameFrame
      <4> QED BY <2>1, <3>1, <3>2, <3>3, <3>5, <4>1 DEF Due
    <3> QED BY <3>4, <3>5
  <2>5. CASE Play
    <3>1. elapsed' = 0 /\ offset' = 0
      BY <2>5 DEF Play
    <3>2. Due(0) = 0 /\ Due(0) < Due(0 + 1)
      BY DueIncreases DEF TypeOK, CountType
    <3> QED BY <2>1, <3>1, <3>2 DEF Due
  <2>6. ASSUME UNCHANGED <<status, elapsed, offset>>
        PROVE  /\ (Due(offset) <= elapsed)'
               /\ (elapsed < Due(offset + 1))'
    BY <2>1, <2>2, <2>6 DEF KeepsTime, Due
  <2>7. CASE Draw \/ SkipPicture \/ DrawStill
    BY <2>6, <2>7 DEF Draw, SkipPicture, DrawStill, player
  <2>8. CASE (\E f \in Goals : Search(f)) \/ Pause \/ Stop
    BY <2>8 DEF Search, Pause, Stop
  <2>9. CASE (\E n \in Jumps : Skip(n)) \/ \E s \in Speeds : ChangeSpeed(s)
    BY <2>6, <2>9 DEF Skip, ChangeSpeed
  <2>10. CASE UNCHANGED vars
    BY <2>6, <2>10 DEF vars, player
  <2> QED BY <2>4, <2>5, <2>7, <2>8, <2>9, <2>10 DEF Next
<1> QED BY <1>1, <1>2, TypeCorrect, PTL DEF Spec

-----------------------------------------------------------------------------
(* Arithmetic: what the two counts need of products and quotients          *)

\* The quotient is the only number with that property.
LEMMA Quotient ==
  ASSUME NEW a \in Nat, NEW b \in Nat \ {0}, NEW q \in Nat, b * q <= a, a < b * q + b
  PROVE  a \div b = q
  BY SMT

\* Products by a natural number keep the order ...
LEMMA Product ==
  ASSUME NEW m \in Nat, NEW x \in Int, NEW y \in Int, x <= y
  PROVE  m * x <= m * y
  BY SMT

\* ... and distribute.
LEMMA OneMore ==
  ASSUME NEW m \in Nat, NEW k \in Int
  PROVE  m * k \in Int /\ m * (k + 1) = m * k + m /\ m * (k - 1) = m * k - m
  BY SMT

\* Whole periods come out of a quotient.
LEMMA Shift ==
  ASSUME NEW a \in Nat, NEW b \in Nat \ {0}, NEW k \in Nat
  PROVE  (a + b * k) \div b = a \div b + k
<1> DEFINE q == a \div b
<1>1. q \in Nat /\ b * q <= a /\ a < b * q + b
  BY Division
<1> HIDE DEF q
<1>2. /\ b * (q + k) <= a + b * k /\ a + b * k < b * (q + k) + b
      /\ a + b * k \in Nat /\ q + k \in Nat
  BY <1>1
<1>3. (a + b * k) \div b = q + k
  BY <1>2, Quotient
<1> QED BY <1>3 DEF q

\* The millisecond of vblank n.
Vblank(n) == (n * Kiloseconds) \div Vpks

\* Vblanks are as regular as whole milliseconds allow: the millisecond of a sum is
\* that of its parts, or one more.
LEMMA VblankSum ==
  ASSUME NEW m \in Nat, NEW n \in Nat
  PROVE  /\ Vblank(n) \in Nat /\ Vblank(n) >= n /\ Vblank(0) = 0
         /\ Vblank(m) + Vblank(n) <= Vblank(m + n)
         /\ Vblank(m + n) <= Vblank(m) + Vblank(n) + 1
<1> DEFINE K == Kiloseconds
           B == Vpks
           p == (m * K) \div B
           q == (n * K) \div B
           r == ((m + n) * K) \div B
<1>1. K \in Nat /\ B \in Nat \ {0} /\ B <= K
  BY RatesAssumption
<1>2. m * K \in Nat /\ n * K \in Nat /\ (m + n) * K = m * K + n * K /\ n * B <= n * K
  BY <1>1, Product
<1>3. /\ p \in Nat /\ B * p <= m * K /\ m * K < B * p + B
      /\ q \in Nat /\ B * q <= n * K /\ n * K < B * q + B
      /\ r \in Nat /\ B * r <= m * K + n * K /\ m * K + n * K < B * r + B
  BY <1>1, <1>2, Division
<1> HIDE DEF p, q, r
<1>4. q >= n
  <2> SUFFICES ASSUME q <= n - 1 PROVE FALSE
    BY <1>3
  <2>1. B * (q + 1) <= B * n
    BY <1>1, <1>3, Product
  <2> QED BY <1>1, <1>2, <1>3, <2>1
<1>5. p + q <= r
  <2> SUFFICES ASSUME r + 1 <= p + q PROVE FALSE
    BY <1>3
  <2>1. B * (r + 1) <= B * (p + q)
    BY <1>1, <1>3, Product
  <2> QED BY <1>1, <1>2, <1>3, <2>1
<1>6. r <= p + q + 1
  <2> SUFFICES ASSUME p + q + 2 <= r PROVE FALSE
    BY <1>3
  <2>1. B * (p + q + 2) <= B * r
    BY <1>1, <1>3, Product
  <2> QED BY <1>1, <1>2, <1>3, <2>1
<1>7. (0 * K) \div B = 0
  BY <1>1
<1> QED BY <1>3, <1>4, <1>5, <1>6, <1>7 DEF p, q, r, Vblank

\* No two vblanks share a millisecond.
LEMMA VblankGrows ==
  ASSUME NEW m \in Nat, NEW n \in Nat, m < n
  PROVE  Vblank(m) + (n - m) <= Vblank(n)
<1>1. n - m \in Nat /\ m + (n - m) = n
  OBVIOUS
<1> QED BY <1>1, VblankSum

\* The vblanks of every thousand seconds come at the same milliseconds.
LEMMA VblankPeriod ==
  ASSUME NEW n \in Nat, NEW w \in Nat
  PROVE  Vblank(n + w * Vpks) = Vblank(n) + w * Kiloseconds
<1> DEFINE K == Kiloseconds
<1>1. K \in Nat /\ Vpks \in Nat \ {0}
  BY RatesAssumption
<1>2. (n + w * Vpks) * K = n * K + Vpks * (w * K) /\ n * K \in Nat /\ w * K \in Nat
  BY <1>1
<1>3. (n * K + Vpks * (w * K)) \div Vpks = (n * K) \div Vpks + w * K
  BY <1>1, <1>2, Shift
<1>4. ((n + w * Vpks) * K) \div Vpks = (n * K) \div Vpks + w * K
  BY <1>2, <1>3
<1> QED BY <1>4 DEF Vblank

\* Frame k of a disc whose frames are pairs of vblanks is due with vblank 2 * k.
LEMMA DueOfPairs ==
  ASSUME fpks \in Rates, Synchronous, NEW k \in Nat
  PROVE  Due(k) = Vblank(2 * k)
<1> DEFINE K == Kiloseconds
           q == (k * K) \div fpks
<1>1. K \in Nat /\ fpks \in Nat \ {0} /\ Vpks = 2 * fpks
  BY RatesAssumption DEF Synchronous
<1>2. q \in Nat /\ fpks * q <= k * K /\ k * K < fpks * q + fpks /\ k * K \in Nat
  BY <1>1, Division
<1> HIDE DEF q
<1>3. (2 * k) * K \in Nat /\ Vpks * q <= (2 * k) * K /\ (2 * k) * K < Vpks * q + Vpks
  BY <1>1, <1>2
<1>4. ((2 * k) * K) \div Vpks = q
  BY <1>1, <1>2, <1>3, Quotient
<1> QED BY <1>4 DEF Due, Vblank, q

\* The vblank that follows vblank n comes when its millisecond does, in every
\* thousand seconds.
LEMMA NextVblank ==
  ASSUME NEW n \in Nat, NEW w \in Nat, NEW m \in 0 .. Kiloseconds - 1,
         Vblank(n) <= m + w * Kiloseconds, m + w * Kiloseconds < Vblank(n + 1)
  PROVE  VblankAt(m + 1) <=> m + 1 + w * Kiloseconds = Vblank(n + 1)
<1> DEFINE K == Kiloseconds
<1>1. K \in Nat /\ Vpks \in Nat \ {0} /\ w * K \in Nat /\ w * Vpks \in Nat
  BY RatesAssumption
<1>2. VblankAt(m + 1) <=> \E i \in 1 .. Vpks : m + 1 = Vblank(i)
  BY DEF VblankAt, Vblank
<1>3. Vblank(n) \in Nat /\ Vblank(n + 1) \in Nat
  BY VblankSum
<1>4. ASSUME NEW i \in 1 .. Vpks, m + 1 = Vblank(i)
      PROVE  m + 1 + w * K = Vblank(n + 1)
  <2> DEFINE j == i + w * Vpks
  <2>1. j \in Nat /\ Vblank(j) = m + 1 + w * K
    BY <1>1, <1>4, VblankPeriod
  <2> HIDE DEF j
  <2>2. CASE j < n
    <3>1. Vblank(j) + (n - j) <= Vblank(n)
      BY <2>1, <2>2, VblankGrows
    <3> QED BY <1>1, <1>3, <2>1, <2>2, <3>1
  <2>3. CASE n + 1 < j
    <3>1. Vblank(n + 1) + (j - (n + 1)) <= Vblank(j)
      BY <2>1, <2>3, VblankGrows
    <3> QED BY <1>1, <1>3, <2>1, <2>3, <3>1
  <2>4. CASE j = n
    BY <1>1, <1>3, <2>1, <2>4
  <2>5. CASE j = n + 1
    BY <2>1, <2>5
  <2> QED BY <2>1, <2>2, <2>3, <2>4, <2>5
<1>5. ASSUME m + 1 + w * K = Vblank(n + 1)
      PROVE  \E i \in 1 .. Vpks : m + 1 = Vblank(i)
  <2> DEFINE i == n + 1 - w * Vpks
  <2>1. Vblank(w * Vpks) = w * K
    <3>1. Vblank(0 + w * Vpks) = Vblank(0) + w * K /\ Vblank(0) = 0
      BY VblankPeriod, VblankSum
    <3> QED BY <1>1, <3>1
  <2>2. Vblank(Vpks) = K
    <3>1. Vblank(0 + 1 * Vpks) = Vblank(0) + 1 * K /\ Vblank(0) = 0
      BY VblankPeriod, VblankSum
    <3> QED BY <1>1, <3>1
  <2>3. ~(n + 1 < w * Vpks) /\ n + 1 # w * Vpks
    BY <1>1, <1>3, <1>5, <2>1, VblankGrows
  <2>4. i \in Nat /\ i >= 1 /\ n + 1 = i + w * Vpks
    BY <1>1, <2>3
  <2>5. Vblank(i) = m + 1
    <3> HIDE DEF i
    <3>1. Vblank(n + 1) = Vblank(i) + w * K /\ Vblank(i) \in Nat
      BY <2>4, VblankPeriod, VblankSum
    <3> QED BY <1>1, <1>5, <3>1
  <2>6. ~(Vpks < i)
    BY <1>1, <2>2, <2>4, <2>5, VblankGrows
  <2> QED BY <1>1, <2>4, <2>5, <2>6
<1> QED BY <1>2, <1>4, <1>5

\* A frame that is due earlier has a lower number.
LEMMA DueOrder ==
  ASSUME fpks \in Rates, NEW m \in Nat, NEW n \in Nat, Due(m) < Due(n)
  PROVE  m < n
<1> DEFINE K == Kiloseconds
           p == (m * K) \div fpks
           q == (n * K) \div fpks
<1>1. K \in Nat /\ fpks \in Nat \ {0} /\ m * K \in Nat /\ n * K \in Nat
  BY RatesAssumption
<1>2. /\ p \in Nat /\ fpks * p <= m * K
      /\ q \in Nat /\ n * K < fpks * q + fpks /\ fpks * q <= n * K /\ m * K < fpks * p + fpks
  BY <1>1, Division
<1>3. p < q
  BY DEF Due
<1> HIDE DEF p, q
<1> SUFFICES ASSUME n <= m PROVE FALSE
  OBVIOUS
<1>4. K * n <= K * m
  BY <1>1, Product
<1>5. fpks * (p + 1) <= fpks * q
  BY <1>1, <1>2, <1>3, Product
<1> QED BY <1>1, <1>2, <1>4, <1>5

-----------------------------------------------------------------------------
(* The two counts                                                          *)

\* The phase of a disc counted by vblanks: nothing has passed before the vblank it
\* waits for (n, in the thousand seconds w ago), and since then it has counted
\* every vblank, two to a frame.
Phase ==
  tame /\ status = "PLAYING" /\ Synchronous =>
    /\ mini <= 1
    /\ IF waiting THEN elapsed = 0 /\ offset = 0
       ELSE \E n \in Nat, w \in Nat :
              LET now == ms + w * Kiloseconds
              IN /\ Vblank(n) + elapsed = now + 1
                 /\ Vblank(n + 2 * offset + mini) <= now
                 /\ now < Vblank(n + 2 * offset + mini + 1)

\* How far such a count is from the millisecond timer: no frame is counted before
\* it is due, and less than two are missing.
LEMMA FramesOfVblanks ==
  ASSUME TypeOK, Phase, tame, status = "PLAYING", Synchronous
  PROVE  /\ offset = 0 \/ Due(offset) < elapsed
         /\ elapsed < Due(offset + 2)
<1>1. offset \in Nat /\ elapsed \in Nat /\ ms \in Nat /\ mini \in 0 .. 1 /\ fpks \in Rates
  BY DEF TypeOK, CountType, Phase
<1>2. Due(offset) = Vblank(2 * offset) /\ Due(offset + 2) = Vblank(2 * offset + 4)
  <2>1. offset + 2 \in Nat /\ 2 * (offset + 2) = 2 * offset + 4
    BY <1>1
  <2> QED BY <1>1, <2>1, DueOfPairs
<1>3. CASE waiting
  <2>1. elapsed = 0 /\ offset = 0
    BY <1>3 DEF Phase
  <2>2. 2 * offset + 4 \in Nat
    BY <1>1
  <2>3. Vblank(2 * offset + 4) \in Nat /\ Vblank(2 * offset + 4) >= 2 * offset + 4
    BY <2>2, VblankSum
  <2>4. elapsed < Vblank(2 * offset + 4)
    BY <1>1, <2>1, <2>3
  <2> QED BY <1>2, <2>1, <2>4
<1>4. CASE ~waiting
  <2>1. PICK n \in Nat, w \in Nat :
          LET now == ms + w * Kiloseconds
          IN /\ Vblank(n) + elapsed = now + 1
             /\ Vblank(n + 2 * offset + mini) <= now
             /\ now < Vblank(n + 2 * offset + mini + 1)
    BY <1>4 DEF Phase
  <2> DEFINE a == 2 * offset + mini
             now == ms + w * Kiloseconds
  <2>2. /\ now \in Nat /\ a \in Nat /\ a + 1 \in Nat /\ n + a \in Nat /\ n + (a + 1) \in Nat
        /\ 2 * offset \in Nat /\ 2 * offset + 4 \in Nat
    BY <1>1, RatesAssumption
  <2>3. /\ Vblank(n) + elapsed = now + 1
        /\ Vblank(n + a) <= now /\ now < Vblank(n + (a + 1))
    <3>1. n + 2 * offset + mini = n + a /\ n + 2 * offset + mini + 1 = n + (a + 1)
      BY <1>1
    <3> QED BY <2>1, <3>1
  <2>4. Vblank(2 * offset) <= Vblank(a)
    <3>1. CASE mini = 0
      <4>1. a = 2 * offset
        BY <1>1, <3>1
      <4>2. Vblank(a) \in Nat
        BY <2>2, VblankSum
      <4> HIDE DEF a
      <4> QED BY <4>1, <4>2
    <3>2. CASE mini = 1
      <4>1. 2 * offset < a
        BY <1>1, <3>2
      <4> HIDE DEF a
      <4>2. Vblank(2 * offset) + (a - 2 * offset) <= Vblank(a)
        BY <2>2, <4>1, VblankGrows
      <4>3. Vblank(2 * offset) \in Nat /\ Vblank(a) \in Nat
        BY <2>2, VblankSum
      <4> QED BY <2>2, <4>1, <4>2, <4>3
    <3> QED BY <1>1, <3>1, <3>2
  <2>5. Vblank(a + 1) + 2 <= Vblank(2 * offset + 4)
    <3>1. a + 1 < 2 * offset + 4 /\ 2 <= (2 * offset + 4) - (a + 1)
      BY <1>1
    <3>2. Vblank(a + 1) + ((2 * offset + 4) - (a + 1)) <= Vblank(2 * offset + 4)
      BY <2>2, <3>1, VblankGrows
    <3>3. Vblank(a + 1) \in Nat /\ Vblank(2 * offset + 4) \in Nat
      BY <2>2, VblankSum
    <3> QED BY <1>1, <3>1, <3>2, <3>3
  <2> HIDE DEF a, now
  <2>6. /\ Vblank(n) + Vblank(a) <= Vblank(n + a)
        /\ Vblank(n + (a + 1)) <= Vblank(n) + Vblank(a + 1) + 1
    BY <2>2, VblankSum
  <2>7. /\ Vblank(n) \in Nat /\ Vblank(a) \in Nat /\ Vblank(a + 1) \in Nat
        /\ Vblank(n + a) \in Nat /\ Vblank(n + (a + 1)) \in Nat
        /\ Vblank(2 * offset) \in Nat /\ Vblank(2 * offset + 4) \in Nat
    BY <2>2, VblankSum
  <2> QED BY <1>1, <1>2, <2>2, <2>3, <2>4, <2>5, <2>6, <2>7
<1> QED BY <1>3, <1>4, <1>1

\* A picture is shown Repeats times and stands for Stride frames, and one of the
\* two is 1.
Repeats == speed.stall + 1
Stride  == speed.skip + 1

\* The frame the count will be on when the skip it owes is made, and the frame the
\* thread is on before the skip it owes; how many pictures the thread lacks.
Made == seeked + skipped + offset
Seen == IF pending # 0 THEN pending - 1 ELSE current
Lag  == offset + 1 - shown

\* What parts the two counts: the frames between them in times shown, with what
\* each has still to stall, less the pictures the thread lacks and the ones it is
\* leaving out.  No step but a command changes it.
Parted == Repeats * (Made - Seen) - stall + stalls - Stride * Lag - toSkip

\* ... and what it may be.
Room == IF Synchronous THEN -speed.stall .. 2 * Repeats ELSE 0 .. Repeats

\* At any time: a speed skips or stalls, and both sides have the same.
OneSpeed ==
  /\ speed.skip = 0 \/ speed.stall = 0
  /\ tame => /\ status # "STOPPED" /\ speed = vspeed
             /\ stall <= speed.stall /\ stalls <= speed.stall

\* While the disc is paused, after commands that do not part the counts.
Still ==
  tame /\ status = "PAUSED" =>
    /\ paused /\ pending = 0 /\ toSkip = 0 /\ seeked = cur
    /\ Repeats * (cur - current) - stall + stalls \in Room

\* While it plays: a skip is only owed at 1X, and the thread is never ahead of the
\* count, or one picture ahead of a count by vblanks.
Rolling ==
  tame /\ status = "PLAYING" =>
    /\ ~paused /\ fresh /\ toSkip <= speed.skip
    /\ pending # 0 => /\ speed = [skip |-> 0, stall |-> 0]
                      /\ stalls = 0 /\ toSkip = 0
    /\ Lag >= IF Synchronous THEN -1 ELSE 0
    /\ Parted \in Room

\* The inductive invariant.
Balanced == OneSpeed /\ Still /\ Rolling /\ Phase

\* A thread on time lacks no picture; it may be one ahead of a count by vblanks.
LEMMA LagOnTime ==
  ASSUME TypeOK, KeepsTime, Balanced, tame, status = "PLAYING", OnTime
  PROVE  Lag = 0 \/ (Synchronous /\ Lag = -1)
<1>1. /\ offset \in Nat /\ elapsed \in Nat /\ shown \in Nat /\ fpks \in Rates
      /\ Lag \in Int /\ Lag >= IF Synchronous THEN -1 ELSE 0
  BY DEF TypeOK, CountType, PictureType, Balanced, Rolling, Lag
<1>2. elapsed < Due(shown)
  BY DEF OnTime, Balanced, Rolling
<1>3. Due(shown) \in Nat /\ Due(offset) \in Nat /\ Due(0) = 0
  BY <1>1, DueIncreases
<1>4. offset < shown
  <2>1. CASE ~Synchronous
    <3>1. Due(offset) < Due(shown)
      BY <1>1, <1>2, <1>3, <2>1 DEF KeepsTime
    <3> QED BY <1>1, <3>1, DueOrder
  <2>2. CASE Synchronous /\ offset = 0
    <3>1. Due(0) < Due(shown)
      BY <1>1, <1>2, <1>3
    <3> QED BY <1>1, <2>2, <3>1, DueOrder
  <2>3. CASE Synchronous /\ offset # 0
    <3>1. Due(offset) < Due(shown)
      BY <1>1, <1>2, <1>3, <2>3, FramesOfVblanks DEF Balanced
    <3> QED BY <1>1, <3>1, DueOrder
  <2> QED BY <2>1, <2>2, <2>3
<1> QED BY <1>1, <1>4 DEF Lag

\* A thread that has a picture due is not ahead of the count already.
LEMMA LagWhenLate ==
  ASSUME TypeOK, KeepsTime, Balanced, tame, status = "PLAYING", ~OnTime
  PROVE  Lag >= IF Synchronous THEN 0 ELSE 1
<1>1. /\ offset \in Nat /\ elapsed \in Nat /\ shown \in Nat /\ fpks \in Rates
      /\ offset + 1 \in Nat /\ offset + 2 \in Nat
  BY DEF TypeOK, CountType, PictureType
<1>2. Due(shown) <= elapsed
  <2>1. Due(shown) \in Nat
    BY <1>1, DueIncreases
  <2> QED BY <1>1, <2>1 DEF OnTime
<1>3. Due(shown) \in Nat /\ Due(offset + 1) \in Nat /\ Due(offset + 2) \in Nat
  BY <1>1, DueIncreases
<1>4. CASE ~Synchronous
  <2>1. Due(shown) < Due(offset + 1)
    BY <1>1, <1>2, <1>3, <1>4 DEF KeepsTime
  <2>2. shown < offset + 1
    BY <1>1, <2>1, DueOrder
  <2> QED BY <1>1, <1>4, <2>2 DEF Lag
<1>5. CASE Synchronous
  <2>1. Due(shown) < Due(offset + 2)
    BY <1>1, <1>2, <1>3, <1>5, FramesOfVblanks DEF Balanced
  <2>2. shown < offset + 2
    BY <1>1, <2>1, DueOrder
  <2> QED BY <1>1, <1>5, <2>2 DEF Lag
<1> QED BY <1>4, <1>5

\* The pictures a skip says have been shown are the frames counted, or one more or
\* less as the disc is counted.
LEMMA ShownAfterSkip ==
  ASSUME TypeOK, KeepsTime, Phase, tame, status = "PLAYING"
  PROVE  /\ (elapsed * fpks) \div Kiloseconds \in Nat
         /\ offset - (elapsed * fpks) \div Kiloseconds
              \in IF Synchronous THEN -1 .. 0 ELSE 0 .. 1
<1> DEFINE K == Kiloseconds
           q == (elapsed * fpks) \div K
           d == Due(offset)
<1>1. /\ offset \in Nat /\ elapsed \in Nat /\ fpks \in Rates
      /\ K \in Nat \ {0} /\ fpks \in 1 .. K
  BY RatesAssumption DEF TypeOK, CountType
<1>2. elapsed * fpks \in Nat /\ offset * K \in Nat
  BY <1>1
<1>3. q \in Nat /\ K * q <= elapsed * fpks /\ elapsed * fpks < K * q + K
  BY <1>1, <1>2, Division
<1>4. \A n \in Nat : /\ Due(n) \in Nat
                     /\ fpks * Due(n) <= n * K /\ n * K < fpks * Due(n) + fpks
  <2> TAKE n \in Nat
  <2>1. n * K \in Nat
    BY <1>1
  <2> QED BY <1>1, <2>1, Division DEF Due
<1> HIDE DEF q
<1>5. ASSUME NEW n \in Nat, elapsed < Due(n) PROVE q < n
  <2> DEFINE e == Due(n)
  <2>1. e \in Nat /\ fpks * e <= n * K /\ elapsed < e
    BY <1>4, <1>5
  <2> HIDE DEF e
  <2>2. fpks * (elapsed + 1) <= fpks * e
    BY <1>1, <2>1, Product
  <2>3. elapsed * fpks < n * K
    BY <1>1, <2>1, <2>2
  <2> SUFFICES ASSUME n <= q PROVE FALSE
    BY <1>3
  <2>4. K * n <= K * q
    BY <1>1, <1>3, Product
  <2> QED BY <1>1, <1>2, <1>3, <2>3, <2>4
<1>6. d \in Nat /\ fpks * d <= offset * K /\ offset * K < fpks * d + fpks
  BY <1>1, <1>4
<1> HIDE DEF d
<1>7. CASE ~Synchronous
  <2>1. d <= elapsed /\ elapsed < Due(offset + 1)
    BY <1>7 DEF KeepsTime, d
  <2>2. q < offset + 1
    BY <1>1, <2>1, <1>5
  <2>3. fpks * d <= fpks * elapsed
    BY <1>1, <1>6, <2>1, Product
  <2>4. offset <= q + 1
    <3> SUFFICES ASSUME q + 2 <= offset PROVE FALSE
      BY <1>1, <1>3
    <3>1. K * (q + 2) <= K * offset
      BY <1>1, <1>3, Product
    <3> QED BY <1>1, <1>2, <1>3, <1>6, <2>3, <3>1
  <2> QED BY <1>1, <1>3, <1>7, <2>2, <2>4 DEF q
<1>8. CASE Synchronous
  <2>1. elapsed < Due(offset + 2) /\ (offset = 0 \/ d < elapsed)
    BY <1>8, FramesOfVblanks DEF d
  <2>2. q < offset + 2
    BY <1>1, <2>1, <1>5
  <2>3. offset <= q
    <3>1. CASE offset = 0
      BY <1>3, <3>1
    <3>2. CASE d < elapsed
      <4>1. fpks * (d + 1) <= fpks * elapsed
        BY <1>1, <1>6, <3>2, Product
      <4> SUFFICES ASSUME q + 1 <= offset PROVE FALSE
        BY <1>1, <1>3
      <4>2. K * (q + 1) <= K * offset
        BY <1>1, <1>3, Product
      <4> QED BY <1>1, <1>2, <1>3, <1>6, <4>1, <4>2
    <3> QED BY <2>1, <3>1, <3>2
  <2> QED BY <1>1, <1>3, <1>8, <2>2, <2>3 DEF q
<1> QED BY <1>7, <1>8

\* What the counts may differ by follows.
LEMMA PartedFrames ==
  ASSUME TypeOK, KeepsTime, Balanced
  PROVE  InStep
<1> SUFFICES ASSUME tame, status = "PLAYING", OnTime, toSkip = 0, ~Owed, pending = 0
             PROVE  cur - current
                      \in IF Synchronous THEN -1 - speed.skip .. 2 ELSE 0 .. 1
  BY DEF InStep
<1> DEFINE d == cur - current
           R == Repeats
           S == Stride
<1>1. /\ R \in Nat \ {0} /\ S \in Nat \ {0} /\ speed.stall = R - 1 /\ speed.skip = S - 1
      /\ stall \in 0 .. R - 1 /\ stalls \in 0 .. R - 1 /\ (R = 1 \/ S = 1) /\ d \in Int
  BY DEF TypeOK, CountType, PictureType, SpeedType, Balanced, OneSpeed, Repeats, Stride
<1>2. R * d - stall + stalls - S * Lag \in Room
  <2>1. Made - Seen = d
    BY DEF Owed, Made, Seen
  <2>2. Parted \in Room
    BY DEF Balanced, Rolling
  <2>3. R * d \in Int /\ S * Lag \in Int
    BY <1>1 DEF TypeOK, CountType, PictureType, Lag
  <2>4. Parted = R * d - stall + stalls - S * Lag
    BY <1>1, <2>1, <2>3 DEF Parted
  <2> QED BY <2>2, <2>4
<1>3. Lag = 0 \/ (Synchronous /\ Lag = -1)
  BY LagOnTime
<1>4. Room = IF Synchronous THEN -(R - 1) .. 2 * R ELSE 0 .. R
  BY <1>1 DEF Room
<1> HIDE DEF d, R, S
<1>5. \A k \in Int : (k <= d => R * k <= R * d) /\ (d <= k => R * d <= R * k)
  BY <1>1, Product
<1>6. CASE ~Synchronous
  <2>1. R * d <= R + stall - stalls /\ stall - stalls <= R * d
    BY <1>1, <1>2, <1>3, <1>4, <1>6
  <2>2. ~(2 <= d)
    BY <1>1, <1>5, <2>1
  <2>3. ~(d <= -1)
    BY <1>1, <1>5, <2>1
  <2> QED BY <1>1, <1>6, <2>2, <2>3 DEF d
<1>7. CASE Synchronous /\ Lag = 0
  <2>1. R * d <= 2 * R + stall - stalls /\ stall - stalls - (R - 1) <= R * d
    BY <1>1, <1>2, <1>4, <1>7
  <2>2. ~(3 <= d)
    BY <1>1, <1>5, <2>1
  <2>3. ~(d <= -2)
    BY <1>1, <1>5, <2>1
  <2> QED BY <1>1, <1>7, <2>2, <2>3 DEF d
<1>8. CASE Synchronous /\ Lag = -1
  <2>1. R * d <= 2 * R + stall - stalls - S /\ stall - stalls - (R - 1) - S <= R * d
    BY <1>1, <1>2, <1>4, <1>8
  <2>2. ~(3 <= d)
    BY <1>1, <1>5, <2>1
  <2>3. -S <= d
    <3>1. CASE R = 1
      BY <1>1, <2>1, <3>1
    <3>2. CASE S = 1
      <4>1. ~(d <= -2)
        BY <1>1, <1>5, <2>1, <3>2
      <4> QED BY <1>1, <3>2, <4>1
    <3> QED BY <1>1, <3>1, <3>2
  <2> QED BY <1>1, <1>8, <2>2, <2>3 DEF d
<1> QED BY <1>3, <1>6, <1>7, <1>8

-----------------------------------------------------------------------------
(* No step but a command changes what parts them                           *)

\* A millisecond keeps the phase: the vblank after the last one counted comes when
\* now reaches it, and is counted.
LEMMA TickPhase ==
  ASSUME TypeOK, Phase, Tick
  PROVE  Phase'
<1> DEFINE K == Kiloseconds
<1>1. fpks' = fpks /\ status' = status /\ tame' = tame
  BY DEF Tick
<1> SUFFICES ASSUME tame, status = "PLAYING", Synchronous PROVE Phase'
  BY <1>1 DEF Phase, Synchronous
<1>2. /\ ms \in 0 .. K - 1 /\ K \in Nat \ {0} /\ offset \in Nat /\ mini \in 0 .. 1
      /\ elapsed \in Nat /\ waiting \in BOOLEAN
  BY RatesAssumption DEF TypeOK, CountType, FlagType, Phase
<1> DEFINE asserted == VblankAt(ms + 1)
           vblanks == CountVblank(asserted)
<1>3. /\ ms' = (ms + 1) % K /\ waiting' = (waiting /\ ~asserted)
      /\ elapsed' = IF waiting' THEN elapsed ELSE elapsed + 1
      /\ IF vblanks = 2 THEN offset' = offset + 1 /\ mini' = 0
                        ELSE offset' = offset /\ mini' = vblanks
  BY DEF Tick, FrameOver, NextFrame, SameFrame
<1>4. vblanks = IF ~asserted THEN mini ELSE IF waiting THEN 0 ELSE mini + 1
  BY <1>2 DEF CountVblank
<1>5. ms' = IF ms + 1 = K THEN 0 ELSE ms + 1
  <2>1. CASE ms + 1 = K
    <3>1. K % K = 0
      BY <1>2
    <3> QED BY <1>3, <2>1, <3>1
  <2>2. CASE ms + 1 # K
    <3>1. ms + 1 \in 0 .. K - 1
      BY <1>2, <2>2
    <3>2. (ms + 1) % K = ms + 1
      BY <1>2, <3>1
    <3> QED BY <1>3, <2>2, <3>2
  <2> QED BY <2>1, <2>2
<1> SUFFICES /\ mini' <= 1
             /\ IF waiting' THEN elapsed' = 0 /\ offset' = 0
                ELSE \E n \in Nat, w \in Nat :
                       /\ Vblank(n) + elapsed' = ms' + w * K + 1
                       /\ Vblank(n + 2 * offset' + mini') <= ms' + w * K
                       /\ ms' + w * K < Vblank(n + 2 * offset' + mini' + 1)
  BY DEF Phase, Vblank
<1> HIDE DEF asserted, vblanks
<1>6. mini' <= 1
  BY <1>2, <1>3, <1>4
<1>7. CASE waiting /\ ~asserted
  <2>1. elapsed = 0 /\ offset = 0
    BY <1>7 DEF Phase
  <2>2. vblanks # 2
    BY <1>2, <1>4, <1>7
  <2>3. waiting' /\ elapsed' = 0 /\ offset' = 0
    BY <1>3, <1>7, <2>1, <2>2
  <2> QED BY <1>6, <2>3
<1>8. CASE waiting /\ asserted
  <2>1. elapsed' = 1 /\ offset' = 0 /\ mini' = 0 /\ ~waiting'
    <3>1. elapsed = 0 /\ offset = 0
      BY <1>8 DEF Phase
    <3>2. vblanks = 0 /\ ~waiting'
      BY <1>3, <1>4, <1>8
    <3> QED BY <1>3, <3>1, <3>2
  <2>2. PICK n \in 1 .. Vpks : ms + 1 = Vblank(n)
    BY <1>8 DEF asserted, VblankAt, Vblank
  <2>3. n \in Nat /\ n + 1 \in Nat /\ n < n + 1
    BY <2>2, RatesAssumption
  <2>4. Vblank(n) < Vblank(n + 1) /\ Vblank(n) \in Nat /\ Vblank(n + 1) \in Nat
    <3>1. Vblank(n) + ((n + 1) - n) <= Vblank(n + 1)
      BY <2>3, VblankGrows
    <3>2. Vblank(n) \in Nat /\ Vblank(n + 1) \in Nat
      BY <2>3, VblankSum
    <3> QED BY <2>3, <3>1, <3>2
  <2>5. PICK w \in Nat : ms' + w * K = ms + 1
    <3>1. CASE ms + 1 = K
      <4>1. ms' + 1 * K = ms + 1
        BY <1>2, <1>5, <3>1
      <4> QED BY <4>1
    <3>2. CASE ms + 1 # K
      <4>1. ms' + 0 * K = ms + 1
        BY <1>2, <1>5, <3>2
      <4> QED BY <4>1
    <3> QED BY <3>1, <3>2
  <2>6. n + 2 * offset' + mini' = n /\ n + 2 * offset' + mini' + 1 = n + 1
    BY <2>1, <2>3
  <2>7. /\ Vblank(n) + elapsed' = ms' + w * K + 1
        /\ Vblank(n + 2 * offset' + mini') <= ms' + w * K
        /\ ms' + w * K < Vblank(n + 2 * offset' + mini' + 1)
    BY <2>1, <2>2, <2>4, <2>5, <2>6
  <2> QED BY <1>6, <2>1, <2>3, <2>7
<1>9. CASE ~waiting
  <2>1. PICK n \in Nat, w \in Nat :
          /\ Vblank(n) + elapsed = ms + w * K + 1
          /\ Vblank(n + 2 * offset + mini) <= ms + w * K
          /\ ms + w * K < Vblank(n + 2 * offset + mini + 1)
    BY <1>9 DEF Phase
  <2> DEFINE p == n + 2 * offset + mini
             next == ms + 1 + w * K
  <2>2. w * K \in Nat /\ p \in Nat /\ p + 1 \in Nat /\ p + 2 \in Nat /\ next \in Nat
    BY <1>2
  <2>3. asserted <=> next = Vblank(p + 1)
    <3>1. Vblank(p) <= ms + w * K /\ ms + w * K < Vblank(p + 1)
      BY <2>1
    <3> QED BY <1>2, <2>2, <3>1, NextVblank DEF asserted
  <2>4. PICK v \in Nat : ms' + v * K = next
    <3>1. CASE ms + 1 = K
      <4>1. ms' + (w + 1) * K = next
        BY <1>2, <1>5, <2>2, <3>1
      <4>2. w + 1 \in Nat
        OBVIOUS
      <4> QED BY <4>1, <4>2
    <3>2. CASE ms + 1 # K
      <4>1. ms' + w * K = next
        BY <1>2, <1>5, <2>2, <3>2
      <4> QED BY <4>1
    <3> QED BY <3>1, <3>2
  <2>5. Vblank(n) + elapsed' = next + 1 /\ ~waiting'
    <3>1. Vblank(n) \in Nat
      BY VblankSum
    <3> QED BY <1>2, <1>3, <1>9, <2>1, <2>2, <3>1
  <2>6. n + 2 * offset' + mini' = IF asserted THEN p + 1 ELSE p
    BY <1>2, <1>3, <1>4, <1>9
  <2>7. Vblank(p) \in Nat /\ Vblank(p + 1) \in Nat /\ Vblank(p + 2) \in Nat
    BY <2>2, VblankSum
  <2>8. Vblank(p) <= ms + w * K /\ ms + w * K < Vblank(p + 1)
    BY <2>1
  <2>9. Vblank(p + 1) < Vblank(p + 2)
    <3>1. p + 1 < p + 2 /\ (p + 2) - (p + 1) = 1
      BY <2>2
    <3> HIDE DEF p
    <3>2. Vblank(p + 1) + ((p + 2) - (p + 1)) <= Vblank(p + 2)
      BY <2>2, <3>1, VblankGrows
    <3> QED BY <2>7, <3>1, <3>2
  <2> HIDE DEF p
  <2>10. /\ Vblank(n + 2 * offset' + mini') <= next
         /\ next < Vblank(n + 2 * offset' + mini' + 1)
    <3>1. CASE asserted
      <4>1. n + 2 * offset' + mini' = p + 1 /\ n + 2 * offset' + mini' + 1 = p + 2
        BY <2>2, <2>6, <3>1
      <4>2. Vblank(p + 1) = next
        BY <2>3, <3>1
      <4> HIDE DEF next
      <4> QED BY <2>2, <2>7, <2>9, <4>1, <4>2
    <3>2. CASE ~asserted
      <4>1. n + 2 * offset' + mini' = p /\ n + 2 * offset' + mini' + 1 = p + 1
        BY <2>6, <3>2
      <4>2. Vblank(p) <= next /\ next < Vblank(p + 1)
        BY <1>2, <2>2, <2>3, <2>7, <2>8, <3>2
      <4> QED BY <4>1, <4>2
    <3> QED BY <3>1, <3>2
  <2> HIDE DEF next
  <2>11. /\ Vblank(n) + elapsed' = ms' + v * K + 1
         /\ Vblank(n + 2 * offset' + mini') <= ms' + v * K
         /\ ms' + v * K < Vblank(n + 2 * offset' + mini' + 1)
    BY <2>4, <2>5, <2>10
  <2> QED BY <1>6, <2>5, <2>11
<1> QED BY <1>7, <1>8, <1>9

\* One frame or picture more or less.
LEMMA Products ==
  ASSUME TypeOK, NEW x \in Int
  PROVE  /\ Repeats * x \in Int /\ Repeats * (x + 1) = Repeats * x + Repeats
         /\ Repeats * (x - 1) = Repeats * x - Repeats
         /\ Stride * x \in Int /\ Stride * (x + 1) = Stride * x + Stride
         /\ Stride * (x - 1) = Stride * x - Stride
<1>1. Repeats \in Nat /\ Stride \in Nat
  BY DEF TypeOK, SpeedType, Repeats, Stride
<1> QED BY <1>1, OneMore

\* The sums are sums of integers.
LEMMA PartedType ==
  ASSUME TypeOK
  PROVE  /\ Repeats \in Nat \ {0} /\ Stride \in Nat \ {0}
         /\ Made \in Int /\ Seen \in Int /\ Lag \in Int /\ Made - Seen \in Int
         /\ Repeats * (Made - Seen) \in Int /\ Stride * Lag \in Int
         /\ stall \in Nat /\ stalls \in Nat /\ toSkip \in Nat
         /\ speed.skip \in Nat /\ speed.stall \in Nat
<1>1. Repeats \in Nat \ {0} /\ Stride \in Nat \ {0}
  BY DEF TypeOK, SpeedType, Repeats, Stride
<1>2. Made \in Int /\ Seen \in Int /\ Lag \in Int
  BY DEF TypeOK, CountType, PictureType, Made, Seen, Lag
<1>3. Repeats * (Made - Seen) \in Int /\ Stride * Lag \in Int
  BY <1>1, <1>2
<1> QED BY <1>1, <1>2, <1>3 DEF TypeOK, SpeedType

\* A frame the player counts adds as much to the count as to the pictures lacking.
LEMMA TickBalanced ==
  ASSUME TypeOK, KeepsTime, Balanced, Tick
  PROVE  Balanced'
<1>1. /\ UNCHANGED <<fpks, status, seeked, speed, paused, shown, current, pending>>
      /\ UNCHANGED <<vspeed, stalls, toSkip, fresh, tame>>
  BY DEF Tick, thread
<1>2. UNCHANGED <<Repeats, Stride, Seen, Room>>
  BY <1>1 DEF Repeats, Stride, Seen, Room, Synchronous
<1>3. \/ status = "PLAYING" /\ NextFrame
      \/ SameFrame
  BY DEF Tick
<1>4. OneSpeed'
  <2>1. stall \in Nat /\ speed.stall \in Nat
    BY PartedType
  <2>2. stall' \in {stall, speed.stall, stall - 1}
    BY <1>3 DEF NextFrame, SameFrame
  <2> QED BY <1>1, <2>1, <2>2 DEF Balanced, OneSpeed
<1>5. Still'
  <2> SUFFICES ASSUME tame', status' = "PAUSED" PROVE Still'
    BY DEF Still
  <2>1. stall' = stall /\ cur' = cur
    BY <1>1, <1>3 DEF SameFrame
  <2> QED BY <1>1, <1>2, <2>1 DEF Balanced, Still
<1>6. Rolling'
  <2> SUFFICES ASSUME tame, status = "PLAYING" PROVE Rolling'
    BY <1>1 DEF Rolling
  <2>1. Parted' = Parted /\ Lag' \in {Lag, Lag + 1}
    <3>1. CASE SameFrame
      <4>1. Made' = Made /\ Lag' = Lag /\ stall' = stall
        BY <1>1, <3>1 DEF SameFrame, Made, Lag
      <4> QED BY <1>1, <1>2, <4>1 DEF Parted
    <3>2. CASE NextFrame
      <4>1. Lag' = Lag + 1
        BY <1>1, <3>2 DEF NextFrame, Lag, TypeOK, CountType, PictureType
      <4> DEFINE x == Made - Seen
      <4>2. /\ x \in Int /\ Lag \in Int /\ speed.skip \in Nat /\ speed.stall \in Nat
            /\ stall \in 0 .. speed.stall /\ stalls \in Nat /\ toSkip \in Nat
            /\ speed.skip = 0 \/ speed.stall = 0
            /\ Repeats = speed.stall + 1 /\ Stride = speed.skip + 1
        BY PartedType DEF Balanced, OneSpeed, Repeats, Stride
      <4>3. Made' = Made + 1 + speed.skip - (IF stall = 0 THEN 0 ELSE 1)
        BY <1>1, <3>2 DEF NextFrame, Made, TypeOK, CountType, SpeedType
      <4>4. Made' - Seen = x + 1 + speed.skip - (IF stall = 0 THEN 0 ELSE 1)
        BY <4>3, PartedType
      <4>5. stall' = IF stall = 0 THEN speed.stall ELSE stall - 1
        BY <3>2 DEF NextFrame
      <4>6. /\ Parted = Repeats * x - stall + stalls - Stride * Lag - toSkip
            /\ Parted' = Repeats * (Made' - Seen) - stall' + stalls - Stride * (Lag + 1)
                            - toSkip
        BY <1>1, <1>2, <4>1 DEF Parted
      <4> HIDE DEF x
      <4>7. CASE stall = 0 /\ speed.skip = 0
        <5>1. Made' - Seen = x + 1 /\ stall' = speed.stall /\ Stride = 1
          BY <4>2, <4>4, <4>5, <4>7
        <5>2. Repeats * (x + 1) = Repeats * x + Repeats /\ Repeats * x \in Int
          BY <4>2
        <5> QED BY <4>1, <4>2, <4>6, <4>7, <5>1, <5>2
      <4>8. CASE stall = 0 /\ speed.stall = 0
        <5>1. Made' - Seen = x + Stride /\ stall' = 0 /\ Repeats = 1
          BY <4>2, <4>4, <4>5, <4>8
        <5>2. Stride * (Lag + 1) = Stride * Lag + Stride /\ Stride * Lag \in Int
          BY <4>2
        <5> QED BY <4>1, <4>2, <4>6, <4>8, <5>1, <5>2
      <4>9. CASE stall # 0
        <5>1. Made' - Seen = x /\ stall' = stall - 1 /\ Stride = 1
          BY <4>2, <4>4, <4>5, <4>9
        <5> DEFINE a == Repeats * x
                   b == Stride * Lag
        <5>2. a \in Int /\ b \in Int /\ Stride * (Lag + 1) = b + Stride
          BY <4>2, Products
        <5>3. Parted = a - stall + stalls - b - toSkip
          BY <4>6
        <5>4. Parted' = a - (stall - 1) + stalls - (b + 1) - toSkip
          BY <4>6, <5>1, <5>2
        <5> HIDE DEF a, b
        <5> QED BY <4>1, <4>2, <5>2, <5>3, <5>4
      <4> QED BY <4>2, <4>7, <4>8, <4>9
    <3> QED BY <1>3, <3>1, <3>2
  <2>2. Lag' >= IF Synchronous THEN -1 ELSE 0
    BY <2>1, PartedType DEF Balanced, Rolling
  <2> QED BY <1>1, <1>2, <2>1, <2>2 DEF Balanced, Rolling, Synchronous
<1>7. Phase'
  BY TickPhase DEF Balanced
<1> QED BY <1>4, <1>5, <1>6, <1>7 DEF Balanced

\* A picture the thread draws, repeats or leaves out makes up for as many frames
\* as it stands for.
LEMMA PictureBalanced ==
  ASSUME TypeOK, KeepsTime, Balanced, Draw \/ SkipPicture \/ DrawStill
  PROVE  Balanced'
<1>1. UNCHANGED player /\ UNCHANGED <<paused, vspeed, tame>>
  BY DEF Draw, SkipPicture, DrawStill
<1>2. /\ UNCHANGED <<fpks, ms, status, waiting, mini, elapsed, offset, skipped, seeked>>
      /\ UNCHANGED <<cur, speed, stall>>
  BY <1>1 DEF player
<1>3. UNCHANGED <<Repeats, Stride, Made, Room, Synchronous>>
  BY <1>2 DEF Repeats, Stride, Made, Room, Synchronous
<1>4. Phase'
  BY <1>1, <1>2, <1>3 DEF Balanced, Phase, Vblank
<1>5. CASE ~tame
  BY <1>1, <1>2, <1>4, <1>5 DEF Balanced, OneSpeed, Still, Rolling
<1>6. CASE tame /\ status = "PAUSED"
  <2>1. DrawStill
    BY <1>6 DEF Balanced, Still, Draw, SkipPicture
  <2>2. UNCHANGED <<current, pending, stalls, toSkip>>
    BY <2>1 DEF DrawStill
  <2> QED BY <1>1, <1>2, <1>3, <1>4, <1>6, <2>2 DEF Balanced, OneSpeed, Still, Rolling
<1>7. CASE tame /\ status = "PLAYING"
  <2>1. Draw \/ SkipPicture
    BY <1>7 DEF Balanced, Rolling, DrawStill
  <2> DEFINE x == Made - Seen
  <2>2. /\ x \in Int /\ Lag \in Int /\ speed.skip \in Nat /\ speed.stall \in Nat
        /\ stall \in 0 .. speed.stall /\ stalls \in 0 .. speed.stall
        /\ toSkip \in 0 .. speed.skip
        /\ speed.skip = 0 \/ speed.stall = 0
        /\ Repeats = speed.stall + 1 /\ Stride = speed.skip + 1
        /\ vspeed = speed
        /\ pending # 0 => stalls = 0 /\ toSkip = 0 /\ speed.skip = 0 /\ speed.stall = 0
        /\ Repeats * x \in Int /\ Stride * Lag \in Int
        /\ pending \in Int /\ current \in Int /\ shown \in Nat /\ offset \in Nat
    BY <1>7, PartedType DEF Balanced, OneSpeed, Rolling, Repeats, Stride, TypeOK,
                            PictureType, CountType
  <2>3. Parted = Repeats * x - stall + stalls - Stride * Lag - toSkip
    BY DEF Parted
  <2>4. Parted' = Repeats * (Made - Seen') - stall + stalls' - Stride * Lag' - toSkip'
    BY <1>2, <1>3 DEF Parted
  <2>5. /\ fresh'
        /\ Parted' = Parted
        /\ Lag' >= IF Synchronous THEN -1 ELSE 0
        /\ stalls' \in 0 .. speed.stall /\ toSkip' \in 0 .. speed.skip
        /\ pending' # 0 => pending # 0 /\ UNCHANGED <<stalls, toSkip>>
    <3>1. CASE SkipPicture
      <4>1. /\ toSkip # 0 /\ toSkip' = toSkip - 1 /\ current' = current + 1
            /\ UNCHANGED <<pending, shown, stalls, fresh>>
        BY <3>1, <2>2 DEF SkipPicture
      <4>2. pending = 0 /\ Repeats = 1
        BY <2>2, <4>1
      <4>3. Made - Seen' = x - 1 /\ Lag' = Lag
        BY <1>2, <2>2, <4>1, <4>2, PartedType DEF Seen, Lag
      <4>4. Parted' = Parted
        <5> HIDE DEF x
        <5> DEFINE a == Repeats * x
                   b == Stride * Lag
        <5>1. a \in Int /\ b \in Int /\ Repeats * (x - 1) = a - Repeats
          BY <2>2, Products
        <5>2. Parted = a - stall + stalls - b - toSkip
          BY <2>3
        <5>3. Parted' = (a - 1) - stall + stalls - b - (toSkip - 1)
          BY <2>4, <4>1, <4>2, <4>3, <5>1
        <5> HIDE DEF a, b
        <5> QED BY <2>2, <5>1, <5>2, <5>3
      <4> QED BY <2>2, <4>1, <4>2, <4>3, <4>4, <1>7 DEF Balanced, Rolling
    <3>2. CASE Draw
      <4>1. /\ ~OnTime /\ toSkip = 0 /\ shown' = shown + 1
            /\ current' = Counted(TRUE) /\ fresh' = TRUE
        BY <3>2 DEF Draw, Onward
      <4>2. Lag' = Lag - 1
        BY <1>2, <2>2, <4>1 DEF Lag
      <4>3. Lag' >= IF Synchronous THEN -1 ELSE 0
        BY <1>7, <2>2, <4>1, <4>2, LagWhenLate
      <4>4. CASE stalls > 0
        <5>1. /\ stalls' = stalls - 1
              /\ UNCHANGED <<current, pending, toSkip>>
          BY <3>2, <4>1, <4>4 DEF Draw, Onward, Counted
        <5>2. pending = 0 /\ Stride = 1
          BY <2>2, <4>4
        <5>3. Seen' = Seen
          BY <5>1 DEF Seen
        <5>4. Parted' = Parted
          <6> HIDE DEF x
          <6>1. Parted' = Repeats * x - stall + stalls' - Stride * Lag' - toSkip'
            BY <2>4, <5>3 DEF x
          <6> QED BY <2>2, <2>3, <4>2, <5>1, <5>2, <6>1
        <5> QED BY <2>2, <4>1, <4>3, <4>4, <5>1, <5>2, <5>4
      <4>5. CASE ~(stalls > 0) /\ pending # 0
        <5>1. pending' = 0 /\ toSkip' = 0 /\ stalls' = 0 /\ current' = pending /\ stalls = 0
          BY <2>2, <3>2, <4>1, <4>5 DEF Draw, Onward, Counted
        <5>2. Made - Seen' = x - 1 /\ Repeats = 1 /\ Stride = 1
          BY <2>2, <4>5, <5>1, PartedType DEF Seen
        <5>3. Parted' = Parted
          <6> HIDE DEF x
          <6> DEFINE a == Repeats * x
                     b == Stride * Lag
          <6>1. a \in Int /\ b \in Int /\ Repeats * (x - 1) = a - Repeats
            BY <2>2, Products
          <6>2. Stride * (Lag - 1) = b - Stride
            BY <2>2, Products
          <6>3. Parted = a - stall + 0 - b - 0
            BY <2>3, <4>1, <5>1
          <6>4. Parted' = (a - 1) - stall + 0 - (b - 1) - 0
            BY <2>4, <4>2, <5>1, <5>2, <6>1, <6>2
          <6> HIDE DEF a, b
          <6> QED BY <2>2, <6>1, <6>3, <6>4
        <5> QED BY <2>2, <4>1, <4>3, <5>1, <5>3
      <4>6. CASE ~(stalls > 0) /\ pending = 0
        <5>1. /\ pending' = 0 /\ toSkip' = speed.skip /\ stalls' = speed.stall
              /\ current' = current + 1 /\ stalls = 0
          BY <2>2, <3>2, <4>1, <4>6 DEF Draw, Onward, Counted
        <5>2. Made - Seen' = x - 1
          BY <2>2, <4>6, <5>1, PartedType DEF Seen
        <5>3. Parted' = Parted
          <6> HIDE DEF x
          <6>1. Repeats * (x - 1) = Repeats * x - Repeats
            BY <2>2, Products
          <6>2. Stride * (Lag - 1) = Stride * Lag - Stride
            BY <2>2, Products
          <6> QED BY <2>2, <2>3, <2>4, <4>1, <4>2, <5>1, <5>2, <6>1, <6>2
        <5> QED BY <2>2, <4>1, <4>3, <5>1, <5>3
      <4> QED BY <4>4, <4>5, <4>6
    <3> QED BY <2>1, <3>1, <3>2
  <2>6. Rolling'
    <3>1. ~paused' /\ fresh'
      BY <1>1, <1>7, <2>5, Zenon DEF Balanced, Rolling
    <3>5. toSkip' <= speed'.skip
      BY <1>2, <2>2, <2>5
    <3>4. Parted' \in Room'
      BY <1>3, <1>7, <2>5 DEF Balanced, Rolling
    <3>2. pending' # 0 => /\ speed' = [skip |-> 0, stall |-> 0]
                          /\ stalls' = 0 /\ toSkip' = 0
      BY <1>2, <1>7, <2>5 DEF Balanced, Rolling
    <3>3. (Lag >= IF Synchronous THEN -1 ELSE 0)'
      BY <1>3, <2>5
    <3> QED BY <3>1, <3>2, <3>3, <3>4, <3>5 DEF Rolling
  <2>7. OneSpeed'
    BY <1>1, <1>2, <1>7, <2>2, <2>5 DEF OneSpeed
  <2> QED BY <1>2, <1>4, <1>7, <2>6, <2>7 DEF Balanced, Still
<1> QED BY <1>5, <1>6, <1>7 DEF TypeOK, CountType, Balanced, OneSpeed

-----------------------------------------------------------------------------
(* The commands                                                            *)

\* A search starts both counts from the frame it lands on.
LEMMA SearchBalanced ==
  ASSUME TypeOK, Balanced, NEW f \in Goals, Search(f)
  PROVE  Balanced'
<1>1. /\ status' = "PAUSED" /\ cur' = f /\ seeked' = f /\ paused' = TRUE
      /\ current' = f /\ pending' = 0 /\ stalls' = 0 /\ toSkip' = 0
      /\ UNCHANGED <<fpks, speed, stall, vspeed>>
      /\ tame' => stall = 0 /\ speed = vspeed
  BY Zenon DEF Search
<1>2. Repeats \in Nat \ {0} /\ speed.stall \in Nat /\ f \in Int /\ Repeats' = Repeats
  BY <1>1, BoundsAssumption DEF TypeOK, SpeedType, Repeats
<1>3. OneSpeed'
  BY <1>1, <1>2 DEF Balanced, OneSpeed
<1>4. Still'
  <2> SUFFICES ASSUME tame' PROVE Still'
    BY DEF Still
  <2>1. Repeats * (f - f) = 0 /\ stall = 0
    BY <1>1, <1>2
  <2>2. Repeats' * (cur' - current') - stall' + stalls' = 0
    BY <1>1, <1>2, <2>1
  <2>3. 0 \in Room'
    BY <1>1, <1>2 DEF Room
  <2> QED BY <1>1, <2>2, <2>3 DEF Still
<1> QED BY <1>1, <1>3, <1>4 DEF Balanced, Rolling, Phase

\* A play starts both from the frame the disc is paused on.
LEMMA PlayBalanced ==
  ASSUME TypeOK, Balanced, Play
  PROVE  Balanced'
<1>1. /\ status' = "PLAYING" /\ waiting' = TRUE /\ elapsed' = 0 /\ skipped' = 0 /\ offset' = 0
      /\ tame' = (tame /\ ~(Synchronous /\ mini = 2))
      /\ UNCHANGED <<fpks, ms, mini, seeked, cur, speed, stall, vspeed, toSkip>>
      /\ status \in {"PAUSED", "STOPPED"} /\ toSkip = 0
  BY Zenon DEF Play
<1> SUFFICES ASSUME tame, ~(Synchronous /\ mini = 2)
             PROVE  Balanced'
  BY <1>1 DEF Balanced, OneSpeed, Still, Rolling, Phase
<1>2. /\ status = "PAUSED" /\ paused /\ pending = 0 /\ seeked = cur
      /\ Repeats * (cur - current) - stall + stalls \in Room
  BY <1>1 DEF Balanced, OneSpeed, Still
<1>3. /\ paused' = FALSE /\ shown' = 1 /\ stalls' = stalls /\ fresh' = TRUE
      /\ UNCHANGED <<current, pending>>
  BY <1>2, Zenon DEF Play, Onward
<1>4. UNCHANGED <<Repeats, Stride, Room>>
  BY <1>1 DEF Repeats, Stride, Room, Synchronous
<1>5. /\ cur \in Int /\ seeked \in Int /\ current \in Int /\ stall \in Nat /\ stalls \in Nat
      /\ speed.skip \in Nat /\ Repeats \in Nat /\ Stride \in Nat /\ mini \in 0 .. 2
      /\ Repeats * (cur - current) \in Int
  BY PartedType DEF TypeOK, CountType, PictureType, SpeedType, Repeats
<1>6. OneSpeed'
  BY <1>1, <1>3 DEF Balanced, OneSpeed
<1>7. Rolling'
  <2>1. Lag' = 0 /\ Made' - Seen' = cur - current
    BY <1>1, <1>2, <1>3, <1>5 DEF Lag, Made, Seen
  <2>2. Stride * 0 = 0
    BY <1>5
  <2>3. Parted' = Repeats * (cur - current) - stall + stalls - Stride * 0 - 0
    BY <1>1, <1>3, <1>4, <2>1 DEF Parted
  <2>4. Parted' = Repeats * (cur - current) - stall + stalls
    BY <1>5, <2>2, <2>3
  <2>5. Parted' \in Room'
    BY <1>2, <1>4, <2>4
  <2> QED BY <1>1, <1>2, <1>3, <1>5, <2>1, <2>5 DEF Rolling, Synchronous
<1>8. Phase'
  BY <1>1, <1>5 DEF Phase, Synchronous
<1> QED BY <1>1, <1>6, <1>7, <1>8 DEF Balanced, Still

\* A pause keeps what parts the counts: nothing, or a picture the thread is ahead
\* of a count by vblanks that is not behind it.
LEMMA PauseBalanced ==
  ASSUME TypeOK, KeepsTime, Balanced, Pause
  PROVE  Balanced'
<1>1. /\ status = "PLAYING" /\ toSkip = 0 /\ status' = "PAUSED"
      /\ seeked' = cur /\ paused' = TRUE
      /\ tame' = (tame /\ pending = 0 /\ ~Owed /\ OnTime /\ cur >= current)
      /\ UNCHANGED <<fpks, cur, speed, stall, current, pending, vspeed, stalls, toSkip>>
  BY DEF Pause
<1> SUFFICES ASSUME tame, pending = 0, ~Owed, OnTime, cur >= current
             PROVE  Balanced'
  BY <1>1 DEF Balanced, OneSpeed, Still, Rolling, Phase
<1>2. Repeats' = Repeats /\ Room' = Room
  BY <1>1 DEF Repeats, Room, Synchronous
<1> DEFINE a == Repeats * (cur - current)
<1>3. /\ a \in Int /\ 0 <= a /\ Stride \in Nat /\ Repeats \in Nat
      /\ stall \in 0 .. speed.stall /\ stalls \in 0 .. speed.stall /\ speed.stall \in Nat
  <2>1. cur - current \in Nat
    BY DEF TypeOK, CountType, PictureType
  <2>2. Repeats \in Nat /\ Stride \in Nat
    BY PartedType
  <2>3. a \in Nat
    BY <2>1, <2>2
  <2> HIDE DEF a
  <2> QED BY <2>2, <2>3, PartedType DEF Balanced, OneSpeed
<1>4. a - stall + stalls - Stride * Lag \in Room /\ Stride * Lag \in Int
  <2>1. Made - Seen = cur - current
    BY DEF Owed, Made, Seen
  <2>2. Parted = a - stall + stalls - Stride * Lag - 0 /\ Parted \in Room
    BY <1>1, <2>1 DEF Parted, Balanced, Rolling
  <2>3. Stride * Lag \in Int
    BY PartedType
  <2> HIDE DEF a
  <2>4. Parted = a - stall + stalls - Stride * Lag
    BY <1>3, <2>2, <2>3
  <2> QED BY <2>2, <2>3, <2>4
<1>5. a - stall + stalls \in Room
  <2> HIDE DEF a
  <2>1. CASE Lag = 0
    <3>1. Stride * 0 = 0
      BY <1>3
    <3>2. a - stall + stalls - 0 \in Room
      BY <1>4, <2>1, <3>1
    <3> QED BY <1>3, <3>2
  <2>2. CASE Synchronous /\ Lag = -1
    <3>1. Stride * Lag = 0 - Stride
      BY <1>3, <2>2
    <3>2. Room = -speed.stall .. 2 * Repeats
      BY <2>2 DEF Room
    <3>3. a - stall + stalls - (0 - Stride) <= 2 * Repeats
      BY <1>3, <1>4, <3>1, <3>2
    <3> QED BY <1>3, <3>2, <3>3
  <2> QED BY <1>1, <2>1, <2>2, LagOnTime
<1>6. OneSpeed'
  BY <1>1 DEF Balanced, OneSpeed
<1>7. Still'
  <2>1. (Repeats * (cur - current) - stall + stalls)' \in Room'
    BY <1>1, <1>2, <1>5
  <2> QED BY <1>1, <2>1 DEF Still
<1> QED BY <1>1, <1>6, <1>7 DEF Balanced, Rolling, Phase

\* A skip puts the count of pictures back where the timer says it is, and both
\* counts on the frame before the one it goes to.
LEMMA SkipBalanced ==
  ASSUME TypeOK, KeepsTime, Balanced, NEW n \in Jumps, Skip(n)
  PROVE  Balanced'
<1> DEFINE q == (elapsed * fpks) \div Kiloseconds
<1>1. /\ status = "PLAYING" /\ status' = status /\ toSkip = 0
      /\ skipped' = skipped + n /\ shown' = q + 1 /\ pending' = cur + n
      /\ stalls' = 0 /\ fresh' = TRUE
      /\ UNCHANGED <<fpks, ms, waiting, mini, elapsed, offset, seeked, cur, speed, stall>>
      /\ UNCHANGED <<paused, vspeed, toSkip>>
  BY Zenon DEF Skip
<1>2. tame' => /\ tame /\ ~Owed /\ cur + n # 0
               /\ speed = [skip |-> 0, stall |-> 0] /\ vspeed = speed
  BY Zenon DEF Skip
<1> SUFFICES ASSUME tame', tame, ~Owed, cur + n # 0,
                    speed = [skip |-> 0, stall |-> 0], vspeed = speed
             PROVE  Balanced'
  BY <1>1, <1>2 DEF Balanced, OneSpeed, Still, Rolling, Phase
<1>3. /\ q \in Nat /\ offset - q \in IF Synchronous THEN -1 .. 0 ELSE 0 .. 1
  BY <1>1, ShownAfterSkip DEF Balanced
<1> HIDE DEF q
<1>4. /\ offset \in Nat /\ skipped \in Int /\ seeked \in Int /\ cur \in Int /\ n \in Int
      /\ cur = seeked + skipped + offset
      /\ speed.skip = 0 /\ speed.stall = 0 /\ stall = 0
  BY BoundsAssumption DEF TypeOK, CountType, SpeedType, Owed, Balanced, OneSpeed
<1>5. Repeats' = 1 /\ Stride' = 1 /\ (Synchronous' <=> Synchronous)
  BY <1>1, <1>4 DEF Repeats, Stride, Synchronous
<1>6. Made' = cur + n /\ Seen' = cur + n - 1 /\ Lag' = offset - q
  BY <1>1, <1>3, <1>4 DEF Made, Seen, Lag
<1>7. Made' - Seen' = 1 /\ Lag' \in Int
  BY <1>3, <1>4, <1>6
<1>8. Parted' = 1 - Lag'
  <2>1. Parted' = 1 * 1 - 0 + 0 - 1 * Lag' - 0
    BY <1>1, <1>4, <1>5, <1>7 DEF Parted
  <2> QED BY <1>7, <2>1
<1>9. Parted' \in Room'
  <2>1. Room' = IF Synchronous THEN 0 .. 2 ELSE 0 .. 1
    BY <1>1, <1>4, <1>5 DEF Room
  <2> QED BY <1>3, <1>6, <1>7, <1>8, <2>1
<1>10. Rolling'
  <2>1. (Lag >= IF Synchronous THEN -1 ELSE 0)'
    BY <1>3, <1>5, <1>6
  <2>2. ~paused' /\ fresh'
    BY <1>1 DEF Balanced, Rolling
  <2>3. /\ toSkip' <= speed'.skip
        /\ speed' = [skip |-> 0, stall |-> 0] /\ stalls' = 0 /\ toSkip' = 0
    BY <1>1, <1>4
  <2> QED BY <1>9, <2>1, <2>2, <2>3 DEF Rolling
<1>11. Phase'
  BY <1>1, <1>5 DEF Balanced, Phase, Vblank
<1>12. OneSpeed'
  BY <1>1, <1>4 DEF OneSpeed
<1> QED BY <1>1, <1>10, <1>11, <1>12 DEF Balanced, Still

\* A change of speed that finds nothing stalled, owed or late leaves the counts as
\* they are, a frame apart at most.
LEMMA SpeedBalanced ==
  ASSUME TypeOK, KeepsTime, Balanced, NEW s \in Speeds, ChangeSpeed(s)
  PROVE  Balanced'
<1>1. /\ speed' = s /\ toSkip = 0
      /\ UNCHANGED <<fpks, status, offset, skipped, seeked, cur, stall, paused, shown>>
      /\ UNCHANGED <<current, pending, stalls, toSkip, fresh>>
  BY DEF ChangeSpeed
<1>2. tame' => /\ tame /\ OnTime /\ stall = 0 /\ stalls = 0 /\ ~Owed /\ pending = 0
               /\ ~Synchronous /\ vspeed' = s
  BY Zenon DEF ChangeSpeed
<1>3. /\ s.skip \in Nat /\ s.stall \in Nat /\ (s.skip = 0 \/ s.stall = 0)
  BY SpeedsAssumption
<1>4. CASE ~tame'
  BY <1>1, <1>3, <1>4 DEF Balanced, OneSpeed, Still, Rolling, Phase
<1>5. CASE tame'
  <2> DEFINE d == cur - current
             R == s.stall + 1
             S == s.skip + 1
  <2>1. /\ tame /\ OnTime /\ stall = 0 /\ stalls = 0 /\ ~Owed /\ pending = 0 /\ ~Synchronous
        /\ vspeed' = s /\ ~Synchronous'
    BY <1>1, <1>2, <1>5 DEF Synchronous
  <2>2. OneSpeed'
    BY <1>1, <1>3, <2>1 DEF Balanced, OneSpeed
  <2>3. /\ d \in Int /\ R \in Nat \ {0} /\ S \in Nat /\ Repeats \in Nat \ {0} /\ Stride \in Nat
        /\ Repeats' = R /\ Stride' = S /\ Room = 0 .. Repeats /\ Room' = 0 .. R
    BY <1>1, <1>3, <2>1, PartedType DEF TypeOK, CountType, PictureType, Repeats, Stride, Room
  <2>4. ASSUME Repeats * d - 0 + 0 \in 0 .. Repeats
        PROVE  R * d - 0 + 0 \in 0 .. R
    <3> HIDE DEF d, R
    <3>1. Repeats * d \in 0 .. Repeats
      <4>1. Repeats * d \in Int
        BY <2>3
      <4> QED BY <2>3, <2>4, <4>1
    <3>2. ~(2 <= d)
      <4> SUFFICES ASSUME 2 <= d PROVE FALSE
        OBVIOUS
      <4>1. Repeats * 2 <= Repeats * d
        BY <2>3, Product
      <4> QED BY <2>3, <3>1, <4>1
    <3>3. ~(d <= -1)
      <4> SUFFICES ASSUME d <= -1 PROVE FALSE
        OBVIOUS
      <4>1. Repeats * d <= Repeats * (-1)
        BY <2>3, Product
      <4> QED BY <2>3, <3>1, <4>1
    <3>4. d = 0 \/ d = 1
      BY <2>3, <3>2, <3>3
    <3>5. R * 0 = 0 /\ R * 1 = R
      BY <2>3
    <3> QED BY <2>3, <3>4, <3>5
  <2>5. CASE status = "PAUSED"
    <3>1. /\ paused /\ pending = 0 /\ toSkip = 0 /\ seeked = cur
          /\ Repeats * d - 0 + 0 \in 0 .. Repeats
      BY <2>1, <2>3, <2>5 DEF Balanced, Still
    <3>2. R * d - 0 + 0 \in 0 .. R
      BY <2>4, <3>1
    <3>3. (Repeats * (cur - current) - stall + stalls \in Room)'
      BY <1>1, <2>1, <2>3, <3>2
    <3>4. Still'
      BY <1>1, <3>1, <3>3 DEF Still
    <3> QED BY <1>1, <2>2, <2>5, <3>4 DEF Balanced, Rolling, Phase
  <2>6. CASE status = "PLAYING"
    <3>1. Lag = 0
      BY <2>1, <2>6, LagOnTime
    <3>2. Made - Seen = d /\ Made' - Seen' = d /\ Lag' = Lag
      BY <1>1, <2>1 DEF Owed, Made, Seen, Lag
    <3>3. Stride * 0 = 0 /\ S * 0 = 0
      BY <2>3
    <3>4. Parted = Repeats * d - 0 + 0 - 0 - 0 /\ Parted' = R * d - 0 + 0 - 0 - 0
      BY <1>1, <2>1, <2>3, <3>1, <3>2, <3>3 DEF Parted
    <3>5. Repeats * d \in Int /\ R * d \in Int
      BY <2>3
    <3> HIDE DEF d, R, S
    <3>6. Repeats * d - 0 + 0 \in 0 .. Repeats
      BY <2>1, <2>3, <2>6, <3>4, <3>5 DEF Balanced, Rolling
    <3>7. Parted' \in Room'
      BY <2>3, <2>4, <3>4, <3>5, <3>6
    <3>8. ~paused' /\ fresh' /\ pending' = 0 /\ toSkip' <= speed'.skip
      BY <1>1, <1>3, <2>1, <2>6 DEF Balanced, Rolling
    <3>9. (Lag >= IF Synchronous THEN -1 ELSE 0)'
      BY <2>1, <3>1, <3>2
    <3>10. Rolling'
      BY <3>7, <3>8, <3>9 DEF Rolling
    <3> QED BY <1>1, <2>1, <2>2, <2>6, <3>10 DEF Balanced, Still, Phase
  <2> QED BY <2>1, <2>5, <2>6 DEF Balanced, OneSpeed, TypeOK, CountType
<1> QED BY <1>4, <1>5

\* While the disc plays, whatever mixture of plays, pauses, skips, searches and
\* changes of speed led to it, a thread on time is at most a frame behind the
\* player and never ahead, or within a vblank of it on a disc counted by vblanks
\* (ldp-vldp.cpp:796), for every rate, speed and timer resolution.
THEOREM CountsInStep == Spec => []InStep
<1>1. Init => Balanced
  <2> SUFFICES ASSUME Init PROVE Balanced
    OBVIOUS
  <2>1. /\ status = "PAUSED" /\ paused /\ pending = 0 /\ toSkip = 0 /\ seeked = cur
        /\ cur = Home /\ current = Home /\ stall = 0 /\ stalls = 0 /\ Home \in Int
        /\ speed.skip = 0 /\ speed.stall = 0 /\ speed = vspeed
    BY BoundsAssumption DEF Init
  <2>2. Repeats = 1 /\ 1 * (cur - current) - stall + stalls = 0
    BY <2>1 DEF Repeats
  <2>3. Repeats * (cur - current) - stall + stalls = 0
    BY <2>2
  <2>4. 0 \in Room
    BY <2>1, <2>2 DEF Room
  <2>5. OneSpeed /\ Still
    BY <2>1, <2>3, <2>4 DEF OneSpeed, Still
  <2> QED BY <2>1, <2>5 DEF Balanced, Rolling, Phase
<1>2. TypeOK /\ KeepsTime /\ Balanced /\ [Next]_vars => Balanced'
  <2> SUFFICES ASSUME TypeOK, KeepsTime, Balanced, [Next]_vars
               PROVE  Balanced'
    OBVIOUS
  <2>1. CASE Tick
    BY <2>1, TickBalanced
  <2>2. CASE Draw \/ SkipPicture \/ DrawStill
    BY <2>2, PictureBalanced
  <2>3. CASE \E f \in Goals : Search(f)
    BY <2>3, SearchBalanced
  <2>4. CASE Play
    BY <2>4, PlayBalanced
  <2>5. CASE Pause
    BY <2>5, PauseBalanced
  <2>6. CASE Stop
    BY <2>6 DEF Stop, Balanced, OneSpeed, Still, Rolling, Phase
  <2>7. CASE \E n \in Jumps : Skip(n)
    BY <2>7, SkipBalanced
  <2>8. CASE \E s \in Speeds : ChangeSpeed(s)
    BY <2>8, SpeedBalanced
  <2>9. CASE UNCHANGED vars
    BY <2>9 DEF vars, player, thread, Balanced, OneSpeed, Still, Rolling, Phase, Vblank,
                Repeats, Stride, Made, Seen, Lag, Parted, Room, Synchronous
  <2> QED BY <2>1, <2>2, <2>3, <2>4, <2>5, <2>6, <2>7, <2>8, <2>9 DEF Next
<1>3. TypeOK /\ KeepsTime /\ Balanced => InStep
  BY PartedFrames
<1> QED BY <1>1, <1>2, <1>3, TypeCorrect, CountKeepsTime, PTL DEF Spec
=============================================================================
