-------------------------- MODULE LifecycleProofs --------------------------
(***************************************************************************)
(* Theorems about Lifecycle: in whatever order the program comes up, fails *)
(* and goes down, its threads use what is there, the mixer fits the chips, *)
(* and nothing is left.  The invariant says what is held at each point of  *)
(* the main thread: what a step frees, no thread that still runs needs.    *)
(***************************************************************************)
EXTENDS Lifecycle, SequenceTheorems, TLAPS

\* Points of the main thread: before there is sound, while the player has its
\* library and its mutex, while the game has its surfaces, and at the end.
Before  == {"options", "display", "sound"}
Ready   == {"thread", "checks", "opening", "opened", "refused", "init", "start",
            "running", "ldp_down"}
Leaving == {"join", "unchip", "p_free", "surfaces_down"}
Shown   == Ready \cup Leaving \cup {"lib", "files", "mutex"}
Late    == {"display_down", "free", "exit", "exit126"}
Upward  == {"input", "surfaces", "lib", "files", "mutex"} \cup
           {"thread", "checks", "opening", "opened", "refused"}
Pcs     == Before \cup Upward \cup Shown \cup Late \cup {"input_down", "sound_down"}

\* The main thread's position and its flags keep their types.
Flagged ==
  /\ pc \in Pcs
  /\ quit \in BOOLEAN /\ enabled \in BOOLEAN /\ initialized \in BOOLEAN
  /\ playerUp \in BOOLEAN /\ running \in BOOLEAN /\ muted \in BOOLEAN
  /\ silent \in BOOLEAN /\ calling \in BOOLEAN /\ drawing \in BOOLEAN
  /\ mixer \in {"mute", "none", "max", "mults"} /\ quiet \subseteq Kinds

\* What is held at each point, and by whom it is needed.
Basic == {"objects", "bmps", "surfaces"} \cup Sdl
Held ==
  /\ res \subseteq Own \cup Sdl
  /\ pc \in Shown => "surfaces" \in res
  /\ pc \in Ready => {"lib", "mutex"} \subseteq res
  /\ pc \in {"files", "mutex"} => "lib" \in res
  /\ "script" \in res => pc = "running"
  /\ pc \in Before \cup Late \cup {"input", "surfaces"} \cup
         {"surfaces_down", "input_down", "sound_down"}
       => res \subseteq Basic
  /\ pc \in {"unchip", "p_free"} => res \subseteq Basic \cup {"lib", "mutex", "overlay"}
  /\ pc = "exit" => res \subseteq {"surfaces"}
Drawn ==
  /\ "thread" \in res =>
       pc \in (Ready \ {"thread"}) \cup {"join"} /\ {"lib", "mutex"} \subseteq res
  /\ drawing => {"thread", "overlay"} \subseteq res

\* Who is in the list of chips, and when there is sound.
Listed ==
  /\ chips \in Seq([kind : Kinds, id : Nat])
  /\ nextId \in 0..2 /\ chipId \in 0..1
  /\ \A i \in DOMAIN chips : chips[i].id < nextId
  /\ \A i, j \in DOMAIN chips : chips[i].id = chips[j].id => i = j
  /\ pc \in Before => nextId = 0
  /\ pc \in Upward => nextId <= 1
Disced ==
  \A i \in DOMAIN chips : chips[i].kind = "vldp" =>
    /\ chips[i].id = chipId /\ enabled /\ {"mutex", "lib"} \subseteq res
    /\ pc \in {"init", "start", "running", "ldp_down", "join", "unchip"}
Sounding ==
  /\ pc \in Before \cup Late => ~initialized
  /\ pc \notin Before \cup Late => initialized = enabled
  /\ ~initialized => chips = <<>>
  /\ running => initialized /\ "device" \in res
Called ==
  /\ asked \in Seq([kind : Kinds, id : Nat])
  /\ calling => running /\ Range(asked) \subseteq Range(chips)

IInv == Flagged /\ Held /\ Drawn /\ Listed /\ Disced /\ Sounding /\ Called /\ MixerFits

-----------------------------------------------------------------------------
\* The mixer that update_soundchip_volumes chooses fits the list it was chosen for.
LEMMA MixerForFits ==
  ASSUME NEW cs \in Seq([kind : Kinds, id : Nat]), NEW q, NEW m \in BOOLEAN
  PROVE  /\ MixerFor(cs, q, m) \in {"mute", "none", "max", "mults"}
         /\ MixerFor(cs, q, m) = "mute" <=> m
         /\ MixerFor(cs, q, m) = "none" => Len(cs) <= 1
         /\ MixerFor(cs, q, m) \in {"none", "max"} =>
              \A i \in DOMAIN cs : cs[i].kind \notin q
<1>1. CASE m
  BY <1>1 DEF MixerFor
<1>2. CASE ~m /\ \E i \in DOMAIN cs : cs[i].kind \in q
  BY <1>2 DEF MixerFor
<1>3. CASE ~m /\ ~(\E i \in DOMAIN cs : cs[i].kind \in q)
  <2>1. Len(cs) \in Nat
    OBVIOUS
  <2>2. CASE Len(cs) > 1
    BY <1>3, <2>2 DEF MixerFor
  <2>3. CASE ~(Len(cs) > 1)
    <3>1. Len(cs) <= 1
      BY <2>1, <2>3
    <3>2. MixerFor(cs, q, m) = "none"
      BY <1>3, <2>3 DEF MixerFor
    <3>3. QED
      BY <1>3, <3>1, <3>2
  <2>4. QED
    BY <2>2, <2>3
<1>4. QED
  BY <1>1, <1>2, <1>3

\* What a sequence holds belongs to its set.
LEMMA Elements ==
  ASSUME NEW S, NEW s \in Seq(S)
  PROVE  \A i \in DOMAIN s : s[i] \in S
OBVIOUS

\* add_soundchip leaves the list as it is and puts a chip of its own number behind.
LEMMA Added ==
  ASSUME Listed, NEW k \in Kinds, chips' = Append(chips, Chip(k, nextId))
  PROVE  /\ chips' \in Seq([kind : Kinds, id : Nat])
         /\ Len(chips') = Len(chips) + 1
         /\ \A i \in DOMAIN chips : i \in DOMAIN chips' /\ chips'[i] = chips[i]
         /\ chips'[Len(chips) + 1] = [kind |-> k, id |-> nextId]
         /\ \A i \in DOMAIN chips' : i \in DOMAIN chips \/ i = Len(chips) + 1
<1>1. [kind |-> k, id |-> nextId] \in [kind : Kinds, id : Nat]
  BY DEF Listed
<1>2. QED
  BY <1>1 DEF Listed, Chip

\* What is left of a sequence when one element is taken out.
LEMMA RemovedAt ==
  ASSUME NEW S, NEW s \in Seq(S), NEW k \in 1..Len(s)
  PROVE  /\ RemoveAt(s, k) \in Seq(S)
         /\ Len(RemoveAt(s, k)) = Len(s) - 1
         /\ \A i \in 1..Len(s) - 1 : RemoveAt(s, k)[i] = s[IF i < k THEN i ELSE i + 1]
<1> DEFINE a == SubSeq(s, 1, k - 1)
           b == SubSeq(s, k + 1, Len(s))
<1>1. Len(s) \in Nat /\ k \in Nat /\ k - 1 \in 0..Len(s) /\ \A i \in 1..Len(s) : s[i] \in S
  OBVIOUS
<1>2. /\ a \in Seq(S) /\ Len(a) = k - 1
      /\ \A i \in 1..k - 1 : a[i] = s[i]
  <2>1. a = [i \in 1..k - 1 |-> s[i]]
    BY <1>1
  <2>2. QED
    BY <1>1, <2>1
<1>3. /\ b \in Seq(S) /\ Len(b) = Len(s) - k
      /\ \A i \in 1..Len(s) - k : b[i] = s[k + i]
  <2>1. b = [i \in 1..Len(s) - k |-> s[k + i]]
    BY <1>1
  <2>2. QED
    BY <1>1, <2>1
<1> HIDE DEF a, b
<1>4. RemoveAt(s, k) = a \o b
  BY DEF RemoveAt, a, b
<1>5. /\ a \o b \in Seq(S)
      /\ Len(a \o b) = Len(s) - 1
      /\ \A i \in 1..Len(s) - 1 : (a \o b)[i] = IF i < k THEN a[i] ELSE b[i - (k - 1)]
  <2>1. /\ a \o b \in Seq(S) /\ Len(a \o b) = Len(a) + Len(b)
        /\ \A i \in 1..Len(a) + Len(b) :
             (a \o b)[i] = IF i <= Len(a) THEN a[i] ELSE b[i - Len(a)]
    BY <1>2, <1>3, ConcatProperties
  <2>2. Len(a) + Len(b) = Len(s) - 1 /\ \A i \in Nat : i <= Len(a) <=> i < k
    BY <1>1, <1>2, <1>3
  <2>3. \A i \in 1..Len(s) - 1 : (a \o b)[i] = IF i < k THEN a[i] ELSE b[i - (k - 1)]
    BY <1>2, <2>1, <2>2
  <2>4. QED
    BY <2>1, <2>2, <2>3
<1>6. ASSUME NEW i \in 1..Len(s) - 1
      PROVE  (a \o b)[i] = s[IF i < k THEN i ELSE i + 1]
  <2>1. CASE i < k
    BY <1>1, <1>2, <1>5, <2>1
  <2>2. CASE ~(i < k)
    <3>1. i - (k - 1) \in 1..Len(s) - k /\ k + (i - (k - 1)) = i + 1
      BY <1>1, <2>2
    <3>2. QED
      BY <1>1, <1>3, <1>5, <2>2, <3>1
  <2>3. QED
    BY <2>1, <2>2
<1>7. QED
  BY <1>4, <1>5, <1>6

\* delete_soundchip leaves no chip of the number, and no chip that was not there.
LEMMA Removed ==
  ASSUME Listed, NEW n \in Nat, DeleteChip(n)
  PROVE  /\ chips' \in Seq([kind : Kinds, id : Nat])
         /\ Len(chips') <= Len(chips)
         /\ \A i \in DOMAIN chips' : \E j \in DOMAIN chips : chips'[i] = chips[j]
         /\ \A i \in DOMAIN chips' : chips'[i].id # n
         /\ \A i, j \in DOMAIN chips' : chips'[i].id = chips'[j].id => i = j
<1>1. CASE (\A i \in DOMAIN chips : chips[i].id # n) /\ UNCHANGED chips
  BY <1>1 DEF Listed
<1>2. ASSUME NEW k \in DOMAIN chips, chips[k].id = n, chips' = RemoveAt(chips, k)
      PROVE  /\ chips' \in Seq([kind : Kinds, id : Nat])
             /\ Len(chips') = Len(chips) - 1
             /\ \A i \in 1..Len(chips) - 1 : chips'[i] = chips[IF i < k THEN i ELSE i + 1]
  <2>1. chips \in Seq([kind : Kinds, id : Nat]) /\ k \in 1..Len(chips)
    BY <1>2 DEF Listed
  <2>2. QED
    BY <1>2, <2>1, RemovedAt
<1>3. ASSUME NEW k \in DOMAIN chips, chips[k].id = n, chips' = RemoveAt(chips, k)
      PROVE  /\ Len(chips') <= Len(chips)
             /\ \A i \in DOMAIN chips' : \E j \in DOMAIN chips : chips'[i] = chips[j]
             /\ \A i \in DOMAIN chips' : chips'[i].id # n
             /\ \A i, j \in DOMAIN chips' : chips'[i].id = chips'[j].id => i = j
  <2> DEFINE from(i) == IF i < k THEN i ELSE i + 1
  <2>0. /\ DOMAIN chips' = 1..Len(chips) - 1 /\ DOMAIN chips = 1..Len(chips)
        /\ Len(chips) \in Nat /\ k \in 1..Len(chips)
    BY <1>2, <1>3 DEF Listed
  <2>1. \A i \in DOMAIN chips' : from(i) \in DOMAIN chips /\ from(i) # k
    BY <2>0
  <2>2. \A i \in DOMAIN chips' : chips'[i] = chips[from(i)]
    BY <1>2, <1>3, <2>0
  <2>3. \A i \in DOMAIN chips' : \E j \in DOMAIN chips : chips'[i] = chips[j]
    BY <2>1, <2>2
  <2>4. \A i \in DOMAIN chips' : chips'[i].id # n
    BY <1>3, <2>1, <2>2 DEF Listed
  <2>5. \A i, j \in DOMAIN chips' : chips'[i].id = chips'[j].id => i = j
    <3> SUFFICES ASSUME NEW i \in DOMAIN chips', NEW j \in DOMAIN chips',
                        chips'[i].id = chips'[j].id
                 PROVE  i = j
      OBVIOUS
    <3>1. from(i) = from(j)
      BY <2>1, <2>2 DEF Listed
    <3>2. QED
      BY <2>0, <3>1
  <2>6. Len(chips') <= Len(chips)
    BY <1>2, <1>3 DEF Listed
  <2>7. QED
    BY <2>3, <2>4, <2>5, <2>6
<1>4. QED
  BY <1>1, <1>2, <1>3 DEF DeleteChip

\* Nothing is open or listed when the program starts.
LEMMA InitInv == Init => IInv
<1> SUFFICES ASSUME Init PROVE IInv
  OBVIOUS
<1>1. Flagged
  <2>1. pc \in Pcs /\ mixer \in {"mute", "none", "max", "mults"} /\ quiet \subseteq Kinds
    BY DEF Init, Pcs, Before
  <2>2. /\ quit \in BOOLEAN /\ enabled \in BOOLEAN /\ initialized \in BOOLEAN
        /\ playerUp \in BOOLEAN /\ running \in BOOLEAN /\ muted \in BOOLEAN
        /\ silent \in BOOLEAN /\ calling \in BOOLEAN /\ drawing \in BOOLEAN
    BY Zenon DEF Init
  <2>3. QED
    BY <2>1, <2>2 DEF Flagged
<1>2. Held /\ Drawn
  BY DEF Init, Held, Drawn, Basic, Before, Ready, Leaving, Shown, Late, Own, Sdl
<1>3. Listed /\ Disced
  BY DEF Init, Listed, Disced, Before, Upward
<1>4. Sounding /\ Called /\ MixerFits
  BY DEF Init, Sounding, Called, MixerFits, Before, Late
<1>5. QED
  BY <1>1, <1>2, <1>3, <1>4 DEF IInv

\* One step for each action; those that change the list, the mixer or what another
\* thread uses are taken part by part.
LEMMA StepInv == IInv /\ [Next]_vars => IInv'
<1> SUFFICES ASSUME IInv, [Next]_vars PROVE IInv'
  OBVIOUS
<1> USE DEF IInv, Flagged, Held, Drawn, Listed, Disced, Sounding, Called, MixerFits, Basic,
           Before, Ready, Leaving, Shown, Late, Upward, Pcs, Kinds, Own, Sdl, Goto, Take,
           Flags, Same, Idle, vars, mainVars, soundVars, chipVars, mixVars, threadVars
<1>1. ASSUME ParseOptions PROVE IInv'
  BY <1>1 DEF ParseOptions
<1>2. ASSUME OptionsFail PROVE IInv'
  BY <1>2 DEF OptionsFail
<1>3. ASSUME InitDisplay PROVE IInv'
  BY <1>3 DEF InitDisplay
<1>4. ASSUME DisplayFails PROVE IInv'
  <2>1. Flagged'
    BY <1>4 DEF DisplayFails
  <2>2. Held'
    BY <1>4 DEF DisplayFails
  <2>3. Drawn'
    BY <1>4 DEF DisplayFails
  <2>4. Listed'
    BY <1>4 DEF DisplayFails
  <2>5. Disced'
    BY <1>4 DEF DisplayFails
  <2>6. Sounding'
    BY <1>4 DEF DisplayFails
  <2>7. Called'
    BY <1>4 DEF DisplayFails
  <2>8. MixerFits'
    BY <1>4 DEF DisplayFails
  <2>9. QED
    BY <2>1, <2>2, <2>3, <2>4, <2>5, <2>6, <2>7, <2>8 DEF IInv
<1>5. ASSUME SoundOff PROVE IInv'
  <2>1. Flagged'
    BY <1>5 DEF SoundOff
  <2>2. Held'
    BY <1>5 DEF SoundOff
  <2>3. Drawn'
    BY <1>5 DEF SoundOff
  <2>4. Listed'
    BY <1>5 DEF SoundOff
  <2>5. Disced'
    BY <1>5 DEF SoundOff
  <2>6. Sounding'
    BY <1>5 DEF SoundOff
  <2>7. Called'
    BY <1>5 DEF SoundOff
  <2>8. MixerFits'
    BY <1>5 DEF SoundOff
  <2>9. QED
    BY <2>1, <2>2, <2>3, <2>4, <2>5, <2>6, <2>7, <2>8 DEF IInv
<1>6. ASSUME SoundFails PROVE IInv'
  BY <1>6 DEF SoundFails
<1>7. ASSUME WavesMissing PROVE IInv'
  BY <1>7 DEF WavesMissing
<1>8. ASSUME InitSound PROVE IInv'
  <2>1. Listed /\ "samples" \in Kinds /\ chips' = Append(chips, Chip("samples", nextId))
    BY <1>8 DEF InitSound, AddChip
  <2>2. chips' \in Seq([kind : Kinds, id : Nat])
    BY ONLY <2>1, Added
  <2>3. mixer' = MixerFor(chips', quiet, silent) /\ muted' = silent /\ silent \in BOOLEAN
    BY <1>8 DEF InitSound, AddChip
  <2>4. Flagged'
    BY <1>8, <2>2, <2>3, MixerForFits DEF InitSound
  <2>5. Held'
    BY <1>8 DEF InitSound, AddChip, Chip
  <2>6. Drawn'
    BY <1>8 DEF InitSound, AddChip, Chip
  <2>7. Listed'
    BY <1>8 DEF InitSound, AddChip, Chip
  <2>8. Disced'
    BY <1>8 DEF InitSound, AddChip, Chip
  <2>9. Sounding'
    BY <1>8 DEF InitSound, AddChip, Chip
  <2>10. Called'
    BY <1>8 DEF InitSound, AddChip, Chip
  <2>11. MixerFits'
    BY <1>8, <2>2, <2>3, MixerForFits DEF InitSound
  <2>12. QED
    BY <2>4, <2>5, <2>6, <2>7, <2>8, <2>9, <2>10, <2>11 DEF IInv
<1>9. ASSUME InitInput PROVE IInv'
  BY <1>9 DEF InitInput
<1>10. ASSUME InputFails PROVE IInv'
  BY <1>10 DEF InputFails
<1>11. ASSUME VideoInit PROVE IInv'
  BY <1>11 DEF VideoInit
<1>12. ASSUME VideoFails PROVE IInv'
  <2>1. Flagged'
    BY <1>12 DEF VideoFails
  <2>2. Held'
    BY <1>12 DEF VideoFails
  <2>3. Drawn'
    BY <1>12 DEF VideoFails
  <2>4. Listed'
    BY <1>12 DEF VideoFails
  <2>5. Disced'
    BY <1>12 DEF VideoFails
  <2>6. Sounding'
    BY <1>12 DEF VideoFails
  <2>7. Called'
    BY <1>12 DEF VideoFails
  <2>8. MixerFits'
    BY <1>12 DEF VideoFails
  <2>9. QED
    BY <2>1, <2>2, <2>3, <2>4, <2>5, <2>6, <2>7, <2>8 DEF IInv
<1>13. ASSUME LoadLib PROVE IInv'
  BY <1>13 DEF LoadLib
<1>14. ASSUME Files PROVE IInv'
  <2>1. Flagged'
    BY <1>14 DEF Files
  <2>2. Held'
    BY <1>14 DEF Files
  <2>3. Drawn'
    BY <1>14 DEF Files
  <2>4. Listed'
    BY <1>14 DEF Files
  <2>5. Disced'
    BY <1>14 DEF Files
  <2>6. Sounding'
    BY <1>14 DEF Files
  <2>7. Called'
    BY <1>14 DEF Files
  <2>8. MixerFits'
    BY <1>14 DEF Files
  <2>9. QED
    BY <2>1, <2>2, <2>3, <2>4, <2>5, <2>6, <2>7, <2>8 DEF IInv
<1>15. ASSUME AudioInit PROVE IInv'
  BY <1>15 DEF AudioInit
<1>16. ASSUME StartThread PROVE IInv'
  BY <1>16 DEF StartThread
<1>17. ASSUME Checks PROVE IInv'
  BY <1>17 DEF Checks
<1>18. ASSUME PlayerFails PROVE IInv'
  BY <1>18 DEF PlayerFails
<1>19. ASSUME AddVldpChip PROVE IInv'
  <2>1. \/ enabled /\ Idle /\ AddChip("vldp", muted) /\ chipId' = nextId
        \/ (~enabled /\ UNCHANGED <<chips, nextId, chipId, mixer, muted>>)
    BY <1>19 DEF AddVldpChip
  <2>2. enabled => /\ Listed /\ "vldp" \in Kinds
                   /\ chips' = Append(chips, Chip("vldp", nextId))
    BY <1>19, <2>1 DEF AddChip
  <2>3. enabled => chips' \in Seq([kind : Kinds, id : Nat])
    BY ONLY <2>2, Added
  <2>4. enabled => /\ mixer' = MixerFor(chips', quiet, muted)
                   /\ muted' = muted /\ muted \in BOOLEAN
    BY <1>19, <2>1 DEF AddChip
  <2>5. pc = "opened" /\ nextId \in 0..1 /\ (\A i \in DOMAIN chips : chips[i].kind # "vldp")
    BY <1>19 DEF AddVldpChip
  <2>6. /\ UNCHANGED <<res, quit, enabled, initialized, running, quiet, silent, threadVars>>
        /\ pc' = "init" /\ playerUp' = TRUE
    BY <1>19 DEF AddVldpChip
  <2>7. Flagged'
    BY <2>3, <2>4, <2>6, <2>1, MixerForFits
  <2>8. Held'
    BY <1>19 DEF AddVldpChip, AddChip, Chip
  <2>9. Drawn'
    BY <1>19 DEF AddVldpChip, AddChip, Chip
  <2>10. Listed'
    <3>1. CASE enabled
      <4>1. nextId' = nextId + 1 /\ chipId' = nextId
        BY <2>1, <3>1 DEF AddChip
      <4>2. /\ chips' \in Seq([kind : Kinds, id : Nat])
            /\ Len(chips') = Len(chips) + 1
            /\ \A i \in DOMAIN chips : i \in DOMAIN chips' /\ chips'[i] = chips[i]
            /\ chips'[Len(chips) + 1].id = nextId
            /\ \A i \in DOMAIN chips' : i \in DOMAIN chips \/ i = Len(chips) + 1
        BY <2>2, <3>1, Added
      <4>3. \A i \in DOMAIN chips' : chips'[i].id < nextId'
        <5>1. \A i \in DOMAIN chips : chips[i].id < nextId /\ chips[i].id \in Nat
          <6>1. chips \in Seq([kind : Kinds, id : Nat])
            OBVIOUS
          <6>2. \A i \in DOMAIN chips : chips[i] \in [kind : Kinds, id : Nat]
            BY ONLY <6>1, Elements
          <6>3. QED
            BY <6>2
        <5>2. QED
          BY ONLY <2>5, <4>1, <4>2, <5>1
      <4>4. \A i, j \in DOMAIN chips' : chips'[i].id = chips'[j].id => i = j
        <5>1. /\ nextId \in Nat
              /\ \A i \in DOMAIN chips : chips[i].id < nextId /\ chips[i].id \in Nat
              /\ \A i, j \in DOMAIN chips : chips[i].id = chips[j].id => i = j
          <6>1. chips \in Seq([kind : Kinds, id : Nat])
            OBVIOUS
          <6>2. \A i \in DOMAIN chips : chips[i] \in [kind : Kinds, id : Nat]
            BY ONLY <6>1, Elements
          <6>3. nextId \in Nat /\ \A i \in DOMAIN chips : chips[i].id < nextId
            BY <2>5
          <6>4. QED
            BY <6>2, <6>3
        <5>2. SUFFICES ASSUME NEW i \in DOMAIN chips', NEW j \in DOMAIN chips',
                              chips'[i].id = chips'[j].id
                       PROVE  i = j
          OBVIOUS
        <5>3. QED
          BY ONLY <4>2, <5>1, <5>2
      <4>5. QED
        BY <2>5, <2>6, <4>1, <4>2, <4>3, <4>4
    <3>2. CASE ~enabled
      <4>1. UNCHANGED <<chips, nextId, chipId>>
        BY <2>1, <3>2
      <4>2. QED
        BY <2>5, <2>6, <4>1
    <3>3. QED
      BY <3>1, <3>2
  <2>11. Disced'
    <3>1. CASE enabled
      <4>1. chipId' = nextId
        BY <2>1, <3>1
      <4>2. /\ \A i \in DOMAIN chips : chips'[i] = chips[i]
            /\ chips'[Len(chips) + 1].id = nextId
            /\ \A i \in DOMAIN chips' : i \in DOMAIN chips \/ i = Len(chips) + 1
        BY <2>2, <3>1, Added
      <4>3. QED
        BY <2>5, <2>6, <3>1, <4>1, <4>2
    <3>2. CASE ~enabled
      <4>1. UNCHANGED <<chips, nextId, chipId>>
        BY <2>1, <3>2
      <4>2. QED
        BY <2>5, <2>6, <4>1
    <3>3. QED
      BY <3>1, <3>2
  <2>12. Sounding'
    BY <1>19 DEF AddVldpChip, AddChip, Chip
  <2>13. Called'
    BY <1>19 DEF AddVldpChip, AddChip, Chip
  <2>14. MixerFits'
    BY <2>3, <2>4, <2>6, <2>1, MixerForFits
  <2>15. QED
    BY <2>7, <2>8, <2>9, <2>10, <2>11, <2>12, <2>13, <2>14 DEF IInv
<1>20. ASSUME GameInit PROVE IInv'
  BY <1>20 DEF GameInit
<1>21. ASSUME GameInitFails PROVE IInv'
  BY <1>21 DEF GameInitFails
<1>22. ASSUME Start PROVE IInv'
  BY <1>22 DEF Start
<1>23. ASSUME Stop PROVE IInv'
  BY <1>23 DEF Stop
<1>24. ASSUME PreShutdown PROVE IInv'
  BY <1>24 DEF PreShutdown
<1>25. ASSUME Join PROVE IInv'
  BY <1>25 DEF Join
<1>26. ASSUME Unchip PROVE IInv'
  <2>1. \/ enabled /\ DeleteChip(chipId) /\ chipId \in Nat /\ Listed
        \/ ~enabled /\ UNCHANGED chips
    BY <1>26 DEF Unchip
  <2>2. /\ UNCHANGED <<nextId, chipId, res, mixer, muted, initialized, enabled, quiet>>
        /\ pc = "unchip" /\ pc' = "p_free"
    BY <1>26 DEF Unchip
  <2>3. Flagged'
    BY <1>26 DEF Unchip, DeleteChip
  <2>4. Held'
    BY <1>26 DEF Unchip, DeleteChip
  <2>5. Drawn'
    BY <1>26 DEF Unchip, DeleteChip
  <2>6. Listed'
    BY <2>1, <2>2, Removed
  <2>7. Disced'
    <3>1. CASE enabled /\ DeleteChip(chipId) /\ chipId \in Nat /\ Listed
      <4>1. /\ \A i \in DOMAIN chips' : \E j \in DOMAIN chips : chips'[i] = chips[j]
            /\ \A i \in DOMAIN chips' : chips'[i].id # chipId
        BY ONLY <3>1, Removed
      <4>2. \A i \in DOMAIN chips' : chips'[i].kind # "vldp"
        BY <4>1
      <4>3. QED
        BY <4>2
    <3>2. CASE ~enabled /\ UNCHANGED chips
      BY <2>2, <3>2
    <3>3. QED
      BY <2>1, <3>1, <3>2
  <2>8. Sounding'
    BY <1>26 DEF Unchip, DeleteChip
  <2>9. Called'
    BY <1>26 DEF Unchip, DeleteChip
  <2>10. MixerFits'
    BY <2>1, <2>2, Removed
  <2>11. QED
    BY <2>3, <2>4, <2>5, <2>6, <2>7, <2>8, <2>9, <2>10 DEF IInv
<1>27. ASSUME FreePlayer PROVE IInv'
  BY <1>27 DEF FreePlayer
<1>28. ASSUME VideoShutdown PROVE IInv'
  BY <1>28 DEF VideoShutdown
<1>29. ASSUME InputShutdown PROVE IInv'
  BY <1>29 DEF InputShutdown
<1>30. ASSUME SoundShutdown PROVE IInv'
  <2>1. Flagged'
    BY <1>30 DEF SoundShutdown
  <2>2. Held'
    BY <1>30 DEF SoundShutdown
  <2>3. Drawn'
    BY <1>30 DEF SoundShutdown
  <2>4. Listed'
    BY <1>30 DEF SoundShutdown
  <2>5. Disced'
    BY <1>30 DEF SoundShutdown
  <2>6. Sounding'
    BY <1>30 DEF SoundShutdown
  <2>7. Called'
    BY <1>30 DEF SoundShutdown
  <2>8. MixerFits'
    BY <1>30 DEF SoundShutdown
  <2>9. QED
    BY <2>1, <2>2, <2>3, <2>4, <2>5, <2>6, <2>7, <2>8 DEF IInv
<1>31. ASSUME SoundIsDown PROVE IInv'
  BY <1>31 DEF SoundIsDown
<1>32. ASSUME DisplayShutdown PROVE IInv'
  BY <1>32 DEF DisplayShutdown
<1>33. ASSUME Exit PROVE IInv'
  BY <1>33 DEF Exit
<1>34. ASSUME SetQuit PROVE IInv'
  BY <1>34 DEF SetQuit, Handling
<1>35. ASSUME Unmute PROVE IInv'
  <2>1. chips \in Seq([kind : Kinds, id : Nat]) /\ FALSE \in BOOLEAN
    OBVIOUS
  <2>2. Flagged'
    BY <1>35, <2>1, MixerForFits DEF Unmute
  <2>3. Held'
    BY <1>35 DEF Unmute, Handling
  <2>4. Drawn'
    BY <1>35 DEF Unmute, Handling
  <2>5. Listed'
    BY <1>35 DEF Unmute, Handling
  <2>6. Disced'
    BY <1>35 DEF Unmute, Handling
  <2>7. Sounding'
    BY <1>35 DEF Unmute, Handling
  <2>8. Called'
    BY <1>35 DEF Unmute, Handling
  <2>9. MixerFits'
    BY <1>35, <2>1, MixerForFits DEF Unmute
  <2>10. QED
    BY <2>2, <2>3, <2>4, <2>5, <2>6, <2>7, <2>8, <2>9 DEF IInv
<1>36. ASSUME SetVolume PROVE IInv'
  <2>1. chips \in Seq([kind : Kinds, id : Nat]) /\ muted \in BOOLEAN
    OBVIOUS
  <2>2. Flagged'
    BY <1>36, <2>1, MixerForFits DEF SetVolume
  <2>3. Held'
    BY <1>36 DEF SetVolume
  <2>4. Drawn'
    BY <1>36 DEF SetVolume
  <2>5. Listed'
    BY <1>36 DEF SetVolume
  <2>6. Disced'
    BY <1>36 DEF SetVolume
  <2>7. Sounding'
    BY <1>36 DEF SetVolume
  <2>8. Called'
    BY <1>36 DEF SetVolume
  <2>9. MixerFits'
    BY <1>36, <2>1, MixerForFits DEF SetVolume
  <2>10. QED
    BY <2>2, <2>3, <2>4, <2>5, <2>6, <2>7, <2>8, <2>9 DEF IInv
<1>37. ASSUME CallbackBegins PROVE IInv'
  <2>1. Flagged'
    BY <1>37 DEF CallbackBegins
  <2>2. Held'
    BY <1>37 DEF CallbackBegins
  <2>3. Drawn'
    BY <1>37 DEF CallbackBegins
  <2>4. Listed'
    BY <1>37 DEF CallbackBegins
  <2>5. Disced'
    BY <1>37 DEF CallbackBegins
  <2>6. Sounding'
    BY <1>37 DEF CallbackBegins
  <2>7. Called'
    BY <1>37 DEF CallbackBegins
  <2>8. MixerFits'
    BY <1>37 DEF CallbackBegins
  <2>9. QED
    BY <2>1, <2>2, <2>3, <2>4, <2>5, <2>6, <2>7, <2>8 DEF IInv
<1>38. ASSUME CallbackAsks PROVE IInv'
  <2>1. /\ Tail(asked) \in Seq([kind : Kinds, id : Nat])
        /\ Range(Tail(asked)) \subseteq Range(asked)
    BY <1>38 DEF CallbackAsks, Range
  <2>2. Flagged'
    BY <1>38 DEF CallbackAsks
  <2>3. Held'
    BY <1>38 DEF CallbackAsks
  <2>4. Drawn'
    BY <1>38 DEF CallbackAsks
  <2>5. Listed'
    BY <1>38 DEF CallbackAsks
  <2>6. Disced'
    BY <1>38 DEF CallbackAsks
  <2>7. Sounding'
    BY <1>38 DEF CallbackAsks
  <2>8. Called'
    BY <1>38, <2>1 DEF CallbackAsks
  <2>9. MixerFits'
    BY <1>38 DEF CallbackAsks
  <2>10. QED
    BY <2>2, <2>3, <2>4, <2>5, <2>6, <2>7, <2>8, <2>9 DEF IInv
<1>39. ASSUME CallbackMixes PROVE IInv'
  <2>1. calling' \in BOOLEAN
    BY <1>39, Zenon DEF CallbackMixes
  <2>2. UNCHANGED <<mainVars, soundVars, drawing>>
    BY <1>39 DEF CallbackMixes
  <2>3. Flagged'
    BY <2>1, <2>2
  <2>4. Held'
    BY <1>39 DEF CallbackMixes
  <2>5. Drawn'
    BY <1>39 DEF CallbackMixes
  <2>6. Listed'
    BY <1>39 DEF CallbackMixes
  <2>7. Disced'
    BY <1>39 DEF CallbackMixes
  <2>8. Sounding'
    BY <1>39 DEF CallbackMixes
  <2>9. Called'
    BY <1>39 DEF CallbackMixes
  <2>10. MixerFits'
    BY <1>39 DEF CallbackMixes
  <2>11. QED
    BY <2>3, <2>4, <2>5, <2>6, <2>7, <2>8, <2>9, <2>10 DEF IInv
<1>40. ASSUME MakeOverlay PROVE IInv'
  BY <1>40 DEF MakeOverlay
<1>41. ASSUME OpenSucceeds PROVE IInv'
  <2>1. Flagged'
    BY <1>41 DEF OpenSucceeds
  <2>2. Held'
    BY <1>41 DEF OpenSucceeds
  <2>3. Drawn'
    BY <1>41 DEF OpenSucceeds
  <2>4. Listed'
    BY <1>41 DEF OpenSucceeds
  <2>5. Disced'
    BY <1>41 DEF OpenSucceeds
  <2>6. Sounding'
    BY <1>41 DEF OpenSucceeds
  <2>7. Called'
    BY <1>41 DEF OpenSucceeds
  <2>8. MixerFits'
    BY <1>41 DEF OpenSucceeds
  <2>9. QED
    BY <2>1, <2>2, <2>3, <2>4, <2>5, <2>6, <2>7, <2>8 DEF IInv
<1>42. ASSUME OpenFails PROVE IInv'
  BY <1>42 DEF OpenFails
<1>43. ASSUME DrawBegins PROVE IInv'
  BY <1>43 DEF DrawBegins
<1>44. ASSUME DrawEnds PROVE IInv'
  <2>1. drawing' \in BOOLEAN
    BY <1>44, Zenon DEF DrawEnds
  <2>2. UNCHANGED <<mainVars, soundVars, calling>>
    BY <1>44 DEF DrawEnds
  <2>3. Flagged'
    BY <2>1, <2>2
  <2>4. Held'
    BY <1>44 DEF DrawEnds
  <2>5. Drawn'
    BY <1>44 DEF DrawEnds
  <2>6. Listed'
    BY <1>44 DEF DrawEnds
  <2>7. Disced'
    BY <1>44 DEF DrawEnds
  <2>8. Sounding'
    BY <1>44 DEF DrawEnds
  <2>9. Called'
    BY <1>44 DEF DrawEnds
  <2>10. MixerFits'
    BY <1>44 DEF DrawEnds
  <2>11. QED
    BY <2>3, <2>4, <2>5, <2>6, <2>7, <2>8, <2>9, <2>10 DEF IInv
<1>45. ASSUME ThreadEnds PROVE IInv'
  BY <1>45 DEF ThreadEnds
<1>46. ASSUME UNCHANGED vars PROVE IInv'
  BY <1>46
<1>47. QED
  BY <1>1, <1>2, <1>3, <1>4, <1>5, <1>6, <1>7, <1>8, <1>9, <1>10, <1>11,
     <1>12, <1>13, <1>14, <1>15, <1>16, <1>17, <1>18, <1>19, <1>20, <1>21, <1>22,
     <1>23, <1>24, <1>25, <1>26, <1>27, <1>28, <1>29, <1>30, <1>31, <1>32, <1>33,
     <1>34, <1>35, <1>36, <1>37, <1>38, <1>39, <1>40, <1>41, <1>42, <1>43, <1>44,
     <1>45, <1>46
     DEF Next, Up, Down, Callback, Private

-----------------------------------------------------------------------------
\* Whatever fails, each point of the main thread has what it needs, and nothing else
\* of the program's own.
THEOREM InvCorrect == Spec => []IInv
<1>1. Init => IInv
  BY InitInv
<1>2. IInv /\ [Next]_vars => IInv'
  BY StepInv
<1>3. QED
  BY <1>1, <1>2, PTL DEF Spec

\* In whatever order the start fails or the program is brought down, a picture is
\* drawn with the library, the overlay and the surfaces in place, and the audio
\* thread walks chips of the list (shutdown_player, sound_shutdown).
THEOREM ThreadsAreServed == Spec => []UsesWhatIsThere
<1>1. IInv => UsesWhatIsThere
  <2> SUFFICES ASSUME IInv PROVE UsesWhatIsThere
    OBVIOUS
  <2>1. "thread" \in res => "surfaces" \in res
    BY DEF IInv, Drawn, Held, Shown, Ready, Leaving
  <2>2. QED
    BY <2>1 DEF IInv, Drawn, Disced, Sounding, Called, UsesWhatIsThere, Idle
<1>2. QED
  BY InvCorrect, <1>1, PTL

\* The mixer of the audio thread fits the chips it mixes, through every start, change
\* of volume and shutdown (update_soundchip_volumes).
THEOREM MixerIsRight == Spec => []MixerFits
<1>1. IInv => MixerFits
  BY DEF IInv
<1>2. QED
  BY InvCorrect, <1>1, PTL

\* What main holds exactly, up to the point where load_waves may end the program.
Early ==
  /\ pc = "options" => res = {}
  /\ pc = "display" => res = {"objects"}
  /\ pc = "sound" => res = {"objects", "bmps", "display"}
  /\ pc = "exit126" => res = {"objects", "bmps", "display", "device"}

\* The early steps take what they say and none comes back to them.
LEMMA EarlyStep == Early /\ [Next]_vars => Early'
<1> SUFFICES ASSUME Early, [Next]_vars PROVE Early'
  OBVIOUS
<1> USE DEF Early, Goto, Take
<1>1. CASE ParseOptions \/ OptionsFail \/ InitDisplay \/ DisplayFails \/ SoundOff
  BY <1>1 DEF ParseOptions, OptionsFail, InitDisplay, DisplayFails, SoundOff
<1>2. CASE SoundFails \/ WavesMissing \/ InitSound \/ InitInput \/ InputFails
  BY <1>2 DEF SoundFails, WavesMissing, InitSound, InitInput, InputFails
<1>3. CASE VideoInit \/ VideoFails \/ LoadLib \/ Files \/ StartThread \/ Checks
  BY <1>3 DEF VideoInit, VideoFails, LoadLib, Files, StartThread, Checks
<1>4. CASE AudioInit \/ PlayerFails \/ AddVldpChip \/ GameInit \/ GameInitFails \/ Start
  BY <1>4 DEF AudioInit, PlayerFails, AddVldpChip, GameInit, GameInitFails, Start
<1>5. CASE Down
  BY <1>5 DEF Down, Stop, PreShutdown, Join, Unchip, FreePlayer, VideoShutdown,
              InputShutdown, SoundShutdown, SoundIsDown, DisplayShutdown, Exit
<1>6. CASE SetQuit \/ Unmute \/ SetVolume \/ Callback \/ UNCHANGED vars
  BY <1>6 DEF SetQuit, Unmute, SetVolume, Callback, CallbackBegins, CallbackAsks,
              CallbackMixes, vars, mainVars
<1>7. CASE Private
  BY <1>7 DEF Private, MakeOverlay, OpenSucceeds, OpenFails, DrawBegins, DrawEnds,
              ThreadEnds, mainVars
<1> QED
  BY <1>1, <1>2, <1>3, <1>4, <1>5, <1>6, <1>7 DEF Next, Up

\* Whatever failed, main has freed what is its own but for surfaces, and exit(126)
\* (sound.cpp:325-330) leaves what was held there and no thread or chip.
THEOREM WhatIsLeft == Spec => []LeftAtEnd
<1>1. Init => Early
  BY DEF Init, Early
<1>2. Spec => []Early
  BY <1>1, EarlyStep, PTL DEF Spec
<1>3. IInv /\ Early => LeftAtEnd
  BY DEF IInv, Held, Drawn, Sounding, Early, Late, Before, Ready, LeftAtEnd
<1> QED
  BY InvCorrect, <1>2, <1>3, PTL
=============================================================================
