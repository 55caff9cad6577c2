---------------------------- MODULE OverlayProofs ----------------------------
(***************************************************************************)
(* Theorems about Overlay, for every set of sizes and every width of them. *)
(* Everything follows from one invariant that says who waits for whom: the *)
(* surfaces change only while the private thread is parked or gone, and    *)
(* the screen is drawn on only while the overlay that is there is going to *)
(* be replaced.                                                            *)
(***************************************************************************)
EXTENDS Overlay, TLAPS

\* The types of the main thread's variables and of the private thread's.
MainTypes ==
  /\ pc \in {"loop", "waits", "looks", "meters", "locking", "frees", "makes",
             "unlocks", "painting", "joining", "freeing", "surfaces", "gone"}
  /\ {started, quit, needs, asked, late} \subseteq BOOLEAN
  /\ disc \in Sizes /\ fit \in Sizes /\ surf \in [Idx -> Sizes \cup {NoSize}]
  /\ active \in Idx /\ finished \in Idx
PrivTypes ==
  /\ priv \in {"show", "closing", "scanning", "reporting", "parked", "ended"}
  /\ status \in {"busy", "stopped", "error"} /\ info \in Sizes \cup {NoSize}
  /\ status = "stopped" => info \in Sizes
  /\ priv \in {"scanning", "reporting"} => info \in Sizes
  /\ blanks \in 0..2 /\ overlay \in Sizes \cup {NoSize}
  /\ {got, parsed, smudged} \subseteq BOOLEAN
  /\ reading \in [surface : Idx, size : Sizes \cup {NoSize}, passed : BOOLEAN, busy : BOOLEAN]

Blitting == {"locking", "frees", "makes", "unlocks", "painting"}
Opening == {"closing", "scanning", "reporting"}

\* Who waits for whom.
Places ==
  /\ ~Free => priv \in {"show", "closing"}
  /\ pc \in {"frees", "makes", "unlocks"} => priv = "parked"
  /\ pc \in {"freeing", "surfaces", "gone"} => priv = "ended"
  /\ priv \in Opening => status = "busy" /\ pc \in {"waits", "looks", "meters"}
  /\ \A i \in Idx : surf[i] = NoSize => pc \in {"makes", "gone"}

\* A report that is not drawn yet, and a screen that was drawn on, have the overlay
\* replaced before the file is open.
Meter ==
  late \/ /\ pc = "meters" => got
          /\ got => parsed
          /\ smudged => parsed
          /\ status = "stopped" => ~parsed

\* Whose turn the two surfaces are at.
Turns ==
  /\ pc \in Blitting => started /\ finished = 1 - active
  /\ pc \notin Blitting => finished = active
  /\ pc = "locking" => disc # fit
  /\ pc \in {"makes", "unlocks", "painting"} => disc = fit
  /\ ~Free /\ ~reading.passed /\ reading.surface # finished =>
       started /\ disc # fit /\ pc \in {"loop", "locking", "joining"}

IInv == MainTypes /\ PrivTypes /\ Places /\ UsesAlive /\ Meter /\ SizeFits /\ Turns

\* The types of the main thread's variables are kept.
LEMMA MainTypesKept == MainTypes /\ PrivTypes /\ Places /\ [Next]_vars => MainTypes'
<1> SUFFICES ASSUME MainTypes /\ PrivTypes /\ Places, [Next]_vars PROVE MainTypes'
  OBVIOUS
<1> USE DEF vars, mainVars, gameVars, privVars, overlayVars, parseVars, Free, Idx, MainTypes, PrivTypes, Places
<1>1. CASE Open
  BY <1>1 DEF Open
<1>2. CASE WaitLooks
  BY <1>2 DEF WaitLooks
<1>3. CASE AskUpdate
  BY <1>3 DEF AskUpdate
<1>4. CASE SetQuit
  BY <1>4 DEF SetQuit
<1>5. CASE Joined
  BY <1>5 DEF Joined
<1>6. CASE ReadBegins
  BY <1>6 DEF ReadBegins, Fewer
<1>7. CASE ParkLate
  BY <1>7 DEF ParkLate
<1>8. CASE WaitEnds
  BY <1>8 DEF WaitEnds
<1>9. CASE Starts
  BY <1>9 DEF Starts
<1>10. CASE Blit
  BY <1>10 DEF Blit
<1>11. CASE LockTimesOut
  BY <1>11 DEF LockTimesOut
<1>12. CASE SurfacesFreed
  BY <1>12 DEF SurfacesFreed, Both
<1>13. CASE SurfacesMade
  BY <1>13 DEF SurfacesMade, Both
<1>14. CASE Painted
  BY <1>14 DEF Painted
<1>15. CASE VideoShutdown
  BY <1>15 DEF VideoShutdown, Both
<1>16. CASE Report
  BY <1>16 DEF Report
<1>17. CASE
  WaitBusy \/ MeterDrawn \/ LockGranted \/ Unlock \/ Leave \/ OverlayFreed \/
  ReadEnds \/ OpenFails \/ HasIndex \/ ScanBegins \/ ScanReports \/ ScanEnds
  BY <1>17 DEF WaitBusy, MeterDrawn, LockGranted, Unlock, Leave, OverlayFreed,
    ReadEnds, OpenFails, HasIndex, ScanBegins, ScanReports, ScanEnds, Closed,
    Fewer, Nothing
<1>18. CASE UNCHANGED vars
  BY <1>18
<1> QED
  BY <1>1, <1>2, <1>3, <1>4, <1>5, <1>6, <1>7, <1>8, <1>9, <1>10, <1>11,
    <1>12, <1>13, <1>14, <1>15, <1>16, <1>17, <1>18 DEF Next, MainNext,
    PrivNext

\* The types of the private thread's variables are kept.
LEMMA PrivTypesKept == MainTypes /\ PrivTypes /\ [Next]_vars => PrivTypes'
<1> SUFFICES ASSUME MainTypes /\ PrivTypes, [Next]_vars PROVE PrivTypes'
  OBVIOUS
<1> USE DEF vars, mainVars, gameVars, privVars, overlayVars, parseVars, Free, Idx, PrivTypes, MainTypes
<1>1. CASE Open
  BY <1>1 DEF Open
<1>2. CASE WaitLooks
  BY <1>2 DEF WaitLooks
<1>3. CASE MeterDrawn
  BY <1>3 DEF MeterDrawn
<1>4. CASE LockGranted
  BY <1>4 DEF LockGranted
<1>5. CASE Unlock
  BY <1>5 DEF Unlock
<1>6. CASE Joined
  BY <1>6 DEF Joined
<1>7. CASE OverlayFreed
  BY <1>7 DEF OverlayFreed
<1>8. CASE ParkLate
  BY <1>8 DEF ParkLate
<1>9. CASE ScanReports
  BY <1>9 DEF ScanReports
<1>10. CASE ScanEnds
  BY <1>10 DEF ScanEnds
<1>11. CASE Painted
  BY <1>11 DEF Painted
<1>12. CASE ReadBegins
  <2>1. blanks' \in 0..2
    BY <1>12 DEF ReadBegins, Fewer
  <2>2. reading' \in [surface : Idx, size : Sizes \cup {NoSize}, passed : BOOLEAN, busy : BOOLEAN]
    <3>1. CASE reading' = reading
      BY <3>1
    <3>2. CASE reading' = [surface |-> finished, size |-> surf[finished], passed |-> FALSE, busy |-> TRUE]
      <4>1. surf[finished] \in Sizes \cup {NoSize} /\ finished \in Idx
        OBVIOUS
      <4> QED
        BY <3>2, <4>1
    <3> QED
      BY <1>12, <3>1, <3>2 DEF ReadBegins
  <2> QED
    BY <1>12, <2>1, <2>2 DEF ReadBegins
<1>13. CASE ReadEnds
  BY <1>13 DEF ReadEnds, Fewer, Nothing
<1>14. CASE HasIndex
  BY <1>14 DEF HasIndex, Closed
<1>15. CASE ScanBegins
  BY <1>15 DEF ScanBegins, Closed
<1>16. CASE OpenFails
  BY <1>16 DEF OpenFails, Closed
<1>17. CASE Report
  BY <1>17 DEF Report
<1>18. CASE
  WaitBusy \/ WaitEnds \/ Starts \/ AskUpdate \/ Blit \/ LockTimesOut \/
  SurfacesFreed \/ SurfacesMade \/ SetQuit \/ Leave \/ VideoShutdown
  BY <1>18 DEF WaitBusy, WaitEnds, Starts, AskUpdate, Blit, LockTimesOut,
    SurfacesFreed, SurfacesMade, SetQuit, Leave, VideoShutdown, Both
<1>19. CASE UNCHANGED vars
  BY <1>19
<1> QED
  BY <1>1, <1>2, <1>3, <1>4, <1>5, <1>6, <1>7, <1>8, <1>9, <1>10, <1>11,
    <1>12, <1>13, <1>14, <1>15, <1>16, <1>17, <1>18, <1>19 DEF Next, MainNext,
    PrivNext

\* The threads keep to their places.
LEMMA PlacesKept == MainTypes /\ PrivTypes /\ Places /\ [Next]_vars => Places'
<1> SUFFICES ASSUME MainTypes /\ PrivTypes /\ Places, [Next]_vars PROVE Places'
  OBVIOUS
<1> USE DEF vars, mainVars, gameVars, privVars, overlayVars, parseVars, Free, Idx, Places, Opening, MainTypes, PrivTypes
<1>1. CASE Open
  BY <1>1 DEF Open
<1>2. CASE WaitBusy
  BY <1>2 DEF WaitBusy
<1>3. CASE WaitLooks
  BY <1>3 DEF WaitLooks
<1>4. CASE MeterDrawn
  BY <1>4 DEF MeterDrawn
<1>5. CASE WaitEnds
  BY <1>5 DEF WaitEnds
<1>6. CASE Blit
  BY <1>6 DEF Blit
<1>7. CASE LockGranted
  BY <1>7 DEF LockGranted
<1>8. CASE LockTimesOut
  BY <1>8 DEF LockTimesOut
<1>9. CASE SurfacesFreed
  BY <1>9 DEF SurfacesFreed, Both
<1>10. CASE SurfacesMade
  BY <1>10, SizesAssumption DEF SurfacesMade, Both
<1>11. CASE Unlock
  BY <1>11 DEF Unlock
<1>12. CASE Painted
  BY <1>12 DEF Painted
<1>13. CASE Leave
  BY <1>13 DEF Leave
<1>14. CASE Joined
  BY <1>14 DEF Joined
<1>15. CASE OverlayFreed
  BY <1>15 DEF OverlayFreed
<1>16. CASE VideoShutdown
  BY <1>16 DEF VideoShutdown, Both
<1>17. CASE ReadBegins
  BY <1>17 DEF ReadBegins, Fewer
<1>18. CASE ParkLate
  BY <1>18 DEF ParkLate
<1>19. CASE OpenFails
  BY <1>19 DEF OpenFails, Closed
<1>20. CASE ScanEnds
  BY <1>20 DEF ScanEnds
<1>21. CASE Report
  BY <1>21 DEF Report
<1>22. CASE
  Starts \/ AskUpdate \/ SetQuit \/ ReadEnds \/ HasIndex \/ ScanBegins \/
  ScanReports
  BY <1>22 DEF Starts, AskUpdate, SetQuit, ReadEnds, HasIndex, ScanBegins,
    ScanReports, Closed, Fewer, Nothing
<1>23. CASE UNCHANGED vars
  BY <1>23
<1> QED
  BY <1>1, <1>2, <1>3, <1>4, <1>5, <1>6, <1>7, <1>8, <1>9, <1>10, <1>11,
    <1>12, <1>13, <1>14, <1>15, <1>16, <1>17, <1>18, <1>19, <1>20, <1>21,
    <1>22, <1>23 DEF Next, MainNext, PrivNext

\* What is used stays.
LEMMA AliveKept == MainTypes /\ PrivTypes /\ Places /\ UsesAlive /\ [Next]_vars => UsesAlive'
<1> SUFFICES ASSUME MainTypes /\ PrivTypes /\ Places /\ UsesAlive, [Next]_vars PROVE UsesAlive'
  OBVIOUS
<1> USE DEF vars, mainVars, gameVars, privVars, overlayVars, parseVars, Free, Idx, UsesAlive, Places, Opening, MainTypes, PrivTypes
<1>1. CASE SurfacesFreed
  BY <1>1 DEF SurfacesFreed, Both
<1>2. CASE SurfacesMade
  BY <1>2 DEF SurfacesMade, Both
<1>3. CASE Painted
  BY <1>3 DEF Painted
<1>4. CASE OverlayFreed
  BY <1>4 DEF OverlayFreed
<1>5. CASE VideoShutdown
  BY <1>5 DEF VideoShutdown, Both
<1>6. CASE ReadBegins
  BY <1>6 DEF ReadBegins, Fewer
<1>7. CASE ReadEnds
  BY <1>7 DEF ReadEnds, Fewer, Nothing
<1>8. CASE Report
  BY <1>8 DEF Report
<1>9. CASE
  Open \/ WaitBusy \/ WaitLooks \/ MeterDrawn \/ WaitEnds \/ Starts \/
  AskUpdate \/ Blit \/ LockGranted \/ LockTimesOut \/ Unlock \/ SetQuit \/
  Leave \/ Joined \/ ParkLate \/ OpenFails \/ HasIndex \/ ScanBegins \/
  ScanReports \/ ScanEnds
  BY <1>9 DEF Open, WaitBusy, WaitLooks, MeterDrawn, WaitEnds, Starts,
    AskUpdate, Blit, LockGranted, LockTimesOut, Unlock, SetQuit, Leave,
    Joined, ParkLate, OpenFails, HasIndex, ScanBegins, ScanReports, ScanEnds,
    Closed
<1>10. CASE UNCHANGED vars
  BY <1>10
<1> QED
  BY <1>1, <1>2, <1>3, <1>4, <1>5, <1>6, <1>7, <1>8, <1>9, <1>10 DEF Next,
    MainNext, PrivNext

\* Reports are drawn before the overlay is made.
LEMMA MeterKept == MainTypes /\ PrivTypes /\ Places /\ Meter /\ [Next]_vars => Meter'
<1> SUFFICES ASSUME MainTypes /\ PrivTypes /\ Places /\ Meter, [Next]_vars PROVE Meter'
  OBVIOUS
<1> USE DEF vars, mainVars, gameVars, privVars, overlayVars, parseVars, Free, Idx, Meter, Places, Opening, MainTypes, PrivTypes
<1>1. CASE Open
  BY <1>1 DEF Open
<1>2. CASE WaitLooks
  BY <1>2 DEF WaitLooks
<1>3. CASE MeterDrawn
  BY <1>3 DEF MeterDrawn
<1>4. CASE ScanBegins
  BY <1>4 DEF ScanBegins, Closed
<1>5. CASE ScanReports
  BY <1>5 DEF ScanReports
<1>6. CASE ScanEnds
  BY <1>6 DEF ScanEnds
<1>7. CASE Report
  BY <1>7 DEF Report
<1>8. CASE OverlayFreed
  BY <1>8 DEF OverlayFreed
<1>9. CASE
  WaitBusy \/ WaitEnds \/ Starts \/ AskUpdate \/ Blit \/ LockGranted \/
  LockTimesOut \/ SurfacesFreed \/ SurfacesMade \/ Unlock \/ Painted \/
  SetQuit \/ Leave \/ Joined \/ VideoShutdown \/ ReadBegins \/ ReadEnds \/
  ParkLate \/ OpenFails \/ HasIndex
  BY <1>9 DEF WaitBusy, WaitEnds, Starts, AskUpdate, Blit, LockGranted,
    LockTimesOut, SurfacesFreed, SurfacesMade, Unlock, Painted, SetQuit,
    Leave, Joined, VideoShutdown, ReadBegins, ReadEnds, ParkLate, OpenFails,
    HasIndex, Both, Closed, Fewer, Nothing
<1>10. CASE UNCHANGED vars
  BY <1>10
<1> QED
  BY <1>1, <1>2, <1>3, <1>4, <1>5, <1>6, <1>7, <1>8, <1>9, <1>10 DEF Next,
    MainNext, PrivNext

\* The overlay keeps the size of the file.
LEMMA SizeKept == PrivTypes /\ Places /\ SizeFits /\ [Next]_vars => SizeFits'
<1> SUFFICES ASSUME PrivTypes /\ Places /\ SizeFits, [Next]_vars PROVE SizeFits'
  OBVIOUS
<1> USE DEF vars, mainVars, gameVars, privVars, overlayVars, parseVars, Free, Idx, SizeFits, Places, Opening, PrivTypes
<1>1. CASE OpenFails
  BY <1>1 DEF OpenFails, Closed
<1>2. CASE HasIndex
  BY <1>2 DEF HasIndex, Closed
<1>3. CASE ScanBegins
  BY <1>3 DEF ScanBegins, Closed
<1>4. CASE Report
  BY <1>4 DEF Report
<1>5. CASE OverlayFreed
  BY <1>5 DEF OverlayFreed
<1>6. CASE Joined
  BY <1>6 DEF Joined
<1>7. CASE Open
  BY <1>7 DEF Open
<1>8. CASE
  WaitBusy \/ WaitLooks \/ MeterDrawn \/ WaitEnds \/ Starts \/ AskUpdate \/
  Blit \/ LockGranted \/ LockTimesOut \/ SurfacesFreed \/ SurfacesMade \/
  Unlock \/ Painted \/ SetQuit \/ Leave \/ VideoShutdown \/ ReadBegins \/
  ReadEnds \/ ParkLate \/ ScanReports \/ ScanEnds
  BY <1>8 DEF WaitBusy, WaitLooks, MeterDrawn, WaitEnds, Starts, AskUpdate,
    Blit, LockGranted, LockTimesOut, SurfacesFreed, SurfacesMade, Unlock,
    Painted, SetQuit, Leave, VideoShutdown, ReadBegins, ReadEnds, ParkLate,
    ScanReports, ScanEnds, Both, Fewer, Nothing
<1>9. CASE UNCHANGED vars
  BY <1>9
<1> QED
  BY <1>1, <1>2, <1>3, <1>4, <1>5, <1>6, <1>7, <1>8, <1>9 DEF Next, MainNext,
    PrivNext

\* The surfaces keep their turns.
LEMMA TurnsKept == MainTypes /\ PrivTypes /\ Places /\ Turns /\ [Next]_vars => Turns'
<1> SUFFICES ASSUME MainTypes /\ PrivTypes /\ Places /\ Turns, [Next]_vars PROVE Turns'
  OBVIOUS
<1> USE DEF vars, mainVars, gameVars, privVars, overlayVars, parseVars, Free, Idx, Turns, Blitting, Places, Opening, MainTypes, PrivTypes
<1>1. CASE WaitEnds
  BY <1>1 DEF WaitEnds
<1>2. CASE Starts
  BY <1>2 DEF Starts
<1>3. CASE Blit
  BY <1>3 DEF Blit
<1>4. CASE LockGranted
  BY <1>4 DEF LockGranted
<1>5. CASE LockTimesOut
  BY <1>5 DEF LockTimesOut
<1>6. CASE SurfacesFreed
  BY <1>6 DEF SurfacesFreed, Both
<1>7. CASE SurfacesMade
  BY <1>7 DEF SurfacesMade, Both
<1>8. CASE Unlock
  BY <1>8 DEF Unlock
<1>9. CASE Painted
  BY <1>9 DEF Painted
<1>10. CASE Leave
  BY <1>10 DEF Leave
<1>11. CASE Joined
  BY <1>11 DEF Joined
<1>12. CASE ReadBegins
  BY <1>12 DEF ReadBegins, Fewer
<1>13. CASE ReadEnds
  BY <1>13 DEF ReadEnds, Fewer, Nothing
<1>14. CASE
  Open \/ WaitBusy \/ WaitLooks \/ MeterDrawn \/ AskUpdate \/ SetQuit \/
  OverlayFreed \/ VideoShutdown \/ ParkLate \/ OpenFails \/ HasIndex \/
  ScanBegins \/ ScanReports \/ ScanEnds \/ Report
  BY <1>14 DEF Open, WaitBusy, WaitLooks, MeterDrawn, AskUpdate, SetQuit,
    OverlayFreed, VideoShutdown, ParkLate, OpenFails, HasIndex, ScanBegins,
    ScanReports, ScanEnds, Report, Both, Closed
<1>15. CASE UNCHANGED vars
  BY <1>15
<1> QED
  BY <1>1, <1>2, <1>3, <1>4, <1>5, <1>6, <1>7, <1>8, <1>9, <1>10, <1>11,
    <1>12, <1>13, <1>14, <1>15 DEF Next, MainNext, PrivNext

-----------------------------------------------------------------------------
\* The invariant holds at the start and is kept.
LEMMA Initially == Init => IInv
<1> SUFFICES ASSUME Init PROVE IInv
  OBVIOUS
<1> USE DEF Init, Free, Nothing, Both, Idx
<1>1. MainTypes
  BY DEF MainTypes
<1>2. PrivTypes
  <2>1. reading \in [surface : Idx, size : Sizes \cup {NoSize}, passed : BOOLEAN, busy : BOOLEAN]
    OBVIOUS
  <2>2. {got, parsed, smudged} \subseteq BOOLEAN
    OBVIOUS
  <2> QED
    BY <2>1, <2>2 DEF PrivTypes
<1>3. Places
  BY SizesAssumption DEF Places, Opening
<1>4. UsesAlive /\ SizeFits
  BY DEF UsesAlive, SizeFits
<1>5. Meter
  BY DEF Meter
<1>6. Turns
  BY DEF Turns, Blitting
<1> QED
  BY <1>1, <1>2, <1>3, <1>4, <1>5, <1>6 DEF IInv

\* Every step keeps the invariant.
LEMMA Invariant == Spec => []IInv
<1>1. IInv /\ [Next]_vars => IInv'
  BY MainTypesKept, PrivTypesKept, PlacesKept, AliveKept, MeterKept, SizeKept, TurnsKept DEF IInv
<1> QED
  BY Initially, <1>1, PTL DEF Spec

\* Every variable keeps its type, for any sizes of pictures.
THEOREM TypeCorrect == Spec => []TypeOK
<1>1. IInv => TypeOK
  BY DEF IInv, MainTypes, PrivTypes, TypeOK
<1> QED
  BY Invariant, <1>1, PTL

\* Neither video_repaint nor the shutdown takes away the overlay or the surface a
\* picture is being made from.
THEOREM NothingUsedIsFreed == Spec => []UsesAlive
<1>1. IInv => UsesAlive
  BY DEF IInv
<1> QED
  BY Invariant, <1>1, PTL

\* Pictures of a file are drawn on an overlay of their size, and on none that the
\* meter was drawn over.
THEOREM OverlayIsTheFiles == Spec => []OverlayFits
<1>1. IInv => FreshOverlay
  BY DEF IInv, Meter, FreshOverlay, MainTypes, PrivTypes
<1>2. IInv => OverlayFits
  BY <1>1 DEF IInv, OverlayFits
<1> QED
  BY Invariant, <1>2, PTL

\* Double buffering keeps the painter a painting ahead of the reader.
THEOREM PainterKeepsAway == Spec => []PaintsTheOther
<1>1. IInv => PaintsTheOther
  BY DEF IInv, Turns, Blitting, PaintsTheOther, MainTypes, PrivTypes, Idx
<1> QED
  BY Invariant, <1>1, PTL
=============================================================================
