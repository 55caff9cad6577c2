------------------------------- MODULE Decoder -------------------------------
(***************************************************************************)
(* How the pictures of a file come to the screen, in which order and from  *)
(* which references: mpeg2_parse and the headers of libmpeg2 (decode.c,    *)
(* header.c), the three buffers of the output driver (video_out_null.c),   *)
(* decode_mpeg2 and the restart of the decoder for a search or a skip      *)
(* (vldp_internal.c).  It is what module FrameIndex takes for granted.     *)
(*                                                                         *)
(* A file is a sequence of chunks, each begun by a start code: sequence    *)
(* headers, groups of pictures, picture headers with their extension, all  *)
(* the slices of a picture as one chunk, and perhaps an end.  A chunk is   *)
(* read when the next start code is there.  Pixels are the coded number    *)
(* of the frame and whether it was decoded from what it refers to.         *)
(*                                                                         *)
(* A definition introduced as Fault is a plausible bug in the definition   *)
(* after it.                                                               *)
(***************************************************************************)
EXTENDS Integers, Sequences, FiniteSets, FiniteSetsExt, SequencesExt

CONSTANTS
  Streams,  \* bound: the files, each [chunks, index, types, fields, low]: where the
            \* pictures are (module FrameIndex), the types of its frames, whether they
            \* are coded as two fields each, and whether no picture is held back
  None      \* no buffer, no picture

Buffers == 0 .. 2
Types == {"I", "P", "B"}

\* What may come after a chunk.
Following(chunk) == CASE chunk = "seq" -> {"gop"} \cup Types
                      [] chunk = "gop" -> Types
                      [] chunk \in Types -> {"slices"}
                      [] chunk = "slices" -> {"seq", "gop", "end"} \cup Types
                      [] chunk = "end" -> {}

\* vldp_cache_sequence_header finds what it needs at the beginning.
Layout(s) ==
  /\ s.chunks \in Seq({"seq", "gop", "slices", "end"} \cup Types) /\ Len(s.chunks) > 2
  /\ s.chunks[1] = "seq" /\ s.chunks[2] = "gop"
  /\ \A n \in 1 .. Len(s.chunks) - 1 : s.chunks[n + 1] \in Following(s.chunks[n])
  /\ s.chunks[Len(s.chunks)] \in {"slices", "end"}

Indexed(s) ==
  /\ s.index \in Seq(DOMAIN s.chunks)
  /\ \A j, k \in DOMAIN s.index : j < k => s.index[j] < s.index[k]
  /\ \A n \in DOMAIN s.chunks :
       s.chunks[n] \in Types <=> \E k \in DOMAIN s.index : s.index[k] = n
  /\ Len(s.index) = IF s.fields THEN 2 * Len(s.types) ELSE Len(s.types)

\* The fields of a frame follow one another, and the second is not coded by itself.
Typed(s) ==
  \A f \in DOMAIN s.types :
    IF ~s.fields THEN s.chunks[s.index[f]] = s.types[f]
    ELSE /\ s.chunks[s.index[2 * f - 1]] = s.types[f]
         /\ s.chunks[s.index[2 * f]] \in IF s.types[f] = "B" THEN {"B"} ELSE {"P"}
         /\ s.index[2 * f] = s.index[2 * f - 1] + 2

\* A film begins with an intra picture that no B picture follows, and there are never
\* more than three of those in a row; none when no picture is held back.
Grouped(s) ==
  /\ s.types \in Seq(Types) /\ s.types # <<>> /\ s.types[1] = "I"
  /\ Len(s.types) > 1 => s.types[2] # "B"
  /\ \A f \in DOMAIN s.types :
       /\ s.low => s.types[f] # "B"
       /\ f + 3 <= Len(s.types) => \E g \in f .. f + 3 : s.types[g] # "B"

ASSUME StreamsAssumption == \A s \in Streams :
  /\ s.fields \in BOOLEAN /\ s.low \in BOOLEAN
  /\ Layout(s) /\ Indexed(s) /\ Typed(s) /\ Grouped(s)
ASSUME NoneAssumption == None \notin Int

VARIABLES
  mpeg,      \* the open file
  cur,       \* the chunk whose start code was read last (code), a picture by its type
  next,      \* the number of the chunk whose start code comes next
  coded,     \* history: the number of the frame that is decoded, in coded order
  dec,       \* mpeg2dec_t: state, action, first, whether a sequence is known, fbuf,
             \* alloc_index, coding_type, info.display_fbuf
  buf,       \* contents of g_yuv_buf
  mode,      \* "stopped", or how ivldp_render goes on: "play", "hold" when the next
             \* picture that is shown is held, "held"
  toSkip,    \* s_frames_to_skip
  screen,    \* the picture shown last
  target,    \* history: the frame that was asked for, and is to be held
  origin,    \* history: the frame decoding began with
  drawn,     \* history: how many pictures were drawn since, or skipped
  last,      \* history: the picture drawn last, or skipped
  ended      \* history: the file was read to its end, from origin on

reading == <<mpeg, cur, next, coded>>
showing == <<mode, toSkip, screen, drawn, last>>
asked == <<target, origin, ended>>
vars == <<reading, dec, buf, showing, asked>>

Chunks == mpeg.chunks
Nothing == [frame |-> None, clean |-> FALSE]

\* mpeg2_header_state_init, in a structure of zeroes.
Fresh == [state |-> "none", action |-> "seek_sequence", first |-> TRUE, known |-> FALSE,
          fbuf |-> [n \in Buffers |-> n], alloc |-> 0, type |-> "none", display |-> None]

\* Fault: the count of buffers handed over is kept.
PartialInitKeeps == [Fresh EXCEPT !.alloc = dec.alloc]

\* mpeg2_partial_init
PartialInit == Fresh

\* The video is opened and stands at its beginning.
Init ==
  /\ mpeg \in Streams /\ cur = "none" /\ next = 1 /\ coded = -1
  /\ dec = Fresh /\ buf = [b \in Buffers |-> Nothing]
  /\ mode = "stopped" /\ toSkip = 0 /\ screen = Nothing
  /\ target = None /\ origin = 0 /\ drawn = 0 /\ last = Nothing /\ ended = FALSE

-----------------------------------------------------------------------------
(* The file                                                                *)

Frames == Len(mpeg.types)
Entries == mpeg.index

References == {f \in 0 .. Frames - 1 : mpeg.types[f + 1] # "B"}
Before(f) == Max({-1} \cup {r \in References : r < f})
After(f) == Min({Frames} \cup {r \in References : r > f})
\* The place of a coded frame when the film is shown: a reference waits for the next.
Place(f) == IF mpeg.low THEN f ELSE IF f \in References THEN After(f) - 1 ELSE f - 1

-----------------------------------------------------------------------------
(* Headers (header.c), as functions of the decoder's state                 *)

\* mpeg2_set_fbuf: a buffer that holds neither reference.
SetFbuf(d, type) ==
  LET b == Min(Buffers \ {d.fbuf[1], d.fbuf[2]})
  IN [d EXCEPT !.fbuf[0] = b, !.display = IF type = "B" \/ mpeg.low THEN b ELSE @]

\* Fault: the first of all is shown at once.
RotateFirst(d, type) ==
  LET r == IF d.type = "B" THEN d
           ELSE [d EXCEPT !.fbuf[2] = d.fbuf[1], !.fbuf[1] = d.fbuf[0]]
  IN [r EXCEPT !.fbuf[0] = None, !.first = FALSE,
        !.display = IF type = "B" \/ mpeg.low THEN None ELSE r.fbuf[1]]

\* The last reference becomes the one before, and is what is shown next; the first
\* of all has none before it.
Rotate(d, type) ==
  LET r == IF d.type = "B" THEN d
           ELSE [d EXCEPT !.fbuf[2] = d.fbuf[1], !.fbuf[1] = d.fbuf[0]]
      held == type # "B" /\ ~mpeg.low
  IN [r EXCEPT !.fbuf[0] = None, !.first = @ /\ ~held,
        !.display = IF held /\ ~d.first THEN r.fbuf[1] ELSE None]

\* mpeg2_header_picture_start, if the code before called for it, and
\* mpeg2_header_picture.  The second field of a frame goes where the first is.
Picture(d, type) ==
  IF d.state = "slice_1st" THEN [d EXCEPT !.state = "picture_2nd", !.type = type]
  ELSE [SetFbuf(Rotate(d, type), type) EXCEPT !.state = "picture", !.type = type]

\* process_header of mpeg2_parse_header.
Header(d) == CASE cur = "seq" -> [d EXCEPT !.state = "sequence", !.display = None]
               [] cur = "gop" -> [d EXCEPT !.state = "gop", !.display = None]
               [] OTHER -> Picture(d, cur)

\* mpeg2_header_sequence_finalize.  Sequence headers of a file are alike, and
\* decode_mpeg2 hands over three buffers (mpeg2_set_buf) for the first it meets.
Finalize(d) == IF d.known THEN [d EXCEPT !.state = "repeated"]
               ELSE [d EXCEPT !.known = TRUE, !.alloc = @ + 3]

-----------------------------------------------------------------------------
(* mpeg2_parse, called by decode_mpeg2 until there is nothing to read      *)

Read == /\ mode \in {"play", "hold"} /\ next <= Len(Chunks)
        /\ cur' = Chunks[next] /\ next' = next + 1
        /\ coded' = IF cur' \in Types /\ ~(mpeg.fields /\ dec.state = "picture")
                    THEN coded + 1 ELSE coded
        /\ UNCHANGED <<mpeg, asked>>

\* mpeg2_seek_sequence and mpeg2_seek_header.
SeekHeader == /\ Read /\ dec.action \in {"seek_sequence", "seek_header"}
              /\ dec' = [dec EXCEPT !.action =
                   IF cur' = "seq" \/ (dec.known /\ cur' \in {"gop"} \cup Types)
                   THEN "parse_header" ELSE @]
              /\ UNCHANGED <<buf, showing>>

\* mpeg2_parse_header: the chunk is whole when the next start code is there.
ParseHeader ==
  /\ Read /\ dec.action = "parse_header"
  /\ LET d == Header(dec)
     IN dec' = CASE d.state = "sequence" /\ cur' \in {"gop"} \cup Types -> Finalize(d)
                 [] d.state = "gop" /\ cur' \in Types -> d
                 [] d.state \in {"picture", "picture_2nd"} /\ cur' = "slices" ->
                      [d EXCEPT !.action = "slices"]
                 [] OTHER -> [d EXCEPT !.action = "seek_header"]
  /\ UNCHANGED <<buf, showing>>

\* null_draw_frame: a picture that is skipped is not shown, and the one a search or
\* a step leads to is held.
Draw(picture) ==
  /\ drawn' = drawn + 1 /\ last' = picture
  /\ IF toSkip > 0 THEN toSkip' = toSkip - 1 /\ UNCHANGED <<screen, mode>>
     ELSE /\ screen' = picture /\ mode' = IF mode = "hold" THEN "held" ELSE mode
          /\ UNCHANGED toSkip

\* What a picture becomes, given what is in the buffers mpeg2_header_slice_start
\* sets up to predict it from.
Decoded ==
  LET From(b, frame) == b # None /\ buf[b] = [frame |-> frame, clean |-> TRUE]
  IN IF dec.state = "picture_2nd" THEN buf[dec.fbuf[0]]
     ELSE [frame |-> coded,
           clean |-> /\ dec.type # "I" => From(dec.fbuf[1], Before(coded))
                     /\ dec.type = "B" => From(dec.fbuf[2], Before(Before(coded)))]

\* All slices of a picture.  It is drawn, or the one it sets free, when it is whole.
Slices ==
  /\ Read /\ dec.action = "slices"
  /\ buf' = [buf EXCEPT ![dec.fbuf[0]] = Decoded]
  /\ LET half == mpeg.fields /\ dec.state = "picture"
         legal == cur' \in Types \/ (~half /\ cur' \in {"seq", "gop", "end"})
     IN /\ dec' = [dec EXCEPT !.state = IF half THEN "slice_1st" ELSE "slice",
                              !.action = IF ~legal THEN "seek_header"
                                         ELSE IF cur' = "end" THEN "header_end"
                                         ELSE "parse_header"]
        /\ IF legal /\ ~half /\ dec.display # None THEN Draw(buf'[dec.display])
           ELSE UNCHANGED showing

\* mpeg2_header_end
HeaderEnd ==
  /\ mode \in {"play", "hold"} /\ dec.action = "header_end"
  /\ dec' = [dec EXCEPT !.state = "invalid", !.action = "seek_sequence", !.known = FALSE,
               !.display = IF mpeg.low THEN None ELSE dec.fbuf[IF dec.type = "B" THEN 1 ELSE 0]]
  /\ IF mpeg.low THEN UNCHANGED showing ELSE Draw(buf[dec'.display])
  /\ UNCHANGED <<reading, buf, asked>>

\* ivldp_render has read all there is.
Eof == /\ mode \in {"play", "hold"} /\ next > Len(Chunks) /\ dec.action # "header_end"
       /\ mode' = "stopped" /\ dec' = PartialInit /\ next' = 1
       /\ ended' = TRUE /\ target' = None /\ coded' = -1
       /\ UNCHANGED <<mpeg, cur, buf, toSkip, screen, drawn, last, origin>>

-----------------------------------------------------------------------------
(* Commands (vldp_internal.c); a picture that is held waits for them       *)

\* idle_handler_open: the buffers are freed, to be allocated in the new size.
Open(s) == /\ mpeg' = s /\ next' = 1 /\ dec' = PartialInit
           /\ buf' = [b \in Buffers |-> Nothing] /\ mode' = "stopped"
           /\ screen' = Nothing /\ target' = None
           /\ origin' = 0 /\ drawn' = 0 /\ last' = Nothing /\ ended' = FALSE
           /\ coded' = -1 /\ UNCHANGED <<cur, toSkip>>

\* idle_handler_play, at the beginning of the file.
Play == /\ mode = "stopped" /\ mode' = "play" /\ toSkip' = 0
        /\ origin' = 0 /\ drawn' = 0 /\ last' = Nothing /\ ended' = FALSE
        /\ UNCHANGED <<reading, dec, buf, screen, target>>

\* paused_handler: play, or a step.
Resume == /\ mode = "held" /\ mode' = "play" /\ target' = None
          /\ UNCHANGED <<reading, dec, buf, toSkip, screen, drawn, last, origin, ended>>
Step == /\ mode = "held" /\ mode' = "hold"
        /\ target' = IF target = None THEN None ELSE target + 1
        /\ UNCHANGED <<reading, dec, buf, toSkip, screen, drawn, last, origin, ended>>

\* play_handler
Pause == /\ mode = "play" /\ mode' = "hold"
         /\ UNCHANGED <<reading, dec, buf, toSkip, screen, drawn, last, asked>>

\* The last intra picture that is not after entry i.
Back(entries, i) == Max({0} \cup {j \in 0 .. i : Chunks[entries[j + 1]] = "I"})

\* Fault: decoding may begin two entries before.
StartNear(entries, i) ==
  LET intra == Back(entries, i)
  IN IF i - intra < 2 /\ intra > 0 THEN Back(entries, intra - 1) ELSE intra

Start(entries, i) ==
  LET intra == Back(entries, i)
  IN IF i - intra < 3 /\ intra > 0 THEN Back(entries, intra - 1) ELSE intra

\* Fault: what a search that was cut short had left to skip is skipped as well.
GoResidue(f) == LET i == IF mpeg.fields THEN 2 * f ELSE f
                    from == Start(Entries, i)
                IN /\ dec' = [PartialInit EXCEPT !.action = "parse_header"]
                   /\ cur' = Chunks[1] /\ next' = Entries[from + 1] /\ toSkip' = toSkip + i - from
                   /\ origin' = IF mpeg.fields THEN from \div 2 ELSE from
                   /\ coded' = origin' - 1
                   /\ drawn' = 0 /\ last' = Nothing /\ ended' = FALSE
                   /\ UNCHANGED <<mpeg, buf, screen>>

\* idle_handler_search: the decoder reads the sequence header at the beginning of the
\* file (vldp_process_sequence_header), and goes on at an intra picture.
Go(f) == LET i == IF mpeg.fields THEN 2 * f ELSE f
             from == Start(Entries, i)
         IN /\ dec' = [PartialInit EXCEPT !.action = "parse_header"]
            /\ cur' = Chunks[1] /\ next' = Entries[from + 1] /\ toSkip' = i - from
            /\ origin' = IF mpeg.fields THEN from \div 2 ELSE from
            /\ coded' = origin' - 1
            /\ drawn' = 0 /\ last' = Nothing /\ ended' = FALSE
            /\ UNCHANGED <<mpeg, buf, screen>>

Search(f) == Go(f) /\ mode' = "hold" /\ target' = f
Skip(f) == mode = "play" /\ Go(f) /\ mode' = "play" /\ target' = None

Decode == SeekHeader \/ ParseHeader \/ Slices \/ HeaderEnd \/ Eof

Next == \/ Decode \/ Play \/ Resume \/ Step \/ Pause
        \/ \E s \in Streams : Open(s)
        \/ \E f \in 0 .. Frames - 1 : Search(f) \/ Skip(f)

Spec == Init /\ [][Next]_vars

-----------------------------------------------------------------------------
(* Properties                                                              *)

\* In a file without an end code the last picture is never whole, and it holds back
\* the one before it.
Lost == IF Last(Chunks) = "end" THEN 0 ELSE IF mpeg.low THEN 1 ELSE 2

\* The decoder has room for three buffers, and is never handed more
\* (decode_mpeg2, vldp_internal.c:405).
TypeOK ==
  /\ mpeg \in Streams /\ next \in 1 .. Len(Chunks) + 1
  /\ mode \in {"stopped", "play", "hold", "held"} /\ toSkip \in Nat
  /\ dec.alloc \in {0, 3} /\ dec.known \in BOOLEAN
  /\ \A b \in Buffers : dec.fbuf[b] \in Buffers \cup {None}

\* Pictures are drawn in the order the film has, each once, with none left out,
\* wherever decoding began, though they are stored in another order; and when a file
\* has been read to its end, all have been drawn but those that are lost.
DrawnInPlace ==
  /\ drawn > 0 => last.frame # None /\ Place(last.frame) = origin + drawn - 1
  /\ ended => drawn = Max({0, Frames - origin - Lost})

\* What is shown was decoded from the pictures it refers to, also right after a
\* search or a skip, with up to three B pictures in a row: "if we are only 2 frames
\* away from an I frame, we will get a corrupted image" (vldp_internal.c:972).
CleanOnScreen == screen # Nothing => screen.clean

\* The picture held after a search, or after steps from there, is the one that was
\* asked for (vldp_internal.c:844), in files without fields.
SearchLandsOn == mode = "held" /\ target # None /\ ~mpeg.fields =>
  screen.frame # None /\ Place(screen.frame) = target

=============================================================================
