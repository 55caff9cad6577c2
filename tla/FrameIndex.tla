----------------------------- MODULE FrameIndex -----------------------------
(***************************************************************************)
(* Where the pictures of an MPEG file are: mpegscan.c finds them, and the  *)
(* .dat file beside it keeps what was found.  Module Decoder has what is   *)
(* done with the index.  The file is read from the disk, or from the copy  *)
(* that idle_handler_precache made of it when the program started; the     *)
(* .dat file is on the disk in either case.                                *)
(*                                                                         *)
(* Bytes are bytes, offsets count from 0.  One file of the framefile is    *)
(* modelled.  External: files are replaced while they are not open, the    *)
(* disk may be full, and the program may be killed, when data it has not   *)
(* flushed is lost.                                                        *)
(*                                                                         *)
(* A definition introduced as "Fault" is a plausible bug in the definition *)
(* after it; it is not part of the specification.                          *)
(***************************************************************************)
EXTENDS Integers, Sequences, FiniteSetsExt, SequencesExt

CONSTANTS
  Files,       \* bound: what the file may hold
  Chunk,       \* PARSE_CHUNK
  MaxFrames    \* MAX_LDP_FRAMES

\* A file that is empty is left out: its copy could not be told from none.
ASSUME FilesAssumption == \A s \in Files : s \in Seq(0 .. 255) \ {<<>>}
ASSUME SizesAssumption == Chunk \in Nat \ {0} /\ MaxFrames \in Nat \ {0}

VARIABLES
  pc,       \* what the private thread does with the file
  file,     \* the file, on the disk
  cache,    \* its entry of s_sPreCacheEntries, <<>> if there is none
  from,     \* what is read: "nothing", "disk" or "memory"
  fresh,    \* no file has been opened since the program started
  scan,     \* mpegscan.c's variables
  dat,      \* the .dat file; of is history: the stream it was made from
  index,    \* g_frame_position, up to g_totalframes
  fields,   \* g_out_info.uses_fields
  full      \* the disk is full

indexVars == <<pc, file, cache, from, fresh, scan, dat, index, fields, full>>
input == <<file, cache, from, fresh>>

NotIntra == -1
NoHead == [kind |-> "none", finished |-> FALSE, fields |-> FALSE, length |-> NotIntra]
Unread == [NoHead EXCEPT !.kind = "unread"]
NoDat == [head |-> NoHead, entries |-> <<>>, of |-> <<>>]

-----------------------------------------------------------------------------
(* mpegscan.c                                                              *)

\* init_mpegscan.  last: the three bytes before pos, newest first; header: where
\* the last start code was looked for.  Of the chunk in memory, left bytes are still
\* to be parsed, and the file is over if it is short; next: how far it was read.
Unscanned == [pos |-> 0, last |-> <<0, 0, 0>>, in |-> "nothing", rel |-> 0,
              ext |-> 0, header |-> 0, fields |-> FALSE, frames |-> FALSE,
              left |-> 0, short |-> FALSE, next |-> 0]

\* The two bits of a picture's type, and of its structure.
IsIntra(byte) == (byte \div 8) % 4 = 1
Structure(byte) == byte % 4

\* One turn of parse_video_stream's loop.
ScanByte(s, ch) ==
  LET read == [s EXCEPT !.pos = @ + 1, !.rel = @ + 1, !.left = @ - 1,
                        !.last = <<ch, s.last[1], s.last[2]>>]
      at == s.pos - 3
  IN CASE s.in = "pic" /\ s.rel = 0 -> read
       [] s.in = "pic" /\ s.rel = 1 -> [read EXCEPT !.in = "nothing"]
       [] s.in = "ext" /\ s.rel = 0 -> [read EXCEPT !.ext = ch \div 16]
       [] s.in = "ext" /\ s.rel = 1 -> read
       [] s.in = "ext" /\ s.rel = 2 ->
            [read EXCEPT !.in = "nothing",
                         !.fields = @ \/ (s.ext = 8 /\ Structure(ch) \in {1, 2}),
                         !.frames = @ \/ (s.ext = 8 /\ Structure(ch) = 3)]
       [] OTHER ->
            [read EXCEPT !.rel = 0, !.header = at,
                         !.in = IF s.last # <<1, 0, 0>> THEN "nothing"
                                ELSE IF ch = 0 THEN "pic"
                                ELSE IF ch = 181 THEN "ext" ELSE "nothing"]

\* The byte that ends what is written about a picture: its offset if it is intra.
Found(s, ch) == IF s.in = "pic" /\ s.rel = 1
                  THEN <<IF IsIntra(ch) THEN s.header ELSE NotIntra>> ELSE <<>>

-----------------------------------------------------------------------------
(* The file: io_open, io_open_precached, io_length, io_close               *)

\* What io_read reads and io_length measures.
ContentOf(source) == IF source = "memory" THEN cache ELSE file
Content == ContentOf(from)

\* precache_all_video: every file once, before any is opened.
MayPrecache == pc = "closed" /\ fresh /\ cache = <<>>

\* idle_handler_precache reads the file into memory.  It fails when there is no
\* such file or no room; the program then ends.
Precache(ok) ==
  /\ MayPrecache
  /\ cache' = IF ok THEN file ELSE <<>>
  /\ UNCHANGED <<pc, file, from, fresh, scan, dat, index, fields, full>>

\* open_and_block takes the copy if there is one.
Source == IF cache = <<>> THEN "disk" ELSE "memory"

\* io_open and io_open_precached, at the beginning.
IoOpen(source) == /\ from = "nothing" /\ from' = source
                  /\ scan' = [scan EXCEPT !.next = 0]

\* A start code is at offset p.
StartsAt(s, p, code) ==
  s[p + 1] = 0 /\ s[p + 2] = 0 /\ s[p + 3] = 1 /\ s[p + 4] = code

Short(s) == Len(s) < 4
Begins(s) == ~Short(s) /\ StartsAt(s, 0, 179)

\* What does not begin with a sequence header is closed again.  A file too short
\* for one leaves small_buf as it was on the stack, which may look like one.
OpenFile ==
  /\ pc = "closed"
  /\ \/ /\ Begins(ContentOf(Source)) \/ Short(ContentOf(Source))
        /\ pc' = "look" /\ IoOpen(Source)
     \/ ~Begins(ContentOf(Source)) /\ UNCHANGED <<pc, from, scan>>
  /\ fresh' = FALSE
  /\ UNCHANGED <<file, cache, dat, index, fields, full>>

\* io_close, when the next file is opened or this one cannot be.
Closes == pc' = "closed" /\ from' = "nothing" /\ UNCHANGED <<file, cache, fresh>>

\* The end of the program, and all that it had in memory.
Exits == /\ pc' = "closed" /\ from' = "nothing" /\ cache' = <<>> /\ fresh' = TRUE
         /\ index' = <<>> /\ fields' = FALSE /\ scan' = Unscanned
         /\ UNCHANGED <<file, full>>

Close == pc = "open" /\ Closes /\ UNCHANGED <<scan, dat, index, fields, full>>

Exit == pc \in {"open", "closed"} /\ ~fresh /\ Exits /\ UNCHANGED dat

-----------------------------------------------------------------------------
(* Opening a file                                                          *)

IndexInit ==
  /\ pc = "closed" /\ file \in Files /\ scan = Unscanned
  /\ cache = <<>> /\ from = "nothing" /\ fresh = TRUE
  /\ dat = NoDat /\ index = <<>> /\ fields = FALSE
  /\ full = FALSE

\* The user puts another file in its place.
Replace(s) == /\ pc = "closed" /\ file' = s
              /\ UNCHANGED <<pc, cache, from, fresh, scan, dat, index, fields, full>>

Fill == full' = TRUE /\ UNCHANGED <<pc, input, scan, dat, index, fields>>

\* Fault: the length is that of the file on the disk.
MatchesOnDisk(head) == head.finished /\ head.length = Len(file)

Matches(head) == head.finished /\ head.length = Len(Content)

\* The .dat file is read.  A header that is too short to be read is what was in
\* memory, and may look like one that matches.
Load == /\ pc = "look" /\ dat # NoDat
        /\ IF dat.head = Unread THEN fields' \in BOOLEAN
           ELSE Matches(dat.head) /\ fields' = dat.head.fields
        /\ index' = SubSeq(dat.entries, 1, Min({Len(dat.entries), MaxFrames}))
        /\ pc' = "open"
        /\ UNCHANGED <<input, scan, dat, full>>

\* Fault: the file stays.
DiscardKeeps == /\ pc = "look" /\ dat # NoDat
                /\ dat.head = Unread \/ ~Matches(dat.head)
                /\ UNCHANGED indexVars

\* The .dat file is of no use and deleted, which may fail.
Discard == /\ pc = "look" /\ dat # NoDat
           /\ dat.head = Unread \/ ~Matches(dat.head)
           /\ \/ dat' = NoDat /\ UNCHANGED <<pc, input>>
              \/ Closes /\ UNCHANGED dat
           /\ UNCHANGED <<scan, index, fields, full>>

DatHeader(finished, f) ==
  [kind |-> "read", finished |-> finished, fields |-> f, length |-> Len(Content)]

\* ivldp_parse_mpeg_frame_offsets creates it, which may fail.  It does not go back
\* to the beginning of the file when it scans for the second time.
Create == /\ pc = "look" /\ dat = NoDat
          /\ \/ /\ pc' = "scan" /\ scan' = [Unscanned EXCEPT !.next = scan.next]
                /\ dat' = [head |-> IF full THEN Unread ELSE DatHeader(FALSE, FALSE),
                           entries |-> <<>>, of |-> Content]
                /\ UNCHANGED input
             \/ Closes /\ UNCHANGED <<scan, dat>>
          /\ UNCHANGED <<index, fields, full>>

\* io_read: what is left, from disk or memory, if it is less than a chunk.
Remaining == Min({Chunk, Len(Content) - scan.next})

\* Fault: a start code is not recognised across the end of a chunk.
ReadChunkAfresh ==
  /\ pc = "scan" /\ scan.left = 0 /\ ~scan.short
  /\ scan' = [scan EXCEPT !.left = Remaining, !.short = Remaining < Chunk,
                          !.next = @ + Remaining, !.last = <<0, 0, 0>>]
  /\ UNCHANGED <<pc, input, dat, index, fields, full>>

\* parse_video_stream reads a chunk, and is over when it came up short.
ReadChunk ==
  /\ pc = "scan" /\ scan.left = 0 /\ ~scan.short
  /\ scan' = [scan EXCEPT !.left = Remaining, !.short = Remaining < Chunk,
                          !.next = @ + Remaining]
  /\ UNCHANGED <<pc, input, dat, index, fields, full>>

\* It parses a byte of it.
Scan == /\ pc = "scan" /\ scan.left > 0
        /\ \E ch \in {Content[scan.next - scan.left + 1]} :
             /\ scan' = ScanByte(scan, ch)
             /\ dat' = [dat EXCEPT !.entries = IF full THEN @ ELSE @ \o Found(scan, ch)]
        /\ UNCHANGED <<pc, input, index, fields, full>>

\* The scan is over: the header is written anew, or the file deleted when it has
\* both fields and whole frames.
Mark == /\ pc = "scan" /\ scan.left = 0 /\ scan.short
        /\ IF scan.fields /\ scan.frames
             THEN dat' = NoDat /\ Closes
             ELSE /\ dat' = [dat EXCEPT !.head = IF @ = Unread /\ full THEN @
                                                 ELSE DatHeader(TRUE, scan.fields)]
                  /\ pc' = "look" /\ UNCHANGED input
        /\ UNCHANGED <<scan, index, fields, full>>

\* The program is killed while it opens the file.  What it had written since the
\* last flush is lost from some point on; the seek before Mark flushes the rest.
Kill == /\ pc \in {"look", "scan"}
        /\ \/ UNCHANGED dat
           \/ /\ pc # "look"
              /\ \E n \in 0 .. Len(dat.entries) :
                   dat' \in {[dat EXCEPT !.entries = SubSeq(@, 1, n)],
                             [dat EXCEPT !.head = Unread, !.entries = <<>>]}
        /\ Exits

-----------------------------------------------------------------------------
Opening == Load \/ Discard \/ Create \/ ReadChunk \/ Scan \/ Mark

IndexNext ==
  \/ \E s \in Files : Replace(s)
  \/ \E ok \in BOOLEAN : Precache(ok)
  \/ Fill \/ OpenFile \/ Opening \/ Close \/ Exit \/ Kill

\* The private thread goes on with the file it opens.
IndexSpec == IndexInit /\ [][IndexNext]_indexVars /\ WF_indexVars(Opening)

-----------------------------------------------------------------------------
(* Properties                                                              *)

\* What an index should be: the pictures of s in order, each with its offset if
\* it is intra.
PicturesOf(s) == {p \in 0 .. Len(s) - 6 : StartsAt(s, p, 0)}
Rank(s, p) == Cardinality({q \in PicturesOf(s) : q <= p})
Entry(s, p) == IF IsIntra(s[p + 6]) THEN p ELSE NotIntra
Lists(entries, s) == \A p \in PicturesOf(s) :
                        Rank(s, p) <= Len(entries) => entries[Rank(s, p)] = Entry(s, p)

\* It uses fields if one of its pictures is one.
UsesFields(s) == \E p \in 0 .. Len(s) - 7 :
                    /\ StartsAt(s, p, 181) /\ s[p + 5] \div 16 = 8
                    /\ Structure(s[p + 7]) \in {1, 2}

\* A .dat file that says it is finished lists every picture of the file it was
\* made from, whatever the chunks, and however often the program was killed, as
\* long as the disk had room (vldp_internal.c:1161).
FinishedIsWhole ==
  dat.head.finished /\ ~full =>
    /\ Len(dat.entries) = Cardinality(PicturesOf(dat.of))
    /\ Lists(dat.entries, dat.of)
    /\ dat.head.fields = UsesFields(dat.of)
    /\ dat.head.length = Len(dat.of)

\* An open file is searched by its own index, or by that of a file of the same
\* length (vldp_internal.c:1073), even when the copy in memory is read and the
\* file on the disk is no longer the one it was made from.
IndexFits == pc = "open" /\ dat.head # Unread /\ ~full =>
  /\ Len(dat.of) = Len(Content)
  /\ Len(index) = Min({Cardinality(PicturesOf(dat.of)), MaxFrames})
  /\ Lists(index, dat.of)

\* A file is open or refused in the end, unless the disk is full
\* (vldp_internal.c:1041).
OpenEnds == pc \in {"look", "scan"} ~> pc \in {"open", "closed"} \/ full
=============================================================================
