----------------------------- MODULE MpegProofs -----------------------------
(***************************************************************************)
(* What is proved about an MPEG file: that the index is right (module      *)
(* FrameIndex) and that its pictures come to the screen as they should     *)
(* (module Decoder), for every file and every film that the assumptions    *)
(* allow.                                                                  *)
(*                                                                         *)
(* The index.  A .dat file that says it is finished lists every picture,   *)
(* whatever the chunks the file was read in and however often the program  *)
(* was killed; an open file is searched by such a list.  The invariant     *)
(* says how far the file was parsed, that the three bytes the scanner      *)
(* remembers are those before it, and that it is within a picture header   *)
(* or an extension just where the file is (Scanned): so what was written   *)
(* are the pictures that end before there (ListedTo).                      *)
(*                                                                         *)
(* The decoder.  It stays within its three buffers, draws the pictures of  *)
(* the film in their order, shows none that was decoded from the wrong     *)
(* ones, and a search ends on the picture that was asked for.  The         *)
(* invariant has three parts: where the parser is in the file and which    *)
(* frame it has come to (Phase, Placed), what the buffers hold for that    *)
(* frame (Roles), and what that says of the pictures drawn so far and      *)
(* those that still have to be skipped (Counted, Asked).                   *)
(***************************************************************************)
EXTENDS Decoder, FrameIndex, TLAPS, WellFoundedInduction, FiniteSetTheorems,
        SequenceTheorems

-----------------------------------------------------------------------------
(* The index                                                               *)

Bytes == 0 .. 255

Heads == [kind : {"none", "unread", "read"}, finished : BOOLEAN, fields : BOOLEAN,
          length : Int]
Triples == Bytes \X Bytes \X Bytes
Scans == [pos : Nat, last : Triples, in : {"nothing", "pic", "ext"},
          rel : Nat, ext : Int, header : Int, fields : BOOLEAN, frames : BOOLEAN,
          left : Nat, short : BOOLEAN, next : Nat]

IndexTyping ==
  /\ pc \in {"closed", "look", "scan", "open"} /\ fields \in BOOLEAN
  /\ file \in Seq(Bytes) /\ cache \in Seq(Bytes) /\ from \in {"nothing", "disk", "memory"}
  /\ scan \in Scans
  /\ dat \in [head : Heads, entries : Seq(Int), of : Seq(Bytes)]

\* The pictures of c that end before offset p, and whether e has them.
PicturesTo(c, p) == {q \in PicturesOf(c) : q + 6 <= p}
ListedTo(e, c, p) ==
  /\ Len(e) = Cardinality(PicturesTo(c, p))
  /\ \A q \in PicturesTo(c, p) : e[Rank(c, q)] = Entry(c, q)

FieldsTo(c, p) == \E q \in 0 .. p - 7 :
                    /\ StartsAt(c, q, 181) /\ c[q + 5] \div 16 = 8
                    /\ Structure(c[q + 7]) \in {1, 2}

\* How far c was read and parsed.
Reached(s, c) == /\ s.pos + s.left = s.next /\ s.next <= Len(c)
                 /\ s.short => s.next = Len(c)

Newest(s, c) == \A i \in 1 .. 3 : s.last[i] = IF i <= s.pos THEN c[s.pos + 1 - i] ELSE 0

\* At p, the scanner is within a picture header or an extension just where c is.
InPicture(s, c, p) ==
  /\ s.in = "pic" => /\ s.rel \in {0, 1} /\ s.header = p - 4 - s.rel
                     /\ s.header >= 0 /\ StartsAt(c, s.header, 0)
  /\ \A q \in 0 .. p : q + 4 <= p /\ p < q + 6 /\ StartsAt(c, q, 0)
                       => s.in = "pic" /\ s.rel = p - 4 - q

InExtension(s, c, p) ==
  /\ s.in = "ext" =>
       /\ s.rel \in {0, 1, 2} /\ p - 4 - s.rel >= 0
       /\ StartsAt(c, p - 4 - s.rel, 181)
       /\ s.rel > 0 => s.ext = c[p - s.rel + 1] \div 16
  /\ \A q \in 0 .. p : q + 4 <= p /\ p < q + 7 /\ StartsAt(c, q, 181)
                       => s.in = "ext" /\ s.rel = p - 4 - q

Follows(s, c) == /\ Newest(s, c)
                 /\ InPicture(s, c, s.pos) /\ InExtension(s, c, s.pos)
                 /\ s.fields = FieldsTo(c, s.pos)

\* In a file that has no room for a start code nothing comes of what may look
\* like one.
Nought(s) == /\ s.pos = 0 => s.last[1] = 0
             /\ s.in # "nothing" => s.pos >= s.rel + 2
             /\ ~s.fields

Scanned(s, c) == /\ Reached(s, c)
                 /\ IF Short(c) THEN Nought(s) ELSE Begins(c) /\ Follows(s, c)

Complete(d) == /\ Len(d.entries) = Cardinality(PicturesOf(d.of))
            /\ Lists(d.entries, d.of)
            /\ d.head.fields = UsesFields(d.of)
            /\ d.head.length = Len(d.of)

Looking ==
  pc = "look" =>
    /\ from # "nothing"
    /\ Begins(Content) \/ Short(Content)
    /\ scan.next # 0 => dat.head.finished /\ dat.head.length = Len(Content)

Scanning ==
  pc = "scan" =>
    /\ from # "nothing" /\ dat.of = Content
    /\ ~dat.head.finished /\ dat.head # Unread
    /\ Scanned(scan, Content) /\ ListedTo(dat.entries, Content, scan.pos)

Reading ==
  pc = "open" /\ dat.head # Unread =>
    /\ dat.head.finished /\ dat.head.length = Len(Content)
    /\ index = SubSeq(dat.entries, 1, Min({Len(dat.entries), MaxFrames}))

IndexInv == ~full => /\ IndexTyping
                     /\ dat.head.finished => Complete(dat)
                     /\ Looking /\ Scanning /\ Reading

\* The least of two numbers.
LEMMA LesserIs ==
  ASSUME NEW a \in Int, NEW b \in Int
  PROVE  Min({a, b}) = IF a <= b THEN a ELSE b
<1> DEFINE m == IF a <= b THEN a ELSE b
<1>1. m \in {a, b} /\ \A y \in {a, b} : m <= y
  OBVIOUS
<1>2. \A x \in {a, b} : (\A y \in {a, b} : x <= y) => x = m
  OBVIOUS
<1> QED BY <1>1, <1>2 DEF Min

\* One turn of the loop, field by field.
LEMMA ScanByteIs ==
  ASSUME NEW s \in Scans, NEW ch \in Bytes, s.left > 0, NEW t, t = ScanByte(s, ch)
  PROVE  /\ t \in Scans
         /\ t.pos = s.pos + 1 /\ t.left = s.left - 1
         /\ t.next = s.next /\ t.short = s.short
         /\ t.last = <<ch, s.last[1], s.last[2]>>
         /\ s.in = "pic" /\ s.rel = 0 =>
              t.in = "pic" /\ t.rel = 1 /\ t.header = s.header /\ t.fields = s.fields
         /\ s.in = "pic" /\ s.rel = 1 => t.in = "nothing" /\ t.fields = s.fields
         /\ s.in = "ext" /\ s.rel = 0 =>
              t.in = "ext" /\ t.rel = 1 /\ t.ext = ch \div 16 /\ t.fields = s.fields
         /\ s.in = "ext" /\ s.rel = 1 =>
              t.in = "ext" /\ t.rel = 2 /\ t.ext = s.ext /\ t.fields = s.fields
         /\ s.in = "ext" /\ s.rel = 2 =>
              /\ t.in = "nothing"
              /\ t.fields = (s.fields \/ (s.ext = 8 /\ Structure(ch) \in {1, 2}))
         /\ s.in = "nothing" =>
              /\ t.rel = 0 /\ t.header = s.pos - 3 /\ t.fields = s.fields
              /\ t.in = IF s.last # <<1, 0, 0>> THEN "nothing"
                        ELSE IF ch = 0 THEN "pic"
                        ELSE IF ch = 181 THEN "ext" ELSE "nothing"
         /\ ~(s.in = "pic" /\ s.rel \in {0, 1}) /\ ~(s.in = "ext" /\ s.rel \in 0 .. 2) =>
              /\ t.rel = 0 /\ t.fields = s.fields
              /\ t.in # "nothing" => s.last[1] = 1
<1> DEFINE three == <<ch, s.last[1], s.last[2]>>
           read == [s EXCEPT !.pos = @ + 1, !.rel = @ + 1, !.left = @ - 1,
                             !.last = three]
           code == IF s.last # <<1, 0, 0>> THEN "nothing"
                   ELSE IF ch = 0 THEN "pic" ELSE IF ch = 181 THEN "ext" ELSE "nothing"
<1>1. s.last \in Triples /\ s.pos \in Nat /\ s.rel \in Nat /\ s.left \in Nat
  BY DEF Scans
<1>2. three \in Triples
  BY <1>1 DEF Triples
<1>3. s.pos + 1 \in Nat /\ s.rel + 1 \in Nat /\ s.left - 1 \in Nat /\ ch \div 16 \in Int
  BY <1>1 DEF Bytes
<1>4. /\ read \in Scans
      /\ read.pos = s.pos + 1 /\ read.left = s.left - 1 /\ read.rel = s.rel + 1
      /\ read.next = s.next /\ read.short = s.short /\ read.last = three
      /\ read.in = s.in /\ read.header = s.header /\ read.ext = s.ext
      /\ read.fields = s.fields /\ read.frames = s.frames
  <2> HIDE DEF three
  <2> QED BY <1>2, <1>3 DEF Scans
<1> HIDE DEF read
<1>5. CASE s.in = "pic" /\ s.rel = 0
  <2>1. t = read
    BY <1>5 DEF ScanByte, read
  <2> QED BY <1>4, <1>5, <2>1
<1>6. CASE s.in = "pic" /\ s.rel = 1
  <2>1. t = [read EXCEPT !.in = "nothing"]
    BY <1>6 DEF ScanByte, read
  <2> QED BY <1>4, <1>6, <2>1 DEF Scans
<1>7. CASE s.in = "ext" /\ s.rel = 0
  <2>1. t = [read EXCEPT !.ext = ch \div 16]
    BY <1>7 DEF ScanByte, read
  <2> QED BY <1>3, <1>4, <1>7, <2>1 DEF Scans
<1>8. CASE s.in = "ext" /\ s.rel = 1
  <2>1. t = read
    BY <1>8 DEF ScanByte, read
  <2> QED BY <1>4, <1>8, <2>1
<1>9. CASE s.in = "ext" /\ s.rel = 2
  <2>1. t = [read EXCEPT !.in = "nothing",
                         !.fields = @ \/ (s.ext = 8 /\ Structure(ch) \in {1, 2}),
                         !.frames = @ \/ (s.ext = 8 /\ Structure(ch) = 3)]
    BY <1>9 DEF ScanByte, read
  <2>2. \A x, y \in BOOLEAN :
          [read EXCEPT !.in = "nothing", !.fields = x, !.frames = y] \in Scans
    BY <1>4 DEF Scans
  <2>3. /\ (read.fields \/ (s.ext = 8 /\ Structure(ch) \in {1, 2})) \in BOOLEAN
        /\ (read.frames \/ (s.ext = 8 /\ Structure(ch) = 3)) \in BOOLEAN
    OBVIOUS
  <2>4. t \in Scans
    BY <2>1, <2>2, <2>3
  <2>5. /\ t.in = "nothing" /\ t.fields = (read.fields \/ (s.ext = 8 /\ Structure(ch) \in {1, 2}))
        /\ t.pos = read.pos /\ t.left = read.left /\ t.next = read.next
        /\ t.short = read.short /\ t.last = read.last
    BY <1>4, <2>1 DEF Scans
  <2> QED BY <1>4, <1>9, <2>4, <2>5
<1>10. CASE ~(s.in = "pic" /\ s.rel \in {0, 1}) /\ ~(s.in = "ext" /\ s.rel \in 0 .. 2)
  <2>1. t = [read EXCEPT !.rel = 0, !.header = s.pos - 3, !.in = code]
    BY <1>10 DEF ScanByte, read
  <2>2. code \in {"nothing", "pic", "ext"} /\ (code # "nothing" => s.last[1] = 1)
    <3>1. code # "nothing" => s.last = <<1, 0, 0>>
      OBVIOUS
    <3> QED BY <3>1
  <2> HIDE DEF code, three
  <2>3. s.pos - 3 \in Int
    BY <1>1
  <2>4. t \in Scans
    <3>1. \A h \in Int, c \in {"nothing", "pic", "ext"} :
            [read EXCEPT !.rel = 0, !.header = h, !.in = c] \in Scans
      BY <1>4 DEF Scans
    <3>2. code \in {"nothing", "pic", "ext"}
      BY <2>2
    <3> QED BY <2>1, <2>3, <3>1, <3>2
  <2>5. /\ t.rel = 0 /\ t.header = s.pos - 3 /\ t.in = code
        /\ t.pos = s.pos + 1 /\ t.left = s.left - 1
        /\ t.next = s.next /\ t.short = s.short /\ t.last = three
        /\ t.fields = s.fields
    BY <1>4, <2>1 DEF Scans
  <2> QED BY <1>10, <2>2, <2>4, <2>5 DEF code, three
<1>11. s.in \in {"nothing", "pic", "ext"}
  BY DEF Scans
<1> QED BY <1>1, <1>5, <1>6, <1>7, <1>8, <1>9, <1>10, <1>11

\* A byte more of the file.
LEMMA ReachedByte ==
  ASSUME NEW c \in Seq(Bytes), NEW s \in Scans, Reached(s, c), s.left > 0
  PROVE  /\ s.pos + 1 \in 1 .. Len(c) /\ c[s.pos + 1] \in Bytes
         /\ ScanByte(s, c[s.pos + 1]) \in Scans
         /\ Reached(ScanByte(s, c[s.pos + 1]), c)
<1>1. s.pos \in Nat /\ s.left \in Nat /\ s.next \in Nat /\ Len(c) \in Nat
  BY DEF Scans
<1>2. s.pos + 1 \in 1 .. Len(c)
  BY <1>1 DEF Reached
<1>3. c[s.pos + 1] \in Bytes
  BY <1>2, ElementOfSeq
<1>4. PICK t : t = ScanByte(s, c[s.pos + 1])
  OBVIOUS
<1>5. /\ t \in Scans /\ t.pos = s.pos + 1 /\ t.left = s.left - 1
      /\ t.next = s.next /\ t.short = s.short
  BY <1>3, <1>4, ScanByteIs
<1>6. Reached(t, c)
  BY <1>1, <1>5 DEF Reached
<1> QED BY <1>2, <1>3, <1>4, <1>5, <1>6

\* The three bytes before it.
LEMMA NewestByte ==
  ASSUME NEW c \in Seq(Bytes), NEW s \in Scans, NEW t \in Scans,
         Newest(s, c), t.pos = s.pos + 1, t.last = <<c[s.pos + 1], s.last[1], s.last[2]>>
  PROVE  Newest(t, c)
<1>1. s.pos \in Nat
  BY DEF Scans
<1>2. t.last[1] = c[s.pos + 1] /\ t.last[2] = s.last[1] /\ t.last[3] = s.last[2]
  OBVIOUS
<1>3. /\ s.last[1] = IF 1 <= s.pos THEN c[s.pos] ELSE 0
      /\ s.last[2] = IF 2 <= s.pos THEN c[s.pos - 1] ELSE 0
  BY <1>1 DEF Newest
<1>4. ASSUME NEW i \in 1 .. 3
      PROVE  t.last[i] = IF i <= t.pos THEN c[t.pos + 1 - i] ELSE 0
  <2>1. CASE i = 1
    BY <1>1, <1>2, <2>1
  <2>2. CASE i = 2
    BY <1>1, <1>2, <1>3, <2>2
  <2>3. CASE i = 3
    BY <1>1, <1>2, <1>3, <2>3
  <2> QED BY <2>1, <2>2, <2>3
<1> QED BY <1>4 DEF Newest

\* A start code is before the byte that is read next.
LEMMA CodeIs ==
  ASSUME NEW c \in Seq(Bytes), NEW s \in Scans, Begins(c), Newest(s, c)
  PROVE  s.last = <<1, 0, 0>> <=>
           /\ s.pos >= 3
           /\ c[s.pos - 2] = 0 /\ c[s.pos - 1] = 0 /\ c[s.pos] = 1
<1>1. s.pos \in Nat /\ s.last \in Triples
  BY DEF Scans
<1>2. /\ s.last[1] = IF 1 <= s.pos THEN c[s.pos] ELSE 0
      /\ s.last[2] = IF 2 <= s.pos THEN c[s.pos - 1] ELSE 0
      /\ s.last[3] = IF 3 <= s.pos THEN c[s.pos - 2] ELSE 0
  BY <1>1 DEF Newest
<1>3. s.last = <<1, 0, 0>> <=> s.last[1] = 1 /\ s.last[2] = 0 /\ s.last[3] = 0
  BY <1>1 DEF Triples
<1>4. c[1] = 0 /\ c[2] = 0 /\ c[3] = 1
  <2>1. StartsAt(c, 0, 179)
    BY DEF Begins
  <2> QED BY <2>1 DEF StartsAt
<1>5. s.last[1] = 1 => s.pos >= 3
  <2>1. s.pos = 0 \/ s.pos = 1 \/ s.pos = 2 \/ s.pos >= 3
    BY <1>1
  <2>2. CASE s.pos = 0
    BY <1>2, <2>2
  <2>3. CASE s.pos = 1
    BY <1>2, <1>4, <2>3
  <2>4. CASE s.pos = 2
    BY <1>2, <1>4, <2>4
  <2> QED BY <2>1, <2>2, <2>3, <2>4
<1>6. s.pos >= 3 => s.last[1] = c[s.pos] /\ s.last[2] = c[s.pos - 1]
                     /\ s.last[3] = c[s.pos - 2]
  BY <1>1, <1>2
<1> QED BY <1>3, <1>5, <1>6

\* Start codes in the bytes before p + 1.
LEMMA CodeBefore ==
  ASSUME NEW c, NEW p \in Int, NEW code
  PROVE  /\ StartsAt(c, p - 3, code) <=>
              c[p - 2] = 0 /\ c[p - 1] = 0 /\ c[p] = 1 /\ c[p + 1] = code
         /\ StartsAt(c, p - 4, code) <=>
              c[p - 3] = 0 /\ c[p - 2] = 0 /\ c[p - 1] = 1 /\ c[p] = code
         /\ StartsAt(c, p - 5, code) <=>
              c[p - 4] = 0 /\ c[p - 3] = 0 /\ c[p - 2] = 1 /\ c[p - 1] = code
         /\ StartsAt(c, p - 6, code) <=>
              c[p - 5] = 0 /\ c[p - 4] = 0 /\ c[p - 3] = 1 /\ c[p - 2] = code
<1>1. /\ p - 3 + 1 = p - 2 /\ p - 3 + 2 = p - 1 /\ p - 3 + 3 = p /\ p - 3 + 4 = p + 1
      /\ p - 4 + 1 = p - 3 /\ p - 4 + 2 = p - 2 /\ p - 4 + 3 = p - 1 /\ p - 4 + 4 = p
      /\ p - 5 + 1 = p - 4 /\ p - 5 + 2 = p - 3 /\ p - 5 + 3 = p - 2 /\ p - 5 + 4 = p - 1
      /\ p - 6 + 1 = p - 5 /\ p - 6 + 2 = p - 4 /\ p - 6 + 3 = p - 3 /\ p - 6 + 4 = p - 2
  OBVIOUS
<1>2. StartsAt(c, p - 3, code) <=>
        c[p - 2] = 0 /\ c[p - 1] = 0 /\ c[p] = 1 /\ c[p + 1] = code
  BY <1>1, Zenon DEF StartsAt
<1>3. StartsAt(c, p - 4, code) <=>
        c[p - 3] = 0 /\ c[p - 2] = 0 /\ c[p - 1] = 1 /\ c[p] = code
  BY <1>1, Zenon DEF StartsAt
<1>4. StartsAt(c, p - 5, code) <=>
        c[p - 4] = 0 /\ c[p - 3] = 0 /\ c[p - 2] = 1 /\ c[p - 1] = code
  BY <1>1, Zenon DEF StartsAt
<1>5. StartsAt(c, p - 6, code) <=>
        c[p - 5] = 0 /\ c[p - 4] = 0 /\ c[p - 3] = 1 /\ c[p - 2] = code
  BY <1>1, Zenon DEF StartsAt
<1> QED BY <1>2, <1>3, <1>4, <1>5

\* None is within the bytes that the scanner does not look at.
LEMMA CodesApart ==
  ASSUME NEW c, NEW p \in Int, NEW code, code \in {0, 181}, NEW other, other \in {0, 181}
  PROVE  /\ ~(StartsAt(c, p - 3, code) /\ StartsAt(c, p - 4, other))
         /\ ~(StartsAt(c, p - 3, code) /\ StartsAt(c, p - 5, other))
         /\ ~(StartsAt(c, p - 3, code) /\ StartsAt(c, p - 6, 181))
         /\ ~(StartsAt(c, p - 4, code) /\ StartsAt(c, p - 5, other))
         /\ ~(StartsAt(c, p - 4, code) /\ StartsAt(c, p - 6, other))
         /\ ~(StartsAt(c, p - 5, code) /\ StartsAt(c, p - 6, other))
<1>1. /\ 0 # 1 /\ 0 # 181 /\ 1 # 181 /\ code # 1 /\ other # 1
  OBVIOUS
<1>2. StartsAt(c, p - 3, code) => c[p - 2] = 0 /\ c[p - 1] = 0 /\ c[p] = 1
  BY CodeBefore
<1>3. /\ StartsAt(c, p - 4, code) => c[p - 3] = 0 /\ c[p - 2] = 0 /\ c[p - 1] = 1
      /\ StartsAt(c, p - 4, other) => c[p - 2] = 0 /\ c[p - 1] = 1 /\ c[p] = other
  BY CodeBefore
<1>4. /\ StartsAt(c, p - 5, code) => c[p - 3] = 0 /\ c[p - 2] = 1
      /\ StartsAt(c, p - 5, other) => c[p - 3] = 0 /\ c[p - 2] = 1 /\ c[p - 1] = other
  BY CodeBefore
<1>5. /\ StartsAt(c, p - 6, 181) => c[p - 3] = 1 /\ c[p - 2] = 181
      /\ StartsAt(c, p - 6, other) => c[p - 3] = 1
  BY CodeBefore
<1>6. ~(StartsAt(c, p - 3, code) /\ StartsAt(c, p - 4, other))
  BY <1>1, <1>2, <1>3, Zenon
<1>7. ~(StartsAt(c, p - 3, code) /\ StartsAt(c, p - 5, other))
  BY <1>1, <1>2, <1>4, Zenon
<1>8. ~(StartsAt(c, p - 3, code) /\ StartsAt(c, p - 6, 181))
  BY <1>1, <1>2, <1>5, Zenon
<1>9. ~(StartsAt(c, p - 4, code) /\ StartsAt(c, p - 5, other))
  BY <1>1, <1>3, <1>4, Zenon
<1>10. ~(StartsAt(c, p - 4, code) /\ StartsAt(c, p - 6, other))
  BY <1>1, <1>3, <1>5, Zenon
<1>11. ~(StartsAt(c, p - 5, code) /\ StartsAt(c, p - 6, other))
  BY <1>1, <1>4, <1>5, Zenon
<1> QED BY <1>6, <1>7, <1>8, <1>9, <1>10, <1>11

\* The scanner finds the pictures' headers where they are, and only there.
LEMMA InPictureByte ==
  ASSUME NEW c, NEW s \in Scans, NEW ch \in Bytes, NEW p \in Nat, ch = c[p + 1],
         s.left > 0, NEW t, t = ScanByte(s, ch),
         s.last = <<1, 0, 0>> <=> p >= 3 /\ c[p - 2] = 0 /\ c[p - 1] = 0 /\ c[p] = 1,
         p = s.pos, InPicture(s, c, p), InExtension(s, c, p)
  PROVE  InPicture(t, c, p + 1)
<1>1. /\ s.rel \in Nat /\ s.header \in Int /\ s.in \in {"nothing", "pic", "ext"}
  BY DEF Scans
<1>2. \A q \in 0 .. p + 1 : q + 4 <= p + 1 /\ p + 1 < q + 6 => q = p - 3 \/ q = p - 4
  OBVIOUS
<1>3. p + 1 - 4 - 1 = p - 4 /\ p + 1 - 4 - 0 = p - 3 /\ p - 4 - 0 = p - 4 /\ p - 4 - 1 = p - 5
  OBVIOUS
<1>4. CASE s.in = "pic" /\ s.rel = 0
  <2>1. t.in = "pic" /\ t.rel = 1 /\ t.header = s.header
    BY <1>4, ScanByteIs
  <2>2. s.header = p - 4 /\ p - 4 >= 0 /\ StartsAt(c, p - 4, 0)
    BY <1>1, <1>3, <1>4 DEF InPicture
  <2>3. ~StartsAt(c, p - 3, 0)
    BY <2>2, CodesApart
  <2> QED BY <1>2, <1>3, <2>1, <2>2, <2>3 DEF InPicture
<1>5. CASE s.in = "pic" /\ s.rel = 1
  <2>1. t.in = "nothing"
    BY <1>5, ScanByteIs
  <2>2. s.header = p - 5 /\ StartsAt(c, p - 5, 0)
    BY <1>1, <1>3, <1>5 DEF InPicture
  <2>3. ~StartsAt(c, p - 3, 0) /\ ~StartsAt(c, p - 4, 0)
    BY <2>2, CodesApart
  <2> QED BY <1>2, <2>1, <2>3 DEF InPicture
<1>6. CASE s.in = "ext"
  <2>1. s.rel \in {0, 1, 2} /\ StartsAt(c, p - 4 - s.rel, 181)
    BY <1>6 DEF InExtension
  <2>2. t.in # "pic"
    BY <1>6, <2>1, ScanByteIs
  <2>3. StartsAt(c, p - 4, 181) \/ StartsAt(c, p - 5, 181) \/ StartsAt(c, p - 6, 181)
    <3>1. p - 4 - s.rel \in {p - 4, p - 5, p - 6}
      BY <1>1, <2>1
    <3> QED BY <2>1, <3>1
  <2>4. ~StartsAt(c, p - 3, 0)
    BY <2>3, CodesApart
  <2>5. ~StartsAt(c, p - 4, 0)
    <3>1. ~(StartsAt(c, p - 4, 0) /\ StartsAt(c, p - 4, 181))
      BY DEF StartsAt
    <3> QED BY <2>3, <3>1, CodesApart
  <2> QED BY <1>2, <2>2, <2>4, <2>5 DEF InPicture
<1>7. CASE s.in = "nothing"
  <2>1. /\ t.rel = 0 /\ t.header = p - 3
        /\ t.in = IF s.last # <<1, 0, 0>> THEN "nothing"
                  ELSE IF ch = 0 THEN "pic" ELSE IF ch = 181 THEN "ext" ELSE "nothing"
    BY <1>7, ScanByteIs
  <2>2. t.in = "pic" <=> p >= 3 /\ StartsAt(c, p - 3, 0)
    <3>1. t.in = "pic" <=> s.last = <<1, 0, 0>> /\ ch = 0
      BY <2>1
    <3> QED BY <3>1, CodeBefore
  <2>3. p - 4 >= 0 => ~StartsAt(c, p - 4, 0)
    BY <1>7 DEF InPicture
  <2>4. \A q \in 0 .. p + 1 : q + 4 <= p + 1 /\ p + 1 < q + 6 /\ StartsAt(c, q, 0)
                               => q = p - 3 /\ p >= 3
    BY <1>2, <2>3
  <2> QED BY <1>3, <2>1, <2>2, <2>4 DEF InPicture
<1>8. s.in = "pic" => s.rel \in {0, 1}
  BY DEF InPicture
<1> QED BY <1>1, <1>4, <1>5, <1>6, <1>7, <1>8

\* And the extensions.
LEMMA InExtensionByte ==
  ASSUME NEW c, NEW s \in Scans, NEW ch \in Bytes, NEW p \in Nat, ch = c[p + 1],
         s.left > 0, NEW t, t = ScanByte(s, ch),
         s.last = <<1, 0, 0>> <=> p >= 3 /\ c[p - 2] = 0 /\ c[p - 1] = 0 /\ c[p] = 1,
         p = s.pos, InPicture(s, c, p), InExtension(s, c, p)
  PROVE  InExtension(t, c, p + 1)
<1>1. /\ s.rel \in Nat /\ s.header \in Int /\ s.in \in {"nothing", "pic", "ext"}
  BY DEF Scans
<1>2. \A q \in 0 .. p + 1 :
        q + 4 <= p + 1 /\ p + 1 < q + 7 => q = p - 3 \/ q = p - 4 \/ q = p - 5
  OBVIOUS
<1>3. /\ p + 1 - 4 - 0 = p - 3 /\ p + 1 - 4 - 1 = p - 4 /\ p + 1 - 4 - 2 = p - 5
      /\ p - 4 - 0 = p - 4 /\ p - 4 - 1 = p - 5 /\ p - 4 - 2 = p - 6
      /\ p + 1 - 1 + 1 = p + 1 /\ p + 1 - 2 + 1 = p /\ p - 1 + 1 = p
  OBVIOUS
<1>4. \A q : ~(StartsAt(c, q, 0) /\ StartsAt(c, q, 181))
  BY DEF StartsAt
<1>5. CASE s.in = "pic" /\ s.rel = 0
  <2>1. t.in = "pic"
    BY <1>5, ScanByteIs
  <2>2. StartsAt(c, p - 4, 0)
    BY <1>1, <1>3, <1>5 DEF InPicture
  <2>3. ~StartsAt(c, p - 3, 181) /\ ~StartsAt(c, p - 4, 181) /\ ~StartsAt(c, p - 5, 181)
    BY <1>4, <2>2, CodesApart
  <2> QED BY <1>2, <2>1, <2>3 DEF InExtension
<1>6. CASE s.in = "pic" /\ s.rel = 1
  <2>1. t.in = "nothing"
    BY <1>6, ScanByteIs
  <2>2. StartsAt(c, p - 5, 0)
    BY <1>1, <1>3, <1>6 DEF InPicture
  <2>3. ~StartsAt(c, p - 3, 181) /\ ~StartsAt(c, p - 4, 181) /\ ~StartsAt(c, p - 5, 181)
    BY <1>4, <2>2, CodesApart
  <2> QED BY <1>2, <2>1, <2>3 DEF InExtension
<1>7. CASE s.in = "ext" /\ s.rel = 0
  <2>1. t.in = "ext" /\ t.rel = 1 /\ t.ext = ch \div 16
    BY <1>7, ScanByteIs
  <2>2. p - 4 >= 0 /\ StartsAt(c, p - 4, 181)
    BY <1>3, <1>7 DEF InExtension
  <2>3. ~StartsAt(c, p - 3, 181) /\ ~StartsAt(c, p - 5, 181)
    BY <2>2, CodesApart
  <2> QED BY <1>2, <1>3, <2>1, <2>2, <2>3 DEF InExtension
<1>8. CASE s.in = "ext" /\ s.rel = 1
  <2>1. t.in = "ext" /\ t.rel = 2 /\ t.ext = s.ext
    BY <1>8, ScanByteIs
  <2>2. p - 5 >= 0 /\ StartsAt(c, p - 5, 181) /\ s.ext = c[p] \div 16
    BY <1>3, <1>8 DEF InExtension
  <2>3. ~StartsAt(c, p - 3, 181) /\ ~StartsAt(c, p - 4, 181)
    BY <2>2, CodesApart
  <2> QED BY <1>2, <1>3, <2>1, <2>2, <2>3 DEF InExtension
<1>9. CASE s.in = "ext" /\ s.rel = 2
  <2>1. t.in = "nothing"
    BY <1>9, ScanByteIs
  <2>2. StartsAt(c, p - 6, 181)
    BY <1>3, <1>9 DEF InExtension
  <2>3. ~StartsAt(c, p - 3, 181) /\ ~StartsAt(c, p - 4, 181) /\ ~StartsAt(c, p - 5, 181)
    BY <2>2, CodesApart
  <2> QED BY <1>2, <2>1, <2>3 DEF InExtension
<1>10. CASE s.in = "nothing"
  <2>1. /\ t.rel = 0
        /\ t.in = IF s.last # <<1, 0, 0>> THEN "nothing"
                  ELSE IF ch = 0 THEN "pic" ELSE IF ch = 181 THEN "ext" ELSE "nothing"
    BY <1>10, ScanByteIs
  <2>2. t.in = "ext" <=> p >= 3 /\ StartsAt(c, p - 3, 181)
    <3>1. t.in = "ext" <=> s.last = <<1, 0, 0>> /\ ch = 181
      BY <2>1
    <3> QED BY <3>1, CodeBefore
  <2>3. /\ p - 4 >= 0 => ~StartsAt(c, p - 4, 181)
        /\ p - 5 >= 0 => ~StartsAt(c, p - 5, 181)
    BY <1>10 DEF InExtension
  <2>4. \A q \in 0 .. p + 1 : q + 4 <= p + 1 /\ p + 1 < q + 7 /\ StartsAt(c, q, 181)
                               => q = p - 3 /\ p >= 3
    BY <1>2, <2>3
  <2> QED BY <1>3, <2>1, <2>2, <2>4 DEF InExtension
<1>11. (s.in = "pic" => s.rel \in {0, 1}) /\ (s.in = "ext" => s.rel \in {0, 1, 2})
  BY DEF InPicture, InExtension
<1> QED BY <1>1, <1>5, <1>6, <1>7, <1>8, <1>9, <1>10, <1>11

\* And whether a picture was a field.
LEMMA FieldsByte ==
  ASSUME NEW c, NEW s \in Scans, NEW ch \in Bytes, NEW p \in Nat, ch = c[p + 1],
         s.left > 0, NEW t, t = ScanByte(s, ch),
         p = s.pos, InPicture(s, c, p), InExtension(s, c, p), s.fields = FieldsTo(c, p)
  PROVE  t.fields = FieldsTo(c, p + 1)
<1> DEFINE Has(q) == /\ StartsAt(c, q, 181) /\ c[q + 5] \div 16 = 8
                     /\ Structure(c[q + 7]) \in {1, 2}
<1>1. /\ s.rel \in Nat /\ s.in \in {"nothing", "pic", "ext"}
  BY DEF Scans
<1>2. FieldsTo(c, p + 1) <=> FieldsTo(c, p) \/ (p >= 6 /\ Has(p - 6))
  <2>1. FieldsTo(c, p) <=> \E q \in 0 .. p - 7 : Has(q)
    BY DEF FieldsTo
  <2>2. FieldsTo(c, p + 1) <=> \E q \in 0 .. p + 1 - 7 : Has(q)
    BY DEF FieldsTo
  <2> HIDE DEF Has
  <2>3. 0 .. p + 1 - 7 = (0 .. p - 7) \cup (IF p >= 6 THEN {p - 6} ELSE {})
    OBVIOUS
  <2> QED BY <2>1, <2>2, <2>3
<1>3. CASE s.in = "ext" /\ s.rel = 2
  <2>1. t.fields = (s.fields \/ (s.ext = 8 /\ Structure(ch) \in {1, 2}))
    BY <1>3, ScanByteIs
  <2>2. p - 4 - 2 = p - 6 /\ p - 2 + 1 = p - 1 /\ p - 6 + 5 = p - 1 /\ p - 6 + 7 = p + 1
    OBVIOUS
  <2>3. p >= 6 /\ StartsAt(c, p - 6, 181) /\ s.ext = c[p - 1] \div 16
    BY <1>3, <2>2 DEF InExtension
  <2>4. Has(p - 6) <=> s.ext = 8 /\ Structure(ch) \in {1, 2}
    BY <2>2, <2>3
  <2> HIDE DEF Has
  <2>5. FieldsTo(c, p) \in BOOLEAN /\ FieldsTo(c, p + 1) \in BOOLEAN
    BY DEF FieldsTo
  <2> QED BY <1>2, <2>1, <2>3, <2>4, <2>5
<1>4. CASE ~(s.in = "ext" /\ s.rel = 2)
  <2>1. t.fields = s.fields
    <3>1. (s.in = "pic" => s.rel \in {0, 1}) /\ (s.in = "ext" => s.rel \in {0, 1, 2})
      BY DEF InPicture, InExtension
    <3> QED BY <1>1, <1>4, <3>1, ScanByteIs
  <2>2. ~(p >= 6 /\ StartsAt(c, p - 6, 181))
    BY <1>4 DEF InExtension
  <2> HIDE DEF Has
  <2>3. FieldsTo(c, p) \in BOOLEAN /\ FieldsTo(c, p + 1) \in BOOLEAN
    BY DEF FieldsTo
  <2>4. ~(p >= 6 /\ Has(p - 6))
    BY <2>2 DEF Has
  <2> QED BY <1>2, <2>1, <2>3, <2>4
<1> QED BY <1>3, <1>4

\* A turn of the loop keeps what is said of the scanner.
LEMMA ScannedByte ==
  ASSUME NEW c \in Seq(Bytes), NEW s \in Scans, Scanned(s, c), s.left > 0
  PROVE  /\ s.pos + 1 \in 1 .. Len(c) /\ c[s.pos + 1] \in Bytes
         /\ ScanByte(s, c[s.pos + 1]) \in Scans
         /\ ScanByte(s, c[s.pos + 1]).pos = s.pos + 1
         /\ Scanned(ScanByte(s, c[s.pos + 1]), c)
<1> DEFINE ch == c[s.pos + 1]
<1>1. PICK t : t = ScanByte(s, ch)
  OBVIOUS
<1>2. Reached(s, c)
  BY DEF Scanned
<1>3. s.pos + 1 \in 1 .. Len(c) /\ ch \in Bytes /\ t \in Scans /\ Reached(t, c)
  BY <1>1, <1>2, ReachedByte
<1>4. t.pos = s.pos + 1 /\ t.last = <<ch, s.last[1], s.last[2]>>
  BY <1>1, <1>3, ScanByteIs
<1>5. s.pos \in Nat /\ s.rel \in Nat /\ Len(c) \in Nat /\ s.in \in {"nothing", "pic", "ext"}
  BY DEF Scans
<1>6. CASE Short(c)
  <2>1. ~s.fields /\ (s.in # "nothing" => s.pos >= s.rel + 2)
    BY <1>6 DEF Scanned, Nought
  <2>2. s.pos <= 2
    BY <1>3, <1>5, <1>6 DEF Short
  <2> DEFINE Same == ~t.fields /\ (t.in # "nothing" => t.pos >= t.rel + 2)
  <2>3. ASSUME s.in = "pic", s.rel \in {0, 1} PROVE Same
    <3>1. s.rel = 0
      BY <1>5, <2>1, <2>2, <2>3 DEF Nought
    <3>2. t.in = "pic" /\ t.rel = 1 /\ t.fields = s.fields
      BY <1>1, <1>3, <2>3, <3>1, ScanByteIs
    <3>3. t.pos >= t.rel + 2
      BY <1>4, <1>5, <2>1, <2>3, <3>1, <3>2
    <3> QED BY <2>1, <3>2, <3>3
  <2>4. ASSUME s.in = "ext", s.rel \in 0 .. 2 PROVE Same
    <3>1. s.rel = 0
      BY <1>5, <2>1, <2>2, <2>4 DEF Nought
    <3>2. t.in = "ext" /\ t.rel = 1 /\ t.fields = s.fields
      BY <1>1, <1>3, <2>4, <3>1, ScanByteIs
    <3>3. t.pos >= t.rel + 2
      BY <1>4, <1>5, <2>1, <2>4, <3>1, <3>2
    <3> QED BY <2>1, <3>2, <3>3
  <2>5. ASSUME ~(s.in = "pic" /\ s.rel \in {0, 1}), ~(s.in = "ext" /\ s.rel \in 0 .. 2)
        PROVE  Same
    <3>1. /\ t.rel = 0 /\ t.fields = s.fields
          /\ t.in # "nothing" => s.last[1] = 1
      BY <1>1, <1>3, <2>5, ScanByteIs
    <3>2. s.pos = 0 => s.last[1] = 0
      BY <1>6 DEF Scanned, Nought
    <3>3. t.in # "nothing" => t.pos >= t.rel + 2
      BY <1>4, <1>5, <3>1, <3>2
    <3> QED BY <2>1, <3>1, <3>3
  <2>6. Same
    BY <2>3, <2>4, <2>5
  <2>7. t.pos # 0
    BY <1>4, <1>5
  <2>8. Nought(t)
    BY <2>6, <2>7 DEF Nought
  <2> QED BY <1>1, <1>3, <1>4, <1>6, <2>8 DEF Scanned
<1>7. CASE ~Short(c)
  <2>1. Begins(c) /\ Follows(s, c)
    BY <1>7 DEF Scanned
  <2>2. /\ Newest(s, c) /\ InPicture(s, c, s.pos) /\ InExtension(s, c, s.pos)
        /\ s.fields = FieldsTo(c, s.pos)
    BY <2>1 DEF Follows
  <2>3. Newest(t, c)
    BY <1>3, <1>4, <2>2, NewestByte
  <2>4. s.last = <<1, 0, 0>> <=>
          s.pos >= 3 /\ c[s.pos - 2] = 0 /\ c[s.pos - 1] = 0 /\ c[s.pos] = 1
    BY <2>1, <2>2, CodeIs
  <2>5. InPicture(t, c, s.pos + 1)
    BY <1>1, <1>3, <1>5, <2>2, <2>4, InPictureByte
  <2>6. InExtension(t, c, s.pos + 1)
    BY <1>1, <1>3, <1>5, <2>2, <2>4, InExtensionByte
  <2>7. t.fields = FieldsTo(c, s.pos + 1)
    BY <1>1, <1>3, <1>5, <2>2, FieldsByte
  <2>8. Follows(t, c)
    BY <1>4, <2>3, <2>5, <2>6, <2>7 DEF Follows
  <2> QED BY <1>1, <1>3, <1>4, <1>7, <2>1, <2>8 DEF Scanned
<1> QED BY <1>6, <1>7

\* The pictures of a file are finitely many.
LEMMA PicturesFinite ==
  ASSUME NEW c \in Seq(Bytes)
  PROVE  /\ IsFiniteSet(PicturesOf(c)) /\ Cardinality(PicturesOf(c)) \in Nat
         /\ \A S \in SUBSET PicturesOf(c) :
              /\ IsFiniteSet(S) /\ Cardinality(S) \in Nat
              /\ Cardinality(S) <= Cardinality(PicturesOf(c))
<1>1. Len(c) \in Nat
  OBVIOUS
<1>2. IsFiniteSet(0 .. Len(c))
  BY <1>1, FS_Interval
<1>3. PicturesOf(c) \in SUBSET (0 .. Len(c))
  BY <1>1 DEF PicturesOf
<1>4. IsFiniteSet(PicturesOf(c))
  BY <1>2, <1>3, FS_Subset
<1> QED BY <1>4, FS_Subset, FS_CardinalityType

\* What is written about a picture is written when its header was read, and nothing
\* else is.
LEMMA ListedByte ==
  ASSUME NEW c \in Seq(Bytes), NEW s \in Scans, Scanned(s, c), s.left > 0,
         NEW e \in Seq(Int), ListedTo(e, c, s.pos)
  PROVE  /\ e \o Found(s, c[s.pos + 1]) \in Seq(Int)
         /\ ListedTo(e \o Found(s, c[s.pos + 1]), c, s.pos + 1)
<1> DEFINE p == s.pos
           ch == c[p + 1]
           q == p - 5
<1>1. /\ p \in Nat /\ s.rel \in Nat /\ s.header \in Int
      /\ s.in \in {"nothing", "pic", "ext"} /\ Len(c) \in Nat
  BY DEF Scans
<1>2. p + 1 \in 1 .. Len(c)
  BY ScannedByte
<1>3. CASE s.in = "pic" /\ s.rel = 1
  <2>1. ~Short(c)
    BY <1>1, <1>2, <1>3 DEF Short, Scanned, Nought
  <2>2. s.header = q /\ q >= 0 /\ StartsAt(c, q, 0)
    <3>1. InPicture(s, c, p)
      BY <2>1 DEF Scanned, Follows
    <3> QED BY <1>1, <1>3, <3>1 DEF InPicture
  <2>3. Found(s, ch) = <<Entry(c, q)>>
    <3>1. q + 6 = p + 1
      BY <1>1
    <3> QED BY <1>3, <2>2, <3>1 DEF Found, Entry
  <2>4. Entry(c, q) \in Int
    BY <1>1 DEF Entry, NotIntra
  <2> HIDE DEF q
  <2>5. q \in Nat /\ q + 6 = p + 1
    BY <1>1, <2>2 DEF q
  <2>6. PicturesTo(c, p + 1) = PicturesTo(c, p) \cup {q} /\ q \notin PicturesTo(c, p)
    <3>1. q \in PicturesOf(c)
      BY <1>1, <1>2, <2>2, <2>5 DEF PicturesOf
    <3>2. \A r \in PicturesOf(c) : r \in Int
      BY <1>1 DEF PicturesOf
    <3>3. \A r \in Int : r + 6 <= p + 1 <=> r + 6 <= p \/ r = q
      BY <1>1, <2>5
    <3>4. ~(q + 6 <= p)
      BY <1>1, <2>5
    <3> QED BY <3>1, <3>2, <3>3, <3>4 DEF PicturesTo
  <2>7. PicturesTo(c, p) \in SUBSET PicturesOf(c)
    BY DEF PicturesTo
  <2>8. Cardinality(PicturesTo(c, p + 1)) = Cardinality(PicturesTo(c, p)) + 1
    BY <2>6, <2>7, PicturesFinite, FS_AddElement
  <2>9. Len(e) = Cardinality(PicturesTo(c, p)) /\ Len(e) \in Nat
    BY DEF ListedTo
  <2>10. /\ e \o <<Entry(c, q)>> \in Seq(Int)
         /\ Len(e \o <<Entry(c, q)>>) = Len(e) + 1
         /\ \A i \in 1 .. Len(e) : (e \o <<Entry(c, q)>>)[i] = e[i]
         /\ (e \o <<Entry(c, q)>>)[Len(e) + 1] = Entry(c, q)
    BY <2>4
  <2>11. ASSUME NEW r \in PicturesTo(c, p)
         PROVE  Rank(c, r) \in 1 .. Len(e)
    <3> DEFINE S == {x \in PicturesOf(c) : x <= r}
    <3>1. S \in SUBSET PicturesTo(c, p) /\ r \in S
      <4>1. r \in PicturesOf(c) /\ r + 6 <= p
        BY DEF PicturesTo
      <4>2. \A x \in PicturesOf(c) : x \in Int
        BY <1>1 DEF PicturesOf
      <4> QED BY <1>1, <4>1, <4>2 DEF PicturesTo
    <3>2. Cardinality(S) \in Nat /\ Cardinality(S) <= Cardinality(PicturesTo(c, p))
      BY <2>7, <3>1, PicturesFinite, FS_Subset
    <3>3. Cardinality(S) # 0
      BY <2>7, <3>1, PicturesFinite, FS_EmptySet
    <3> QED BY <2>9, <3>2, <3>3 DEF Rank
  <2>12. Rank(c, q) = Len(e) + 1
    <3>1. {x \in PicturesOf(c) : x <= q} = PicturesTo(c, p + 1)
      <4>1. \A x \in PicturesOf(c) : x \in Int
        BY <1>1 DEF PicturesOf
      <4>2. \A x \in Int : x <= q <=> x + 6 <= p + 1
        BY <1>1, <2>5
      <4> QED BY <4>1, <4>2 DEF PicturesTo
    <3> QED BY <2>8, <2>9, <3>1 DEF Rank
  <2>13. ListedTo(e \o <<Entry(c, q)>>, c, p + 1)
    <3>1. \A r \in PicturesTo(c, p) : e[Rank(c, r)] = Entry(c, r)
      BY DEF ListedTo
    <3>2. \A r \in PicturesTo(c, p) : (e \o <<Entry(c, q)>>)[Rank(c, r)] = Entry(c, r)
      BY <2>10, <2>11, <3>1
    <3> QED BY <2>6, <2>8, <2>9, <2>10, <2>12, <3>2 DEF ListedTo
  <2> QED BY <2>3, <2>10, <2>13
<1>4. CASE ~(s.in = "pic" /\ s.rel = 1)
  <2>1. Found(s, ch) = <<>>
    BY <1>4 DEF Found
  <2>2. e \o <<>> = e
    OBVIOUS
  <2>3. PicturesTo(c, p + 1) = PicturesTo(c, p)
    <3>1. ASSUME NEW r \in PicturesOf(c), r + 6 = p + 1
          PROVE  FALSE
      <4>1. r \in 0 .. Len(c) - 6 /\ StartsAt(c, r, 0)
        BY DEF PicturesOf
      <4>2. ~Short(c)
        BY <1>1, <4>1 DEF Short
      <4>3. InPicture(s, c, p)
        BY <4>2 DEF Scanned, Follows
      <4>4. r \in 0 .. p /\ r + 4 <= p /\ p < r + 6 /\ p - 4 - r = 1
        BY <1>1, <3>1, <4>1
      <4> QED BY <1>4, <4>1, <4>3, <4>4 DEF InPicture
    <3>2. \A r \in PicturesOf(c) : r \in Int
      BY <1>1 DEF PicturesOf
    <3>3. \A r \in Int : r + 6 <= p + 1 <=> r + 6 <= p \/ r + 6 = p + 1
      BY <1>1
    <3> QED BY <3>1, <3>2, <3>3 DEF PicturesTo
  <2>4. ListedTo(e, c, p + 1)
    BY <2>3 DEF ListedTo
  <2> QED BY <2>1, <2>2, <2>4
<1> QED BY <1>3, <1>4

\* At the end of the file, all is written.
LEMMA ListedAll ==
  ASSUME NEW c \in Seq(Bytes), NEW s \in Scans, Scanned(s, c), s.left = 0, s.short,
         NEW e \in Seq(Int), ListedTo(e, c, s.pos)
  PROVE  /\ Len(e) = Cardinality(PicturesOf(c)) /\ Lists(e, c)
         /\ s.fields = UsesFields(c)
<1>1. s.pos = Len(c) /\ Len(c) \in Nat
  BY DEF Scanned, Reached, Scans
<1>2. PicturesTo(c, Len(c)) = PicturesOf(c)
  BY <1>1 DEF PicturesTo, PicturesOf
<1>3. s.fields = UsesFields(c)
  <2>1. CASE Short(c)
    <3>1. ~s.fields
      BY <2>1 DEF Scanned, Nought
    <3>2. 0 .. Len(c) - 7 = {}
      BY <1>1, <2>1 DEF Short
    <3> QED BY <3>1, <3>2 DEF UsesFields, Scans
  <2>2. CASE ~Short(c)
    <3>1. s.fields = FieldsTo(c, Len(c))
      BY <1>1, <2>2 DEF Scanned, Follows
    <3> QED BY <3>1 DEF FieldsTo, UsesFields
  <2> QED BY <2>1, <2>2
<1> QED BY <1>1, <1>2, <1>3 DEF ListedTo, Lists

\* The index is the beginning of the list.
LEMMA IndexIs ==
  ASSUME NEW e \in Seq(Int), NEW c \in Seq(Bytes), Lists(e, c),
         NEW i, i = SubSeq(e, 1, Min({Len(e), MaxFrames}))
  PROVE  Len(i) = Min({Len(e), MaxFrames}) /\ Lists(i, c)
<1> DEFINE m == Min({Len(e), MaxFrames})
<1>1. m \in 0 .. Len(e) /\ Len(e) \in Nat
  <2>1. Len(e) \in Nat /\ MaxFrames \in Nat
    BY SizesAssumption
  <2>2. m = IF Len(e) <= MaxFrames THEN Len(e) ELSE MaxFrames
    BY <2>1, LesserIs
  <2> QED BY <2>1, <2>2
<1> HIDE DEF m
<1>2. \A k \in 1 .. m : e[k] \in Int
  BY <1>1, ElementOfSeq
<1>3. Len(i) = m /\ \A k \in 1 .. m : i[k] = e[k]
  <2>1. i = SubSeq(e, 1, m)
    BY DEF m
  <2>2. 1 \in Int /\ m \in Int /\ m - 1 + 1 = m
    BY <1>1
  <2>3. /\ Len(SubSeq(e, 1, m)) = IF 1 <= m THEN m - 1 + 1 ELSE 0
        /\ \A k \in 1 .. m - 1 + 1 : SubSeq(e, 1, m)[k] = e[1 + k - 1]
    BY <1>2, <2>2, SubSeqProperties
  <2>4. Len(i) = m
    <3>1. (IF 1 <= m THEN m - 1 + 1 ELSE 0) = m
      BY <1>1
    <3> QED BY <2>1, <2>3, <3>1
  <2>5. ASSUME NEW k \in 1 .. m PROVE i[k] = e[k]
    <3>1. k \in 1 .. m - 1 + 1 /\ 1 + k - 1 = k
      BY <1>1
    <3> QED BY <2>1, <2>3, <3>1
  <2> QED BY <2>4, <2>5
<1>4. \A p \in PicturesOf(c) : Rank(c, p) \in Nat \ {0}
  <2>1. ASSUME NEW p \in PicturesOf(c) PROVE Rank(c, p) \in Nat \ {0}
    <3>1. p <= p
      BY DEF PicturesOf
    <3>2. {q \in PicturesOf(c) : q <= p} \in SUBSET PicturesOf(c)
      OBVIOUS
    <3> DEFINE S == {q \in PicturesOf(c) : q <= p}
    <3>3. p \in S
      BY <3>1
    <3> HIDE DEF S
    <3>4. IsFiniteSet(S) /\ Cardinality(S) \in Nat
      BY <3>2, PicturesFinite DEF S
    <3>5. Cardinality(S) # 0
      BY <3>3, <3>4, FS_EmptySet
    <3> QED BY <3>4, <3>5 DEF Rank, S
  <2> QED BY <2>1
<1>5. Lists(i, c)
  <2>1. ASSUME NEW p \in PicturesOf(c), Rank(c, p) <= Len(i)
        PROVE  i[Rank(c, p)] = Entry(c, p)
    <3>1. Rank(c, p) \in 1 .. m /\ Rank(c, p) <= Len(e)
      <4>1. PICK r : r = Rank(c, p)
        OBVIOUS
      <4>2. r \in Nat \ {0} /\ r <= m
        BY <1>3, <1>4, <2>1, <4>1
      <4> QED BY <1>1, <4>1, <4>2
    <3> QED BY <1>3, <3>1 DEF Lists
  <2> QED BY <2>1 DEF Lists
<1> QED BY <1>3, <1>5 DEF m

\* There is neither an open file nor a .dat file at the beginning.
LEMMA InitIndexInv == IndexInit => IndexInv
<1> SUFFICES ASSUME IndexInit PROVE IndexInv
  OBVIOUS
<1>1. file \in Seq(Bytes)
  BY FilesAssumption DEF IndexInit, Bytes
<1>2. Unscanned \in Scans
  BY DEF Unscanned, Scans, Triples, Bytes
<1>3. NoDat \in [head : Heads, entries : Seq(Int), of : Seq(Bytes)] /\ ~NoDat.head.finished
  BY DEF NoDat, NoHead, NotIntra, Heads
<1>4. IndexTyping
  <2>1. cache = <<>> /\ pc = "closed" /\ fields = FALSE /\ from = "nothing"
    BY DEF IndexInit
  <2>2. scan \in Scans
    BY <1>2 DEF IndexInit
  <2>3. dat \in [head : Heads, entries : Seq(Int), of : Seq(Bytes)]
    BY <1>3 DEF IndexInit
  <2>4. cache \in Seq(Bytes)
    BY <2>1, EmptySeq
  <2> QED BY <1>1, <2>1, <2>2, <2>3, <2>4 DEF IndexTyping
<1>5. pc = "closed" /\ dat = NoDat
  BY DEF IndexInit
<1> QED BY <1>3, <1>4, <1>5 DEF IndexInv, Looking, Scanning, Reading

\* Each step keeps the invariant; once the disk is full it says nothing.
LEMMA IndexStep ==
  ASSUME IndexInv, [IndexNext]_indexVars
  PROVE  IndexInv'
<1> SUFFICES ASSUME ~full' PROVE IndexInv'
  BY DEF IndexInv
<1> DEFINE Kept == /\ dat.head.finished => Complete(dat)
                   /\ Looking /\ Scanning /\ Reading
           Dats == [head : Heads, entries : Seq(Int), of : Seq(Bytes)]
<1>1. ~full
  BY DEF IndexNext, indexVars, Replace, Precache, Fill, OpenFile, Opening, Load, Discard,
         Create, ReadChunk, Scan, Mark, Close, Exit, Kill, Exits
<1>2. /\ pc \in {"closed", "look", "scan", "open"} /\ fields \in BOOLEAN
      /\ file \in Seq(Bytes) /\ cache \in Seq(Bytes)
      /\ from \in {"nothing", "disk", "memory"}
      /\ scan \in Scans /\ dat \in Dats
      /\ dat.head.finished => Complete(dat)
      /\ Looking /\ Scanning /\ Reading
  BY <1>1 DEF IndexInv, IndexTyping
<1>3. Content \in Seq(Bytes)
  BY <1>2 DEF Content, ContentOf
<1>4. NoDat \in Dats /\ ~NoDat.head.finished /\ Unscanned \in Scans /\ <<>> \in Seq(Bytes)
  BY EmptySeq DEF NoDat, NoHead, NotIntra, Heads, Unscanned, Scans, Triples, Bytes
<1>5. UNCHANGED <<file, cache, from>> => Content' = Content
  BY DEF Content, ContentOf
<1>6. ASSUME pc' = "closed", dat' \in Dats, dat'.head.finished => Complete(dat'),
             file' \in Seq(Bytes), cache' \in Seq(Bytes), fields' \in BOOLEAN,
             from' \in {"nothing", "disk", "memory"}, scan' \in Scans
      PROVE  IndexInv'
  BY <1>6 DEF IndexInv, IndexTyping, Looking, Scanning, Reading
<1>7. ASSUME NEW s \in Files, Replace(s) PROVE IndexInv'
  <2>1. s \in Seq(Bytes)
    BY FilesAssumption DEF Bytes
  <2> QED BY <1>2, <1>6, <1>7, <2>1 DEF Replace
<1>8. ASSUME NEW ok \in BOOLEAN, Precache(ok) PROVE IndexInv'
  <2>1. cache' \in Seq(Bytes)
    BY <1>2, <1>4, <1>8 DEF Precache
  <2>2. pc' = "closed"
    BY <1>8 DEF Precache, MayPrecache
  <2> QED BY <1>2, <1>6, <1>8, <2>1, <2>2 DEF Precache
<1>9. CASE OpenFile
  <2>1. UNCHANGED <<file, cache, dat, index, fields>> /\ pc = "closed"
    BY <1>9 DEF OpenFile
  <2>2. CASE UNCHANGED <<pc, from, scan>>
    BY <1>2, <1>6, <2>1, <2>2
  <2>3. CASE ~UNCHANGED <<pc, from, scan>>
    <3>1. /\ Begins(ContentOf(Source)) \/ Short(ContentOf(Source))
          /\ pc' = "look" /\ from' = Source /\ scan' = [scan EXCEPT !.next = 0]
      BY <1>9, <2>3 DEF OpenFile, IoOpen
    <3>2. from' \in {"disk", "memory"}
      BY <3>1 DEF Source
    <3>3. scan' \in Scans /\ scan'.next = 0
      BY <1>2, <3>1 DEF Scans
    <3>4. Content' = ContentOf(Source)
      BY <2>1, <3>1 DEF Content, ContentOf
    <3>5. Looking'
      BY <3>1, <3>2, <3>3, <3>4 DEF Looking, Begins, Short
    <3>6. IndexTyping'
      BY <1>2, <2>1, <3>1, <3>2, <3>3 DEF IndexTyping
    <3>7. (dat.head.finished => Complete(dat))'
      BY <1>2, <2>1
    <3> QED BY <3>1, <3>5, <3>6, <3>7 DEF IndexInv, Scanning, Reading
  <2> QED BY <2>2, <2>3
<1>10. CASE Load
  <2>1. /\ UNCHANGED <<file, cache, from, scan, dat>> /\ pc = "look" /\ pc' = "open"
        /\ index' = SubSeq(dat.entries, 1, Min({Len(dat.entries), MaxFrames}))
        /\ dat.head # Unread => Matches(dat.head)
    BY <1>10 DEF Load, input
  <2>2. fields' \in BOOLEAN
    <3>1. dat.head.fields \in BOOLEAN
      BY <1>2 DEF Heads
    <3> QED BY <1>10, <3>1 DEF Load
  <2>3. IndexTyping'
    BY <1>2, <2>1, <2>2 DEF IndexTyping
  <2>4. Reading'
    BY <1>5, <2>1 DEF Reading, Matches
  <2>5. (dat.head.finished => Complete(dat))'
    BY <1>2, <2>1
  <2> QED BY <2>1, <2>3, <2>4, <2>5 DEF IndexInv, Looking, Scanning
<1>11. CASE Discard
  <2>1. pc = "look" /\ ~(dat.head # Unread /\ Matches(dat.head)) /\ UNCHANGED <<scan, fields>>
    BY <1>11 DEF Discard
  <2>2. CASE dat' = NoDat /\ UNCHANGED <<pc, input>>
    <3>1. UNCHANGED <<pc, file, cache, from>>
      BY <2>2 DEF input
    <3>2. IndexTyping'
      BY <1>2, <1>4, <2>1, <2>2, <3>1 DEF IndexTyping
    <3>3. scan.next = 0
      <4>1. ~Unread.finished
        BY DEF Unread, NoHead
      <4> QED BY <1>2, <2>1, <4>1 DEF Looking, Matches
    <3>4. Looking'
      BY <1>2, <1>5, <2>1, <3>1, <3>3 DEF Looking, Begins, Short
    <3>5. ~(dat.head.finished)'
      BY <1>4, <2>2
    <3> QED BY <2>1, <3>1, <3>2, <3>4, <3>5 DEF IndexInv, Scanning, Reading
  <2>3. CASE Closes /\ UNCHANGED dat
    BY <1>2, <1>6, <2>1, <2>3 DEF Closes
  <2> QED BY <1>11, <2>2, <2>3 DEF Discard
<1>12. CASE Create
  <2>1. pc = "look" /\ dat = NoDat /\ UNCHANGED fields
    BY <1>12 DEF Create
  <2>2. CASE pc' = "closed"
    BY <1>2, <1>6, <1>12, <2>1, <2>2 DEF Create, Closes
  <2>3. CASE pc' # "closed"
    <3>1. /\ pc' = "scan" /\ scan' = [Unscanned EXCEPT !.next = scan.next]
          /\ dat' = [head |-> DatHeader(FALSE, FALSE), entries |-> <<>>, of |-> Content]
          /\ UNCHANGED <<file, cache, from>>
      BY <1>1, <1>12, <2>3 DEF Create, Closes, input
    <3>2. scan.next = 0
      BY <1>2, <1>4, <2>1 DEF Looking
    <3>3. scan' = Unscanned
      BY <3>1, <3>2 DEF Unscanned
    <3>4. Len(Content) \in Nat
      BY <1>3
    <3>5. /\ dat'.of = Content /\ dat'.entries = <<>> /\ dat'.entries \in Seq(Int)
          /\ ~dat'.head.finished /\ dat'.head # Unread /\ dat' \in Dats
      <4>1. /\ DatHeader(FALSE, FALSE) \in Heads /\ ~DatHeader(FALSE, FALSE).finished
            /\ DatHeader(FALSE, FALSE).kind = "read" /\ Unread.kind = "unread"
        BY <3>4 DEF DatHeader, Heads, Unread, NoHead
      <4>2. DatHeader(FALSE, FALSE) # Unread
        BY <4>1
      <4> QED BY <1>3, <3>1, <4>1, <4>2, EmptySeq
    <3>6. Scanned(Unscanned, Content)
      <4>1. Begins(Content) \/ Short(Content)
        BY <1>2, <2>1 DEF Looking
      <4>2. Reached(Unscanned, Content)
        BY <3>4 DEF Reached, Unscanned
      <4>3. Nought(Unscanned)
        BY DEF Nought, Unscanned
      <4>4. Newest(Unscanned, Content)
        <5>1. ASSUME NEW i \in 1 .. 3 PROVE ~(i <= 0) /\ Unscanned.last[i] = 0
          BY DEF Unscanned
        <5>2. Unscanned.pos = 0
          BY DEF Unscanned
        <5> QED BY <5>1, <5>2 DEF Newest
      <4>5. InPicture(Unscanned, Content, 0) /\ InExtension(Unscanned, Content, 0)
        BY DEF InPicture, InExtension, Unscanned
      <4>6. Unscanned.fields = FieldsTo(Content, 0) /\ Unscanned.pos = 0
        BY DEF FieldsTo, Unscanned
      <4> QED BY <4>1, <4>2, <4>3, <4>4, <4>5, <4>6 DEF Scanned, Follows
    <3>7. ListedTo(<<>>, Content, 0)
      <4>1. PicturesTo(Content, 0) = {}
        BY <3>4 DEF PicturesTo, PicturesOf
      <4> QED BY <4>1, FS_EmptySet, EmptySeq DEF ListedTo
    <3>8. Scanning'
      <4>1. Unscanned.pos = 0 /\ Content' = Content /\ from' # "nothing"
        BY <1>2, <1>5, <2>1, <3>1 DEF Unscanned, Looking
      <4> QED BY <3>3, <3>5, <3>6, <3>7, <4>1 DEF Scanning
    <3>9. IndexTyping'
      BY <1>2, <1>4, <2>1, <3>1, <3>3, <3>5 DEF IndexTyping
    <3> QED BY <3>1, <3>5, <3>8, <3>9 DEF IndexInv, Looking, Reading
  <2> QED BY <2>2, <2>3
<1>13. CASE ReadChunk
  <2> DEFINE n == Remaining
             s == [scan EXCEPT !.left = n, !.short = n < Chunk, !.next = @ + n]
  <2>1. /\ pc = "scan" /\ scan.left = 0 /\ ~scan.short /\ scan' = s
        /\ UNCHANGED <<pc, file, cache, from, dat, index, fields>>
    BY <1>13 DEF ReadChunk, input
  <2>2. /\ from # "nothing" /\ dat.of = Content
        /\ ~dat.head.finished /\ dat.head # Unread
        /\ Scanned(scan, Content) /\ ListedTo(dat.entries, Content, scan.pos)
    BY <1>2, <2>1 DEF Scanning
  <2>3. /\ scan.pos \in Nat /\ scan.next \in Nat /\ Len(Content) \in Nat
        /\ scan.pos = scan.next /\ scan.next <= Len(Content)
    BY <1>2, <1>3, <2>1, <2>2 DEF Scans, Scanned, Reached
  <2>4. /\ n \in Nat /\ scan.next + n <= Len(Content)
        /\ n < Chunk => scan.next + n = Len(Content)
    <3>1. Chunk \in Nat \ {0} /\ Len(Content) - scan.next \in Nat
      BY <2>3, SizesAssumption
    <3>2. n = IF Chunk <= Len(Content) - scan.next THEN Chunk ELSE Len(Content) - scan.next
      BY <3>1, LesserIs DEF Remaining
    <3> QED BY <2>3, <3>1, <3>2
  <2> HIDE DEF n
  <2>5. s \in Scans
    <3>1. scan.next + n \in Nat /\ (n < Chunk) \in BOOLEAN
      BY <2>3, <2>4
    <3> QED BY <1>2, <2>4, <3>1 DEF Scans
  <2>6. /\ s.left = n /\ s.short = (n < Chunk) /\ s.next = scan.next + n
        /\ s.pos = scan.pos /\ s.last = scan.last /\ s.in = scan.in /\ s.rel = scan.rel
        /\ s.ext = scan.ext /\ s.header = scan.header /\ s.fields = scan.fields
    BY <1>2 DEF Scans
  <2> HIDE DEF s
  <2>7. Scanned(s, Content)
    <3>1. Reached(s, Content)
      BY <2>3, <2>4, <2>6 DEF Reached
    <3>2. Nought(scan) => Nought(s)
      BY <2>6 DEF Nought
    <3>3. Follows(scan, Content) => Follows(s, Content)
      <4>1. Newest(scan, Content) => Newest(s, Content)
        BY <2>6 DEF Newest
      <4>2. \A p : InPicture(scan, Content, p) => InPicture(s, Content, p)
        BY <2>6 DEF InPicture
      <4>3. \A p : InExtension(scan, Content, p) => InExtension(s, Content, p)
        BY <2>6 DEF InExtension
      <4> QED BY <2>6, <4>1, <4>2, <4>3 DEF Follows
    <3> QED BY <2>2, <3>1, <3>2, <3>3 DEF Scanned
  <2>8. Content' = Content
    BY <1>5, <2>1
  <2>9. Scanning'
    BY <2>1, <2>2, <2>6, <2>7, <2>8 DEF Scanning
  <2>10. IndexTyping'
    BY <1>2, <2>1, <2>5 DEF IndexTyping
  <2> QED BY <2>1, <2>2, <2>9, <2>10 DEF IndexInv, Looking, Reading
<1>14. CASE Scan
  <2> DEFINE c == Content
             ch == c[scan.pos + 1]
  <2>1. /\ from # "nothing" /\ dat.of = c
        /\ ~dat.head.finished /\ dat.head # Unread
        /\ Scanned(scan, c) /\ ListedTo(dat.entries, c, scan.pos)
    BY <1>2, <1>14 DEF Scanning, Scan
  <2>2. scan.next - scan.left + 1 = scan.pos + 1
    BY <1>2, <2>1 DEF Scanned, Reached, Scans
  <2>3. /\ pc = "scan" /\ scan.left > 0 /\ scan' = ScanByte(scan, ch)
        /\ dat' = [dat EXCEPT !.entries = @ \o Found(scan, ch)]
        /\ UNCHANGED <<pc, file, cache, from, index, fields>>
    BY <1>1, <1>14, <2>2 DEF Scan, input
  <2>4. c' = c
    BY <1>5, <2>3
  <2> HIDE DEF c
  <2>5. c \in Seq(Bytes)
    BY <1>3 DEF c
  <2>6. scan' \in Scans /\ scan'.pos = scan.pos + 1 /\ Scanned(scan', c)
    BY <1>2, <2>1, <2>3, <2>5, ScannedByte
  <2>7. dat.entries \in Seq(Int)
    BY <1>2
  <2>8. /\ dat.entries \o Found(scan, ch) \in Seq(Int)
        /\ ListedTo(dat.entries \o Found(scan, ch), c, scan.pos + 1)
    BY <1>2, <2>1, <2>3, <2>5, <2>7, ListedByte
  <2>9. /\ dat' \in Dats /\ dat'.entries = dat.entries \o Found(scan, ch)
        /\ dat'.of = dat.of /\ dat'.head = dat.head
    BY <1>2, <2>3, <2>8
  <2>10. Scanning'
    BY <2>1, <2>3, <2>4, <2>6, <2>8, <2>9 DEF Scanning, c
  <2>11. IndexTyping'
    BY <1>2, <2>3, <2>6, <2>9 DEF IndexTyping
  <2> QED BY <2>1, <2>3, <2>9, <2>10, <2>11 DEF IndexInv, Looking, Reading
<1>15. CASE Mark
  <2>1. /\ pc = "scan" /\ scan.left = 0 /\ scan.short /\ UNCHANGED <<scan, index, fields>>
    BY <1>15 DEF Mark
  <2>2. /\ from # "nothing" /\ dat.of = Content /\ dat.head # Unread
        /\ Scanned(scan, Content) /\ ListedTo(dat.entries, Content, scan.pos)
    BY <1>2, <2>1 DEF Scanning
  <2>3. CASE scan.fields /\ scan.frames
    BY <1>2, <1>4, <1>6, <1>15, <2>1, <2>3 DEF Mark, Closes
  <2>4. CASE ~(scan.fields /\ scan.frames)
    <3> DEFINE h == DatHeader(TRUE, scan.fields)
    <3>1. /\ pc' = "look" /\ dat' = [dat EXCEPT !.head = h]
          /\ UNCHANGED <<file, cache, from>>
      BY <1>15, <2>2, <2>4 DEF Mark, input
    <3>2. Content' = Content /\ Len(Content) \in Nat
      BY <1>3, <1>5, <3>1
    <3>3. /\ h \in Heads /\ h.finished /\ h.fields = scan.fields
          /\ h.length = Len(Content)
      BY <1>2, <3>2 DEF DatHeader, Heads, Scans
    <3> HIDE DEF h
    <3>4. /\ dat' \in Dats /\ dat'.head = h /\ dat'.entries = dat.entries
          /\ dat'.of = Content /\ dat.entries \in Seq(Int)
      BY <1>2, <2>2, <3>1, <3>3
    <3>5. /\ Len(dat.entries) = Cardinality(PicturesOf(Content))
          /\ Lists(dat.entries, Content) /\ scan.fields = UsesFields(Content)
      BY <1>2, <1>3, <2>1, <2>2, <3>4, ListedAll
    <3>6. Complete(dat)'
      BY <3>3, <3>4, <3>5 DEF Complete
    <3>7. Begins(Content) \/ Short(Content)
      BY <2>2 DEF Scanned
    <3>8. Looking'
      BY <2>2, <3>1, <3>2, <3>3, <3>4, <3>7 DEF Looking, Begins, Short
    <3>9. IndexTyping'
      BY <1>2, <2>1, <3>1, <3>4 DEF IndexTyping
    <3> QED BY <3>1, <3>6, <3>8, <3>9 DEF IndexInv, Scanning, Reading
  <2> QED BY <2>3, <2>4
<1>16. CASE Close
  BY <1>2, <1>6, <1>16 DEF Close, Closes
<1>17. CASE Exit
  BY <1>2, <1>4, <1>6, <1>17 DEF Exit, Exits
<1>18. CASE Kill
  <2>1. pc \in {"look", "scan"} /\ Exits
    BY <1>18 DEF Kill
  <2>2. dat' \in Dats /\ (dat'.head.finished => Complete(dat'))
    <3>1. CASE UNCHANGED dat
      BY <1>2, <3>1
    <3>2. CASE pc # "look" /\ \E n \in 0 .. Len(dat.entries) :
                 dat' \in {[dat EXCEPT !.entries = SubSeq(@, 1, n)],
                           [dat EXCEPT !.head = Unread, !.entries = <<>>]}
      <4>1. ~dat.head.finished
        BY <1>2, <2>1, <3>2 DEF Scanning
      <4>2. PICK n \in 0 .. Len(dat.entries) :
                 dat' \in {[dat EXCEPT !.entries = SubSeq(@, 1, n)],
                           [dat EXCEPT !.head = Unread, !.entries = <<>>]}
        BY <3>2
      <4>3. SubSeq(dat.entries, 1, n) \in Seq(Int)
        <5>1. dat.entries \in Seq(Int)
          BY <1>2
        <5>2. \A i \in 1 .. n : dat.entries[i] \in Int
          BY <5>1, ElementOfSeq
        <5> QED BY <5>2, SubSeqProperties
      <4>4. Unread \in Heads /\ ~Unread.finished
        <5>1. NoHead \in Heads /\ ~NoHead.finished
          BY DEF NoHead, NotIntra, Heads
        <5> QED BY <5>1 DEF Unread, Heads
      <4>5. CASE dat' = [dat EXCEPT !.entries = SubSeq(@, 1, n)]
        BY <1>2, <4>1, <4>3, <4>5
      <4>6. CASE dat' = [dat EXCEPT !.head = Unread, !.entries = <<>>]
        BY <1>2, <4>4, <4>6, EmptySeq
      <4> QED BY <4>2, <4>5, <4>6
    <3> QED BY <1>18, <3>1, <3>2 DEF Kill
  <2> QED BY <1>2, <1>4, <1>6, <2>1, <2>2 DEF Exits
<1>19. CASE UNCHANGED indexVars
  <2>1. Content' = Content
    BY <1>5, <1>19 DEF indexVars
  <2> QED BY <1>2, <1>19, <2>1 DEF indexVars, IndexInv, IndexTyping, Looking, Scanning, Reading
<1>20. CASE Fill
  BY <1>20 DEF Fill
<1> QED BY <1>7, <1>8, <1>9, <1>10, <1>11, <1>12, <1>13, <1>14, <1>15, <1>16, <1>17, <1>18,
           <1>19, <1>20 DEF IndexNext, Opening

\* At any time, whatever happened to the program and its files.
THEOREM IndexInvHolds == IndexSpec => []IndexInv
<1>1. IndexInv /\ [IndexNext]_indexVars => IndexInv'
  BY IndexStep
<1> QED BY InitIndexInv, <1>1, PTL DEF IndexSpec

\* The header is marked finished only when the scanner has parsed all of the file, and
\* what it listed by then are its pictures (ivldp_parse_mpeg_frame_offsets).
THEOREM FinishedWhole == IndexSpec => []FinishedIsWhole
<1>1. IndexInv => FinishedIsWhole
  BY DEF IndexInv, FinishedIsWhole, Complete
<1> QED BY IndexInvHolds, <1>1, PTL

\* What a .dat file of the right length lists is what an open file is searched by
\* (ivldp_get_mpeg_frame_offsets), from the disk or from the copy in memory.
THEOREM IndexRight == IndexSpec => []IndexFits
<1>1. IndexInv => IndexFits
  <2> SUFFICES ASSUME IndexInv, pc = "open", dat.head # Unread, ~full
               PROVE  /\ Len(dat.of) = Len(Content)
                      /\ Len(index) = Min({Cardinality(PicturesOf(dat.of)), MaxFrames})
                      /\ Lists(index, dat.of)
    BY DEF IndexFits
  <2>1. /\ dat.head.finished /\ dat.head.length = Len(Content)
        /\ index = SubSeq(dat.entries, 1, Min({Len(dat.entries), MaxFrames}))
    BY DEF IndexInv, Reading
  <2>2. Complete(dat) /\ dat.entries \in Seq(Int) /\ dat.of \in Seq(Bytes)
    BY <2>1 DEF IndexInv, IndexTyping
  <2> QED BY <2>1, <2>2, IndexIs DEF Complete
<1> QED BY IndexInvHolds, <1>1, PTL

-----------------------------------------------------------------------------
(* The decoder                                                             *)

Film(s) == Layout(s) /\ Indexed(s) /\ Typed(s) /\ Grouped(s)

States == {"none", "sequence", "repeated", "gop", "picture", "picture_2nd", "slice_1st",
           "slice", "invalid"}
Actions == {"seek_sequence", "seek_header", "parse_header", "slices", "header_end"}
Pictures == [frame : Int \cup {None}, clean : BOOLEAN]

Decoders == [state : States, action : Actions, first : BOOLEAN, known : BOOLEAN,
             fbuf : [Buffers -> Buffers \cup {None}], alloc : {0, 3},
             type : Types \cup {"none"}, display : Buffers \cup {None}]

Typing ==
  /\ mpeg \in Streams /\ next \in 1 .. Len(Chunks) + 1 /\ coded \in Int
  /\ dec \in Decoders
  /\ buf \in [Buffers -> Pictures] /\ screen \in Pictures /\ last \in Pictures
  /\ mode \in {"stopped", "play", "hold", "held"} /\ toSkip \in Nat
  /\ target \in Int \cup {None} /\ origin \in Nat /\ drawn \in Nat /\ ended \in BOOLEAN

\* A header of a picture was read that has no buffer yet.
Awaits == dec.action = "parse_header" /\ cur \in Types /\ dec.state # "slice_1st"
\* A picture has a buffer, and is not whole.
Underway == \/ dec.action = "slices"
            \/ dec.action = "parse_header" /\ cur \in Types /\ dec.state = "slice_1st"
\* Of a frame's two fields one was come to.
Half == mpeg.fields /\ (Awaits \/ (dec.action = "slices" /\ dec.state = "picture"))

SetUp == IF Awaits THEN coded - 1 ELSE coded
Whole == IF Awaits \/ Underway THEN coded - 1 ELSE coded

\* How many pictures were come to in the file, k, if n is what is read next.
Passed == IF ~mpeg.fields THEN coded + 1 ELSE IF Half THEN 2 * coded + 1 ELSE 2 * coded + 2
Parts(s, k, n) == /\ k \in 0 .. Len(s.index)
                  /\ k > 0 => s.index[k] < n
                  /\ k < Len(s.index) => n <= s.index[k + 1]
Placed == Parts(mpeg, Passed, next)

Idle == dec = Fresh /\ next = 1 /\ coded = -1
Starting == /\ dec = [Fresh EXCEPT !.action = "parse_header"] /\ cur = "seq"
            /\ next <= Len(Chunks) /\ Chunks[next] \in {"gop"} \cup Types
            /\ coded = origin - 1
AtHeader == /\ dec.action = "parse_header" /\ dec.known /\ dec.alloc = 3
            /\ dec.state \notin {"picture", "picture_2nd", "slice_1st"}
            /\ next > 1 /\ cur = Chunks[next - 1] /\ cur \in {"seq", "gop"}
            /\ coded >= origin - 1
AtPicture == /\ dec.action = "parse_header" /\ dec.known /\ dec.alloc = 3
             /\ dec.state \notin {"picture", "picture_2nd"}
             /\ dec.state = "slice_1st" => mpeg.fields
             /\ next > 1 /\ cur = Chunks[next - 1] /\ cur \in Types
             /\ Passed > 0 /\ Entries[Passed] = next - 1
             /\ coded >= origin
AtSlices == /\ dec.action = "slices" /\ dec.known /\ dec.alloc = 3
            /\ dec.state \in {"picture", "picture_2nd"}
            /\ dec.state = "picture_2nd" => mpeg.fields
            /\ next > 1 /\ cur = Chunks[next - 1] /\ cur = "slices"
            /\ Passed > 0 /\ Entries[Passed] = next - 2
            /\ dec.state = "picture" => dec.type = mpeg.types[coded + 1]
            /\ coded >= origin
AtEnd == /\ dec.action = "header_end" /\ dec.known /\ dec.alloc = 3
         /\ next = Len(Chunks) + 1 /\ Last(Chunks) = "end" /\ coded >= origin
Over == /\ dec.action = "seek_sequence" /\ ~dec.known
        /\ next = Len(Chunks) + 1 /\ Last(Chunks) = "end"
        /\ drawn = Frames - origin
Phase == Idle \/ Starting \/ AtHeader \/ AtPicture \/ AtSlices \/ AtEnd \/ Over

\* A picture that was decoded, and from the right ones if those were there.
IsWhole(p, f) == /\ p.frame = f
                 /\ f \in References \/ Before(Before(f)) >= origin => p.clean

\* The buffers a frame f is predicted from hold its references.
Referred(f) ==
  /\ Before(f) >= origin => IsWhole(buf[dec.fbuf[1]], Before(f))
  /\ Before(Before(f)) >= origin => IsWhole(buf[dec.fbuf[2]], Before(Before(f)))

Permuted == /\ \A b \in Buffers : dec.fbuf[b] \in Buffers
            /\ \A b, c \in Buffers : b # c => dec.fbuf[b] # dec.fbuf[c]

\* The headers have come to frame w, or none yet.
Come(w) ==
  /\ w < origin => dec.fbuf = [b \in Buffers |-> b] /\ dec.type = "none" /\ dec.first
  /\ w >= origin => /\ Referred(w)
                    /\ dec.type # "none" /\ (dec.type = "B" <=> w \notin References)
                    /\ mpeg.low \/ ~dec.first

\* The buffer of frame w holds it.
Filled(w) == w >= origin => IsWhole(buf[dec.fbuf[0]], w)

Roles ==
  /\ Permuted /\ Come(SetUp)
  /\ ~Underway \/ dec.state \in {"picture_2nd", "slice_1st"} => Filled(SetUp)
  /\ Underway =>
       dec.display = IF dec.type = "B" \/ mpeg.low THEN dec.fbuf[0]
                     ELSE IF coded = origin THEN None ELSE dec.fbuf[1]

\* How many pictures are drawn when the frames up to w are whole.
DrawnTo(w) == IF mpeg.low THEN w - origin + 1 ELSE IF w < origin THEN 0 ELSE w - origin

Counted ==
  /\ origin < Frames /\ mpeg.types[origin + 1] = "I" /\ coded < Frames
  /\ mode # "stopped" /\ ~Over => drawn = DrawnTo(Whole)
  /\ drawn > 0 => last.frame \in 0 .. Frames - 1 /\ Place(last.frame) = origin + drawn - 1
  /\ mode = "stopped" => Idle
  /\ mode # "stopped" => ~ended /\ (Idle => origin = 0)
  /\ ended => drawn = Max({0, Frames - origin - Lost})

Asked ==
  /\ mode \in {"stopped", "play"} => target = None
  /\ mode = "hold" /\ target # None /\ ~mpeg.fields => origin + drawn + toSkip = target
  /\ mode = "held" => screen = last /\ drawn > 0 /\ toSkip = 0
  /\ mode = "held" /\ target # None /\ ~mpeg.fields => origin + drawn - 1 = target
  /\ toSkip + drawn >= After(origin) - origin - 1
  /\ screen # Nothing => screen.clean

Inv == Typing /\ Phase /\ Placed /\ Roles /\ Counted /\ Asked

-----------------------------------------------------------------------------
(* Numbers                                                                 *)

\* A set of natural numbers has a least one.
LEMMA Least ==
  ASSUME NEW S \in SUBSET Nat, S # {}
  PROVE  \E m \in S : \A k \in S : m <= k
<1> DEFINE R == OpToRel(<, Nat)
<1>1. IsWellFoundedOn(R, Nat)
  BY NatLessThanWellFounded
<1>2. \A a, b \in Nat : <<a, b>> \in R <=> a < b
  BY DEF OpToRel
<1> HIDE DEF R
<1>3. PICK m \in S : \A k \in S : ~(<<k, m>> \in R)
  BY <1>1, WFMin
<1>4. \A k \in S : ~(k < m)
  BY <1>2, <1>3
<1> QED BY <1>4

\* A set of integers with an upper bound has a greatest one.
LEMMA MaxIs ==
  ASSUME NEW S \in SUBSET Int, S # {}, NEW b \in Int, \A x \in S : x <= b
  PROVE  Max(S) \in S /\ \A x \in S : x <= Max(S)
<1> DEFINE T == {b - x : x \in S}
<1>1. T \in SUBSET Nat /\ T # {}
  <2>1. \A t \in T : t \in Nat
    OBVIOUS
  <2>2. PICK x \in S : TRUE
    OBVIOUS
  <2>3. b - x \in T
    OBVIOUS
  <2> HIDE DEF T
  <2> QED BY <2>1, <2>3
<1>2. PICK m \in T : \A k \in T : m <= k
  BY <1>1, Least
<1>3. PICK y \in S : m = b - y
  OBVIOUS
<1>4. \A x \in S : y >= x
  <2> TAKE x \in S
  <2>1. b - x \in T
    OBVIOUS
  <2> QED BY <1>2, <1>3, <2>1
<1> HIDE DEF T
<1>5. Max(S) \in S /\ \A x \in S : Max(S) >= x
  BY <1>4 DEF Max
<1> QED BY <1>5

\* A set of integers with a lower bound has a least one.
LEMMA MinIs ==
  ASSUME NEW S \in SUBSET Int, S # {}, NEW b \in Int, \A x \in S : b <= x
  PROVE  Min(S) \in S /\ \A x \in S : Min(S) <= x
<1> DEFINE T == {x - b : x \in S}
<1>1. T \in SUBSET Nat /\ T # {}
  <2>1. \A t \in T : t \in Nat
    OBVIOUS
  <2>2. PICK x \in S : TRUE
    OBVIOUS
  <2>3. x - b \in T
    OBVIOUS
  <2> HIDE DEF T
  <2> QED BY <2>1, <2>3
<1>2. PICK m \in T : \A k \in T : m <= k
  BY <1>1, Least
<1>3. PICK y \in S : m = y - b
  OBVIOUS
<1>4. \A x \in S : y <= x
  <2> TAKE x \in S
  <2>1. x - b \in T
    OBVIOUS
  <2> QED BY <1>2, <1>3, <2>1
<1> HIDE DEF T
<1>5. Min(S) \in S /\ \A x \in S : Min(S) <= x
  BY <1>4 DEF Min
<1> QED BY <1>5

-----------------------------------------------------------------------------
(* Films                                                                   *)

\* What a film is.
LEMMA FilmIs ==
  ASSUME NEW s \in Streams
  PROVE  /\ s.fields \in BOOLEAN /\ s.low \in BOOLEAN /\ Film(s)
         /\ s.chunks \in Seq({"seq", "gop", "slices", "end"} \cup Types)
         /\ s.types \in Seq(Types) /\ s.index \in Seq(DOMAIN s.chunks)
         /\ Len(s.chunks) \in Nat /\ DOMAIN s.chunks = 1 .. Len(s.chunks)
         /\ Len(s.types) \in Nat \ {0} /\ DOMAIN s.types = 1 .. Len(s.types)
         /\ Len(s.index) \in Nat /\ DOMAIN s.index = 1 .. Len(s.index)
<1>1. s.fields \in BOOLEAN /\ s.low \in BOOLEAN /\ Film(s)
  BY StreamsAssumption DEF Film
<1>2. /\ s.chunks \in Seq({"seq", "gop", "slices", "end"} \cup Types)
      /\ s.types \in Seq(Types) /\ s.types # <<>> /\ s.index \in Seq(DOMAIN s.chunks)
  BY <1>1 DEF Film, Layout, Indexed, Grouped
<1>3. Len(s.types) # 0
  BY <1>2
<1> QED BY <1>1, <1>2, <1>3

\* The reference before a frame.
LEMMA BeforeIs ==
  ASSUME mpeg \in Streams, NEW f \in Int
  PROVE  /\ Before(f) \in {-1} \cup References /\ Before(f) \in Int /\ Before(f) >= -1
         /\ Before(f) = -1 \/ Before(f) < f
         /\ \A r \in References : r < f => r <= Before(f)
<1> DEFINE S == {-1} \cup {r \in References : r < f}
<1>0. Frames \in Nat \ {0}
  BY FilmIs DEF Frames
<1>1. References \subseteq 0 .. Frames - 1
  BY DEF References
<1>2. S \in SUBSET Int /\ S # {} /\ \A x \in S : x <= Frames
  <2>1. \A x \in S : x \in Int /\ x <= Frames
    BY <1>0, <1>1
  <2>2. -1 \in S
    OBVIOUS
  <2> QED BY <2>1, <2>2
<1> HIDE DEF S
<1>3. Max(S) \in S /\ \A x \in S : x <= Max(S)
  BY <1>0, <1>2, MaxIs
<1>4. Before(f) = Max(S)
  BY DEF Before, S
<1>5. -1 \in S /\ \A x \in S : x = -1 \/ (x \in References /\ x < f)
  BY DEF S
<1>6. \A r \in References : r < f => r \in S
  BY DEF S
<1>7. \A r \in References : r \in Int /\ 0 <= r /\ r < Frames
  BY <1>0, <1>1
<1> QED BY <1>0, <1>3, <1>4, <1>5, <1>6, <1>7

\* The reference after a frame, or the end.
LEMMA AfterIs ==
  ASSUME mpeg \in Streams, NEW f \in Int
  PROVE  /\ After(f) \in {Frames} \cup References /\ After(f) \in Int /\ After(f) <= Frames
         /\ f < Frames => f < After(f)
         /\ \A r \in References : f < r => After(f) <= r
<1> DEFINE S == {Frames} \cup {r \in References : r > f}
<1>0. Frames \in Nat \ {0}
  BY FilmIs DEF Frames
<1>1. References \subseteq 0 .. Frames - 1
  BY DEF References
<1>2. S \in SUBSET Int /\ S # {} /\ \A x \in S : 0 <= x
  <2>1. \A x \in S : x \in Int /\ 0 <= x
    BY <1>0, <1>1
  <2>2. Frames \in S
    OBVIOUS
  <2> QED BY <2>1, <2>2
<1> HIDE DEF S
<1>3. Min(S) \in S /\ \A x \in S : Min(S) <= x
  BY <1>2, MinIs
<1>4. After(f) = Min(S)
  BY DEF After, S
<1>5. Frames \in S /\ \A x \in S : x = Frames \/ (x \in References /\ x > f)
  BY DEF S
<1>6. \A r \in References : f < r => r \in S
  BY <1>1, <1>0 DEF S
<1>7. \A r \in References : r \in Int /\ 0 <= r /\ r < Frames
  BY <1>0, <1>1
<1>8. Min(S) = Frames \/ (Min(S) \in References /\ Min(S) > f)
  BY <1>3, <1>5
<1>9. Min(S) <= Frames
  BY <1>3, <1>5
<1>10. \A r \in References : f < r => Min(S) <= r
  BY <1>3, <1>6
<1> QED BY <1>0, <1>4, <1>7, <1>8, <1>9, <1>10

\* Which frames are references.
LEMMA ReferencesAre ==
  ASSUME mpeg \in Streams
  PROVE  /\ Frames \in Nat \ {0} /\ 0 \in References
         /\ \A f \in Int : f \in References <=> 0 <= f /\ f < Frames /\ mpeg.types[f + 1] # "B"
<1>1. Frames \in Nat \ {0}
  BY FilmIs DEF Frames
<1>2. mpeg.types[1] = "I"
  BY FilmIs DEF Film, Grouped
<1> QED BY <1>1, <1>2 DEF References

\* The reference before a frame is the frame before it, or that one's.
LEMMA BeforeNext ==
  ASSUME mpeg \in Streams, NEW f \in Int
  PROVE  Before(f + 1) = IF f \in References THEN f ELSE Before(f)
<1>1. /\ Before(f + 1) \in {-1} \cup References /\ Before(f + 1) \in Int
      /\ Before(f + 1) = -1 \/ Before(f + 1) < f + 1
      /\ \A r \in References : r < f + 1 => r <= Before(f + 1)
  BY BeforeIs
<1>2. /\ Before(f) \in {-1} \cup References /\ Before(f) \in Int /\ Before(f) >= -1
      /\ Before(f) = -1 \/ Before(f) < f
      /\ \A r \in References : r < f => r <= Before(f)
  BY BeforeIs
<1>3. \A r \in References : r \in Int /\ r >= 0
  BY ReferencesAre DEF References
<1>4. Before(f + 1) >= -1
  BY <1>1, <1>3
<1>5. CASE f \in References
  BY <1>1, <1>3, <1>5
<1>6. CASE f \notin References
  <2>1. Before(f) <= Before(f + 1)
    <3>1. CASE Before(f) = -1
      BY <1>4, <3>1
    <3>2. CASE Before(f) \in References
      <4>1. Before(f) < f
        <5>1. Before(f) >= 0
          BY <1>3, <3>2
        <5> QED BY <1>2, <5>1
      <4> QED BY <1>1, <1>2, <3>2, <4>1
    <3> QED BY <1>2, <3>1, <3>2
  <2>2. Before(f + 1) <= Before(f)
    <3>1. CASE Before(f + 1) = -1
      BY <1>2, <3>1
    <3>2. CASE Before(f + 1) \in References
      BY <1>1, <1>2, <1>3, <1>6, <3>2
    <3> QED BY <1>1, <3>1, <3>2
  <2> QED BY <1>1, <1>2, <1>6, <2>1, <2>2
<1> QED BY <1>5, <1>6

\* Until the next reference, or the end, there is none.
LEMMA AfterBefore ==
  ASSUME mpeg \in Streams, NEW f \in Int, f \in References \cup {Frames}, Before(f) >= 0
  PROVE  After(Before(f)) = f
<1> DEFINE r == Before(f)
<1>1. /\ r \in References /\ r \in Int /\ r < f /\ r >= 0
      /\ \A q \in References : q < f => q <= r
  BY BeforeIs, ReferencesAre DEF References
<1> HIDE DEF r
<1>2. /\ After(r) \in {Frames} \cup References /\ After(r) \in Int /\ After(r) <= Frames
      /\ r < Frames => r < After(r)
      /\ \A q \in References : r < q => After(r) <= q
  BY <1>1, AfterIs
<1>3. \A q \in References : q \in Int /\ q < Frames
  BY ReferencesAre DEF References
<1>4. Frames \in Int
  BY ReferencesAre
<1>5. After(r) <= f
  BY <1>1, <1>2, <1>3
<1>6. ~(After(r) < f)
  BY <1>1, <1>2, <1>3, <1>4
<1> QED BY <1>2, <1>5, <1>6 DEF r

\* The next reference is near, and nearer to the first frame.
LEMMA AfterNear ==
  ASSUME mpeg \in Streams, NEW f \in Nat, f < Frames
  PROVE  After(f) - f <= 4 /\ After(0) = 1
<1>1. Frames \in Nat \ {0} /\ Frames = Len(mpeg.types) /\ DOMAIN mpeg.types = 1 .. Frames
  BY FilmIs DEF Frames
<1>2. /\ Len(mpeg.types) > 1 => mpeg.types[2] # "B"
      /\ \A g \in DOMAIN mpeg.types :
           g + 3 <= Len(mpeg.types) => \E h \in g .. g + 3 : mpeg.types[h] # "B"
  BY FilmIs DEF Film, Grouped
<1>3. After(0) = 1
  <2>1. /\ After(0) \in Int /\ After(0) <= Frames /\ 0 < After(0)
        /\ \A r \in References : 0 < r => After(0) <= r
    <3>1. 0 \in Int /\ 0 < Frames
      BY <1>1
    <3>2. /\ After(0) \in Int /\ After(0) <= Frames /\ (0 < Frames => 0 < After(0))
          /\ \A r \in References : 0 < r => After(0) <= r
      BY <3>1, AfterIs
    <3> QED BY <3>1, <3>2
  <2>2. Frames > 1 => 1 \in References
    BY <1>1, <1>2, ReferencesAre
  <2> QED BY <1>1, <2>1, <2>2
<1>4. After(f) - f <= 4
  <2>1. /\ After(f) \in Int /\ After(f) <= Frames
        /\ \A r \in References : f < r => After(f) <= r
    BY AfterIs
  <2>2. CASE Frames <= f + 4
    BY <1>1, <2>1, <2>2
  <2>3. CASE f + 5 <= Frames
    <3>1. PICK h \in f + 2 .. f + 5 : mpeg.types[h] # "B"
      <4>1. f + 2 \in DOMAIN mpeg.types /\ (f + 2) + 3 <= Len(mpeg.types)
        BY <1>1, <2>3
      <4>2. \E h \in f + 2 .. (f + 2) + 3 : mpeg.types[h] # "B"
        BY <1>2, <4>1
      <4> QED BY <4>2
    <3>2. h - 1 \in References /\ f < h - 1 /\ h - 1 <= f + 4
      <4>1. (h - 1) + 1 = h
        BY <3>1
      <4> QED BY <1>1, <2>3, <3>1, <4>1, ReferencesAre
    <3> QED BY <2>1, <3>2
  <2> QED BY <1>1, <2>2, <2>3
<1> QED BY <1>3, <1>4

\* Where pictures are shown: a B picture before the reference it follows in the file.
LEMMA PlaceIs ==
  ASSUME mpeg \in Streams, NEW f \in Int
  PROVE  /\ mpeg.low => Place(f) = f
         /\ ~mpeg.low /\ f \notin References => Place(f) = f - 1
         /\ ~mpeg.low /\ f \in References \cup {Frames} /\ Before(f) >= 0 =>
              Before(f) \in References /\ Place(Before(f)) = f - 1
         /\ mpeg.low /\ 0 <= f /\ f < Frames => f \in References
<1>1. mpeg.low => Place(f) = f
  BY DEF Place
<1>2. ~mpeg.low /\ f \notin References => Place(f) = f - 1
  BY DEF Place
<1>3. ASSUME ~mpeg.low, f \in References \cup {Frames}, Before(f) >= 0
      PROVE  Before(f) \in References /\ Place(Before(f)) = f - 1
  <2>1. Before(f) \in References
    BY <1>3, BeforeIs
  <2>2. After(Before(f)) = f
    BY <1>3, AfterBefore
  <2> QED BY <1>3, <2>1, <2>2 DEF Place
<1>4. mpeg.low /\ 0 <= f /\ f < Frames => f \in References
  <2>1. DOMAIN mpeg.types = 1 .. Frames /\ Frames \in Nat
    BY FilmIs DEF Frames
  <2>2. \A g \in DOMAIN mpeg.types : mpeg.low => mpeg.types[g] # "B"
    BY FilmIs DEF Film, Grouped
  <2> QED BY <2>1, <2>2, ReferencesAre
<1> QED BY <1>1, <1>2, <1>3, <1>4

\* Which pictures the entries of the index are.
LEMMA EntryIs ==
  ASSUME mpeg \in Streams
  PROVE  /\ Len(Entries) = IF mpeg.fields THEN 2 * Frames ELSE Frames
         /\ \A f \in 0 .. Frames - 1 :
              IF ~mpeg.fields THEN Chunks[Entries[f + 1]] = mpeg.types[f + 1]
              ELSE /\ Chunks[Entries[2 * f + 1]] = mpeg.types[f + 1]
                   /\ Chunks[Entries[2 * f + 2]] \in
                        IF mpeg.types[f + 1] = "B" THEN {"B"} ELSE {"P"}
                   /\ Entries[2 * f + 2] = Entries[2 * f + 1] + 2
<1>1. Frames \in Nat \ {0} /\ DOMAIN mpeg.types = 1 .. Frames
  BY FilmIs DEF Frames
<1>2. Typed(mpeg) /\ Indexed(mpeg)
  BY FilmIs DEF Film
<1>3. Len(Entries) = IF mpeg.fields THEN 2 * Frames ELSE Frames
  BY <1>2 DEF Indexed, Entries, Frames
<1>4. ASSUME NEW f \in 0 .. Frames - 1
      PROVE  IF ~mpeg.fields THEN Chunks[Entries[f + 1]] = mpeg.types[f + 1]
             ELSE /\ Chunks[Entries[2 * f + 1]] = mpeg.types[f + 1]
                  /\ Chunks[Entries[2 * f + 2]] \in
                       IF mpeg.types[f + 1] = "B" THEN {"B"} ELSE {"P"}
                  /\ Entries[2 * f + 2] = Entries[2 * f + 1] + 2
  <2> DEFINE g == f + 1
  <2>1. g \in DOMAIN mpeg.types /\ 2 * g - 1 = 2 * f + 1 /\ 2 * g = 2 * f + 2
    BY <1>1
  <2>2. IF ~mpeg.fields THEN mpeg.chunks[mpeg.index[g]] = mpeg.types[g]
        ELSE /\ mpeg.chunks[mpeg.index[2 * g - 1]] = mpeg.types[g]
             /\ mpeg.chunks[mpeg.index[2 * g]] \in IF mpeg.types[g] = "B" THEN {"B"} ELSE {"P"}
             /\ mpeg.index[2 * g] = mpeg.index[2 * g - 1] + 2
    BY <1>2, <2>1 DEF Typed
  <2> QED BY <2>1, <2>2 DEF Entries, Chunks
<1> QED BY <1>3, <1>4

\* Only a frame, or its first field, is intra coded.
LEMMA IntraIs ==
  ASSUME mpeg \in Streams, NEW j \in Nat, j < Len(Entries), Chunks[Entries[j + 1]] = "I"
  PROVE  \E g \in 0 .. Frames - 1 :
           j = (IF mpeg.fields THEN 2 * g ELSE g) /\ mpeg.types[g + 1] = "I"
<1>1. Frames \in Nat \ {0}
  BY FilmIs DEF Frames
<1>2. CASE ~mpeg.fields
  <2>1. j \in 0 .. Frames - 1 /\ mpeg.types[j + 1] = "I"
    BY <1>1, <1>2, EntryIs
  <2> QED BY <1>2, <2>1
<1>3. CASE mpeg.fields
  <2> DEFINE g == j \div 2
  <2>1. g \in Nat /\ (j = 2 * g \/ j = 2 * g + 1)
    OBVIOUS
  <2> HIDE DEF g
  <2>2. g \in 0 .. Frames - 1
    BY <1>1, <1>3, <2>1, EntryIs
  <2>3. Chunks[Entries[2 * g + 2]] # "I"
    BY <1>3, <2>2, EntryIs
  <2>4. j = 2 * g
    <3>1. j = 2 * g + 1 => j + 1 = 2 * g + 2
      BY <2>1
    <3> QED BY <2>1, <2>3, <3>1
  <2>5. mpeg.types[g + 1] = "I"
    BY <1>3, <2>2, <2>4, EntryIs
  <2> QED BY <1>3, <2>2, <2>4, <2>5
<1> QED BY <1>2, <1>3, FilmIs

\* The last intra picture that is not after an entry.
LEMMA BackIs ==
  ASSUME mpeg \in Streams, NEW i \in Nat, i < Len(Entries)
  PROVE  /\ Back(Entries, i) \in 0 .. i
         /\ Chunks[Entries[Back(Entries, i) + 1]] = "I"
         /\ \A j \in 0 .. i : Chunks[Entries[j + 1]] = "I" => j <= Back(Entries, i)
<1> DEFINE S == {0} \cup {j \in 0 .. i : Chunks[Entries[j + 1]] = "I"}
<1>1. Chunks[Entries[1]] = "I"
  <2>1. Frames \in Nat \ {0} /\ mpeg.types[1] = "I" /\ 0 \in 0 .. Frames - 1
    BY FilmIs DEF Film, Grouped, Frames
  <2>2. IF ~mpeg.fields THEN Chunks[Entries[0 + 1]] = mpeg.types[0 + 1]
        ELSE Chunks[Entries[2 * 0 + 1]] = mpeg.types[0 + 1]
    BY <2>1, EntryIs
  <2> QED BY <2>1, <2>2
<1>2. S \in SUBSET Int /\ S # {} /\ \A x \in S : x <= i
  <2>1. \A x \in S : x \in Int /\ x <= i
    OBVIOUS
  <2>2. 0 \in S
    OBVIOUS
  <2> QED BY <2>1, <2>2
<1>3. /\ \A x \in S : x \in 0 .. i /\ Chunks[Entries[x + 1]] = "I"
      /\ \A j \in 0 .. i : Chunks[Entries[j + 1]] = "I" => j \in S
  BY <1>1
<1>4. Back(Entries, i) = Max(S)
  BY DEF Back
<1> HIDE DEF S
<1>5. Max(S) \in S /\ \A x \in S : x <= Max(S)
  <2>1. i \in Int
    OBVIOUS
  <2> QED BY <1>2, <2>1, MaxIs
<1> QED BY <1>3, <1>4, <1>5

\* Where decoding begins to show frame f: at an intra frame o not after it, with as
\* many pictures to skip, i less begin, as could be decoded from the wrong ones.
LEMMA StartIs ==
  ASSUME mpeg \in Streams, NEW f \in 0 .. Frames - 1
  PROVE  LET i == IF mpeg.fields THEN 2 * f ELSE f
             begin == Start(Entries, i)
         IN \E o \in 0 .. f : /\ begin = (IF mpeg.fields THEN 2 * o ELSE o)
                              /\ mpeg.types[o + 1] = "I"
                              /\ i - begin >= After(o) - o - 1
<1> DEFINE i == IF mpeg.fields THEN 2 * f ELSE f
           begin == Start(Entries, i)
           intra == Back(Entries, i)
<1>1. mpeg.fields \in BOOLEAN /\ Frames \in Nat \ {0}
  BY FilmIs DEF Frames
<1>2. i \in Nat /\ i < Len(Entries) /\ Len(Entries) \in Nat
  BY <1>1, EntryIs
<1>3. /\ intra \in 0 .. i /\ Chunks[Entries[intra + 1]] = "I"
  BY <1>2, BackIs
<1>4. begin = IF i - intra < 3 /\ intra > 0 THEN Back(Entries, intra - 1) ELSE intra
  BY DEF Start
<1>5. PICK g \in 0 .. Frames - 1 :
        intra = (IF mpeg.fields THEN 2 * g ELSE g) /\ mpeg.types[g + 1] = "I"
  BY <1>2, <1>3, IntraIs
<1> HIDE DEF i, begin, intra
<1>6. g <= f
  BY <1>1, <1>3, <1>5 DEF i
<1>7. CASE ~(i - intra < 3 /\ intra > 0)
  <2>1. begin = intra
    BY <1>4, <1>7
  <2>2. After(g) - g <= 4 /\ After(g) \in Int /\ After(0) = 1
    BY <1>1, AfterNear, AfterIs
  <2>3. i - begin >= After(g) - g - 1
    <3>1. CASE intra = 0
      <4>1. g = 0
        BY <1>1, <1>5, <3>1
      <4>2. After(g) - g - 1 = 0
        BY <2>2, <4>1
      <4> QED BY <1>2, <2>1, <3>1, <4>2
    <3>2. CASE intra > 0
      BY <1>2, <1>3, <1>7, <2>1, <2>2, <3>2
    <3> QED BY <1>3, <3>1, <3>2
  <2> QED BY <1>1, <1>5, <1>6, <2>1, <2>3 DEF i, begin
<1>8. CASE i - intra < 3 /\ intra > 0
  <2>1. begin = Back(Entries, intra - 1) /\ intra - 1 \in Nat /\ intra - 1 < Len(Entries)
    BY <1>2, <1>3, <1>4, <1>8
  <2>2. begin \in 0 .. intra - 1 /\ Chunks[Entries[begin + 1]] = "I"
    BY <2>1, BackIs
  <2>3. PICK o \in 0 .. Frames - 1 :
          begin = (IF mpeg.fields THEN 2 * o ELSE o) /\ mpeg.types[o + 1] = "I"
    BY <1>2, <1>3, <2>2, IntraIs
  <2>4. o < g
    BY <1>1, <1>5, <2>2, <2>3
  <2>5. g \in References
    BY <1>1, <1>5, ReferencesAre
  <2>6. After(o) <= g /\ After(o) \in Int
    BY <2>4, <2>5, AfterIs
  <2>7. i - begin >= After(o) - o - 1
    BY <1>1, <1>6, <2>3, <2>4, <2>6 DEF i
  <2> QED BY <1>1, <1>6, <2>3, <2>4, <2>7 DEF i, begin
<1> QED BY <1>7, <1>8 DEF i, begin

\* The next chunk is read.
LEMMA Advance ==
  ASSUME NEW s \in Streams, NEW k \in Int, NEW n \in 1 .. Len(s.chunks), Parts(s, k, n)
  PROVE  IF s.chunks[n] \in Types
         THEN Parts(s, k + 1, n + 1) /\ k + 1 <= Len(s.index) /\ s.index[k + 1] = n
         ELSE Parts(s, k, n + 1)
<1>1. /\ Len(s.chunks) \in Nat /\ DOMAIN s.chunks = 1 .. Len(s.chunks)
      /\ Len(s.index) \in Nat /\ DOMAIN s.index = 1 .. Len(s.index)
      /\ \A j \in 1 .. Len(s.index) : s.index[j] \in 1 .. Len(s.chunks)
  BY FilmIs
<1>2. /\ \A i, j \in 1 .. Len(s.index) : i < j => s.index[i] < s.index[j]
      /\ s.chunks[n] \in Types <=> \E j \in 1 .. Len(s.index) : s.index[j] = n
  BY <1>1, FilmIs DEF Film, Indexed
<1>3. /\ k \in 0 .. Len(s.index)
      /\ k > 0 => s.index[k] < n
      /\ k < Len(s.index) => n <= s.index[k + 1]
  BY DEF Parts
<1>4. CASE s.chunks[n] \in Types
  <2>1. PICK j \in 1 .. Len(s.index) : s.index[j] = n
    BY <1>2, <1>4
  <2>2. k < j
    <3>1. CASE k = j
      BY <1>1, <1>3, <2>1, <3>1
    <3>2. CASE j < k
      BY <1>1, <1>2, <1>3, <2>1, <3>2
    <3> QED BY <1>3, <3>1, <3>2
  <2>3. ~(k + 1 < j)
    <3> SUFFICES ASSUME k + 1 < j PROVE FALSE
      OBVIOUS
    <3>1. k + 1 \in 1 .. Len(s.index) /\ k < Len(s.index)
      BY <1>1, <1>3
    <3>2. s.index[k + 1] < n /\ s.index[k + 1] \in Int
      BY <1>1, <1>2, <2>1, <3>1
    <3> QED BY <1>3, <3>1, <3>2
  <2>4. j = k + 1
    BY <1>3, <2>2, <2>3
  <2>5. k + 1 < Len(s.index) => n + 1 <= s.index[k + 1 + 1]
    <3> SUFFICES ASSUME k + 1 < Len(s.index) PROVE n + 1 <= s.index[k + 1 + 1]
      OBVIOUS
    <3>1. k + 1 + 1 \in 1 .. Len(s.index) /\ j < k + 1 + 1
      BY <1>1, <1>3, <2>4
    <3>2. s.index[j] < s.index[k + 1 + 1] /\ s.index[k + 1 + 1] \in Int
      BY <1>1, <1>2, <3>1
    <3> QED BY <2>1, <3>2
  <2> QED BY <1>3, <1>4, <2>1, <2>4, <2>5 DEF Parts
<1>5. CASE s.chunks[n] \notin Types
  <2>1. k < Len(s.index) => s.index[k + 1] # n
    BY <1>2, <1>3, <1>5
  <2>2. k < Len(s.index) => n + 1 <= s.index[k + 1]
    BY <1>1, <1>3, <2>1
  <2>3. k > 0 => s.index[k] < n + 1
    BY <1>1, <1>3
  <2> QED BY <1>3, <1>5, <2>2, <2>3 DEF Parts
<1> QED BY <1>4, <1>5

-----------------------------------------------------------------------------
(* Commands                                                                *)

\* While the file stays open, what is known of its frames stays.
LEMMA SameFilm ==
  ASSUME mpeg' = mpeg
  PROVE  /\ Chunks' = Chunks /\ Entries' = Entries /\ Frames' = Frames
         /\ References' = References /\ Lost' = Lost
         /\ \A f : Before(f)' = Before(f) /\ After(f)' = After(f) /\ Place(f)' = Place(f)
  BY DEF Chunks, Entries, Frames, References, Lost, Before, After, Place

\* The decoder at the beginning of a file has no picture, and its buffers have no role.
LEMMA IdleHas == Typing /\ Idle => Phase /\ Placed /\ Roles
<1> SUFFICES ASSUME Typing, Idle PROVE Placed /\ Roles
  BY DEF Phase
<1>1. /\ ~Awaits /\ ~Underway /\ ~Half /\ SetUp = -1
  BY DEF Idle, Fresh, Awaits, Underway, Half, SetUp
<1>2. Placed
  <2>1. Passed = 0
    BY <1>1 DEF Passed, Idle
  <2>2. Len(mpeg.index) \in Nat /\ \A j \in 1 .. Len(mpeg.index) : mpeg.index[j] \in Nat \ {0}
    BY FilmIs DEF Typing
  <2> QED BY <2>1, <2>2 DEF Placed, Parts, Idle
<1>3. Roles
  <2>1. origin \in Nat
    BY DEF Typing
  <2>2. dec.fbuf = [b \in Buffers |-> b] /\ dec.type = "none" /\ dec.first
    BY DEF Idle, Fresh
  <2> QED BY <1>1, <2>1, <2>2 DEF Roles, Permuted, Come, Filled
<1> QED BY <1>2, <1>3

\* The first frame of a film is intra coded, and a reference follows it.
LEMMA FirstIs == mpeg \in Streams =>
  /\ Frames \in Nat \ {0} /\ mpeg.types[1] = "I" /\ After(0) = 1
  /\ Len(Chunks) \in Nat /\ Len(Chunks) > 2 /\ Chunks[1] = "seq"
<1> SUFFICES ASSUME mpeg \in Streams
             PROVE  /\ Frames \in Nat \ {0} /\ mpeg.types[1] = "I" /\ After(0) = 1
                    /\ Len(Chunks) \in Nat /\ Len(Chunks) > 2 /\ Chunks[1] = "seq"
  OBVIOUS
<1>1. Frames \in Nat \ {0}
  BY FilmIs DEF Frames
<1>2. After(0) = 1
  BY <1>1, AfterNear
<1> QED BY <1>1, <1>2, FilmIs DEF Film, Layout, Grouped, Chunks

\* The open file at its beginning, with nothing asked of it.
LEMMA BeginningHas ==
  Typing /\ Idle /\ mode = "stopped" /\ origin = 0 /\ drawn = 0 /\ ~ended /\ target = None
    /\ screen = Nothing => Inv
<1> SUFFICES ASSUME Typing, Idle, mode = "stopped", origin = 0, drawn = 0, ~ended,
                    target = None, screen = Nothing
             PROVE  Counted /\ Asked
  BY IdleHas DEF Inv
<1>1. Frames \in Nat \ {0} /\ mpeg.types[1] = "I" /\ After(0) = 1 /\ coded = -1
  BY FirstIs DEF Typing, Idle
<1>2. Counted
  BY <1>1 DEF Counted
<1>3. Asked
  BY <1>1 DEF Asked, Typing
<1> QED BY <1>2, <1>3

\* The decoder before it has read anything has its type.
LEMMA FreshTyped == Fresh \in Decoders /\ Nothing \in Pictures
<1>1. Nothing \in Pictures
  BY DEF Nothing, Pictures
<1>2. [n \in Buffers |-> n] \in [Buffers -> Buffers \cup {None}]
  OBVIOUS
<1>3. "none" \in States /\ "seek_sequence" \in Actions
  BY DEF States, Actions
<1> QED BY <1>1, <1>2, <1>3 DEF Fresh, Decoders

\* Before a file is opened the decoder is idle and nothing was drawn.
LEMMA InitInv == Init => Inv
<1> SUFFICES ASSUME Init PROVE Inv
  OBVIOUS
<1>1. Typing
  <2>1. mpeg \in Streams /\ Len(Chunks) \in Nat
    BY FirstIs DEF Init
  <2>2. 1 \in 1 .. Len(Chunks) + 1
    BY <2>1
  <2>3. dec = Fresh /\ buf = [b \in Buffers |-> Nothing] /\ screen = Nothing /\ last = Nothing
    BY DEF Init
  <2>4. /\ dec \in Decoders /\ buf \in [Buffers -> Pictures]
        /\ screen \in Pictures /\ last \in Pictures
    BY <2>3, FreshTyped
  <2>5. /\ next \in 1 .. Len(Chunks) + 1 /\ coded \in Int /\ toSkip \in Nat /\ drawn \in Nat
        /\ origin \in Nat /\ target \in Int \cup {None} /\ ended \in BOOLEAN
        /\ mode \in {"stopped", "play", "hold", "held"}
    <3>1. /\ next = 1 /\ coded = -1 /\ toSkip = 0 /\ drawn = 0 /\ origin = 0
          /\ target = None /\ ended = FALSE /\ mode = "stopped"
      BY DEF Init
    <3>2. coded \in Int /\ toSkip \in Nat /\ drawn \in Nat /\ origin \in Nat
      BY <3>1
    <3>3. next \in 1 .. Len(Chunks) + 1
      BY <2>2, <3>1
    <3> QED BY <3>1, <3>2, <3>3
  <2> QED BY <2>1, <2>4, <2>5 DEF Typing
<1> QED BY <1>1, BeginningHas DEF Init, Idle

\* Opening a file leaves the decoder at the file's beginning.
LEMMA OpenStep ==
  ASSUME Inv, NEW s \in Streams, Open(s)
  PROVE  Inv'
<1>1. Typing'
  <2>1. mpeg' \in Streams /\ toSkip' \in Nat
    BY DEF Open, Inv, Typing
  <2>2. Len(Chunks') \in Nat
    BY <2>1, FilmIs DEF Chunks
  <2>3. next' = 1 /\ 1 \in 1 .. Len(Chunks') + 1
    BY <2>2 DEF Open
  <2>4. dec' = Fresh /\ buf' = [b \in Buffers |-> Nothing] /\ screen' = Nothing
    BY DEF Open, PartialInit, Nothing
  <2>5. buf' \in [Buffers -> Pictures]
    BY <2>4, FreshTyped
  <2>6. dec' \in Decoders /\ screen' \in Pictures /\ last' \in Pictures
    BY <2>4, FreshTyped DEF Open, Nothing
  <2>7. /\ next' \in 1 .. Len(Chunks') + 1 /\ coded' \in Int /\ drawn' \in Nat
        /\ origin' \in Nat /\ target' \in Int \cup {None} /\ ended' \in BOOLEAN
        /\ mode' \in {"stopped", "play", "hold", "held"}
    <3>1. /\ coded' = -1 /\ drawn' = 0 /\ origin' = 0 /\ target' = None /\ ended' = FALSE
          /\ mode' = "stopped"
      BY DEF Open
    <3>2. coded' \in Int /\ drawn' \in Nat /\ origin' \in Nat
      BY <3>1
    <3> QED BY <2>3, <3>1, <3>2
  <2> QED BY <2>1, <2>5, <2>6, <2>7 DEF Typing
<1>2. /\ Idle' /\ mode' = "stopped" /\ origin' = 0 /\ drawn' = 0 /\ ~ended'
      /\ target' = None /\ screen' = Nothing'
  BY DEF Open, PartialInit, Idle, Nothing, Fresh
<1>3. (Typing /\ Idle /\ mode = "stopped" /\ origin = 0 /\ drawn = 0 /\ ~ended
        /\ target = None /\ screen = Nothing)'
  BY <1>1, <1>2
<1> QED BY <1>3, BeginningHas, PTL

\* What the decoder has is as it was, if nothing is read and nothing drawn.
LEMMA Kept ==
  ASSUME Inv, UNCHANGED <<reading, dec, buf, origin, drawn>>
  PROVE  Phase' /\ Placed' /\ Roles' /\ Whole' = Whole /\ Idle' = Idle /\ Over' = Over
<1>1. /\ mpeg' = mpeg /\ cur' = cur /\ next' = next /\ coded' = coded /\ dec' = dec
      /\ buf' = buf /\ origin' = origin /\ drawn' = drawn
  BY DEF reading
<1>2. /\ Chunks' = Chunks /\ Entries' = Entries /\ Frames' = Frames
      /\ References' = References
      /\ \A f : Before(f)' = Before(f)
  BY <1>1, SameFilm
<1>3. Awaits' = Awaits /\ Underway' = Underway /\ Half' = Half
  BY <1>1 DEF Awaits, Underway, Half
<1>4. SetUp' = SetUp /\ Whole' = Whole /\ Passed' = Passed
  BY <1>1, <1>3 DEF SetUp, Whole, Passed
<1>5. Idle' = Idle /\ Starting' = Starting /\ Over' = Over
  BY <1>1, <1>2 DEF Idle, Starting, Over
<1>6. AtHeader' = AtHeader /\ AtPicture' = AtPicture
  BY <1>1, <1>2, <1>4 DEF AtHeader, AtPicture
<1>7. AtSlices' = AtSlices /\ AtEnd' = AtEnd
  BY <1>1, <1>2, <1>4 DEF AtSlices, AtEnd
<1>8. Placed' = Placed
  BY <1>1, <1>4 DEF Placed
<1>9. Roles' = Roles
  BY <1>1, <1>2, <1>3, <1>4 DEF Roles, Permuted, Come, Filled, Referred, IsWhole
<1> QED BY <1>4, <1>5, <1>6, <1>7, <1>8, <1>9 DEF Inv, Phase

\* Play, at the beginning of the file.
LEMMA PlayStep ==
  ASSUME Inv, Play
  PROVE  Inv'
<1>1. Idle /\ Typing /\ Idle'
  BY DEF Inv, Counted, Play, Idle, reading
<1>2. mpeg' = mpeg /\ coded' = coded /\ target' = target /\ screen' = screen
  BY DEF Play, reading
<1>3. Typing'
  BY <1>1, <1>2, SameFilm DEF Play, reading, Typing, Nothing, Pictures
<1>4. Phase' /\ Placed' /\ Roles'
  BY <1>1, <1>3, IdleHas, PTL
<1>5. Frames \in Nat \ {0} /\ mpeg.types[1] = "I" /\ After(0) = 1 /\ Frames' = Frames
      /\ After(0)' = After(0)
  BY <1>1, <1>2, FirstIs, SameFilm DEF Typing
<1>6. Whole' = -1 /\ coded' = -1
  BY <1>1 DEF Whole, Awaits, Underway, Idle, Fresh
<1>7. Counted'
  BY <1>2, <1>5, <1>6 DEF Counted, Play, DrawnTo
<1>8. Asked'
  BY <1>2, <1>5 DEF Asked, Play, Inv, Typing
<1> QED BY <1>3, <1>4, <1>7, <1>8 DEF Inv

\* Resuming, stepping and pausing leave the decoder where it is.
LEMMA ResumeStep ==
  ASSUME Inv, Resume \/ Step \/ Pause \/ UNCHANGED vars
  PROVE  Inv'
<1>1. /\ UNCHANGED <<reading, dec, buf, origin, drawn, toSkip, screen, last, ended>>
      /\ mpeg' = mpeg /\ coded' = coded
  BY DEF Resume, Step, Pause, vars, asked, showing, reading
<1>2. Phase' /\ Placed' /\ Roles' /\ Whole' = Whole /\ Idle' = Idle /\ Over' = Over
  BY <1>1, Kept
<1>3. /\ Chunks' = Chunks /\ Frames' = Frames /\ Lost' = Lost
      /\ \A f : After(f)' = After(f) /\ Place(f)' = Place(f)
  BY <1>1, SameFilm
<1>4. /\ mode' \in {"stopped", "play", "hold", "held"}
      /\ mode' = "stopped" <=> mode = "stopped"
      /\ target' \in Int \cup {None}
  BY DEF Resume, Step, Pause, vars, asked, showing, Inv, Typing
<1>5. Typing'
  BY <1>1, <1>3, <1>4 DEF Inv, Typing, reading
<1>6. Counted'
  BY <1>1, <1>2, <1>3, <1>4 DEF Inv, Counted, DrawnTo
<1>7. Asked'
  <2>1. /\ mode' \in {"stopped", "play"} => target' = None
        /\ mode' = "hold" /\ target' # None /\ ~mpeg.fields => origin + drawn + toSkip = target'
        /\ mode' = "held" => mode = "held" /\ target' = target
    <3>1. CASE Resume
      BY <3>1 DEF Resume
    <3>2. CASE Step
      BY <3>2 DEF Step, Inv, Asked, Typing
    <3>3. CASE Pause
      BY <3>3 DEF Pause, asked, Inv, Asked
    <3>4. CASE UNCHANGED vars
      BY <3>4 DEF vars, asked, showing, Inv, Asked
    <3> QED BY <3>1, <3>2, <3>3, <3>4
  <2> QED BY <1>1, <1>3, <2>1 DEF Inv, Asked, Nothing
<1> QED BY <1>2, <1>5, <1>6, <1>7 DEF Inv

\* A search, or a skip: decoding begins at an intra picture.
LEMMA GoStep ==
  ASSUME Inv, NEW f \in 0 .. Frames - 1, Search(f) \/ Skip(f)
  PROVE  Inv'
<1> DEFINE i == IF mpeg.fields THEN 2 * f ELSE f
           begin == Start(Entries, i)
<1>1. /\ dec' = [Fresh EXCEPT !.action = "parse_header"] /\ cur' = Chunks[1]
      /\ next' = Entries[begin + 1] /\ toSkip' = i - begin
      /\ origin' = (IF mpeg.fields THEN begin \div 2 ELSE begin) /\ coded' = origin' - 1
      /\ drawn' = 0 /\ last' = Nothing /\ ended' = FALSE
      /\ mpeg' = mpeg /\ buf' = buf /\ screen' = screen
  BY DEF Search, Skip, Go, PartialInit
<1>2. \/ mode' = "hold" /\ target' = f
      \/ mode' = "play" /\ target' = None
  BY DEF Search, Skip
<1>3. mpeg \in Streams /\ Frames \in Nat \ {0} /\ mpeg.fields \in BOOLEAN
  BY FilmIs DEF Inv, Typing, Frames
<1>4. PICK o \in 0 .. f : /\ begin = (IF mpeg.fields THEN 2 * o ELSE o)
                          /\ mpeg.types[o + 1] = "I"
                          /\ i - begin >= After(o) - o - 1
  BY <1>3, StartIs
<1> HIDE DEF i, begin
<1>5. origin' = o /\ o \in Nat /\ o < Frames /\ begin \in Nat /\ i - begin \in Nat
      /\ (~mpeg.fields => i - begin = f - o)
  BY <1>1, <1>3, <1>4 DEF i
<1>6. /\ Len(Entries) = IF mpeg.fields THEN 2 * Frames ELSE Frames
      /\ begin < Len(Entries) /\ Len(Entries) \in Nat
  BY <1>3, <1>4, <1>5, EntryIs
<1>7. /\ Len(Chunks) \in Nat /\ DOMAIN Chunks = 1 .. Len(Chunks)
      /\ \A j \in 1 .. Len(Entries) : Entries[j] \in 1 .. Len(Chunks)
      /\ \A j, k \in 1 .. Len(Entries) : j < k => Entries[j] < Entries[k]
      /\ \A n \in 1 .. Len(Chunks) :
           Chunks[n] \in Types <=> \E k \in 1 .. Len(Entries) : Entries[k] = n
  <2>1. /\ Len(mpeg.chunks) \in Nat /\ DOMAIN mpeg.chunks = 1 .. Len(mpeg.chunks)
        /\ DOMAIN mpeg.index = 1 .. Len(mpeg.index) /\ mpeg.index \in Seq(DOMAIN mpeg.chunks)
        /\ Indexed(mpeg)
    BY <1>3, FilmIs DEF Film
  <2>2. \A j \in 1 .. Len(mpeg.index) : mpeg.index[j] \in 1 .. Len(mpeg.chunks)
    BY <2>1
  <2> QED BY <2>1, <2>2 DEF Indexed, Chunks, Entries
<1>8. /\ next' \in 1 .. Len(Chunks) /\ Chunks[next'] \in Types /\ cur' = "seq"
  <2>1. begin + 1 \in 1 .. Len(Entries)
    BY <1>5, <1>6
  <2>2. Entries[begin + 1] \in 1 .. Len(Chunks) /\ Chunks[Entries[begin + 1]] \in Types
    BY <1>7, <2>1
  <2> QED BY <1>1, <1>3, <2>2, FirstIs
<1>9. /\ Chunks' = Chunks /\ Entries' = Entries /\ Frames' = Frames
      /\ \A g : After(g)' = After(g)
  BY <1>1, SameFilm
<1>10. /\ dec'.action = "parse_header" /\ dec'.fbuf = [b \in Buffers |-> b] /\ dec'.first
       /\ dec'.type = "none" /\ dec'.known = FALSE /\ dec'.state = "none"
  BY <1>1 DEF Fresh
<1>11. Typing'
  <2>1. dec' \in Decoders
    BY <1>1, FreshTyped DEF Decoders, Actions
  <2>2. coded' \in Int /\ target' \in Int \cup {None} /\ toSkip' \in Nat /\ drawn' \in Nat
    BY <1>1, <1>2, <1>5
  <2>3. next' \in 1 .. Len(Chunks') + 1
    BY <1>7, <1>8, <1>9
  <2>4. last' \in Pictures
    BY <1>1, FreshTyped
  <2> QED BY <1>1, <1>2, <1>5, <2>1, <2>2, <2>3, <2>4 DEF Inv, Typing
<1>12. ~Awaits' /\ ~Underway' /\ ~Half' /\ ~Idle' /\ ~Over'
  BY <1>8, <1>10 DEF Awaits, Underway, Half, Idle, Over, Types, Fresh
<1>13. SetUp' = o - 1 /\ Whole' = o - 1 /\ Passed' = begin
  BY <1>1, <1>3, <1>4, <1>5, <1>12 DEF SetUp, Whole, Passed
<1>14. Phase'
  <2>1. Starting'
    BY <1>1, <1>7, <1>8, <1>9 DEF Starting, Fresh
  <2> QED BY <2>1 DEF Phase
<1>15. Placed'
  <2>1. Parts(mpeg, begin, Entries[begin + 1])
    <3>1. begin > 0 => Entries[begin] < Entries[begin + 1]
      <4>1. begin > 0 => begin \in 1 .. Len(Entries) /\ begin + 1 \in 1 .. Len(Entries)
        BY <1>5, <1>6
      <4>2. begin < begin + 1
        BY <1>5
      <4>3. \A j, k \in 1 .. Len(Entries) : j < k => Entries[j] < Entries[k]
        BY <1>7
      <4> QED BY <4>1, <4>2, <4>3
    <3>2. begin \in 0 .. Len(Entries)
      BY <1>5, <1>6
    <3>3. Entries[begin + 1] <= Entries[begin + 1]
      BY <1>5, <1>6, <1>7
    <3> QED BY <3>1, <3>2, <3>3 DEF Parts, Entries
  <2> QED BY <1>1, <1>13, <2>1 DEF Placed
<1>16. Roles'
  <2>1. SetUp' < origin' /\ ~(SetUp' >= origin')
    BY <1>5, <1>13
  <2> QED BY <1>10, <1>12, <2>1 DEF Roles, Permuted, Come, Filled, Buffers
<1>17. Counted'
  <2>1. DrawnTo(Whole)' = 0
    BY <1>1, <1>5, <1>13 DEF DrawnTo
  <2> QED BY <1>1, <1>2, <1>3, <1>4, <1>5, <1>9, <1>12, <2>1 DEF Counted
<1>18. Asked'
  BY <1>1, <1>2, <1>4, <1>5, <1>9, NoneAssumption DEF Asked, Inv, Nothing
<1> QED BY <1>11, <1>14, <1>15, <1>16, <1>17, <1>18 DEF Inv

\* The greater of nothing and a number.
LEMMA MaxZero ==
  ASSUME NEW n \in Int
  PROVE  Max({0, n}) = IF n < 0 THEN 0 ELSE n
<1>1. Max({0, n}) \in {0, n} /\ \A x \in {0, n} : x <= Max({0, n})
  <2>1. PICK b \in {0, n} : \A x \in {0, n} : x <= b
    <3>1. CASE n < 0
      <4>1. \A x \in {0, n} : x <= 0
        BY <3>1
      <4> QED BY <4>1
    <3>2. CASE ~(n < 0)
      <4>1. \A x \in {0, n} : x <= n
        BY <3>2
      <4> QED BY <4>1
    <3> QED BY <3>1, <3>2
  <2>2. {0, n} \in SUBSET Int /\ {0, n} # {} /\ b \in Int
    OBVIOUS
  <2> QED BY <2>1, <2>2, MaxIs
<1> QED BY <1>1

\* When all chunks have been read, the last frame has been come to.
LEMMA AtLast ==
  ASSUME Typing, Placed, next = Len(Chunks) + 1
  PROVE  coded = Frames - 1
<1>1. /\ mpeg.fields \in BOOLEAN /\ Frames \in Nat \ {0} /\ Len(Chunks) \in Nat
      /\ Len(Entries) = IF mpeg.fields THEN 2 * Frames ELSE Frames
      /\ \A j \in 1 .. Len(Entries) : Entries[j] \in 1 .. Len(Chunks)
  <2>1. mpeg \in Streams /\ mpeg.index \in Seq(DOMAIN mpeg.chunks)
        /\ DOMAIN mpeg.chunks = 1 .. Len(mpeg.chunks)
    BY FilmIs DEF Typing
  <2> QED BY <2>1, FilmIs, EntryIs DEF Entries, Chunks, Frames
<1>2. Passed \in 0 .. Len(Entries) /\ (Passed < Len(Entries) => next <= Entries[Passed + 1])
  BY DEF Placed, Parts, Entries
<1>3. Passed = Len(Entries)
  BY <1>1, <1>2
<1> QED BY <1>1, <1>3 DEF Passed, Typing

\* The end of the file starts the decoder afresh, with what can be drawn drawn.
LEMMA EofStep ==
  ASSUME Inv, Eof
  PROVE  Inv'
<1>1. /\ mode \in {"play", "hold"} /\ next > Len(Chunks) /\ dec.action # "header_end"
      /\ mode' = "stopped" /\ dec' = Fresh /\ next' = 1 /\ ended' = TRUE /\ target' = None
      /\ coded' = -1 /\ mpeg' = mpeg /\ buf' = buf
      /\ toSkip' = toSkip /\ screen' = screen /\ drawn' = drawn /\ last' = last
      /\ origin' = origin
  BY DEF Eof, PartialInit
<1>2. /\ Chunks' = Chunks /\ Frames' = Frames /\ Lost' = Lost
      /\ \A g : After(g)' = After(g) /\ Place(g)' = Place(g)
  BY <1>1, SameFilm
<1>3. Typing /\ Len(Chunks) \in Nat /\ Len(Chunks) > 2 /\ Frames \in Nat \ {0}
  BY FirstIs DEF Inv, Typing
<1>4. Typing'
  BY <1>1, <1>2, <1>3, FreshTyped DEF Typing
<1>5. Idle' /\ Phase' /\ Placed' /\ Roles'
  <2>1. Idle'
    BY <1>1 DEF Idle, Fresh
  <2> QED BY <1>4, <2>1, IdleHas, PTL
<1>6. drawn = Max({0, Frames - origin - Lost})
  <2>1. next = Len(Chunks) + 1 /\ coded = Frames - 1 /\ origin < Frames /\ origin \in Nat
    <3>1. next = Len(Chunks) + 1
      BY <1>1, <1>3 DEF Typing
    <3> QED BY <3>1, AtLast DEF Inv, Typing, Counted
  <2>2. Chunks[Len(Chunks)] \in {"slices", "end"}
    BY <1>3, FilmIs DEF Film, Layout, Chunks, Typing
  <2>3. ~Idle /\ ~Starting /\ ~AtHeader /\ ~AtPicture /\ ~AtEnd
    <3>1. Len(Chunks) + 1 - 1 = Len(Chunks)
      BY <1>3
    <3> QED BY <1>1, <1>3, <2>1, <2>2, <3>1
            DEF Idle, Starting, AtHeader, AtPicture, AtEnd, Types
  <2>4. CASE AtSlices
    <3>1. Last(Chunks) = "slices"
      <4>1. next - 1 = Len(Chunks)
        BY <1>3, <2>1
      <4>2. Chunks[next - 1] = "slices"
        BY <2>4 DEF AtSlices
      <4> QED BY <4>1, <4>2 DEF Last
    <3>2. Lost = IF mpeg.low THEN 1 ELSE 2
      BY <3>1 DEF Lost
    <3>3. Whole = coded - 1 /\ ~Over
      BY <2>4 DEF AtSlices, Whole, Underway, Over
    <3>4. drawn = DrawnTo(coded - 1)
      BY <1>1, <3>3 DEF Inv, Counted
    <3>5. drawn = IF Frames - origin - Lost < 0 THEN 0 ELSE Frames - origin - Lost
      BY <1>3, <2>1, <3>2, <3>4 DEF DrawnTo
    <3> QED BY <1>3, <2>1, <3>2, <3>5, MaxZero
  <2>5. CASE Over
    <3>1. Lost = 0 /\ drawn = Frames - origin
      BY <2>5 DEF Lost, Over
    <3>2. Frames - origin - Lost = drawn /\ drawn \in Nat /\ Frames - origin - Lost \in Int
      BY <1>3, <2>1, <3>1
    <3> QED BY <3>2, MaxZero
  <2> QED BY <2>3, <2>4, <2>5 DEF Inv, Phase
<1>7. Counted'
  BY <1>1, <1>2, <1>3, <1>5, <1>6 DEF Inv, Counted
<1>8. Asked'
  BY <1>1, <1>2 DEF Inv, Asked, Nothing
<1> QED BY <1>4, <1>5, <1>7, <1>8 DEF Inv

-----------------------------------------------------------------------------
(* Reading                                                                 *)

\* What comes after a chunk.
LEMMA FollowingIs ==
  ASSUME mpeg \in Streams, NEW n \in 1 .. Len(Chunks), n > 1
  PROVE  /\ Chunks[n - 1] = "seq" => Chunks[n] \in {"gop"} \cup Types
         /\ Chunks[n - 1] = "gop" => Chunks[n] \in Types
         /\ Chunks[n - 1] \in Types => Chunks[n] = "slices"
         /\ Chunks[n - 1] = "slices" => Chunks[n] \in {"seq", "gop", "end"} \cup Types
         /\ Chunks[n] = "end" => n = Len(Chunks)
<1>1. /\ Len(Chunks) \in Nat
      /\ \A j \in 1 .. Len(Chunks) - 1 : Chunks[j + 1] \in Following(Chunks[j])
  BY FilmIs DEF Film, Layout, Chunks
<1>2. (n - 1) \in 1 .. Len(Chunks) - 1 /\ (n - 1) + 1 = n
  BY <1>1
<1>3. Chunks[n] \in Following(Chunks[n - 1])
  BY <1>1, <1>2
<1>4. Chunks[n] = "end" => n = Len(Chunks)
  <2>1. n < Len(Chunks) => Chunks[n + 1] \in Following(Chunks[n])
    BY <1>1
  <2>2. Following("end") = {}
    BY DEF Following, Types
  <2> QED BY <1>1, <2>1, <2>2
<1>5. /\ Following("seq") = {"gop"} \cup Types
      /\ Following("gop") = Types
      /\ Following("slices") = {"seq", "gop", "end"} \cup Types
      /\ \A t \in Types : Following(t) = {"slices"}
  BY DEF Following, Types
<1> QED BY <1>3, <1>4, <1>5

\* What reading does.
LEMMA ReadIs ==
  ASSUME Inv, Read
  PROVE  /\ mode \in {"play", "hold"} /\ next \in 1 .. Len(Chunks) /\ Len(Chunks) \in Nat
         /\ cur' = Chunks[next] /\ next' = next + 1
         /\ coded' = (IF cur' \in Types /\ ~(mpeg.fields /\ dec.state = "picture")
                      THEN coded + 1 ELSE coded)
         /\ mpeg' = mpeg /\ target' = target /\ origin' = origin /\ ended' = ended
         /\ mpeg \in Streams /\ Chunks' = Chunks /\ Entries' = Entries /\ Frames' = Frames
         /\ References' = References /\ Lost' = Lost
         /\ \A f : Before(f)' = Before(f) /\ After(f)' = After(f) /\ Place(f)' = Place(f)
<1>1. Typing /\ mpeg' = mpeg
  BY DEF Inv, Read
<1>2. Len(Chunks) \in Nat
  BY <1>1, FirstIs DEF Typing
<1>3. next \in 1 .. Len(Chunks)
  BY <1>1, <1>2 DEF Read, Typing
<1>4. /\ Chunks' = Chunks /\ Entries' = Entries /\ Frames' = Frames
      /\ References' = References /\ Lost' = Lost
      /\ \A f : Before(f)' = Before(f) /\ After(f)' = After(f) /\ Place(f)' = Place(f)
  BY <1>1, SameFilm
<1> QED BY <1>1, <1>2, <1>3, <1>4 DEF Read, asked, Typing

\* Nothing is drawn.
LEMMA Undrawn ==
  ASSUME Inv, UNCHANGED <<showing, asked>>, mpeg' = mpeg, Over' <=> Over, mode # "stopped",
         ~Idle', coded' < Frames, ~Over => DrawnTo(Whole)' = drawn
  PROVE  Counted' /\ Asked'
<1>1. /\ mode' = mode /\ toSkip' = toSkip /\ screen' = screen /\ drawn' = drawn /\ last' = last
      /\ target' = target /\ origin' = origin /\ ended' = ended
  BY DEF showing, asked
<1>2. /\ Frames' = Frames /\ Lost' = Lost
      /\ \A f : After(f)' = After(f) /\ Place(f)' = Place(f)
  BY SameFilm
<1>3. Counted'
  BY <1>1, <1>2 DEF Inv, Counted
<1>4. Asked'
  BY <1>1, <1>2 DEF Inv, Asked, Nothing
<1> QED BY <1>3, <1>4

\* The first header of the file is found.
LEMMA SeekStep ==
  ASSUME Inv, SeekHeader
  PROVE  Inv'
<1>1. Read /\ Typing /\ Placed /\ dec.action \in {"seek_sequence", "seek_header"}
      /\ buf' = buf /\ UNCHANGED showing
      /\ dec' = [dec EXCEPT !.action =
           IF cur' = "seq" \/ (dec.known /\ cur' \in {"gop"} \cup Types)
           THEN "parse_header" ELSE @]
  BY DEF SeekHeader, Inv
<1>2. /\ next \in 1 .. Len(Chunks) /\ Len(Chunks) \in Nat /\ mode \in {"play", "hold"}
      /\ cur' = Chunks[next] /\ next' = next + 1 /\ mpeg' = mpeg /\ mpeg \in Streams
      /\ origin' = origin /\ Chunks' = Chunks /\ Frames' = Frames
      /\ UNCHANGED asked
  BY <1>1, ReadIs DEF Read
<1>3. Idle
  BY <1>1, <1>2 DEF Inv, Phase, Starting, AtHeader, AtPicture, AtSlices, AtEnd, Over, Fresh
<1>4. /\ dec = Fresh /\ next = 1 /\ coded = -1 /\ origin = 0 /\ cur' = "seq"
      /\ Chunks[2] = "gop" /\ 2 <= Len(Chunks) /\ Frames \in Nat \ {0}
  <2>1. dec = Fresh /\ next = 1 /\ coded = -1 /\ origin = 0
    BY <1>2, <1>3 DEF Idle, Inv, Counted
  <2>2. Chunks[1] = "seq" /\ Chunks[2] = "gop" /\ Len(Chunks) > 2
    BY <1>2, FilmIs DEF Film, Layout, Chunks
  <2> QED BY <1>2, <2>1, <2>2, FirstIs
<1>5. dec' = [Fresh EXCEPT !.action = "parse_header"] /\ next' = 2 /\ coded' = -1
  BY <1>1, <1>2, <1>4, ReadIs DEF Types
<1>6. ~Awaits' /\ ~Underway' /\ ~Half' /\ ~Idle' /\ ~Over' /\ ~Over
  BY <1>4, <1>5 DEF Awaits, Underway, Half, Idle, Over, Types, Fresh
<1>7. SetUp' = -1 /\ Whole' = -1 /\ Passed' = 0 /\ Passed = 0
  <2>1. ~Half
    BY <1>4 DEF Half, Awaits, Fresh
  <2> QED BY <1>2, <1>4, <1>5, <1>6, <2>1 DEF SetUp, Whole, Passed
<1>8. Typing'
  <2>1. dec' \in Decoders
    BY <1>5, FreshTyped DEF Decoders, Actions
  <2>2. next' \in 1 .. Len(Chunks') + 1 /\ coded' \in Int
    BY <1>2, <1>4, <1>5
  <2> QED BY <1>1, <1>2, <2>1, <2>2 DEF Typing, showing, asked
<1>9. Phase'
  BY <1>2, <1>4, <1>5 DEF Phase, Starting
<1>10. Placed'
  <2>1. Chunks[1] \notin Types
    BY <1>2, <1>4 DEF Types
  <2>2. Parts(mpeg, 0, 1 + 1)
    <3>1. Parts(mpeg, 0, 1) /\ 1 \in 1 .. Len(mpeg.chunks) /\ mpeg.chunks[1] \notin Types
      BY <1>1, <1>2, <1>4, <1>7, <2>1 DEF Placed, Chunks
    <3> QED BY <1>2, <3>1, Advance
  <2> QED BY <1>2, <1>5, <1>7, <2>2 DEF Placed
<1>11. Roles'
  <2>1. SetUp' < origin' /\ ~(SetUp' >= origin')
    BY <1>2, <1>4, <1>7
  <2>2. dec'.fbuf = [b \in Buffers |-> b] /\ dec'.type = "none" /\ dec'.first
    BY <1>5 DEF Fresh
  <2> QED BY <1>6, <2>1, <2>2 DEF Roles, Permuted, Come, Filled, Buffers
<1>12. Counted' /\ Asked'
  <2>1. Whole = -1
    BY <1>4 DEF Whole, Awaits, Underway, Fresh
  <2>2. drawn = DrawnTo(-1)
    BY <1>2, <1>6, <2>1 DEF Inv, Counted
  <2>3. DrawnTo(Whole)' = drawn
    BY <1>2, <1>7, <2>2 DEF DrawnTo
  <2>4. coded' < Frames
    BY <1>4, <1>5
  <2>5. UNCHANGED <<showing, asked>> /\ (Over' <=> Over)
    BY <1>1, <1>2, <1>6
  <2> QED BY <1>2, <1>6, <2>3, <2>4, <2>5, Undrawn
<1> QED BY <1>8, <1>9, <1>10, <1>11, <1>12 DEF Inv

\* Frame w is whole, or none has begun, and a header is read.
LEMMA BetweenPictures ==
  ASSUME NEW w \in Int, w = coded, Inv, Read, w >= origin - 1,
         Parts(mpeg, IF mpeg.fields THEN 2 * w + 2 ELSE w + 1, next),
         cur' \in {"seq", "gop"} \cup Types,
         coded' = (IF cur' \in Types THEN w + 1 ELSE w),
         dec'.action = "parse_header", dec'.known, dec'.alloc = 3,
         dec'.state \notin {"picture", "picture_2nd", "slice_1st"},
         Permuted', Come(w)', Filled(w)'
  PROVE  /\ Phase' /\ Placed' /\ Roles' /\ Whole' = w /\ ~Idle' /\ ~Over' /\ coded' < Frames
         /\ coded' \in Int
<1>1. /\ next \in 1 .. Len(Chunks) /\ Len(Chunks) \in Nat /\ cur' = Chunks[next]
      /\ next' = next + 1 /\ mpeg' = mpeg /\ origin' = origin /\ mpeg \in Streams
      /\ Chunks' = Chunks /\ Entries' = Entries /\ References' = References
  BY ReadIs
<1>2. mpeg.fields \in BOOLEAN /\ Frames \in Nat \ {0} /\ w < Frames /\ origin \in Nat
      /\ Len(Entries) = IF mpeg.fields THEN 2 * Frames ELSE Frames
  BY <1>1, FilmIs, EntryIs DEF Inv, Counted, Typing, Frames
<1>3. ~Underway' /\ ~Idle' /\ ~Over' /\ (Awaits' <=> cur' \in Types) /\ (Half' <=> mpeg.fields /\ cur' \in Types)
  BY <1>1 DEF Awaits, Underway, Half, Idle, Over, Fresh, Types
<1> DEFINE k == IF mpeg.fields THEN 2 * w + 2 ELSE w + 1
<1>4. k \in Int /\ Parts(mpeg, k, next)
  BY <1>2
<1>5. SetUp' = w /\ Whole' = w /\ Passed' = (IF cur' \in Types THEN k + 1 ELSE k)
  BY <1>1, <1>2, <1>3 DEF SetUp, Whole, Passed
<1> HIDE DEF k
<1>6. /\ Parts(mpeg, Passed', next + 1)
      /\ cur' \in Types => k + 1 <= Len(Entries) /\ Entries[k + 1] = next
  BY <1>1, <1>4, <1>5, Advance DEF Chunks, Entries
<1>7. Placed'
  BY <1>1, <1>6 DEF Placed
<1>8. coded' < Frames
  BY <1>2, <1>6 DEF k
<1>9. Phase'
  <2>1. next + 1 - 1 = next /\ next' > 1
    BY <1>1
  <2>2. CASE cur' \in Types
    <3>1. Passed' > 0 /\ Entries[Passed'] = next
      BY <1>5, <1>6, <2>2, <1>4 DEF Parts
    <3>2. coded' >= origin
      BY <1>2, <2>2
    <3>3. AtPicture'
      BY <1>1, <2>1, <2>2, <3>1, <3>2 DEF AtPicture
    <3> QED BY <3>3 DEF Phase
  <2>3. CASE cur' \notin Types
    <3>1. AtHeader'
      BY <1>1, <2>1, <2>3 DEF AtHeader
    <3> QED BY <3>1 DEF Phase
  <2> QED BY <2>2, <2>3
<1>10. Roles'
  BY <1>3, <1>5 DEF Roles
<1>11. coded' \in Int
  OBVIOUS
<1> QED BY <1>3, <1>5, <1>7, <1>8, <1>9, <1>10, <1>11

\* The headers that come before a picture.
LEMMA HeaderStep ==
  ASSUME Inv, ParseHeader, ~(cur \in Types)
  PROVE  Inv'
<1>1. /\ Read /\ Typing /\ Placed /\ dec.action = "parse_header" /\ buf' = buf
      /\ UNCHANGED <<showing, asked>>
  BY DEF ParseHeader, Inv, Read
<1>2. /\ mode \in {"play", "hold"} /\ next \in 1 .. Len(Chunks) /\ Len(Chunks) \in Nat
      /\ cur' = Chunks[next] /\ next' = next + 1 /\ mpeg' = mpeg /\ origin' = origin
      /\ coded' = (IF cur' \in Types /\ ~(mpeg.fields /\ dec.state = "picture")
                   THEN coded + 1 ELSE coded)
      /\ mpeg \in Streams /\ Chunks' = Chunks /\ References' = References
      /\ \A f : Before(f)' = Before(f)
  BY <1>1, ReadIs
<1>3. Starting \/ AtHeader
  BY <1>1, <1>2 DEF Inv, Phase, Idle, AtPicture, AtSlices, AtEnd, Over, Fresh
<1>4. /\ cur \in {"seq", "gop"} /\ dec.state \notin {"picture", "picture_2nd", "slice_1st"}
      /\ coded >= origin - 1 /\ dec.fbuf = dec.fbuf
      /\ cur = "seq" => cur' \in {"gop"} \cup Types
      /\ cur = "gop" => cur' \in Types
      /\ dec.known => dec.alloc = 3
      /\ ~dec.known => dec.alloc = 0 /\ cur = "seq"
  <2>1. CASE Starting
    BY <1>2, <2>1 DEF Starting, Fresh, Inv, Typing
  <2>2. CASE AtHeader
    BY <1>2, <2>2, FollowingIs DEF AtHeader, Inv, Typing
  <2> QED BY <1>3, <2>1, <2>2
<1>5. ~Awaits /\ ~Underway /\ ~Half /\ ~Over /\ ~Idle
  BY <1>1, <1>4 DEF Awaits, Underway, Half, Over, Idle, Types, Fresh
<1>6. dec' = IF cur = "seq" THEN Finalize([dec EXCEPT !.state = "sequence", !.display = None])
             ELSE [dec EXCEPT !.state = "gop", !.display = None]
  BY <1>4 DEF ParseHeader, Header
<1>7. /\ dec'.action = "parse_header" /\ dec'.known /\ dec'.alloc = 3
      /\ dec'.state \notin {"picture", "picture_2nd", "slice_1st"}
      /\ dec'.fbuf = dec.fbuf /\ dec'.type = dec.type /\ dec'.first = dec.first
      /\ dec' \in Decoders
  <2> DEFINE s == IF cur = "seq" THEN IF dec.known THEN "repeated" ELSE "sequence" ELSE "gop"
  <2>1. dec \in Decoders
    BY <1>1 DEF Typing
  <2>2. dec' = [dec EXCEPT !.state = s, !.display = None, !.known = TRUE, !.alloc = 3]
    <3>1. CASE cur = "seq" /\ dec.known
      BY <1>4, <1>6, <2>1, <3>1 DEF Finalize, Decoders
    <3>2. CASE cur = "seq" /\ ~dec.known
      <4> DEFINE d == [dec EXCEPT !.state = "sequence", !.display = None]
      <4>1. dec.known = FALSE /\ dec.alloc = 0 /\ s = "sequence"
        BY <1>4, <2>1, <3>2 DEF Decoders
      <4>2. d.known = FALSE /\ d.alloc = 0
        BY <2>1, <4>1 DEF Decoders
      <4>3. dec' = [d EXCEPT !.known = TRUE, !.alloc = 3]
        <5>1. dec' = Finalize(d)
          BY <1>6, <3>2
        <5>2. d.alloc + 3 = 3
          BY <4>2
        <5> HIDE DEF d
        <5> QED BY <4>2, <5>1, <5>2 DEF Finalize
      <4> HIDE DEF s
      <4> QED BY <2>1, <4>1, <4>3 DEF Decoders
    <3>3. CASE cur = "gop"
      <4>1. dec.known = TRUE /\ dec.alloc = 3 /\ s = "gop"
        BY <1>4, <2>1, <3>3 DEF Decoders
      <4>2. dec' = [dec EXCEPT !.state = "gop", !.display = None]
        BY <1>6, <3>3
      <4> HIDE DEF s
      <4> QED BY <2>1, <4>1, <4>2 DEF Decoders
    <3> QED BY <1>4, <3>1, <3>2, <3>3
  <2>3. s \in States \ {"picture", "picture_2nd", "slice_1st"}
    BY DEF States
  <2> HIDE DEF s
  <2> QED BY <1>1, <2>1, <2>2, <2>3 DEF Decoders
<1>8. PICK w \in Int : w = coded
  BY <1>1 DEF Typing
<1>9. Permuted /\ Come(w) /\ Filled(w)
  BY <1>5, <1>8 DEF Inv, Roles, SetUp
<1>10. Permuted' /\ Come(w)' /\ Filled(w)'
  BY <1>1, <1>2, <1>7, <1>9 DEF Permuted, Come, Filled, Referred, IsWhole
<1>11. Parts(mpeg, IF mpeg.fields THEN 2 * w + 2 ELSE w + 1, next)
  BY <1>1, <1>2, <1>5, <1>8, FilmIs DEF Placed, Passed
<1>12. cur' \in {"seq", "gop"} \cup Types /\ coded' = (IF cur' \in Types THEN w + 1 ELSE w)
  BY <1>2, <1>4, <1>8
<1>13. /\ Phase' /\ Placed' /\ Roles' /\ Whole' = w /\ ~Idle' /\ ~Over' /\ coded' < Frames
       /\ coded' \in Int
  <2>1. w >= origin - 1
    BY <1>4, <1>8
  <2> QED BY <1>1, <1>7, <1>8, <1>10, <1>11, <1>12, <2>1, BetweenPictures
<1>14. Typing'
  <2>1. next' \in 1 .. Len(Chunks') + 1
    BY <1>2
  <2> QED BY <1>1, <1>2, <1>7, <1>13, <2>1 DEF Typing, showing, asked
<1>15. Counted' /\ Asked'
  <2>1. Whole = w
    BY <1>5, <1>8 DEF Whole
  <2>2. DrawnTo(Whole)' = drawn
    BY <1>2, <1>5, <1>13, <2>1 DEF Inv, Counted, DrawnTo
  <2>3. Over' <=> Over
    BY <1>5, <1>13
  <2> QED BY <1>1, <1>2, <1>13, <2>2, <2>3, Undrawn
<1> QED BY <1>13, <1>14, <1>15 DEF Inv

\* The type of the picture whose header was read.
LEMMA TypeIs ==
  ASSUME Inv, AtPicture
  PROVE  /\ coded \in 0 .. Frames - 1
         /\ Awaits => cur = mpeg.types[coded + 1]
         /\ cur = "B" <=> coded \notin References
<1>1. /\ mpeg \in Streams /\ coded < Frames /\ coded >= origin /\ origin \in Nat /\ coded \in Int
      /\ Frames \in Nat \ {0} /\ mpeg.fields \in BOOLEAN
      /\ cur = Chunks[next - 1] /\ Entries[Passed] = next - 1 /\ cur \in Types
      /\ dec.action = "parse_header" /\ (dec.state = "slice_1st" => mpeg.fields)
  BY FilmIs DEF Inv, Counted, Typing, AtPicture, Frames
<1>2. coded \in 0 .. Frames - 1
  BY <1>1
<1>3. coded \in References <=> mpeg.types[coded + 1] # "B"
  BY <1>1, <1>2, ReferencesAre
<1>4. CASE Awaits
  <2>1. cur = mpeg.types[coded + 1]
    <3>1. CASE mpeg.fields
      <4>1. Passed = 2 * coded + 1
        BY <1>4, <3>1 DEF Passed, Half
      <4> QED BY <1>1, <1>2, <3>1, <4>1, EntryIs
    <3>2. CASE ~mpeg.fields
      <4>1. Passed = coded + 1
        BY <3>2 DEF Passed
      <4> QED BY <1>1, <1>2, <3>2, <4>1, EntryIs
    <3> QED BY <1>1, <3>1, <3>2
  <2> QED BY <1>2, <1>3, <2>1
<1>5. CASE ~Awaits
  <2>1. mpeg.fields /\ Passed = 2 * coded + 2
    BY <1>1, <1>5 DEF Awaits, Passed, Half
  <2>2. cur \in IF mpeg.types[coded + 1] = "B" THEN {"B"} ELSE {"P"}
    BY <1>1, <1>2, <2>1, EntryIs
  <2> QED BY <1>2, <1>3, <1>5, <2>2
<1> QED BY <1>4, <1>5

\* What a header of a picture does to the decoder, when it is the first of its frame.
LEMMA TurnIs ==
  ASSUME Typing, Permuted, cur \in Types, dec.state # "slice_1st"
  PROVE  LET d == Picture(dec, cur)
             held == cur # "B" /\ ~mpeg.low
         IN /\ d \in Decoders /\ d.state = "picture" /\ d.type = cur
            /\ d.action = dec.action /\ d.known = dec.known /\ d.alloc = dec.alloc
            /\ d.first = (dec.first /\ ~held)
            /\ d.fbuf[1] = (IF dec.type = "B" THEN dec.fbuf[1] ELSE dec.fbuf[0])
            /\ d.fbuf[2] = (IF dec.type = "B" THEN dec.fbuf[2] ELSE dec.fbuf[1])
            /\ d.fbuf[0] \in Buffers /\ d.fbuf[1] \in Buffers /\ d.fbuf[2] \in Buffers
            /\ d.fbuf[0] # d.fbuf[1] /\ d.fbuf[0] # d.fbuf[2] /\ d.fbuf[1] # d.fbuf[2]
            /\ d.display = IF ~held THEN d.fbuf[0] ELSE IF dec.first THEN None ELSE d.fbuf[1]
<1> DEFINE held == cur # "B" /\ ~mpeg.low
           r == IF dec.type = "B" THEN dec
                ELSE [dec EXCEPT !.fbuf[2] = dec.fbuf[1], !.fbuf[1] = dec.fbuf[0]]
           e == Rotate(dec, cur)
           d == Picture(dec, cur)
           b == Min(Buffers \ {e.fbuf[1], e.fbuf[2]})
<1>1. /\ dec \in Decoders /\ mpeg.low \in BOOLEAN
      /\ dec.fbuf[0] \in Buffers /\ dec.fbuf[1] \in Buffers /\ dec.fbuf[2] \in Buffers
      /\ dec.fbuf[0] # dec.fbuf[1] /\ dec.fbuf[0] # dec.fbuf[2] /\ dec.fbuf[1] # dec.fbuf[2]
  BY FilmIs DEF Typing, Permuted, Buffers
<1>2. /\ r \in Decoders /\ r.display = dec.display /\ r.first = dec.first
      /\ r.action = dec.action /\ r.known = dec.known /\ r.alloc = dec.alloc
      /\ r.fbuf[1] = (IF dec.type = "B" THEN dec.fbuf[1] ELSE dec.fbuf[0])
      /\ r.fbuf[2] = (IF dec.type = "B" THEN dec.fbuf[2] ELSE dec.fbuf[1])
  <2> DEFINE F == dec.fbuf
  <2>1. F \in [Buffers -> Buffers \cup {None}] /\ 0 \in Buffers /\ 1 \in Buffers /\ 2 \in Buffers
    BY <1>1 DEF Decoders, Buffers
  <2>2. CASE dec.type = "B"
    BY <1>1, <2>2
  <2>3. CASE dec.type # "B"
    <3> DEFINE G == [F EXCEPT ![2] = F[1], ![1] = F[0]]
    <3>1. G \in [Buffers -> Buffers \cup {None}] /\ G[1] = F[0] /\ G[2] = F[1]
      BY <1>1, <2>1
    <3>2. r = [dec EXCEPT !.fbuf = G]
      BY <1>1, <2>1, <2>3 DEF Decoders
    <3> HIDE DEF G, r
    <3> QED BY <1>1, <2>3, <3>1, <3>2 DEF Decoders
  <2> QED BY <2>2, <2>3
<1>3. e = [r EXCEPT !.fbuf[0] = None, !.first = @ /\ ~held,
             !.display = IF held /\ ~dec.first THEN r.fbuf[1] ELSE None]
  BY DEF Rotate
<1> HIDE DEF r
<1>4. /\ e \in Decoders /\ e.first = (dec.first /\ ~held)
      /\ e.action = dec.action /\ e.known = dec.known /\ e.alloc = dec.alloc
      /\ e.fbuf[1] = r.fbuf[1] /\ e.fbuf[2] = r.fbuf[2]
      /\ e.display = IF held /\ ~dec.first THEN r.fbuf[1] ELSE None
  <2> DEFINE G == [r.fbuf EXCEPT ![0] = None]
             x == IF held /\ ~dec.first THEN r.fbuf[1] ELSE None
  <2>1. r.fbuf \in [Buffers -> Buffers \cup {None}] /\ 0 \in Buffers /\ 1 \in Buffers /\ 2 \in Buffers
    BY <1>2 DEF Decoders, Buffers
  <2>2. G \in [Buffers -> Buffers \cup {None}] /\ G[1] = r.fbuf[1] /\ G[2] = r.fbuf[2]
    BY <2>1 DEF Buffers
  <2>3. x \in Buffers \cup {None}
    BY <2>1
  <2>4. e = [r EXCEPT !.fbuf = G, !.first = (dec.first /\ ~held), !.display = x]
    BY <1>2, <1>3, <2>1 DEF Decoders
  <2>5. dec.first \in BOOLEAN /\ (dec.first /\ ~held) \in BOOLEAN
    BY <1>1 DEF Decoders
  <2> HIDE DEF G, x, held, e
  <2>6. /\ e \in Decoders /\ e.first = (dec.first /\ ~held)
        /\ e.action = dec.action /\ e.known = dec.known /\ e.alloc = dec.alloc
        /\ e.fbuf = G /\ e.display = x
    BY <1>2, <2>2, <2>3, <2>4, <2>5 DEF Decoders
  <2> QED BY <2>2, <2>6 DEF x
<1>5. /\ e.fbuf[1] \in Buffers /\ e.fbuf[2] \in Buffers /\ e.fbuf[1] # e.fbuf[2]
  BY <1>1, <1>2, <1>4
<1>6. d = [SetFbuf(e, cur) EXCEPT !.state = "picture", !.type = cur]
  BY DEF Picture
<1>7. SetFbuf(e, cur) = [e EXCEPT !.fbuf[0] = b, !.display = IF ~held THEN b ELSE @]
  BY <1>1 DEF SetFbuf
<1> HIDE DEF e, d
<1>8. b \in Buffers /\ b # e.fbuf[1] /\ b # e.fbuf[2]
  <2>1. Buffers \ {e.fbuf[1], e.fbuf[2]} \in SUBSET Int
    BY DEF Buffers
  <2>2. Buffers \ {e.fbuf[1], e.fbuf[2]} # {} /\ \A x \in Buffers : 0 <= x
    BY DEF Buffers
  <2>3. b \in Buffers \ {e.fbuf[1], e.fbuf[2]}
    BY <2>1, <2>2, MinIs
  <2> QED BY <2>3
<1> HIDE DEF b, held
<1>9. /\ d.state = "picture" /\ d.type = cur
      /\ d.action = e.action /\ d.known = e.known /\ d.alloc = e.alloc /\ d.first = e.first
      /\ d.fbuf[0] = b /\ d.fbuf[1] = e.fbuf[1] /\ d.fbuf[2] = e.fbuf[2]
      /\ d.display = IF ~held THEN b ELSE e.display
      /\ d \in Decoders
  <2> DEFINE G == [e.fbuf EXCEPT ![0] = b]
             x == IF ~held THEN b ELSE e.display
  <2>1. /\ e.fbuf \in [Buffers -> Buffers \cup {None}] /\ e.display \in Buffers \cup {None}
        /\ 0 \in Buffers /\ 1 \in Buffers /\ 2 \in Buffers
    BY <1>4 DEF Decoders, Buffers
  <2>2. /\ G \in [Buffers -> Buffers \cup {None}]
        /\ G[0] = b /\ G[1] = e.fbuf[1] /\ G[2] = e.fbuf[2]
    BY <1>8, <2>1 DEF Buffers
  <2>3. x \in Buffers \cup {None}
    BY <1>8, <2>1
  <2>4. d = [e EXCEPT !.fbuf = G, !.display = x, !.state = "picture", !.type = cur]
    BY <1>4, <1>6, <1>7, <2>1 DEF Decoders
  <2> HIDE DEF G, x
  <2>5. "picture" \in States
    BY DEF States
  <2>6. /\ d.state = "picture" /\ d.type = cur
        /\ d.action = e.action /\ d.known = e.known /\ d.alloc = e.alloc /\ d.first = e.first
        /\ d.fbuf = G /\ d.display = x /\ d \in Decoders
    BY <1>4, <2>2, <2>3, <2>4, <2>5 DEF Decoders
  <2> QED BY <2>2, <2>6 DEF x
<1>10. d.display = IF ~held THEN d.fbuf[0] ELSE IF dec.first THEN None ELSE d.fbuf[1]
  BY <1>4, <1>9
<1> QED BY <1>2, <1>4, <1>5, <1>8, <1>9, <1>10 DEF d, held

\* A header of a picture, whose slices come.
LEMMA PictureStep ==
  ASSUME Inv, ParseHeader, cur \in Types
  PROVE  Inv'
<1>1. /\ Read /\ Typing /\ Placed /\ Roles /\ dec.action = "parse_header" /\ buf' = buf
      /\ UNCHANGED <<showing, asked>>
  BY DEF ParseHeader, Inv, Read
<1>2. /\ mode \in {"play", "hold"} /\ next \in 1 .. Len(Chunks) /\ Len(Chunks) \in Nat
      /\ cur' = Chunks[next] /\ next' = next + 1 /\ mpeg' = mpeg /\ origin' = origin
      /\ coded' = (IF cur' \in Types /\ ~(mpeg.fields /\ dec.state = "picture")
                   THEN coded + 1 ELSE coded)
      /\ mpeg \in Streams /\ Chunks' = Chunks /\ Entries' = Entries /\ References' = References
      /\ \A f : Before(f)' = Before(f)
  BY <1>1, ReadIs
<1>3. AtPicture
  BY <1>1, <1>2 DEF Inv, Phase, Idle, Starting, AtHeader, AtSlices, AtEnd, Over, Fresh, Types
<1>4. /\ coded \in 0 .. Frames - 1 /\ origin \in Nat /\ coded >= origin
      /\ Awaits => cur = mpeg.types[coded + 1]
      /\ cur = "B" <=> coded \notin References
      /\ Passed > 0 /\ Entries[Passed] = next - 1 /\ dec.known /\ dec.alloc = 3
  BY <1>1, <1>3, TypeIs DEF AtPicture, Typing
<1>5. cur' = "slices" /\ cur' \notin Types /\ coded' = coded
  <2>1. cur' = "slices"
    BY <1>2, <1>3, FollowingIs DEF AtPicture
  <2> QED BY <1>2, <2>1 DEF Types
<1>6. dec' = [Picture(dec, cur) EXCEPT !.action = "slices"]
  <2>1. Header(dec) = Picture(dec, cur)
    BY DEF Header, Types
  <2>2. Picture(dec, cur).state \in {"picture", "picture_2nd"}
    <3>1. CASE dec.state = "slice_1st"
      BY <1>1, <3>1 DEF Picture, Typing, Decoders
    <3>2. CASE dec.state # "slice_1st"
      BY <1>1, <3>2, TurnIs DEF Roles
    <3> QED BY <3>1, <3>2
  <2>3. Picture(dec, cur).state \notin {"sequence", "gop"}
    BY <2>2
  <2> QED BY <1>5, <2>1, <2>2, <2>3 DEF ParseHeader
<1>7. /\ dec'.state = (IF dec.state = "slice_1st" THEN "picture_2nd" ELSE "picture")
      /\ dec'.action = "slices" /\ dec'.known /\ dec'.alloc = 3 /\ dec'.type = cur
      /\ dec' \in Decoders
  <2>1. CASE dec.state = "slice_1st"
    BY <1>1, <1>4, <1>6, <2>1 DEF Picture, Typing, Decoders, States, Actions
  <2>2. CASE dec.state # "slice_1st"
    <3> DEFINE d == Picture(dec, cur)
    <3>1. d \in Decoders /\ d.state = "picture" /\ d.type = cur /\ d.known = dec.known
          /\ d.alloc = dec.alloc
      BY <1>1, <2>2, TurnIs DEF Roles
    <3> HIDE DEF d
    <3>2. dec' = [d EXCEPT !.action = "slices"]
      BY <1>6 DEF d
    <3> QED BY <1>4, <2>2, <3>1, <3>2 DEF Decoders, Actions
  <2> QED BY <2>1, <2>2
<1>8. /\ ~Awaits' /\ Underway' /\ (Half' <=> Half) /\ ~Idle' /\ ~Over' /\ ~Over
      /\ (Awaits <=> dec.state # "slice_1st") /\ (Underway <=> dec.state = "slice_1st")
  <2>1. ~Awaits' /\ Underway' /\ ~Idle' /\ ~Over'
    BY <1>5, <1>7 DEF Awaits, Underway, Idle, Over, Fresh
  <2>2. Awaits <=> dec.state # "slice_1st"
    BY <1>1 DEF Awaits
  <2>3. Underway <=> dec.state = "slice_1st"
    BY <1>1 DEF Underway
  <2>4. Half' <=> Half
    BY <1>1, <1>2, <1>7, <2>1, <2>2 DEF Half
  <2>5. ~Over
    BY <1>1 DEF Over
  <2> QED BY <2>1, <2>2, <2>3, <2>4, <2>5
<1>9. Passed' = Passed /\ Whole' = coded - 1 /\ Whole = coded - 1 /\ SetUp' = coded
  <2>1. Whole' = coded - 1 /\ Whole = coded - 1 /\ SetUp' = coded
    BY <1>5, <1>8 DEF Whole, SetUp
  <2>2. Passed' = Passed
    BY <1>2, <1>5, <1>8 DEF Passed
  <2> QED BY <2>1, <2>2
<1>10. Placed'
  <2>1. next \in 1 .. Len(mpeg.chunks) /\ mpeg.chunks[next] \notin Types
        /\ Parts(mpeg, Passed, next)
    BY <1>1, <1>2, <1>5 DEF Placed, Chunks
  <2>2. Passed \in Int
    BY <2>1 DEF Parts
  <2>3. Parts(mpeg, Passed, next + 1)
    BY <1>2, <2>1, <2>2, Advance
  <2> QED BY <1>2, <1>9, <2>3 DEF Placed
<1>11. Phase'
  <2>1. next + 1 - 1 = next /\ next' - 2 = next - 1 /\ next' > 1
    BY <1>2
  <2>2. dec'.state = "picture_2nd" => mpeg.fields
    BY <1>3, <1>7 DEF AtPicture
  <2>3. dec'.state = "picture" => dec'.type = mpeg.types[coded + 1]
    BY <1>4, <1>7, <1>8
  <2>4. Passed' > 0 /\ Entries'[Passed'] = next' - 2 /\ cur' = Chunks'[next' - 1]
    BY <1>2, <1>4, <1>9, <2>1
  <2>5. coded' >= origin' /\ mpeg'.types[coded' + 1] = mpeg.types[coded + 1]
    BY <1>2, <1>4, <1>5
  <2>6. dec'.state \in {"picture", "picture_2nd"} /\ mpeg'.fields = mpeg.fields
    BY <1>2, <1>7
  <2>7. AtSlices'
    BY <1>5, <1>7, <2>1, <2>2, <2>3, <2>4, <2>5, <2>6 DEF AtSlices
  <2> QED BY <2>7 DEF Phase
<1>12. Roles'
  <2>1. PICK w \in Int : w = coded
    BY <1>4
  <2>2. CASE dec.state = "slice_1st"
    <3>1. SetUp = w /\ Permuted /\ Come(w) /\ Filled(w)
          /\ dec.display = IF dec.type = "B" \/ mpeg.low THEN dec.fbuf[0]
                           ELSE IF coded = origin THEN None ELSE dec.fbuf[1]
      BY <1>1, <1>8, <2>1, <2>2 DEF Roles, SetUp
    <3>2. /\ dec'.fbuf = dec.fbuf /\ dec'.first = dec.first /\ dec'.display = dec.display
      BY <1>1, <1>6, <2>2 DEF Picture, Typing, Decoders
    <3>3. dec.type = "B" <=> dec'.type = "B"
      BY <1>4, <1>7, <2>1, <3>1 DEF Come
    <3>4. Permuted' /\ Come(w)' /\ Filled(w)'
      <4>1. dec'.type # "none"
        BY <1>7 DEF Types
      <4> QED BY <1>1, <1>2, <1>4, <2>1, <3>1, <3>2, <3>3, <4>1
              DEF Permuted, Come, Filled, Referred, IsWhole
    <3>5. SetUp' = w
      BY <1>9, <2>1
    <3> QED BY <1>2, <1>5, <3>1, <3>2, <3>3, <3>4, <3>5 DEF Roles
  <2>3. CASE dec.state # "slice_1st"
    <3> DEFINE held == cur # "B" /\ ~mpeg.low
               v == w - 1
    <3>1. SetUp = v /\ Permuted /\ Come(v) /\ Filled(v)
      BY <1>1, <1>8, <2>1, <2>3 DEF Roles, SetUp
    <3>2. /\ dec'.first = (dec.first /\ ~held)
          /\ dec'.fbuf[1] = (IF dec.type = "B" THEN dec.fbuf[1] ELSE dec.fbuf[0])
          /\ dec'.fbuf[2] = (IF dec.type = "B" THEN dec.fbuf[2] ELSE dec.fbuf[1])
          /\ dec'.fbuf[0] \in Buffers /\ dec'.fbuf[1] \in Buffers /\ dec'.fbuf[2] \in Buffers
          /\ dec'.fbuf[0] # dec'.fbuf[1] /\ dec'.fbuf[0] # dec'.fbuf[2]
          /\ dec'.fbuf[1] # dec'.fbuf[2]
          /\ dec'.display = IF ~held THEN dec'.fbuf[0]
                            ELSE IF dec.first THEN None ELSE dec'.fbuf[1]
      <4> DEFINE d == Picture(dec, cur)
      <4>1. d \in Decoders
            /\ d.first = (dec.first /\ ~held)
            /\ d.fbuf[1] = (IF dec.type = "B" THEN dec.fbuf[1] ELSE dec.fbuf[0])
            /\ d.fbuf[2] = (IF dec.type = "B" THEN dec.fbuf[2] ELSE dec.fbuf[1])
            /\ d.fbuf[0] \in Buffers /\ d.fbuf[1] \in Buffers /\ d.fbuf[2] \in Buffers
            /\ d.fbuf[0] # d.fbuf[1] /\ d.fbuf[0] # d.fbuf[2] /\ d.fbuf[1] # d.fbuf[2]
            /\ d.display = IF ~held THEN d.fbuf[0] ELSE IF dec.first THEN None ELSE d.fbuf[1]
        BY <1>1, <2>3, <3>1, TurnIs
      <4>2. dec' = [d EXCEPT !.action = "slices"]
        BY <1>6
      <4> HIDE DEF d, held
      <4>3. dec'.first = d.first /\ dec'.fbuf = d.fbuf /\ dec'.display = d.display
        BY <4>1, <4>2 DEF Decoders
      <4> QED BY <4>1, <4>3
    <3>3. Permuted'
      BY <3>2 DEF Permuted, Buffers
    <3>4. Before(w) = (IF v \in References THEN v ELSE Before(v)) /\ v \in Int /\ v + 1 = w
          /\ w \in Int /\ origin \in Nat /\ w >= origin
      <4>1. v \in Int /\ v + 1 = w
        BY <2>1
      <4> QED BY <1>2, <1>4, <2>1, <4>1, BeforeNext
    <3>5. (dec'.type = "B" <=> w \notin References) /\ dec'.type # "none"
      BY <1>4, <1>7, <2>1 DEF Types
    <3>6. SetUp' = w /\ Underway' /\ dec'.state = "picture" /\ w = coded
      BY <1>7, <1>8, <1>9, <2>1, <2>3
    <3>7. CASE v < origin
      <4>1. w = origin /\ dec.first /\ cur = "I" /\ ~(cur = "B")
        BY <1>4, <1>8, <2>1, <2>3, <3>1, <3>4, <3>7 DEF Come, Inv, Counted
      <4>2. ~(Before(w) >= origin) /\ ~(Before(Before(w)) >= origin)
        <5>1. Before(w) < origin /\ Before(w) \in Int
          BY <1>2, <3>4, <4>1, BeforeIs
        <5>2. /\ Before(Before(w)) \in Int
              /\ Before(Before(w)) = -1 \/ Before(Before(w)) < Before(w)
          BY <1>2, <5>1, BeforeIs
        <5> QED BY <3>4, <5>1, <5>2
      <4>3. Referred(w)'
        BY <1>2, <4>2 DEF Referred
      <4>4. mpeg.low \/ ~dec'.first
        BY <3>2, <4>1
      <4>5. Come(w)'
        BY <1>2, <3>4, <3>5, <4>3, <4>4 DEF Come
      <4>6. dec'.display = IF dec'.type = "B" \/ mpeg.low THEN dec'.fbuf[0] ELSE None
        BY <1>7, <3>2, <4>1
      <4>7. Roles'
        BY <1>2, <1>5, <3>3, <3>6, <4>1, <4>5, <4>6 DEF Roles
      <4> QED BY <4>7
    <3>8. CASE v >= origin
      <4>1. /\ Referred(v) /\ (dec.type = "B" <=> v \notin References) /\ (mpeg.low \/ ~dec.first)
            /\ IsWhole(buf[dec.fbuf[0]], v)
        BY <3>1, <3>8 DEF Come, Filled
      <4>2. Before(w) >= origin => IsWhole(buf[dec'.fbuf[1]], Before(w))
        BY <3>2, <3>4, <4>1 DEF Referred
      <4>3. Before(Before(w)) >= origin => IsWhole(buf[dec'.fbuf[2]], Before(Before(w)))
        BY <3>2, <3>4, <4>1 DEF Referred
      <4>4. Referred(w)'
        BY <1>1, <1>2, <4>2, <4>3 DEF Referred, IsWhole
      <4>5. mpeg.low \/ ~dec'.first
        BY <3>2, <4>1
      <4>6. Come(w)'
        BY <1>2, <3>4, <3>5, <4>4, <4>5 DEF Come
      <4>7. dec'.display = IF dec'.type = "B" \/ mpeg.low THEN dec'.fbuf[0]
                           ELSE IF coded = origin THEN None ELSE dec'.fbuf[1]
        BY <1>7, <2>1, <3>2, <3>4, <3>8, <4>1
      <4> QED BY <1>2, <1>5, <3>3, <3>6, <4>6, <4>7 DEF Roles
    <3> QED BY <3>4, <3>7, <3>8
  <2> QED BY <2>2, <2>3
<1>13. Typing'
  <2>1. next' \in 1 .. Len(Chunks') + 1
    BY <1>2
  <2> QED BY <1>1, <1>2, <1>5, <1>7, <2>1 DEF Typing, showing, asked
<1>14. Counted' /\ Asked'
  <2>1. DrawnTo(Whole)' = drawn
    BY <1>2, <1>8, <1>9 DEF Inv, Counted, DrawnTo
  <2>2. coded' < Frames
    BY <1>1, <1>5 DEF Inv, Counted
  <2>3. Over' <=> Over
    BY <1>8
  <2> QED BY <1>1, <1>2, <1>8, <2>1, <2>2, <2>3, Undrawn
<1> QED BY <1>10, <1>11, <1>12, <1>13, <1>14 DEF Inv

\* A picture that has its place is drawn, or skipped.
LEMMA DrawHas ==
  ASSUME Inv, NEW p \in Pictures, Draw(p), UNCHANGED asked, mpeg' = mpeg,
         mode \in {"play", "hold"}, p.frame \in 0 .. Frames - 1,
         Place(p.frame) = origin + drawn, toSkip = 0 => p.clean
  PROVE  /\ drawn' = drawn + 1 /\ drawn' \in Nat /\ toSkip' \in Nat
         /\ screen' \in Pictures /\ last' \in Pictures /\ mode' \in {"play", "hold", "held"}
         /\ (drawn > 0 => last.frame \in 0 .. Frames - 1
                          /\ Place(last.frame) = origin + drawn - 1)'
         /\ Asked'
<1>1. /\ drawn' = drawn + 1 /\ last' = p /\ origin' = origin /\ target' = target
      /\ Frames' = Frames /\ Place(p.frame)' = Place(p.frame)
      /\ After(origin)' = After(origin)
  BY SameFilm DEF Draw, asked
<1>2. drawn \in Nat /\ toSkip \in Nat /\ screen \in Pictures /\ origin \in Nat /\ Asked
  BY DEF Inv, Typing
<1>3. \/ toSkip > 0 /\ toSkip' = toSkip - 1 /\ screen' = screen /\ mode' = mode
      \/ /\ toSkip = 0 /\ toSkip' = 0 /\ screen' = p /\ p.clean
         /\ mode' = IF mode = "hold" THEN "held" ELSE mode
  BY <1>2 DEF Draw
<1>4. /\ drawn' \in Nat /\ toSkip' \in Nat
      /\ screen' \in Pictures /\ last' \in Pictures /\ mode' \in {"play", "hold", "held"}
  BY <1>1, <1>2, <1>3
<1>5. (drawn > 0 => last.frame \in 0 .. Frames - 1 /\ Place(last.frame) = origin + drawn - 1)'
  BY <1>1, <1>2
<1>6. Asked'
  <2>1. target' # None => target \in Int
    BY <1>1 DEF Inv, Typing
  <2>2. After(origin) \in Int
    BY <1>2, AfterIs DEF Inv, Typing
  <2>3. Nothing' = Nothing /\ mpeg' = mpeg
    BY DEF Nothing
  <2> QED BY <1>1, <1>2, <1>3, <2>1, <2>2, <2>3 DEF Asked
<1> QED BY <1>1, <1>4, <1>5, <1>6

\* A picture is decoded from what its references should be, if they were decoded.
LEMMA DecodedIs ==
  ASSUME Inv, AtSlices
  PROVE  Decoded \in Pictures /\ IsWhole(Decoded, coded)
<1>1. /\ Typing /\ coded \in 0 .. Frames - 1 /\ origin \in Nat /\ origin <= coded
      /\ mpeg.types[origin + 1] = "I" /\ origin \in References
      /\ dec.action = "slices" /\ dec.state \in {"picture", "picture_2nd"}
      /\ dec.state = "picture" => dec.type = mpeg.types[coded + 1]
      /\ buf \in [Buffers -> Pictures] /\ mpeg \in Streams
  <2>1. /\ Typing /\ coded \in Int /\ coded < Frames /\ origin \in Nat /\ origin <= coded
        /\ mpeg.types[origin + 1] = "I" /\ origin < Frames /\ mpeg \in Streams
    BY DEF Inv, Typing, Counted, AtSlices
  <2>2. coded \in 0 .. Frames - 1 /\ origin \in References
    BY <2>1, ReferencesAre
  <2> QED BY <2>1, <2>2 DEF AtSlices, Typing
<1>2. ~Awaits /\ Underway /\ SetUp = coded
  BY <1>1 DEF Awaits, Underway, SetUp
<1>3. /\ Permuted /\ Referred(coded) /\ (dec.type = "B" <=> coded \notin References)
      /\ dec.state = "picture_2nd" => IsWhole(buf[dec.fbuf[0]], coded)
  BY <1>1, <1>2 DEF Inv, Roles, Come, Filled
<1>4. /\ \A b \in Buffers : dec.fbuf[b] \in Buffers
      /\ 0 \in Buffers /\ 1 \in Buffers /\ 2 \in Buffers
      /\ \A b \in Buffers : b # None /\ buf[b] \in Pictures
  BY <1>1, <1>3, NoneAssumption DEF Permuted, Buffers
<1>5. CASE dec.state = "picture_2nd"
  BY <1>1, <1>3, <1>4, <1>5 DEF Decoded
<1>6. CASE dec.state = "picture"
  <2> DEFINE From(b, frame) == b # None /\ buf[b] = [frame |-> frame, clean |-> TRUE]
             c == /\ dec.type # "I" => From(dec.fbuf[1], Before(coded))
                  /\ dec.type = "B" => From(dec.fbuf[2], Before(Before(coded)))
  <2>1. Decoded = [frame |-> coded, clean |-> c]
    BY <1>6 DEF Decoded
  <2>2. \A b \in Buffers, f \in References :
          IsWhole(buf[b], f) => buf[b] = [frame |-> f, clean |-> TRUE]
    BY <1>4 DEF IsWhole, Pictures
  <2>3. /\ Before(coded) \in {-1} \cup References /\ Before(coded) \in Int
        /\ Before(coded) = -1 \/ Before(coded) < coded
        /\ \A r \in References : r < coded => r <= Before(coded)
    BY <1>1, BeforeIs
  <2>4. /\ Before(Before(coded)) \in {-1} \cup References
        /\ Before(Before(coded)) = -1 \/ Before(Before(coded)) < Before(coded)
    BY <1>1, <2>3, BeforeIs
  <2>5. ASSUME Before(coded) >= origin PROVE From(dec.fbuf[1], Before(coded))
    <3>1. Before(coded) \in References
      BY <1>1, <2>3, <2>5
    <3>2. IsWhole(buf[dec.fbuf[1]], Before(coded))
      BY <1>3, <2>5 DEF Referred
    <3> QED BY <1>4, <2>2, <3>1, <3>2
  <2>6. ASSUME Before(Before(coded)) >= origin
        PROVE  From(dec.fbuf[2], Before(Before(coded)))
    <3>1. Before(Before(coded)) \in References
      BY <1>1, <2>4, <2>6
    <3>2. IsWhole(buf[dec.fbuf[2]], Before(Before(coded)))
      BY <1>3, <2>6 DEF Referred
    <3> QED BY <1>4, <2>2, <3>1, <3>2
  <2>7. dec.type \in Types \cup {"none"} /\ coded \in Int /\ c \in BOOLEAN
    BY <1>1 DEF Typing, Decoders
  <2>8. dec.type # "I" => Before(coded) >= origin
    BY <1>1, <1>6, <2>3
  <2>9. coded \in References \/ Before(Before(coded)) >= origin => c
    BY <1>3, <2>5, <2>6, <2>8
  <2> HIDE DEF c
  <2> QED BY <2>1, <2>7, <2>9 DEF IsWhole, Pictures
<1> QED BY <1>1, <1>5, <1>6

\* Which picture a frame sets free when it is whole: its place is the next.
LEMMA SetFreeIs ==
  ASSUME Inv, AtSlices, NEW b \in Buffers, dec.display = b,
         NEW p \in Pictures, NEW q \in Pictures, IsWhole(q, coded),
         p = IF b = dec.fbuf[0] THEN q ELSE buf[b]
  PROVE  /\ p.frame \in 0 .. Frames - 1 /\ Place(p.frame) = origin + drawn
         /\ toSkip = 0 => p.clean
         /\ DrawnTo(coded) = drawn + 1
<1>1. /\ Typing /\ coded \in 0 .. Frames - 1 /\ origin \in Nat /\ origin <= coded
      /\ mpeg.types[origin + 1] = "I" /\ origin \in References /\ Frames \in Nat
      /\ mpeg \in Streams /\ mpeg.low \in BOOLEAN /\ origin < Frames
  <2>1. /\ Typing /\ coded \in Int /\ coded < Frames /\ origin \in Nat /\ origin <= coded
        /\ mpeg.types[origin + 1] = "I" /\ origin < Frames /\ mpeg \in Streams
    BY DEF Inv, Typing, Counted, AtSlices
  <2> QED BY <2>1, ReferencesAre, FilmIs
<1>2. ~Awaits /\ Underway /\ SetUp = coded /\ Whole = coded - 1 /\ ~Over /\ ~Idle
  BY DEF AtSlices, Awaits, Underway, SetUp, Whole, Over, Idle, Fresh
<1>3. /\ Permuted /\ Referred(coded) /\ (dec.type = "B" <=> coded \notin References)
      /\ dec.display = IF dec.type = "B" \/ mpeg.low THEN dec.fbuf[0]
                       ELSE IF coded = origin THEN None ELSE dec.fbuf[1]
  BY <1>1, <1>2 DEF Inv, Roles, Come
<1>4. drawn = DrawnTo(coded - 1) /\ mode # "stopped"
  BY <1>2 DEF Inv, Counted
<1>5. toSkip + drawn >= After(origin) - origin - 1 /\ toSkip \in Nat /\ drawn \in Nat
  BY <1>1 DEF Inv, Asked, Typing
<1>6. /\ \A c \in Buffers : dec.fbuf[c] \in Buffers /\ c # None
      /\ dec.fbuf[0] # dec.fbuf[1]
  BY <1>3, NoneAssumption DEF Permuted, Buffers
<1>7. /\ Before(coded) \in {-1} \cup References /\ Before(coded) \in Int
      /\ Before(coded) = -1 \/ Before(coded) < coded
      /\ \A r \in References : r < coded => r <= Before(coded)
      /\ Before(Before(coded)) \in Int
      /\ \A r \in References : r < Before(coded) => r <= Before(Before(coded))
  <2>1. Before(coded) \in Int
    BY <1>1, BeforeIs
  <2> QED BY <1>1, <2>1, BeforeIs
<1>8. CASE mpeg.low
  <2>1. p.frame = coded /\ (coded \in References => p.clean)
    BY <1>3, <1>8 DEF IsWhole
  <2>2. coded \in References /\ Place(coded) = coded
    BY <1>1, <1>8, PlaceIs
  <2>3. drawn = coded - origin /\ DrawnTo(coded) = coded - origin + 1
    BY <1>1, <1>4, <1>8 DEF DrawnTo
  <2> QED BY <1>1, <2>1, <2>2, <2>3
<1>9. CASE ~mpeg.low /\ dec.type = "B"
  <2>1. p.frame = coded /\ (Before(Before(coded)) >= origin => p.clean)
    BY <1>3, <1>9 DEF IsWhole
  <2>2. coded \notin References /\ Place(coded) = coded - 1 /\ coded > origin
    BY <1>1, <1>3, <1>9, PlaceIs
  <2>3. drawn = coded - 1 - origin /\ DrawnTo(coded) = coded - origin
    BY <1>1, <1>4, <1>9, <2>2 DEF DrawnTo
  <2>4. ASSUME toSkip = 0 PROVE p.clean
    <3>1. /\ After(origin) \in {Frames} \cup References /\ After(origin) \in Int
          /\ origin < After(origin)
      BY <1>1, AfterIs
    <3>2. After(origin) <= coded
      BY <1>1, <1>5, <2>3, <2>4, <3>1
    <3>3. After(origin) \in References /\ After(origin) < coded
      BY <1>1, <2>2, <3>1, <3>2
    <3>4. origin < Before(coded)
      BY <1>1, <1>7, <3>1, <3>3
    <3>5. Before(Before(coded)) >= origin
      BY <1>1, <1>7, <3>4
    <3> QED BY <2>1, <3>5
  <2> QED BY <1>1, <2>1, <2>2, <2>3, <2>4
<1>10. CASE ~mpeg.low /\ dec.type # "B"
  <2>1. coded \in References /\ coded # origin /\ b = dec.fbuf[1] /\ p = buf[dec.fbuf[1]]
    BY <1>3, <1>6, <1>10
  <2>2. Before(coded) >= origin
    BY <1>1, <1>7, <2>1
  <2>3. Before(coded) \in References /\ Place(Before(coded)) = coded - 1
    <3>1. Before(coded) >= 0 /\ coded \in Int
      BY <1>1, <1>7, <2>2
    <3> QED BY <1>1, <1>10, <2>1, <3>1, PlaceIs
  <2>4. p.frame = Before(coded) /\ p.clean
    BY <1>3, <2>1, <2>2, <2>3 DEF Referred, IsWhole
  <2>5. drawn = coded - 1 - origin /\ DrawnTo(coded) = coded - origin
    BY <1>1, <1>4, <1>10, <2>1 DEF DrawnTo
  <2>6. Before(coded) \in 0 .. Frames - 1
    BY <2>3 DEF References
  <2> QED BY <1>1, <2>3, <2>4, <2>5, <2>6
<1> QED BY <1>8, <1>9, <1>10

\* All slices of a picture.
LEMMA SlicesStep ==
  ASSUME Inv, Slices
  PROVE  Inv'
<1> DEFINE half == mpeg.fields /\ dec.state = "picture"
<1>1. /\ Read /\ Typing /\ Placed /\ dec.action = "slices" /\ UNCHANGED asked
      /\ buf' = [buf EXCEPT ![dec.fbuf[0]] = Decoded]
  BY DEF Slices, Inv, Read
<1>2. /\ mode \in {"play", "hold"} /\ next \in 1 .. Len(Chunks) /\ Len(Chunks) \in Nat
      /\ cur' = Chunks[next] /\ next' = next + 1 /\ mpeg' = mpeg /\ origin' = origin
      /\ coded' = (IF cur' \in Types /\ ~(mpeg.fields /\ dec.state = "picture")
                   THEN coded + 1 ELSE coded)
      /\ mpeg \in Streams /\ Chunks' = Chunks /\ Entries' = Entries /\ References' = References
      /\ Frames' = Frames /\ \A f : Before(f)' = Before(f)
  BY <1>1, ReadIs
<1>3. AtSlices
  BY <1>1, <1>2 DEF Inv, Phase, Idle, Starting, AtHeader, AtPicture, AtEnd, Over, Fresh
<1>4. /\ coded \in 0 .. Frames - 1 /\ origin \in Nat /\ coded >= origin /\ Frames \in Nat \ {0}
      /\ cur = "slices" /\ dec.known /\ dec.alloc = 3 /\ mpeg.fields \in BOOLEAN
      /\ dec.state \in {"picture", "picture_2nd"} /\ (dec.state = "picture_2nd" => mpeg.fields)
      /\ Passed > 0 /\ Entries[Passed] = next - 2 /\ dec \in Decoders
      /\ cur' \in {"seq", "gop", "end"} \cup Types
      /\ cur' = "end" => next = Len(Chunks)
  <2>1. Frames \in Nat \ {0} /\ mpeg.fields \in BOOLEAN
    BY <1>2, FilmIs DEF Frames
  <2>2. coded \in Int /\ coded < Frames /\ coded >= origin /\ origin \in Nat
    BY <1>3 DEF Inv, Typing, Counted, AtSlices
  <2>3. cur' \in {"seq", "gop", "end"} \cup Types /\ (cur' = "end" => next = Len(Chunks))
    <3>1. next > 1 /\ Chunks[next - 1] = "slices"
      BY <1>3 DEF AtSlices
    <3>2. /\ Chunks[next] \in {"seq", "gop", "end"} \cup Types
          /\ Chunks[next] = "end" => next = Len(Chunks)
      BY <1>2, <3>1, FollowingIs
    <3> QED BY <1>2, <3>2
  <2> QED BY <1>1, <1>3, <2>1, <2>2, <2>3 DEF AtSlices, Typing
<1>5. PICK w \in Int : w = coded
  BY <1>4
<1>6. /\ ~Awaits /\ Underway /\ SetUp = w /\ Whole = w - 1 /\ ~Over /\ ~Idle /\ (Half <=> half)
  BY <1>1, <1>5 DEF Awaits, Underway, SetUp, Whole, Over, Idle, Half, Fresh
<1>7. /\ Permuted /\ Come(w) /\ Referred(w) /\ dec.type # "none"
      /\ dec.display = IF dec.type = "B" \/ mpeg.low THEN dec.fbuf[0]
                       ELSE IF coded = origin THEN None ELSE dec.fbuf[1]
  BY <1>4, <1>5, <1>6 DEF Inv, Roles, Come
<1>8. PICK q \in Pictures : q = Decoded /\ IsWhole(q, w)
  BY <1>3, <1>5, DecodedIs
<1>9. /\ dec.fbuf[0] \in Buffers /\ buf \in [Buffers -> Pictures] /\ buf' \in [Buffers -> Pictures]
      /\ \A b \in Buffers : buf'[b] = IF b = dec.fbuf[0] THEN q ELSE buf[b]
  BY <1>1, <1>7, <1>8 DEF Permuted, Typing, Buffers
<1>10. /\ dec' = [dec EXCEPT !.state = IF half THEN "slice_1st" ELSE "slice",
                             !.action = IF ~(cur' \in Types \/ (~half /\ cur' \in {"seq", "gop", "end"}))
                                        THEN "seek_header"
                                        ELSE IF cur' = "end" THEN "header_end"
                                        ELSE "parse_header"]
       /\ IF (cur' \in Types \/ (~half /\ cur' \in {"seq", "gop", "end"})) /\ ~half
             /\ dec.display # None THEN Draw(buf'[dec.display]) ELSE UNCHANGED showing
  BY DEF Slices
<1>11. /\ dec'.fbuf = dec.fbuf /\ dec'.type = dec.type /\ dec'.first = dec.first
       /\ dec'.known = dec.known /\ dec'.alloc = dec.alloc /\ dec'.display = dec.display
       /\ dec'.state = (IF half THEN "slice_1st" ELSE "slice")
       /\ dec' \in Decoders
  <2>1. /\ (IF half THEN "slice_1st" ELSE "slice") \in States
        /\ (IF ~(cur' \in Types \/ (~half /\ cur' \in {"seq", "gop", "end"}))
            THEN "seek_header" ELSE IF cur' = "end" THEN "header_end" ELSE "parse_header") \in Actions
    BY DEF States, Actions
  <2> QED BY <1>4, <1>10, <2>1 DEF Decoders
<1>12. Permuted' /\ Come(w)' /\ Filled(w)'
  <2>1. Permuted'
    BY <1>7, <1>11 DEF Permuted
  <2>2. buf'[dec.fbuf[0]] = q /\ buf'[dec.fbuf[1]] = buf[dec.fbuf[1]]
        /\ buf'[dec.fbuf[2]] = buf[dec.fbuf[2]]
    BY <1>7, <1>9 DEF Permuted, Buffers
  <2>3. Filled(w)'
    BY <1>2, <1>8, <1>11, <2>2 DEF Filled, IsWhole
  <2>4. Come(w)'
    BY <1>2, <1>7, <1>11, <2>2 DEF Come, Referred, IsWhole
  <2> QED BY <2>1, <2>3, <2>4
<1> DEFINE k == IF half THEN 2 * w + 1 ELSE IF mpeg.fields THEN 2 * w + 2 ELSE w + 1
<1>13. /\ Passed = k /\ k \in Int /\ Parts(mpeg, k, next) /\ Passed \in 0 .. Len(Entries)
       /\ next \in 1 .. Len(mpeg.chunks) /\ (cur' \in Types <=> mpeg.chunks[next] \in Types)
       /\ IF cur' \in Types THEN Parts(mpeg, k + 1, next') /\ Entries[k + 1] = next
          ELSE Parts(mpeg, k, next')
  <2>1. Passed = k
    BY <1>4, <1>5, <1>6 DEF Passed
  <2>2. k \in Int /\ Parts(mpeg, k, next) /\ Passed \in 0 .. Len(Entries)
    BY <1>1, <1>5, <2>1 DEF Placed, Parts, Entries
  <2>3. next \in 1 .. Len(mpeg.chunks) /\ (cur' \in Types <=> mpeg.chunks[next] \in Types)
    BY <1>2 DEF Chunks
  <2> HIDE DEF k
  <2> QED BY <1>2, <2>1, <2>2, <2>3, Advance DEF Entries
<1>14. CASE half
  <2>1. Entries[2 * w + 1] = next - 2 /\ Entries[2 * w + 2] = next
        /\ Chunks[Entries[2 * w + 2]] \in {"B", "P"}
    <3>1. Entries[2 * w + 1] = next - 2
      BY <1>4, <1>13, <1>14
    <3>2. Entries[2 * w + 2] = Entries[2 * w + 1] + 2 /\ Chunks[Entries[2 * w + 2]] \in {"B", "P"}
      BY <1>2, <1>4, <1>5, <1>14, EntryIs
    <3> QED BY <1>2, <3>1, <3>2
  <2>2. cur' \in Types /\ coded' = w /\ cur' # "end"
    BY <1>2, <1>5, <1>14, <2>1 DEF Types
  <2>3. dec'.action = "parse_header" /\ dec'.state = "slice_1st" /\ UNCHANGED showing
    BY <1>4, <1>10, <1>14, <2>2 DEF Decoders
  <2>4. ~Awaits' /\ Underway' /\ ~Half' /\ ~Over' /\ ~Idle'
    BY <2>2, <2>3 DEF Awaits, Underway, Half, Over, Idle, Fresh
  <2>5. SetUp' = w /\ Whole' = w - 1 /\ Passed' = 2 * w + 2
    BY <1>2, <1>14, <2>2, <2>4 DEF SetUp, Whole, Passed
  <2>6. Placed'
    <3>1. k + 1 = 2 * w + 2 /\ Parts(mpeg, k + 1, next')
      BY <1>13, <1>14, <2>2
    <3> QED BY <1>2, <2>5, <3>1 DEF Placed
  <2>7. Phase'
    <3>1. next + 1 - 1 = next /\ next' > 1 /\ 2 * w + 2 > 0
      BY <1>2, <1>4, <1>5
    <3>2. Entries'[Passed'] = next' - 1 /\ cur' = Chunks'[next' - 1]
      BY <1>2, <2>1, <2>5, <3>1
    <3>3. AtPicture'
      BY <1>2, <1>4, <1>5, <1>11, <1>14, <2>2, <2>3, <2>5, <3>1, <3>2 DEF AtPicture
    <3> QED BY <3>3 DEF Phase
  <2>8. Roles'
    <3>1. dec'.display = IF dec'.type = "B" \/ mpeg'.low THEN dec'.fbuf[0]
                         ELSE IF coded' = origin' THEN None' ELSE dec'.fbuf[1]
      BY <1>2, <1>5, <1>7, <1>11, <2>2
    <3> QED BY <1>12, <2>5, <3>1 DEF Roles
  <2>9. Typing'
    <3>1. next' \in 1 .. Len(Chunks') + 1
      BY <1>2
    <3> QED BY <1>1, <1>2, <1>9, <1>11, <2>2, <2>3, <3>1 DEF Typing, showing, asked
  <2>10. Counted' /\ Asked'
    <3>1. coded' < Frames /\ mode # "stopped" /\ (Over' <=> Over)
      BY <1>2, <1>4, <1>5, <1>6, <2>2, <2>4
    <3>2. DrawnTo(Whole)' = drawn
      BY <1>2, <1>6, <2>5 DEF Inv, Counted, DrawnTo
    <3> QED BY <1>1, <1>2, <2>3, <2>4, <3>1, <3>2, Undrawn
  <2> QED BY <2>6, <2>7, <2>8, <2>9, <2>10 DEF Inv
<1>15. CASE ~half
  <2>1. /\ dec'.action = (IF cur' = "end" THEN "header_end" ELSE "parse_header")
        /\ dec'.state = "slice"
        /\ IF dec.display # None THEN Draw(buf'[dec.display]) ELSE UNCHANGED showing
        /\ coded' = IF cur' \in Types THEN w + 1 ELSE w
    BY <1>2, <1>4, <1>5, <1>10, <1>15 DEF Decoders
  <2>2. /\ drawn' = DrawnTo(w) /\ drawn' \in Nat /\ toSkip' \in Nat
        /\ screen' \in Pictures /\ last' \in Pictures /\ mode' \in {"play", "hold", "held"}
        /\ (drawn > 0 => last.frame \in 0 .. Frames - 1
                         /\ Place(last.frame) = origin + drawn - 1)'
        /\ Asked'
    <3>1. CASE dec.display # None
      <4>1. PICK b \in Buffers : b = dec.display
        BY <1>7, <3>1 DEF Permuted, Buffers
      <4>2. PICK p \in Pictures : p = buf'[b] /\ p = IF b = dec.fbuf[0] THEN q ELSE buf[b]
        BY <1>9, <4>1
      <4>3. /\ p.frame \in 0 .. Frames - 1 /\ Place(p.frame) = origin + drawn
            /\ toSkip = 0 => p.clean
            /\ DrawnTo(coded) = drawn + 1
        BY <1>3, <1>5, <1>8, <4>1, <4>2, SetFreeIs
      <4>4. Draw(p)
        BY <2>1, <3>1, <4>1, <4>2
      <4>5. /\ drawn' = drawn + 1 /\ drawn' \in Nat /\ toSkip' \in Nat
            /\ screen' \in Pictures /\ last' \in Pictures /\ mode' \in {"play", "hold", "held"}
            /\ (drawn > 0 => last.frame \in 0 .. Frames - 1
                             /\ Place(last.frame) = origin + drawn - 1)'
            /\ Asked'
        BY <1>1, <1>2, <4>3, <4>4, DrawHas
      <4>6. drawn' = DrawnTo(w)
        BY <1>5, <4>3, <4>5
      <4> QED BY <4>5, <4>6
    <3>2. CASE dec.display = None
      <4>1. ~mpeg.low /\ coded = origin
        BY <1>7, <3>2, NoneAssumption DEF Permuted, Buffers
      <4>2. drawn = DrawnTo(w - 1)
        BY <1>2, <1>6 DEF Inv, Counted
      <4>3. DrawnTo(w) = drawn
        BY <1>4, <1>5, <4>1, <4>2 DEF DrawnTo
      <4>4. /\ mode' = mode /\ toSkip' = toSkip /\ screen' = screen /\ drawn' = drawn
            /\ last' = last /\ target' = target /\ ended' = ended
        BY <1>1, <2>1, <3>2 DEF showing, asked
      <4>5. /\ Frames' = Frames
            /\ \A f : After(f)' = After(f) /\ Place(f)' = Place(f)
        BY <1>2, SameFilm
      <4>6. (drawn > 0 => last.frame \in 0 .. Frames - 1
                          /\ Place(last.frame) = origin + drawn - 1)'
        BY <1>2, <4>4, <4>5 DEF Inv, Counted
      <4>7. Asked'
        BY <1>2, <4>4, <4>5 DEF Inv, Asked, Nothing
      <4> QED BY <1>1, <1>2, <4>3, <4>4, <4>6, <4>7 DEF Typing
    <3> QED BY <3>1, <3>2
  <2>3. /\ Phase' /\ Placed' /\ Roles' /\ Whole' = w /\ ~Idle' /\ ~Over' /\ coded' < Frames
        /\ coded' \in Int
    <3>1. CASE cur' = "end"
      <4>1. cur' \notin Types /\ coded' = w /\ next = Len(Chunks) /\ dec'.action = "header_end"
        BY <1>4, <2>1, <3>1 DEF Types
      <4>2. ~Awaits' /\ ~Underway' /\ ~Half' /\ ~Over' /\ ~Idle'
        BY <4>1 DEF Awaits, Underway, Half, Over, Idle, Fresh
      <4>3. SetUp' = w /\ Whole' = w /\ Passed' = k
        BY <1>2, <1>15, <4>1, <4>2 DEF SetUp, Whole, Passed
      <4>4. Placed'
        BY <1>2, <1>13, <4>1, <4>3 DEF Placed
      <4>5. AtEnd'
        <5>1. Last(Chunks') = "end"
          BY <1>2, <3>1, <4>1 DEF Last
        <5> QED BY <1>2, <1>4, <1>5, <1>11, <4>1, <5>1 DEF AtEnd
      <4>6. Roles'
        BY <1>12, <4>2, <4>3 DEF Roles
      <4>7. coded' < Frames /\ coded' \in Int
        BY <1>4, <1>5, <4>1
      <4> QED BY <4>2, <4>3, <4>4, <4>5, <4>6, <4>7 DEF Phase
    <3>2. CASE cur' # "end"
      <4>1. cur' \in {"seq", "gop"} \cup Types /\ dec'.action = "parse_header"
        BY <1>4, <2>1, <3>2
      <4>2. Parts(mpeg, IF mpeg.fields THEN 2 * w + 2 ELSE w + 1, next)
        BY <1>13, <1>15
      <4>3. w >= origin - 1 /\ dec'.state \notin {"picture", "picture_2nd", "slice_1st"}
        BY <1>4, <1>5, <2>1
      <4> QED BY <1>1, <1>4, <1>5, <1>11, <1>12, <2>1, <4>1, <4>2, <4>3, BetweenPictures
    <3> QED BY <3>1, <3>2
  <2>4. Typing'
    <3>1. next' \in 1 .. Len(Chunks') + 1
      BY <1>2
    <3> QED BY <1>1, <1>2, <1>9, <1>11, <2>2, <2>3, <3>1 DEF Typing, asked
  <2>5. Counted'
    <3>1. Lost' = Lost /\ Frames' = Frames
      BY <1>2, SameFilm
    <3>2. ended' = ended /\ ~ended
      BY <1>1, <1>2 DEF asked, Inv, Counted
    <3>3. DrawnTo(Whole)' = DrawnTo(w)
      BY <1>2, <2>3 DEF DrawnTo
    <3>4. origin < Frames /\ mpeg.types[origin + 1] = "I"
      BY DEF Inv, Counted
    <3> QED BY <1>2, <2>2, <2>3, <3>1, <3>2, <3>3, <3>4 DEF Counted
  <2> QED BY <2>2, <2>3, <2>4, <2>5 DEF Inv
<1> QED BY <1>14, <1>15

\* The end of the file sets free what was held back.
LEMMA EndStep ==
  ASSUME Inv, HeaderEnd
  PROVE  Inv'
<1>1. /\ mode \in {"play", "hold"} /\ dec.action = "header_end" /\ Typing /\ Placed
      /\ dec' = [dec EXCEPT !.state = "invalid", !.action = "seek_sequence", !.known = FALSE,
                   !.display = IF mpeg.low THEN None
                               ELSE dec.fbuf[IF dec.type = "B" THEN 1 ELSE 0]]
      /\ IF mpeg.low THEN UNCHANGED showing ELSE Draw(buf[dec'.display])
      /\ UNCHANGED <<reading, buf, asked>>
  BY DEF HeaderEnd, Inv
<1>2. /\ mpeg' = mpeg /\ cur' = cur /\ next' = next /\ coded' = coded /\ buf' = buf
      /\ target' = target /\ origin' = origin /\ ended' = ended
  BY <1>1 DEF reading, asked
<1>3. /\ Chunks' = Chunks /\ Frames' = Frames /\ References' = References /\ Lost' = Lost
      /\ \A f : Before(f)' = Before(f) /\ After(f)' = After(f) /\ Place(f)' = Place(f)
  BY <1>2, SameFilm
<1>4. AtEnd
  BY <1>1 DEF Inv, Phase, Idle, Starting, AtHeader, AtPicture, AtSlices, Over, Fresh
<1>5. ~Awaits /\ ~Underway /\ ~Half /\ ~Over /\ ~Idle
  BY <1>1 DEF Awaits, Underway, Half, Over, Idle, Fresh
<1>6. /\ next = Len(Chunks) + 1 /\ Last(Chunks) = "end" /\ coded >= origin /\ origin \in Nat
      /\ coded = Frames - 1 /\ Frames \in Nat \ {0} /\ mpeg \in Streams /\ mpeg.low \in BOOLEAN
  <2>1. coded = Frames - 1
    BY <1>1, <1>4, AtLast DEF AtEnd
  <2>2. mpeg \in Streams /\ origin \in Nat
    BY <1>1 DEF Typing
  <2> QED BY <1>4, <2>1, <2>2, FilmIs, FirstIs DEF AtEnd
<1>7. PICK w \in Int : w = coded
  BY <1>6
<1>8. SetUp = w /\ Whole = w /\ Permuted /\ Come(w) /\ Filled(w)
  BY <1>5, <1>7 DEF Inv, Roles, SetUp, Whole
<1>9. /\ Referred(w) /\ (dec.type = "B" <=> w \notin References) /\ IsWhole(buf[dec.fbuf[0]], w)
      /\ drawn = DrawnTo(w)
      /\ \A b \in Buffers : dec.fbuf[b] \in Buffers
      /\ 0 \in Buffers /\ 1 \in Buffers
  BY <1>1, <1>5, <1>6, <1>7, <1>8 DEF Come, Filled, Inv, Counted, Permuted, Buffers
<1>10. /\ dec'.action = "seek_sequence" /\ dec'.known = FALSE /\ dec'.fbuf = dec.fbuf
       /\ dec'.type = dec.type /\ dec'.first = dec.first /\ dec' \in Decoders
       /\ dec'.state = "invalid"
       /\ ~mpeg.low => dec'.display = dec.fbuf[IF dec.type = "B" THEN 1 ELSE 0]
  <2> DEFINE x == IF mpeg.low THEN None ELSE dec.fbuf[IF dec.type = "B" THEN 1 ELSE 0]
  <2>1. x \in Buffers \cup {None}
    BY <1>9
  <2>2. dec \in Decoders /\ "invalid" \in States /\ "seek_sequence" \in Actions
    BY <1>1 DEF Typing, States, Actions
  <2>3. dec' = [dec EXCEPT !.state = "invalid", !.action = "seek_sequence", !.known = FALSE,
                  !.display = x]
    BY <1>1
  <2>4. ~mpeg.low => x = dec.fbuf[IF dec.type = "B" THEN 1 ELSE 0]
    OBVIOUS
  <2> HIDE DEF x
  <2> QED BY <2>1, <2>2, <2>3, <2>4 DEF Decoders
<1>11. ~Awaits' /\ ~Underway' /\ ~Half' /\ ~Idle'
  BY <1>10 DEF Awaits, Underway, Half, Idle, Fresh
<1>12. SetUp' = w /\ Whole' = w /\ Passed' = Passed
  BY <1>2, <1>5, <1>7, <1>11 DEF SetUp, Whole, Passed
<1>13. /\ drawn' = Frames - origin /\ drawn' \in Nat /\ toSkip' \in Nat
       /\ screen' \in Pictures /\ last' \in Pictures /\ mode' \in {"play", "hold", "held"}
       /\ (drawn > 0 => last.frame \in 0 .. Frames - 1
                        /\ Place(last.frame) = origin + drawn - 1)'
       /\ Asked'
  <2>1. CASE mpeg.low
    <3>1. /\ mode' = mode /\ toSkip' = toSkip /\ screen' = screen /\ drawn' = drawn
          /\ last' = last
      BY <1>1, <2>1 DEF showing
    <3>2. drawn = Frames - origin
      BY <1>6, <1>7, <1>9, <2>1 DEF DrawnTo
    <3>3. (drawn > 0 => last.frame \in 0 .. Frames - 1
                        /\ Place(last.frame) = origin + drawn - 1)'
      BY <1>2, <1>3, <3>1 DEF Inv, Counted
    <3>4. Asked'
      BY <1>2, <1>3, <3>1 DEF Inv, Asked, Nothing
    <3> QED BY <1>1, <3>1, <3>2, <3>3, <3>4 DEF Typing
  <2>2. CASE ~mpeg.low
    <3>1. PICK b \in Buffers : b = dec.fbuf[IF dec.type = "B" THEN 1 ELSE 0]
      BY <1>9
    <3>2. PICK p \in Pictures : p = buf[b] /\ Draw(p)
      BY <1>1, <1>10, <2>2, <3>1 DEF Typing
    <3>3. /\ Before(Frames) = (IF w \in References THEN w ELSE Before(w))
          /\ Before(Frames) \in {-1} \cup References
      <4>1. w + 1 = Frames
        BY <1>6, <1>7
      <4>2. Before(w + 1) = IF w \in References THEN w ELSE Before(w)
        BY <1>6, BeforeNext
      <4>3. Before(Frames) \in {-1} \cup References
        BY <1>6, BeforeIs
      <4> QED BY <4>1, <4>2, <4>3
    <3>4. Before(Frames) >= origin
      <4>1. origin \in References /\ origin < Frames
        BY <1>1, <1>6, ReferencesAre DEF Inv, Counted
      <4> QED BY <1>6, <4>1, BeforeIs
    <3>5. Before(Frames) \in References /\ Place(Before(Frames)) = Frames - 1
          /\ Before(Frames) \in 0 .. Frames - 1
      <4>1. Before(Frames) \in Int /\ Before(Frames) >= 0
        BY <1>6, <3>4, BeforeIs
      <4>2. Before(Frames) \in References /\ Place(Before(Frames)) = Frames - 1
        BY <1>6, <2>2, <4>1, PlaceIs
      <4> QED BY <4>2 DEF References
    <3>6. p.frame = Before(Frames) /\ p.clean
      BY <1>9, <3>1, <3>2, <3>3, <3>4, <3>5 DEF IsWhole, Referred
    <3>7. drawn = Frames - 1 - origin
      BY <1>6, <1>7, <1>9, <2>2 DEF DrawnTo
    <3>8. Place(p.frame) = origin + drawn /\ p.frame \in 0 .. Frames - 1
      BY <1>6, <3>5, <3>6, <3>7
    <3>9. UNCHANGED asked
      BY <1>1
    <3>10. /\ drawn' = drawn + 1 /\ drawn' \in Nat /\ toSkip' \in Nat
           /\ screen' \in Pictures /\ last' \in Pictures /\ mode' \in {"play", "hold", "held"}
           /\ (drawn > 0 => last.frame \in 0 .. Frames - 1
                            /\ Place(last.frame) = origin + drawn - 1)'
           /\ Asked'
      BY <1>1, <1>2, <3>2, <3>6, <3>8, <3>9, DrawHas
    <3> QED BY <1>6, <3>7, <3>10
  <2> QED BY <2>1, <2>2
<1>14. Over' /\ Phase'
  <2>1. Over'
    BY <1>2, <1>3, <1>6, <1>10, <1>13 DEF Over
  <2> QED BY <2>1 DEF Phase
<1>15. Placed'
  BY <1>1, <1>2, <1>12 DEF Placed
<1>16. Roles'
  <2>1. Permuted' /\ Come(w)' /\ Filled(w)'
    BY <1>2, <1>3, <1>8, <1>10 DEF Permuted, Come, Filled, Referred, IsWhole
  <2> QED BY <1>11, <1>12, <2>1 DEF Roles
<1>17. Typing'
  BY <1>1, <1>2, <1>3, <1>10, <1>13 DEF Typing
<1>18. Counted'
  <2>1. ~ended /\ origin < Frames /\ mpeg.types[origin + 1] = "I" /\ coded < Frames
    BY <1>1 DEF Inv, Counted
  <2> QED BY <1>2, <1>3, <1>11, <1>13, <1>14, <2>1 DEF Counted
<1> QED BY <1>13, <1>14, <1>15, <1>16, <1>17, <1>18 DEF Inv

-----------------------------------------------------------------------------
(* The theorems                                                            *)

LEMMA StepInv == Inv /\ [Next]_vars => Inv'
<1> SUFFICES ASSUME Inv, [Next]_vars PROVE Inv'
  OBVIOUS
<1>1. CASE SeekHeader
  BY <1>1, SeekStep
<1>2. CASE ParseHeader
  BY <1>2, HeaderStep, PictureStep
<1>3. CASE Slices
  BY <1>3, SlicesStep
<1>4. CASE HeaderEnd
  BY <1>4, EndStep
<1>5. CASE Eof
  BY <1>5, EofStep
<1>6. CASE \E s \in Streams : Open(s)
  BY <1>6, OpenStep
<1>7. CASE Play
  BY <1>7, PlayStep
<1>8. CASE Resume \/ Step \/ Pause \/ UNCHANGED vars
  BY <1>8, ResumeStep
<1>9. CASE \E f \in 0 .. Frames - 1 : Search(f) \/ Skip(f)
  BY <1>9, GoStep
<1> QED BY <1>1, <1>2, <1>3, <1>4, <1>5, <1>6, <1>7, <1>8, <1>9
       DEF Next, Decode

\* The invariant at any time.
LEMMA InvHolds == Spec => []Inv
  BY InitInv, StepInv, PTL DEF Spec

\* The decoder is handed its three buffers once after each restart, and its roles stay
\* within them (mpeg2_set_buf and mpeg2_set_fbuf, decode.c, header.c).
THEOREM TypeCorrect == Spec => []TypeOK
<1>1. Inv => TypeOK
  BY DEF Inv, Typing, TypeOK, Decoders
<1> QED BY <1>1, InvHolds, PTL

\* Pictures are drawn in the order of the film, each once, from where decoding began,
\* and at the end of a file none but those it loses is left (null_draw_frame, called
\* by decode_mpeg2).
THEOREM InPlace == Spec => []DrawnInPlace
<1>1. Inv => DrawnInPlace
  BY NoneAssumption DEF Inv, Typing, Counted, DrawnInPlace
<1> QED BY <1>1, InvHolds, PTL

\* What is shown was decoded from the pictures it refers to, wherever a search or a
\* skip began to decode (idle_handler_search, vldp_internal.c).
THEOREM Clean == Spec => []CleanOnScreen
<1>1. Inv => CleanOnScreen
  BY DEF Inv, Asked, CleanOnScreen
<1> QED BY <1>1, InvHolds, PTL

\* A search holds the picture that was asked for, and so does each step from there
\* (s_frames_to_skip, vldp_internal.c).
THEOREM SearchLands == Spec => []SearchLandsOn
<1>1. Inv => SearchLandsOn
  <2> SUFFICES ASSUME Inv, mode = "held", target # None, ~mpeg.fields
               PROVE  screen.frame # None /\ Place(screen.frame) = target
    BY DEF SearchLandsOn
  <2>1. screen = last /\ drawn > 0 /\ origin + drawn - 1 = target
    BY DEF Inv, Asked
  <2>2. last.frame \in Int /\ Place(last.frame) = origin + drawn - 1
    BY <2>1 DEF Inv, Counted
  <2> QED BY <2>1, <2>2, NoneAssumption
<1> QED BY <1>1, InvHolds, PTL

=============================================================================
