------------------------------ MODULE MCDecoder ------------------------------
(* Films in coded order: two B pictures between references, in open groups;   *)
(* three of them, and an end code; frames of two fields; and no B at all.     *)
EXTENDS Decoder

Film(chunks, types, fields, low) ==
  LET At(n) == chunks[n] \in Types
  IN [chunks |-> chunks, index |-> SelectSeq([n \in DOMAIN chunks |-> n], At),
      types |-> types, fields |-> fields, low |-> low]

MCStreams ==
  { Film(<<"seq", "gop", "I", "slices", "P", "slices", "B", "slices", "B", "slices",
           "seq", "gop", "I", "slices", "B", "slices", "B", "slices", "P", "slices",
           "B", "slices", "B", "slices">>,
         <<"I", "P", "B", "B", "I", "B", "B", "P", "B", "B">>, FALSE, FALSE),
    Film(<<"seq", "gop", "I", "slices", "gop", "I", "slices", "B", "slices",
           "B", "slices", "B", "slices", "P", "slices", "seq", "gop", "I", "slices",
           "B", "slices", "B", "slices", "B", "slices", "end">>,
         <<"I", "I", "B", "B", "B", "P", "I", "B", "B", "B">>, FALSE, FALSE),
    Film(<<"seq", "gop", "I", "slices", "P", "slices", "P", "slices", "P", "slices",
           "B", "slices", "B", "slices", "seq", "gop", "I", "slices", "P", "slices",
           "B", "slices", "B", "slices", "P", "slices", "P", "slices">>,
         <<"I", "P", "B", "I", "B", "P">>, TRUE, FALSE),
    Film(<<"seq", "gop", "I", "slices", "P", "slices", "P", "slices",
           "seq", "I", "slices", "P", "slices", "end">>,
         <<"I", "P", "P", "I", "P">>, FALSE, TRUE) }
=============================================================================
