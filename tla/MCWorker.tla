-------------------------------- MODULE MCWorker --------------------------------
(* Answers for TLC: a header of one line and a body of three bytes, two of *)
(* which look like a line break; a header and chunks of two and one bytes. *)
EXTENDS Worker

PlainWire == <<"x", "cr", "lf", "cr", "lf", "b", "cr", "lf">>

ChunkedWire ==
  <<"x", "cr", "lf", "cr", "lf",
    "2", "cr", "lf", "b", "b", "cr", "lf",
    "1", "cr", "lf", "b", "cr", "lf",
    "0", "cr", "lf", "cr", "lf">>

SizesAt == {6, 13, 19}

AnswerWires ==
  [close |-> PlainWire, length |-> PlainWire, chunked |-> ChunkedWire]

AllCuttings ==
  {c \in SUBSET (1 .. Len(PlainWire)) : Len(PlainWire) \in c}

(* The last two bytes of the header stay together. *)
HeaderEndWhole == {c \in AllCuttings : 4 \notin c}

(* The header has a piece of its own. *)
HeaderApart == {c \in HeaderEndWhole : 5 \in c}

(* So do the lines that give the sizes of the chunks. *)
HeadsWhole ==
  {{23}, {5, 23}, {5, 8, 15, 21, 23}, {3, 9, 16, 23},
   {1, 2, 3, 5, 8, 9, 10, 11, 12, 15, 16, 17, 18, 21, 22, 23}}

(* And here some do not, nor does the header. *)
HeadsTorn == {{4, 23}, {6, 23}, {7, 14, 23}, {19, 20, 21, 23}, 1 .. 23}

(* A piece ends wherever a read() of the buffer does. *)
ReadsApart == {{5, 10, 16, 23}, {5, 8, 10, 15, 16, 21, 23}}

Cut(plain, chunked) ==
  [close |-> plain, length |-> plain, chunked |-> chunked]

AnyCut == Cut(AllCuttings, HeadsWhole \cup HeadsTorn)
HeadsTogether == Cut(HeaderEndWhole, HeadsWhole)
ReadsSeparate == Cut(HeaderApart, ReadsApart)

Anywhere == 1 .. Len(ChunkedWire)

=============================================================================
