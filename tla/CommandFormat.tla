--------------------------- MODULE CommandFormat ---------------------------
(* How the front end writes a command: Connection::redisvFormatCommand of    *)
(* commlib/redis/connection.cpp, and the formats that commlib/redis/         *)
(* command.h gives it.                                                       *)
(*                                                                           *)
(* A text is a sequence of pieces [of, len]: a word of the format, the bytes *)
(* of an argument, a printed number.  A format is a sequence of tokens, each *)
(* a run of letters "word", a space " ", or a conversion.                    *)
EXTENDS Integers, Sequences

CONSTANT WordBytes      \* the bytes of one "word"

ASSUME WordBytesAssumption == WordBytes \in Nat \ {0}

TextLength(text) ==
  LET upto[i \in 0..Len(text)] == IF i = 0 THEN 0 ELSE upto[i - 1] + text[i].len
  IN  upto[Len(text)]

\* Mutant: the boundary belongs to the shorter number.
Below10000_OffByOne(v) ==
  IF v <= 10 THEN 0 ELSE IF v <= 100 THEN 1 ELSE IF v <= 1000 THEN 2 ELSE 3

\* What one pass of countDigits' loop adds for a rest v, which is the last
\* pass below 10000.
Below10000(v) ==
  IF v < 10 THEN 0 ELSE IF v < 100 THEN 1 ELSE IF v < 1000 THEN 2 ELSE 3

\* countDigits: the loop takes four digits off v as long as there are more.
CountDigits[v \in Nat] ==
  IF v < 10000 THEN 1 + Below10000(v) ELSE 4 + CountDigits[v \div 10000]

\* What sprintf("%d") and sprintf("%zu") write: a digit for every power of ten.
Printed[v \in Nat] == IF v < 10 THEN 1 ELSE 1 + Printed[v \div 10]

\* The bytes of one argument, $<len>\r\n<bytes>\r\n, as they are counted and
\* as they are written.
BulkLen(len)   == 1 + CountDigits[len] + 2 + len + 2
BulkPiece(arg) == [of  |-> "bulk",
                   len |-> 1 + Printed[TextLength(arg)] + 2 + TextLength(arg) + 2]

-----------------------------------------------------------------------------
\* A run of letters.  Runs side by side are one word.
Word == [of |-> "word", len |-> WordBytes]

\* Mutant: conversions of doubles are not understood.
Conversions_NoDouble == {"%b", "%s", "%lld"}

\* The conversions redisvFormatCommand understands.  %lld and %f are printed
\* by vsnprintf, the others copied.
Conversions == {"%b", "%s", "%lld", "%f"}

EmptyScan(args) == [rest |-> args, cur |-> <<>>, touched |-> FALSE,
                    argv |-> <<>>, totlen |-> 0, err |-> FALSE]

\* curarg becomes the next element of argv.
PushArg(s) == [s EXCEPT !.argv    = Append(@, s.cur),
                        !.totlen  = @ + BulkLen(TextLength(s.cur)),
                        !.cur     = <<>>,
                        !.touched = FALSE]

\* One pass of the loop over the format.  A conversion touches the current
\* argument even if it adds nothing to it, so an empty value stays an argument.
ScanToken(s, token) ==
  IF s.err THEN s
  ELSE CASE token = " " -> IF s.touched THEN PushArg(s) ELSE s
         [] token = "word" -> [s EXCEPT !.cur = Append(@, Word), !.touched = TRUE]
         [] token \in Conversions /\ s.rest # <<>> ->
              [s EXCEPT !.cur = IF Head(s.rest).len > 0 THEN Append(@, Head(s.rest))
                                ELSE @,
                        !.rest    = Tail(@),
                        !.touched = TRUE]
         [] OTHER -> [s EXCEPT !.err = TRUE]

\* The loop over the format.
Scan(format, args) ==
  LET upto[i \in 0..Len(format)] ==
        IF i = 0 THEN EmptyScan(args)
        ELSE ScanToken(upto[i - 1], format[i])
  IN  upto[Len(format)]

\* redisvFormatCommand: totlen is counted as the arguments are found, pos as
\* they are written; err is a negative result, for which nothing is written.
FormatCommand(format, args) ==
  LET scanned == Scan(format, args)
      s       == IF scanned.touched THEN PushArg(scanned) ELSE scanned
  IN  [argv   |-> s.argv,
       err    |-> s.err,
       totlen |-> s.totlen + 1 + CountDigits[Len(s.argv)] + 2,
       pos    |-> 1 + Printed[Len(s.argv)] + 2
                  + TextLength([j \in DOMAIN s.argv |-> BulkPiece(s.argv[j])])]

-----------------------------------------------------------------------------
\* A format of command.h, given by its words: the spaces between them are the
\* tokens of arguments' ends.
Spaced(words) ==
  [j \in 1 .. 2 * Len(words) - 1 |->
     IF j % 2 = 1 THEN words[(j + 1) \div 2] ELSE " "]

\* How many arguments the first n words take.
Taken(words, n) ==
  LET upto[i \in 0..n] ==
        IF i = 0 THEN 0
        ELSE upto[i - 1] + IF words[i] \in Conversions THEN 1 ELSE 0
  IN  upto[n]

\* What a reader of the format expects: one argument per word of it, the
\* conversions replaced by the values in their order.
WordsWritten(words, args) ==
  [j \in DOMAIN words |->
     IF words[j] = "word" THEN <<Word>>
     ELSE LET arg == args[Taken(words, j)]
          IN  IF arg.len = 0 THEN <<>> ELSE <<arg>>]

\* A formatted command has one argument for every word of its format, empty
\* values included, and redisvFormatCommand writes as many bytes as it
\* allocated (its assert(pos == totlen)).
Exact(command, words, args) ==
  /\ ~command.err
  /\ command.argv = WordsWritten(words, args)
  /\ command.pos = command.totlen
=============================================================================
