------------------------------- MODULE Exports -------------------------------
(***************************************************************************)
(* The files EXPORT_DATA writes (services/backup.ts): transcripts as text, *)
(* flashcards as CSV or for Anki, everything as JSON.  The application     *)
(* never reads them again; other programs do, and the reader of delimited  *)
(* files below is theirs.  No state.                                       *)
(*                                                                         *)
(* A text is a sequence of characters: of those that matter to the formats *)
(* and of plain ones, which stand for the others.  Each column name of the *)
(* file is one plain character.                                            *)
(***************************************************************************)
EXTENDS Integers, FiniteSets, Sequences, SequencesExt

Comma == ","
Quote == "q"
Tab == "t"
NewLine == "n"
CarriageReturn == "r"
Mark == {Comma, Quote, Tab, NewLine, CarriageReturn}
Plain == {"a", "Question", "Answer", "Difficulty", "Next Review"}
Char == Mark \cup Plain

Has(text, char) == \E i \in DOMAIN text : text[i] = char

(* escapeCsv: neither a tab nor a carriage return is a reason to quote.    *)
Quoted(text) == Has(text, Comma) \/ Has(text, Quote) \/ Has(text, NewLine)

EscapeCsv(text) ==
  IF ~Quoted(text) THEN text
  ELSE <<Quote>>
         \o FlattenSeq([i \in DOMAIN text |->
              IF text[i] = Quote THEN <<Quote, Quote>> ELSE <<text[i]>>])
         \o <<Quote>>

(* join: the texts with a separator between them.                          *)
Joined(texts, sep) ==
  FlattenSeq([i \in DOMAIN texts |->
                IF i = 1 THEN texts[i] ELSE <<sep>> \o texts[i]])

Delimited(rows, sep) ==
  Joined([r \in DOMAIN rows |-> Joined(rows[r], sep)], NewLine)

(* exportFlashcards: a header and a row for each card, of which only the   *)
(* question and the answer are escaped, or the two of them alone.          *)
Header == <<<<"Question">>, <<"Answer">>, <<"Difficulty">>, <<"Next Review">>>>

CsvFile(cards) ==
  Delimited(<<Header>>, Comma) \o <<NewLine>>
    \o Delimited([i \in DOMAIN cards |->
                    <<EscapeCsv(cards[i].question), EscapeCsv(cards[i].answer),
                      cards[i].difficulty, cards[i].nextReviewDate>>], Comma)

AnkiFile(cards) ==
  Delimited([i \in DOMAIN cards |->
               <<EscapeCsv(cards[i].question), EscapeCsv(cards[i].answer)>>],
            Tab)

-----------------------------------------------------------------------------
(* External: a program that reads delimited files as RFC 4180 says.  A     *)
(* quote at the start of a field begins a quoted one, in which two quotes  *)
(* are one; outside, separators end fields, and line feeds and carriage    *)
(* returns end rows.  What is left after the last end of a row is a row    *)
(* too, if there is anything.                                              *)
Begun == [rows |-> <<>>, row |-> <<>>, field |-> <<>>, mode |-> "start"]

EndField(s) == [s EXCEPT !.row = Append(@, s.field), !.field = <<>>,
                         !.mode = "start"]
EndRow(s) == [Begun EXCEPT !.rows = Append(s.rows, EndField(s).row)]
Take(s, char, mode) == [s EXCEPT !.field = Append(@, char), !.mode = mode]

ReadChar(s, char, sep) ==
  CASE s.mode = "quoted" /\ char = Quote -> [s EXCEPT !.mode = "closed"]
    [] s.mode = "quoted" /\ char # Quote -> Take(s, char, "quoted")
    [] s.mode = "closed" /\ char = Quote -> Take(s, char, "quoted")
    [] s.mode = "start" /\ char = Quote -> [s EXCEPT !.mode = "quoted"]
    [] s.mode # "quoted" /\ char = sep -> EndField(s)
    [] s.mode # "quoted" /\ char \in {NewLine, CarriageReturn} -> EndRow(s)
    [] OTHER -> Take(s, char, "plain")

ReadText(s, text, sep) ==
  LET after[n \in 0 .. Len(text)] ==
        IF n = 0 THEN s ELSE ReadChar(after[n - 1], text[n], sep)
  IN  after[Len(text)]

Ended(s) == IF s.row = <<>> /\ s.mode = "start" THEN s.rows ELSE EndRow(s).rows
ReadFile(file, sep) == Ended(ReadText(Begun, file, sep))

(* What a program should find in the two files.                            *)
CsvRows(cards) ==
  <<Header>> \o [i \in DOMAIN cards |->
                   <<cards[i].question, cards[i].answer, cards[i].difficulty,
                     cards[i].nextReviewDate>>]
AnkiRows(cards) ==
  [i \in DOMAIN cards |-> <<cards[i].question, cards[i].answer>>]

(* A text is safe if it is quoted wherever it has what such a program      *)
(* would take for the end of a field or a row.                             *)
Safe(text, sep) == Has(text, sep) \/ Has(text, CarriageReturn) => Quoted(text)
SafeCards(cards, sep) ==
  \A i \in DOMAIN cards :
    Safe(cards[i].question, sep) /\ Safe(cards[i].answer, sep)

-----------------------------------------------------------------------------
(* Transcripts: the segments in the order of their index, each with its    *)
(* time and its text, the edited one where there is one.                   *)
NoText == ""
TextOf(seg) == IF seg.edited # NoText THEN seg.edited ELSE seg.text

(* formatTimestamp, from tenths of a second; hours only when there are     *)
(* some.                                                                   *)
Stamp(tenths) ==
  LET sec == tenths \div 10
      hms == <<sec \div 3600, (sec % 3600) \div 60, sec % 60>>
  IN  IF hms[1] > 0 THEN hms ELSE Tail(hms)

TranscriptFile(segs) ==
  LET byIndex == SetToSortSeq(segs, LAMBDA x, y : x.index < y.index)
  IN  [i \in DOMAIN byIndex |->
         <<Stamp(byIndex[i].start), TextOf(byIndex[i])>>]

(* exportFullData: the columns of each table that matter here.             *)
Columns ==
  [settings |-> {"theme", "aiMode", "storagePath", "defaultAiProvider"},
   lectures |-> {"title", "audioPath"},
   segments |-> {"text"}, flashcards |-> {"question"}]

FullData(redact) ==
  [t \in DOMAIN Columns |->
     CASE redact /\ t = "settings" -> {"theme", "aiMode"}
       [] redact /\ t = "lectures" -> Columns[t] \ {"audioPath"}
       [] OTHER -> Columns[t]]

(* exportDiagnostics *)
Diagnostics == {"version", "platform"}

(* EXPORT_DATA: an unknown type, or one without its id, is a full export.  *)
Exported(type, id) ==
  CASE type = "transcript" /\ id -> {"title", "text"}
    [] type = "flashcards" /\ id -> Columns.flashcards
    [] type = "diagnostics" -> Diagnostics
    [] OTHER -> UNION {FullData(TRUE)[t] : t \in DOMAIN Columns}

-----------------------------------------------------------------------------
Texts(n) == UNION {[1 .. k -> Mark \cup {"a"}] : k \in 0 .. n}
Cards(n, rows) ==
  UNION {[1 .. k -> [question : Texts(n), answer : Texts(n),
                     difficulty : {<<"a">>}, nextReviewDate : {<<"a">>}]] :
           k \in rows}

(* A CSV file reads back as the header and the cards it was written from,  *)
(* unless a text has a carriage return and nothing that would have it      *)
(* quoted: the row then ends there.                                        *)
ASSUME CsvReadsBack ==
  \A cards \in Cards(2, {0, 1}) \cup Cards(1, {2}) :
    ReadFile(CsvFile(cards), Comma) = CsvRows(cards)
      <=> SafeCards(cards, Comma)

(* A file for Anki reads back unless a text has a tab or a carriage return *)
(* and nothing else that would have it quoted.                             *)
ASSUME AnkiReadsBack ==
  \A cards \in Cards(2, {0, 1}) \cup Cards(1, {2}) :
    ReadFile(AnkiFile(cards), Tab) = AnkiRows(cards) <=> SafeCards(cards, Tab)

(* The times of a transcript are those of its segments, to the second, and *)
(* none is ever 60 minutes or seconds.                                     *)
ASSUME StampsAreTimes ==
  \A tenths \in (0 .. 700) \cup (35900 .. 36700) \cup {359999, 360000} :
    LET s == Stamp(tenths)
    IN  /\ FoldLeft(LAMBDA n, x : 60 * n + x, 0, s) = tenths \div 10
        /\ \A i \in DOMAIN s : Len(s) - i < 2 => s[i] \in 0 .. 59

(* A transcript has every segment, in order, with the text as it was       *)
(* edited last.                                                            *)
ASSUME TranscriptIsWhole ==
  \A edited \in [1 .. 3 -> {NoText, "mine"}] :
    LET segs == {[index |-> i, start |-> 600 * i, text |-> "heard",
                  edited |-> edited[i]] : i \in 1 .. 3}
        file == TranscriptFile(segs)
    IN  /\ Len(file) = 3
        /\ \A i \in 1 .. 3 :
             file[i] = <<<<i, 0>>, IF edited[i] = NoText THEN "heard"
                                   ELSE edited[i]>>

(* "Sensitive data redacted": whatever is asked for, no path on this       *)
(* machine and no provider leaves it; without the redaction some would.    *)
Sensitive == {"storagePath", "audioPath", "defaultAiProvider"}
ASSUME ExportsRedacted ==
  /\ \A type \in {"transcript", "flashcards", "diagnostics", "other"} :
       \A id \in BOOLEAN : Exported(type, id) \cap Sensitive = {}
  /\ \E t \in DOMAIN Columns : FullData(FALSE)[t] \cap Sensitive # {}
=============================================================================
