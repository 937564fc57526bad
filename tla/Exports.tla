------------------------------ MODULE Exports -------------------------------
(***************************************************************************)
(* exportShipments, backend/src/shipments/shipments.service.ts: the rows   *)
(* of one query, turned one by one into CSV or JSON while they are sent.   *)
(* Columns stand for the seventeen of exportColumns, and Texts for what    *)
(* the two may hold: texts over the characters that are treated unlike the *)
(* others, "=" for those that would begin a formula and are nothing else.  *)
(* A JSON row is a word (JSON.stringify).  The query is one statement, so  *)
(* other requests do not show in it.                                       *)
(***************************************************************************)
EXTENDS Naturals, SequencesExt

CONSTANTS
    Characters,   \* at least those named below
    Texts,        \* over them, that the columns may hold
    MaxRows

VARIABLE export   \* the request: its format, what came in and what went out

Quote == "quote"
Comma == "comma"
Newline == "newline"
Return == "return"   \* carriage return

(* A column of a row is null, {}, or has a text.                           *)
Values == {{}} \cup {{text} : text \in Texts}
ExportRows == Values \X Values

NoExport == [pc |-> "none", format |-> "csv", wroteHeader |-> FALSE, rows |-> <<>>, out |-> <<>>]

ExportsInit == export = NoExport

(* exportShipments: not for carriers. *)
ExportShipments(role, format) ==
    /\ export = NoExport
    /\ role \in {"shipper", "admin"}
    /\ export' = [export EXCEPT !.pc = "streaming", !.format = format]

Sanitized(text) ==
    IF text # <<>> /\ Head(text) \in {"=", Return} THEN <<"'">> \o text ELSE text

Doubled(text) ==
    FlattenSeq([i \in DOMAIN text |-> IF text[i] = Quote THEN <<Quote, Quote>> ELSE <<text[i]>>])

(* What is put between quotes: a carriage return alone is no reason.       *)
Enclosed(text) == ToSet(text) \cap {Quote, Comma, Newline} # {}

(* Mutant: quotes are not doubled. *)
EscapeCsvValueOnce(text) ==
    LET s == Sanitized(text) IN IF Enclosed(s) THEN <<Quote>> \o s \o <<Quote>> ELSE s

EscapeCsvValue(text) ==
    LET s == Sanitized(text) IN IF Enclosed(s) THEN <<Quote>> \o Doubled(s) \o <<Quote>> ELSE s

Columns == <<<<"a">>, <<"a", "a">>>>   \* their names

FormatExportValue(value) == IF value = {} THEN <<>> ELSE CHOOSE text \in value : TRUE
NormalizeExportRow(row) == [i \in DOMAIN Columns |-> FormatExportValue(row[i])]

CsvLine(fields) == fields[1] \o <<Comma>> \o fields[2] \o <<Newline>>

HeaderIfFirst == IF export.wroteHeader THEN <<>> ELSE CsvLine(Columns)

(* A row comes in. *)
Transform(row) ==
    /\ export.pc = "streaming" /\ Len(export.rows) < MaxRows
    /\ LET normal == NormalizeExportRow(row)
           written == IF export.format = "csv"
                      THEN HeaderIfFirst
                           \o CsvLine([i \in DOMAIN normal |-> EscapeCsvValue(normal[i])])
                      ELSE <<IF export.wroteHeader THEN Comma ELSE "[", "row">>
       IN  export' = [export EXCEPT !.rows = Append(@, row), !.out = @ \o written,
                                    !.wroteHeader = TRUE]

(* The query has no more rows; the answer ends. *)
Flush ==
    /\ export.pc = "streaming"
    /\ export' = [export EXCEPT !.pc = "ended",
         !.out = @ \o IF export.format = "csv" THEN HeaderIfFirst
                      ELSE IF export.wroteHeader THEN <<"]">> ELSE <<"[", "]">>]

(* The query, or the connection, breaks: pipe passes no error on, so what  *)
(* was sent stays without an end.                                          *)
Break ==
    /\ export.pc = "streaming"
    /\ export' = [export EXCEPT !.pc = "broken"]

ExportsNext ==
    \/ \E role \in {"shipper", "carrier", "admin"}, format \in {"csv", "json"} :
         ExportShipments(role, format)
    \/ \E row \in ExportRows : Transform(row)
    \/ Flush
    \/ Break
    \/ /\ export.pc \in {"ended", "broken"}
       /\ export' = NoExport

-----------------------------------------------------------------------------
(* A reader of CSV, as a fold over the characters: fields and quotes as in *)
(* RFC 4180; outside quotes either line end closes a row.                  *)
Field(reader) == [reader EXCEPT !.row = Append(@, reader.field), !.field = <<>>, !.mode = "plain"]
Row(reader) == [Field(reader) EXCEPT !.rows = Append(@, Field(reader).row), !.row = <<>>]
Text(reader, ch, mode) == [reader EXCEPT !.field = Append(@, ch), !.mode = mode]

Read(reader, ch) ==
    CASE reader.mode = "quoted" /\ ch = Quote  -> [reader EXCEPT !.mode = "closed"]
      [] reader.mode = "quoted" /\ ch # Quote  -> Text(reader, ch, "quoted")
      [] reader.mode = "closed" /\ ch = Quote  -> Text(reader, ch, "quoted")
      [] reader.mode = "plain" /\ ch = Quote   -> [reader EXCEPT !.mode = "quoted"]
      [] reader.mode # "quoted" /\ ch = Comma   -> Field(reader)
      [] reader.mode # "quoted" /\ ch \in {Newline, Return} -> Row(reader)
      [] OTHER -> Text(reader, ch, "plain")

ReadCsv(text) ==
    FoldLeft(Read, [rows |-> <<>>, row |-> <<>>, field |-> <<>>, mode |-> "plain"], text)

JsonList(n) ==
    <<"[">> \o [i \in 1..(2 * n - 1) |-> IF i % 2 = 1 THEN "row" ELSE Comma] \o <<"]">>

Exported(row) ==
    LET normal == NormalizeExportRow(row) IN <<Sanitized(normal[1]), Sanitized(normal[2])>>

(* A carriage return outside quotes cuts its row in two for this reader.   *)
NoBareReturn(rows) ==
    \A i \in DOMAIN rows : \A j \in DOMAIN Columns :
        LET text == Exported(rows[i])[j] IN Return \in ToSet(text) => Enclosed(text)

(* An export that has ended is whole: a reader of the CSV finds the header *)
(* and every row, in order, with the texts that were exported (after the   *)
(* mark put before formulas), whatever quotes, commas and line ends they   *)
(* hold, as long as a text with a carriage return holds one of the three   *)
(* characters that escapeCsvValue quotes; the JSON is one list with an     *)
(* entry for each row.                                                     *)
ExportReadsBack ==
    export.pc = "ended" =>
        IF export.format = "csv"
        THEN LET r == ReadCsv(export.out)
             IN  NoBareReturn(export.rows) =>
                 /\ r.mode = "plain" /\ r.row = <<>> /\ r.field = <<>>
                 /\ r.rows = <<Columns>> \o [i \in DOMAIN export.rows |-> Exported(export.rows[i])]
        ELSE export.out = JsonList(Len(export.rows))
=============================================================================
