------------------------------- MODULE HdbResult -------------------------------
(***************************************************************************)
(* The rows of a SELECT on their way from PostgreSQL to the values the     *)
(* caller reads: CHdbQueryExecutor names the columns and turns timestamps  *)
(* into epoch milliseconds, the command handler encodes schema and rows    *)
(* into one response body, HdbQueryExecute decodes it into an HDB_RESULT,  *)
(* and the cursor and the getters read it row by row.                      *)
(*                                                                         *)
(* The body is a sequence of units, a unit being a 32-bit word or one      *)
(* character; a text on the wire is its length and its characters.         *)
(* Characters are digits (0 to 9), DATE or letters (other numbers).  Signs *)
(* and HDB_FT_DOUBLE, which is read as HDB_FT_INT64 is, are left out, and  *)
(* so is memory that runs out (see HdbQueryAst and HdbSourceRegistry).     *)
(***************************************************************************)
EXTENDS Integers, Sequences, SequencesExt

CONSTANTS
  Tables,       (* what the statement selects: names, types, rows          *)
  Offsets,      (* offsets of HdbQueryLimit                                *)
  MaxColumns,   (* HDB_IPC_MAX_RESULT_COLUMNS                              *)
  MaxRows,      (* HDB_IPC_MAX_RESULT_ROWS, which is HDB_QUERY_MAX_LIMIT   *)
  DefaultLimit, (* HDB_QUERY_DEFAULT_LIMIT                                 *)
  MaxCell,      (* HDB_IPC_MAX_RESULT_CELL_BYTES                           *)
  MaxBody,      (* HDB_IPC_MAX_BODY_LENGTH, in units                       *)
  MaxInt32, MaxInt64,
  Mktime,       (* mktime, of local seconds; -1 where it gives up          *)
  BufferSizes   (* sizes of the buffers callers pass                       *)

HDB_FT_INT32        == 1
HDB_FT_INT64        == 2
HDB_FT_CHAR_ARRAY   == 5
HDB_FT_TIMESTAMP_MS == 6

FieldTypes == {HDB_FT_INT32, HDB_FT_INT64, HDB_FT_CHAR_ARRAY, HDB_FT_TIMESTAMP_MS}

DATE == 11

(* What PostgreSQL keeps in a cell; a moment is local time, without a zone.*)
Cells == [kind : {"null"}] \cup [kind : {"text"}, text : Seq(Nat \ {DATE})]
                          \cup [kind : {"moment"}, ms : Nat]

(* Rows have a cell for each column; moments are in columns declared so,   *)
(* and are given to mktime.                                                *)
IsTable(t) ==
  /\ t \in [names : Seq(Seq(Nat)), types : Seq(FieldTypes), rows : Seq(Seq(Cells))]
  /\ Len(t.types) = Len(t.names)
  /\ \A r \in DOMAIN t.rows :
       /\ Len(t.rows[r]) = Len(t.names)
       /\ \A f \in DOMAIN t.names :
            t.rows[r][f].kind = "moment" =>
              t.types[f] = HDB_FT_TIMESTAMP_MS /\ t.rows[r][f].ms \div 1000 \in DOMAIN Mktime

ASSUME ResultAssumption ==
  /\ MaxColumns \in Nat /\ MaxRows \in Nat /\ MaxCell \in Nat /\ MaxBody \in Nat
  /\ MaxInt32 \in Nat /\ MaxInt64 \in Nat
  /\ DefaultLimit \in 1 .. MaxRows
  /\ Offsets \subseteq Nat /\ BufferSizes \subseteq Nat
  /\ \A second \in DOMAIN Mktime : Mktime[second] \in Nat \cup {-1}
  /\ \A t \in Tables : IsTable(t)

VARIABLES
  page,         (* what PostgreSQL answered to the last statement          *)
  result,       (* HdbResultTag: columns and rows, NoResult without one    *)
  currentRow,   (* HdbResultTag.currentRow                                 *)
  visited,      (* history: the rows HdbResultNext has gone to             *)
  told          (* the last call of the caller and what it was told        *)

vars == <<page, result, currentRow, visited, told>>

NoPage   == [names |-> <<>>, types |-> <<>>, rows |-> <<>>]
NoResult == [columns |-> <<>>, rows |-> <<>>]

(* A call and its outputs; those it does not have keep these values.       *)
Told(call, name, code) ==
  [call |-> call, name |-> name, code |-> code, size |-> 0, required |-> 0,
   flag |-> FALSE, number |-> 0, text |-> <<>>]

-----------------------------------------------------------------------------
(* A loop of n passes over what it has at first.                           *)
Repeat(pass(_), first, n) ==
  LET after[i \in 0 .. n] == IF i = 0 THEN first ELSE pass(after[i - 1])
  IN after[n]

-----------------------------------------------------------------------------
(* Texts.  PostgreSQL prints a timestamp down to the seconds (DATE and the *)
(* number of the second) and then the fraction without trailing zeros.     *)

IsNumber(text) == text # <<>> /\ \A i \in DOMAIN text : text[i] \in 0 .. 9

Number(text) ==
  LET upTo[i \in 0 .. Len(text)] == IF i = 0 THEN 0 ELSE 10 * upTo[i - 1] + text[i]
  IN upTo[Len(text)]

Digits(number) ==
  LET digits[n \in 0 .. number] == IF n < 10 THEN <<n>> ELSE Append(digits[n \div 10], n % 10)
  IN digits[number]

Fraction(millis) ==
  IF millis = 0 THEN <<>>
  ELSE IF millis % 100 = 0 THEN <<millis \div 100>>
  ELSE IF millis % 10 = 0 THEN <<millis \div 100, (millis \div 10) % 10>>
  ELSE <<millis \div 100, (millis \div 10) % 10, millis % 10>>

(* PQgetvalue.                                                             *)
Printed(cell) ==
  CASE cell.kind = "null"   -> <<>>
    [] cell.kind = "text"   -> cell.text
    [] cell.kind = "moment" -> <<DATE, cell.ms \div 1000>> \o Fraction(cell.ms % 1000)

-----------------------------------------------------------------------------
(* DATABASE: LIMIT and OFFSET of the statement, and what libpq hands out.  *)

Answer(table, limit, offset) ==
  LET count == IF limit > 0 THEN limit ELSE DefaultLimit
  IN [table EXCEPT !.rows = SubSeq(@, offset + 1, Min({Len(@), offset + count}))]

-----------------------------------------------------------------------------
(* SERVER: CHdbQueryExecutor and the command handler.                      *)

(* HdbExecutorParseTimestampMs: mktime makes seconds of the local time, or *)
(* gives up; the fraction is read as a number of milliseconds.  A text     *)
(* that is not a timestamp may be a number of them.                        *)
IsTimestamp(text) ==
  \/ text # <<>> /\ text[1] = DATE /\ Mktime[text[2]] # -1
  \/ IsNumber(text) /\ Number(text) <= MaxInt64

ParseTimestampMs(text) ==
  IF text[1] = DATE THEN Mktime[text[2]] * 1000 + Number(SubSeq(text, 3, Len(text))) ELSE Number(text)

Normalizes(p) ==
  \A r \in DOMAIN p.rows, f \in DOMAIN p.types :
    p.types[f] = HDB_FT_TIMESTAMP_MS /\ p.rows[r][f].kind # "null"
      => IsTimestamp(Printed(p.rows[r][f]))

(* Mutant: NULL arrives as an empty text.                                  *)
CellOfForgetsNull(cell, type) ==
  [isNull |-> FALSE,
   value  |-> IF type = HDB_FT_TIMESTAMP_MS /\ cell.kind # "null"
              THEN Digits(ParseTimestampMs(Printed(cell))) ELSE Printed(cell)]

CellOf(cell, type) ==
  [isNull |-> cell.kind = "null",
   value  |-> IF type = HDB_FT_TIMESTAMP_MS /\ cell.kind # "null"
              THEN Digits(ParseTimestampMs(Printed(cell))) ELSE Printed(cell)]

(* HdbHandlerConvertQueryResult: the SQL aliases are replaced by the names *)
(* and types the builder noted, by position.                               *)
Convert(p) ==
  [columns |-> [f \in DOMAIN p.names |-> [name |-> p.names[f], fieldType |-> p.types[f]]],
   rows    |-> [r \in DOMAIN p.rows |->
                  [f \in DOMAIN p.names |-> CellOf(p.rows[r][f], p.types[f])]]]

EncodeText(text) == <<Len(text)>> \o text

EncodeSchema(s) ==
  <<Len(s.columns)>>
  \o FlattenSeq([f \in DOMAIN s.columns |->
                   EncodeText(s.columns[f].name) \o <<s.columns[f].fieldType>>])

EncodeRow(row) ==
  <<Len(row)>>
  \o FlattenSeq([f \in DOMAIN row |-> <<IF row[f].isNull THEN 1 ELSE 0>> \o EncodeText(row[f].value)])

EncodeRows(s) == <<Len(s.rows)>> \o FlattenSeq([r \in DOMAIN s.rows |-> EncodeRow(s.rows[r])])

Encodes(s) ==
  /\ Len(s.columns) <= MaxColumns
  /\ Len(s.rows) <= MaxRows
  /\ \A f \in DOMAIN s.columns :
       Len(s.columns[f].name) <= MaxCell /\ s.columns[f].fieldType \in FieldTypes
  /\ \A r \in DOMAIN s.rows : \A f \in DOMAIN s.rows[r] : Len(s.rows[r][f].value) <= MaxCell
  /\ Len(EncodeSchema(s)) <= MaxBody /\ Len(EncodeRows(s)) <= MaxBody

HDB_IPC_FIELD_RESULT_SCHEMA == 22
HDB_IPC_FIELD_RESULT_ROWS   == 23

(* HdbIpcAppendField: a header of two words, then the data.                *)
AppendField(body, type, data) == body \o <<type, Len(data)>> \o data

Body(s) ==
  AppendField(AppendField(<<>>, HDB_IPC_FIELD_RESULT_SCHEMA, EncodeSchema(s)),
              HDB_IPC_FIELD_RESULT_ROWS, EncodeRows(s))

Refuse(status) == [status |-> status, body |-> <<>>]

HandleQueryExecute(p) ==
  IF ~Normalizes(p) THEN Refuse("HDB_ERR_TYPE_MISMATCH")
  ELSE IF ~Encodes(Convert(p)) \/ Len(Body(Convert(p))) > MaxBody THEN Refuse("HDB_ERR_BUFFER")
  ELSE [status |-> "HDB_OK", body |-> Body(Convert(p))]

-----------------------------------------------------------------------------
(* DLL: the decoders.  A reader says how many units of u it consumed and   *)
(* what it found, and stays bad once a check has failed.                   *)

Reader(at) == [ok |-> TRUE, at |-> at, items |-> <<>>]
Bad(r)     == [r EXCEPT !.ok = FALSE]

HasWord(u, at)   == at < Len(u)
HasText(u, at)   == HasWord(u, at) /\ u[at + 1] <= MaxCell /\ u[at + 1] < Len(u) - at
TextAt(u, at)    == SubSeq(u, at + 2, at + 1 + u[at + 1])
AfterText(u, at) == at + 1 + u[at + 1]

ReadColumn(u, r) ==
  LET typeAt == AfterText(u, r.at)
  IN IF r.ok /\ HasText(u, r.at) /\ HasWord(u, typeAt) /\ u[typeAt + 1] \in FieldTypes
     THEN [ok |-> TRUE, at |-> typeAt + 1,
           items |-> Append(r.items, [name |-> TextAt(u, r.at), fieldType |-> u[typeAt + 1]])]
     ELSE Bad(r)

ReadCell(u, r) ==
  IF r.ok /\ HasWord(u, r.at) /\ HasText(u, r.at + 1) /\ u[r.at + 1] \in {0, 1}
  THEN [ok |-> TRUE, at |-> AfterText(u, r.at + 1),
        items |-> Append(r.items, [isNull |-> u[r.at + 1] = 1, value |-> TextAt(u, r.at + 1)])]
  ELSE Bad(r)

ReadCells(u, at, n) == Repeat(LAMBDA c : ReadCell(u, c), Reader(at), n)

ReadRow(u, columns, r) ==
  IF r.ok /\ HasWord(u, r.at) /\ u[r.at + 1] <= MaxColumns
          /\ (columns # <<>> => u[r.at + 1] = Len(columns))
  THEN LET row == ReadCells(u, r.at + 1, u[r.at + 1])
       IN [ok |-> row.ok, at |-> row.at, items |-> Append(r.items, row.items)]
  ELSE Bad(r)

(* Everything must have been consumed.                                     *)
Finished(u, r) == [r EXCEPT !.ok = @ /\ r.at = Len(u)]

ReadColumns(u, n) == Repeat(LAMBDA r : ReadColumn(u, r), Reader(1), n)

DecodeSchema(u) ==
  IF HasWord(u, 0) /\ u[1] <= MaxColumns
  THEN Finished(u, ReadColumns(u, u[1]))
  ELSE Bad(Reader(0))

ReadRows(u, columns, n) == Repeat(LAMBDA r : ReadRow(u, columns, r), Reader(1), n)

(* Mutant: a full page is one row too many.                                *)
DecodeRowsRefusesFullPage(u, columns) ==
  IF HasWord(u, 0) /\ u[1] < MaxRows
  THEN Finished(u, ReadRows(u, columns, u[1]))
  ELSE Bad(Reader(0))

DecodeRows(u, columns) ==
  IF HasWord(u, 0) /\ u[1] <= MaxRows
  THEN Finished(u, ReadRows(u, columns, u[1]))
  ELSE Bad(Reader(0))

(* CHdbIpcFieldReader::Next until the end of the body.                     *)
Fields(body) ==
  LET from[at \in 0 .. Len(body)] ==
        IF at = Len(body) THEN Reader(at)
        ELSE IF Len(body) - at < 2 \/ body[at + 2] > Len(body) - at - 2 THEN Bad(Reader(at))
        ELSE LET next == at + 2 + body[at + 2]
                 rest == from[next]
             IN [rest EXCEPT !.items =
                   <<[type |-> body[at + 1], data |-> SubSeq(body, at + 3, next)]>> \o @]
  IN from[0]

(* The loop of HdbQueryExecute over the fields of the response.            *)
TakeField(d, field) ==
  CASE field.type = HDB_IPC_FIELD_RESULT_SCHEMA ->
         LET schema == DecodeSchema(field.data)
         IN [d EXCEPT !.ok = @ /\ schema.ok, !.columns = schema.items, !.hasSchema = TRUE]
    [] field.type = HDB_IPC_FIELD_RESULT_ROWS ->
         LET rows == DecodeRows(field.data, d.columns)
         IN [d EXCEPT !.ok = @ /\ rows.ok, !.rows = rows.items, !.hasRows = TRUE]
    [] OTHER -> d

Received(body) ==
  LET fields == Fields(body).items
      taken[i \in 0 .. Len(fields)] ==
        IF i = 0 THEN [ok |-> Fields(body).ok, hasSchema |-> FALSE, hasRows |-> FALSE,
                       columns |-> <<>>, rows |-> <<>>]
        ELSE TakeField(taken[i - 1], fields[i])
  IN taken[Len(fields)]

IsComplete(d) == d.ok /\ d.hasSchema /\ d.hasRows

-----------------------------------------------------------------------------
Init ==
  /\ page = NoPage
  /\ result = NoResult
  /\ currentRow = -1
  /\ visited = <<>>
  /\ told = Told("none", <<>>, "HDB_OK")

(* Mutant: the cursor starts on the first row.                             *)
FillResultOnFirstRow(columns, rows) ==
  /\ result' = [columns |-> columns, rows |-> rows]
  /\ currentRow' = IF rows = <<>> THEN -1 ELSE 0

FillResult(columns, rows) ==
  /\ result' = [columns |-> columns, rows |-> rows]
  /\ currentRow' = -1

(* The request, from the statement in the database to the handle.  Only    *)
(* one result is followed; the handles of others share nothing with it.    *)
HdbQueryExecute(table, limit, offset) ==
  LET answer   == Answer(table, limit, offset)
      response == HandleQueryExecute(answer)
      received == Received(response.body)
      code     == IF response.status # "HDB_OK" THEN response.status
                  ELSE IF IsComplete(received) THEN "HDB_OK" ELSE "HDB_ERR_BUFFER"
  IN /\ result = NoResult
     /\ page' = answer
     /\ told' = Told("Execute", <<>>, code)
     /\ IF code = "HDB_OK" THEN FillResult(received.columns, received.rows)
                           ELSE UNCHANGED <<result, currentRow>>
     /\ UNCHANGED visited

HdbResultFree ==
  /\ result # NoResult
  /\ page' = NoPage /\ result' = NoResult
  /\ currentRow' = -1 /\ visited' = <<>>
  /\ told' = Told("Free", <<>>, "HDB_OK")

(* Mutant: Next goes one row too far.                                      *)
HdbResultNextTooFar ==
  /\ result # NoResult
  /\ LET hasRow == currentRow + 1 <= Len(result.rows)
     IN /\ currentRow' = IF hasRow THEN currentRow + 1 ELSE currentRow
        /\ visited' = IF hasRow THEN Append(visited, currentRow' + 1) ELSE visited
        /\ told' = [Told("Next", <<>>, "HDB_OK") EXCEPT !.flag = hasRow]
  /\ UNCHANGED <<page, result>>

HdbResultNext ==
  /\ result # NoResult
  /\ LET hasRow == currentRow + 1 < Len(result.rows)
     IN /\ currentRow' = IF hasRow THEN currentRow + 1 ELSE currentRow
        /\ visited' = IF hasRow THEN Append(visited, currentRow' + 1) ELSE visited
        /\ told' = [Told("Next", <<>>, "HDB_OK") EXCEPT !.flag = hasRow]
  /\ UNCHANGED <<page, result>>

(* HdbDllGetCurrentCell.                                                   *)
OnRow == currentRow >= 0 /\ currentRow < Len(result.rows)

FoundColumns(name) == {f \in DOMAIN result.columns : result.columns[f].name = name}

CurrentCell(name) == result.rows[currentRow + 1][Min(FoundColumns(name))]
CurrentType(name) == result.columns[Min(FoundColumns(name))].fieldType

GetCurrentCell(name) ==
  IF ~OnRow THEN "HDB_ERR_NO_RECORD"
  ELSE IF FoundColumns(name) = {} THEN "HDB_ERR_FIELD_NOT_FOUND"
  ELSE "HDB_OK"

(* The checks every getter makes before it looks at the text.              *)
Readable(name, types) ==
  IF GetCurrentCell(name) # "HDB_OK" THEN GetCurrentCell(name)
  ELSE IF CurrentCell(name).isNull THEN "HDB_ERR_NULL_VALUE"
  ELSE IF CurrentType(name) \notin types THEN "HDB_ERR_TYPE_MISMATCH"
  ELSE "HDB_OK"

HdbResultIsNull(name) ==
  /\ result # NoResult
  /\ LET code == GetCurrentCell(name)
     IN told' = [Told("IsNull", name, code) EXCEPT
                   !.flag = code = "HDB_OK" /\ CurrentCell(name).isNull]
  /\ UNCHANGED <<page, result, currentRow, visited>>

(* HdbResultGetInt32 and HdbResultGetInt64 differ in types and range.      *)
GetInteger(call, name, types, max) ==
  /\ result # NoResult
  /\ LET access == Readable(name, types)
         text   == CurrentCell(name).value
         code   == IF access = "HDB_OK" /\ ~(IsNumber(text) /\ Number(text) <= max)
                   THEN "HDB_ERR_TYPE_MISMATCH" ELSE access
     IN told' = [Told(call, name, code) EXCEPT
                   !.number = IF code = "HDB_OK" THEN Number(text) ELSE 0]
  /\ UNCHANGED <<page, result, currentRow, visited>>

HdbResultGetInt32(name) == GetInteger("GetInt32", name, {HDB_FT_INT32}, MaxInt32)

HdbResultGetInt64(name) ==
  GetInteger("GetInt64", name, {HDB_FT_INT64, HDB_FT_TIMESTAMP_MS}, MaxInt64)

(* Mutant: room for one character more than required is demanded.          *)
CopiesOffByOne(text, size) == size > Len(text) + 1

(* HdbDllCopyText: the text and its terminating zero must fit.             *)
Copies(text, size) == size >= Len(text) + 1

HdbResultGetString(name, size) ==
  /\ result # NoResult
  /\ LET access == Readable(name, {HDB_FT_CHAR_ARRAY})
         text   == CurrentCell(name).value
         code   == IF access = "HDB_OK" /\ ~Copies(text, size) THEN "HDB_ERR_BUFFER" ELSE access
     IN told' = [Told("GetString", name, code) EXCEPT
                   !.size = size,
                   !.required = IF access = "HDB_OK" THEN Len(text) + 1 ELSE 0,
                   !.text = IF code = "HDB_OK" THEN text ELSE <<>>]
  /\ UNCHANGED <<page, result, currentRow, visited>>

(* The names a caller asks for: its own, and one it never selected.        *)
Unknown == <<99>>
AskedNames == Range(page.names) \cup {Unknown}

Next ==
  \/ \E table \in Tables, limit \in 0 .. MaxRows, offset \in Offsets :
       HdbQueryExecute(table, limit, offset)
  \/ HdbResultNext
  \/ HdbResultFree
  \/ \E name \in AskedNames :
       \/ HdbResultIsNull(name)
       \/ HdbResultGetInt32(name)
       \/ HdbResultGetInt64(name)
       \/ \E size \in BufferSizes : HdbResultGetString(name, size)

Spec == Init /\ [][Next]_vars

-----------------------------------------------------------------------------
(* PROPERTIES                                                              *)

(* The cursor stays between its start and the last row, and the handle has *)
(* rows of as many cells as it has columns.                                *)
TypeOK ==
  /\ currentRow \in -1 .. Len(result.rows) - 1
  /\ \A r \in DOMAIN result.rows : Len(result.rows[r]) = Len(result.columns)
  /\ \A f \in DOMAIN result.columns : result.columns[f].fieldType \in FieldTypes
  /\ \A i \in DOMAIN visited : visited[i] \in 1 .. Len(result.rows)

(* The cell of the database under the cursor, found by the caller's name;  *)
(* it is the first if the caller gave two columns one name.                *)
Stored(name) == page.rows[currentRow + 1][Min({f \in DOMAIN page.names : page.names[f] = name})]

Reads == {"IsNull", "GetInt32", "GetInt64", "GetString"}

(* The milliseconds since the epoch of a moment in local time.             *)
EpochMs(ms) == Mktime[ms \div 1000] * 1000 + (ms % 1000)

(* Whatever a getter hands out is what the database holds in the current   *)
(* row under the asked name: NULL and the empty text stay apart, a number  *)
(* is that number, a timestamp is its epoch milliseconds.                  *)
ReadsAreTrue ==
  told.call \in Reads /\ told.code = "HDB_OK"
  => LET cell == Stored(told.name)
     IN IF told.call = "IsNull" THEN told.flag = (cell.kind = "null")
        ELSE IF told.call = "GetString" THEN cell.kind = "text" /\ told.text = cell.text
        ELSE IF cell.kind = "moment" THEN told.number = EpochMs(cell.ms)
        ELSE cell.kind = "text" /\ told.number = Number(cell.text)

(* ysd_hdb_c.h:168: HdbResultGetInt64 gives an HDB_FT_TIMESTAMP_MS column  *)
(* as epoch milliseconds.                                                  *)
TimestampsAreEpochMs ==
  told.call = "GetInt64" /\ told.code = "HDB_OK" /\ Stored(told.name).kind = "moment"
  => told.number = EpochMs(Stored(told.name).ms)

(* When HdbResultNext says there is no further row, the caller has been on *)
(* every row of the page once and in order.                                *)
PageIsWhole ==
  told.call = "Next" /\ ~told.flag => visited = [r \in DOMAIN page.rows |-> r]

(* A page is refused as too large only if one of its texts or the whole of *)
(* it really is; no number of rows a limit may ask for is too many, for    *)
(* the encoder or the decoder.                                             *)
Total(counts) ==
  LET upTo[i \in 0 .. Len(counts)] == IF i = 0 THEN 0 ELSE upTo[i - 1] + counts[i]
  IN upTo[Len(counts)]

RowSize(p, r) ==
  1 + Total([f \in DOMAIN p.names |-> 2 + Len(CellOf(p.rows[r][f], p.types[f]).value)])

SizeOf(p) ==
  6 + Total([f \in DOMAIN p.names |-> 2 + Len(p.names[f])])
    + Total([r \in DOMAIN p.rows |-> RowSize(p, r)])

RefusedForSize ==
  told.call = "Execute" /\ told.code = "HDB_ERR_BUFFER"
  => \/ Len(page.names) > MaxColumns
     \/ \E f \in DOMAIN page.names : Len(page.names[f]) > MaxCell
     \/ \E r \in DOMAIN page.rows, f \in DOMAIN page.names :
          Len(CellOf(page.rows[r][f], page.types[f]).value) > MaxCell
     \/ SizeOf(page) > MaxBody

(* A caller told that its buffer is too small succeeds with the size it    *)
(* was told (the loop of HdbQueryBuilder.h:925-940).                       *)
StringAsAsked ==
  [][told.call = "GetString" /\ told.code = "HDB_ERR_BUFFER"
     /\ told'.call = "GetString" /\ told'.name = told.name /\ told'.size >= told.required
     => told'.code = "HDB_OK"]_vars
=============================================================================
