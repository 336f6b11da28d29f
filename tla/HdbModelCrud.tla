------------------------------ MODULE HdbModelCrud ------------------------------
(***************************************************************************)
(* CHdbModelCrud: one record at a time, read into and written from a C     *)
(* struct by the field definitions the generator made of the table.  A     *)
(* value is a sequence: <<n>> for a number, for a char array its bytes up  *)
(* to the first zero, which may be missing; a character is one byte, or    *)
(* LEAD and TAIL.  A time is <<ms>>: in a struct the milliseconds since    *)
(* the epoch, in the database those of the local time, without a zone.     *)
(*                                                                         *)
(* The server links CHdbModelCrud without calling it yet: the caller here  *)
(* gives it an HdbModelDef that holds a generated field array.             *)
(* Other clients write the same table.  SelectModelList is a stub in the   *)
(* code and is left out, and so are arguments that are NULL, microseconds, *)
(* and times that the C library or the text has no form for.               *)
(***************************************************************************)
EXTENDS HdbMetaCodegen

CONSTANTS
  Catalogs,   (* the databases the generator may find                      *)
  Numbers,    (* values of bigint columns                                  *)
  Moments,    (* times a caller fills in: milliseconds since the epoch     *)
  Stamps,     (* times in timestamp columns: milliseconds of local time    *)
  LocalTime,  (* localtime: the local second of a second since the epoch   *)
  Mktime,     (* mktime, of local seconds; -1 where it gives up            *)
  Texts,      (* byte sequences a client may store                         *)
  RowBound    (* bound: rows of the table                                  *)

LEAD == 100
TAIL == 101
NULL == <<-1, -1>>

ASSUME CrudAssumption ==
  /\ \A c \in Catalogs : IsCatalog(c)
  /\ Numbers \subseteq Int /\ Texts \subseteq Seq(Nat) /\ RowBound \in Nat

(* Any time zone; but mktime knows the local time of the epoch.            *)
ASSUME ClockAssumption ==
  /\ DOMAIN LocalTime \subseteq Int /\ DOMAIN Mktime \subseteq Int
  /\ \A second \in DOMAIN LocalTime : LocalTime[second] \in DOMAIN Mktime
  /\ \A second \in DOMAIN Mktime : Mktime[second] \in DOMAIN LocalTime \cup {-1}
  /\ 0 \in DOMAIN LocalTime /\ Mktime[LocalTime[0]] # -1
  /\ Moments \subseteq Int /\ \A ms \in Moments : ms \div 1000 \in DOMAIN LocalTime
  /\ Stamps \subseteq Int /\ \A ms \in Stamps : ms \div 1000 \in DOMAIN Mktime

VARIABLES
  catalog,    (* the database's tables                                     *)
  made,       (* what the generator made of them                           *)
  rows,       (* the rows of the table CRUD is used on                     *)
  model,      (* the caller's struct, <<>> before it has one               *)
  origin,     (* history: the row the struct was read from, <<>> for none  *)
  told        (* return code of the last call of CRUD                      *)

vars == <<catalog, made, rows, model, origin, told>>

(* CRUD works on the first table, with the fields of its dataset.          *)
Columns == (CHOOSE t \in catalog : \A u \in catalog : t = u \/ Before(t, u)).columns
def     == made.datasets[1].fields

Values(field) ==
  CASE field.type = HDB_FT_INT64        -> {<<n>> : n \in Numbers}
    [] field.type = HDB_FT_TIMESTAMP_MS -> {<<ms>> : ms \in Moments}
    [] field.type = HDB_FT_CHAR_ARRAY   -> {text \in Texts : Len(text) <= field.size}

(* The structs a caller may fill in.                                       *)
Models == {m \in [DOMAIN def -> UNION {Values(def[i]) : i \in DOMAIN def}] :
             \A i \in DOMAIN def : m[i] \in Values(def[i])}

(* Types; among them that no text read from the database runs over the     *)
(* array the generated struct has for it.                                  *)
TypeOK ==
  /\ catalog \in Catalogs
  /\ told \in {"none", "OK", "NO_RECORD", "DB_EXEC", "MODEL_DEF"}
  /\ \A row \in rows : Len(row) = Len(Columns)
  /\ model # <<>> =>
       /\ Len(model) = Len(def)
       /\ \A i \in DOMAIN def : def[i].type = HDB_FT_CHAR_ARRAY => Len(model[i]) <= def[i].size

-----------------------------------------------------------------------------
(* PostgreSQL: what a column takes, and the table's primary key.           *)

Characters(text) == Len(SelectSeq(text, LAMBDA b : b # TAIL))
WellCoded(text) ==
  \A i \in DOMAIN text :
    /\ text[i] = LEAD => i < Len(text) /\ text[i + 1] = TAIL
    /\ text[i] = TAIL => i > 1 /\ text[i - 1] = LEAD

Takes(column, value) ==
  column.type = "varchar" => WellCoded(value) /\ Characters(value) <= column.size

Cells(column) ==
  CASE column.type = "bigint"    -> {<<n>> : n \in Numbers}
    [] column.type = "timestamp" -> {<<ms>> : ms \in Stamps}
    [] column.type = "varchar"   -> {text \in Texts : Takes(column, text)}

Key(values) == [i \in {i \in DOMAIN Columns : Columns[i].pk} |-> values[i]]

-----------------------------------------------------------------------------
Cut(text, n) == SubSeq(text, 1, Min({n, Len(text)}))

FormatTimestampMs(ms) == LocalTime[ms \div 1000] * 1000 + (ms % 1000)

(* BuildFieldValue gives PostgreSQL a full char array without its zero     *)
(* too, and a time as local time with three digits.                        *)
BuildFieldValue(field, value) ==
  CASE field.type = HDB_FT_CHAR_ARRAY   -> Cut(value, field.size)
    [] field.type = HDB_FT_TIMESTAMP_MS -> <<FormatTimestampMs(value[1])>>
    [] field.type = HDB_FT_INT64        -> value

(* PostgreSQL prints a fraction without its trailing zeros, and            *)
(* HdbParseTimestampMs reads what is left as milliseconds.                 *)
ReadFraction(millis) ==
  IF millis % 100 = 0 THEN millis \div 100
  ELSE IF millis % 10 = 0 THEN millis \div 10
  ELSE millis

(* A local time mktime gives up on is read as 0, its fraction with it.     *)
ParseTimestampMs(ms) ==
  LET seconds == Mktime[ms \div 1000]
  IN IF seconds = -1 THEN 0 ELSE seconds * 1000 + ReadFraction(ms % 1000)

(* Mutants: a text is copied whole; room is left for two zeros.            *)
CopiedWhole(field, text)    == text
CopiedTooShort(field, text) == Cut(text, field.size - 2)

(* A text is cut to leave room for a terminating zero.                     *)
Copied(field, text) == Cut(text, field.size - 1)

(* SetFieldValue: NULL is read as an empty text, so as 0.                  *)
SetFieldValue(field, value) ==
  CASE field.type = HDB_FT_CHAR_ARRAY   -> IF value = NULL THEN <<>> ELSE Copied(field, value)
    [] field.type = HDB_FT_TIMESTAMP_MS -> IF value = NULL THEN <<0>>
                                           ELSE <<ParseTimestampMs(value[1])>>
    [] field.type = HDB_FT_INT64        -> IF value = NULL THEN <<0>> ELSE value

-----------------------------------------------------------------------------
Init ==
  /\ catalog \in Catalogs
  /\ made = [ok |-> FALSE, datasets |-> <<>>]
  /\ rows = {}
  /\ model = <<>>
  /\ origin = <<>>
  /\ told = "none"

(* A run of ysd_hdb_meta_codegen, and the server built with what it wrote. *)
Generate ==
  /\ ~made.ok
  /\ made' = ReadSchema(catalog)
  /\ UNCHANGED <<catalog, rows, model, origin, told>>

(* The caller fills in a struct, or changes a field but the key of the one *)
(* it has.                                                                 *)
Fill(m) ==
  /\ model' = m /\ origin' = <<>>
  /\ UNCHANGED <<catalog, made, rows, told>>

Change(i, value) ==
  /\ model # <<>>
  /\ model' = [model EXCEPT ![i] = value]
  /\ UNCHANGED <<catalog, made, rows, origin, told>>

(* Another client inserts or replaces a row; fields but the key may be     *)
(* NULL.                                                                   *)
OtherWrites(row) ==
  /\ rows' = {r \in rows : Key(r) # Key(row)} \cup {row}
  /\ Cardinality(rows') <= RowBound
  /\ UNCHANGED <<catalog, made, model, origin, told>>

Called == model # <<>> /\ UNCHANGED <<catalog, made>>

(* ValidateModelDef.                                                       *)
HasKey == \E i \in DOMAIN def : def[i].pk

Parameters == [i \in DOMAIN def |-> BuildFieldValue(def[i], model[i])]

(* The rows the WHERE of the key fields finds.                             *)
Found == {row \in rows : \A i \in DOMAIN def : def[i].pk => row[i] = Parameters[i]}

(* A statement may fail, and its answer may be lost after it was run.      *)
Runs(after, code) ==
  /\ UNCHANGED <<model, origin>>
  /\ \/ rows' = after /\ told' \in {code, "DB_EXEC"}
     \/ rows' = rows /\ told' = "DB_EXEC"

Rejected(code) == UNCHANGED <<rows, model, origin>> /\ told' = code

InsertModel ==
  /\ Called
  /\ Cardinality(rows) < RowBound
  /\ IF ~HasKey THEN Rejected("MODEL_DEF")
     ELSE IF \/ \E i \in DOMAIN Columns : ~Takes(Columns[i], Parameters[i])
             \/ \E row \in rows : Key(row) = Key(Parameters)
     THEN Rejected("DB_EXEC")
     ELSE Runs(rows \cup {Parameters}, "OK")

CodeFor(found) == IF Cardinality(found) = 1 THEN "OK" ELSE "NO_RECORD"

UpdateModel ==
  /\ Called
  /\ IF ~HasKey \/ \A i \in DOMAIN def : def[i].pk THEN Rejected("MODEL_DEF")
     ELSE IF \E i \in DOMAIN Columns : ~Takes(Columns[i], Parameters[i])
     THEN Rejected("DB_EXEC")
     ELSE Runs((rows \ Found) \cup
                 {[i \in DOMAIN def |-> IF def[i].pk THEN row[i] ELSE Parameters[i]] : row \in Found},
               CodeFor(Found))

DeleteModel ==
  /\ Called
  /\ IF ~HasKey THEN Rejected("MODEL_DEF")
     ELSE IF \E i \in DOMAIN def : def[i].pk /\ ~Takes(Columns[i], Parameters[i])
     THEN Rejected("DB_EXEC")
     ELSE Runs(rows \ Found, CodeFor(Found))

(* Into the struct that held the key.                                      *)
SelectModelByPk ==
  /\ Called
  /\ rows' = rows
  /\ \/ ~HasKey /\ Rejected("MODEL_DEF")
     \/ HasKey /\ Rejected("DB_EXEC")
     \/ HasKey /\ Found = {} /\ told' = "OK" /\ UNCHANGED <<model, origin>>
     \/ /\ HasKey
        /\ \E row \in Found :
             /\ model' = [i \in DOMAIN def |-> SetFieldValue(def[i], row[i])]
             /\ origin' = row
        /\ told' = "OK"

Rows == {row \in [DOMAIN Columns -> UNION {Cells(Columns[i]) : i \in DOMAIN Columns} \cup {NULL}] :
           \A i \in DOMAIN Columns :
             row[i] \in Cells(Columns[i]) \cup (IF Columns[i].pk THEN {} ELSE {NULL})}

Next ==
  \/ Generate
  \/ /\ made.ok
     /\ \/ \E m \in Models : Fill(m)
        \/ \E i \in DOMAIN def : ~def[i].pk /\ \E v \in Values(def[i]) : Change(i, v)
        \/ \E row \in Rows : OtherWrites(row)
  \/ InsertModel \/ UpdateModel \/ DeleteModel \/ SelectModelByPk

Spec == Init /\ [][Next]_vars

-----------------------------------------------------------------------------
(* The generator's metadata describes the database it was run on, table by *)
(* table, and the server's registry takes every dataset of it.             *)
GeneratedDescribes ==
  made.ok => /\ Describes(made.datasets, catalog)
             /\ \A i \in DOMAIN made.datasets : ValidateDataset(made.datasets[i])

(* A call of CRUD changes the row of the model's key and no other, by the  *)
(* key the table really has, whatever it tells the caller; and it tells OK *)
(* only if it has written what was asked, NO_RECORD only if nothing.       *)
WritesOneRow ==
  [][LET changed == (rows \ rows') \cup (rows' \ rows)
     IN /\ \A row \in changed :
             InsertModel \/ UpdateModel \/ DeleteModel => Key(row) = Key(Parameters)
        /\ told' = "NO_RECORD" /\ (UpdateModel \/ DeleteModel) => changed = {}
        /\ told' = "OK" /\ DeleteModel => Cardinality(changed) = 1
        /\ told' = "OK" /\ (InsertModel \/ UpdateModel) => Parameters \in rows']_vars

(* Local times that come back from the struct as they were read: mktime    *)
(* takes them for a second whose local time they are, which it does not    *)
(* where the clock skips them, and the fraction does not end in a zero.    *)
StampSurvives(ms) ==
  LET seconds == Mktime[ms \div 1000]
  IN /\ seconds # -1 /\ LocalTime[seconds] = ms \div 1000
     /\ ms % 1000 = 0 \/ ms % 10 # 0

(* Values that come back from the struct as they were read.                *)
Survives(field, value) ==
  /\ value # NULL
  /\ field.type = HDB_FT_CHAR_ARRAY => Len(value) < field.size
  /\ field.type = HDB_FT_TIMESTAMP_MS => StampSurvives(value[1])

(* A caller that reads a record, changes some of its fields and writes it  *)
(* back hits the record it read, and of the fields it did not change       *)
(* exactly those keep their value that survive the struct: no NULL, room   *)
(* for the terminating zero, a local time that exists and that mktime      *)
(* takes, no fraction that ends in zero.                                   *)
ReadThenWriteKeeps ==
  [][told' = "OK" /\ origin \in rows /\ UpdateModel
     /\ (\A i \in DOMAIN def : def[i].pk => Survives(def[i], origin[i])) =>
       \E row \in rows' :
         /\ Key(row) = Key(origin)
         /\ \A i \in DOMAIN def :
              model[i] = SetFieldValue(def[i], origin[i]) =>
                (row[i] = origin[i] <=> Survives(def[i], origin[i]))]_vars

=============================================================================
