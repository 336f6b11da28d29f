----------------------------- MODULE HdbMetaCodegen -----------------------------
(***************************************************************************)
(* The metadata generator: what it makes of a database's hdb_* tables, and *)
(* what the server's registry asks of the result.  A table's name is a     *)
(* base name (a number here, the text between "hdb_" and the suffix) and a *)
(* day, NoDay for a table without a suffix of eight digits.  Writing the   *)
(* C++ files and finding the project root are left out.                    *)
(***************************************************************************)
EXTENDS Integers, Sequences, SequencesExt

HDB_FT_INT64        == 2
HDB_FT_CHAR_ARRAY   == 5
HDB_FT_TIMESTAMP_MS == 6

NoDay == 0

(* HdbMapColumnType: PostgreSQL's types, by the field types they become.   *)
FieldTypeOf ==
  [bigint |-> HDB_FT_INT64, varchar |-> HDB_FT_CHAR_ARRAY, timestamp |-> HDB_FT_TIMESTAMP_MS]

(* Tables as the generator reads them: a name is used once, and a table    *)
(* without columns is not among the rows of information_schema.columns.    *)
ColumnRecords == [name : STRING, type : STRING, size : Nat, pk : BOOLEAN]
IsCatalog(catalog) ==
  /\ IsFiniteSet(catalog)
  /\ \A t \in catalog : /\ t.base \in Nat /\ t.day \in Nat
                        /\ t.columns \in Seq(ColumnRecords) /\ t.columns # <<>>
  /\ \A t, u \in catalog : t.base = u.base /\ t.day = u.day => t = u

Mappable(column) ==
  /\ column.type \in DOMAIN FieldTypeOf
  /\ column.type = "varchar" => column.size > 0

(* Mutant: only the first column of a primary key is marked.               *)
FieldsMarkFirst(columns) ==
  [i \in DOMAIN columns |->
     [name |-> columns[i].name, type |-> FieldTypeOf[columns[i].type],
      size |-> columns[i].size,
      pk |-> columns[i].pk /\ \A j \in 1 .. i - 1 : ~columns[j].pk]]

Fields(columns) ==
  [i \in DOMAIN columns |->
     [name |-> columns[i].name, type |-> FieldTypeOf[columns[i].type],
      size |-> columns[i].size, pk |-> columns[i].pk]]

(* HdbSelectRouteField: occur_time if it is a time, else the first time.   *)
TimeFields(fields) == {i \in DOMAIN fields : fields[i].type = HDB_FT_TIMESTAMP_MS}
RouteField(fields) ==
  LET times == TimeFields(fields)
      named == {i \in times : fields[i].name = "occur_time"}
  IN fields[Min(IF named # {} THEN named ELSE times)].name

IsDayShardTable(table) == table.day # NoDay

ShardOf(table) == IF IsDayShardTable(table) THEN "DAY" ELSE "NONE"

NewDataset(table) ==
  LET fields == Fields(table.columns)
  IN [name |-> table.base, shard |-> ShardOf(table), fields |-> fields, tables |-> {table.day},
      route |-> IF ShardOf(table) = "DAY" THEN RouteField(fields) ELSE ""]

FindDataset(datasets, name) == SelectInSeq(datasets, LAMBDA d : d.name = name)

Refused(datasets) == [ok |-> FALSE, datasets |-> datasets]

(* Mutant: the columns of a further day table are not compared.            *)
AddTableUncompared(read, table) ==
  LET i == FindDataset(read.datasets, table.base)
  IN IF ~read.ok THEN read
     ELSE IF i = 0
     THEN IF IsDayShardTable(table) /\ TimeFields(Fields(table.columns)) = {}
          THEN Refused(read.datasets)
          ELSE [read EXCEPT !.datasets = Append(@, NewDataset(table))]
     ELSE IF read.datasets[i].shard # ShardOf(table) THEN Refused(read.datasets)
     ELSE [read EXCEPT !.datasets[i].tables = @ \cup {table.day}]

(* One table: a dataset of its own, or one more day of the dataset it      *)
(* belongs to, which must have the same columns.                           *)
AddTable(read, table) ==
  LET i == FindDataset(read.datasets, table.base)
  IN IF ~read.ok THEN read
     ELSE IF i = 0
     THEN IF IsDayShardTable(table) /\ TimeFields(Fields(table.columns)) = {}
          THEN Refused(read.datasets)
          ELSE [read EXCEPT !.datasets = Append(@, NewDataset(table))]
     ELSE IF \/ read.datasets[i].shard # ShardOf(table)
             \/ read.datasets[i].fields # Fields(table.columns)
     THEN Refused(read.datasets)
     ELSE [read EXCEPT !.datasets[i].tables = @ \cup {table.day}]

(* The order of the map the columns were collected in: by table name.      *)
Before(t, u) == t.base < u.base \/ (t.base = u.base /\ t.day < u.day)

InOrder(catalog) ==
  CHOOSE tables \in [1 .. Cardinality(catalog) -> catalog] :
    \A i, j \in 1 .. Cardinality(catalog) : i < j => Before(tables[i], tables[j])

(* HdbReadSchema.                                                          *)
ReadSchema(catalog) ==
  IF \/ catalog = {}
     \/ \E t \in catalog : \E i \in DOMAIN t.columns : ~Mappable(t.columns[i])
  THEN Refused(<<>>)
  ELSE LET tables == InOrder(catalog)
           read[n \in 0 .. Cardinality(catalog)] ==
             IF n = 0 THEN [ok |-> TRUE, datasets |-> <<>>] ELSE AddTable(read[n - 1], tables[n])
       IN read[Cardinality(catalog)]

-----------------------------------------------------------------------------
(* CHdbDatasetRegistry.                                                    *)

FindField(dataset, name) == SelectInSeq(dataset.fields, LAMBDA f : f.name = name)

ValidateDataset(dataset) ==
  /\ dataset.fields # <<>>
  /\ dataset.shard = "DAY" => FindField(dataset, dataset.route) # 0

-----------------------------------------------------------------------------
(* What metadata is for: each table is described by one dataset, by its    *)
(* own columns and its own key, nothing else is, and every day dataset has *)
(* a time by which each of its tables can be routed.                       *)
Describes(datasets, catalog) ==
  /\ \A t \in catalog : \E i \in DOMAIN datasets :
       /\ datasets[i].name = t.base /\ t.day \in datasets[i].tables
       /\ Len(datasets[i].fields) = Len(t.columns)
       /\ \A c \in DOMAIN t.columns :
            LET f == datasets[i].fields[c]
            IN /\ f.name = t.columns[c].name /\ f.pk = t.columns[c].pk
               /\ f.type = FieldTypeOf[t.columns[c].type] /\ f.size = t.columns[c].size
       /\ t.day # NoDay => \E c \in DOMAIN t.columns :
            t.columns[c].name = datasets[i].route /\ t.columns[c].type = "timestamp"
  /\ \A i \in DOMAIN datasets : \A day \in datasets[i].tables :
       \E t \in catalog : t.base = datasets[i].name /\ t.day = day
  /\ \A i, j \in DOMAIN datasets : datasets[i].name = datasets[j].name => i = j

=============================================================================
