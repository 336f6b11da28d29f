-------------------------- MODULE HdbModelCrudProofs --------------------------
(***************************************************************************)
(* Proofs about HdbMetaCodegen and HdbModelCrud, for any database, values  *)
(* and rows: the generated metadata describe the tables, and the calls of  *)
(* CHdbModelCrud made by them touch one row.                               *)
(***************************************************************************)
EXTENDS HdbModelCrud, FiniteSetTheorems, SequenceTheorems, TLAPS

-----------------------------------------------------------------------------
(* The order of the tables.                                                *)

(* A set of naturals has a least element.                                  *)
LEMMA LeastNatural ==
  ASSUME NEW S, S \subseteq Nat, S # {}
  PROVE  \E x \in S : \A y \in S : x <= y
<1>1. PICK x \in S : \A y \in S : ~(<<y, x>> \in OpToRel(<, Nat))
  BY NatLessThanWellFounded, WFMin
<1>2. \A y \in S : ~(y < x)
  BY <1>1 DEF OpToRel
<1>. QED  BY <1>2

(* Min is the least element.                                               *)
LEMMA MinNatural ==
  ASSUME NEW S, S \subseteq Nat, S # {}
  PROVE  Min(S) \in S /\ \A y \in S : Min(S) <= y
BY LeastNatural DEF Min

(* Of some tables of a database one is before the others.                  *)
LEMMA FirstOfSome ==
  ASSUME NEW C, IsCatalog(C), NEW S, S \subseteq C, S # {}
  PROVE  \E t \in S : \A u \in S : t = u \/ Before(t, u)
<1>1. \A t \in S : t.base \in Nat /\ t.day \in Nat
  BY DEF IsCatalog
<1>2. PICK a \in S : \A u \in S : a.base <= u.base
  <2>. DEFINE B == {t.base : t \in S}
  <2>1. B \subseteq Nat /\ B # {}
    BY <1>1
  <2>2. PICK b \in B : \A c \in B : b <= c
    BY <2>1, LeastNatural
  <2>. QED  BY <2>2
<1>3. PICK t \in S : t.base = a.base /\ \A u \in S : u.base = a.base => t.day <= u.day
  <2>. DEFINE T == {u \in S : u.base = a.base}
              D == {u.day : u \in T}
  <2>1. D \subseteq Nat /\ D # {}
    BY <1>1
  <2>2. PICK d \in D : \A e \in D : d <= e
    BY <2>1, LeastNatural
  <2>3. PICK t \in T : t.day = d
    BY <2>2
  <2>. QED  BY <2>2, <2>3
<1>4. ASSUME NEW u \in S PROVE t = u \/ Before(t, u)
  <2>1. CASE u.base = a.base
    BY <1>1, <1>3, <2>1 DEF Before, IsCatalog
  <2>2. CASE u.base # a.base
    BY <1>1, <1>2, <1>3, <2>2 DEF Before
  <2>. QED  BY <2>1, <2>2
<1>. QED  BY <1>4

Ordered(s, n) == \A i, j \in 1 .. n : i < j => Before(s[i], s[j])

(* The tables of a database can be put in order.                           *)
LEMMA OrderExists ==
  ASSUME NEW C, IsCatalog(C)
  PROVE  \E s \in [1 .. Cardinality(C) -> C] : Ordered(s, Cardinality(C))
<1>. DEFINE bad == {n \in Nat : \E S \in SUBSET C :
                      Cardinality(S) = n /\ ~\E s \in [1 .. n -> S] : Ordered(s, n)}
<1>1. IsFiniteSet(C) /\ Cardinality(C) \in Nat
  BY FS_CardinalityType DEF IsCatalog
<1>2. SUFFICES ASSUME bad # {} PROVE FALSE
  BY <1>1
<1>3. PICK n \in bad : \A k \in bad : n <= k
  <2>1. bad \subseteq Nat
    OBVIOUS
  <2>. HIDE DEF bad
  <2>. QED  BY <1>2, <2>1, LeastNatural
<1>4. PICK S \in SUBSET C : Cardinality(S) = n /\ ~\E s \in [1 .. n -> S] : Ordered(s, n)
  BY <1>3
<1>5. n \in Nat /\ IsFiniteSet(S)
  BY <1>1, <1>3, FS_Subset
<1>6. CASE n = 0
  <2>1. [i \in 1 .. 0 |-> 0] \in [1 .. 0 -> S]
    OBVIOUS
  <2>2. \A s : Ordered(s, 0)
    BY DEF Ordered
  <2>. QED  BY <1>4, <1>6, <2>1, <2>2
<1>7. CASE n # 0
  <2>1. S # {}
    BY <1>4, <1>7, FS_EmptySet
  <2>2. PICK x \in S : \A u \in S : x = u \/ Before(x, u)
    BY <2>1, FirstOfSome
  <2>. DEFINE R == S \ {x}
  <2>3. R \in SUBSET C /\ Cardinality(R) = n - 1 /\ n - 1 \in Nat
    <3>1. Cardinality(R) = n - 1
      BY <1>4, <1>5, FS_RemoveElement
    <3>. QED  BY <1>5, <1>7, <3>1
  <2>4. n - 1 \notin bad
    BY <1>3, <1>5, <2>3
  <2>5. PICK r \in [1 .. n - 1 -> R] : Ordered(r, n - 1)
    BY <2>3, <2>4
  <2>. DEFINE s == [i \in 1 .. n |-> IF i = 1 THEN x ELSE r[i - 1]]
  <2>6. \A i \in 1 .. n : i # 1 => i - 1 \in 1 .. n - 1
    BY <1>5
  <2>7. s \in [1 .. n -> S]
    BY <2>5, <2>6
  <2>8. ASSUME NEW i \in 1 .. n, NEW j \in 1 .. n, i < j PROVE Before(s[i], s[j])
    <3>1. j # 1 /\ j - 1 \in 1 .. n - 1 /\ s[j] = r[j - 1] /\ s[j] \in R
      BY <1>5, <2>5, <2>6, <2>8
    <3>2. CASE i = 1
      BY <2>2, <3>1, <3>2
    <3>3. CASE i # 1
      <4>1. i - 1 \in 1 .. n - 1 /\ i - 1 < j - 1 /\ s[i] = r[i - 1]
        BY <1>5, <2>6, <2>8, <3>3
      <4>. QED  BY <2>5, <3>1, <4>1 DEF Ordered
    <3>. QED  BY <3>2, <3>3
  <2>. QED  BY <1>4, <2>7, <2>8 DEF Ordered
<1>. QED  BY <1>6, <1>7

(* InOrder has every table once and in order.                              *)
LEMMA TablesInOrder ==
  ASSUME NEW C, IsCatalog(C)
  PROVE  /\ Cardinality(C) \in Nat
         /\ InOrder(C) \in [1 .. Cardinality(C) -> C]
         /\ Ordered(InOrder(C), Cardinality(C))
         /\ \A t \in C : \E i \in 1 .. Cardinality(C) : InOrder(C)[i] = t
<1>. DEFINE n == Cardinality(C)
            s == InOrder(C)
<1>1. IsFiniteSet(C) /\ n \in Nat
  BY FS_CardinalityType DEF IsCatalog
<1>2. s \in [1 .. n -> C] /\ Ordered(s, n)
  BY OrderExists DEF InOrder, Ordered
<1>. HIDE DEF s, n
<1>3. \A i, j \in 1 .. n : i < j => s[i] # s[j]
  <2>1. \A t \in C : ~Before(t, t)
    BY DEF Before, IsCatalog
  <2>. QED  BY <1>2, <2>1 DEF Ordered
<1>4. s \in Injection(1 .. n, C)
  BY <1>1, <1>2, <1>3 DEF Injection, IsInjective
<1>5. Cardinality(1 .. n) = n
  BY <1>1, FS_Interval
<1>6. s \in Surjection(1 .. n, C)
  BY <1>1, <1>4, <1>5, FS_Injection DEF n
<1>. QED  BY <1>1, <1>2, <1>6 DEF Surjection, s, n

(* The first of them is the one CRUD works on.                             *)
LEMMA FirstTable ==
  ASSUME NEW C, IsCatalog(C), C # {}
  PROVE  /\ Cardinality(C) >= 1
         /\ InOrder(C)[1] = CHOOSE t \in C : \A u \in C : t = u \/ Before(t, u)
<1>. DEFINE n == Cardinality(C)
            s == InOrder(C)
<1>1. /\ n \in Nat /\ s \in [1 .. n -> C] /\ Ordered(s, n)
      /\ \A t \in C : \E i \in 1 .. n : s[i] = t
  BY TablesInOrder
<1>. HIDE DEF s, n
<1>2. n >= 1 /\ 1 \in 1 .. n
  BY <1>1
<1>3. ASSUME NEW u \in C PROVE s[1] = u \/ Before(s[1], u)
  <2>1. PICK i \in 1 .. n : s[i] = u
    BY <1>1
  <2>. QED  BY <1>1, <1>2, <2>1 DEF Ordered
<1>4. \A t, u \in C : Before(t, u) => ~Before(u, t)
  BY DEF Before, IsCatalog
<1>5. ASSUME NEW t \in C, \A u \in C : t = u \/ Before(t, u) PROVE t = s[1]
  BY <1>1, <1>2, <1>3, <1>4, <1>5
<1>. QED  BY <1>1, <1>2, <1>3, <1>5 DEF s, n

-----------------------------------------------------------------------------
(* Columns and fields.                                                     *)

FieldRecords == [name : STRING, type : {HDB_FT_INT64, HDB_FT_CHAR_ARRAY, HDB_FT_TIMESTAMP_MS},
                 size : Nat, pk : BOOLEAN]

AllMappable(columns) == \A i \in DOMAIN columns : Mappable(columns[i])

(* The fields of a table are its columns, in their order.                  *)
LEMMA FieldsAreColumns ==
  ASSUME NEW columns \in Seq(ColumnRecords), columns # <<>>, AllMappable(columns)
  PROVE  /\ Fields(columns) \in Seq(FieldRecords) /\ Fields(columns) # <<>>
         /\ Len(columns) \in Nat /\ Len(Fields(columns)) = Len(columns)
         /\ DOMAIN columns = 1 .. Len(columns)
         /\ DOMAIN Fields(columns) = DOMAIN columns
         /\ \A i \in DOMAIN columns :
              LET f == Fields(columns)[i]
              IN /\ f.name = columns[i].name /\ f.pk = columns[i].pk /\ f.size = columns[i].size
                 /\ columns[i].type \in {"bigint", "varchar", "timestamp"}
                 /\ f.type = FieldTypeOf[columns[i].type]
                 /\ f.type = HDB_FT_INT64 <=> columns[i].type = "bigint"
                 /\ f.type = HDB_FT_CHAR_ARRAY <=> columns[i].type = "varchar"
                 /\ f.type = HDB_FT_TIMESTAMP_MS <=> columns[i].type = "timestamp"
                 /\ f.type = HDB_FT_CHAR_ARRAY => f.size > 0
<1>. DEFINE n == Len(columns)
            fields == Fields(columns)
<1>1. n \in Nat /\ DOMAIN columns = 1 .. n /\ \A i \in 1 .. n : columns[i] \in ColumnRecords
  BY LenProperties, ElementOfSeq
<1>2. fields = [i \in 1 .. n |->
                  [name |-> columns[i].name, type |-> FieldTypeOf[columns[i].type],
                   size |-> columns[i].size, pk |-> columns[i].pk]]
  BY <1>1 DEF Fields
<1>3. /\ DOMAIN FieldTypeOf = {"bigint", "varchar", "timestamp"}
      /\ FieldTypeOf["bigint"] = 2 /\ FieldTypeOf["varchar"] = 5 /\ FieldTypeOf["timestamp"] = 6
  BY DEF FieldTypeOf, HDB_FT_INT64, HDB_FT_CHAR_ARRAY, HDB_FT_TIMESTAMP_MS
<1>4. ASSUME NEW i \in 1 .. n
      PROVE  /\ columns[i].type \in {"bigint", "varchar", "timestamp"}
             /\ columns[i].type = "varchar" => columns[i].size > 0
  BY <1>1, <1>3 DEF AllMappable, Mappable
<1>. HIDE DEF fields, n
<1>5. ASSUME NEW i \in 1 .. n
      PROVE  /\ fields[i].name = columns[i].name /\ fields[i].pk = columns[i].pk
             /\ fields[i].size = columns[i].size
             /\ fields[i].type = FieldTypeOf[columns[i].type]
             /\ fields[i] \in FieldRecords
  <2>. DEFINE t == FieldTypeOf[columns[i].type]
  <2>1. t \in {2, 5, 6}
    BY <1>3, <1>4
  <2>2. fields[i] = [name |-> columns[i].name, type |-> t, size |-> columns[i].size,
                     pk |-> columns[i].pk]
    BY <1>2
  <2>. HIDE DEF t
  <2>3. fields[i].type = t
    BY <2>2
  <2>. QED  BY <1>1, <2>1, <2>2 DEF t, FieldRecords, ColumnRecords, HDB_FT_INT64, HDB_FT_CHAR_ARRAY,
                                    HDB_FT_TIMESTAMP_MS
<1>6. DOMAIN fields = 1 .. n
  BY <1>2
<1>7. fields \in Seq(FieldRecords) /\ Len(fields) = n
  <2>1. fields \in [1 .. n -> FieldRecords]
    BY <1>2, <1>5, <1>6
  <2>. QED  BY <1>1, <2>1, LenProperties
<1>8. n # 0
  BY <1>1, EmptySeq DEF n
<1>9. fields # <<>>
  BY <1>7, <1>8
<1>10. ASSUME NEW i \in 1 .. n
       PROVE  /\ fields[i].type = HDB_FT_INT64 <=> columns[i].type = "bigint"
              /\ fields[i].type = HDB_FT_CHAR_ARRAY <=> columns[i].type = "varchar"
              /\ fields[i].type = HDB_FT_TIMESTAMP_MS <=> columns[i].type = "timestamp"
              /\ fields[i].type = HDB_FT_CHAR_ARRAY => fields[i].size > 0
  BY <1>3, <1>4, <1>5 DEF HDB_FT_INT64, HDB_FT_CHAR_ARRAY, HDB_FT_TIMESTAMP_MS
<1>. QED  BY <1>1, <1>4, <1>5, <1>6, <1>7, <1>9, <1>10 DEF fields, n

(* A dataset with a time has one as its route field.                       *)
LEMMA RouteIsTime ==
  ASSUME NEW fields \in Seq(FieldRecords), TimeFields(fields) # {}
  PROVE  \E c \in DOMAIN fields : /\ fields[c].name = RouteField(fields)
                                  /\ fields[c].type = HDB_FT_TIMESTAMP_MS
<1>. DEFINE times == TimeFields(fields)
            named == {i \in times : fields[i].name = "occur_time"}
            of    == IF named # {} THEN named ELSE times
<1>1. times \subseteq Nat /\ times \subseteq DOMAIN fields
      /\ \A c \in times : fields[c].type = HDB_FT_TIMESTAMP_MS
  BY LenProperties DEF TimeFields
<1>2. of \subseteq times /\ of # {}
  OBVIOUS
<1>3. RouteField(fields) = fields[Min(of)].name
  BY DEF RouteField
<1>. HIDE DEF of, times
<1>4. Min(of) \in of
  BY <1>1, <1>2, MinNatural
<1>. QED  BY <1>1, <1>2, <1>3, <1>4

-----------------------------------------------------------------------------
(* The datasets made of some tables.                                       *)

DatasetRecords == [name : Nat, shard : {"DAY", "NONE"}, fields : Seq(FieldRecords),
                   tables : SUBSET Nat, route : STRING \cup {""}]

GoodDataset(d) ==
  /\ d.fields # <<>>
  /\ d.shard = "DAY" => \E c \in DOMAIN d.fields : /\ d.fields[c].name = d.route
                                                   /\ d.fields[c].type = HDB_FT_TIMESTAMP_MS

(* Dataset d has table t.                                                  *)
HasTable(d, t) ==
  d.name = t.base /\ t.day \in d.tables /\ d.shard = ShardOf(t) /\ d.fields = Fields(t.columns)

GoodDatasets(datasets, tables) ==
  /\ datasets \in Seq(DatasetRecords)
  /\ \A i \in DOMAIN datasets : GoodDataset(datasets[i])
  /\ \A t \in tables : \E i \in DOMAIN datasets : HasTable(datasets[i], t)
  /\ \A i \in DOMAIN datasets : \A day \in datasets[i].tables :
       \E t \in tables : t.base = datasets[i].name /\ t.day = day
  /\ \A i, j \in DOMAIN datasets : datasets[i].name = datasets[j].name => i = j

(* FindDataset finds the dataset of the name, 0 without one.               *)
LEMMA FoundDataset ==
  ASSUME NEW datasets \in Seq(DatasetRecords), NEW name
  PROVE  IF \E i \in DOMAIN datasets : datasets[i].name = name
         THEN /\ FindDataset(datasets, name) \in DOMAIN datasets
              /\ datasets[FindDataset(datasets, name)].name = name
              /\ FindDataset(datasets, name) # 0
         ELSE FindDataset(datasets, name) = 0
<1>. DEFINE I == {i \in 1 .. Len(datasets) : datasets[i].name = name}
<1>1. FindDataset(datasets, name) = IF I # {} THEN Min(I) ELSE 0
  BY DEF FindDataset, SelectInSeq
<1>2. DOMAIN datasets = 1 .. Len(datasets) /\ Len(datasets) \in Nat
  BY LenProperties
<1>3. I \subseteq Nat
  BY <1>2
<1>4. I # {} => Min(I) \in I
  <2>. HIDE DEF I
  <2>. QED  BY <1>3, MinNatural
<1>. QED  BY <1>1, <1>2, <1>4

(* No dataset has the name of table t; the datasets of D stay in E.        *)
Unnamed(D, t) == \A i \in DOMAIN D : D[i].name # t.base
Stays(D, E)   == \A i \in DOMAIN D : E[i] = D[i]

(* A dataset of its own for a table.                                       *)
LEMMA FirstOfDataset ==
  ASSUME NEW D, NEW T, GoodDatasets(D, T), NEW C, IsCatalog(C), NEW t \in C, AllMappable(t.columns),
         Unnamed(D, t),
         IsDayShardTable(t) => TimeFields(Fields(t.columns)) # {},
         NEW E, E = Append(D, NewDataset(t))
  PROVE  /\ GoodDatasets(E, T \cup {t})
         /\ HasTable(NewDataset(t), t)
         /\ Stays(D, E)
<1>. DEFINE d == NewDataset(t)
            f == Fields(t.columns)
            n == Len(D)
<1>1. /\ D \in Seq(DatasetRecords) /\ n \in Nat /\ DOMAIN D = 1 .. n
      /\ t.base \in Nat /\ t.day \in Nat
  BY LenProperties DEF GoodDatasets, IsCatalog
<1>2. f \in Seq(FieldRecords) /\ f # <<>>
  BY FieldsAreColumns DEF IsCatalog
<1>3. d = [name |-> t.base, shard |-> ShardOf(t), fields |-> f, tables |-> {t.day},
           route |-> IF ShardOf(t) = "DAY" THEN RouteField(f) ELSE ""]
  BY DEF NewDataset
<1>4. ShardOf(t) \in {"DAY", "NONE"} /\ (ShardOf(t) = "DAY" <=> IsDayShardTable(t))
  BY DEF ShardOf
<1>5. ShardOf(t) = "DAY" => \E c \in DOMAIN f : /\ f[c].name = RouteField(f)
                                                /\ f[c].type = HDB_FT_TIMESTAMP_MS
  BY <1>2, <1>4, RouteIsTime
<1>. DEFINE route == IF ShardOf(t) = "DAY" THEN RouteField(f) ELSE ""
<1>. HIDE DEF f, n
<1>6. route \in STRING \cup {""}
  <2>1. \A c \in DOMAIN f : f[c].name \in STRING
    <3>1. \A c \in DOMAIN f : f[c] \in FieldRecords
      BY <1>2, ElementOfSeq, LenProperties
    <3>. QED  BY <3>1 DEF FieldRecords
  <2>2. CASE ShardOf(t) = "DAY"
    BY <1>5, <2>1, <2>2
  <2>3. CASE ShardOf(t) # "DAY"
    BY <2>3
  <2>. QED  BY <2>2, <2>3
<1>7. /\ d.name = t.base /\ d.shard = ShardOf(t) /\ d.fields = f /\ d.tables = {t.day}
      /\ ShardOf(t) = "DAY" => d.route = RouteField(f)
  <2>. HIDE DEF d
  <2>. QED  BY <1>3
<1>8. d \in DatasetRecords
  <2>. HIDE DEF d, route
  <2>1. d = [name |-> t.base, shard |-> ShardOf(t), fields |-> f, tables |-> {t.day},
             route |-> route]
    BY <1>3 DEF route
  <2>. QED  BY <1>1, <1>2, <1>4, <1>6, <2>1 DEF DatasetRecords
<1>9. GoodDataset(d) /\ HasTable(d, t)
  <2>1. GoodDataset(d)
    BY <1>2, <1>5, <1>7 DEF GoodDataset
  <2>. QED  BY <1>7, <2>1 DEF HasTable, f
<1>0. E = Append(D, d)
  OBVIOUS
<1>. HIDE DEF d
<1>10. /\ E \in Seq(DatasetRecords) /\ Len(E) = n + 1 /\ DOMAIN E = 1 .. n + 1 /\ E[n + 1] = d
       /\ \A i \in 1 .. n : E[i] = D[i]
  BY <1>0, <1>1, <1>8, AppendProperties, LenProperties DEF n
<1>11. \A i \in DOMAIN E : i \in DOMAIN D \/ i = n + 1
  BY <1>1, <1>10
<1>12. DOMAIN D \subseteq DOMAIN E /\ n + 1 \in DOMAIN E
  BY <1>1, <1>10
<1>13. \A i \in DOMAIN E : GoodDataset(E[i])
  BY <1>1, <1>9, <1>10, <1>11 DEF GoodDatasets
<1>14. \A u \in T \cup {t} : \E i \in DOMAIN E : HasTable(E[i], u)
  BY <1>1, <1>9, <1>10, <1>12 DEF GoodDatasets
<1>15. \A i \in DOMAIN E : \A day \in E[i].tables :
         \E u \in T \cup {t} : u.base = E[i].name /\ u.day = day
  <2>1. SUFFICES ASSUME NEW i \in DOMAIN E, NEW day \in E[i].tables
                 PROVE  \E u \in T \cup {t} : u.base = E[i].name /\ u.day = day
    OBVIOUS
  <2>2. CASE i \in DOMAIN D
    BY <1>1, <1>10, <2>1, <2>2 DEF GoodDatasets
  <2>3. CASE i = n + 1
    BY <1>7, <1>10, <2>1, <2>3
  <2>. QED  BY <1>11, <2>2, <2>3
<1>16. \A i, j \in DOMAIN E : E[i].name = E[j].name => i = j
  <2>1. \A i, j \in DOMAIN D : E[i].name = E[j].name => i = j
    BY <1>1, <1>10 DEF GoodDatasets
  <2>2. \A i \in DOMAIN D : E[i].name # E[n + 1].name
    BY <1>1, <1>7, <1>10 DEF Unnamed
  <2>. QED  BY <1>11, <2>1, <2>2
<1>. QED  BY <1>1, <1>9, <1>10, <1>13, <1>14, <1>15, <1>16 DEF GoodDatasets, Stays, d

(* One more table for a dataset.                                           *)
LEMMA FurtherOfDataset ==
  ASSUME NEW D, NEW T, GoodDatasets(D, T), NEW C, IsCatalog(C), NEW t \in C,
         NEW i \in DOMAIN D, D[i].name = t.base, D[i].shard = ShardOf(t),
         D[i].fields = Fields(t.columns),
         NEW E, E = [D EXCEPT ![i].tables = @ \cup {t.day}]
  PROVE  /\ GoodDatasets(E, T \cup {t})
         /\ DOMAIN E = DOMAIN D
         /\ \A j \in DOMAIN D : E[j].fields = D[j].fields
<1>. DEFINE n == Len(D)
            d == [D[i] EXCEPT !.tables = @ \cup {t.day}]
<1>1. /\ D \in Seq(DatasetRecords) /\ n \in Nat /\ DOMAIN D = 1 .. n
      /\ t.base \in Nat /\ t.day \in Nat /\ \A j \in DOMAIN D : D[j] \in DatasetRecords
  BY LenProperties, ElementOfSeq DEF GoodDatasets, IsCatalog
<1>2. E = [D EXCEPT ![i] = d]
  OBVIOUS
<1>3. /\ d.name = D[i].name /\ d.shard = D[i].shard /\ d.fields = D[i].fields /\ d.route = D[i].route
      /\ d.tables = D[i].tables \cup {t.day} /\ d \in DatasetRecords
  BY <1>1 DEF DatasetRecords
<1>. HIDE DEF d, n
<1>4. E \in Seq(DatasetRecords) /\ DOMAIN E = 1 .. n /\ E[i] = d
      /\ \A j \in DOMAIN D : j # i => E[j] = D[j]
  <2>1. E \in [1 .. n -> DatasetRecords]
    BY <1>1, <1>2, <1>3
  <2>2. E[i] = d /\ \A j \in DOMAIN D : j # i => E[j] = D[j]
    BY <1>1, <1>2
  <2>. QED  BY <1>1, <2>1, <2>2
<1>5. \A j \in DOMAIN D : /\ E[j].name = D[j].name /\ E[j].shard = D[j].shard
                          /\ E[j].fields = D[j].fields /\ E[j].route = D[j].route
                         /\ E[j].tables = D[j].tables \cup (IF j = i THEN {t.day} ELSE {})
  BY <1>3, <1>4
<1>6. \A j \in DOMAIN E : GoodDataset(E[j])
  BY <1>1, <1>4, <1>5 DEF GoodDatasets, GoodDataset
<1>7. ASSUME NEW u \in T \cup {t} PROVE \E j \in DOMAIN E : HasTable(E[j], u)
  <2>1. CASE u = t
    BY <1>1, <1>4, <1>5, <2>1 DEF HasTable
  <2>2. CASE u \in T
    <3>1. PICK j \in DOMAIN D : HasTable(D[j], u)
      BY <2>2 DEF GoodDatasets
    <3>2. HasTable(E[j], u)
      BY <1>5, <3>1 DEF HasTable
    <3>. QED  BY <1>1, <1>4, <3>2
  <2>. QED  BY <2>1, <2>2
<1>8. ASSUME NEW j \in DOMAIN E, NEW day \in E[j].tables
      PROVE  \E u \in T \cup {t} : u.base = E[j].name /\ u.day = day
  <2>1. j \in DOMAIN D /\ (day \in D[j].tables \/ (j = i /\ day = t.day))
    BY <1>1, <1>4, <1>5, <1>8
  <2>2. CASE day \in D[j].tables
    BY <1>5, <2>1, <2>2 DEF GoodDatasets
  <2>3. CASE j = i /\ day = t.day
    BY <1>5, <2>3
  <2>. QED  BY <2>1, <2>2, <2>3
<1>9. \A j, k \in DOMAIN E : E[j].name = E[k].name => j = k
  BY <1>1, <1>4, <1>5 DEF GoodDatasets
<1>. QED  BY <1>1, <1>4, <1>5, <1>6, <1>7, <1>8, <1>9 DEF GoodDatasets

(* The generator has read some tables; first is the fields of the first.   *)
Reads == [ok : BOOLEAN, datasets : Seq(DatasetRecords)]
GoodRead(read, tables) ==
  read \in Reads /\ (read.ok => GoodDatasets(read.datasets, tables))

(* A further table is added to what it belongs to, or nothing is made.     *)
LEMMA AddTableKeeps ==
  ASSUME NEW r, NEW T, GoodRead(r, T), NEW C, IsCatalog(C), NEW t \in C, AllMappable(t.columns),
         NEW q, q = AddTable(r, t)
  PROVE  /\ GoodRead(q, T \cup {t})
         /\ q.ok =>
              /\ r.ok
              /\ r.datasets = <<>> => q.datasets # <<>> /\ q.datasets[1].fields = Fields(t.columns)
              /\ r.datasets # <<>> => /\ q.datasets # <<>>
                                      /\ q.datasets[1].fields = r.datasets[1].fields
<1>. DEFINE i == FindDataset(r.datasets, t.base)
            D == r.datasets
<1>1. D \in Seq(DatasetRecords) /\ r.ok \in BOOLEAN /\ r = [ok |-> r.ok, datasets |-> D]
      /\ Len(D) \in Nat /\ DOMAIN D = 1 .. Len(D)
  BY LenProperties DEF GoodRead, Reads
<1>2. CASE ~r.ok
  BY <1>1, <1>2 DEF AddTable, GoodRead
<1>3. CASE r.ok /\ q = Refused(D)
  BY <1>1, <1>3 DEF GoodRead, Refused, Reads
<1>4. CASE r.ok /\ q # Refused(D) /\ i = 0
  <2>1. /\ q = [r EXCEPT !.datasets = Append(@, NewDataset(t))]
        /\ IsDayShardTable(t) => TimeFields(Fields(t.columns)) # {}
    BY <1>4 DEF AddTable
  <2>2. Unnamed(D, t)
    BY <1>1, <1>4, FoundDataset DEF Unnamed
  <2>. DEFINE d == NewDataset(t)
              E == Append(D, d)
  <2>3. GoodDatasets(D, T)
    BY <1>4 DEF GoodRead
  <2>4. GoodDatasets(E, T \cup {t}) /\ HasTable(d, t) /\ \A j \in DOMAIN D : E[j] = D[j]
    <3>1. E = Append(D, NewDataset(t))
      OBVIOUS
    <3>. HIDE DEF D, E
    <3>2. GoodDatasets(E, T \cup {t}) /\ HasTable(NewDataset(t), t) /\ Stays(D, E)
      BY <2>1, <2>2, <2>3, <3>1, FirstOfDataset
    <3>. QED  BY <3>2 DEF d, Stays
  <2>. HIDE DEF d
  <2>5. Len(E) = Len(D) + 1 /\ E[Len(D) + 1] = d
    <3>1. E \in Seq(DatasetRecords) /\ DOMAIN E = 1 .. Len(D) + 1
      BY <2>4, LenProperties DEF GoodDatasets
    <3>. QED  BY <1>1
  <2>6. q.ok /\ q.datasets = E /\ q \in Reads
    BY <1>1, <1>4, <2>1, <2>4 DEF Reads, GoodDatasets, d
  <2>. HIDE DEF E, D
  <2>7. E # <<>>
    BY <1>1, <2>4, <2>5, EmptySeq DEF GoodDatasets
  <2>8. D = <<>> => Len(D) = 0
    BY <1>1, EmptySeq
  <2>9. D # <<>> => 1 \in DOMAIN D
    BY <1>1, EmptySeq
  <2>10. D = <<>> => E[1].fields = Fields(t.columns)
    BY <2>4, <2>5, <2>8 DEF HasTable
  <2>11. D # <<>> => E[1].fields = D[1].fields
    BY <2>4, <2>9
  <2>. QED  BY <1>4, <2>4, <2>6, <2>7, <2>10, <2>11 DEF GoodRead, D
<1>5. CASE r.ok /\ q # Refused(D) /\ i # 0
  <2>1. /\ q = [r EXCEPT !.datasets[i].tables = @ \cup {t.day}]
        /\ D[i].shard = ShardOf(t) /\ D[i].fields = Fields(t.columns)
    BY <1>5 DEF AddTable
  <2>2. i \in DOMAIN D /\ D[i].name = t.base
    BY <1>1, <1>5, FoundDataset
  <2>. DEFINE E == [D EXCEPT ![i].tables = @ \cup {t.day}]
  <2>3. GoodDatasets(D, T)
    BY <1>5 DEF GoodRead
  <2>. HIDE DEF i
  <2>4. /\ GoodDatasets(E, T \cup {t}) /\ DOMAIN E = DOMAIN D
        /\ \A j \in DOMAIN D : E[j].fields = D[j].fields
    BY <2>1, <2>2, <2>3, FurtherOfDataset
  <2>5. q = [ok |-> TRUE, datasets |-> E]
    BY <1>1, <1>5, <2>1
  <2>. HIDE DEF E, D
  <2>6. q.ok /\ q.datasets = E /\ q \in Reads
    BY <2>4, <2>5 DEF Reads, GoodDatasets
  <2>7. D # <<>> /\ 1 \in DOMAIN D
    BY <1>1, <2>2, EmptySeq
  <2>8. E # <<>> /\ E[1].fields = D[1].fields
    BY <2>4, <2>7, EmptySeq
  <2>. QED  BY <1>5, <2>4, <2>6, <2>7, <2>8 DEF GoodRead, D
<1>. QED  BY <1>1, <1>2, <1>3, <1>4, <1>5

-----------------------------------------------------------------------------
(* Reading the tables one after the other.                                 *)

Step(tables, f, k) ==
  IF k = 0 THEN [ok |-> TRUE, datasets |-> <<>>] ELSE AddTable(f[k - 1], tables[k])
ReadsTo(tables, f, n) == f = [k \in 0 .. n |-> Step(tables, f, k)]

(* What the reading says of one table.                                     *)
LEMMA ReadsElement ==
  ASSUME NEW tables, NEW f, NEW n, ReadsTo(tables, f, n), NEW k \in 0 .. n
  PROVE  f[k] = Step(tables, f, k)
<1>. DEFINE g == [i \in 0 .. n |-> Step(tables, f, i)]
<1>1. f = g
  BY DEF ReadsTo
<1>2. g[k] = Step(tables, f, k)
  OBVIOUS
<1>. QED  BY <1>1, <1>2

(* The tables can be read to the last.                                     *)
LEMMA ReadingExists ==
  ASSUME NEW tables, NEW n \in Nat
  PROVE  \E f : ReadsTo(tables, f, n)
<1>. DEFINE bad == {m \in 0 .. n : ~\E f : ReadsTo(tables, f, m)}
<1>1. SUFFICES ASSUME bad # {} PROVE FALSE
  OBVIOUS
<1>2. PICK m \in bad : \A k \in bad : m <= k
  <2>1. bad \subseteq Nat
    OBVIOUS
  <2>. HIDE DEF bad
  <2>. QED  BY <1>1, <2>1, LeastNatural
<1>3. m # 0
  <2>. DEFINE f == [k \in 0 .. 0 |-> [ok |-> TRUE, datasets |-> <<>>]]
  <2>1. \A k \in 0 .. 0 : f[k] = Step(tables, f, k)
    BY DEF Step
  <2>2. ReadsTo(tables, f, 0)
    BY <2>1 DEF ReadsTo
  <2>. QED  BY <1>2, <2>2
<1>4. m \in 0 .. n /\ m - 1 \in 0 .. n /\ ~(m <= m - 1) /\ m \in Nat
  BY <1>2, <1>3
<1>5. PICK f : ReadsTo(tables, f, m - 1)
  BY <1>2, <1>4
<1>. DEFINE g == [k \in 0 .. m |-> IF k = m THEN Step(tables, f, m) ELSE f[k]]
<1>6. ASSUME NEW k \in 0 .. m PROVE g[k] = Step(tables, g, k)
  <2>1. k # 0 => k - 1 \in 0 .. m - 1 /\ g[k - 1] = f[k - 1]
    BY <1>4
  <2>. HIDE DEF g
  <2>2. Step(tables, g, k) = Step(tables, f, k)
    BY <2>1 DEF Step
  <2>3. CASE k = m
    BY <2>2, <2>3 DEF g
  <2>4. CASE k # m
    <3>1. k \in 0 .. m - 1
      BY <1>4, <2>4
    <3>2. f[k] = Step(tables, f, k)
      BY <1>5, <3>1, ReadsElement
    <3>. QED  BY <2>2, <2>4, <3>2 DEF g
  <2>. QED  BY <2>3, <2>4
<1>7. ReadsTo(tables, g, m)
  BY <1>6 DEF ReadsTo
<1>. QED  BY <1>2, <1>7

SomeTables(tables, n) == {tables[k] : k \in 1 .. n}
FirstIs(r, table) == r.datasets # <<>> /\ r.datasets[1].fields = Fields(table.columns)

(* Whatever tables have been read are described.                           *)
LEMMA ReadingKeeps ==
  ASSUME NEW C, IsCatalog(C), NEW n \in Nat, NEW tables \in [1 .. n -> C],
         \A t \in C : AllMappable(t.columns),
         NEW f, ReadsTo(tables, f, n)
  PROVE  \A k \in 0 .. n : /\ GoodRead(f[k], SomeTables(tables, k))
                           /\ k # 0 /\ f[k].ok => FirstIs(f[k], tables[1])
<1>. DEFINE Kept(k) == /\ GoodRead(f[k], SomeTables(tables, k))
                       /\ k # 0 /\ f[k].ok => FirstIs(f[k], tables[1])
            bad == {k \in 0 .. n : ~Kept(k)}
<1>1. SUFFICES ASSUME bad # {} PROVE FALSE
  OBVIOUS
<1>2. PICK m \in bad : \A k \in bad : m <= k
  <2>1. bad \subseteq Nat
    OBVIOUS
  <2>. HIDE DEF bad
  <2>. QED  BY <1>1, <2>1, LeastNatural
<1>3. m \in 0 .. n /\ ~Kept(m)
  BY <1>2
<1>4. f[m] = Step(tables, f, m)
  BY <1>3, ReadsElement
<1>5. m # 0
  <2>1. SUFFICES ASSUME m = 0 PROVE FALSE
    OBVIOUS
  <2>2. f[m] = [ok |-> TRUE, datasets |-> <<>>]
    BY <1>4, <2>1 DEF Step
  <2>3. SomeTables(tables, m) = {}
    BY <2>1 DEF SomeTables
  <2>4. GoodRead(f[m], {})
    <3>1. <<>> \in Seq(DatasetRecords) /\ DOMAIN <<>> = {}
      BY EmptySeq
    <3>2. GoodDatasets(<<>>, {})
      BY <3>1 DEF GoodDatasets
    <3>. QED  BY <2>2, <3>1, <3>2 DEF GoodRead, Reads
  <2>. QED  BY <1>3, <2>1, <2>3, <2>4
<1>6. m - 1 \in 0 .. n /\ ~(m <= m - 1) /\ m \in 1 .. n
  BY <1>3, <1>5
<1>7. Kept(m - 1)
  BY <1>2, <1>6
<1>8. f[m] = AddTable(f[m - 1], tables[m])
  BY <1>4, <1>5 DEF Step
<1>. DEFINE t == tables[m]
            S == SomeTables(tables, m - 1)
            r == f[m - 1]
            q == f[m]
<1>9. t \in C /\ AllMappable(t.columns)
  BY <1>6
<1>10. GoodRead(r, S)
  BY <1>7
<1>11. SomeTables(tables, m) = S \cup {t}
  <2>1. 1 .. m = (1 .. m - 1) \cup {m}
    BY <1>6
  <2>. QED  BY <2>1 DEF SomeTables
<1>. HIDE DEF S, r, q, t
<1>12. q = AddTable(r, t)
  BY <1>8 DEF r, q, t
<1>13. /\ GoodRead(q, S \cup {t})
       /\ q.ok =>
            /\ r.ok
            /\ r.datasets = <<>> => q.datasets # <<>> /\ q.datasets[1].fields = Fields(t.columns)
            /\ r.datasets # <<>> => /\ q.datasets # <<>>
                                    /\ q.datasets[1].fields = r.datasets[1].fields
  BY <1>9, <1>10, <1>12, AddTableKeeps
<1>14. q.ok => FirstIs(q, tables[1])
  <2>1. CASE m = 1
    <3>1. r = [ok |-> TRUE, datasets |-> <<>>] 
      <4>1. f[0] = Step(tables, f, 0)
        BY ReadsElement
      <4>. QED  BY <2>1, <4>1 DEF r, Step
    <3>. QED  BY <1>13, <2>1, <3>1 DEF FirstIs, t
  <2>2. CASE m # 1
    <3>1. m - 1 # 0
      BY <1>6, <2>2
    <3>2. r.ok => FirstIs(r, tables[1])
      BY <1>7, <3>1 DEF r
    <3>. QED  BY <1>13, <3>2 DEF FirstIs
  <2>. QED  BY <2>1, <2>2
<1>. QED  BY <1>3, <1>11, <1>13, <1>14 DEF q

(* The table CRUD works on is in the database.                             *)
FirstOf(C) == CHOOSE t \in C : \A u \in C : t = u \/ Before(t, u)

(* What the generator makes of a database without refusing it.             *)
MadeOf(datasets, C) ==
  /\ C # {}
  /\ \A t \in C : AllMappable(t.columns)
  /\ GoodDatasets(datasets, C)
  /\ datasets # <<>> /\ datasets[1].fields = Fields(FirstOf(C).columns)
  /\ FirstOf(C) \in C

(* A database that is not refused is described whole, its first table by   *)
(* the first dataset.                                                      *)
LEMMA SchemaRead ==
  ASSUME NEW C, IsCatalog(C)
  PROVE  /\ ReadSchema(C).ok \in BOOLEAN
         /\ ReadSchema(C).ok => MadeOf(ReadSchema(C).datasets, C)
<1>. DEFINE n == Cardinality(C)
            tables == InOrder(C)
            read == CHOOSE f : ReadsTo(tables, f, n)
<1>1. CASE C = {} \/ ~\A t \in C : AllMappable(t.columns)
  <2>1. ReadSchema(C) = Refused(<<>>)
    BY <1>1 DEF ReadSchema, AllMappable
  <2>. QED  BY <2>1 DEF Refused
<1>2. CASE C # {} /\ \A t \in C : AllMappable(t.columns)
  <2>1. /\ n \in Nat /\ n # 0 /\ tables \in [1 .. n -> C]
        /\ \A t \in C : \E i \in 1 .. n : tables[i] = t
        /\ tables[1] = FirstOf(C) /\ tables[1] \in C
    <3>1. n \in Nat /\ n >= 1 /\ tables \in [1 .. n -> C] /\ tables[1] = FirstOf(C)
      BY <1>2, TablesInOrder, FirstTable DEF FirstOf
    <3>. HIDE DEF n, tables
    <3>2. 1 \in 1 .. n
      BY <3>1
    <3>3. tables[1] \in C
      BY <3>1, <3>2
    <3>. QED  BY <3>1, <3>3, TablesInOrder DEF n, tables
  <2>2. ReadSchema(C) = read[n]
    BY <1>2 DEF ReadSchema, AllMappable, ReadsTo, Step
  <2>. HIDE DEF n, tables
  <2>3. ReadsTo(tables, read, n)
    BY <2>1, ReadingExists
  <2>. HIDE DEF read
  <2>4. /\ GoodRead(read[n], SomeTables(tables, n))
        /\ read[n].ok => FirstIs(read[n], tables[1])
    <3>1. n \in 0 .. n
      BY <2>1
    <3>. QED  BY <1>2, <2>1, <2>3, <3>1, ReadingKeeps
  <2>5. SomeTables(tables, n) = C
    BY <2>1 DEF SomeTables
  <2>6. read[n].ok \in BOOLEAN
    BY <2>4 DEF GoodRead, Reads
  <2>7. ASSUME read[n].ok PROVE MadeOf(read[n].datasets, C)
    BY <1>2, <2>1, <2>4, <2>5, <2>7 DEF MadeOf, GoodRead, FirstIs
  <2>. QED  BY <2>2, <2>6, <2>7
<1>. QED  BY <1>1, <1>2

(* The metadata of a database are what they are for, and the registry      *)
(* takes them.                                                             *)
LEMMA MadeDescribes ==
  ASSUME NEW C, IsCatalog(C), NEW D, MadeOf(D, C)
  PROVE  Describes(D, C) /\ \A i \in DOMAIN D : ValidateDataset(D[i])
<1>1. \A t \in C : t.columns \in Seq(ColumnRecords) /\ t.columns # <<>> /\ AllMappable(t.columns)
  BY DEF IsCatalog, MadeOf
<1>2. /\ D \in Seq(DatasetRecords) /\ \A i \in DOMAIN D : D[i] \in DatasetRecords /\ GoodDataset(D[i])
  BY ElementOfSeq, LenProperties DEF MadeOf, GoodDatasets
<1>3. ASSUME NEW t \in C
      PROVE  \E i \in DOMAIN D :
       /\ D[i].name = t.base /\ t.day \in D[i].tables
       /\ Len(D[i].fields) = Len(t.columns)
       /\ \A c \in DOMAIN t.columns :
            LET f == D[i].fields[c]
            IN /\ f.name = t.columns[c].name /\ f.pk = t.columns[c].pk
               /\ f.type = FieldTypeOf[t.columns[c].type] /\ f.size = t.columns[c].size
       /\ t.day # NoDay => \E c \in DOMAIN t.columns :
            t.columns[c].name = D[i].route /\ t.columns[c].type = "timestamp"
  <2>1. PICK i \in DOMAIN D : HasTable(D[i], t)
    BY DEF MadeOf, GoodDatasets
  <2>. DEFINE columns == t.columns
              fields == Fields(columns)
  <2>2. D[i].fields = fields /\ D[i].name = t.base /\ t.day \in D[i].tables /\ D[i].shard = ShardOf(t)
    BY <2>1 DEF HasTable
  <2>3. columns \in Seq(ColumnRecords) /\ columns # <<>> /\ AllMappable(columns)
    BY <1>1
  <2>. HIDE DEF columns, fields
  <2>4. /\ Len(fields) = Len(columns) /\ DOMAIN fields = DOMAIN columns
        /\ \A c \in DOMAIN columns :
              /\ fields[c].name = columns[c].name /\ fields[c].pk = columns[c].pk
              /\ fields[c].type = FieldTypeOf[columns[c].type] /\ fields[c].size = columns[c].size
              /\ fields[c].type = HDB_FT_TIMESTAMP_MS <=> columns[c].type = "timestamp"
    BY <2>3, FieldsAreColumns DEF fields
  <2>5. ASSUME t.day # NoDay
        PROVE  \E c \in DOMAIN columns : columns[c].name = D[i].route /\ columns[c].type = "timestamp"
    <3>1. D[i].shard = "DAY"
      BY <2>2, <2>5 DEF ShardOf, IsDayShardTable
    <3>2. PICK c \in DOMAIN D[i].fields : /\ D[i].fields[c].name = D[i].route
                                          /\ D[i].fields[c].type = HDB_FT_TIMESTAMP_MS
      BY <1>2, <3>1 DEF GoodDataset
    <3>. QED  BY <2>2, <2>4, <3>2
  <2>. QED  BY <2>2, <2>4, <2>5 DEF columns
<1>4. ASSUME NEW i \in DOMAIN D PROVE ValidateDataset(D[i])
  <2>. DEFINE d == D[i]
  <2>1. d.fields # <<>> /\ d.fields \in Seq(FieldRecords)
    BY <1>2 DEF GoodDataset, DatasetRecords
  <2>2. ASSUME d.shard = "DAY" PROVE FindField(d, d.route) # 0
    <3>1. PICK c \in DOMAIN d.fields : d.fields[c].name = d.route
      BY <1>2, <2>2 DEF GoodDataset
    <3>. DEFINE I == {k \in 1 .. Len(d.fields) : d.fields[k].name = d.route}
    <3>2. I # {} /\ I \subseteq Nat /\ 0 \notin I
      BY <2>1, <3>1, LenProperties
    <3>3. FindField(d, d.route) = Min(I)
      BY <3>2 DEF FindField, SelectInSeq
    <3>. HIDE DEF I
    <3>. QED  BY <3>2, <3>3, MinNatural
  <2>. QED  BY <2>1, <2>2 DEF ValidateDataset
<1>5. /\ \A i \in DOMAIN D : \A day \in D[i].tables :
           \E t \in C : t.base = D[i].name /\ t.day = day
      /\ \A i, j \in DOMAIN D : D[i].name = D[j].name => i = j
  BY DEF MadeOf, GoodDatasets
<1>. QED  BY <1>3, <1>4, <1>5 DEF Describes

-----------------------------------------------------------------------------
(* CRUD: the struct, the rows and the row the struct was read from.        *)

Typed(field, value) ==
  IF field.type = HDB_FT_CHAR_ARRAY THEN value \in Seq(Nat)
  ELSE value \in Seq(Int) /\ Len(value) = 1

(* Times of the database are local, those of a struct count from the epoch. *)
IsCell(field, value) ==
  /\ Typed(field, value)
  /\ field.type = HDB_FT_TIMESTAMP_MS => value[1] \div 1000 \in DOMAIN Mktime

IsValue(field, value) ==
  /\ Typed(field, value)
  /\ field.type = HDB_FT_TIMESTAMP_MS => value[1] \div 1000 \in DOMAIN LocalTime
  /\ field.type = HDB_FT_CHAR_ARRAY => Len(value) <= field.size

IsRow(row) ==
  /\ row \in Seq(Seq(Int)) /\ Len(row) = Len(Columns)
  /\ \A i \in DOMAIN def : row[i] = NULL \/ IsCell(def[i], row[i])

IsModel(m) ==
  /\ m \in Seq(Seq(Int)) /\ Len(m) = Len(def)
  /\ \A i \in DOMAIN def : IsValue(def[i], m[i])

Codes == {"none", "OK", "NO_RECORD", "DB_EXEC", "MODEL_DEF"}

(* A key is in one row.                                                    *)
KeysUnique == \A r, s \in rows : Key(r) = Key(s) => r = s

(* The key of the struct is the key read, as the struct holds it.          *)
OriginKept ==
  origin # <<>> =>
    /\ model # <<>> /\ IsRow(origin)
    /\ \A i \in DOMAIN def : def[i].pk => model[i] = SetFieldValue(def[i], origin[i])

IInv ==
  /\ catalog \in Catalogs /\ told \in Codes
  /\ made.ok \in BOOLEAN /\ (made.ok => MadeOf(made.datasets, catalog))
  /\ rows # {} \/ model # <<>> => made.ok
  /\ \A row \in rows : IsRow(row)
  /\ model # <<>> => IsModel(model)
  /\ KeysUnique
  /\ OriginKept

(* The fields CRUD works by are the columns of the table.                  *)
DefIsColumns ==
  /\ Columns \in Seq(ColumnRecords) /\ Len(Columns) \in Nat /\ Len(Columns) # 0
  /\ DOMAIN Columns = 1 .. Len(Columns)
  /\ Len(def) = Len(Columns) /\ DOMAIN def = DOMAIN Columns
  /\ \A i \in DOMAIN def :
       /\ def[i].pk = Columns[i].pk /\ def[i].pk \in BOOLEAN
       /\ def[i].size \in Nat
       /\ def[i].type \in {HDB_FT_INT64, HDB_FT_CHAR_ARRAY, HDB_FT_TIMESTAMP_MS}
       /\ Columns[i].type \in {"bigint", "varchar", "timestamp"}
       /\ def[i].type = HDB_FT_INT64 <=> Columns[i].type = "bigint"
       /\ def[i].type = HDB_FT_CHAR_ARRAY <=> Columns[i].type = "varchar"
       /\ def[i].type = HDB_FT_TIMESTAMP_MS <=> Columns[i].type = "timestamp"
       /\ def[i].type = HDB_FT_CHAR_ARRAY => def[i].size > 0

LEMMA MadeIsDef ==
  ASSUME IsCatalog(catalog), MadeOf(made.datasets, catalog)
  PROVE  DefIsColumns
<1>. DEFINE columns == FirstOf(catalog).columns
<1>1. Columns = columns /\ def = Fields(columns)
  BY DEF Columns, FirstOf, MadeOf, def
<1>2. columns \in Seq(ColumnRecords) /\ columns # <<>> /\ AllMappable(columns)
  BY DEF IsCatalog, MadeOf
<1>. HIDE DEF columns
<1>3. Len(columns) # 0
  BY <1>2, EmptySeq
<1>4. /\ Fields(columns) \in Seq(FieldRecords)
      /\ Len(columns) \in Nat /\ Len(Fields(columns)) = Len(columns)
      /\ DOMAIN columns = 1 .. Len(columns)
      /\ DOMAIN Fields(columns) = DOMAIN columns
      /\ \A i \in DOMAIN columns :
           LET f == Fields(columns)[i]
           IN /\ f.pk = columns[i].pk /\ f.size = columns[i].size
              /\ columns[i].type \in {"bigint", "varchar", "timestamp"}
              /\ f.type = HDB_FT_INT64 <=> columns[i].type = "bigint"
              /\ f.type = HDB_FT_CHAR_ARRAY <=> columns[i].type = "varchar"
              /\ f.type = HDB_FT_TIMESTAMP_MS <=> columns[i].type = "timestamp"
              /\ f.type = HDB_FT_CHAR_ARRAY => f.size > 0
  BY <1>2, FieldsAreColumns
<1>5. \A i \in DOMAIN columns : Fields(columns)[i] \in FieldRecords
  BY <1>4, ElementOfSeq
<1>6. ASSUME NEW i \in DOMAIN columns
      PROVE  /\ Fields(columns)[i].size \in Nat /\ Fields(columns)[i].pk \in BOOLEAN
             /\ Fields(columns)[i].type \in {HDB_FT_INT64, HDB_FT_CHAR_ARRAY, HDB_FT_TIMESTAMP_MS}
  BY <1>5 DEF FieldRecords
<1>. HIDE DEF def, Columns
<1>. QED  BY <1>1, <1>2, <1>3, <1>4, <1>6 DEF DefIsColumns

(* What is known once there are rows or a struct.                          *)
LEMMA WithMetadata ==
  ASSUME IInv
  PROVE  /\ IsCatalog(catalog)
         /\ made.ok => DefIsColumns
         /\ rows # {} \/ model # <<>> => made.ok
<1>1. IsCatalog(catalog)
  BY CrudAssumption DEF IInv
<1>. QED  BY <1>1, MadeIsDef DEF IInv

-----------------------------------------------------------------------------
(* A value on its way into the struct and back.                            *)

(* Cutting a text to a length.                                             *)
LEMMA CutText ==
  ASSUME NEW text \in Seq(Nat), NEW n \in Nat
  PROVE  /\ Cut(text, n) \in Seq(Nat) /\ Len(Cut(text, n)) <= n
         /\ Len(text) <= n => Cut(text, n) = text
         /\ Cut(text, n) = text => Len(text) <= n
<1>. DEFINE l == Len(text)
            k == Min({n, l})
<1>1. l \in Nat
  BY LenProperties
<1>2. k \in {n, l} /\ k <= n /\ k <= l
  <2>. DEFINE S == {n, l}
  <2>1. S \subseteq Nat /\ S # {} /\ n \in S /\ l \in S
    BY <1>1
  <2>. HIDE DEF l
  <2>2. Min(S) \in S /\ \A y \in S : Min(S) <= y
    <3>. HIDE DEF S
    <3>. QED  BY <2>1, MinNatural
  <2>. QED  BY <2>1, <2>2
<1>3. Cut(text, n) = SubSeq(text, 1, k)
  BY DEF Cut
<1>. HIDE DEF k
<1>4. k \in Nat
  BY <1>1, <1>2
<1>5. SubSeq(text, 1, k) \in Seq(Nat) /\ Len(SubSeq(text, 1, k)) = k
  BY <1>1, <1>2, <1>4, SubSeqProperties
<1>6. l <= n => SubSeq(text, 1, k) = text
  <2>1. SUFFICES ASSUME l <= n PROVE SubSeq(text, 1, k) = text
    OBVIOUS
  <2>2. k = l
    BY <1>1, <1>2, <1>4, <2>1
  <2>3. \A i \in 1 .. l : SubSeq(text, 1, k)[i] = text[i]
    BY <1>1, <2>2, SubSeqProperties
  <2>. QED  BY <1>1, <1>5, <2>2, <2>3, SeqEqual
<1>. QED  BY <1>1, <1>2, <1>3, <1>5, <1>6

(* A fraction is read as it is if it is zero or ends in another digit.     *)
Millis      == 0 .. 999
AsItEnds(m) == ReadFraction(m) \in Millis /\ (ReadFraction(m) = m <=> m = 0 \/ m % 10 # 0)

LEMMA FractionKept ==
  ASSUME NEW m \in Millis
  PROVE  AsItEnds(m)
<1>. USE DEF AsItEnds, Millis
<1>1. CASE m % 100 = 0
  <2>1. ReadFraction(m) = m \div 100
    BY <1>1 DEF ReadFraction
  <2>2. m \div 100 \in 0 .. 999 /\ (m \div 100 = m <=> m = 0) /\ m % 10 = 0
    BY <1>1
  <2>. QED  BY <2>1, <2>2
<1>2. CASE m % 100 # 0 /\ m % 10 = 0
  <2>1. ReadFraction(m) = m \div 10
    BY <1>2 DEF ReadFraction
  <2>2. m \div 10 \in 0 .. 999 /\ (m \div 10 = m <=> m = 0)
    BY <1>2
  <2>. QED  BY <1>2, <2>1, <2>2
<1>3. CASE m % 100 # 0 /\ m % 10 # 0
  <2>1. ReadFraction(m) = m
    BY <1>3 DEF ReadFraction
  <2>. QED  BY <1>3, <2>1
<1>. QED  BY <1>1, <1>2, <1>3

(* A time is its seconds and its milliseconds.                             *)
LEMMA TimeSplit ==
  ASSUME NEW s \in Int, NEW m \in Millis
  PROVE  /\ s * 1000 + m \in Int
         /\ (s * 1000 + m) \div 1000 = s /\ (s * 1000 + m) % 1000 = m
BY DEF Millis

(* A time is written as a local time of the same fraction.                 *)
LEMMA TimeWritten ==
  ASSUME NEW ms \in Int, ms \div 1000 \in DOMAIN LocalTime
  PROVE  /\ FormatTimestampMs(ms) \in Int
         /\ FormatTimestampMs(ms) \div 1000 = LocalTime[ms \div 1000]
         /\ FormatTimestampMs(ms) % 1000 = ms % 1000
         /\ FormatTimestampMs(ms) \div 1000 \in DOMAIN Mktime
<1>. DEFINE second == LocalTime[ms \div 1000]
            m      == ms % 1000
<1>1. second \in DOMAIN Mktime /\ second \in Int
  BY ClockAssumption
<1>2. m \in Millis
  BY DEF Millis
<1>3. FormatTimestampMs(ms) = second * 1000 + m
  BY DEF FormatTimestampMs
<1>. HIDE DEF second, m
<1>4. /\ FormatTimestampMs(ms) \in Int
      /\ FormatTimestampMs(ms) \div 1000 = second /\ FormatTimestampMs(ms) % 1000 = m
  BY <1>1, <1>2, <1>3, TimeSplit
<1>. QED  BY <1>1, <1>4 DEF second, m

(* A local time is read as a time, and written back as it was exactly if   *)
(* it survives.                                                            *)
LEMMA TimeRead ==
  ASSUME NEW w \in Int, w \div 1000 \in DOMAIN Mktime
  PROVE  /\ ParseTimestampMs(w) \in Int
         /\ ParseTimestampMs(w) \div 1000 \in DOMAIN LocalTime
         /\ FormatTimestampMs(ParseTimestampMs(w)) = w <=> StampSurvives(w)
<1>. DEFINE local   == w \div 1000
            m       == w % 1000
            seconds == Mktime[local]
            p       == ParseTimestampMs(w)
            f       == FormatTimestampMs(p)
<1>1. /\ local \in Int /\ w = local * 1000 + m /\ w % 10 = m % 10
      /\ m \in Millis
  BY DEF Millis
<1>2. /\ p = IF seconds = -1 THEN 0 ELSE seconds * 1000 + ReadFraction(m)
      /\ StampSurvives(w) <=> /\ seconds # -1 /\ LocalTime[seconds] = local
                              /\ m = 0 \/ w % 10 # 0
  BY DEF ParseTimestampMs, StampSurvives
<1>3. local \in DOMAIN Mktime /\ (seconds # -1 => seconds \in DOMAIN LocalTime /\ seconds \in Int)
  BY ClockAssumption
<1>. HIDE DEF local, m, seconds
<1>4. AsItEnds(m)
  BY <1>1, FractionKept
<1>5. CASE seconds = -1
  <2>1. p = 0 /\ p \div 1000 = 0 /\ p % 1000 = 0 /\ ~StampSurvives(w)
    BY <1>2, <1>5
  <2>2. 0 \in DOMAIN LocalTime /\ Mktime[LocalTime[0]] # -1
    BY ClockAssumption
  <2>. HIDE DEF p
  <2>3. f \div 1000 = LocalTime[0]
    BY <2>1, <2>2, TimeWritten
  <2>4. f # w
    BY <1>5, <2>2, <2>3 DEF seconds, local
  <2>. QED  BY <2>1, <2>2, <2>4 DEF p, f
<1>6. CASE seconds # -1
  <2>. DEFINE r == ReadFraction(m)
  <2>1. p = seconds * 1000 + r /\ seconds \in Int /\ seconds \in DOMAIN LocalTime
    BY <1>2, <1>3, <1>6
  <2>2. r \in Millis /\ (r = m <=> m = 0 \/ m % 10 # 0)
    BY <1>4 DEF AsItEnds
  <2>. HIDE DEF p, r
  <2>3. p \in Int /\ p \div 1000 = seconds /\ p % 1000 = r
    BY <2>1, <2>2, TimeSplit
  <2>4. f \in Int /\ f \div 1000 = LocalTime[seconds] /\ f % 1000 = r
    BY <2>1, <2>3, TimeWritten
  <2>5. w \div 1000 = local /\ w % 1000 = m
    BY DEF local, m
  <2>. HIDE DEF f
  <2>6. f = (f \div 1000) * 1000 + (f % 1000) /\ w = (w \div 1000) * 1000 + (w % 1000)
    BY <2>4
  <2>7. f = w <=> LocalTime[seconds] = local /\ r = m
    BY <2>4, <2>5, <2>6
  <2>8. StampSurvives(w) <=> LocalTime[seconds] = local /\ r = m
    BY <1>1, <1>2, <1>6, <2>2
  <2>. QED  BY <2>1, <2>3, <2>7, <2>8 DEF p, f
<1>. QED  BY <1>5, <1>6

IsField(field) ==
  /\ field.type \in {HDB_FT_INT64, HDB_FT_CHAR_ARRAY, HDB_FT_TIMESTAMP_MS}
  /\ field.size \in Nat
  /\ field.type = HDB_FT_CHAR_ARRAY => field.size > 0

(* What SetFieldValue puts into the struct fits, and what BuildFieldValue  *)
(* makes of it is the value read exactly if it survives.                   *)
LEMMA RoundTrip ==
  ASSUME NEW field, IsField(field), NEW value, value = NULL \/ IsCell(field, value),
         NEW v, v = SetFieldValue(field, value)
  PROVE  /\ IsValue(field, v)
         /\ BuildFieldValue(field, v) = value <=> Survives(field, value)
<1>1. HDB_FT_INT64 = 2 /\ HDB_FT_CHAR_ARRAY = 5 /\ HDB_FT_TIMESTAMP_MS = 6
  BY DEF HDB_FT_INT64, HDB_FT_CHAR_ARRAY, HDB_FT_TIMESTAMP_MS
<1>0. Len(NULL) = 2
  BY DEF NULL
<1>2. NULL \notin Seq(Nat)
  <2>1. NULL[1] = -1 /\ 1 \in 1 .. Len(NULL)
    BY <1>0 DEF NULL
  <2>. QED  BY <2>1, ElementOfSeq
<1>3. CASE field.type = HDB_FT_CHAR_ARRAY
  <2>1. BuildFieldValue(field, v) = Cut(v, field.size) /\ field.size \in Nat /\ field.size - 1 \in Nat
    BY <1>1, <1>3 DEF BuildFieldValue, IsField
  <2>2. CASE value = NULL
    <3>1. v = <<>> /\ v \in Seq(Nat) /\ Len(v) = 0
      BY <1>1, <1>3, <2>2 DEF SetFieldValue
    <3>2. Cut(v, field.size) \in Seq(Nat)
      BY <2>1, <3>1, CutText
    <3>. QED  BY <1>1, <1>2, <1>3, <2>1, <2>2, <3>1, <3>2 DEF Survives, IsValue, Typed
  <2>3. CASE value # NULL
    <3>1. value \in Seq(Nat) /\ v = Cut(value, field.size - 1) /\ Len(value) \in Nat
      BY <1>1, <1>3, <2>3, LenProperties DEF SetFieldValue, Copied, IsCell, Typed
    <3>2. /\ v \in Seq(Nat) /\ Len(v) <= field.size - 1 /\ Len(v) \in Nat
          /\ Len(value) <= field.size - 1 <=> v = value
      BY <2>1, <3>1, CutText, LenProperties
    <3>3. Cut(v, field.size) = v /\ Len(v) <= field.size
      BY <2>1, <3>2, CutText
    <3>4. Survives(field, value) <=> Len(value) < field.size
      BY <1>1, <1>3, <2>3 DEF Survives
    <3>. QED  BY <1>1, <1>3, <2>1, <3>1, <3>2, <3>3, <3>4 DEF IsValue, Typed
  <2>. QED  BY <2>2, <2>3
<1>4. CASE field.type = HDB_FT_TIMESTAMP_MS
  <2>1. BuildFieldValue(field, v) = <<FormatTimestampMs(v[1])>>
    BY <1>1, <1>4 DEF BuildFieldValue
  <2>2. CASE value = NULL
    <3>1. v = <<0>> /\ 0 \in DOMAIN LocalTime
      BY <1>1, <1>4, <2>2, ClockAssumption DEF SetFieldValue
    <3>2. v \in Seq(Int) /\ Len(v) = 1 /\ v[1] \div 1000 = 0
      BY <3>1
    <3>3. Len(<<FormatTimestampMs(v[1])>>) = 1
      OBVIOUS
    <3>4. BuildFieldValue(field, v) # NULL
      BY <1>0, <2>1, <3>3
    <3>. QED  BY <1>1, <1>4, <2>2, <3>1, <3>2, <3>4 DEF Survives, IsValue, Typed
  <2>3. CASE value # NULL
    <3>. DEFINE w == value[1]
                p == ParseTimestampMs(w)
                f == FormatTimestampMs(p)
    <3>1. value \in Seq(Int) /\ Len(value) = 1 /\ v = <<p>> /\ w \div 1000 \in DOMAIN Mktime
      BY <1>1, <1>4, <2>3 DEF SetFieldValue, IsCell, Typed
    <3>2. w \in Int /\ value = <<w>>
      BY <3>1
    <3>3. p \in Int /\ p \div 1000 \in DOMAIN LocalTime /\ (f = w <=> StampSurvives(w))
      BY <3>1, <3>2, TimeRead
    <3>4. Survives(field, value) <=> StampSurvives(w)
      BY <1>1, <1>4, <2>3 DEF Survives
    <3>. HIDE DEF w, p
    <3>5. v[1] = p /\ v \in Seq(Int) /\ Len(v) = 1
      BY <3>1, <3>3
    <3>6. BuildFieldValue(field, v) = <<f>>
      BY <2>1, <3>5
    <3>. HIDE DEF f
    <3>7. <<f>> = <<w>> <=> f = w
      OBVIOUS
    <3>8. IsValue(field, v)
      BY <1>1, <1>4, <3>3, <3>5 DEF IsValue, Typed
    <3>. QED  BY <3>2, <3>3, <3>4, <3>6, <3>7, <3>8
  <2>. QED  BY <2>2, <2>3
<1>5. CASE field.type = HDB_FT_INT64
  <2>1. BuildFieldValue(field, v) = v
    BY <1>1, <1>5 DEF BuildFieldValue
  <2>2. CASE value = NULL
    <3>1. v = <<0>>
      BY <1>1, <1>5, <2>2 DEF SetFieldValue
    <3>2. v \in Seq(Int) /\ Len(v) = 1
      BY <3>1
    <3>3. Len(v) = 1
      BY <3>2
    <3>4. v # NULL
      BY <1>0, <3>3
    <3>. QED  BY <1>1, <1>5, <2>1, <2>2, <3>2, <3>4 DEF Survives, IsValue, Typed
  <2>3. CASE value # NULL
    <3>1. v = value /\ value \in Seq(Int) /\ Len(value) = 1
      BY <1>1, <1>5, <2>3 DEF SetFieldValue, IsCell, Typed
    <3>. QED  BY <1>1, <1>5, <2>1, <2>3, <3>1 DEF Survives, IsValue, Typed
  <2>. QED  BY <2>2, <2>3
<1>. QED  BY <1>3, <1>4, <1>5 DEF IsField

-----------------------------------------------------------------------------
(* Rows and structs.                                                       *)

(* Keys agree where the key's columns do.                                  *)
LEMMA KeyEqual ==
  ASSUME NEW r, NEW s
  PROVE  Key(r) = Key(s) <=> \A i \in DOMAIN Columns : Columns[i].pk => r[i] = s[i]
<1>. DEFINE I == {i \in DOMAIN Columns : Columns[i].pk}
<1>1. Key(r) = [i \in I |-> r[i]] /\ Key(s) = [i \in I |-> s[i]]
  BY DEF Key
<1>2. [i \in I |-> r[i]] = [i \in I |-> s[i]] <=> \A i \in I : r[i] = s[i]
  <2>. HIDE DEF I
  <2>1. ASSUME [i \in I |-> r[i]] = [i \in I |-> s[i]], NEW i \in I PROVE r[i] = s[i]
    BY <2>1
  <2>. QED  BY <2>1
<1>. QED  BY <1>1, <1>2

(* Every value is a sequence of integers.                                  *)
LEMMA CellIsSequence ==
  ASSUME NEW field, NEW value, value = NULL \/ Typed(field, value)
  PROVE  value \in Seq(Int)
<1>1. NULL \in Seq(Int)
  BY DEF NULL
<1>2. Seq(Nat) \subseteq Seq(Int)
  OBVIOUS
<1>. QED  BY <1>1, <1>2 DEF Typed

(* A function on the fields is a sequence as long as they are.             *)
LEMMA OnFields ==
  ASSUME DefIsColumns, NEW f, DOMAIN f = DOMAIN def, f = [i \in DOMAIN f |-> f[i]],
         \A i \in DOMAIN def : f[i] = NULL \/ Typed(def[i], f[i])
  PROVE  /\ f \in Seq(Seq(Int)) /\ Len(f) = Len(def) /\ f # <<>>
         /\ (\A i \in DOMAIN def : f[i] = NULL \/ IsCell(def[i], f[i])) => IsRow(f)
<1>. DEFINE n == Len(Columns)
<1>1. n \in Nat /\ n # 0 /\ DOMAIN f = 1 .. n /\ Len(def) = n
  BY DEF DefIsColumns
<1>2. \A i \in 1 .. n : f[i] \in Seq(Int)
  BY <1>1, CellIsSequence
<1>. HIDE DEF n
<1>3. f \in [1 .. n -> Seq(Int)]
  BY <1>1, <1>2
<1>4. f \in Seq(Seq(Int)) /\ Len(f) = n
  BY <1>1, <1>3, LenProperties
<1>5. f # <<>>
  BY <1>1, <1>4, EmptySeq
<1>. QED  BY <1>1, <1>4, <1>5 DEF IsRow, n

(* What other clients write are rows.                                      *)
LEMMA GivenRow ==
  ASSUME DefIsColumns, NEW row \in Rows
  PROVE  IsRow(row)
<1>1. DOMAIN row = DOMAIN Columns /\ row = [i \in DOMAIN row |-> row[i]]
  BY DEF Rows
<1>2. DOMAIN Columns = DOMAIN def
  BY DEF DefIsColumns
<1>3. ASSUME NEW i \in DOMAIN def PROVE row[i] = NULL \/ IsCell(def[i], row[i])
  <2>1. row[i] = NULL \/ row[i] \in Cells(Columns[i])
    BY <1>2 DEF Rows
  <2>2. CASE Columns[i].type = "bigint"
    <3>1. /\ Cells(Columns[i]) = {<<n>> : n \in Numbers}
          /\ def[i].type # HDB_FT_CHAR_ARRAY /\ def[i].type # HDB_FT_TIMESTAMP_MS
      BY <2>2 DEF Cells, DefIsColumns, HDB_FT_INT64, HDB_FT_CHAR_ARRAY, HDB_FT_TIMESTAMP_MS
    <3>2. \A n \in Numbers : <<n>> \in Seq(Int) /\ Len(<<n>>) = 1
      BY CrudAssumption
    <3>. QED  BY <2>1, <3>1, <3>2 DEF IsCell, Typed
  <2>3. CASE Columns[i].type = "timestamp"
    <3>1. Cells(Columns[i]) = {<<ms>> : ms \in Stamps} /\ def[i].type # HDB_FT_CHAR_ARRAY
      BY <2>3 DEF Cells, DefIsColumns, HDB_FT_TIMESTAMP_MS, HDB_FT_CHAR_ARRAY
    <3>2. \A n \in Stamps : /\ <<n>> \in Seq(Int) /\ Len(<<n>>) = 1
                             /\ <<n>>[1] \div 1000 \in DOMAIN Mktime
      BY ClockAssumption
    <3>3. CASE row[i] = NULL
      BY <3>3
    <3>4. CASE row[i] \in Cells(Columns[i])
      <4>1. row[i] \in {<<ms>> : ms \in Stamps}
        BY <3>1, <3>4
      <4>2. PICK n \in Stamps : row[i] = <<n>>
        BY <4>1
      <4>3. row[i] \in Seq(Int) /\ Len(row[i]) = 1 /\ row[i][1] \div 1000 \in DOMAIN Mktime
        BY <3>2, <4>2
      <4>. QED  BY <3>1, <4>3 DEF IsCell, Typed
    <3>. QED  BY <2>1, <3>3, <3>4
  <2>4. CASE Columns[i].type = "varchar"
    <3>1. /\ Cells(Columns[i]) \subseteq Texts
          /\ def[i].type = HDB_FT_CHAR_ARRAY /\ def[i].type # HDB_FT_TIMESTAMP_MS
      BY <2>4 DEF Cells, DefIsColumns, HDB_FT_CHAR_ARRAY, HDB_FT_TIMESTAMP_MS
    <3>2. Texts \subseteq Seq(Nat)
      BY CrudAssumption
    <3>. QED  BY <2>1, <3>1, <3>2 DEF IsCell, Typed
  <2>. QED  BY <2>2, <2>3, <2>4 DEF DefIsColumns
<1>. QED  BY <1>1, <1>2, <1>3, OnFields DEF IsCell

(* A value a caller puts into its struct fits.                             *)
LEMMA GivenValue ==
  ASSUME DefIsColumns, NEW i \in DOMAIN def, NEW value \in Values(def[i])
  PROVE  IsValue(def[i], value)
<1>1. HDB_FT_INT64 = 2 /\ HDB_FT_CHAR_ARRAY = 5 /\ HDB_FT_TIMESTAMP_MS = 6
  BY DEF HDB_FT_INT64, HDB_FT_CHAR_ARRAY, HDB_FT_TIMESTAMP_MS
<1>2. \A n \in Numbers \cup Moments : <<n>> \in Seq(Int) /\ Len(<<n>>) = 1
  BY CrudAssumption, ClockAssumption
<1>3. Texts \subseteq Seq(Nat)
  BY CrudAssumption
<1>4. CASE def[i].type = HDB_FT_INT64
  <2>1. value \in {<<n>> : n \in Numbers}
    BY <1>1, <1>4 DEF Values
  <2>2. PICK n \in Numbers : value = <<n>>
    BY <2>1
  <2>3. value \in Seq(Int) /\ Len(value) = 1
    BY <1>2, <2>2
  <2>. QED  BY <1>1, <1>4, <2>3 DEF IsValue, Typed
<1>5. CASE def[i].type = HDB_FT_TIMESTAMP_MS
  <2>1. value \in {<<ms>> : ms \in Moments}
    BY <1>1, <1>5 DEF Values
  <2>2. PICK n \in Moments : value = <<n>>
    BY <2>1
  <2>3. value \in Seq(Int) /\ Len(value) = 1 /\ value[1] \div 1000 \in DOMAIN LocalTime
    BY <1>2, <2>2, ClockAssumption
  <2>. QED  BY <1>1, <1>5, <2>3 DEF IsValue, Typed
<1>6. CASE def[i].type = HDB_FT_CHAR_ARRAY
  <2>1. value \in Texts /\ Len(value) <= def[i].size
    BY <1>1, <1>6 DEF Values
  <2>. QED  BY <1>1, <1>3, <1>6, <2>1 DEF IsValue, Typed
<1>. QED  BY <1>4, <1>5, <1>6 DEF DefIsColumns

(* So do the structs it fills in.                                          *)
LEMMA GivenModel ==
  ASSUME DefIsColumns, NEW m \in Models
  PROVE  IsModel(m) /\ m # <<>>
<1>1. /\ DOMAIN m = DOMAIN def /\ m = [i \in DOMAIN m |-> m[i]]
      /\ \A i \in DOMAIN def : m[i] \in Values(def[i])
  BY DEF Models
<1>2. \A i \in DOMAIN def : IsValue(def[i], m[i])
  BY <1>1, GivenValue
<1>3. m \in Seq(Seq(Int)) /\ Len(m) = Len(def) /\ m # <<>>
  BY <1>1, <1>2, OnFields DEF IsValue
<1>. QED  BY <1>2, <1>3 DEF IsModel

(* A struct has a value for every field.                                   *)
LEMMA ModelOnFields ==
  ASSUME DefIsColumns, NEW m, IsModel(m)
  PROVE  DOMAIN m = DOMAIN def /\ m = [i \in DOMAIN m |-> m[i]]
BY LenProperties DEF IsModel, DefIsColumns

(* A struct with another value in one field.                               *)
LEMMA ChangedModel ==
  ASSUME DefIsColumns, NEW m, IsModel(m), NEW i \in DOMAIN def, NEW value \in Values(def[i]),
         NEW e, e = [m EXCEPT ![i] = value]
  PROVE  IsModel(e) /\ e # <<>>
<1>1. DOMAIN m = DOMAIN def
  BY ModelOnFields
<1>2. /\ DOMAIN e = DOMAIN def /\ e = [j \in DOMAIN e |-> e[j]]
      /\ e[i] = value /\ \A j \in DOMAIN def : j # i => e[j] = m[j]
  BY <1>1
<1>3. ASSUME NEW j \in DOMAIN def
      PROVE  IsValue(def[j], e[j])
  <2>1. CASE j = i
    BY <1>2, <2>1, GivenValue
  <2>2. CASE j # i
    BY <1>2, <2>2 DEF IsModel
  <2>. QED  BY <2>1, <2>2
<1>4. e \in Seq(Seq(Int)) /\ Len(e) = Len(def) /\ e # <<>>
  <2>1. \A j \in DOMAIN def : Typed(def[j], e[j])
    BY <1>3 DEF IsValue
  <2>. QED  BY <1>2, <2>1, OnFields
<1>. QED  BY <1>2, <1>3, <1>4 DEF IsModel

(* A field of the table is one BuildFieldValue and SetFieldValue know.     *)
LEMMA FieldKnown ==
  ASSUME DefIsColumns, NEW i \in DOMAIN def
  PROVE  IsField(def[i])
BY DEF DefIsColumns, IsField

(* A struct read from a row, with the row's key as it holds it.            *)
LEMMA ReadModel ==
  ASSUME DefIsColumns, NEW row, IsRow(row),
         NEW m, m = [i \in DOMAIN def |-> SetFieldValue(def[i], row[i])]
  PROVE  IsModel(m) /\ m # <<>> /\ \A i \in DOMAIN def : m[i] = SetFieldValue(def[i], row[i])
<1>1. /\ DOMAIN m = DOMAIN def /\ m = [i \in DOMAIN m |-> m[i]]
      /\ \A i \in DOMAIN def : m[i] = SetFieldValue(def[i], row[i])
  OBVIOUS
<1>2. ASSUME NEW i \in DOMAIN def
      PROVE  IsValue(def[i], m[i])
  <2>1. row[i] = NULL \/ IsCell(def[i], row[i])
    BY DEF IsRow
  <2>. QED  BY <1>1, <2>1, FieldKnown, RoundTrip
<1>3. m \in Seq(Seq(Int)) /\ Len(m) = Len(def) /\ m # <<>>
  BY <1>1, <1>2, OnFields DEF IsValue
<1>. QED  BY <1>1, <1>2, <1>3 DEF IsModel

(* What is sent for a struct is a row.                                     *)
LEMMA ParametersAreRow ==
  ASSUME DefIsColumns, IsModel(model)
  PROVE  /\ IsRow(Parameters)
         /\ DOMAIN Parameters = DOMAIN def /\ Parameters = [i \in DOMAIN def |-> Parameters[i]]
         /\ \A i \in DOMAIN def : Parameters[i] = BuildFieldValue(def[i], model[i])
<1>1. /\ DOMAIN Parameters = DOMAIN def /\ Parameters = [i \in DOMAIN Parameters |-> Parameters[i]]
      /\ \A i \in DOMAIN def : Parameters[i] = BuildFieldValue(def[i], model[i])
  BY DEF Parameters
<1>2. ASSUME NEW i \in DOMAIN def PROVE IsCell(def[i], Parameters[i])
  <2>0. HDB_FT_INT64 = 2 /\ HDB_FT_CHAR_ARRAY = 5 /\ HDB_FT_TIMESTAMP_MS = 6
    BY DEF HDB_FT_INT64, HDB_FT_CHAR_ARRAY, HDB_FT_TIMESTAMP_MS
  <2>1. IsValue(def[i], model[i]) /\ def[i].size \in Nat
    BY DEF IsModel, DefIsColumns
  <2>2. CASE def[i].type = HDB_FT_CHAR_ARRAY
    BY <1>1, <2>0, <2>1, <2>2, CutText DEF BuildFieldValue, IsValue, IsCell, Typed
  <2>3. CASE def[i].type = HDB_FT_TIMESTAMP_MS
    <3>. DEFINE ms == model[i][1]
    <3>1. model[i] \in Seq(Int) /\ Len(model[i]) = 1 /\ ms \div 1000 \in DOMAIN LocalTime
      BY <2>0, <2>1, <2>3 DEF IsValue, Typed
    <3>2. ms \in Int
      BY <3>1
    <3>3. Parameters[i] = <<FormatTimestampMs(ms)>>
      BY <1>1, <2>0, <2>3 DEF BuildFieldValue
    <3>4. FormatTimestampMs(ms) \in Int /\ FormatTimestampMs(ms) \div 1000 \in DOMAIN Mktime
      BY <3>1, <3>2, TimeWritten
    <3>5. /\ Parameters[i] \in Seq(Int) /\ Len(Parameters[i]) = 1
          /\ Parameters[i][1] = FormatTimestampMs(ms)
      BY <3>3, <3>4
    <3>. QED  BY <2>0, <2>3, <3>4, <3>5 DEF IsCell, Typed
  <2>4. CASE def[i].type = HDB_FT_INT64
    BY <1>1, <2>0, <2>1, <2>4 DEF BuildFieldValue, IsValue, IsCell, Typed
  <2>. QED  BY <2>2, <2>3, <2>4 DEF DefIsColumns
<1>. QED  BY <1>1, <1>2, OnFields DEF IsCell

(* The record UPDATE makes of a row: its key, and the struct's fields.     *)
Updated(row) == [i \in DOMAIN def |-> IF def[i].pk THEN row[i] ELSE Parameters[i]]

LEMMA UpdatedIsRow ==
  ASSUME DefIsColumns, IsModel(model), NEW row, IsRow(row)
  PROVE  IsRow(Updated(row)) /\ Key(Updated(row)) = Key(row)
<1>1. /\ DOMAIN Updated(row) = DOMAIN def
      /\ Updated(row) = [i \in DOMAIN Updated(row) |-> Updated(row)[i]]
      /\ \A i \in DOMAIN def : Updated(row)[i] = IF def[i].pk THEN row[i] ELSE Parameters[i]
  BY DEF Updated
<1>2. IsRow(Parameters)
  BY ParametersAreRow
<1>3. \A i \in DOMAIN def : Updated(row)[i] = NULL \/ IsCell(def[i], Updated(row)[i])
  BY <1>1, <1>2 DEF IsRow
<1>4. IsRow(Updated(row))
  BY <1>1, <1>3, OnFields DEF IsCell
<1>5. \A i \in DOMAIN Columns : Columns[i].pk => Updated(row)[i] = row[i]
  BY <1>1 DEF DefIsColumns
<1>. QED  BY <1>4, <1>5, KeyEqual

(* The WHERE of the key fields finds the rows of the key: one or none.     *)
LEMMA FoundByKey ==
  ASSUME DefIsColumns, KeysUnique
  PROVE  /\ \A row \in rows : row \in Found <=> Key(row) = Key(Parameters)
         /\ Found \subseteq rows
         /\ Found = {} \/ \E row \in rows : Found = {row}
         /\ Cardinality(Found) = 1 <=> Found # {}
<1>1. ASSUME NEW row \in rows PROVE row \in Found <=> Key(row) = Key(Parameters)
  <2>1. row \in Found <=> \A i \in DOMAIN def : def[i].pk => row[i] = Parameters[i]
    BY DEF Found
  <2>2. DOMAIN def = DOMAIN Columns /\ \A i \in DOMAIN def : def[i].pk = Columns[i].pk
    BY DEF DefIsColumns
  <2>. QED  BY <2>1, <2>2, KeyEqual
<1>2. Found \subseteq rows
  BY DEF Found
<1>3. Found = {} \/ \E row \in rows : Found = {row}
  <2>1. \A r, s \in Found : r = s
    BY <1>1, <1>2 DEF KeysUnique
  <2>. QED  BY <1>2, <2>1
<1>4. Cardinality(Found) = 1 <=> Found # {}
  <2>1. Cardinality({}) = 0
    BY FS_EmptySet
  <2>2. \A row : Cardinality({row}) = 1
    BY FS_Singleton
  <2>3. CASE Found = {}
    BY <2>1, <2>3
  <2>4. CASE \E row \in rows : Found = {row}
    BY <2>2, <2>4
  <2>. QED  BY <1>3, <2>3, <2>4
<1>. QED  BY <1>1, <1>2, <1>3, <1>4

-----------------------------------------------------------------------------
(* The invariant, step by step.                                            *)

(* With the metadata as they are, what a step owes the invariant.          *)
LEMMA Preserved ==
  ASSUME IInv, catalog' = catalog, made' = made, told' \in Codes,
         rows' # {} \/ model' # <<>> => made.ok,
         \A row \in rows' : IsRow(row),
         model' # <<>> => IsModel(model'),
         \A r, s \in rows' : Key(r) = Key(s) => r = s,
         origin' # <<>> =>
           /\ model' # <<>> /\ IsRow(origin')
           /\ \A i \in DOMAIN def : def[i].pk => model'[i] = SetFieldValue(def[i], origin'[i])
  PROVE  IInv'
<1>1. Columns' = Columns /\ def' = def
  BY DEF Columns, def
<1>2. \A row \in rows' : IsRow(row)'
  BY <1>1 DEF IsRow
<1>3. model' # <<>> => IsModel(model)'
  BY <1>1 DEF IsModel
<1>4. KeysUnique'
  BY <1>1 DEF KeysUnique, Key
<1>5. OriginKept'
  BY <1>1 DEF OriginKept, IsRow
<1>. QED  BY <1>2, <1>3, <1>4, <1>5 DEF IInv

(* The rows after a step that leaves the struct alone.                     *)
LEMMA RowsChange ==
  ASSUME IInv, catalog' = catalog, made' = made, told' \in Codes,
         UNCHANGED <<model, origin>>, made.ok,
         \A row \in rows' : IsRow(row),
         \A r, s \in rows' : Key(r) = Key(s) => r = s
  PROVE  IInv'
BY Preserved DEF IInv, OriginKept

(* A run of the generator.                                                 *)
LEMMA GenerateKeeps ==
  ASSUME IInv, Generate
  PROVE  IInv'
<1>1. rows = {} /\ model = <<>> /\ origin = <<>>
  BY DEF IInv, OriginKept, Generate
<1>2. IsCatalog(catalog)
  BY WithMetadata
<1>3. made'.ok \in BOOLEAN /\ (made'.ok => MadeOf(made'.datasets, catalog))
  BY <1>2, SchemaRead DEF Generate
<1>4. rows' = {} /\ model' = <<>> /\ origin' = <<>> /\ catalog' = catalog /\ told' = told
  BY <1>1 DEF Generate
<1>. QED  BY <1>3, <1>4 DEF IInv, OriginKept, KeysUnique

(* The caller's own changes of its struct.                                 *)
LEMMA FillKeeps ==
  ASSUME IInv, made.ok, NEW m \in Models, Fill(m)
  PROVE  IInv'
<1>1. IsModel(m) /\ m # <<>>
  BY WithMetadata, GivenModel
<1>2. model' = m /\ origin' = <<>> /\ rows' = rows /\ told' = told /\ catalog' = catalog /\ made' = made
  BY DEF Fill
<1>. QED  BY <1>1, <1>2, Preserved DEF IInv, KeysUnique

LEMMA ChangeKeeps ==
  ASSUME IInv, made.ok, NEW i \in DOMAIN def, ~def[i].pk, NEW v \in Values(def[i]), Change(i, v)
  PROVE  IInv'
<1>1. /\ model # <<>> /\ model' = [model EXCEPT ![i] = v]
      /\ UNCHANGED <<catalog, made, rows, origin, told>>
  BY DEF Change
<1>2. IsModel(model) /\ DefIsColumns
  BY <1>1, WithMetadata DEF IInv
<1>3. IsModel(model') /\ model' # <<>>
  BY <1>1, <1>2, ChangedModel
<1>4. \A j \in DOMAIN def : def[j].pk => model'[j] = model[j]
  BY <1>1, <1>2, ModelOnFields
<1>. QED  BY <1>1, <1>3, <1>4, Preserved DEF IInv, KeysUnique, OriginKept

(* Another client's row takes the place of the one with its key.           *)
LEMMA OtherWritesKeeps ==
  ASSUME IInv, made.ok, NEW row \in Rows, OtherWrites(row)
  PROVE  IInv'
<1>1. /\ rows' = {r \in rows : Key(r) # Key(row)} \cup {row}
      /\ UNCHANGED <<catalog, made, model, origin, told>>
  BY DEF OtherWrites
<1>2. IsRow(row)
  BY WithMetadata, GivenRow
<1>3. \A r \in rows' : IsRow(r)
  BY <1>1, <1>2 DEF IInv
<1>4. \A r, s \in rows' : Key(r) = Key(s) => r = s
  BY <1>1 DEF IInv, KeysUnique
<1>. QED  BY <1>1, <1>3, <1>4, RowsChange DEF IInv

(* What every call of CRUD finds.                                          *)
LEMMA OnCall ==
  ASSUME IInv, Called
  PROVE  /\ made.ok /\ DefIsColumns /\ IsModel(model) /\ KeysUnique
         /\ \A row \in rows : IsRow(row)
         /\ catalog' = catalog /\ made' = made
BY WithMetadata DEF IInv, Called

LEMMA CallRejected ==
  ASSUME IInv, Called, NEW code \in Codes, Rejected(code)
  PROVE  IInv'
<1>1. UNCHANGED <<rows, model, origin>> /\ told' \in Codes
  BY DEF Rejected
<1>. QED  BY <1>1, OnCall, RowsChange DEF KeysUnique

LEMMA CallRuns ==
  ASSUME IInv, Called, NEW code \in Codes, NEW after, Runs(after, code),
         \A row \in after : IsRow(row),
         \A r, s \in after : Key(r) = Key(s) => r = s
  PROVE  IInv'
<1>1. UNCHANGED <<model, origin>> /\ told' \in Codes /\ (rows' = after \/ rows' = rows)
  BY DEF Runs, Codes
<1>2. \A row \in rows' : IsRow(row)
  BY <1>1, OnCall
<1>3. \A r, s \in rows' : Key(r) = Key(s) => r = s
  BY <1>1, OnCall DEF KeysUnique
<1>. QED  BY <1>1, <1>2, <1>3, OnCall, RowsChange

(* INSERT adds a row whose key no row has.                                 *)
LEMMA InsertKeeps ==
  ASSUME IInv, InsertModel
  PROVE  IInv'
<1>1. Called
  BY DEF InsertModel
<1>2. CASE \E code \in {"MODEL_DEF", "DB_EXEC"} : Rejected(code)
  BY <1>1, <1>2, CallRejected DEF Codes
<1>3. CASE Runs(rows \cup {Parameters}, "OK") /\ ~\E row \in rows : Key(row) = Key(Parameters)
  <2>. DEFINE after == rows \cup {Parameters}
  <2>1. \A row \in after : IsRow(row)
    BY <1>1, OnCall, ParametersAreRow
  <2>2. \A r, s \in after : Key(r) = Key(s) => r = s
    BY <1>1, <1>3, OnCall DEF KeysUnique
  <2>3. Runs(after, "OK") /\ "OK" \in Codes
    BY <1>3 DEF Codes
  <2>. HIDE DEF after
  <2>. QED  BY <1>1, <2>1, <2>2, <2>3, CallRuns
<1>. QED  BY <1>2, <1>3 DEF InsertModel

(* UPDATE replaces what it found by rows of the same key.                  *)
AfterUpdate == (rows \ Found) \cup {Updated(row) : row \in Found}

LEMMA AfterUpdateGood ==
  ASSUME DefIsColumns, IsModel(model), KeysUnique, \A row \in rows : IsRow(row)
  PROVE  /\ \A row \in AfterUpdate : IsRow(row)
         /\ \A r, s \in AfterUpdate : Key(r) = Key(s) => r = s
<1>1. \A row \in Found : row \in rows /\ IsRow(Updated(row)) /\ Key(Updated(row)) = Key(row)
  BY FoundByKey, UpdatedIsRow
<1>2. \A row \in AfterUpdate : IsRow(row)
  BY <1>1 DEF AfterUpdate
<1>3. \A row \in rows : row \in Found <=> Key(row) = Key(Parameters)
  BY FoundByKey
<1>4. SUFFICES ASSUME NEW r \in AfterUpdate, NEW s \in AfterUpdate, Key(r) = Key(s)
               PROVE  r = s
  BY <1>2
<1>5. CASE r \in rows \ Found /\ s \in rows \ Found
  BY <1>4, <1>5 DEF KeysUnique
<1>6. CASE r \in rows \ Found /\ s \notin rows \ Found
  <2>1. PICK u \in Found : s = Updated(u)
    BY <1>6 DEF AfterUpdate
  <2>. QED  BY <1>1, <1>3, <1>4, <1>6, <2>1
<1>7. CASE r \notin rows \ Found /\ s \in rows \ Found
  <2>1. PICK u \in Found : r = Updated(u)
    BY <1>7 DEF AfterUpdate
  <2>. QED  BY <1>1, <1>3, <1>4, <1>7, <2>1
<1>8. CASE r \notin rows \ Found /\ s \notin rows \ Found
  <2>1. PICK u \in Found : r = Updated(u)
    BY <1>8 DEF AfterUpdate
  <2>2. PICK v \in Found : s = Updated(v)
    BY <1>8 DEF AfterUpdate
  <2>3. u = v
    BY <1>1, <1>4, <2>1, <2>2 DEF KeysUnique
  <2>. QED  BY <2>1, <2>2, <2>3
<1>. QED  BY <1>5, <1>6, <1>7, <1>8

LEMMA UpdateKeeps ==
  ASSUME IInv, UpdateModel
  PROVE  IInv'
<1>1. Called
  BY DEF UpdateModel
<1>2. CASE \E code \in {"MODEL_DEF", "DB_EXEC"} : Rejected(code)
  BY <1>1, <1>2, CallRejected DEF Codes
<1>3. CASE Runs(AfterUpdate, CodeFor(Found))
  <2>1. /\ \A row \in AfterUpdate : IsRow(row)
        /\ \A r, s \in AfterUpdate : Key(r) = Key(s) => r = s
    BY <1>1, OnCall, AfterUpdateGood
  <2>2. CodeFor(Found) \in Codes
    BY DEF CodeFor, Codes
  <2>. QED  BY <1>1, <1>3, <2>1, <2>2, CallRuns
<1>. QED  BY <1>2, <1>3 DEF UpdateModel, AfterUpdate, Updated

LEMMA DeleteKeeps ==
  ASSUME IInv, DeleteModel
  PROVE  IInv'
<1>1. Called
  BY DEF DeleteModel
<1>2. CASE \E code \in {"MODEL_DEF", "DB_EXEC"} : Rejected(code)
  BY <1>1, <1>2, CallRejected DEF Codes
<1>3. CASE Runs(rows \ Found, CodeFor(Found))
  <2>. DEFINE after == rows \ Found
  <2>1. \A row \in after : IsRow(row)
    BY <1>1, OnCall
  <2>2. \A r, s \in after : Key(r) = Key(s) => r = s
    BY <1>1, OnCall DEF KeysUnique
  <2>3. Runs(after, CodeFor(Found)) /\ CodeFor(Found) \in Codes
    BY <1>3 DEF CodeFor, Codes
  <2>. HIDE DEF after
  <2>. QED  BY <1>1, <2>1, <2>2, <2>3, CallRuns
<1>. QED  BY <1>2, <1>3 DEF DeleteModel

(* SELECT puts a row that was found into the struct, its key as it reads.  *)
LEMMA SelectKeeps ==
  ASSUME IInv, SelectModelByPk
  PROVE  IInv'
<1>1. Called /\ rows' = rows
  BY DEF SelectModelByPk
<1>2. /\ made.ok /\ DefIsColumns /\ IsModel(model) /\ KeysUnique
      /\ \A row \in rows : IsRow(row)
      /\ catalog' = catalog /\ made' = made
  BY <1>1, OnCall
<1>3. CASE UNCHANGED <<model, origin>> /\ told' \in Codes
  BY <1>1, <1>2, <1>3, RowsChange DEF KeysUnique
<1>4. CASE /\ told' = "OK"
           /\ \E row \in Found :
                /\ model' = [i \in DOMAIN def |-> SetFieldValue(def[i], row[i])]
                /\ origin' = row
  <2>1. PICK row \in Found : /\ model' = [i \in DOMAIN def |-> SetFieldValue(def[i], row[i])]
                             /\ origin' = row
    BY <1>4
  <2>2. IsRow(row)
    BY <1>2 DEF Found
  <2>3. /\ IsModel(model') /\ model' # <<>>
        /\ \A i \in DOMAIN def : model'[i] = SetFieldValue(def[i], row[i])
    BY <1>2, <2>1, <2>2, ReadModel
  <2>4. \A r, s \in rows' : Key(r) = Key(s) => r = s
    BY <1>1, <1>2 DEF KeysUnique
  <2>5. told' \in Codes
    BY <1>4 DEF Codes
  <2>. QED  BY <1>1, <1>2, <2>1, <2>2, <2>3, <2>4, <2>5, Preserved
<1>. QED  BY <1>3, <1>4 DEF SelectModelByPk, Rejected, Codes

(* IInv holds at the start and every step keeps it.                        *)
LEMMA InitIInv ==
  ASSUME Init
  PROVE  IInv
BY DEF Init, IInv, KeysUnique, OriginKept, Codes

LEMMA NextIInv ==
  ASSUME IInv, [Next]_vars
  PROVE  IInv'
<1>1. CASE UNCHANGED vars
  <2>1. /\ catalog' = catalog /\ made' = made /\ rows' = rows /\ model' = model
        /\ origin' = origin /\ told' = told
    BY <1>1 DEF vars
  <2>. QED  BY <2>1, Preserved DEF IInv, KeysUnique, OriginKept
<1>2. CASE Generate
  BY <1>2, GenerateKeeps
<1>3. CASE made.ok /\ \E m \in Models : Fill(m)
  BY <1>3, FillKeeps
<1>4. CASE made.ok /\ \E i \in DOMAIN def : ~def[i].pk /\ \E v \in Values(def[i]) : Change(i, v)
  BY <1>4, ChangeKeeps
<1>5. CASE made.ok /\ \E row \in Rows : OtherWrites(row)
  BY <1>5, OtherWritesKeeps
<1>6. CASE InsertModel \/ UpdateModel \/ DeleteModel \/ SelectModelByPk
  BY <1>6, InsertKeeps, UpdateKeeps, DeleteKeeps, SelectKeeps
<1>. QED  BY <1>1, <1>2, <1>3, <1>4, <1>5, <1>6 DEF Next

(* The invariant holds in every run of the generator and of CRUD.          *)
THEOREM Invariant == Spec => []IInv
BY InitIInv, NextIInv, PTL DEF Spec

-----------------------------------------------------------------------------
(* The theorems.                                                           *)

(* TypeOK: values are of their types, rows as long as the table is wide,   *)
(* and no text in the struct runs over the array it has there.             *)
LEMMA InvariantTypes ==
  ASSUME IInv
  PROVE  TypeOK
<1>1. \A row \in rows : Len(row) = Len(Columns)
  BY DEF IInv, IsRow
<1>2. ASSUME model # <<>>
      PROVE  /\ Len(model) = Len(def)
             /\ \A i \in DOMAIN def : def[i].type = HDB_FT_CHAR_ARRAY => Len(model[i]) <= def[i].size
  BY <1>2 DEF IInv, IsModel, IsValue
<1>. QED  BY <1>1, <1>2 DEF IInv, TypeOK, Codes

(* Rows and structs keep their types and widths.                           *)
THEOREM TypeCorrect == Spec => []TypeOK
BY Invariant, InvariantTypes, PTL

(* GeneratedDescribes: whatever tables the database has, the metadata the  *)
(* generator makes of them describe every table by its own columns and     *)
(* key, describe nothing else, and pass the server's registry.             *)
LEMMA InvariantDescribes ==
  ASSUME IInv
  PROVE  GeneratedDescribes
BY WithMetadata, MadeDescribes DEF IInv, GeneratedDescribes

(* The metadata describe the tables in every state.                        *)
THEOREM Generated == Spec => []GeneratedDescribes
BY Invariant, InvariantDescribes, PTL

(* The rows a call of CRUD changes have the key of the struct.             *)
Changed == (rows \ rows') \cup (rows' \ rows)

LEMMA ChangesKeyed ==
  ASSUME IInv, InsertModel \/ UpdateModel \/ DeleteModel, NEW row \in Changed
  PROVE  Key(row) = Key(Parameters)
<1>1. Called
  BY DEF InsertModel, UpdateModel, DeleteModel
<1>2. DefIsColumns /\ IsModel(model) /\ KeysUnique /\ \A r \in rows : IsRow(r)
  BY <1>1, OnCall
<1>3. \A r \in Found : Key(r) = Key(Parameters) /\ Key(Updated(r)) = Key(Parameters)
  BY <1>2, FoundByKey, UpdatedIsRow
<1>4. CASE rows' = rows
  BY <1>4 DEF Changed
<1>5. CASE rows' = rows \cup {Parameters}
  BY <1>5 DEF Changed
<1>6. CASE rows' = AfterUpdate
  BY <1>3, <1>6 DEF Changed, AfterUpdate
<1>7. CASE rows' = rows \ Found
  BY <1>3, <1>7 DEF Changed
<1>. QED  BY <1>4, <1>5, <1>6, <1>7 DEF InsertModel, UpdateModel, DeleteModel, Runs, Rejected,
                                       AfterUpdate, Updated

(* What the return code of a call says of the rows.                        *)
LEMMA ToldIsDone ==
  ASSUME IInv
  PROVE  /\ told' = "NO_RECORD" /\ (UpdateModel \/ DeleteModel) => Changed = {}
         /\ told' = "OK" /\ DeleteModel => Cardinality(Changed) = 1
         /\ told' = "OK" /\ (InsertModel \/ UpdateModel) => Parameters \in rows'
<1>1. ASSUME Called
      PROVE  /\ DefIsColumns /\ IsModel(model) /\ KeysUnique
             /\ \A row \in rows : row \in Found <=> Key(row) = Key(Parameters)
             /\ Found \subseteq rows
             /\ Found = {} \/ \E row \in rows : Found = {row}
             /\ Cardinality(Found) = 1 <=> Found # {}
  BY <1>1, OnCall, FoundByKey
<1>2. ASSUME told' = "NO_RECORD", UpdateModel \/ DeleteModel PROVE Changed = {}
  <2>1. Called
    BY <1>2 DEF UpdateModel, DeleteModel
  <2>2. CASE rows' = rows
    BY <2>2 DEF Changed
  <2>3. CASE rows' # rows
    <3>1. CodeFor(Found) = "NO_RECORD" /\ (rows' = AfterUpdate \/ rows' = rows \ Found)
      BY <1>2, <2>3 DEF UpdateModel, DeleteModel, Runs, Rejected, AfterUpdate, Updated
    <3>2. Found = {}
      BY <1>1, <2>1, <3>1 DEF CodeFor
    <3>3. rows' = rows
      BY <3>1, <3>2 DEF AfterUpdate
    <3>. QED  BY <2>3, <3>3
  <2>. QED  BY <2>2, <2>3
<1>3. ASSUME told' = "OK", DeleteModel PROVE Cardinality(Changed) = 1
  <2>1. Called
    BY <1>3 DEF DeleteModel
  <2>2. rows' = rows \ Found /\ CodeFor(Found) = "OK"
    BY <1>3 DEF DeleteModel, Runs, Rejected
  <2>3. Found # {}
    BY <1>1, <2>1, <2>2 DEF CodeFor
  <2>4. PICK row \in rows : Found = {row}
    BY <1>1, <2>1, <2>3
  <2>5. Changed = {row}
    BY <2>2, <2>4 DEF Changed
  <2>. QED  BY <2>5, FS_Singleton
<1>4. ASSUME told' = "OK", InsertModel PROVE Parameters \in rows'
  BY <1>4 DEF InsertModel, Runs, Rejected
<1>5. ASSUME told' = "OK", UpdateModel PROVE Parameters \in rows'
  <2>1. Called
    BY <1>5 DEF UpdateModel
  <2>2. rows' = AfterUpdate /\ CodeFor(Found) = "OK"
    BY <1>5 DEF UpdateModel, Runs, Rejected, AfterUpdate, Updated
  <2>3. PICK row \in Found : TRUE
    BY <1>1, <2>1, <2>2 DEF CodeFor
  <2>4. \A i \in DOMAIN def : def[i].pk => row[i] = Parameters[i]
    BY <2>3 DEF Found
  <2>5. Parameters = [i \in DOMAIN def |-> Parameters[i]]
    BY <1>1, <2>1, ParametersAreRow
  <2>6. Updated(row) = Parameters
    <3>1. [i \in DOMAIN def |-> IF def[i].pk THEN row[i] ELSE Parameters[i]]
            = [i \in DOMAIN def |-> Parameters[i]]
      BY <2>4
    <3>. QED  BY <2>5, <3>1 DEF Updated
  <2>. QED  BY <2>2, <2>3, <2>6 DEF AfterUpdate
<1>. QED  BY <1>2, <1>3, <1>4, <1>5

(* WritesOneRow: a call of CRUD changes no row but the one of the struct's *)
(* key, and tells of it what is so.                                        *)
THEOREM OneRow == Spec => WritesOneRow
<1>1. ASSUME IInv
      PROVE  LET changed == (rows \ rows') \cup (rows' \ rows)
             IN /\ \A row \in changed :
                     InsertModel \/ UpdateModel \/ DeleteModel => Key(row) = Key(Parameters)
                /\ told' = "NO_RECORD" /\ (UpdateModel \/ DeleteModel) => changed = {}
                /\ told' = "OK" /\ DeleteModel => Cardinality(changed) = 1
                /\ told' = "OK" /\ (InsertModel \/ UpdateModel) => Parameters \in rows'
  BY <1>1, ChangesKeyed, ToldIsDone DEF Changed
<1>. QED  BY <1>1, Invariant, PTL DEF WritesOneRow

(* What an UPDATE of a struct that was read makes of the row read.         *)
LEMMA WrittenBack ==
  ASSUME IInv, told' = "OK", origin \in rows, UpdateModel,
         \A i \in DOMAIN def : def[i].pk => Survives(def[i], origin[i])
  PROVE  \E row \in rows' :
           /\ Key(row) = Key(origin)
           /\ \A i \in DOMAIN def :
                model[i] = SetFieldValue(def[i], origin[i]) =>
                  (row[i] = origin[i] <=> Survives(def[i], origin[i]))
<1>1. Called
  BY DEF UpdateModel
<1>2. DefIsColumns /\ IsModel(model) /\ KeysUnique /\ \A row \in rows : IsRow(row)
  BY <1>1, OnCall
<1>3. rows' = AfterUpdate
  BY DEF UpdateModel, Runs, Rejected, AfterUpdate, Updated
<1>4. \A i \in DOMAIN def : Parameters[i] = BuildFieldValue(def[i], model[i])
  BY <1>2, ParametersAreRow
<1>5. ASSUME NEW i \in DOMAIN def, model[i] = SetFieldValue(def[i], origin[i])
      PROVE  Parameters[i] = origin[i] <=> Survives(def[i], origin[i])
  <2>1. IsField(def[i]) /\ (origin[i] = NULL \/ IsCell(def[i], origin[i]))
    BY <1>2, FieldKnown DEF IsRow
  <2>. QED  BY <1>4, <1>5, <2>1, RoundTrip
<1>6. origin # <<>>
  <2>1. Len(origin) = Len(Columns) /\ Len(Columns) # 0
    BY <1>2 DEF IsRow, DefIsColumns
  <2>. QED  BY <2>1
<1>7. \A i \in DOMAIN def : def[i].pk => Parameters[i] = origin[i]
  BY <1>5, <1>6 DEF IInv, OriginKept
<1>8. origin \in Found
  BY <1>7 DEF Found
<1>9. Updated(origin) \in rows' /\ Key(Updated(origin)) = Key(origin)
  BY <1>2, <1>3, <1>8, UpdatedIsRow DEF AfterUpdate
<1>10. ASSUME NEW i \in DOMAIN def, model[i] = SetFieldValue(def[i], origin[i])
       PROVE  Updated(origin)[i] = origin[i] <=> Survives(def[i], origin[i])
  <2>1. Updated(origin)[i] = IF def[i].pk THEN origin[i] ELSE Parameters[i]
    BY DEF Updated
  <2>. QED  BY <1>5, <1>10, <2>1
<1>. QED  BY <1>9, <1>10

(* ReadThenWriteKeeps: a record that is read, changed and written back is  *)
(* the record that was read, and the fields that keep their value are      *)
(* those whose value survives the struct.                                  *)
THEOREM RoundTripKeeps == Spec => ReadThenWriteKeeps
<1>1. ASSUME IInv
      PROVE  told' = "OK" /\ origin \in rows /\ UpdateModel
             /\ (\A i \in DOMAIN def : def[i].pk => Survives(def[i], origin[i])) =>
               \E row \in rows' :
                 /\ Key(row) = Key(origin)
                 /\ \A i \in DOMAIN def :
                      model[i] = SetFieldValue(def[i], origin[i]) =>
                        (row[i] = origin[i] <=> Survives(def[i], origin[i]))
  BY <1>1, WrittenBack
<1>. QED  BY <1>1, Invariant, PTL DEF ReadThenWriteKeeps

=============================================================================
