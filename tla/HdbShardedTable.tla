---------------------------- MODULE HdbShardedTable ----------------------------
(***************************************************************************)
(* A HDB_SHARD_DAY dataset: rows live in one physical table per local day, *)
(* and the server derives from a statement's conditions the day tables it  *)
(* names (CHdbQuerySqlBuilder, CHdbShardRouter).  A SELECT may join the    *)
(* dataset with fixed tables.                                              *)
(*                                                                         *)
(* Time is discrete: an instant stands for a moment inside an hour, a day  *)
(* has HoursPerDay hours.  Clock is the local calendar localtime_r and     *)
(* mktime work with; a day may lack an hour (daylight saving starts), no   *)
(* hour occurs twice.  The database stores the local time FormatTimestampMs *)
(* writes, here its number of hours, the stamp; a stored row has its stamp *)
(* as time.  The route field is a timestamp: the builder also takes one    *)
(* declared HDB_FT_INT64, and compares it with the text of a local time.   *)
(***************************************************************************)
EXTENDS Integers, Sequences, SequencesExt, FiniteSetsExt, FiniteSets

CONSTANTS
  Keys, Levels,
  MaxTime,         (* HDB_INT64_MAX_VALUE                                   *)
  RowTimes,        (* route times of the rows callers store                *)
  Clock,           (* local day and hour of every instant                  *)
  HoursPerDay,
  Existing,        (* days whose physical table exists                     *)
  Fixed,           (* the fixed tables of the registry: rows by name       *)
  Queries,         (* the queries callers send, see HdbLogicalTable        *)
  RouteUpdatable,  (* HDB_FIELD_UPDATE is set on the route field           *)
  DefaultLimit,    (* HDB_QUERY_DEFAULT_LIMIT                              *)
  MaxDayTables     (* 3660 in ResolveQueryTables                           *)

Times == 0 .. MaxTime - 1

ASSUME ShardAssumption ==
  /\ MaxTime \in Nat \ {0}
  /\ HoursPerDay \in Nat \ {0}
  /\ RowTimes \subseteq Times /\ 0 .. MaxTime \subseteq DOMAIN Clock /\ DOMAIN Clock \subseteq Int
  /\ \A t \in DOMAIN Clock : Clock[t].day \in Nat /\ Clock[t].hour \in 0 .. HoursPerDay - 1
  /\ RouteUpdatable \in BOOLEAN
  /\ DefaultLimit \in Nat \ {0}
  /\ MaxDayTables \in Nat \ {0}

Days == {Clock[t].day : t \in Times}

VARIABLES
  tables,     (* the rows of every day table                               *)
  statement,  (* the statement of the request being handled                *)
  answer,     (* its code, and the rows or the affected count              *)
  named       (* the route range and day tables of its SQL                 *)

vars == <<tables, statement, answer, named>>

-----------------------------------------------------------------------------
(* Local time.                                                             *)

HourNumber(day, hour) == day * HoursPerDay + hour

(* FormatTimestampMs, and the server's reading of a stored timestamp.      *)
Stamp(t) == HourNumber(Clock[t].day, Clock[t].hour)
Instant(stamp) == CHOOSE t \in DOMAIN Clock : Stamp(t) = stamp

(* Local time runs forward.                                                *)
ASSUME ClockAssumption ==
  \A t, u \in DOMAIN Clock : t < u => Stamp(t) < Stamp(u)

(* Every local day has a midnight, the day after the last one included.    *)
NoMidnightSkipped ==
  \A t \in Times : \A day \in Clock[0].day .. Clock[t].day + 1 :
    \E u \in DOMAIN Clock : Clock[u].day = day /\ Clock[u].hour = 0

(* mktime with tm_isdst = -1: a local time that does not exist is moved    *)
(* forward over the gap.                                                   *)
Mktime(day, hour) ==
  Min({t \in DOMAIN Clock : Stamp(t) >= HourNumber(day, hour)})

LocalDayStart(t) == Mktime(Clock[t].day, 0)
NextLocalDayStart(start) == Mktime(Clock[start].day + 1, Clock[start].hour)

(* Mutant: table names are built from UTC days.                            *)
DayTableUtc(t) == t \div HoursPerDay

(* BuildDayTableName: the suffix is the local day.                         *)
DayTable(t) == Clock[t].day

(* Mutant: the end of the range counts as a moment inside it.              *)
LastDayStartInclusive(end) == LocalDayStart(end)

LastDayStart(end) == LocalDayStart(end - 1)

(* ResolveQueryTables: one table per turn of the loop.                     *)
DayTables(begin, end) ==
  LET last == LastDayStart(end)
      start[n \in 0 .. MaxDayTables] ==
        IF n = 0 THEN LocalDayStart(begin)
        ELSE LET previous == start[n - 1]
             IN IF previous > last THEN previous ELSE NextLocalDayStart(previous)
      turns == {n \in 0 .. MaxDayTables : start[n] <= last}
  IN [n \in 1 .. Cardinality(turns) |-> DayTable(start[n - 1])]

-----------------------------------------------------------------------------
(* A query as HdbQueryAst builds it and the registry takes its fields: ids *)
(* are positions, children stand before their group.  The key and the      *)
(* level have one type; a FIELD_COMPARE of two types, which ValidateField- *)
(* Compare refuses, is left out.                                           *)

FieldNames == {"key", "level", "time"}

IsField(query, source, field) ==
  source \in 0 .. Len(query.sources) - 1 /\ field \in FieldNames

IsLeaf(query, c) ==
  /\ IsField(query, c.source, c.field)
  /\ c.type \in {"VALUE", "BETWEEN", "IN", "NULL", "FIELD_COMPARE"}
  /\ c.type \in {"VALUE", "FIELD_COMPARE"} => c.op \in {"EQ", "NE", "GT", "GE", "LT", "LE"}
  /\ c.type = "BETWEEN" => c.op = "BETWEEN"
  /\ c.type \in {"VALUE", "BETWEEN"} => {"low", "high"} \subseteq DOMAIN c
  /\ c.type = "IN" => "values" \in DOMAIN c
  /\ c.type = "FIELD_COMPARE" =>
       IsField(query, c.right, c.rightField) /\ (c.field = "time" <=> c.rightField = "time")
  /\ c.field = "time" =>
       /\ c.type = "VALUE" => c.low \in 0 .. MaxTime
       /\ c.type = "BETWEEN" => c.low \in 0 .. MaxTime /\ c.high \in 0 .. MaxTime
       /\ c.type = "IN" => c.values \subseteq 0 .. MaxTime

(* SQL has bags of rows where this module has sets, so a SELECT returns    *)
(* the key of s0: its rows differ then.                                    *)
IsQuery(query) ==
  /\ {"time", "wheres", "conditions"} \subseteq DOMAIN query
  /\ query.time \in {<<>>} \cup ((0 .. MaxTime) \X (0 .. MaxTime))
  /\ Len(query.sources) \in Nat \ {0} /\ DOMAIN query.sources = 1 .. Len(query.sources)
  /\ Len(query.conditions) \in Nat /\ DOMAIN query.conditions = 1 .. Len(query.conditions)
  /\ query.root \in -1 .. Len(query.conditions) - 1
  /\ \A n \in DOMAIN query.sources :
       /\ query.sources[n].id = n - 1
       /\ query.sources[n].type = IF n = 1 THEN "ROOT" ELSE "JOIN"
       /\ query.sources[n].on \in -1 .. Len(query.conditions) - 1
  /\ \A i \in DOMAIN query.conditions :
       LET c == query.conditions[i]
       IN IF c.type # "GROUP" THEN IsLeaf(query, c)
          ELSE c.logic \in {"AND", "OR"} /\ \A j \in DOMAIN c.children : c.children[j] \in 0 .. i - 2
  /\ \A i \in DOMAIN query.wheres :
       IsLeaf(query, query.wheres[i]) /\ query.wheres[i].type # "FIELD_COMPARE"
  /\ \A ref \in query.selects : IsField(query, ref.source, ref.field)
  /\ query.selects # {} => [source |-> 0, field |-> "key"] \in query.selects
  /\ Len(query.orders) \in Nat /\ DOMAIN query.orders = 1 .. Len(query.orders)
  /\ \A i \in DOMAIN query.orders :
       IsField(query, query.orders[i].source, query.orders[i].field)
  /\ query.limit \in Nat /\ query.offset \in Nat

ASSUME QueryAssumption == \A query \in Queries : IsQuery(query)

ASSUME FixedAssumption ==
  \A name \in DOMAIN Fixed :
    /\ IsFiniteSet(Fixed[name])
    /\ \A r \in Fixed[name] : r \in [key : Int, level : Int, time : 0 .. MaxTime]

-----------------------------------------------------------------------------
(* The route range of a query: ResolveRouteTimeRange.                      *)

(* Mutant: the children of an OR group bound the range too.                *)
AndedNodesOfAnyGroup(query) ==
  LET reach[id \in 0 .. query.root] ==
        LET c == query.conditions[id + 1]
        IN IF c.type = "GROUP" THEN UNION {reach[c.children[j]] : j \in DOMAIN c.children} ELSE {id}
  IN IF query.root = -1 THEN {} ELSE reach[query.root]

(* The leaves of the condition tree every matching row satisfies.          *)
AndedNodes(query) ==
  LET reach[id \in 0 .. query.root] ==
        LET c == query.conditions[id + 1]
        IN IF c.type # "GROUP" THEN {id}
           ELSE IF c.logic = "OR" THEN {}
           ELSE UNION {reach[c.children[j]] : j \in DOMAIN c.children}
  IN IF query.root = -1 THEN {} ELSE reach[query.root]

RouteLeaves(query) ==
  {leaf \in Range(query.wheres) \cup {query.conditions[id + 1] : id \in AndedNodes(query)} :
     leaf.type \in {"VALUE", "BETWEEN"} /\ leaf.source = 0 /\ leaf.field = "time"}

Begins(query) ==
  (IF query.time = <<>> THEN {} ELSE {query.time[1]})
  \cup {leaf.low : leaf \in {l \in RouteLeaves(query) : l.op \in {"EQ", "GE", "BETWEEN"}}}
  \cup {leaf.low + 1 : leaf \in {l \in RouteLeaves(query) : l.op = "GT"}}

Ends(query) ==
  (IF query.time = <<>> THEN {} ELSE {query.time[2]})
  \cup {leaf.low : leaf \in {l \in RouteLeaves(query) : l.op = "LT"}}
  \cup {leaf.low + 1 : leaf \in {l \in RouteLeaves(query) : l.op \in {"EQ", "LE"}}}
  \cup {leaf.high + 1 : leaf \in {l \in RouteLeaves(query) : l.op = "BETWEEN"}}

(* A bound that cannot be stepped past, or BETWEEN the wrong way round.    *)
BadLeaf(leaf) ==
  \/ leaf.op \in {"EQ", "GT", "LE"} /\ leaf.low = MaxTime
  \/ leaf.op = "BETWEEN" /\ (leaf.low > leaf.high \/ leaf.high = MaxTime)

RangeCode(query) ==
  IF \/ \E leaf \in RouteLeaves(query) : BadLeaf(leaf)
     \/ \E b \in Begins(query), e \in Ends(query) : b >= e
  THEN "HDB_ERR_QUERY_RANGE"
  ELSE IF Begins(query) = {} \/ Ends(query) = {} THEN "HDB_ERR_QUERY_NEED_TIME_RANGE"
  ELSE "HDB_OK"

RouteBegin(query) == Max(Begins(query))
RouteEnd(query)   == Min(Ends(query))

(* ResolveQueryTables for every query, as far as its range is sound.       *)
Routes ==
  [query \in Queries |->
     IF RangeCode(query) = "HDB_OK" THEN DayTables(RouteBegin(query), RouteEnd(query)) ELSE <<>>]

TablesOf(query) == Routes[query]

(* Mutant: no bound on the number of day tables.                           *)
QueryCodeUnbounded(query) == RangeCode(query)

QueryCode(query) ==
  IF RangeCode(query) # "HDB_OK" THEN RangeCode(query)
  ELSE IF Len(TablesOf(query)) > MaxDayTables THEN "HDB_ERR_QUERY_RANGE"
  ELSE "HDB_OK"

-----------------------------------------------------------------------------
(* The SQL of a query.                                                     *)

Logical == INSTANCE HdbLogicalTable WITH
             rows <- {[r EXCEPT !.time = Instant(@)] : r \in UNION Range(tables)}
JoinOn  == INSTANCE HdbJoinOn

(* FormatWhereParamValue and FormatValueForField: times become stamps.     *)
Formatted(leaf) ==
  IF leaf.type \in {"GROUP", "FIELD_COMPARE", "NULL"} \/ leaf.field # "time" THEN leaf
  ELSE IF leaf.type = "IN" THEN [leaf EXCEPT !.values = {Stamp(t) : t \in @}]
  ELSE [leaf EXCEPT !.low = Stamp(@), !.high = Stamp(@)]

Sql ==
  [query \in Queries |->
     [query EXCEPT !.time       = [i \in DOMAIN @ |-> Stamp(@[i])],
                   !.wheres     = [i \in DOMAIN @ |-> Formatted(@[i])],
                   !.conditions = [i \in DOMAIN @ |-> Formatted(@[i])]]]

StoredFixed == [name \in DOMAIN Fixed |-> {[r EXCEPT !.time = Stamp(@)] : r \in Fixed[name]}]

(* The root fields the leaves of a query refer to, ON conditions included. *)
LeftFields(query)  == {[source |-> c.source, field |-> c.field] :
                         c \in {x \in Range(query.conditions) : x.type # "GROUP"}}
RightFields(query) == {[source |-> c.right, field |-> c.rightField] :
                         c \in {x \in Range(query.conditions) : x.type = "FIELD_COMPARE"}}

(* Mutant: the right side of a field comparison is left out.               *)
ConditionFieldsLeftOnly(query) == LeftFields(query)

ConditionFields(query) == LeftFields(query) \cup RightFields(query)

(* CollectRootColumns: what the sub-selects of the day tables return.      *)
RootColumns(query) ==
  {"time"} \cup
  {ref.field : ref \in {x \in query.selects \cup ConditionFields(query)
                              \cup {[source |-> w.source, field |-> w.field] : w \in Range(query.wheres)}
                              \cup {[source |-> o.source, field |-> o.field] : o \in Range(query.orders)} :
                         x.source = 0}}

(* The columns of the root the outer statement names.                      *)
OuterColumns(query) ==
  LET roots  == {query.root} \cup {query.sources[n].on : n \in DOMAIN query.sources}
      leaves == {query.conditions[id + 1] :
                   id \in UNION {JoinOn!Leaves(query, root) : root \in roots \ {-1}}}
  IN {ref.field : ref \in {x \in query.selects : x.source = 0}}
     \cup {o.field : o \in {x \in Range(query.orders) : x.source = 0}}
     \cup {c.field : c \in {x \in leaves : x.source = 0}}
     \cup {c.rightField : c \in {x \in leaves : x.type = "FIELD_COMPARE" /\ x.right = 0}}

(* BuildRootSource: every day table is filtered by the route range and the *)
(* root's where items, before the joins.                                   *)
RootRows(query) ==
  {[column \in RootColumns(query) |-> r[column]] :
     r \in {x \in UNION {tables[TablesOf(query)[n]] : n \in DOMAIN TablesOf(query)} :
            /\ Stamp(RouteBegin(query)) <= x.time /\ x.time < Stamp(RouteEnd(query))
            /\ \A leaf \in Range(Sql[query].wheres) :
                 leaf.source = 0 => Logical!LeafHolds(leaf, <<x>>)}}

(* BuildWhere of a SELECT: the where items of the joined sources and the   *)
(* condition tree.                                                         *)
SelectWhere(query, joined) ==
  /\ \A leaf \in Range(Sql[query].wheres) :
       leaf.source # 0 => Logical!LeafHolds(leaf, joined)
  /\ Logical!TreeHolds(Sql[query], query.root, joined)

(* NormalizeResult turns the timestamp columns back.                       *)
Normalized(joined, query) ==
  [ref \in query.selects |->
     LET value == Logical!ValueOf(joined, ref.source, ref.field)
     IN IF ref.field = "time" THEN [i \in DOMAIN value |-> Instant(value[i])] ELSE value]

(* BuildWhere of an UPDATE or DELETE.                                      *)
DmlRows(query, day) ==
  {r \in tables[day] :
     /\ query.time # <<>> => Stamp(query.time[1]) <= r.time /\ r.time < Stamp(query.time[2])
     /\ Logical!WheresHold(Sql[query], <<r>>)
     /\ Logical!TreeHolds(Sql[query], query.root, <<r>>)}

NoTables == [begin |-> 0, end |-> 0, days |-> <<>>]
Named(query) ==
  [begin |-> RouteBegin(query), end |-> RouteEnd(query), days |-> TablesOf(query)]

StoredRows == [key : Keys, level : Levels, time : {Stamp(t) : t \in Times}]

(* The day tables hold rows, and a statement names at most MaxDayTables.   *)
TypeOK ==
  /\ tables \in [Days -> SUBSET StoredRows]
  /\ statement = Logical!Nothing \/ statement \in Logical!Statements
  /\ answer = Logical!Nothing \/ answer.kind \in {"failed", "rows", "affected"}
  /\ named \in [begin : Nat, end : Nat, days : BoundedSeq(Days, MaxDayTables)]

Init ==
  /\ tables = [day \in Days |-> {}]
  /\ statement = Logical!Nothing /\ answer = Logical!Nothing
  /\ named = NoTables

(* Ids are the caller's: it inserts an id once.                            *)
Send(s) ==
  /\ statement = Logical!Nothing
  /\ s.kind = "insert" => \A r \in UNION Range(tables) : r.key # s.row.key
  /\ statement' = s
  /\ UNCHANGED <<tables, answer, named>>

Fails(code) ==
  /\ answer' = [kind |-> "failed", code |-> code]
  /\ UNCHANGED <<tables, named>>

(* BuildInsert takes the table from the route field among the set items.   *)
InsertCode ==
  IF statement.kind = "insert_without_time" THEN "HDB_ERR_QUERY_NEED_TIME_RANGE"
  ELSE IF DayTable(statement.row.time) \notin Existing THEN "HDB_ERR_DB_EXEC"
  ELSE "HDB_OK"

Insert ==
  /\ statement.kind \in {"insert", "insert_without_time"}
  /\ \/ InsertCode # "HDB_OK" /\ Fails(InsertCode)
     \/ /\ InsertCode = "HDB_OK"
        /\ tables' = [tables EXCEPT ![DayTable(statement.row.time)] =
                        @ \cup {[key |-> statement.row.key, level |-> statement.row.level,
                                 time |-> Stamp(statement.row.time)]}]
        /\ answer' = [kind |-> "affected", count |-> 1]
        /\ UNCHANGED named

SourceCode(query, s) ==
  IF s.type = "ROOT" THEN "HDB_OK"
  ELSE IF s.parent \notin 0 .. s.id - 1 \/ s.on = -1 THEN "HDB_ERR_QUERY_RANGE"
  ELSE IF s.dataset = query.sources[1].dataset THEN "HDB_ERR_SHARD_DEF"
  ELSE IF s.dataset \in DOMAIN Fixed THEN "HDB_OK"
  ELSE "HDB_ERR_DATASET_NOT_FOUND"

(* ResolveSources: the first source that is refused.                       *)
SourcesCode(query) ==
  LET refused == {n \in DOMAIN query.sources : SourceCode(query, query.sources[n]) # "HDB_OK"}
  IN IF refused = {} THEN "HDB_OK" ELSE SourceCode(query, query.sources[Min(refused)])

(* BuildJoins: the first ON condition that is refused.                     *)
JoinsRefusal(query) ==
  LET refused == {s \in Range(query.sources) :
                    s.type = "JOIN" /\ ~JoinOn!ValidateJoinOnCondition(query, s.id, s.on)}
      first   == query.sources[Min({s.id : s \in refused}) + 1]
  IN JoinOn!JoinOnRefusal(query, first.id, first.on)

SelectCode(query) ==
  IF query.selects = {} THEN "HDB_ERR_PARAM"
  ELSE IF SourcesCode(query) # "HDB_OK" THEN SourcesCode(query)
  ELSE IF QueryCode(query) # "HDB_OK" THEN QueryCode(query)
  ELSE IF ~JoinOn!JoinsAccepted(query) THEN JoinsRefusal(query)
  ELSE IF \/ ~(Range(TablesOf(query)) \subseteq Existing)
          \/ ~(OuterColumns(query) \subseteq RootColumns(query)) THEN "HDB_ERR_DB_EXEC"
  ELSE "HDB_OK"

Select(query) ==
  \/ SelectCode(query) # "HDB_OK" /\ Fails(SelectCode(query))
  \/ /\ SelectCode(query) = "HDB_OK"
     /\ LET found == {joined \in Logical!Joined(RootRows(query), StoredFixed, Sql[query]) :
                         SelectWhere(query, joined)}
        IN \E page \in Logical!Pages(found, query) :
             answer' = [kind |-> "rows", found |-> {Normalized(joined, query) : joined \in page}]
     /\ named' = Named(query)
     /\ UNCHANGED tables

(* BuildExecute wants one source and nothing to return, BuildUpdate and    *)
(* BuildDelete want a condition and a single day table.                    *)
DmlCode(query) ==
  IF query.selects # {} \/ query.orders # <<>> THEN "HDB_ERR_QUERY_RANGE"
  ELSE IF SourcesCode(query) # "HDB_OK" THEN SourcesCode(query)
  ELSE IF Len(query.sources) # 1 THEN "HDB_ERR_QUERY_RANGE"
  ELSE IF query.wheres = <<>> /\ query.root = -1 THEN "HDB_ERR_QUERY_RANGE"
  ELSE IF QueryCode(query) # "HDB_OK" THEN QueryCode(query)
  ELSE IF Len(TablesOf(query)) # 1 THEN "HDB_ERR_QUERY_RANGE"
  ELSE IF TablesOf(query)[1] \notin Existing THEN "HDB_ERR_DB_EXEC"
  ELSE "HDB_OK"

(* The flags of the set fields are tested once the table is known.         *)
UpdateCode(query, set) ==
  IF DmlCode(query) \in {"HDB_OK", "HDB_ERR_DB_EXEC"} /\ set.field = "time" /\ ~RouteUpdatable
  THEN "HDB_ERR_FIELD_REF" ELSE DmlCode(query)

Assigned(r, set) ==
  IF set.field = "time" THEN [r EXCEPT !.time = Stamp(set.value)]
  ELSE [r EXCEPT !.level = set.value]

Hit(query) == DmlRows(query, TablesOf(query)[1])

(* The rows of the day table the statement hits are put in its place.      *)
Changes(query, rows) ==
  /\ tables' = [tables EXCEPT ![TablesOf(query)[1]] = (@ \ Hit(query)) \cup rows]
  /\ answer' = [kind |-> "affected", count |-> Cardinality(Hit(query))]
  /\ named' = Named(query)

Update(query, set) ==
  \/ UpdateCode(query, set) # "HDB_OK" /\ Fails(UpdateCode(query, set))
  \/ /\ UpdateCode(query, set) = "HDB_OK"
     /\ Changes(query, {Assigned(r, set) : r \in Hit(query)})

Delete(query) ==
  \/ DmlCode(query) # "HDB_OK" /\ Fails(DmlCode(query))
  \/ DmlCode(query) = "HDB_OK" /\ Changes(query, {})

(* HandleRequest: build the SQL and run it.                                *)
Execute ==
  /\ statement # Logical!Nothing /\ answer = Logical!Nothing
  /\ \/ Insert
     \/ statement.kind = "select" /\ Select(statement.query)
     \/ statement.kind = "update" /\ Update(statement.query, statement.set)
     \/ statement.kind = "delete" /\ Delete(statement.query)
  /\ UNCHANGED statement

(* The answer is sent and the server takes the next request.               *)
Return ==
  /\ answer # Logical!Nothing
  /\ statement' = Logical!Nothing /\ answer' = Logical!Nothing
  /\ named' = NoTables
  /\ UNCHANGED tables

Next == Execute \/ Return \/ \E s \in Logical!Statements : Send(s)

Spec == Init /\ [][Next]_vars

-----------------------------------------------------------------------------
(* Every row lies in the table of its own local day, where the router will *)
(* look for it.                                                            *)
RowsInTheirDay ==
  \A day \in Days : \A r \in tables[day] : Clock[Instant(r.time)].day = day

(* The day tables a query names are the local days of its half-open route  *)
(* range, each once: no day is scanned for nothing, none is left out.      *)
TablesAreTheDays ==
  named.days # <<>> =>
    /\ Range(named.days) = {Clock[t].day : t \in named.begin .. named.end - 1}
    /\ IsInjective(named.days)

(* PostgreSQL refuses a statement only when a day table it names does not  *)
(* exist: the union of the day tables returns every column the joins, the  *)
(* conditions and the order outside of it need.                            *)
OnlyMissingTablesFail ==
  answer.kind = "failed" /\ answer.code = "HDB_ERR_DB_EXEC" =>
    ~((IF statement.kind = "insert" THEN {DayTable(statement.row.time)}
       ELSE Range(TablesOf(statement.query))) \subseteq Existing)

(* The day tables together behave as one table: pruning, push-down below   *)
(* the joins, the single-table rule for DML and refusals are invisible in  *)
(* the answers.                                                            *)
ImplementsLogicalTable == Logical!Spec

=============================================================================
