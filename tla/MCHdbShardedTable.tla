--------------------------- MODULE MCHdbShardedTable ---------------------------
(* Model values for HdbShardedTable: days of three hours, instant 0 is     *)
(* hour 1 of day 0, so that UTC days differ from local ones.  The calendar *)
(* begins before the first instant and goes on past MaxTime, for mktime.   *)
EXTENDS HdbShardedTable

At(number) == [day |-> number \div 3, hour |-> number % 3]

(* Hour 1 of day 1 (number 4) is skipped.                                  *)
SkipsAnHour == [t \in -1 .. 14 |-> At(IF t < 3 THEN t + 1 ELSE t + 2)]

(* Midnight of day 1 (number 3) is skipped.                                *)
SkipsMidnight == [t \in -1 .. 14 |-> At(IF t < 2 THEN t + 1 ELSE t + 2)]

(* Only the second calendar lacks a midnight.                              *)
ASSUME MidnightAssumption == NoMidnightSkipped <=> Clock # SkipsMidnight

(* Leaves and groups; a leaf is about the root dataset unless it is At.    *)
Value(field, op, value) ==
  [type |-> "VALUE", source |-> 0, field |-> field, op |-> op, low |-> value, high |-> 0]
Bound(op, value) == Value("time", op, value)
Between(low, high) == [Bound("BETWEEN", low) EXCEPT !.type = "BETWEEN", !.high = high]
OneOf(field, values) ==
  [type |-> "IN", source |-> 0, field |-> field, op |-> "IN", values |-> values]
Null(field, op) == [type |-> "NULL", source |-> 0, field |-> field, op |-> op]
Fields(source, field, op, right, rightField) ==
  [type |-> "FIELD_COMPARE", source |-> source, field |-> field, op |-> op,
   right |-> right, rightField |-> rightField]
Of(source, leaf) == [leaf EXCEPT !.source = source]
Group(logic, children) == [type |-> "GROUP", logic |-> logic, children |-> children]
Level1 == Value("level", "EQ", 1)

Source(id, join, dataset, on) ==
  [id |-> id, type |-> IF id = 0 THEN "ROOT" ELSE "JOIN", parent |-> id - 1,
   join |-> join, dataset |-> dataset, on |-> on]
Alarm == <<Source(0, "NONE", "alarm", -1)>>
Column(source, field) == [source |-> source, field |-> field]
RowColumns == {Column(0, "key"), Column(0, "level"), Column(0, "time")}

(* A query on the dataset alone, its tree the last of the conditions: as a *)
(* SELECT and as what an UPDATE or DELETE takes.                           *)
Query(time, wheres, conditions, limit) ==
  [time |-> time, wheres |-> wheres, conditions |-> conditions, root |-> Len(conditions) - 1,
   sources |-> Alarm, selects |-> RowColumns, orders |-> <<>>, limit |-> limit, offset |-> 0]

ForDml(query) == [query EXCEPT !.selects = {}]

(* The ways to give a route range, one query each.                         *)
RangeQueries ==
  {Query(<<1, 4>>, <<>>, <<>>, 0),                        (* days 0 and 1       *)
   Query(<<2, 4>>, <<Level1>>, <<>>, 1),                  (* day 1              *)
   Query(<<0, 7>>, <<Bound("GT", 2)>>, <<>>, 0),          (* days 1 and 2       *)
   Query(<<0, 8>>, <<Level1>>, <<>>, 0),                  (* too many days      *)
   Query(<<5, 11>>, <<Bound("NE", 6)>>, <<>>, 0),         (* a missing table    *)
   Query(<<>>, <<Bound("EQ", 3)>>, <<>>, 0),
   Query(<<>>, <<Bound("GE", 1), Bound("LE", 2)>>, <<>>, 1),
   Query(<<>>, <<Bound("GE", 1)>>, <<Bound("LE", MaxTime)>>, 0),
   Query(<<>>, <<>>, <<Between(2, 3)>>, 0),
   Query(<<>>, <<Bound("NE", 3)>>, <<Between(1, 6)>>, 0),
   Query(<<>>, <<>>, <<Between(3, 2)>>, 0),
   Query(<<>>, <<>>, <<OneOf("time", {2, 3})>>, 0),       (* no range           *)
   Query(<<1, 4>>, <<>>, <<OneOf("time", {2, 6})>>, 0),
   Query(<<>>, <<Level1>>, <<Bound("LT", 4)>>, 0)}        (* no begin           *)

(* Condition trees over a few comparisons.                                 *)
TreeQueries ==
  {Query(time, <<>>, <<a, Bound("LT", 3), Group(logic, <<0, 1>>)>>, 0) :
     time \in {<<>>, <<1, 7>>, <<2, 4>>}, a \in {Level1, Bound("GE", 2), Bound("EQ", 6)},
     logic \in {"AND", "OR"}}
  \cup
  {Query(time, <<>>,
         <<a, Bound("LT", 2), Group("OR", <<0, 1>>), Bound("LE", 3), Group("AND", <<2, 3>>)>>, 0) :
     time \in {<<>>, <<1, 7>>, <<2, 4>>}, a \in {Level1, Bound("EQ", 3)}}

(* Two points, one of them named by the level of a row.                    *)
Points == [point |-> {[key |-> 1, level |-> 2, time |-> 2], [key |-> 3, level |-> 1, time |-> 7]}]

(* A left or inner join of s0 with a point, its ON condition first among   *)
(* the conditions; only the keys are selected.                             *)
Joins(dataset, time, wheres, conditions, on, root) ==
  {[Query(time, wheres, conditions, 0) EXCEPT
      !.sources = Alarm \o <<Source(1, join, dataset, on)>>, !.root = root,
      !.selects = {Column(0, "key"), Column(1, "key")}] : join \in {"LEFT", "INNER"}}

OnLevel == Fields(1, "key", "EQ", 0, "level")

JoinQueries ==
  Joins("point", <<1, 7>>, <<Level1>>, <<OnLevel>>, 0, -1)
  \cup Joins("point", <<1, 7>>, <<Of(1, Value("level", "GE", 2))>>, <<OnLevel>>, 0, -1)
  \cup Joins("point", <<1, 7>>, <<>>, <<OnLevel, Of(1, Null("key", "IS NULL"))>>, 0, 1)
  \cup Joins("point", <<1, 7>>, <<>>, <<OnLevel, Of(1, Null("key", "IS NOT NULL"))>>, 0, 1)
  (* comparisons of ON bound no range, neither do those of a joined time  *)
  \cup Joins("point", <<1, 7>>, <<>>,
             <<OnLevel, Bound("LT", 3), Group("AND", <<0, 1>>)>>, 2, -1)
  \cup Joins("point", <<1, 7>>, <<>>,
             <<OnLevel, Of(1, Bound("GE", 3)), Group("OR", <<0, 1>>)>>, 2, -1)
  \cup Joins("point", <<1, 7>>, <<Of(1, Bound("LT", 3))>>, <<OnLevel>>, 0, -1)
  \cup Joins("point", <<>>, <<Bound("GE", 1), Of(1, Bound("LT", 3))>>, <<OnLevel>>, 0, -1)
  \cup Joins("point", <<>>, <<>>,
             <<OnLevel, Between(1, 3), Of(1, Between(1, 2)), Group("AND", <<1, 2>>)>>, 0, 3)
  \cup Joins("point", <<1, 7>>, <<>>,
             <<OnLevel, Fields(0, "time", "GE", 1, "time"), Group("OR", <<0, 1>>)>>, 2, -1)
  (* what ResolveSources refuses                                          *)
  \cup Joins("point", <<1, 7>>, <<>>, <<>>, -1, -1)
  \cup Joins("alarm", <<1, 7>>, <<>>, <<OnLevel>>, 0, -1)
  \cup Joins("device", <<1, 7>>, <<>>, <<OnLevel>>, 0, -1)

(* ON conditions BuildJoins refuses, each in the first of two joins or     *)
(* after it: a BETWEEN, a branch that relates nothing, a source joined     *)
(* later, and one of these behind another.                                 *)
OnNumber == Value("level", "EQ", 1)
OnAhead  == Fields(0, "key", "EQ", 2, "key")
OnRange  == [Between(1, 2) EXCEPT !.field = "level"]

RefusedOn(conditions, on, next) ==
  [Query(<<1, 7>>, <<>>, conditions, 0) EXCEPT
     !.sources = Alarm \o <<Source(1, "LEFT", "point", on), Source(2, "LEFT", "point", next)>>,
     !.root = -1, !.selects = {Column(0, "key")}]

RefusedJoinQueries ==
  {RefusedOn(<<OnLevel, second>>, 1, 0) : second \in {OnNumber, OnAhead, OnRange}}
  \cup {RefusedOn(<<OnLevel, first, second, Group(logic, <<1, 2>>)>>, 3, 0) :
          logic \in {"AND", "OR"}, first \in {OnNumber, OnAhead, OnRange}, second \in {OnAhead, OnRange}}
  \cup {RefusedOn(<<OnLevel, OnNumber, Group(logic, <<0, 1>>)>>, 0, 2) : logic \in {"AND", "OR"}}

(* Two joins, ordered by columns nobody selects, and the second page.      *)
PagedQueries ==
  {[Query(<<1, 7>>, <<>>, <<OnLevel, Fields(2, "level", "NE", 1, "level")>>, 1) EXCEPT
      !.sources = Alarm \o <<Source(1, "LEFT", "point", 0), Source(2, join, "point", 1)>>,
      !.root    = -1,
      !.selects = {Column(0, "key"), Column(1, "key"), Column(2, "key")},
      !.orders  = <<[source |-> 2, field |-> "time", desc |-> desc],
                    [source |-> 0, field |-> "level", desc |-> FALSE]>>,
      !.offset  = offset] :
     join \in {"LEFT", "INNER"}, desc \in BOOLEAN, offset \in {0, 1}}
  \cup
  {[Query(<<1, 7>>, <<>>, <<>>, limit) EXCEPT
      !.selects = {Column(0, "key")},
      !.orders  = <<[source |-> 0, field |-> "level", desc |-> TRUE],
                    [source |-> 0, field |-> "time", desc |-> FALSE]>>, !.offset = offset] :
     limit \in {0, 1}, offset \in {1, 2}}

AllQueries ==
  RangeQueries \cup TreeQueries \cup {ForDml(query) : query \in RangeQueries \cup TreeQueries}
  \cup JoinQueries \cup RefusedJoinQueries \cup PagedQueries
  \cup {ForDml(query) : query \in Joins("point", <<1, 2>>, <<Level1>>, <<OnLevel>>, 0, -1)}

(* Enough to cross the skipped midnight and to move a row to another day.  *)
FewQueries ==
  {ForDml(Query(time, wheres, <<>>, 0)) :
     time \in {<<0, 6>>, <<1, 2>>, <<2, 3>>}, wheres \in {<<>>, <<Bound("GE", 0)>>}}
  \cup {Query(time, <<>>, <<>>, 0) : time \in {<<0, 6>>, <<1, 2>>, <<2, 3>>}}

=============================================================================
