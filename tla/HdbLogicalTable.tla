---------------------------- MODULE HdbLogicalTable ----------------------------
(***************************************************************************)
(* What a dataset promises its callers, whatever physical tables it lives  *)
(* in: one table of rows, which a SELECT may join with fixed tables.  A    *)
(* statement sees and changes exactly the rows its conditions describe, or *)
(* it is refused and changes nothing.                                      *)
(*                                                                         *)
(* A query has the sources and conditions of HdbJoinOn; its leaves carry   *)
(* the field, the operator and the values besides.                         *)
(***************************************************************************)
EXTENDS Integers, Sequences, FiniteSets, FiniteSetsExt

CONSTANTS
  Keys, Levels,          (* the fields of a row: id, level                 *)
  RowTimes,              (* and route time                                 *)
  Fixed,                 (* the rows of the tables to join with, by name   *)
  Queries,               (* the queries callers send                       *)
  DefaultLimit           (* HDB_QUERY_DEFAULT_LIMIT                        *)

VARIABLES
  rows,       (* the dataset                                               *)
  statement,  (* what the server works on                                  *)
  answer      (* its code, and the rows or the affected count              *)

Row == [key : Keys, level : Levels, time : RowTimes]
Set == [field : {"time"}, value : RowTimes] \cup [field : {"level"}, value : Levels]

Nothing == [kind |-> "none"]
Statements ==
  [kind : {"insert"}, row : Row] \cup [kind : {"insert_without_time"}]
  \cup [kind : {"select", "delete"}, query : Queries]
  \cup [kind : {"update"}, query : Queries, set : Set]

-----------------------------------------------------------------------------
(* SQL over joined rows: a sequence with the row of every source so far,   *)
(* NoRow where a left join found none.  A value is a sequence too, empty   *)
(* for NULL; a comparison with NULL is not true.                           *)

NoRow == [kind |-> "no_row"]

ValueOf(joined, source, field) ==
  IF joined[source + 1] = NoRow THEN <<>> ELSE <<joined[source + 1][field]>>

Compare(op, a, b) ==
  CASE op = "EQ" -> a = b
    [] op = "NE" -> a # b
    [] op = "GT" -> a > b
    [] op = "GE" -> a >= b
    [] op = "LT" -> a < b
    [] op = "LE" -> a <= b

LeafHolds(leaf, joined) ==
  LET value == ValueOf(joined, leaf.source, leaf.field)
      other == ValueOf(joined, leaf.right, leaf.rightField)
  IN CASE leaf.type = "NULL"    -> (value = <<>>) = (leaf.op = "IS NULL")
       [] leaf.type = "VALUE"   -> value # <<>> /\ Compare(leaf.op, value[1], leaf.low)
       [] leaf.type = "BETWEEN" -> value # <<>> /\ leaf.low <= value[1] /\ value[1] <= leaf.high
       [] leaf.type = "IN"      -> value # <<>> /\ value[1] \in leaf.values
       [] leaf.type = "FIELD_COMPARE" ->
            value # <<>> /\ other # <<>> /\ Compare(leaf.op, value[1], other[1])

(* The condition tree under a node; -1 is no tree.                         *)
TreeHolds(query, root, joined) ==
  LET true[id \in 0 .. root] ==
        LET c == query.conditions[id + 1]
        IN IF c.type # "GROUP" THEN LeafHolds(c, joined)
           ELSE IF c.logic = "AND" THEN \A j \in DOMAIN c.children : true[c.children[j]]
           ELSE \E j \in DOMAIN c.children : true[c.children[j]]
  IN root = -1 \/ true[root]

WheresHold(query, joined) ==
  \A i \in DOMAIN query.wheres : LeafHolds(query.wheres[i], joined)

(* FROM roots s0, then a JOIN per further source, left to right.           *)
Joined(roots, tables, query) ==
  LET join[n \in DOMAIN query.sources] ==
        IF n = 1 THEN {<<r>> : r \in roots}
        ELSE LET source     == query.sources[n]
                 pairs(left) == {joined \in {Append(left, r) : r \in tables[source.dataset]} :
                                   TreeHolds(query, source.on, joined)}
             IN UNION {IF pairs(left) = {} /\ source.join = "LEFT" THEN {Append(left, NoRow)}
                       ELSE pairs(left) : left \in join[n - 1]}
  IN join[Len(query.sources)]

(* ORDER BY: NULL comes after every value, before them when descending.    *)
ValueBefore(v, w) == v # <<>> /\ (w = <<>> \/ v[1] < w[1])

Before(a, b, orders) ==
  LET At(joined, n) == ValueOf(joined, orders[n].source, orders[n].field)
  IN \E n \in DOMAIN orders :
       /\ IF orders[n].desc THEN ValueBefore(At(b, n), At(a, n)) ELSE ValueBefore(At(a, n), At(b, n))
       /\ \A m \in 1 .. n - 1 : At(a, m) = At(b, m)

Limit(query) == IF query.limit = 0 THEN DefaultLimit ELSE query.limit

(* The pages LIMIT and OFFSET may cut from rows ordered with ties.         *)
Pages(found, query) ==
  LET skipped == Min({Cardinality(found), query.offset})
      size    == Min({Cardinality(found) - skipped, Limit(query)})
      LeadsTheRest(part) ==
        \A a \in part, b \in found \ part : ~Before(b, a, query.orders)
  IN {page \in kSubset(size, found) :
        \E skip \in kSubset(skipped, found \ page) :
          LeadsTheRest(skip) /\ LeadsTheRest(skip \cup page)}

Output(joined, query) ==
  [ref \in query.selects |-> ValueOf(joined, ref.source, ref.field)]

-----------------------------------------------------------------------------
(* The promise.                                                            *)

Matches(joined, query) ==
  /\ query.time # <<>> => query.time[1] <= joined[1].time /\ joined[1].time < query.time[2]
  /\ WheresHold(query, joined)
  /\ TreeHolds(query, query.root, joined)

Matching(query) == {r \in rows : Matches(<<r>>, query)}

Assigned(r, set) ==
  IF set.field = "time" THEN [r EXCEPT !.time = set.value] ELSE [r EXCEPT !.level = set.value]

Init ==
  /\ rows = {}
  /\ statement = Nothing /\ answer = Nothing

Send(s) ==
  /\ statement = Nothing
  /\ statement' = s
  /\ UNCHANGED <<rows, answer>>

Insert ==
  /\ statement.kind = "insert"
  /\ rows' = rows \cup {statement.row}
  /\ answer' = [kind |-> "affected", count |-> 1]

Select ==
  /\ statement.kind = "select" /\ answer'.kind = "rows"
  /\ LET found == {joined \in Joined(rows, Fixed, statement.query) : Matches(joined, statement.query)}
     IN \E page \in Pages(found, statement.query) :
          answer' = [kind |-> "rows", found |-> {Output(joined, statement.query) : joined \in page}]
  /\ UNCHANGED rows

Update ==
  /\ statement.kind = "update" /\ answer'.kind = "affected"
  /\ LET hit == Matching(statement.query)
     IN /\ rows' = (rows \ hit) \cup {Assigned(r, statement.set) : r \in hit}
        /\ answer' = [kind |-> "affected", count |-> Cardinality(hit)]

Delete ==
  /\ statement.kind = "delete" /\ answer'.kind = "affected"
  /\ rows' = rows \ Matching(statement.query)
  /\ answer' = [kind |-> "affected", count |-> Cardinality(Matching(statement.query))]

Refuse ==
  /\ answer'.kind = "failed"
  /\ UNCHANGED rows

Execute ==
  /\ statement # Nothing /\ answer = Nothing
  /\ Insert \/ Select \/ Update \/ Delete \/ Refuse
  /\ UNCHANGED statement

Return ==
  /\ answer # Nothing
  /\ statement' = Nothing /\ answer' = Nothing
  /\ UNCHANGED rows

Next == Execute \/ Return \/ \E s \in Statements : Send(s)

Spec == Init /\ [][Next]_<<rows, statement, answer>>

=============================================================================
