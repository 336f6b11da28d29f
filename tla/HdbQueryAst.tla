------------------------------ MODULE HdbQueryAst ------------------------------
(***************************************************************************)
(* The logical query a caller builds through the HdbQuery* functions, the  *)
(* text CHdbQueryAstCodec makes of it for the wire, and the query the      *)
(* server reads back out of that text.  One query, used by one thread.     *)
(* The calls that allocate may run out of memory at every point the code   *)
(* can: what they leave behind stays in the query.                         *)
(*                                                                         *)
(* Field names and values are reduced to what the codec asks of them:      *)
(* "plain", or "unsafe" for a text it must not put into a line.  The four  *)
(* lists select, set, where and order differ in their line only; COMPARE,  *)
(* NULL, BETWEEN and IN conditions likewise and are one type, VALUE.       *)
(***************************************************************************)
EXTENDS Integers, Sequences, SequencesExt

CONSTANTS
  Statements,     (* statement types a caller sets                         *)
  Datasets,       (* logical dataset names                                 *)
  Kinds,          (* which of its lists are modelled                       *)
  MaxSources,     (* HDB_QUERY_MAX_SOURCE_COUNT                            *)
  MaxItems,       (* HDB_QUERY_MAX_SELECT_COUNT and its siblings, by kind  *)
  MaxConditions,  (* HDB_QUERY_MAX_CONDITION_COUNT                         *)
  MaxLimit,       (* HDB_QUERY_MAX_LIMIT                                   *)
  Times,          (* epoch milliseconds a caller may pass                  *)
  AstBound        (* bound: items and conditions a behaviour creates       *)

Texts == {"plain", "unsafe"}

ASSUME AstAssumption ==
  /\ "SELECT" \in Statements
  /\ Kinds \subseteq {"select", "set", "where", "order"}
  /\ MaxSources \in Nat \ {0}
  /\ MaxItems \in [Kinds -> Nat]
  /\ MaxConditions \in Nat
  /\ MaxLimit \in Nat
  /\ Times \subseteq Int
  /\ AstBound \in Nat

Sources    == [id : Nat, type : {"ROOT", "JOIN"}, parent : Nat \cup {-1},
               dataset : Datasets, on : Nat \cup {-1}]
Items      == [source : Nat, text : Texts]
Conditions == [id : Nat, type : {"VALUE", "FIELD_COMPARE"}, source : Nat,
               right : Nat \cup {-1}, text : Texts]
              \cup [id : Nat, type : {"GROUP"}, children : Seq(Nat)]
Asts       == [statement : Statements, sources : Seq(Sources),
               time : (Times \X Times) \cup {<<>>},
               items : [Kinds -> Seq(Items)], conditions : Seq(Conditions),
               whereRoot : Nat \cup {-1}, limit : Nat]

VARIABLES
  ast,       (* HdbQueryTag.ast                                            *)
  handles,   (* the HDB_SOURCEs the caller holds: source id and dataset    *)
  nodes,     (* the condition ids the caller holds, with their condition   *)
  lost       (* history: HdbQueryJoinOn dropped a source and kept its      *)
             (* condition, because no handle could be allocated            *)

vars == <<ast, handles, nodes, lost>>

(* The query is a CHdbQueryAst and the caller's names are source handles   *)
(* and condition ids.                                                      *)
TypeOK ==
  /\ ast \in Asts
  /\ handles \in SUBSET [id : Nat, dataset : Datasets]
  /\ nodes \in SUBSET (Nat \X Conditions)
  /\ lost \in BOOLEAN

-----------------------------------------------------------------------------
(* CHdbQueryAst.  The operators give the query after the call; a call the  *)
(* guard refuses returns -1 and changes nothing.                           *)

EmptyAst ==
  [statement |-> "SELECT", sources |-> <<>>, time |-> <<>>,
   items |-> [kind \in Kinds |-> <<>>], conditions |-> <<>>,
   whereRoot |-> -1, limit |-> 0]

HasRootSource(A) ==
  A.sources # <<>> /\ A.sources[1].id = 0 /\ A.sources[1].type = "ROOT"

HasSource(A, id)    == \E i \in DOMAIN A.sources : A.sources[i].id = id
HasCondition(A, id) == \E i \in DOMAIN A.conditions : A.conditions[i].id = id

MayAddRoot(A) == A.sources = <<>>
AddRootSource(A, dataset) ==
  [A EXCEPT !.sources = Append(@, [id |-> 0, type |-> "ROOT", parent |-> -1,
                                   dataset |-> dataset, on |-> -1])]

MayAddJoin(A, parent) == HasSource(A, parent) /\ Len(A.sources) < MaxSources
AddJoinSource(A, parent, dataset) ==
  [A EXCEPT !.sources = Append(@, [id |-> Len(@), type |-> "JOIN", parent |-> parent,
                                   dataset |-> dataset, on |-> -1])]

MaySetJoinOn(A, id, node) ==
  /\ \E i \in DOMAIN A.sources : A.sources[i].id = id /\ A.sources[i].type = "JOIN"
  /\ HasCondition(A, node)
SetJoinOnRoot(A, id, node) ==
  [A EXCEPT !.sources = [i \in DOMAIN @ |-> IF @[i].id = id THEN [@[i] EXCEPT !.on = node]
                                            ELSE @[i]]]

Item(id, text) == [source |-> id, text |-> text]
AddItem(A, kind, id, text) == [A EXCEPT !.items[kind] = Append(@, Item(id, text))]

ValueCondition(A, id, text) ==
  [id |-> Len(A.conditions), type |-> "VALUE", source |-> id, right |-> -1, text |-> text]
FieldCompare(A, left, right) ==
  [id |-> Len(A.conditions), type |-> "FIELD_COMPARE", source |-> left, right |-> right,
   text |-> "plain"]
Group(A, children) ==
  [id |-> Len(A.conditions), type |-> "GROUP", children |-> children]

AddCondition(A, condition) == [A EXCEPT !.conditions = Append(@, condition)]

(* Mutant: the check of the children lets the new node's own id pass.      *)
MayGroupItself(A, children) ==
  /\ Len(children) >= 2
  /\ \A i \in DOMAIN children : HasCondition(A, children[i]) \/ children[i] = Len(A.conditions)

MayGroup(A, children) ==
  /\ Len(children) >= 2
  /\ \A i \in DOMAIN children : HasCondition(A, children[i])

DropLastSource(A) == [A EXCEPT !.sources = Front(@)]

-----------------------------------------------------------------------------
(* CHdbQueryAstCodec::Encode and Decode.                                   *)

ConditionEncodes(A, c) ==
  IF c.type = "GROUP"
  THEN Len(c.children) >= 2 /\ \A i \in DOMAIN c.children : HasCondition(A, c.children[i])
  ELSE c.text = "plain"

SourceEncodes(A, s) ==
  IF s.type = "ROOT"
  THEN s.id = 0 /\ s.parent = -1 /\ s.on = -1
  ELSE s.parent >= 0 /\ s.parent < s.id /\ HasCondition(A, s.on)

(* Mutant: every list may hold one item more than Decode takes.            *)
CountsFitLoosely(A) ==
  /\ Len(A.sources) <= MaxSources
  /\ \A kind \in Kinds : Len(A.items[kind]) <= MaxItems[kind] + 1
  /\ Len(A.conditions) <= MaxConditions

CountsFit(A) ==
  /\ Len(A.sources) <= MaxSources
  /\ \A kind \in Kinds : Len(A.items[kind]) <= MaxItems[kind]
  /\ Len(A.conditions) <= MaxConditions

Encodes(A) ==
  /\ HasRootSource(A)
  /\ CountsFit(A)
  /\ \A i \in DOMAIN A.sources : A.sources[i].id = i - 1 /\ SourceEncodes(A, A.sources[i])
  /\ A.time # <<>> => A.time[1] < A.time[2]
  /\ \A kind \in Kinds : \A i \in DOMAIN A.items[kind] :
       A.items[kind][i].text = "plain" /\ HasSource(A, A.items[kind][i].source)
  /\ \A i \in DOMAIN A.conditions :
       A.conditions[i].id = i - 1 /\ ConditionEncodes(A, A.conditions[i])
  /\ A.whereRoot >= 0 => HasCondition(A, A.whereRoot)
  /\ A.limit <= MaxLimit

(* The text is the sequence of its lines; a line names its list and holds  *)
(* the fields between the separators.                                      *)
Line(name, fields) == [line |-> name, fields |-> fields]
Lines(name, list)  == [i \in DOMAIN list |-> Line(name, list[i])]
ItemLines(A, kind) == IF kind \in Kinds THEN Lines(kind, A.items[kind]) ELSE <<>>

Encode(A) ==
  <<Line("statement", A.statement)>>
  \o Lines("source", A.sources)
  \o (IF A.time = <<>> THEN <<>> ELSE <<Line("time", A.time)>>)
  \o ItemLines(A, "select") \o ItemLines(A, "set")
  \o ItemLines(A, "where") \o ItemLines(A, "order")
  \o Lines("condition", A.conditions)
  \o (IF A.whereRoot >= 0 THEN <<Line("where_root", A.whereRoot)>> ELSE <<>>)
  \o <<Line("limit", A.limit)>>

DecodeSource(A, s) ==
  IF s.type = "ROOT" THEN AddRootSource(A, s.dataset)
  ELSE [AddJoinSource(A, s.parent, s.dataset) EXCEPT !.sources[s.id + 1].on = s.on]

SourceDecodes(A, s) ==
  IF s.type = "ROOT" THEN s.id = 0 /\ MayAddRoot(A)
  ELSE MayAddJoin(A, s.parent) /\ s.id = Len(A.sources)

ConditionDecodes(A, c) ==
  /\ Len(A.conditions) < MaxConditions
  /\ c.id = Len(A.conditions)
  /\ IF c.type = "GROUP" THEN MayGroup(A, c.children)
     ELSE /\ c.text = "plain"
          /\ HasSource(A, c.source)
          /\ c.type = "FIELD_COMPARE" => HasSource(A, c.right)

LineDecodes(A, l) ==
  CASE l.line = "source"     -> SourceDecodes(A, l.fields)
    [] l.line = "time"       -> l.fields[1] < l.fields[2]
    [] l.line \in Kinds      -> /\ Len(A.items[l.line]) < MaxItems[l.line]
                                /\ l.fields.text = "plain"
                                /\ HasSource(A, l.fields.source)
    [] l.line = "condition"  -> ConditionDecodes(A, l.fields)
    [] l.line = "where_root" -> HasCondition(A, l.fields)
    [] l.line = "limit"      -> l.fields <= MaxLimit
    [] OTHER                 -> TRUE

DecodeLine(A, l) ==
  CASE l.line = "statement"  -> [A EXCEPT !.statement = l.fields]
    [] l.line = "source"     -> DecodeSource(A, l.fields)
    [] l.line = "time"       -> [A EXCEPT !.time = l.fields]
    [] l.line = "condition"  -> AddCondition(A, l.fields)
    [] l.line = "where_root" -> [A EXCEPT !.whereRoot = l.fields]
    [] l.line = "limit"      -> [A EXCEPT !.limit = l.fields]
    [] OTHER                 -> AddItem(A, l.line, l.fields.source, l.fields.text)

Refused == [refused |-> TRUE]

(* Line by line into a cleared query; the first bad line refuses the text, *)
(* and so does a JOIN whose ON condition never came.                       *)
Decode(text) ==
  LET read[n \in 0 .. Len(text)] ==
        IF n = 0 THEN EmptyAst
        ELSE IF read[n - 1] = Refused THEN Refused
        ELSE IF LineDecodes(read[n - 1], text[n]) THEN DecodeLine(read[n - 1], text[n])
        ELSE Refused
      A == read[Len(text)]
  IN IF A # Refused /\ HasRootSource(A)
          /\ \A i \in DOMAIN A.sources :
               A.sources[i].type = "JOIN" => HasCondition(A, A.sources[i].on)
     THEN A ELSE Refused

-----------------------------------------------------------------------------
Init ==
  /\ ast = EmptyAst
  /\ handles = {}
  /\ nodes = {}
  /\ lost = FALSE

Created == Len(ast.conditions) + MapThenSumSet(LAMBDA kind : Len(ast.items[kind]), Kinds)

QuerySetStatementType(statement) ==
  /\ ast' = [ast EXCEPT !.statement = statement]
  /\ UNCHANGED <<handles, nodes, lost>>

QueryFrom(dataset) ==
  /\ ~HasRootSource(ast) /\ MayAddRoot(ast)
  /\ ast' = AddRootSource(ast, dataset)
  /\ handles' = handles \cup {[id |-> 0, dataset |-> dataset]}
  /\ UNCHANGED <<nodes, lost>>

(* No memory for the handle: HdbQueryFrom clears the whole query, with it  *)
(* what HdbQuerySetStatementType, TimeRange and Limit had set; or there is *)
(* none for the text of the error either, and the root stays.              *)
QueryFromFails(dataset) ==
  /\ ~HasRootSource(ast) /\ MayAddRoot(ast)
  /\ ast' \in {EmptyAst, AddRootSource(ast, dataset)}
  /\ UNCHANGED <<handles, nodes, lost>>

QueryJoin(h, dataset) ==
  /\ MayAddJoin(ast, h.id)
  /\ handles' = handles \cup {[id |-> Len(ast.sources), dataset |-> dataset]}
  /\ ast' = AddJoinSource(ast, h.id, dataset)
  /\ UNCHANGED <<nodes, lost>>

(* No memory for the handle: the source is taken back, unless there is     *)
(* none for the text of the error either.                                  *)
QueryJoinFails(h, dataset) ==
  /\ MayAddJoin(ast, h.id)
  /\ LET A == AddJoinSource(ast, h.id, dataset)
     IN ast' \in {DropLastSource(A), A}
  /\ UNCHANGED <<handles, nodes, lost>>

(* AddJoinSourceOn: the source, its field comparison, its ON root.         *)
WithJoinOn(h, dataset) ==
  LET A == AddJoinSource(ast, h.id, dataset)
  IN SetJoinOnRoot(AddCondition(A, FieldCompare(A, h.id, Len(ast.sources))),
                   Len(ast.sources), Len(ast.conditions))

QueryJoinOn(h, dataset) ==
  /\ MayAddJoin(ast, h.id)
  /\ Created < AstBound
  /\ ast' = WithJoinOn(h, dataset)
  /\ handles' = handles \cup {[id |-> Len(ast.sources), dataset |-> dataset]}
  /\ UNCHANGED <<nodes, lost>>

(* Mutant: a failed JOIN clears the query, as a failed FROM does.          *)
QueryJoinOnFailsClears(h, dataset) ==
  /\ MayAddJoin(ast, h.id)
  /\ Created < AstBound
  /\ ast' = EmptyAst
  /\ lost' = lost
  /\ UNCHANGED <<handles, nodes>>

(* Memory runs out before the comparison is stored, for the text of the    *)
(* handle's error, or for the handle alone: only the last has a clean-up,  *)
(* and it takes the source back and leaves the comparison.                 *)
QueryJoinOnFails(h, dataset) ==
  /\ MayAddJoin(ast, h.id)
  /\ Created < AstBound
  /\ \/ ast' = AddJoinSource(ast, h.id, dataset) /\ lost' = lost
     \/ ast' = WithJoinOn(h, dataset) /\ lost' = lost
     \/ ast' = DropLastSource(WithJoinOn(h, dataset)) /\ lost' = TRUE
  /\ UNCHANGED <<handles, nodes>>

QueryJoinOnCondition(h, node) ==
  /\ MaySetJoinOn(ast, h.id, node)
  /\ ast' = SetJoinOnRoot(ast, h.id, node)
  /\ UNCHANGED <<handles, nodes, lost>>

QueryTimeRange(begin, end) ==
  /\ begin < end
  /\ ast' = [ast EXCEPT !.time = <<begin, end>>]
  /\ UNCHANGED <<handles, nodes, lost>>

(* HdbQuerySelect, Where*, SetValue* and OrderBy.                          *)
QueryItem(kind, h, text) ==
  /\ HasSource(ast, h.id)
  /\ Created < AstBound
  /\ ast' = AddItem(ast, kind, h.id, text)
  /\ UNCHANGED <<handles, nodes, lost>>

QueryCondition(condition) ==
  /\ Created < AstBound
  /\ ast' = AddCondition(ast, condition)
  /\ nodes' = nodes \cup {<<condition.id, condition>>}
  /\ UNCHANGED <<handles, lost>>

QueryConditionValue(h, text) ==
  HasSource(ast, h.id) /\ QueryCondition(ValueCondition(ast, h.id, text))

QueryConditionField(h, right) ==
  /\ HasSource(ast, h.id) /\ HasSource(ast, right.id)
  /\ QueryCondition(FieldCompare(ast, h.id, right.id))

QueryConditionGroup(children) ==
  MayGroup(ast, children) /\ QueryCondition(Group(ast, children))

QueryWhereCondition(node) ==
  /\ HasCondition(ast, node)
  /\ ast' = [ast EXCEPT !.whereRoot = node]
  /\ UNCHANGED <<handles, nodes, lost>>

(* Mutant: SetLimit takes a negative limit.                                *)
QueryLimitNegative(limit) ==
  /\ ast' = [ast EXCEPT !.limit = limit]
  /\ UNCHANGED <<handles, nodes, lost>>

QueryLimit(limit) ==
  /\ limit >= 0
  /\ ast' = [ast EXCEPT !.limit = limit]
  /\ UNCHANGED <<handles, nodes, lost>>

(* A caller passes handles and condition ids it was given; an int may also *)
(* be one it was not given, such as the next one.                          *)
AnyNode == 0 .. AstBound

Next ==
  \/ \E s \in Statements : QuerySetStatementType(s)
  \/ \E d \in Datasets : QueryFrom(d) \/ QueryFromFails(d)
  \/ \E h \in handles, d \in Datasets :
       QueryJoin(h, d) \/ QueryJoinFails(h, d) \/ QueryJoinOn(h, d) \/ QueryJoinOnFails(h, d)
  \/ \E h \in handles, n \in AnyNode : QueryJoinOnCondition(h, n)
  \/ \E b, e \in Times : QueryTimeRange(b, e)
  \/ \E kind \in Kinds, h \in handles, text \in Texts : QueryItem(kind, h, text)
  \/ \E h \in handles, text \in Texts : QueryConditionValue(h, text)
  \/ \E h, r \in handles : QueryConditionField(h, r)
  \/ \E c, d \in AnyNode : QueryConditionGroup(<<c, d>>)
  \/ \E n \in AnyNode : QueryWhereCondition(n)
  \/ \E limit \in -1 .. MaxLimit + 1 : QueryLimit(limit)

Spec == Init /\ [][Next]_vars

-----------------------------------------------------------------------------
(* Ids are positions, a source comes after its parent and a group after    *)
(* its children, and every root names a node: the server's recursion over  *)
(* sources and condition trees ends.                                       *)
AstWellFormed ==
  /\ \A i \in DOMAIN ast.sources :
       LET s == ast.sources[i]
       IN /\ s.id = i - 1
          /\ s.type = "ROOT" <=> i = 1
          /\ i > 1 => s.parent \in 0 .. i - 2
          /\ s.on \in -1 .. Len(ast.conditions) - 1
  /\ \A i \in DOMAIN ast.conditions :
       LET c == ast.conditions[i]
       IN /\ c.id = i - 1
          /\ c.type = "GROUP" => \A j \in DOMAIN c.children : c.children[j] \in 0 .. i - 2
  /\ ast.whereRoot \in -1 .. Len(ast.conditions) - 1

(* A handle or condition id the caller holds means for ever what it meant  *)
(* when it was returned, whatever failed in between.                       *)
NamesKeepMeaning ==
  /\ \A h \in handles :
       /\ h.id + 1 \in DOMAIN ast.sources
       /\ ast.sources[h.id + 1].dataset = h.dataset
  /\ \A n \in nodes :
       /\ n[1] + 1 \in DOMAIN ast.conditions
       /\ ast.conditions[n[1] + 1] = n[2]

(* What Encode lets out, Decode reads back as the same query, the limits   *)
(* on counts included, unless HdbQueryJoinOn lost a handle (then a         *)
(* comparison may name a source that is gone, which only Decode looks at). *)
WireFaithful == Encodes(ast) /\ ~lost => Decode(Encode(ast)) = ast

=============================================================================
