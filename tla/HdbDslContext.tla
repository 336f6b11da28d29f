----------------------------- MODULE HdbDslContext -----------------------------
(***************************************************************************)
(* The header-only builders of HdbQueryBuilder.h: CHdbCreate with its      *)
(* SELECT builder (CHdbDslQuery) and its DML core (CHdbDslDmlCore), which  *)
(* turn chained calls into HdbQuery* calls on a query of their own, and    *)
(* the guards with which the server takes the query.  The two builders     *)
(* share nothing but the session, so a behaviour follows one of them; a    *)
(* third client is a C caller who builds an ON condition by hand.          *)
(*                                                                         *)
(* A field is reduced to its dataset, an error to its being one.  Memory   *)
(* may run out at every HdbQuery* call and at the creation of the query    *)
(* (an HDB_QUERY of NULL is as good as an empty one: no call changes it).  *)
(* Datasets are fixed tables.                                              *)
(***************************************************************************)
EXTENDS HdbJoinOn

CONSTANTS
  Datasets,       (* dataset names                                         *)
  MaxSources,     (* HDB_QUERY_MAX_SOURCE_COUNT                            *)
  MaxItems,       (* HDB_QUERY_MAX_SELECT_COUNT and its siblings, by kind  *)
  MaxConditions,  (* HDB_QUERY_MAX_CONDITION_COUNT                         *)
  MaxLimit,       (* HDB_QUERY_MAX_LIMIT                                   *)
  Times,          (* epoch milliseconds                                    *)
  Wheres,         (* the conditions callers pass to where                  *)
  Ons,            (* the conditions callers pass to on                     *)
  OnCandidates,   (* conditions of which on is asked what it would say     *)
  OnLeaves,       (* the leaves of the ON condition a C caller builds      *)
  CallBound,      (* bound: the calls of a behaviour                       *)
  NodeBound       (* bound: the nodes of the C caller's condition          *)

Kinds      == {"select", "set", "order"}
Statements == {"SELECT", "INSERT", "UPDATE", "DELETE"}

VARIABLES
  client,    (* who builds: "SELECT", "DML" or "C"                         *)
  query,     (* m_query: the CHdbQueryAst behind the HDB_QUERY             *)
  builder,   (* the members of CHdbDslQuery or CHdbDslDmlCore              *)
  held,      (* the step objects of a DML chain the caller holds           *)
  asked,     (* history: what the calls since the last start asked for     *)
  sent,      (* the statement the last call handed to the server           *)
  calls      (* calls made so far                                          *)

vars == <<client, query, builder, held, asked, sent, calls>>

Ast == INSTANCE HdbQueryAst WITH
         ast <- query, handles <- {}, nodes <- {}, lost <- FALSE, AstBound <- 0

-----------------------------------------------------------------------------
(* CHdbDslCondition: the nodes of the tree, children before their parent;  *)
(* a node names its children by position.                                  *)

Value(field)         == [type |-> "VALUE", left |-> field]
Compare(left, right) == [type |-> "FIELD_COMPARE", left |-> left, right |-> right]
InRange(field)       == [type |-> "RANGE", left |-> field]

Leaf(node) == <<node>>

(* CHdbDslCondition::And and Or.                                           *)
Connect(logic, left, right) ==
  LET shift  == Len(left)
      moved  == [i \in DOMAIN right |->
                   IF right[i].type # "GROUP" THEN right[i]
                   ELSE [right[i] EXCEPT !.children =
                           [j \in DOMAIN @ |-> @[j] + shift]]]
  IN left \o moved \o
     <<[type |-> "GROUP", logic |-> logic, children |-> <<shift, shift + Len(right)>>]>>

(* What Leaf and Connect make: a group has two children, and every node    *)
(* but the last is a child of a later one, so the last is the root.        *)
DslLeaves == {Value(d) : d \in Datasets} \cup {InRange(d) : d \in Datasets}
             \cup {Compare(d, e) : d, e \in Datasets}
Groups == [type : {"GROUP"}, logic : {"AND", "OR"}, children : Seq(Nat)]
IsCondition(c) ==
  /\ c \in Seq(DslLeaves \cup Groups) /\ c # <<>>
  /\ \A i \in DOMAIN c : c[i].type = "GROUP" =>
       /\ Len(c[i].children) = 2
       /\ \A j \in DOMAIN c[i].children : c[i].children[j] \in 1 .. i - 1
  /\ \A i \in 1 .. Len(c) - 1 : \E k \in i + 1 .. Len(c) :
       c[k].type = "GROUP" /\ \E j \in DOMAIN c[k].children : c[k].children[j] = i

ASSUME DslAssumption ==
  /\ \A c \in Wheres \cup Ons \cup OnCandidates : IsCondition(c)
  /\ OnLeaves \subseteq
       [type : {"VALUE", "RANGE"}, source : Nat, right : {-1}]
       \cup [type : {"FIELD_COMPARE"}, source : Nat, right : Nat]
  /\ Times \subseteq Int /\ MaxLimit \in Nat /\ CallBound \in Nat

(* A condition as a tree of its own, to compare two of them by.            *)
Tree(nodes, root) ==
  LET tree[i \in 1 .. root] ==
        IF nodes[i].type # "GROUP" THEN nodes[i]
        ELSE [nodes[i] EXCEPT !.children = [j \in DOMAIN @ |-> tree[@[j]]]]
  IN tree[root]

(* The nodes of a query, read back as those of a DSL condition.            *)
DslNodes(A) ==
  [i \in DOMAIN A.conditions |->
     LET c == A.conditions[i]
         DatasetOf(source) == A.sources[source + 1].dataset
     IN CASE c.type = "GROUP"         -> [type |-> "GROUP", logic |-> c.logic,
                                          children |-> [j \in DOMAIN c.children |-> c.children[j] + 1]]
          [] c.type = "FIELD_COMPARE" -> Compare(DatasetOf(c.source), DatasetOf(c.right))
          [] OTHER                    -> [type |-> c.type, left |-> DatasetOf(c.source)]]

-----------------------------------------------------------------------------
(* The members of the builders.                                            *)

NewBuilder ==
  [failed |-> FALSE, sources |-> <<>>, selects |-> <<>>, orders |-> <<>>, where |-> <<>>,
   selectsAdded |-> FALSE, ordersAdded |-> FALSE, whereAdded |-> FALSE]

NothingAsked ==
  [failed |-> FALSE, fetched |-> FALSE, statement |-> "SELECT", from |-> <<>>, joins |-> <<>>,
   select |-> <<>>, set |-> <<>>, order |-> <<>>, where |-> <<>>, time |-> <<>>, limit |-> 0]

NothingSent == [query |-> <<>>, asked |-> <<>>, ran |-> FALSE]

Bindings == [dataset : Datasets, id : Nat]

(* Types; among them that a query never holds a negative limit.            *)
TypeOK ==
  /\ client \in {"SELECT", "DML", "C"}
  /\ DOMAIN query = DOMAIN Ast!EmptyAst
  /\ query.statement \in Statements
  /\ query.limit \in 0 .. MaxLimit + 1
  /\ builder \in [failed : BOOLEAN, sources : Seq(Bindings), selects : Seq(Datasets),
                  orders : Seq(Datasets), where : Wheres \cup {<<>>},
                  selectsAdded : BOOLEAN, ordersAdded : BOOLEAN, whereAdded : BOOLEAN]
  /\ held \subseteq {"INSERT", "UPDATE_START", "UPDATE", "DELETE", "EXECUTABLE"}
  /\ calls \in 0 .. CallBound

(* FindSource: the source id a dataset is bound to, -1 for none.           *)
FindSource(sources, dataset) ==
  LET bound == {i \in DOMAIN sources : sources[i].dataset = dataset}
  IN IF bound = {} THEN -1 ELSE sources[Min(bound)].id

Resolves(sources, node) ==
  \/ node.type = "GROUP"
  \/ /\ FindSource(sources, node.left) >= 0
     /\ node.type = "FIELD_COMPARE" => FindSource(sources, node.right) >= 0

(* How far a method gets through a list before an element does not resolve.*)
NodesReached(sources, condition) ==
  Max({n \in 0 .. Len(condition) : \A i \in 1 .. n : Resolves(sources, condition[i])})
FieldsReached(sources, fields) ==
  Max({n \in 0 .. Len(fields) : \A i \in 1 .. n : FindSource(sources, fields[i]) >= 0})

-----------------------------------------------------------------------------
(* Node i of a condition as AddConditionToQuery adds it: the nodes get the *)
(* ids from base on.                                                       *)
QueryNode(sources, node, base, i) ==
  IF node.type = "GROUP"
  THEN [id |-> base + i - 1, type |-> "GROUP", logic |-> node.logic,
        children |-> [j \in DOMAIN node.children |-> base + node.children[j] - 1]]
  ELSE [id |-> base + i - 1, type |-> node.type, text |-> "plain",
        source |-> FindSource(sources, node.left),
        right |-> IF node.type = "FIELD_COMPARE" THEN FindSource(sources, node.right) ELSE -1]

(* The query after n of its calls.                                         *)
NodesAdded(A, sources, condition, n) ==
  LET base == Len(A.conditions)
  IN [A EXCEPT !.conditions =
        @ \o [i \in 1 .. n |-> QueryNode(sources, condition[i], base, i)]]

ConditionAdded(A, sources, condition) == NodesAdded(A, sources, condition, Len(condition))
LastCondition(A)                      == Len(A.conditions) - 1

(* A query with the WHERE asked for, if one was.                           *)
WithWhere(A, sources, where) ==
  IF where = <<>> THEN A
  ELSE LET C == ConditionAdded(A, sources, where)
       IN [C EXCEPT !.whereRoot = LastCondition(C)]

ItemsAdded(A, sources, kind, fields, n) ==
  [A EXCEPT !.items[kind] =
     @ \o [i \in 1 .. n |-> Ast!Item(FindSource(sources, fields[i]), "plain")]]

-----------------------------------------------------------------------------
(* CHdbDslQuery::ValidateJoinOnCondition, which judges on's condition by   *)
(* dataset names before the source exists.                                 *)

IsTarget(field, dataset)   == field = dataset
OnFieldResolves(field, dataset) ==
  IsTarget(field, dataset) \/ FindSource(builder.sources, field) >= 0

(* Mutant: the joined source counts on the left side only.                 *)
OnAnchoredLeft(node, dataset) ==
  node.type = "FIELD_COMPARE" /\ IsTarget(node.left, dataset) /\ ~IsTarget(node.right, dataset)

OnAnchored(node, dataset) ==
  /\ node.type = "FIELD_COMPARE"
  /\ \/ IsTarget(node.left, dataset) /\ ~IsTarget(node.right, dataset)
     \/ IsTarget(node.right, dataset) /\ ~IsTarget(node.left, dataset)

OnLeafAnchors(node, dataset) ==
  IF /\ node.type \in {"VALUE", "FIELD_COMPARE"}
     /\ OnFieldResolves(node.left, dataset)
     /\ node.type = "FIELD_COMPARE" => OnFieldResolves(node.right, dataset)
  THEN <<OnAnchored(node, dataset)>> ELSE <<>>

BuildOnBranchAnchors(condition, dataset) ==
  LET anchors[i \in DOMAIN condition] ==
        LET c     == condition[i]
            child == [j \in DOMAIN c.children |-> anchors[c.children[j]]]
        IN IF c.type # "GROUP" THEN OnLeafAnchors(c, dataset)
           ELSE GroupBranches(c.logic, child)
  IN anchors[Len(condition)]

(* The parent of the new source: the earlier side of the first anchor.     *)
OnAnchors(condition, dataset) ==
  {i \in DOMAIN condition : OnAnchored(condition[i], dataset)}
OnParent(condition, dataset) ==
  LET anchor == condition[Min(OnAnchors(condition, dataset))]
  IN FindSource(builder.sources, IF IsTarget(anchor.left, dataset) THEN anchor.right
                                 ELSE anchor.left)

TakesOn(condition, dataset) ==
  LET branches == BuildOnBranchAnchors(condition, dataset)
  IN /\ branches # <<>>
     /\ OnAnchors(condition, dataset) # {}
     /\ \A i \in DOMAIN branches : branches[i]

-----------------------------------------------------------------------------
(* The server: CHdbQuerySqlBuilder's guards on a whole query.  It may      *)
(* refuse for other reasons too, and its database may fail.                *)

HasWhere(A) == A.whereRoot >= 0

(* Mutant: a DELETE needs no WHERE.                                        *)
ServerTakesAnyDelete(A) == A.items["set"] = <<>>

ServerTakesDelete(A) == A.items["set"] = <<>> /\ HasWhere(A)

ServerTakes(A) ==
  CASE A.statement = "SELECT" -> A.items["select"] # <<>> /\ JoinsAccepted(A)
    [] OTHER ->
         /\ Len(A.sources) = 1 /\ A.items["select"] = <<>> /\ A.items["order"] = <<>>
         /\ CASE A.statement = "INSERT" -> A.items["set"] # <<>> /\ ~HasWhere(A)
              [] A.statement = "UPDATE" -> A.items["set"] # <<>> /\ HasWhere(A)
              [] A.statement = "DELETE" -> ServerTakesDelete(A)

-----------------------------------------------------------------------------
Init ==
  /\ client \in {"SELECT", "DML", "C"}
  /\ IF client # "C" THEN query = Ast!EmptyAst
     ELSE \E d \in Datasets :
            query = Ast!AddJoinSource(Ast!AddJoinSource(
                      Ast!AddRootSource(Ast!EmptyAst, d), 0, d), 0, d)
  /\ builder = NewBuilder
  /\ held = {}
  /\ asked = NothingAsked
  /\ sent = NothingSent
  /\ calls = 0

Call == calls < CallBound /\ calls' = calls + 1 /\ UNCHANGED client

(* A method of a builder that holds an error does nothing.                 *)
Ok == Call /\ ~builder.failed

Done(A, b, a) ==
  query' = A /\ builder' = b /\ asked' = a /\ sent' = NothingSent

Ignored == Call /\ builder.failed /\ Done(query, builder, asked)

(* The method keeps the error; what its calls changed in A stays.          *)
FailedWith(A, b) ==
  Done(A, [b EXCEPT !.failed = TRUE], [asked EXCEPT !.failed = TRUE])
Failed(A) == FailedWith(A, builder)

(* An invalid field or condition, or no memory for the query.              *)
CallRefused == Ok /\ Failed(query) /\ UNCHANGED held

WhereAs(condition) ==
  \/ /\ builder.where = <<>>
     /\ Done(query, [builder EXCEPT !.where = condition], [asked EXCEPT !.where = condition])
  \/ /\ builder.where # <<>>
     /\ Failed(query)

TimeRange(begin, end) ==
  /\ Ok
  /\ IF begin < end
     THEN Done([query EXCEPT !.time = <<begin, end>>], builder,
               [asked EXCEPT !.time = <<begin, end>>])
     ELSE Failed(query)
  /\ UNCHANGED held

(* HdbQueryExecute and HdbQueryExecuteAffected.  A query that cannot be    *)
(* encoded stays here; the answer to one that is sent may be lost.         *)
HandOver(A, b) ==
  \/ FailedWith(A, b)
  \/ /\ Ast!Encodes(A)
     /\ query' = A
     /\ \E ran, answered \in BOOLEAN :
          /\ ran => ServerTakes(A)
          /\ answered => ran
          /\ builder' = [b EXCEPT !.failed = ~answered]
          /\ asked' = [asked EXCEPT !.fetched = TRUE, !.failed = ~answered]
          /\ sent' = [query |-> A, asked |-> asked, ran |-> ran]

-----------------------------------------------------------------------------
(* CHdbDslQuery.                                                           *)

(* Mutant: Reset keeps the mark that the selected fields were added.       *)
BeginKeepsMark(field) ==
  /\ Call
  /\ Done(Ast!EmptyAst,
          [NewBuilder EXCEPT !.selects = <<field>>, !.selectsAdded = builder.selectsAdded],
          [NothingAsked EXCEPT !.select = <<field>>])
  /\ UNCHANGED held

(* CHdbCreate::select: Reset, then select.                                 *)
Begin(field) ==
  /\ Call
  /\ Done(Ast!EmptyAst, [NewBuilder EXCEPT !.selects = <<field>>],
          [NothingAsked EXCEPT !.select = <<field>>])
  /\ UNCHANGED held

Select(field) ==
  /\ Ok
  /\ Done(query, [builder EXCEPT !.selects = Append(@, field)],
          [asked EXCEPT !.select = Append(@, field)])
  /\ UNCHANGED held

OrderBy(field) ==
  /\ Ok
  /\ Done(query, [builder EXCEPT !.orders = Append(@, field)],
          [asked EXCEPT !.order = Append(@, field)])
  /\ UNCHANGED held

(* A second root is refused; without memory for the handle the whole query *)
(* is cleared, unless there is none for the text of the error either.      *)
From(dataset) ==
  /\ Ok
  /\ IF Ast!HasRootSource(query) THEN Failed(query)
     ELSE \/ Done(Ast!AddRootSource(query, dataset),
                  [builder EXCEPT !.sources = Append(@, [dataset |-> dataset, id |-> 0])],
                  [asked EXCEPT !.from = <<dataset>>])
          \/ Failed(Ast!EmptyAst) \/ Failed(Ast!AddRootSource(query, dataset))
  /\ UNCHANGED held

Where(condition) == Ok /\ WhereAs(condition) /\ UNCHANGED held

(* Mutant: a negative limit is stored.                                     *)
LimitUnchecked(limit) ==
  /\ Ok
  /\ Done([query EXCEPT !.limit = limit], builder, [asked EXCEPT !.limit = limit])
  /\ UNCHANGED held

Limit(limit) ==
  /\ Ok
  /\ IF limit >= 0
     THEN Done([query EXCEPT !.limit = limit], builder, [asked EXCEPT !.limit = limit])
     ELSE Failed(query)
  /\ UNCHANGED held

(* leftJoin or innerJoin and the step's on: the source is bound before its *)
(* condition is added, so the condition may name it.                       *)
JoinOn(dataset, condition) ==
  LET target == Len(query.sources)
      bound  == Append(builder.sources, [dataset |-> dataset, id |-> target])
      b      == [builder EXCEPT !.sources = bound]
      A      == Ast!AddJoinSource(query, OnParent(condition, dataset), dataset)
      B      == ConditionAdded(A, bound, condition)
  IN /\ Ok
     /\ IF \/ builder.sources = <<>>
           \/ FindSource(builder.sources, dataset) >= 0
           \/ ~TakesOn(condition, dataset)
           \/ Len(query.sources) >= MaxSources
        THEN Failed(query)
        ELSE \/ Failed(query) \/ Failed(A)
             \/ \E n \in 0 .. Len(condition) - 1 :
                  FailedWith(NodesAdded(A, bound, condition, n), b)
             \/ Done(Ast!SetJoinOnRoot(B, target, LastCondition(B)), b,
                     [asked EXCEPT !.joins = Append(@, [dataset |-> dataset, on |-> condition])])
     /\ UNCHANGED held

(* AddSelectedFieldsToQuery, AddWhereToQuery and AddOrdersToQuery, then    *)
(* the request.  Fields go in once, the condition at every fetch.          *)
Fetch ==
  LET selects == IF builder.selectsAdded THEN <<>> ELSE builder.selects
      orders  == IF builder.ordersAdded THEN <<>> ELSE builder.orders
      where   == builder.where
      bound   == builder.sources
      A       == ItemsAdded(query, bound, "select", selects, Len(selects))
      B       == WithWhere(A, bound, where)
      D       == ItemsAdded(B, bound, "order", orders, Len(orders))
      s       == [builder EXCEPT !.selectsAdded = TRUE]
      o       == [s EXCEPT !.ordersAdded = TRUE]
      sReach  == FieldsReached(bound, selects)
      wReach  == NodesReached(bound, where)
      oReach  == FieldsReached(bound, orders)
  IN /\ Ok
     /\ builder.sources # <<>> /\ builder.selects # <<>>
     /\ \/ \E n \in 0 .. sReach :
             n < Len(selects) /\ Failed(ItemsAdded(query, bound, "select", selects, n))
        \/ /\ sReach = Len(selects)
           /\ \E n \in 0 .. wReach :
                n < Len(where) /\ FailedWith(NodesAdded(A, bound, where, n), s)
        \/ /\ sReach = Len(selects) /\ wReach = Len(where)
           /\ \E n \in 0 .. oReach :
                n < Len(orders) /\ FailedWith(ItemsAdded(B, bound, "order", orders, n), s)
        \/ /\ sReach = Len(selects) /\ wReach = Len(where) /\ oReach = Len(orders)
           /\ HandOver(D, o)
     /\ UNCHANGED held

-----------------------------------------------------------------------------
(* CHdbDslDmlCore and the step objects, which all drive the one core: a    *)
(* step object kept from an earlier chain acts on the current statement.   *)

StepOf == [INSERT |-> "INSERT", UPDATE |-> "UPDATE_START", DELETE |-> "DELETE"]

(* CHdbCreate::insertInto, update and deleteFrom: Reset.                   *)
Start(statement, dataset) ==
  /\ Call
  /\ held' = held \cup {StepOf[statement]}
  /\ LET A == Ast!AddRootSource([Ast!EmptyAst EXCEPT !.statement = statement], dataset)
     IN \/ Done(A, [NewBuilder EXCEPT !.sources = <<[dataset |-> dataset, id |-> 0]>>],
                [NothingAsked EXCEPT !.statement = statement, !.from = <<dataset>>])
        \/ \E left \in {Ast!EmptyAst, A} :
             Done(left, [NewBuilder EXCEPT !.failed = TRUE],
                  [NothingAsked EXCEPT !.failed = TRUE])

(* A step is returned whatever became of the call.                         *)
Set(field) ==
  /\ held \cap {"INSERT", "UPDATE_START", "UPDATE"} # {}
  /\ \/ Ignored
     \/ /\ Ok
        /\ IF FindSource(builder.sources, field) >= 0
           THEN Done(ItemsAdded(query, builder.sources, "set", <<field>>, 1), builder,
                     [asked EXCEPT !.set = Append(@, field)])
           ELSE Failed(query)
  /\ held' = IF "UPDATE_START" \in held THEN held \cup {"UPDATE"} ELSE held

DmlWhere(condition) ==
  /\ held \cap {"UPDATE", "DELETE"} # {}
  /\ Ignored \/ (Ok /\ WhereAs(condition))
  /\ held' = held \cup {"EXECUTABLE"}

DmlTimeRange(begin, end) == held # {} /\ TimeRange(begin, end)

Execute ==
  LET where == IF builder.whereAdded THEN <<>> ELSE builder.where
      bound == builder.sources
      reach == NodesReached(bound, where)
      A     == WithWhere(query, bound, where)
  IN /\ Ok
     /\ held \cap {"INSERT", "EXECUTABLE"} # {}
     /\ \/ \E n \in 0 .. reach :
             n < Len(where) /\ Failed(NodesAdded(query, bound, where, n))
        \/ /\ reach = Len(where)
           /\ HandOver(A, [builder EXCEPT !.whereAdded = @ \/ where # <<>>])
     /\ UNCHANGED held

-----------------------------------------------------------------------------
(* The C caller builds an ON condition node by node with                   *)
(* HdbQueryConditionValue, Field, Null and Group; a node may serve twice.  *)

CCondition(c) ==
  /\ Len(query.conditions) < NodeBound
  /\ query' = Ast!AddCondition(query, c)
  /\ UNCHANGED <<client, builder, held, asked, sent, calls>>

CLeaf(leaf) ==
  CCondition([id |-> Len(query.conditions), type |-> leaf.type, text |-> "plain",
              source |-> leaf.source, right |-> leaf.right])
CGroup(logic, children) ==
  /\ Ast!MayGroup(query, children)
  /\ CCondition([id |-> Len(query.conditions), type |-> "GROUP", logic |-> logic,
                 children |-> children])

-----------------------------------------------------------------------------
Next ==
  \/ /\ client = "SELECT"
     /\ \/ \E d \in Datasets : Begin(d) \/ Select(d) \/ From(d) \/ OrderBy(d)
        \/ \E d \in Datasets, c \in Ons : JoinOn(d, c)
        \/ \E c \in Wheres : Where(c)
        \/ \E b, e \in Times : TimeRange(b, e)
        \/ \E n \in -1 .. MaxLimit + 1 : Limit(n)
        \/ CallRefused
        \/ Fetch
  \/ /\ client = "DML"
     /\ \/ \E s \in Statements \ {"SELECT"}, d \in Datasets : Start(s, d)
        \/ held # {} /\ CallRefused
        \/ \E d \in Datasets : Set(d)
        \/ \E c \in Wheres : DmlWhere(c)
        \/ \E b, e \in Times : DmlTimeRange(b, e)
        \/ Execute
  \/ /\ client = "C"
     /\ \/ \E leaf \in OnLeaves : CLeaf(leaf)
        \/ \E logic \in {"AND", "OR"}, i, j \in 0 .. NodeBound :
             i < j /\ CGroup(logic, <<i, j>>)

Spec == Init /\ [][Next]_vars

-----------------------------------------------------------------------------
FieldsOf(A, kind) ==
  [i \in DOMAIN A.items[kind] |-> A.sources[A.items[kind][i].source + 1].dataset]

DatasetsOf(list) == [i \in DOMAIN list |-> list[i].dataset]

TreeOf(A, id) == Tree(DslNodes(A), id + 1)

(* A statement that leaves a builder means what the calls since its start  *)
(* asked for, and none of those calls failed: its sources and ON trees,    *)
(* its WHERE tree, its values, range and limit are theirs, whatever an     *)
(* earlier statement of the same builder left behind.  Fields selected or  *)
(* ordered by after a first fetch are not sent (HdbQueryBuilder.h:1498,    *)
(* 1648); up to then all are.                                              *)
SentAsAsked ==
  sent # NothingSent =>
    LET A == sent.query
        a == sent.asked
    IN /\ ~a.failed
       /\ A.statement = a.statement /\ A.time = a.time /\ A.limit = a.limit
       /\ DatasetsOf(A.sources) = a.from \o DatasetsOf(a.joins)
       /\ \A i \in DOMAIN a.joins :
            TreeOf(A, A.sources[i + 1].on) = Tree(a.joins[i].on, Len(a.joins[i].on))
       /\ IF a.where = <<>> THEN ~HasWhere(A)
          ELSE HasWhere(A) /\ TreeOf(A, A.whereRoot) = Tree(a.where, Len(a.where))
       /\ FieldsOf(A, "set") = a.set
       /\ IF a.fetched
          THEN IsPrefix(FieldsOf(A, "select"), a.select) /\ IsPrefix(FieldsOf(A, "order"), a.order)
          ELSE FieldsOf(A, "select") = a.select /\ FieldsOf(A, "order") = a.order

(* The server never runs an UPDATE or a DELETE without the WHERE that was  *)
(* asked for in that statement's own chain, whichever step objects drove   *)
(* it (README.md: UPDATE and DELETE need a WHERE).                         *)
NoUnfilteredWrite ==
  sent # NothingSent /\ sent.ran /\ sent.query.statement \in {"UPDATE", "DELETE"} =>
    sent.asked.where # <<>> /\ HasWhere(sent.query)

OnlySourcesAsked ==
  asked = [NothingAsked EXCEPT !.from = asked.from, !.joins = asked.joins]

(* on and the server judge an ON condition by two implementations of one   *)
(* rule, the one by names before the source exists, the other by ids of    *)
(* the finished query: whatever is joined so far, they agree on every next *)
(* condition (asked once for each set of sources, which is all that either *)
(* looks at), and the server takes the joins of each statement sent.       *)
BuilderAgreesWithServer ==
  /\ client = "SELECT" /\ OnlySourcesAsked /\ builder.sources # <<>> =>
       \A d \in Datasets, c \in OnCandidates :
         LET target == Len(query.sources)
             bound  == Append(builder.sources, [dataset |-> d, id |-> target])
             A      == ConditionAdded(Ast!AddJoinSource(query, 0, d), bound, c)
         IN FindSource(builder.sources, d) = -1 /\ NodesReached(bound, c) = Len(c) =>
              (TakesOn(c, d) <=> ValidateJoinOnCondition(A, target, LastCondition(A)))
  /\ sent # NothingSent => JoinsAccepted(sent.query)

(* The server takes an ON condition exactly if it relates the joined       *)
(* source to an earlier one in every row pair it can be true for           *)
(* (README.md: every OR branch of JOIN ON must hold such a comparison),    *)
(* also when the caller uses a node in two groups.                         *)
JoinsRelate ==
  client = "C" /\ query.conditions # <<>> =>
    \A target \in 1 .. Len(query.sources) - 1 :
      ValidateJoinOnCondition(query, target, LastCondition(query))
        <=> Relates(query, target, LastCondition(query))

=============================================================================
