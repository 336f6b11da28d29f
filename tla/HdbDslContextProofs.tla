-------------------------- MODULE HdbDslContextProofs --------------------------
(***************************************************************************)
(* Proofs about HdbDslContext, for any datasets, conditions, limits and    *)
(* numbers of calls: a statement that leaves a builder is the one its      *)
(* calls asked for, no UPDATE or DELETE runs without its WHERE, and the    *)
(* two judges of an ON condition agree with each other and with what the   *)
(* rule is for.                                                            *)
(***************************************************************************)
EXTENDS HdbDslContext, SequenceTheorems, WellFoundedInduction, TLAPS

(* The least element of a set of naturals, and the greatest of a bounded   *)
(* one.                                                                    *)
LEMMA LeastNatural ==
  ASSUME NEW S, S \subseteq Nat, S # {}
  PROVE  \E x \in S : \A y \in S : x <= y
<1>1. PICK x \in S : \A y \in S : ~(<<y, x>> \in OpToRel(<, Nat))
  BY NatLessThanWellFounded, WFMin
<1>2. \A y \in S : ~(y < x)
  BY <1>1 DEF OpToRel
<1>. QED  BY <1>2

(* A bounded set of naturals has a greatest element.                       *)
LEMMA GreatestNatural ==
  ASSUME NEW n \in Nat, NEW S, S \subseteq 0 .. n, S # {}
  PROVE  \E x \in S : \A y \in S : x >= y
<1>. DEFINE T == {n - y : y \in S}
<1>1. T \subseteq Nat /\ T # {}
  <2>1. \A y \in S : n - y \in Nat
    OBVIOUS
  <2>2. PICK y \in S : TRUE
    OBVIOUS
  <2>3. n - y \in T
    OBVIOUS
  <2>. QED  BY <2>1, <2>3
<1>2. PICK t \in T : \A u \in T : t <= u
  BY <1>1, LeastNatural
<1>3. PICK x \in S : t = n - x
  BY <1>2
<1>4. ASSUME NEW y \in S PROVE x >= y
  <2>1. n - x <= n - y
    BY <1>2, <1>3
  <2>. QED  BY <2>1
<1>. QED  BY <1>4

-----------------------------------------------------------------------------
(* Condition trees.                                                        *)

(* The children of the first n nodes come before their parents.            *)
Founded(nodes, n) ==
  \A i \in 1 .. n : nodes[i].type = "GROUP" =>
    \A j \in DOMAIN nodes[i].children : nodes[i].children[j] \in 1 .. i - 1

(* Node i with the trees f of its children, as in Tree.                    *)
Unfold(nodes, f, i) ==
  IF nodes[i].type # "GROUP" THEN nodes[i]
  ELSE [nodes[i] EXCEPT !.children = [j \in DOMAIN @ |-> f[@[j]]]]

Unfolds(nodes, f, n) == f = [i \in 1 .. n |-> Unfold(nodes, f, i)]

Trees(nodes, n) == CHOOSE f : Unfolds(nodes, f, n)

(* A node unfolds the same over trees that agree on its children.          *)
LEMMA UnfoldSame ==
  ASSUME NEW nodes, NEW f, NEW g, NEW i,
         nodes[i].type = "GROUP" => \A j \in DOMAIN nodes[i].children :
           f[nodes[i].children[j]] = g[nodes[i].children[j]]
  PROVE  Unfold(nodes, f, i) = Unfold(nodes, g, i)
<1>1. CASE nodes[i].type # "GROUP"
  BY <1>1 DEF Unfold
<1>2. CASE nodes[i].type = "GROUP"
  <2>. DEFINE c == nodes[i].children
  <2>1. [j \in DOMAIN c |-> f[c[j]]] = [j \in DOMAIN c |-> g[c[j]]]
    BY <1>2
  <2>. QED  BY <2>1 DEF Unfold
<1>. QED  BY <1>1, <1>2

(* What an unfolding says of one node.                                     *)
LEMMA UnfoldsElement ==
  ASSUME NEW nodes, NEW f, NEW n, Unfolds(nodes, f, n), NEW i \in 1 .. n
  PROVE  f[i] = Unfold(nodes, f, i)
<1>. DEFINE g == [k \in 1 .. n |-> Unfold(nodes, f, k)]
<1>1. f = g
  BY DEF Unfolds
<1>2. g[i] = Unfold(nodes, f, i)
  OBVIOUS
<1>. QED  BY <1>1, <1>2

(* Children before parents: every node unfolds.                            *)
LEMMA TreesExist ==
  ASSUME NEW nodes, NEW n \in Nat, Founded(nodes, n)
  PROVE  \E f : Unfolds(nodes, f, n)
<1>. DEFINE bad == {m \in 0 .. n : ~\E f : Unfolds(nodes, f, m)}
<1>1. SUFFICES ASSUME bad # {} PROVE FALSE
  OBVIOUS
<1>2. PICK m \in bad : \A k \in bad : m <= k
  <2>1. bad \subseteq Nat
    OBVIOUS
  <2>. HIDE DEF bad
  <2>. QED  BY <1>1, <2>1, LeastNatural
<1>3. m # 0
  <2>1. Unfolds(nodes, [i \in 1 .. 0 |-> 0], 0)
    BY DEF Unfolds
  <2>. QED  BY <1>2, <2>1
<1>4. m \in 0 .. n /\ m - 1 \in 0 .. n /\ ~(m <= m - 1)
  BY <1>2, <1>3
<1>5. PICK f : Unfolds(nodes, f, m - 1)
  BY <1>2, <1>4
<1>. DEFINE g == [i \in 1 .. m |-> IF i = m THEN Unfold(nodes, f, m) ELSE f[i]]
<1>6. ASSUME NEW i \in 1 .. m PROVE g[i] = Unfold(nodes, g, i)
  <2>1. ASSUME nodes[i].type = "GROUP", NEW j \in DOMAIN nodes[i].children
        PROVE  f[nodes[i].children[j]] = g[nodes[i].children[j]]
    <3>1. nodes[i].children[j] \in 1 .. i - 1
      BY <1>4, <2>1 DEF Founded
    <3>. QED  BY <1>4, <3>1
  <2>2. Unfold(nodes, f, i) = Unfold(nodes, g, i)
    <3>. HIDE DEF g
    <3>. QED  BY <2>1, UnfoldSame
  <2>3. CASE i = m
    BY <2>2, <2>3
  <2>4. CASE i # m
    <3>1. i \in 1 .. m - 1
      BY <1>4, <2>4
    <3>2. f[i] = Unfold(nodes, f, i)
      BY <1>5, <3>1, UnfoldsElement
    <3>. QED  BY <2>2, <2>4, <3>2
  <2>. QED  BY <2>3, <2>4
<1>7. Unfolds(nodes, g, m)
  BY <1>6 DEF Unfolds
<1>. QED  BY <1>2, <1>7

(* Trees is the unfolding, and Tree its last node.                         *)
LEMMA TreesUnfold ==
  ASSUME NEW nodes, NEW n \in Nat, Founded(nodes, n)
  PROVE  /\ \A i \in 1 .. n : Trees(nodes, n)[i] = Unfold(nodes, Trees(nodes, n), i)
         /\ Tree(nodes, n) = Trees(nodes, n)[n]
<1>1. Unfolds(nodes, Trees(nodes, n), n)
  BY TreesExist DEF Trees
<1>2. ASSUME NEW i \in 1 .. n
      PROVE  Trees(nodes, n)[i] = Unfold(nodes, Trees(nodes, n), i)
  BY <1>1, UnfoldsElement
<1>3. Tree(nodes, n) = Trees(nodes, n)[n]
  BY DEF Tree, Trees, Unfolds, Unfold
<1>. QED  BY <1>2, <1>3

(* A node that stands base places further on.                              *)
Moved(node, base) ==
  IF node.type # "GROUP" THEN node
  ELSE [node EXCEPT !.children = [j \in DOMAIN @ |-> @[j] + base]]

(* A list of nodes put after others makes the same trees.                  *)
LEMMA TreesMoved ==
  ASSUME NEW p, NEW n \in Nat, Founded(p, n),
         NEW q, NEW top \in Nat, Founded(q, top),
         NEW base \in Nat, base + n <= top,
         \A i \in 1 .. n : q[base + i] = Moved(p[i], base),
         \A i \in 1 .. n : p[i].type = "GROUP" => "children" \in DOMAIN p[i] /\ q[base + i].type = "GROUP"
  PROVE  \A i \in 1 .. n : Trees(q, top)[base + i] = Trees(p, n)[i]
<1>. DEFINE f == Trees(p, n)
            g == Trees(q, top)
            bad == {i \in 1 .. n : g[base + i] # f[i]}
<1>1. SUFFICES ASSUME bad # {} PROVE FALSE
  OBVIOUS
<1>2. PICK i \in bad : \A k \in bad : i <= k
  <2>1. bad \subseteq Nat
    OBVIOUS
  <2>. HIDE DEF bad
  <2>. QED  BY <1>1, <2>1, LeastNatural
<1>3. i \in 1 .. n /\ base + i \in 1 .. top
  BY <1>2
<1>4. f[i] = Unfold(p, f, i) /\ g[base + i] = Unfold(q, g, base + i)
  BY <1>3, TreesUnfold
<1>. HIDE DEF f, g
<1>5. CASE p[i].type # "GROUP"
  BY <1>2, <1>3, <1>4, <1>5 DEF Unfold, Moved
<1>6. CASE p[i].type = "GROUP"
  <2>. DEFINE c == p[i].children
  <2>1. q[base + i] = [p[i] EXCEPT !.children = [j \in DOMAIN c |-> c[j] + base]]
    BY <1>3, <1>6 DEF Moved
  <2>2. q[base + i].children = [j \in DOMAIN c |-> c[j] + base] /\ q[base + i].type = "GROUP"
    BY <1>3, <1>6, <2>1
  <2>3. ASSUME NEW j \in DOMAIN c PROVE g[c[j] + base] = f[c[j]]
    <3>1. c[j] \in 1 .. i - 1
      BY <1>3, <1>6 DEF Founded
    <3>2. c[j] \in 1 .. n /\ ~(i <= c[j]) /\ c[j] + base = base + c[j]
      BY <1>3, <3>1
    <3>. QED  BY <1>2, <3>2
  <2>. DEFINE h == [j \in DOMAIN c |-> c[j] + base]
  <2>4. [j \in DOMAIN h |-> g[h[j]]] = [j \in DOMAIN c |-> f[c[j]]]
    BY <2>3
  <2>5. Unfold(q, g, base + i) = [q[base + i] EXCEPT !.children = [j \in DOMAIN h |-> g[h[j]]]]
    BY <2>2 DEF Unfold
  <2>6. Unfold(p, f, i) = [p[i] EXCEPT !.children = [j \in DOMAIN c |-> f[c[j]]]]
    BY <1>6 DEF Unfold
  <2>7. Unfold(q, g, base + i) = Unfold(p, f, i)
    BY <2>1, <2>4, <2>5, <2>6
  <2>. QED  BY <1>2, <1>4, <2>7
<1>. QED  BY <1>5, <1>6

-----------------------------------------------------------------------------
(* A query as the builders make it.                                        *)

Sources   == [id : Nat, type : {"ROOT", "JOIN"}, parent : Int, dataset : Datasets, on : Int]
Items     == [source : Nat, text : {"plain"}]
LeafNodes == [id : Nat, type : {"VALUE", "FIELD_COMPARE", "RANGE"}, text : {"plain"},
              source : Nat, right : Nat \cup {-1}]
GroupNodes == [id : Nat, type : {"GROUP"}, logic : {"AND", "OR"}, children : Seq(Nat)]
Queries   == [statement : Statements, sources : Seq(Sources),
              time : (Times \X Times) \cup {<<>>}, items : [Kinds -> Seq(Items)],
              conditions : Seq(LeafNodes \cup GroupNodes), whereRoot : Nat \cup {-1},
              limit : 0 .. MaxLimit + 1]

(* Sources are numbered, items and conditions name sources of the query,   *)
(* and the children of a group come before it.                             *)
GoodSources(A) ==
  /\ \A i \in DOMAIN A.sources : A.sources[i].id = i - 1
  /\ A.sources # <<>> => A.sources[1].type = "ROOT"

GoodItems(A) ==
  \A kind \in Kinds : \A i \in DOMAIN A.items[kind] :
    A.items[kind][i].source + 1 \in DOMAIN A.sources

GoodNodes(A) ==
  \A i \in DOMAIN A.conditions :
    LET c == A.conditions[i]
    IN IF c.type = "GROUP" THEN \A j \in DOMAIN c.children : c.children[j] \in 0 .. i - 2
       ELSE /\ c.source + 1 \in DOMAIN A.sources
            /\ c.type = "FIELD_COMPARE" => c.right + 1 \in DOMAIN A.sources

GoodQuery(A) == A \in Queries /\ GoodSources(A) /\ GoodItems(A) /\ GoodNodes(A)

(* What the builder knows of the query's sources.                          *)
Binds(bound, A) ==
  /\ bound \in Seq(Bindings)
  /\ Len(bound) = Len(A.sources)
  /\ \A i \in DOMAIN bound : bound[i].id = i - 1 /\ bound[i].dataset = A.sources[i].dataset

(* Sources keep their dataset and conditions stay.                         *)
Extends(A, B) ==
  /\ \A i \in DOMAIN A.sources :
       i \in DOMAIN B.sources /\ B.sources[i].dataset = A.sources[i].dataset
  /\ \A i \in DOMAIN A.conditions :
       i \in DOMAIN B.conditions /\ B.conditions[i] = A.conditions[i]

OnlySources(A, B)    == B = [A EXCEPT !.sources = B.sources]
OnlyItems(A, B)      == B = [A EXCEPT !.items = B.items]
OnlyConditions(A, B) == B = [A EXCEPT !.conditions = B.conditions]

(* The tree below a condition of the query is the tree of c.               *)
Stands(A, root, c) ==
  root \in 0 .. Len(A.conditions) - 1 /\ TreeOf(A, root) = Tree(c, Len(c))

(* What a query of the type is made of.                                    *)
LEMMA QueryFields ==
  ASSUME NEW A \in Queries
  PROVE  /\ A.statement \in Statements /\ A.sources \in Seq(Sources)
         /\ A.time \in (Times \X Times) \cup {<<>>}
         /\ A.items \in [Kinds -> Seq(Items)] /\ A.conditions \in Seq(LeafNodes \cup GroupNodes)
         /\ A.whereRoot \in Nat \cup {-1} /\ A.limit \in 0 .. MaxLimit + 1
         /\ Len(A.sources) \in Nat /\ DOMAIN A.sources = 1 .. Len(A.sources)
         /\ Len(A.conditions) \in Nat /\ DOMAIN A.conditions = 1 .. Len(A.conditions)
         /\ \A i \in DOMAIN A.sources : A.sources[i] \in Sources
         /\ \A i \in DOMAIN A.conditions : A.conditions[i] \in LeafNodes \cup GroupNodes
BY LenProperties DEF Queries

(* Min is the least element.                                               *)
LEMMA MinNatural ==
  ASSUME NEW S, S \subseteq Nat, S # {}
  PROVE  Min(S) \in S /\ \A y \in S : Min(S) <= y
BY LeastNatural DEF Min

(* Max is the greatest element.                                            *)
LEMMA MaxNatural ==
  ASSUME NEW n \in Nat, NEW S, S \subseteq 0 .. n, S # {}
  PROVE  Max(S) \in S /\ \A y \in S : Max(S) >= y
BY GreatestNatural DEF Max

(* FindSource returns the id of a binding of the dataset, or -1.           *)
LEMMA FoundSource ==
  ASSUME NEW bound \in Seq(Bindings), NEW d
  PROVE  /\ FindSource(bound, d) \in Nat \cup {-1}
         /\ FindSource(bound, d) >= 0 <=> \E i \in DOMAIN bound : bound[i].dataset = d
         /\ FindSource(bound, d) >= 0 =>
              \E i \in DOMAIN bound : bound[i].dataset = d /\ FindSource(bound, d) = bound[i].id
<1>. DEFINE at == {i \in DOMAIN bound : bound[i].dataset = d}
<1>1. at \subseteq DOMAIN bound /\ DOMAIN bound \subseteq Nat
  BY LenProperties
<1>2. \A i \in DOMAIN bound : bound[i].id \in Nat
  <2>1. \A i \in DOMAIN bound : bound[i] \in Bindings
    BY LenProperties, ElementOfSeq
  <2>. QED  BY <2>1 DEF Bindings
<1>3. FindSource(bound, d) = IF at = {} THEN -1 ELSE bound[Min(at)].id
  BY DEF FindSource
<1>4. CASE at = {}
  BY <1>3, <1>4
<1>5. CASE at # {}
  <2>1. Min(at) \in at
    <3>1. at \subseteq Nat
      BY <1>1
    <3>. HIDE DEF at
    <3>. QED  BY <1>5, <3>1, MinNatural
  <2>2. Min(at) \in DOMAIN bound /\ bound[Min(at)].dataset = d
    BY <2>1
  <2>. HIDE DEF at
  <2>3. FindSource(bound, d) = bound[Min(at)].id /\ bound[Min(at)].id \in Nat
    BY <1>2, <1>3, <1>5, <2>2
  <2>. QED  BY <2>2, <2>3
<1>. QED  BY <1>4, <1>5

(* A bound dataset is found at the source it was bound to.                 *)
LEMMA BoundSource ==
  ASSUME NEW A \in Queries, NEW bound, Binds(bound, A), NEW d, FindSource(bound, d) >= 0
  PROVE  /\ FindSource(bound, d) \in Nat
         /\ FindSource(bound, d) + 1 \in DOMAIN A.sources
         /\ A.sources[FindSource(bound, d) + 1].dataset = d
<1>1. PICK i \in DOMAIN bound : bound[i].dataset = d /\ FindSource(bound, d) = bound[i].id
  BY FoundSource DEF Binds
<1>2. i \in DOMAIN A.sources /\ bound[i].id + 1 = i /\ i - 1 \in Nat
  BY QueryFields, LenProperties DEF Binds
<1>. QED  BY <1>1, <1>2 DEF Binds

-----------------------------------------------------------------------------
(* The condition trees of a query.                                         *)

(* DslNodes of a group.                                                    *)
LEMMA GroupOf ==
  ASSUME NEW A, NEW i \in DOMAIN A.conditions, NEW c, c = A.conditions[i], c.type = "GROUP"
  PROVE  DslNodes(A)[i] = [type |-> "GROUP", logic |-> c.logic,
                           children |-> [j \in DOMAIN c.children |-> c.children[j] + 1]]
BY DEF DslNodes

(* DslNodes of a comparison of two fields.                                 *)
LEMMA CompareOf ==
  ASSUME NEW A, NEW i \in DOMAIN A.conditions, NEW c, c = A.conditions[i],
         c.type = "FIELD_COMPARE"
  PROVE  DslNodes(A)[i] = Compare(A.sources[c.source + 1].dataset, A.sources[c.right + 1].dataset)
BY DEF DslNodes

(* DslNodes of a condition on one field.                                   *)
LEMMA LeafOf ==
  ASSUME NEW A, NEW i \in DOMAIN A.conditions, NEW c, c = A.conditions[i],
         c.type \notin {"GROUP", "FIELD_COMPARE"}
  PROVE  DslNodes(A)[i] = [type |-> c.type, left |-> A.sources[c.source + 1].dataset]
BY DEF DslNodes

(* DslNodes keeps the type of a node.                                      *)
LEMMA TypeOf ==
  ASSUME NEW A, NEW i \in DOMAIN A.conditions, NEW c, c = A.conditions[i]
  PROVE  DslNodes(A)[i].type = c.type
<1>1. CASE c.type = "GROUP"
  <2>. DEFINE h == [j \in DOMAIN c.children |-> c.children[j] + 1]
  <2>1. DslNodes(A)[i] = [type |-> "GROUP", logic |-> c.logic, children |-> h]
    BY <1>1, GroupOf
  <2>. HIDE DEF h
  <2>. QED  BY <1>1, <2>1
<1>2. CASE c.type = "FIELD_COMPARE"
  <2>1. DslNodes(A)[i] = Compare(A.sources[c.source + 1].dataset, A.sources[c.right + 1].dataset)
    BY <1>2, CompareOf
  <2>. QED  BY <1>2, <2>1 DEF Compare
<1>3. CASE c.type \notin {"GROUP", "FIELD_COMPARE"}
  <2>1. DslNodes(A)[i] = [type |-> c.type, left |-> A.sources[c.source + 1].dataset]
    BY <1>3, LeafOf
  <2>. QED  BY <2>1
<1>. QED  BY <1>1, <1>2, <1>3

(* A good query's nodes come before their parents.                         *)
LEMMA NodesFounded ==
  ASSUME NEW A, GoodQuery(A)
  PROVE  Founded(DslNodes(A), Len(A.conditions))
<1>1. SUFFICES ASSUME NEW i \in 1 .. Len(A.conditions), DslNodes(A)[i].type = "GROUP",
                      NEW j \in DOMAIN DslNodes(A)[i].children
               PROVE  DslNodes(A)[i].children[j] \in 1 .. i - 1
  BY DEF Founded
<1>. DEFINE c == A.conditions[i]
<1>2. i \in DOMAIN A.conditions /\ A \in Queries
  BY QueryFields DEF GoodQuery
<1>3. c.type = "GROUP" /\ DslNodes(A)[i].children = [k \in DOMAIN c.children |-> c.children[k] + 1]
  <2>. DEFINE h == [k \in DOMAIN c.children |-> c.children[k] + 1]
  <2>1. c.type = "GROUP" /\ DslNodes(A)[i] = [type |-> "GROUP", logic |-> c.logic, children |-> h]
    BY <1>1, <1>2, TypeOf, GroupOf
  <2>. HIDE DEF h
  <2>2. DslNodes(A)[i].children = h
    BY <2>1
  <2>. QED  BY <2>1, <2>2 DEF h
<1>4. j \in DOMAIN c.children /\ DslNodes(A)[i].children[j] = c.children[j] + 1
  BY <1>3
<1>5. c.children[j] \in 0 .. i - 2
  BY <1>2, <1>3, <1>4 DEF GoodQuery, GoodNodes
<1>. QED  BY <1>4, <1>5

(* What is added to a query leaves the trees it has alone.                 *)
LEMMA TreesKept ==
  ASSUME NEW A, NEW B, GoodQuery(A), GoodQuery(B), Extends(A, B),
         NEW root \in 0 .. Len(A.conditions) - 1
  PROVE  root \in 0 .. Len(B.conditions) - 1 /\ TreeOf(B, root) = TreeOf(A, root)
<1>. DEFINE p == DslNodes(A)
            q == DslNodes(B)
            n == root + 1
<1>1. A \in Queries /\ B \in Queries /\ n \in Nat /\ n \in DOMAIN A.conditions
      /\ n \in 1 .. Len(A.conditions)
  BY QueryFields DEF GoodQuery
<1>2. n \in DOMAIN B.conditions /\ n \in 1 .. Len(B.conditions) /\ Len(B.conditions) \in Nat
  BY <1>1, QueryFields DEF Extends
<1>3. Founded(p, n) /\ Founded(q, n)
  BY <1>1, <1>2, NodesFounded DEF Founded
<1>4. ASSUME NEW i \in 1 .. n
      PROVE  /\ q[0 + i] = Moved(p[i], 0)
             /\ p[i].type = "GROUP" => "children" \in DOMAIN p[i] /\ q[0 + i].type = "GROUP"
  <2>. DEFINE c == A.conditions[i]
  <2>1. i \in DOMAIN A.conditions /\ i \in DOMAIN B.conditions /\ B.conditions[i] = c /\ 0 + i = i
    BY <1>1, QueryFields DEF Extends
  <2>2. CASE c.type = "GROUP"
    <3>. DEFINE h == [j \in DOMAIN c.children |-> c.children[j] + 1]
    <3>1. p[i] = [type |-> "GROUP", logic |-> c.logic, children |-> h] /\ q[i] = p[i]
      <4>1. p[i] = [type |-> "GROUP", logic |-> c.logic, children |-> h]
        BY <2>1, <2>2, GroupOf
      <4>2. q[i] = [type |-> "GROUP", logic |-> c.logic, children |-> h]
        BY <2>1, <2>2, GroupOf
      <4>. QED  BY <4>1, <4>2
    <3>2. \A j \in DOMAIN c.children : c.children[j] \in Int
      BY <1>1, <2>1, <2>2 DEF GoodQuery, GoodNodes
    <3>3. [j \in DOMAIN h |-> h[j] + 0] = h
      BY <3>2
    <3>4. Moved(p[i], 0) = p[i]
      <4>. HIDE DEF h, p
      <4>. QED  BY <3>1, <3>3 DEF Moved
    <3>. QED  BY <2>1, <3>1, <3>4
  <2>3. CASE c.type # "GROUP"
    <3>1. c.source + 1 \in DOMAIN A.sources
          /\ (c.type = "FIELD_COMPARE" => c.right + 1 \in DOMAIN A.sources)
      BY <2>1, <2>3 DEF GoodQuery, GoodNodes
    <3>2. q[i] = p[i] /\ p[i].type # "GROUP"
      <4>1. /\ B.sources[c.source + 1].dataset = A.sources[c.source + 1].dataset
            /\ c.type = "FIELD_COMPARE" =>
                 B.sources[c.right + 1].dataset = A.sources[c.right + 1].dataset
        BY <3>1 DEF Extends
      <4>2. CASE c.type = "FIELD_COMPARE"
        <5>1. p[i] = Compare(A.sources[c.source + 1].dataset, A.sources[c.right + 1].dataset)
          BY <2>1, <4>2, CompareOf
        <5>2. q[i] = Compare(B.sources[c.source + 1].dataset, B.sources[c.right + 1].dataset)
          BY <2>1, <4>2, CompareOf
        <5>. QED  BY <4>1, <4>2, <5>1, <5>2 DEF Compare
      <4>3. CASE c.type # "FIELD_COMPARE"
        <5>1. p[i] = [type |-> c.type, left |-> A.sources[c.source + 1].dataset]
          BY <2>1, <2>3, <4>3, LeafOf
        <5>2. q[i] = [type |-> c.type, left |-> B.sources[c.source + 1].dataset]
          BY <2>1, <2>3, <4>3, LeafOf
        <5>. QED  BY <2>3, <4>1, <5>1, <5>2
      <4>. QED  BY <4>2, <4>3
    <3>. QED  BY <2>1, <3>2 DEF Moved
  <2>. QED  BY <2>2, <2>3
<1>5. Trees(q, n)[0 + n] = Trees(p, n)[n]
  <2>. HIDE DEF p, q, n
  <2>1. 0 \in Nat /\ 0 + n <= n /\ n \in 1 .. n
    BY <1>1
  <2>. QED  BY <1>1, <1>3, <1>4, <2>1, TreesMoved
<1>6. Tree(q, n) = Tree(p, n)
  BY <1>1, <1>3, <1>5, TreesUnfold
<1>. QED  BY <1>1, <1>2, <1>6 DEF TreeOf

-----------------------------------------------------------------------------
(* Adding to a query.                                                      *)

(* The nodes of a caller's condition.                                      *)
LEMMA NodeKinds ==
  ASSUME NEW c, IsCondition(c), NEW i \in DOMAIN c
  PROVE  /\ i \in 1 .. Len(c) /\ Len(c) \in Nat /\ DOMAIN c = 1 .. Len(c)
         /\ c[i] \in DslLeaves \cup Groups
         /\ c[i].type = "GROUP" => /\ c[i] \in Groups
                                   /\ \A j \in DOMAIN c[i].children : c[i].children[j] \in 1 .. i - 1
         /\ c[i].type # "GROUP" =>
              \/ \E d \in Datasets : c[i] = Value(d)
              \/ \E d \in Datasets : c[i] = InRange(d)
              \/ \E d, e \in Datasets : c[i] = Compare(d, e)
<1>1. i \in 1 .. Len(c) /\ Len(c) \in Nat /\ DOMAIN c = 1 .. Len(c) /\ c[i] \in DslLeaves \cup Groups
  BY LenProperties, ElementOfSeq DEF IsCondition
<1>2. \A d \in Datasets, e \in Datasets :
        Value(d).type # "GROUP" /\ InRange(d).type # "GROUP" /\ Compare(d, e).type # "GROUP"
  BY DEF Value, InRange, Compare
<1>3. \A g \in Groups : g.type = "GROUP"
  BY DEF Groups
<1>4. c[i].type = "GROUP" => c[i] \in Groups
  BY <1>1, <1>2 DEF DslLeaves
<1>5. c[i].type # "GROUP" => c[i] \in DslLeaves
  BY <1>1, <1>3
<1>. QED  BY <1>1, <1>4, <1>5 DEF DslLeaves, IsCondition

(* A node that AddConditionToQuery adds is good in its query.              *)
LEMMA NewNode ==
  ASSUME NEW A, GoodQuery(A), NEW bound, Binds(bound, A), NEW c, IsCondition(c),
         NEW base \in Nat, NEW i \in DOMAIN c, Resolves(bound, c[i])
  PROVE  LET new == QueryNode(bound, c[i], base, i)
         IN /\ new \in LeafNodes \cup GroupNodes
            /\ IF new.type = "GROUP"
               THEN \A j \in DOMAIN new.children : new.children[j] \in 0 .. base + i - 2
               ELSE /\ new.source + 1 \in DOMAIN A.sources
                    /\ new.type = "FIELD_COMPARE" => new.right + 1 \in DOMAIN A.sources
<1>. DEFINE node == c[i]
            new  == QueryNode(bound, node, base, i)
<1>1. A \in Queries /\ i \in 1 .. Len(c) /\ Len(c) \in Nat
  BY NodeKinds DEF GoodQuery
<1>2. base + i - 1 \in Nat
  BY <1>1
<1>3. CASE node.type = "GROUP"
  <2>. DEFINE h == [j \in DOMAIN node.children |-> base + node.children[j] - 1]
  <2>1. /\ node.logic \in {"AND", "OR"} /\ node.children \in Seq(Nat)
        /\ \A j \in DOMAIN node.children : node.children[j] \in 1 .. i - 1
    BY <1>3, NodeKinds DEF Groups
  <2>2. ASSUME NEW j \in DOMAIN node.children
        PROVE  h[j] \in 0 .. base + i - 2 /\ h[j] \in Nat
    <3>. HIDE DEF node
    <3>1. node.children[j] \in 1 .. i - 1 /\ i \in Nat
      BY <1>1, <2>1
    <3>. QED  BY <3>1
  <2>3. h \in Seq(Nat)
    <3>1. DOMAIN node.children = 1 .. Len(node.children) /\ Len(node.children) \in Nat
      BY <2>1, LenProperties
    <3>2. h \in [1 .. Len(node.children) -> Nat]
      <4>. HIDE DEF node
      <4>. QED  BY <2>2, <3>1
    <3>. HIDE DEF h, node
    <3>. QED  BY <3>1, <3>2
  <2>4. new = [id |-> base + i - 1, type |-> "GROUP", logic |-> node.logic, children |-> h]
    BY <1>3 DEF QueryNode
  <2>. HIDE DEF new, node
  <2>5. DOMAIN h = DOMAIN node.children
    OBVIOUS
  <2>. HIDE DEF h
  <2>6. new \in GroupNodes /\ new.type = "GROUP" /\ new.children = h
    BY <1>2, <2>1, <2>3, <2>4 DEF GroupNodes
  <2>. QED  BY <2>2, <2>5, <2>6 DEF new, node
<1>4. CASE node.type # "GROUP"
  <2>1. node.type \in {"VALUE", "FIELD_COMPARE", "RANGE"}
    BY <1>4, NodeKinds DEF Value, InRange, Compare
  <2>2. /\ FindSource(bound, node.left) >= 0
        /\ node.type = "FIELD_COMPARE" => FindSource(bound, node.right) >= 0
    BY <1>4 DEF Resolves
  <2>3. /\ FindSource(bound, node.left) \in Nat
        /\ FindSource(bound, node.left) + 1 \in DOMAIN A.sources
        /\ node.type = "FIELD_COMPARE" =>
             /\ FindSource(bound, node.right) \in Nat
             /\ FindSource(bound, node.right) + 1 \in DOMAIN A.sources
    BY <1>1, <2>2, BoundSource
  <2>4. new = [id |-> base + i - 1, type |-> node.type, text |-> "plain",
               source |-> FindSource(bound, node.left),
               right |-> IF node.type = "FIELD_COMPARE" THEN FindSource(bound, node.right) ELSE -1]
    BY <1>4 DEF QueryNode
  <2>. HIDE DEF new, node
  <2>5. new \in LeafNodes /\ new.type # "GROUP"
    BY <1>2, <2>1, <2>3, <2>4 DEF LeafNodes
  <2>6. /\ new.source = FindSource(bound, node.left)
        /\ new.type = node.type
        /\ node.type = "FIELD_COMPARE" => new.right = FindSource(bound, node.right)
    BY <2>4
  <2>. QED  BY <2>3, <2>5, <2>6 DEF new, node
<1>. QED  BY <1>3, <1>4

AllResolve(bound, c) == \A i \in DOMAIN c : Resolves(bound, c[i])

(* The conditions after ConditionAdded.                                    *)
LEMMA ManyNodes ==
  ASSUME NEW A, GoodQuery(A), NEW bound, Binds(bound, A), NEW c, IsCondition(c),
         \A i \in DOMAIN c : Resolves(bound, c[i]),
         NEW B, B = ConditionAdded(A, bound, c)
  PROVE  /\ B \in Queries
         /\ B = [A EXCEPT !.conditions = B.conditions]
         /\ Len(B.conditions) = Len(A.conditions) + Len(c)
         /\ \A i \in DOMAIN A.conditions : B.conditions[i] = A.conditions[i]
         /\ \A i \in DOMAIN c : B.conditions[Len(A.conditions) + i]
                                  = QueryNode(bound, c[i], Len(A.conditions), i)
<1>. DEFINE base == Len(A.conditions)
            n    == Len(c)
            new  == [i \in 1 .. n |-> QueryNode(bound, c[i], base, i)]
            S    == LeafNodes \cup GroupNodes
<1>1. A \in Queries /\ base \in Nat /\ n \in Nat /\ DOMAIN c = 1 .. n /\ A.conditions \in Seq(S)
      /\ DOMAIN A.conditions = 1 .. base
  BY QueryFields, LenProperties DEF GoodQuery, IsCondition
<1>2. new \in Seq(S) /\ Len(new) = n /\ \A i \in 1 .. n : new[i] = QueryNode(bound, c[i], base, i)
  <2>1. \A i \in 1 .. n : new[i] \in S
    BY <1>1, NewNode
  <2>2. new \in [1 .. n -> S]
    BY <2>1
  <2>. QED  BY <1>1, <2>2, LenProperties
<1>3. B = [A EXCEPT !.conditions = @ \o new]
  BY DEF ConditionAdded, NodesAdded
<1>. HIDE DEF new
<1>4. B.conditions = A.conditions \o new /\ B = [A EXCEPT !.conditions = B.conditions]
  BY <1>1, <1>3 DEF Queries
<1>5. B.conditions \in Seq(S)
  BY <1>1, <1>2, <1>4, ConcatProperties
<1>6. B \in Queries
  BY <1>1, <1>4, <1>5 DEF Queries
<1>. HIDE DEF S
<1>7. Len(B.conditions) = base + n
  <2>1. Len(A.conditions \o new) = Len(A.conditions) + Len(new)
    BY <1>1, <1>2, ConcatProperties
  <2>. QED  BY <1>2, <1>4, <2>1
<1>8. \A i \in DOMAIN A.conditions : B.conditions[i] = A.conditions[i]
  <2>1. \A i \in 1 .. base : i \in 1 .. base + n /\ i <= base
    BY <1>1
  <2>. QED  BY <1>1, <1>2, <1>4, <2>1, ConcatProperties
<1>9. \A i \in DOMAIN c : B.conditions[base + i] = QueryNode(bound, c[i], base, i)
  <2>1. \A i \in 1 .. n : base + i \in 1 .. base + n /\ ~(base + i <= base) /\ base + i - base = i
    BY <1>1
  <2>. QED  BY <1>1, <1>2, <1>4, <2>1, ConcatProperties
<1>. QED  BY <1>4, <1>6, <1>7, <1>8, <1>9

(* A condition added to a query stands there as the tree it was.           *)
Conditioned(A, bound, c, B) ==
  /\ GoodQuery(B) /\ Extends(A, B) /\ Binds(bound, B)
  /\ OnlyConditions(A, B)
  /\ Stands(B, LastCondition(B), c)

(* AddConditionToQuery adds the condition: its last node stands for it.    *)
LEMMA AddedCondition ==
  ASSUME NEW A, GoodQuery(A), NEW bound, Binds(bound, A), NEW c, IsCondition(c),
         AllResolve(bound, c),
         NEW B, B = ConditionAdded(A, bound, c)
  PROVE  Conditioned(A, bound, c, B)
<1>. DEFINE base == Len(A.conditions)
            n    == Len(c)
            q    == DslNodes(B)
<1>1. /\ A \in Queries /\ base \in Nat /\ n \in Nat \ {0} /\ DOMAIN c = 1 .. n
      /\ DOMAIN A.conditions = 1 .. base
  BY QueryFields, LenProperties, EmptySeq DEF GoodQuery, IsCondition
<1>0. \A i \in DOMAIN c : Resolves(bound, c[i])
  BY DEF AllResolve
<1>2. /\ B \in Queries
      /\ B = [A EXCEPT !.conditions = B.conditions]
      /\ Len(B.conditions) = base + n
      /\ DOMAIN B.conditions = 1 .. base + n
      /\ \A i \in DOMAIN A.conditions : B.conditions[i] = A.conditions[i]
      /\ \A i \in DOMAIN c : B.conditions[base + i] = QueryNode(bound, c[i], base, i)
  BY <1>0, ManyNodes, QueryFields
<1>3. B.sources = A.sources /\ B.items = A.items
  BY <1>1, <1>2 DEF Queries
<1>4. Extends(A, B) /\ Binds(bound, B)
  BY <1>1, <1>2, <1>3 DEF Extends, Binds
<1>5. GoodNodes(B)
  <2>1. SUFFICES ASSUME NEW i \in DOMAIN B.conditions
                 PROVE  LET d == B.conditions[i]
                        IN IF d.type = "GROUP"
                           THEN \A j \in DOMAIN d.children : d.children[j] \in 0 .. i - 2
                           ELSE /\ d.source + 1 \in DOMAIN A.sources
                                /\ d.type = "FIELD_COMPARE" => d.right + 1 \in DOMAIN A.sources
    BY <1>3 DEF GoodNodes
  <2>2. CASE i <= base
    <3>1. i \in DOMAIN A.conditions
      BY <1>1, <1>2, <2>2
    <3>. QED  BY <1>2, <3>1 DEF GoodQuery, GoodNodes
  <2>3. CASE ~(i <= base)
    <3>. DEFINE k == i - base
    <3>1. k \in DOMAIN c /\ base + k = i
      BY <1>1, <1>2, <2>3
    <3>. HIDE DEF k
    <3>2. B.conditions[i] = QueryNode(bound, c[k], base, k) /\ Resolves(bound, c[k])
      BY <1>0, <1>2, <3>1
    <3>. QED  BY <1>1, <3>1, <3>2, NewNode
  <2>. QED  BY <1>1, <1>2, <2>2, <2>3
<1>6. GoodQuery(B)
  BY <1>2, <1>3, <1>5 DEF GoodQuery, GoodSources, GoodItems
<1>7. Founded(c, n) /\ Founded(q, base + n)
  <2>1. Founded(c, n)
    BY <1>1 DEF Founded, IsCondition
  <2>. QED  BY <1>2, <1>6, <2>1, NodesFounded
<1>8. ASSUME NEW i \in 1 .. n
      PROVE  /\ q[base + i] = Moved(c[i], base)
             /\ c[i].type = "GROUP" => "children" \in DOMAIN c[i] /\ q[base + i].type = "GROUP"
  <2>. DEFINE new == QueryNode(bound, c[i], base, i)
  <2>1. base + i \in DOMAIN B.conditions /\ B.conditions[base + i] = new /\ i \in DOMAIN c
    BY <1>1, <1>2
  <2>2. CASE c[i].type = "GROUP"
    <3>. DEFINE kids == c[i].children
                h    == [j \in DOMAIN kids |-> base + kids[j] - 1]
                g    == [j \in DOMAIN h |-> h[j] + 1]
    <3>1. new = [id |-> base + i - 1, type |-> "GROUP", logic |-> c[i].logic, children |-> h]
      BY <2>2 DEF QueryNode
    <3>2. c[i] = [type |-> "GROUP", logic |-> c[i].logic, children |-> kids]
      BY <2>1, <2>2, NodeKinds DEF Groups
    <3>3. g = [j \in DOMAIN kids |-> kids[j] + base]
      <4>1. \A j \in DOMAIN kids : kids[j] \in 1 .. i - 1
        BY <2>1, <2>2, NodeKinds
      <4>2. \A j \in DOMAIN kids : h[j] + 1 = kids[j] + base
        BY <1>1, <4>1
      <4>. QED  BY <4>2
    <3>. HIDE DEF h, new, kids
    <3>4. new.type = "GROUP" /\ new.logic = c[i].logic /\ new.children = h
      BY <3>1
    <3>5. q[base + i] = [type |-> "GROUP", logic |-> c[i].logic, children |-> g]
      BY <2>1, <3>4, GroupOf
    <3>. HIDE DEF g
    <3>6. Moved(c[i], base) = [c[i] EXCEPT !.children = [j \in DOMAIN kids |-> kids[j] + base]]
      BY <2>2 DEF Moved, kids
    <3>7. Moved(c[i], base) = [c[i] EXCEPT !.children = g]
      BY <3>3, <3>6
    <3>8. [c[i] EXCEPT !.children = g] = [type |-> "GROUP", logic |-> c[i].logic, children |-> g]
      BY <3>2
    <3>. QED  BY <3>2, <3>5, <3>7, <3>8
  <2>3. CASE c[i].type # "GROUP"
    <3>1. new.type = c[i].type /\ new.source = FindSource(bound, c[i].left)
          /\ (c[i].type = "FIELD_COMPARE" => new.right = FindSource(bound, c[i].right))
      BY <2>3 DEF QueryNode
    <3>2. /\ FindSource(bound, c[i].left) >= 0
          /\ c[i].type = "FIELD_COMPARE" => FindSource(bound, c[i].right) >= 0
      BY <1>0, <2>1, <2>3 DEF Resolves
    <3>3. /\ B.sources[new.source + 1].dataset = c[i].left
          /\ c[i].type = "FIELD_COMPARE" => B.sources[new.right + 1].dataset = c[i].right
      BY <1>1, <1>3, <3>1, <3>2, BoundSource
    <3>. HIDE DEF new
    <3>4. CASE c[i].type = "FIELD_COMPARE"
      <4>1. q[base + i] = Compare(c[i].left, c[i].right)
        <5>1. new.type = "FIELD_COMPARE" /\ B.sources[new.source + 1].dataset = c[i].left
              /\ B.sources[new.right + 1].dataset = c[i].right
          BY <3>1, <3>3, <3>4
        <5>2. base + i \in DOMAIN B.conditions /\ new = B.conditions[base + i]
          BY <2>1
        <5>3. DslNodes(B)[base + i] = Compare(B.sources[new.source + 1].dataset,
                                              B.sources[new.right + 1].dataset)
          BY <5>1, <5>2, CompareOf
        <5>. QED  BY <5>1, <5>3
      <4>2. c[i] = Compare(c[i].left, c[i].right)
        BY <2>1, <3>4, NodeKinds DEF Value, InRange, Compare
      <4>. QED  BY <2>3, <4>1, <4>2 DEF Moved
    <3>5. CASE c[i].type # "FIELD_COMPARE"
      <4>1. q[base + i] = [type |-> c[i].type, left |-> c[i].left]
        <5>1. new.type \notin {"GROUP", "FIELD_COMPARE"} /\ new.type = c[i].type
              /\ B.sources[new.source + 1].dataset = c[i].left
          BY <2>3, <3>1, <3>3, <3>5
        <5>2. base + i \in DOMAIN B.conditions /\ new = B.conditions[base + i]
          BY <2>1
        <5>3. DslNodes(B)[base + i] = [type |-> new.type,
                                       left |-> B.sources[new.source + 1].dataset]
          BY <5>1, <5>2, LeafOf
        <5>. QED  BY <5>1, <5>3
      <4>2. c[i] = [type |-> c[i].type, left |-> c[i].left]
        BY <2>1, <2>3, <3>5, NodeKinds DEF Value, InRange, Compare
      <4>. QED  BY <2>3, <4>1, <4>2 DEF Moved
    <3>. QED  BY <3>4, <3>5
  <2>. QED  BY <2>2, <2>3
<1>9. Tree(q, base + n) = Tree(c, n)
  <2>. HIDE DEF base, n, q
  <2>1. Trees(q, base + n)[base + n] = Trees(c, n)[n]
    <3>. DEFINE top == base + n
    <3>1. /\ top \in Nat /\ base \in Nat /\ n \in Nat /\ base + n <= top /\ n \in 1 .. n
          /\ Founded(c, n) /\ Founded(q, top)
      BY <1>1, <1>7
    <3>2. /\ \A i \in 1 .. n : q[base + i] = Moved(c[i], base)
          /\ \A i \in 1 .. n : c[i].type = "GROUP" =>
               "children" \in DOMAIN c[i] /\ q[base + i].type = "GROUP"
      BY <1>8
    <3>. HIDE DEF top
    <3>3. \A i \in 1 .. n : Trees(q, top)[base + i] = Trees(c, n)[i]
      BY <3>1, <3>2, TreesMoved
    <3>. QED  BY <3>1, <3>3 DEF top
  <2>2. base + n \in Nat
    BY <1>1
  <2>. QED  BY <1>1, <1>7, <2>1, <2>2, TreesUnfold
<1>10. Stands(B, LastCondition(B), c)
  <2>1. LastCondition(B) = base + n - 1 /\ LastCondition(B) + 1 = base + n
        /\ base + n - 1 \in 0 .. Len(B.conditions) - 1
    BY <1>1, <1>2 DEF LastCondition
  <2>. QED  BY <1>9, <2>1 DEF Stands, TreeOf
<1>. QED  BY <1>2, <1>4, <1>6, <1>10 DEF OnlyConditions, Conditioned

(* A condition still stands for what it stood for when a query grows.      *)
LEMMA StandsOn ==
  ASSUME NEW A, NEW B, GoodQuery(A), GoodQuery(B), Extends(A, B),
         NEW root, NEW c, Stands(A, root, c)
  PROVE  Stands(B, root, c)
BY TreesKept DEF Stands

(* A list of fields added to a query is there as the list it was.          *)
AllBound(bound, fields) == \A i \in DOMAIN fields : FindSource(bound, fields[i]) >= 0
Lists(A, bound, kind, fields, B) ==
  /\ GoodQuery(B) /\ Extends(A, B) /\ Binds(bound, B)
  /\ OnlyItems(A, B)
  /\ FieldsOf(B, kind) = FieldsOf(A, kind) \o fields
  /\ \A k \in Kinds : k # kind => FieldsOf(B, k) = FieldsOf(A, k)

(* AddQueryItems adds the list of fields as it was asked.                  *)
LEMMA AddedItems ==
  ASSUME NEW A, GoodQuery(A), NEW bound, Binds(bound, A), NEW kind \in Kinds,
         NEW fields \in Seq(Datasets), AllBound(bound, fields),
         NEW B, B = ItemsAdded(A, bound, kind, fields, Len(fields))
  PROVE  Lists(A, bound, kind, fields, B)
<1>. DEFINE n   == Len(fields)
            old == A.items[kind]
            new == [i \in 1 .. n |-> Ast!Item(FindSource(bound, fields[i]), "plain")]
<1>1. /\ A \in Queries /\ n \in Nat /\ DOMAIN fields = 1 .. n
      /\ old \in Seq(Items) /\ Len(old) \in Nat /\ DOMAIN old = 1 .. Len(old)
  BY QueryFields, LenProperties DEF GoodQuery
<1>2. ASSUME NEW i \in 1 .. n
      PROVE  /\ new[i] \in Items /\ new[i].source + 1 \in DOMAIN A.sources
             /\ A.sources[new[i].source + 1].dataset = fields[i]
  <2>1. FindSource(bound, fields[i]) >= 0
    BY <1>1 DEF AllBound
  <2>2. new[i].source = FindSource(bound, fields[i]) /\ new[i].text = "plain"
        /\ new[i] = [source |-> FindSource(bound, fields[i]), text |-> "plain"]
    BY DEF Ast!Item
  <2>. HIDE DEF new
  <2>. QED  BY <1>1, <2>1, <2>2, BoundSource DEF Items
<1>3. new \in Seq(Items) /\ Len(new) = n
  <2>1. new \in [1 .. n -> Items]
    BY <1>2
  <2>. QED  BY <1>1, <2>1, LenProperties
<1>4. B = [A EXCEPT !.items[kind] = old \o new]
  BY DEF ItemsAdded
<1>. HIDE DEF new
<1>5. B.items = [A.items EXCEPT ![kind] = old \o new] /\ B = [A EXCEPT !.items = B.items]
      /\ B.sources = A.sources /\ B.conditions = A.conditions
  BY <1>1, <1>4 DEF Queries
<1>6. old \o new \in Seq(Items) /\ Len(old \o new) = Len(old) + n
  <2>. HIDE DEF old, n
  <2>1. Len(old \o new) = Len(old) + Len(new) /\ old \o new \in Seq(Items)
    BY <1>1, <1>3, ConcatProperties
  <2>. QED  BY <1>3, <2>1
<1>7. B.items \in [Kinds -> Seq(Items)] /\ B.items[kind] = old \o new
      /\ \A k \in Kinds : k # kind => B.items[k] = A.items[k]
  BY <1>1, <1>5, <1>6 DEF Queries
<1>8. B \in Queries
  BY <1>1, <1>5, <1>7 DEF Queries
<1>9. \A i \in 1 .. Len(old) + n :
        B.items[kind][i] = IF i <= Len(old) THEN old[i] ELSE new[i - Len(old)]
  BY <1>1, <1>3, <1>7, ConcatProperties
<1>10. DOMAIN B.items[kind] = 1 .. Len(old) + n
  BY <1>6, <1>7, LenProperties
<1>11. \A i \in 1 .. Len(old) + n : ~(i <= Len(old)) => i - Len(old) \in 1 .. n
  BY <1>1
<1>12. GoodItems(B)
  <2>1. SUFFICES ASSUME NEW k \in Kinds, NEW i \in DOMAIN B.items[k]
                 PROVE  B.items[k][i].source + 1 \in DOMAIN A.sources
    BY <1>5 DEF GoodItems
  <2>2. CASE k # kind
    BY <1>7, <2>2 DEF GoodItems, GoodQuery
  <2>3. CASE k = kind
    <3>1. i \in 1 .. Len(old) + n
      BY <1>10, <2>3
    <3>2. CASE i <= Len(old)
      <4>1. i \in DOMAIN old
        BY <1>1, <3>1, <3>2
      <4>. QED  BY <1>9, <2>3, <3>1, <3>2, <4>1 DEF GoodItems, GoodQuery
    <3>3. CASE ~(i <= Len(old))
      BY <1>2, <1>9, <1>11, <2>3, <3>1, <3>3
    <3>. QED  BY <3>2, <3>3
  <2>. QED  BY <2>2, <2>3
<1>13. GoodQuery(B) /\ Extends(A, B) /\ Binds(bound, B)
  BY <1>5, <1>8, <1>12 DEF GoodQuery, GoodSources, GoodNodes, Extends, Binds
<1>14. \A k \in Kinds : k # kind => FieldsOf(B, k) = FieldsOf(A, k)
  BY <1>5, <1>7 DEF FieldsOf
<1>15. FieldsOf(B, kind) = FieldsOf(A, kind) \o fields
  <2>. DEFINE f == FieldsOf(A, kind)
              g == FieldsOf(B, kind)
  <2>1. f \in Seq(Datasets) /\ Len(f) = Len(old) /\ \A i \in 1 .. Len(old) :
          f[i] = A.sources[old[i].source + 1].dataset
    <3>1. \A i \in DOMAIN old : A.sources[old[i].source + 1].dataset \in Datasets
      BY <1>1, QueryFields DEF GoodQuery, GoodItems, Sources
    <3>2. f = [i \in 1 .. Len(old) |-> A.sources[old[i].source + 1].dataset]
      BY <1>1 DEF FieldsOf
    <3>3. f \in [1 .. Len(old) -> Datasets]
      BY <1>1, <3>1, <3>2
    <3>4. Len(old) \in Nat
      BY <1>1
    <3>5. \A i \in 1 .. Len(old) : f[i] = A.sources[old[i].source + 1].dataset
      BY <3>2
    <3>. HIDE DEF f, old
    <3>6. f \in Seq(Datasets) /\ Len(f) = Len(old)
      BY <3>3, <3>4, LenProperties
    <3>. QED  BY <3>5, <3>6
  <2>2. g = [i \in 1 .. Len(old) + n |-> A.sources[B.items[kind][i].source + 1].dataset]
    BY <1>5, <1>10 DEF FieldsOf
  <2>3. f \o fields \in Seq(Datasets) /\ Len(f \o fields) = Len(old) + n
        /\ \A i \in 1 .. Len(old) + n :
             (f \o fields)[i] = IF i <= Len(old) THEN f[i] ELSE fields[i - Len(old)]
    <3>. HIDE DEF f, old
    <3>1. /\ f \o fields \in Seq(Datasets) /\ Len(f \o fields) = Len(f) + Len(fields)
          /\ \A i \in 1 .. Len(f) + Len(fields) :
               (f \o fields)[i] = IF i <= Len(f) THEN f[i] ELSE fields[i - Len(f)]
      BY <1>1, <2>1, ConcatProperties
    <3>. QED  BY <2>1, <3>1
  <2>4. DOMAIN (f \o fields) = 1 .. Len(old) + n
    BY <2>3, LenProperties
  <2>5. \A i \in 1 .. Len(old) + n :
          A.sources[B.items[kind][i].source + 1].dataset = (f \o fields)[i]
    <3>1. ASSUME NEW i \in 1 .. Len(old) + n
          PROVE  A.sources[B.items[kind][i].source + 1].dataset = (f \o fields)[i]
      <4>1. CASE i <= Len(old)
        <5>1. B.items[kind][i] = old[i] /\ i \in 1 .. Len(old)
          BY <1>1, <1>9, <4>1
        <5>2. (f \o fields)[i] = f[i]
          BY <2>3, <4>1
        <5>. QED  BY <2>1, <5>1, <5>2
      <4>2. CASE ~(i <= Len(old))
        BY <1>2, <1>9, <1>11, <2>3, <4>2
      <4>. QED  BY <4>1, <4>2
    <3>. QED  BY <3>1
  <2>6. f \o fields = [i \in 1 .. Len(old) + n |-> (f \o fields)[i]]
    <3>. HIDE DEF f, old, n
    <3>1. f \o fields \in [1 .. Len(old) + n -> Datasets]
      BY <2>3, <2>4, LenProperties
    <3>. QED  BY <3>1
  <2>. HIDE DEF f, g
  <2>7. g = f \o fields
    BY <2>2, <2>5, <2>6
  <2>. QED  BY <2>7 DEF f, g
<1>. QED  BY <1>5, <1>13, <1>14, <1>15 DEF OnlyItems, Lists

WithSource(A, new) == [A EXCEPT !.sources = Append(@, new)]

Joined(A, new, B, more) ==
  /\ GoodQuery(B) /\ Extends(A, B) /\ Binds(more, B)
  /\ OnlySources(A, B)
  /\ Len(B.sources) = Len(A.sources) + 1
  /\ \A i \in DOMAIN A.sources : B.sources[i] = A.sources[i]
  /\ B.sources[Len(A.sources) + 1] = new

(* A source added to a query and bound: all that was there stays.          *)
LEMMA NewSource ==
  ASSUME NEW A, GoodQuery(A), NEW bound, Binds(bound, A), NEW new \in Sources,
         new.id = Len(A.sources), A.sources = <<>> => new.type = "ROOT",
         NEW B, B = WithSource(A, new),
         NEW more, more = Append(bound, [dataset |-> new.dataset, id |-> Len(A.sources)])
  PROVE  Joined(A, new, B, more)
<1>. DEFINE n == Len(A.sources)
<1>1. A \in Queries /\ n \in Nat /\ A.sources \in Seq(Sources) /\ DOMAIN A.sources = 1 .. n
  BY QueryFields DEF GoodQuery
<1>2. B.sources = Append(A.sources, new) /\ B = [A EXCEPT !.sources = B.sources]
      /\ B.items = A.items /\ B.conditions = A.conditions
  BY <1>1 DEF Queries, WithSource
<1>3. /\ B.sources \in Seq(Sources) /\ Len(B.sources) = n + 1
      /\ DOMAIN B.sources = 1 .. n + 1
      /\ \A i \in 1 .. n : B.sources[i] = A.sources[i]
      /\ B.sources[n + 1] = new
  BY <1>1, <1>2, AppendProperties, LenProperties
<1>4. B \in Queries
  BY <1>1, <1>2, <1>3 DEF Queries
<1>5. \A i \in 1 .. n + 1 : i \in 1 .. n \/ i = n + 1
  BY <1>1
<1>6. \A i \in 1 .. n : i \in 1 .. n + 1
  BY <1>1
<1>7. GoodSources(B)
  <2>1. \A i \in DOMAIN B.sources : B.sources[i].id = i - 1
    <3>1. \A i \in 1 .. n : A.sources[i].id = i - 1
      BY <1>1 DEF GoodQuery, GoodSources
    <3>2. ASSUME NEW i \in 1 .. n + 1 PROVE B.sources[i].id = i - 1
      <4>1. CASE i \in 1 .. n
        BY <1>3, <3>1, <4>1
      <4>2. CASE i = n + 1
        BY <1>1, <1>3, <4>2
      <4>. QED  BY <1>5, <4>1, <4>2
    <3>. QED  BY <1>3, <3>2
  <2>2. B.sources[1].type = "ROOT"
    <3>1. CASE n = 0
      BY <1>1, <1>3, <3>1, EmptySeq
    <3>2. CASE n # 0
      <4>1. 1 \in 1 .. n /\ A.sources # <<>>
        BY <1>1, <3>2, EmptySeq
      <4>. QED  BY <1>3, <4>1 DEF GoodQuery, GoodSources
    <3>. QED  BY <3>1, <3>2
  <2>. QED  BY <2>1, <2>2 DEF GoodSources
<1>8. GoodItems(B) /\ GoodNodes(B)
  BY <1>1, <1>2, <1>3, <1>6 DEF GoodQuery, GoodItems, GoodNodes
<1>9. Extends(A, B)
  BY <1>1, <1>2, <1>3, <1>6 DEF Extends
<1>10. Binds(more, B)
  <2>. DEFINE b == [dataset |-> new.dataset, id |-> n]
  <2>1. b \in Bindings
    BY <1>1 DEF Bindings, Sources
  <2>2. bound \in Seq(Bindings) /\ Len(bound) = n /\ DOMAIN bound = 1 .. n
    BY <1>1, LenProperties DEF Binds
  <2>3. /\ more \in Seq(Bindings) /\ Len(more) = n + 1 /\ DOMAIN more = 1 .. n + 1
        /\ \A i \in 1 .. n : more[i] = bound[i]
        /\ more[n + 1] = b
    BY <2>1, <2>2, AppendProperties, LenProperties
  <2>4. ASSUME NEW i \in 1 .. n + 1
        PROVE  more[i].id = i - 1 /\ more[i].dataset = B.sources[i].dataset
    <3>1. CASE i \in 1 .. n
      BY <1>3, <2>2, <2>3, <3>1 DEF Binds
    <3>2. CASE i = n + 1
      BY <1>1, <1>3, <2>3, <3>2
    <3>. QED  BY <1>5, <3>1, <3>2
  <2>. QED  BY <1>3, <2>3, <2>4 DEF Binds
<1>. QED  BY <1>1, <1>2, <1>3, <1>4, <1>7, <1>8, <1>9, <1>10 DEF GoodQuery, OnlySources, Joined

OnSet(A, bound, id, node, B) ==
  /\ GoodQuery(B) /\ Extends(A, B) /\ Binds(bound, B)
  /\ OnlySources(A, B)
  /\ Len(B.sources) = Len(A.sources)
  /\ \A i \in DOMAIN A.sources :
       /\ B.sources[i].dataset = A.sources[i].dataset
       /\ B.sources[i].on = IF A.sources[i].id = id THEN node ELSE A.sources[i].on

(* An ON condition set on a source changes nothing else.                   *)
LEMMA JoinCondition ==
  ASSUME NEW A, GoodQuery(A), NEW bound, Binds(bound, A), NEW id, NEW node \in Int,
         NEW B, B = Ast!SetJoinOnRoot(A, id, node)
  PROVE  OnSet(A, bound, id, node, B)
<1>. DEFINE n == Len(A.sources)
<1>1. A \in Queries /\ n \in Nat /\ A.sources \in Seq(Sources) /\ DOMAIN A.sources = 1 .. n
      /\ \A i \in 1 .. n : A.sources[i] \in Sources
  BY QueryFields DEF GoodQuery
<1>2. /\ B.sources = [i \in 1 .. n |-> IF A.sources[i].id = id THEN [A.sources[i] EXCEPT !.on = node]
                                       ELSE A.sources[i]]
      /\ B = [A EXCEPT !.sources = B.sources]
      /\ B.items = A.items /\ B.conditions = A.conditions
  BY <1>1 DEF Queries, Ast!SetJoinOnRoot
<1>3. ASSUME NEW i \in 1 .. n
      PROVE  /\ B.sources[i] \in Sources
             /\ B.sources[i].id = A.sources[i].id /\ B.sources[i].type = A.sources[i].type
             /\ B.sources[i].dataset = A.sources[i].dataset
             /\ B.sources[i].on = IF A.sources[i].id = id THEN node ELSE A.sources[i].on
  <2>1. A.sources[i] \in Sources
    BY <1>1
  <2>2. CASE A.sources[i].id = id
    <3>1. B.sources[i] = [A.sources[i] EXCEPT !.on = node]
      BY <1>2, <2>2
    <3>. QED  BY <2>1, <2>2, <3>1 DEF Sources
  <2>3. CASE A.sources[i].id # id
    <3>1. B.sources[i] = A.sources[i]
      BY <1>2, <2>3
    <3>. QED  BY <2>1, <2>3, <3>1
  <2>. QED  BY <2>2, <2>3
<1>4. B.sources \in Seq(Sources) /\ Len(B.sources) = n /\ DOMAIN B.sources = 1 .. n
  <2>1. B.sources \in [1 .. n -> Sources]
    BY <1>2, <1>3
  <2>. QED  BY <1>1, <2>1, LenProperties
<1>5. B \in Queries
  BY <1>1, <1>2, <1>4 DEF Queries
<1>6. GoodSources(B)
  <2>1. B.sources # <<>> => A.sources # <<>> /\ 1 \in 1 .. n
    BY <1>1, <1>4, EmptySeq
  <2>. QED  BY <1>1, <1>3, <1>4, <2>1 DEF GoodQuery, GoodSources
<1>7. GoodItems(B) /\ GoodNodes(B)
  BY <1>1, <1>2, <1>4 DEF GoodQuery, GoodItems, GoodNodes
<1>8. Extends(A, B)
  BY <1>1, <1>2, <1>3, <1>4 DEF Extends
<1>9. Binds(bound, B)
  <2>1. DOMAIN bound = 1 .. n
    BY <1>1, LenProperties DEF Binds
  <2>. QED  BY <1>1, <1>3, <1>4, <2>1 DEF Binds
<1>. QED  BY <1>1, <1>2, <1>3, <1>4, <1>5, <1>6, <1>7, <1>8, <1>9 DEF GoodQuery, OnlySources, OnSet

(* A loop over fields that ended found every field bound.                  *)
LEMMA AllFieldsReached ==
  ASSUME NEW bound, NEW fields \in Seq(Datasets), FieldsReached(bound, fields) = Len(fields)
  PROVE  AllBound(bound, fields)
<1>. DEFINE S == {n \in 0 .. Len(fields) : \A i \in 1 .. n : FindSource(bound, fields[i]) >= 0}
<1>1. Len(fields) \in Nat /\ DOMAIN fields = 1 .. Len(fields)
  BY LenProperties
<1>2. S \subseteq 0 .. Len(fields) /\ 0 \in S
  BY <1>1
<1>3. Max(S) \in S
  <2>. HIDE DEF S
  <2>. QED  BY <1>1, <1>2, MaxNatural
<1>4. Len(fields) \in S
  BY <1>3 DEF FieldsReached
<1>. QED  BY <1>1, <1>4 DEF AllBound

(* A loop over nodes that ended found every node bound.                    *)
LEMMA AllNodesReached ==
  ASSUME NEW bound, NEW c \in Seq(DslLeaves \cup Groups), NodesReached(bound, c) = Len(c)
  PROVE  AllResolve(bound, c)
<1>. DEFINE S == {n \in 0 .. Len(c) : \A i \in 1 .. n : Resolves(bound, c[i])}
<1>1. Len(c) \in Nat /\ DOMAIN c = 1 .. Len(c)
  BY LenProperties
<1>2. S \subseteq 0 .. Len(c) /\ 0 \in S
  BY <1>1
<1>3. Max(S) \in S
  <2>. HIDE DEF S
  <2>. QED  BY <1>1, <1>2, MaxNatural
<1>4. Len(c) \in S
  BY <1>3 DEF NodesReached
<1>. QED  BY <1>1, <1>4 DEF AllResolve

-----------------------------------------------------------------------------
(* A condition that on takes names bound sources only.                     *)

OnNode(c, dataset, f, i) ==
  LET child == [j \in DOMAIN c[i].children |-> f[c[i].children[j]]]
  IN IF c[i].type # "GROUP" THEN OnLeafAnchors(c[i], dataset)
     ELSE GroupBranches(c[i].logic, child)

OnUnfolds(c, dataset, f, n) == f = [i \in 1 .. n |-> OnNode(c, dataset, f, i)]

(* A node of an ON condition over equal verdicts of its children.          *)
LEMMA OnNodeSame ==
  ASSUME NEW c, NEW dataset, NEW f, NEW g, NEW i,
         c[i].type = "GROUP" => \A j \in DOMAIN c[i].children :
           f[c[i].children[j]] = g[c[i].children[j]]
  PROVE  OnNode(c, dataset, f, i) = OnNode(c, dataset, g, i)
<1>1. CASE c[i].type # "GROUP"
  BY <1>1 DEF OnNode
<1>2. CASE c[i].type = "GROUP"
  <2>. DEFINE kids == c[i].children
  <2>1. [j \in DOMAIN kids |-> f[kids[j]]] = [j \in DOMAIN kids |-> g[kids[j]]]
    BY <1>2
  <2>. QED  BY <2>1 DEF OnNode
<1>. QED  BY <1>1, <1>2

(* What the verdicts say of one node.                                      *)
LEMMA OnUnfoldsElement ==
  ASSUME NEW c, NEW dataset, NEW f, NEW n, OnUnfolds(c, dataset, f, n), NEW i \in 1 .. n
  PROVE  f[i] = OnNode(c, dataset, f, i)
<1>. DEFINE g == [k \in 1 .. n |-> OnNode(c, dataset, f, k)]
<1>1. f = g
  BY DEF OnUnfolds
<1>2. g[i] = OnNode(c, dataset, f, i)
  OBVIOUS
<1>. QED  BY <1>1, <1>2

(* Children before parents: every node has a verdict.                      *)
LEMMA OnTreesExist ==
  ASSUME NEW c, NEW dataset, NEW n \in Nat, Founded(c, n)
  PROVE  \E f : OnUnfolds(c, dataset, f, n)
<1>. DEFINE bad == {m \in 0 .. n : ~\E f : OnUnfolds(c, dataset, f, m)}
<1>1. SUFFICES ASSUME bad # {} PROVE FALSE
  OBVIOUS
<1>2. PICK m \in bad : \A k \in bad : m <= k
  <2>1. bad \subseteq Nat
    OBVIOUS
  <2>. HIDE DEF bad
  <2>. QED  BY <1>1, <2>1, LeastNatural
<1>3. m # 0
  <2>1. OnUnfolds(c, dataset, [i \in 1 .. 0 |-> 0], 0)
    BY DEF OnUnfolds
  <2>. QED  BY <1>2, <2>1
<1>4. m \in 0 .. n /\ m - 1 \in 0 .. n /\ ~(m <= m - 1)
  BY <1>2, <1>3
<1>5. PICK f : OnUnfolds(c, dataset, f, m - 1)
  BY <1>2, <1>4
<1>. DEFINE g == [i \in 1 .. m |-> IF i = m THEN OnNode(c, dataset, f, m) ELSE f[i]]
<1>6. ASSUME NEW i \in 1 .. m PROVE g[i] = OnNode(c, dataset, g, i)
  <2>1. ASSUME c[i].type = "GROUP", NEW j \in DOMAIN c[i].children
        PROVE  f[c[i].children[j]] = g[c[i].children[j]]
    <3>1. c[i].children[j] \in 1 .. i - 1
      BY <1>4, <2>1 DEF Founded
    <3>. QED  BY <1>4, <3>1
  <2>2. OnNode(c, dataset, f, i) = OnNode(c, dataset, g, i)
    <3>. HIDE DEF g
    <3>. QED  BY <2>1, OnNodeSame
  <2>3. CASE i = m
    BY <2>2, <2>3
  <2>4. CASE i # m
    <3>1. i \in 1 .. m - 1
      BY <1>4, <2>4
    <3>2. f[i] = OnNode(c, dataset, f, i)
      BY <1>5, <3>1, OnUnfoldsElement
    <3>. QED  BY <2>2, <2>4, <3>2
  <2>. QED  BY <2>3, <2>4
<1>7. OnUnfolds(c, dataset, g, m)
  BY <1>6 DEF OnUnfolds
<1>. QED  BY <1>2, <1>7

(* No node of it has no branch: its parent would have none, and so its     *)
(* root.                                                                   *)
LEMMA TakenResolves ==
  ASSUME NEW c, IsCondition(c), NEW dataset, TakesOn(c, dataset),
         NEW i \in DOMAIN c, c[i].type # "GROUP"
  PROVE  /\ OnFieldResolves(c[i].left, dataset)
         /\ c[i].type = "FIELD_COMPARE" => OnFieldResolves(c[i].right, dataset)
<1>. DEFINE n == Len(c)
            f == CHOOSE g : OnUnfolds(c, dataset, g, n)
<1>1. n \in Nat \ {0} /\ DOMAIN c = 1 .. n
  BY LenProperties, EmptySeq DEF IsCondition
<1>2. Founded(c, n)
  BY <1>1 DEF Founded, IsCondition
<1>3. \A k \in 1 .. n : f[k] = OnNode(c, dataset, f, k)
  <2>1. OnUnfolds(c, dataset, f, n)
    BY <1>1, <1>2, OnTreesExist
  <2>. HIDE DEF f
  <2>. QED  BY <2>1, OnUnfoldsElement
<1>4. BuildOnBranchAnchors(c, dataset) = f[n]
  BY <1>1 DEF BuildOnBranchAnchors, OnUnfolds, OnNode
<1>. HIDE DEF f
<1>5. f[n] # <<>>
  BY <1>4 DEF TakesOn
<1>. DEFINE bad == {k \in 0 .. n : k \in 1 .. n /\ f[k] = <<>>}
<1>6. ASSUME bad # {} PROVE FALSE
  <2>1. PICK k \in bad : \A m \in bad : k >= m
    <3>1. bad \subseteq 0 .. n
      OBVIOUS
    <3>. HIDE DEF bad
    <3>. QED  BY <1>1, <1>6, <3>1, GreatestNatural
  <2>2. k \in 1 .. n - 1 /\ f[k] = <<>>
    BY <1>1, <1>5, <2>1
  <2>3. PICK m \in k + 1 .. n :
          c[m].type = "GROUP" /\ \E j \in DOMAIN c[m].children : c[m].children[j] = k
    BY <2>2 DEF IsCondition
  <2>4. m \in 1 .. n /\ m \in 0 .. n /\ ~(k >= m)
    BY <1>1, <2>2, <2>3
  <2>5. f[m] = <<>>
    <3>. DEFINE child == [j \in DOMAIN c[m].children |-> f[c[m].children[j]]]
    <3>1. \E j \in DOMAIN child : child[j] = <<>>
      BY <2>2, <2>3
    <3>2. OnNode(c, dataset, f, m) = <<>>
      BY <2>3, <3>1 DEF OnNode, GroupBranches
    <3>. QED  BY <1>3, <2>4, <3>2
  <2>. QED  BY <2>1, <2>4, <2>5
<1>7. f[i] # <<>> /\ f[i] = OnLeafAnchors(c[i], dataset)
  <2>1. i \in 1 .. n /\ i \in 0 .. n
    BY <1>1
  <2>2. f[i] = OnNode(c, dataset, f, i)
    BY <1>3, <2>1
  <2>3. OnNode(c, dataset, f, i) = OnLeafAnchors(c[i], dataset)
    BY DEF OnNode
  <2>. QED  BY <1>6, <2>1, <2>2, <2>3
<1>. QED  BY <1>7 DEF OnLeafAnchors

-----------------------------------------------------------------------------
(* The inductive invariant.                                                *)

Builders == [failed : BOOLEAN, sources : Seq(Bindings), selects : Seq(Datasets),
             orders : Seq(Datasets), where : Wheres \cup {<<>>},
             selectsAdded : BOOLEAN, ordersAdded : BOOLEAN, whereAdded : BOOLEAN]
Steps    == {"INSERT", "UPDATE_START", "UPDATE", "DELETE", "EXECUTABLE"}
Joins    == [dataset : Datasets, on : Ons]
Requests == [failed : BOOLEAN, fetched : BOOLEAN, statement : Statements,
             from : Seq(Datasets), joins : Seq(Joins), select : Seq(Datasets),
             set : Seq(Datasets), order : Seq(Datasets), where : Wheres \cup {<<>>},
             time : (Times \X Times) \cup {<<>>}, limit : 0 .. MaxLimit + 1]

QueryType(A) ==
  DOMAIN A = DOMAIN Ast!EmptyAst /\ A.statement \in Statements /\ A.limit \in 0 .. MaxLimit + 1

(* The sources of a query are those asked for, each join under its ON.     *)
SourcesAsked(A, a) ==
  /\ IF a.from = <<>> THEN A.sources = <<>> /\ a.joins = <<>>
     ELSE Len(A.sources) = Len(a.joins) + 1 /\ a.from = <<A.sources[1].dataset>>
  /\ \A i \in DOMAIN a.joins :
       /\ A.sources[i + 1].dataset = a.joins[i].dataset
       /\ Stands(A, A.sources[i + 1].on, a.joins[i].on)

Begins(s, t) == Len(s) <= Len(t) /\ \A i \in 1 .. Len(s) : s[i] = t[i]

(* A list is added as a whole by the first fetch, and not again.           *)
ListAsked(listed, added, asks) ==
  IF added THEN Begins(listed, asks) ELSE listed = <<>>

(* Query A and builder b hold what client who asked for.  The root of the  *)
(* WHERE is an earlier fetch's until the next one adds the condition.      *)
Meant(who, A, b, a) ==
  /\ A.statement = a.statement /\ A.time = a.time /\ A.limit = a.limit
  /\ SourcesAsked(A, a)
  /\ FieldsOf(A, "set") = a.set
  /\ b.selects = a.select /\ ListAsked(FieldsOf(A, "select"), b.selectsAdded, a.select)
  /\ b.orders = a.order /\ ListAsked(FieldsOf(A, "order"), b.ordersAdded, a.order)
  /\ who = "SELECT" => b.selectsAdded = a.fetched /\ b.ordersAdded = a.fetched
  /\ who = "DML" => a.select = <<>> /\ a.order = <<>>
  /\ b.where = a.where
  /\ a.where = <<>> => A.whereRoot = -1
  /\ b.whereAdded => a.where # <<>> /\ Stands(A, A.whereRoot, a.where)

Holds(who, A, b, a) == GoodQuery(A) /\ Binds(b.sources, A) /\ Meant(who, A, b, a)

BuilderInv ==
  client # "C" =>
    /\ builder.failed = asked.failed
    /\ ~builder.failed => Holds(client, query, builder, asked)

SentInv == SentAsAsked /\ NoUnfilteredWrite

IInv ==
  /\ TypeOK
  /\ asked \in Requests
  /\ BuilderInv
  /\ SentInv

-----------------------------------------------------------------------------
(* What a call of a builder leaves, by how it ends.                        *)

(* A call that succeeds keeps the invariant if what it leaves does.        *)
LEMMA DoneStep ==
  ASSUME IInv, Call, client # "C", NEW A, QueryType(A), NEW b \in Builders, NEW a \in Requests,
         b.failed = a.failed, ~b.failed => Holds(client, A, b, a),
         Done(A, b, a), held' \subseteq Steps
  PROVE  IInv'
<1>1. query' = A /\ builder' = b /\ asked' = a /\ sent' = NothingSent /\ client' = client
  BY DEF Done, Call
<1>2. TypeOK'
  <2>1. calls' \in 0 .. CallBound
    BY DslAssumption DEF IInv, TypeOK, Call
  <2>. QED  BY <1>1, <2>1 DEF IInv, TypeOK, QueryType, Builders, Steps
<1>3. BuilderInv'
  BY <1>1 DEF BuilderInv
<1>4. SentInv'
  BY <1>1 DEF SentInv, SentAsAsked, NoUnfilteredWrite
<1>. QED  BY <1>1, <1>2, <1>3, <1>4 DEF IInv

(* A call that fails keeps the invariant: the builder sends no more.       *)
LEMMA FailedStep ==
  ASSUME IInv, Call, client # "C", NEW A, QueryType(A), NEW b \in Builders,
         FailedWith(A, b), held' \subseteq Steps
  PROVE  IInv'
<1>. DEFINE c == [b EXCEPT !.failed = TRUE]
            a == [asked EXCEPT !.failed = TRUE]
<1>1. c \in Builders /\ c.failed
  BY DEF Builders
<1>2. a \in Requests /\ a.failed
  BY DEF IInv, Requests
<1>3. Done(A, c, a)
  BY DEF FailedWith
<1>. HIDE DEF c, a
<1>. QED  BY <1>1, <1>2, <1>3, DoneStep

(* What IInv says of a builder that holds no error.                        *)
LEMMA Facts ==
  ASSUME IInv
  PROVE  /\ builder \in Builders /\ asked \in Requests /\ held \subseteq Steps
         /\ QueryType(query)
         /\ client # "C" => builder.failed = asked.failed
         /\ client # "C" /\ ~builder.failed =>
              /\ ~asked.failed
              /\ GoodQuery(query) /\ Binds(builder.sources, query)
              /\ Meant(client, query, builder, asked)
BY DEF IInv, TypeOK, BuilderInv, Holds, QueryType, Builders, Steps

(* A good query has its type.                                              *)
LEMMA GoodType ==
  ASSUME NEW A, GoodQuery(A)
  PROVE  QueryType(A)
BY DEF GoodQuery, Queries, QueryType, Ast!EmptyAst

(* The query of a new builder is good.                                     *)
LEMMA EmptyGood ==
  /\ GoodQuery(Ast!EmptyAst) /\ QueryType(Ast!EmptyAst)
  /\ Ast!EmptyAst.sources = <<>> /\ Ast!EmptyAst.conditions = <<>> /\ Ast!EmptyAst.time = <<>>
  /\ Ast!EmptyAst.whereRoot = -1 /\ Ast!EmptyAst.limit = 0
  /\ Ast!EmptyAst.statement = "SELECT" /\ Binds(<<>>, Ast!EmptyAst)
  /\ \A kind \in Kinds : FieldsOf(Ast!EmptyAst, kind) = <<>>
<1>1. MaxLimit \in Nat
  BY DslAssumption
<1>2. Ast!EmptyAst \in Queries
  BY <1>1 DEF Ast!EmptyAst, Queries, Statements, Kinds
<1>3. GoodQuery(Ast!EmptyAst)
  BY <1>2 DEF GoodQuery, GoodSources, GoodItems, GoodNodes, Ast!EmptyAst, Kinds
<1>4. Binds(<<>>, Ast!EmptyAst)
  BY DEF Binds, Ast!EmptyAst
<1>5. \A kind \in Kinds : FieldsOf(Ast!EmptyAst, kind) = <<>>
  BY DEF FieldsOf, Ast!EmptyAst, Kinds
<1>. QED  BY <1>3, <1>4, <1>5, GoodType DEF Ast!EmptyAst

(* A list is the same in a query that only grew elsewhere.                 *)
LEMMA SameFields ==
  ASSUME NEW A, GoodQuery(A), NEW B, Extends(A, B), B.items = A.items, NEW kind \in Kinds
  PROVE  FieldsOf(B, kind) = FieldsOf(A, kind)
<1>1. \A i \in DOMAIN A.items[kind] :
        /\ A.items[kind][i].source + 1 \in DOMAIN A.sources
        /\ B.sources[A.items[kind][i].source + 1].dataset
             = A.sources[A.items[kind][i].source + 1].dataset
  BY DEF GoodQuery, GoodItems, Extends
<1>. QED  BY <1>1 DEF FieldsOf

(* Sources and their ON conditions stay as asked when conditions grow.     *)
LEMMA SameSources ==
  ASSUME NEW A, NEW B, GoodQuery(A), GoodQuery(B), Extends(A, B), B.sources = A.sources,
         NEW a, SourcesAsked(A, a), NEW c, c.from = a.from, c.joins = a.joins
  PROVE  SourcesAsked(B, c)
BY StandsOn DEF SourcesAsked

(* Changes of the query that no list and no condition sees.                *)
LEMMA SameLists ==
  ASSUME NEW A, GoodQuery(A), NEW bound, Binds(bound, A), NEW B \in Queries,
         B.sources = A.sources, B.items = A.items, B.conditions = A.conditions
  PROVE  /\ GoodQuery(B) /\ Binds(bound, B) /\ Extends(A, B)
         /\ \A kind \in Kinds : FieldsOf(B, kind) = FieldsOf(A, kind)
<1>1. GoodQuery(B) /\ Binds(bound, B) /\ Extends(A, B)
  BY DEF GoodQuery, GoodSources, GoodItems, GoodNodes, Binds, Extends
<1>. QED  BY <1>1, SameFields

(* A prefix of a list is one of the list with one more.                    *)
LEMMA BeginsLonger ==
  ASSUME NEW S, NEW s \in Seq(S), NEW t \in Seq(S), NEW x \in S, Begins(s, t)
  PROVE  Begins(s, Append(t, x))
<1>1. Len(s) \in Nat /\ Len(t) \in Nat /\ Len(Append(t, x)) = Len(t) + 1
      /\ \A i \in 1 .. Len(t) : Append(t, x)[i] = t[i]
  BY LenProperties, AppendProperties
<1>. QED  BY <1>1 DEF Begins

(* The fields of a query are of datasets.                                  *)
LEMMA FieldsAreDatasets ==
  ASSUME NEW A, GoodQuery(A), NEW kind \in Kinds
  PROVE  FieldsOf(A, kind) \in Seq(Datasets)
<1>1. /\ A.items[kind] \in Seq(Items) /\ Len(A.items[kind]) \in Nat
      /\ DOMAIN A.items[kind] = 1 .. Len(A.items[kind])
  BY QueryFields, LenProperties DEF GoodQuery
<1>2. \A i \in DOMAIN A.items[kind] :
        A.sources[A.items[kind][i].source + 1] \in Sources
  BY QueryFields DEF GoodQuery, GoodItems
<1>3. \A i \in DOMAIN A.items[kind] :
        A.sources[A.items[kind][i].source + 1].dataset \in Datasets
  BY <1>2 DEF Sources
<1>4. FieldsOf(A, kind) \in [1 .. Len(A.items[kind]) -> Datasets]
  BY <1>1, <1>3 DEF FieldsOf
<1>. QED  BY <1>1, <1>4, LenProperties

-----------------------------------------------------------------------------
(* The calls that change a member or a number only.                        *)

(* Select keeps the invariant.                                             *)
LEMMA SelectStep ==
  ASSUME IInv, client = "SELECT", NEW d \in Datasets, Select(d)
  PROVE  IInv'
<1>. DEFINE s == Append(builder.selects, d)
            r == Append(asked.select, d)
            b == [builder EXCEPT !.selects = s]
            a == [asked EXCEPT !.select = r]
<1>0. s \in Seq(Datasets) /\ r \in Seq(Datasets)
  BY Facts, AppendProperties DEF Builders, Requests
<1>. HIDE DEF s, r
<1>1. /\ b \in Builders /\ b.failed = builder.failed /\ b.sources = builder.sources
      /\ b.selects = s /\ b.selectsAdded = builder.selectsAdded
      /\ b.orders = builder.orders /\ b.ordersAdded = builder.ordersAdded
      /\ b.where = builder.where /\ b.whereAdded = builder.whereAdded
  BY <1>0, Facts DEF Builders
<1>2. /\ a \in Requests /\ a.failed = asked.failed /\ a.fetched = asked.fetched
      /\ a.statement = asked.statement /\ a.time = asked.time /\ a.limit = asked.limit
      /\ a.from = asked.from /\ a.joins = asked.joins /\ a.set = asked.set
      /\ a.select = r /\ a.order = asked.order /\ a.where = asked.where
  BY <1>0, Facts DEF Requests
<1>3. Call /\ ~builder.failed /\ Done(query, b, a) /\ held' = held
  BY DEF Select, Ok, s, r
<1>. HIDE DEF a, b
<1>4. /\ QueryType(query) /\ held \subseteq Steps /\ builder.failed = asked.failed /\ asked \in Requests
      /\ GoodQuery(query) /\ Binds(builder.sources, query)
      /\ Meant("SELECT", query, builder, asked)
  BY <1>3, Facts
<1>5. ListAsked(FieldsOf(query, "select"), b.selectsAdded, a.select)
  <2>1. "select" \in Kinds /\ asked.select \in Seq(Datasets)
    BY <1>4 DEF Kinds, Requests
  <2>2. FieldsOf(query, "select") \in Seq(Datasets)
    BY <1>4, <2>1, FieldsAreDatasets
  <2>. QED  BY <1>1, <1>2, <1>4, <2>1, <2>2, BeginsLonger DEF Meant, ListAsked, s, r
<1>6. Meant("SELECT", query, b, a)
  BY <1>1, <1>2, <1>4, <1>5 DEF Meant, SourcesAsked, s, r
<1>7. Holds(client, query, b, a) /\ b.failed = a.failed /\ held' \subseteq Steps /\ client # "C"
  BY <1>1, <1>2, <1>3, <1>4, <1>6 DEF Holds
<1>. QED  BY <1>1, <1>2, <1>3, <1>4, <1>7, DoneStep

(* OrderBy keeps the invariant.                                            *)
LEMMA OrderByStep ==
  ASSUME IInv, client = "SELECT", NEW d \in Datasets, OrderBy(d)
  PROVE  IInv'
<1>. DEFINE s == Append(builder.orders, d)
            r == Append(asked.order, d)
            b == [builder EXCEPT !.orders = s]
            a == [asked EXCEPT !.order = r]
<1>0. s \in Seq(Datasets) /\ r \in Seq(Datasets)
  BY Facts, AppendProperties DEF Builders, Requests
<1>. HIDE DEF s, r
<1>1. /\ b \in Builders /\ b.failed = builder.failed /\ b.sources = builder.sources
      /\ b.selects = builder.selects /\ b.selectsAdded = builder.selectsAdded
      /\ b.orders = s /\ b.ordersAdded = builder.ordersAdded
      /\ b.where = builder.where /\ b.whereAdded = builder.whereAdded
  BY <1>0, Facts DEF Builders
<1>2. /\ a \in Requests /\ a.failed = asked.failed /\ a.fetched = asked.fetched
      /\ a.statement = asked.statement /\ a.time = asked.time /\ a.limit = asked.limit
      /\ a.from = asked.from /\ a.joins = asked.joins /\ a.set = asked.set
      /\ a.select = asked.select /\ a.order = r /\ a.where = asked.where
  BY <1>0, Facts DEF Requests
<1>3. Call /\ ~builder.failed /\ Done(query, b, a) /\ held' = held
  BY DEF OrderBy, Ok, s, r
<1>. HIDE DEF a, b
<1>4. /\ QueryType(query) /\ held \subseteq Steps /\ builder.failed = asked.failed /\ asked \in Requests
      /\ GoodQuery(query) /\ Binds(builder.sources, query)
      /\ Meant("SELECT", query, builder, asked)
  BY <1>3, Facts
<1>5. ListAsked(FieldsOf(query, "order"), b.ordersAdded, a.order)
  <2>1. "order" \in Kinds /\ asked.order \in Seq(Datasets)
    BY <1>4 DEF Kinds, Requests
  <2>2. FieldsOf(query, "order") \in Seq(Datasets)
    BY <1>4, <2>1, FieldsAreDatasets
  <2>. QED  BY <1>1, <1>2, <1>4, <2>1, <2>2, BeginsLonger DEF Meant, ListAsked, s, r
<1>6. Meant("SELECT", query, b, a)
  BY <1>1, <1>2, <1>4, <1>5 DEF Meant, SourcesAsked, s, r
<1>7. Holds(client, query, b, a) /\ b.failed = a.failed /\ held' \subseteq Steps /\ client # "C"
  BY <1>1, <1>2, <1>3, <1>4, <1>6 DEF Holds
<1>. QED  BY <1>1, <1>2, <1>3, <1>4, <1>7, DoneStep

(* Where keeps the invariant.                                              *)
LEMMA WhereStep ==
  ASSUME IInv, Ok, client # "C", NEW c \in Wheres, WhereAs(c), held' \subseteq Steps
  PROVE  IInv'
<1>. DEFINE b == [builder EXCEPT !.where = c]
            a == [asked EXCEPT !.where = c]
<1>1. Call /\ ~builder.failed
  BY DEF Ok
<1>2. CASE builder.where # <<>>
  <2>1. FailedWith(query, builder)
    BY <1>2 DEF WhereAs, Failed
  <2>. QED  BY <1>1, <2>1, Facts, FailedStep
<1>3. CASE builder.where = <<>>
  <2>1. /\ b \in Builders /\ b.failed = builder.failed /\ b.sources = builder.sources
        /\ b.selects = builder.selects /\ b.selectsAdded = builder.selectsAdded
        /\ b.orders = builder.orders /\ b.ordersAdded = builder.ordersAdded
        /\ b.where = c /\ b.whereAdded = builder.whereAdded
    BY Facts DEF Builders
  <2>2. /\ a \in Requests /\ a.failed = asked.failed /\ a.fetched = asked.fetched
        /\ a.statement = asked.statement /\ a.time = asked.time /\ a.limit = asked.limit
        /\ a.from = asked.from /\ a.joins = asked.joins /\ a.set = asked.set
        /\ a.select = asked.select /\ a.order = asked.order /\ a.where = c
    BY Facts DEF Requests
  <2>3. Done(query, b, a)
    BY <1>3 DEF WhereAs
  <2>. HIDE DEF a, b
  <2>4. c # <<>>
    BY DslAssumption DEF IsCondition
  <2>5. /\ QueryType(query) /\ builder.failed = asked.failed
        /\ GoodQuery(query) /\ Binds(builder.sources, query)
        /\ Meant(client, query, builder, asked)
    BY <1>1, Facts
  <2>6. Meant(client, query, b, a)
    BY <1>3, <2>1, <2>2, <2>4, <2>5 DEF Meant, SourcesAsked
  <2>7. Holds(client, query, b, a) /\ b.failed = a.failed
    BY <2>1, <2>2, <2>5, <2>6 DEF Holds
  <2>. QED  BY <1>1, <2>1, <2>2, <2>3, <2>5, <2>7, DoneStep
<1>. QED  BY <1>2, <1>3

(* A time range or a limit is stored in the query.                         *)
LEMMA NumberStep ==
  ASSUME IInv, Ok, client # "C", held' \subseteq Steps,
         NEW A \in Queries, A.statement = query.statement, A.sources = query.sources,
         A.items = query.items, A.conditions = query.conditions, A.whereRoot = query.whereRoot,
         NEW a, a = [asked EXCEPT !.time = A.time, !.limit = A.limit],
         Done(A, builder, a)
  PROVE  IInv'
<1>1. /\ Call /\ ~builder.failed
      /\ builder \in Builders /\ asked \in Requests /\ builder.failed = asked.failed
      /\ GoodQuery(query) /\ Binds(builder.sources, query)
      /\ Meant(client, query, builder, asked)
  BY Facts DEF Ok
<1>2. A.time \in (Times \X Times) \cup {<<>>} /\ A.limit \in 0 .. MaxLimit + 1
  BY QueryFields
<1>3. /\ a \in Requests /\ a.failed = asked.failed /\ a.fetched = asked.fetched
      /\ a.statement = asked.statement /\ a.time = A.time /\ a.limit = A.limit
      /\ a.from = asked.from /\ a.joins = asked.joins /\ a.set = asked.set
      /\ a.select = asked.select /\ a.order = asked.order /\ a.where = asked.where
  BY <1>1, <1>2 DEF Requests
<1>4. /\ GoodQuery(A) /\ Binds(builder.sources, A) /\ Extends(query, A)
      /\ \A kind \in Kinds : FieldsOf(A, kind) = FieldsOf(query, kind)
  BY <1>1, SameLists
<1>5. FieldsOf(A, "set") = FieldsOf(query, "set")
      /\ FieldsOf(A, "select") = FieldsOf(query, "select")
      /\ FieldsOf(A, "order") = FieldsOf(query, "order")
  BY <1>4 DEF Kinds
<1>6. SourcesAsked(A, a)
  <2>1. SourcesAsked(query, asked)
    BY <1>1 DEF Meant
  <2>2. a.from = asked.from /\ a.joins = asked.joins
    BY <1>3
  <2>. QED  BY ZenonT(60), <1>1, <1>4, <2>1, <2>2, SameSources
<1>7. builder.whereAdded => asked.where # <<>> /\ Stands(A, A.whereRoot, asked.where)
  BY <1>1, <1>4, StandsOn DEF Meant
<1>8. Meant(client, A, builder, a)
  BY <1>1, <1>3, <1>5, <1>6, <1>7 DEF Meant
<1>9. Holds(client, A, builder, a) /\ builder.failed = a.failed /\ QueryType(A)
  BY <1>1, <1>3, <1>4, <1>8, GoodType DEF Holds
<1>. QED  BY <1>1, <1>3, <1>9, DoneStep

(* TimeRange keeps the invariant.                                          *)
LEMMA TimeRangeStep ==
  ASSUME IInv, client # "C", NEW begin \in Times, NEW end \in Times, TimeRange(begin, end)
  PROVE  IInv'
<1>1. Ok /\ Call /\ ~builder.failed /\ held' \subseteq Steps /\ asked \in Requests
      /\ QueryType(query) /\ builder \in Builders /\ GoodQuery(query)
      /\ Meant(client, query, builder, asked)
  BY Facts DEF TimeRange, Ok
<1>2. CASE begin < end
  <2>. DEFINE A == [query EXCEPT !.time = <<begin, end>>]
              a == [asked EXCEPT !.time = <<begin, end>>]
  <2>1. <<begin, end>> \in (Times \X Times) \cup {<<>>}
    OBVIOUS
  <2>2. /\ A \in Queries /\ A.statement = query.statement /\ A.sources = query.sources
        /\ A.items = query.items /\ A.conditions = query.conditions
        /\ A.whereRoot = query.whereRoot /\ A.limit = query.limit /\ A.time = <<begin, end>>
    BY <1>1, <2>1 DEF GoodQuery, Queries
  <2>3. a = [asked EXCEPT !.time = A.time, !.limit = A.limit]
    BY <1>1, <2>2 DEF Requests, Meant
  <2>4. Done(A, builder, a)
    BY <1>2 DEF TimeRange
  <2>. HIDE DEF A, a
  <2>. QED  BY <1>1, <2>2, <2>3, <2>4, NumberStep
<1>3. CASE ~(begin < end)
  <2>1. FailedWith(query, builder)
    BY <1>3 DEF TimeRange, Failed
  <2>. QED  BY <1>1, <2>1, FailedStep
<1>. QED  BY <1>2, <1>3

(* Limit keeps the invariant.                                              *)
LEMMA LimitStep ==
  ASSUME IInv, client # "C", NEW limit \in -1 .. MaxLimit + 1, Limit(limit)
  PROVE  IInv'
<1>1. Ok /\ Call /\ ~builder.failed /\ held' \subseteq Steps /\ asked \in Requests
      /\ QueryType(query) /\ builder \in Builders /\ GoodQuery(query)
      /\ Meant(client, query, builder, asked)
  BY Facts DEF Limit, Ok
<1>2. CASE limit >= 0
  <2>. DEFINE A == [query EXCEPT !.limit = limit]
              a == [asked EXCEPT !.limit = limit]
  <2>1. limit \in 0 .. MaxLimit + 1
    BY <1>2, DslAssumption
  <2>2. /\ A \in Queries /\ A.statement = query.statement /\ A.sources = query.sources
        /\ A.items = query.items /\ A.conditions = query.conditions
        /\ A.whereRoot = query.whereRoot /\ A.limit = limit /\ A.time = query.time
    BY <1>1, <2>1 DEF GoodQuery, Queries
  <2>3. a = [asked EXCEPT !.time = A.time, !.limit = A.limit]
    BY <1>1, <2>2 DEF Requests, Meant
  <2>4. Done(A, builder, a)
    BY <1>2 DEF Limit
  <2>. HIDE DEF A, a
  <2>. QED  BY <1>1, <2>2, <2>3, <2>4, NumberStep
<1>3. CASE ~(limit >= 0)
  <2>1. FailedWith(query, builder)
    BY <1>3 DEF Limit, Failed
  <2>. QED  BY <1>1, <2>1, FailedStep
<1>. QED  BY <1>2, <1>3

(* A refused call keeps the invariant.                                     *)
LEMMA CallRefusedStep ==
  ASSUME IInv, client # "C", CallRefused
  PROVE  IInv'
BY Facts, FailedStep DEF CallRefused, Ok, Failed

-----------------------------------------------------------------------------
(* The calls that start a statement or add a source or a value.            *)

(* A new builder, and what was asked of it, have their types.              *)
LEMMA NewTypes ==
  /\ NewBuilder \in Builders /\ NothingAsked \in Requests
  /\ NewBuilder.failed = FALSE /\ NewBuilder.sources = <<>> /\ NewBuilder.selects = <<>>
  /\ NewBuilder.orders = <<>> /\ NewBuilder.where = <<>> /\ NewBuilder.selectsAdded = FALSE
  /\ NewBuilder.ordersAdded = FALSE /\ NewBuilder.whereAdded = FALSE
  /\ NothingAsked.failed = FALSE /\ NothingAsked.fetched = FALSE
  /\ NothingAsked.statement = "SELECT" /\ NothingAsked.from = <<>> /\ NothingAsked.joins = <<>>
  /\ NothingAsked.select = <<>> /\ NothingAsked.set = <<>> /\ NothingAsked.order = <<>>
  /\ NothingAsked.where = <<>> /\ NothingAsked.time = <<>> /\ NothingAsked.limit = 0
<1>1. MaxLimit \in Nat
  BY DslAssumption
<1>2. NewBuilder \in Builders
  BY DEF NewBuilder, Builders
<1>3. NothingAsked \in Requests
  BY <1>1 DEF NothingAsked, Requests, Statements
<1>. QED  BY <1>2, <1>3 DEF NewBuilder, NothingAsked

(* A list of one element.                                                  *)
LEMMA OneElement ==
  ASSUME NEW S, NEW x \in S
  PROVE  <<x>> \in Seq(S) /\ Len(<<x>>) = 1 /\ <<x>>[1] = x /\ <<x>> # <<>>
OBVIOUS

(* No list is longer than what it begins.                                  *)
LEMMA BeginsNothing ==
  ASSUME NEW S, NEW t \in Seq(S)
  PROVE  Begins(<<>>, t) /\ Begins(t, t)
BY LenProperties DEF Begins

(* Begin keeps the invariant.                                              *)
LEMMA BeginStep ==
  ASSUME IInv, client = "SELECT", NEW d \in Datasets, Begin(d)
  PROVE  IInv'
<1>. DEFINE s == <<d>>
            b == [NewBuilder EXCEPT !.selects = s]
            a == [NothingAsked EXCEPT !.select = s]
<1>1. s \in Seq(Datasets)
  BY OneElement
<1>. HIDE DEF s
<1>2. /\ b \in Builders /\ b.failed = FALSE /\ b.sources = <<>> /\ b.selects = s
      /\ b.orders = <<>> /\ b.where = <<>> /\ b.selectsAdded = FALSE
      /\ b.ordersAdded = FALSE /\ b.whereAdded = FALSE
  BY <1>1, NewTypes DEF Builders
<1>3. /\ a \in Requests /\ a.failed = FALSE /\ a.fetched = FALSE
      /\ a.statement = "SELECT" /\ a.from = <<>> /\ a.joins = <<>>
      /\ a.select = s /\ a.set = <<>> /\ a.order = <<>>
      /\ a.where = <<>> /\ a.time = <<>> /\ a.limit = 0
  BY <1>1, NewTypes DEF Requests
<1>4. Call /\ Done(Ast!EmptyAst, b, a) /\ held' = held
  BY DEF Begin, s
<1>. HIDE DEF a, b
<1>5. FieldsOf(Ast!EmptyAst, "set") = <<>> /\ FieldsOf(Ast!EmptyAst, "select") = <<>>
      /\ FieldsOf(Ast!EmptyAst, "order") = <<>>
  BY EmptyGood DEF Kinds
<1>6. SourcesAsked(Ast!EmptyAst, a)
  BY <1>3, EmptyGood DEF SourcesAsked
<1>7. Meant("SELECT", Ast!EmptyAst, b, a)
  BY <1>2, <1>3, <1>5, <1>6, EmptyGood DEF Meant, ListAsked
<1>8. Holds(client, Ast!EmptyAst, b, a) /\ client # "C" /\ held' \subseteq Steps
  BY <1>2, <1>4, <1>7, EmptyGood, Facts DEF Holds
<1>. QED  BY <1>2, <1>3, <1>4, <1>8, EmptyGood, DoneStep

(* The root source, added to a query without sources.                      *)
LEMMA RootAdded ==
  ASSUME NEW A, GoodQuery(A), Len(A.sources) = 0, NEW d \in Datasets,
         NEW B, B = Ast!AddRootSource(A, d)
  PROVE  /\ GoodQuery(B) /\ Extends(A, B) /\ Binds(<<[dataset |-> d, id |-> 0]>>, B)
         /\ OnlySources(A, B)
         /\ Len(B.sources) = 1 /\ B.sources[1].dataset = d
<1>. DEFINE new  == [id |-> 0, type |-> "ROOT", parent |-> -1, dataset |-> d, on |-> -1]
            none == <<>>
            more == Append(none, [dataset |-> new.dataset, id |-> 0])
<1>1. new \in Sources /\ new.dataset = d /\ new.id = 0 /\ new.type = "ROOT"
  BY DEF Sources
<1>2. B = WithSource(A, new)
  BY DEF Ast!AddRootSource, WithSource
<1>3. Binds(none, A)
  BY EmptySeq DEF Binds
<1>4. more = <<[dataset |-> d, id |-> 0]>>
  BY <1>1
<1>. HIDE DEF new
<1>5. more = Append(none, [dataset |-> new.dataset, id |-> Len(A.sources)])
  OBVIOUS
<1>. HIDE DEF more, none
<1>6. /\ GoodQuery(B) /\ Extends(A, B) /\ Binds(more, B)
      /\ OnlySources(A, B)
      /\ B.sources[Len(A.sources) + 1] = new
  <2>1. new \in Sources /\ new.id = Len(A.sources) /\ new.type = "ROOT"
    BY <1>1
  <2>2. Joined(A, new, B, more)
    BY <1>2, <1>3, <1>5, <2>1, NewSource
  <2>. QED  BY <2>2 DEF Joined
<1>7. Len(more) = 1
  BY <1>4
<1>8. Len(B.sources) = 1
  BY <1>6, <1>7 DEF Binds
<1>. QED  BY <1>1, <1>4, <1>6, <1>8

(* From keeps the invariant.                                               *)
LEMMA FromStep ==
  ASSUME IInv, client = "SELECT", NEW d \in Datasets, From(d)
  PROVE  IInv'
<1>1. /\ Call /\ ~builder.failed /\ held' \subseteq Steps /\ client # "C"
      /\ asked \in Requests /\ builder \in Builders /\ builder.failed = asked.failed
      /\ QueryType(query) /\ GoodQuery(query) /\ Binds(builder.sources, query)
      /\ Meant("SELECT", query, builder, asked)
  BY Facts DEF From, Ok
<1>2. CASE \/ FailedWith(query, builder) \/ FailedWith(Ast!EmptyAst, builder)
           \/ FailedWith(Ast!AddRootSource(query, d), builder)
  <2>1. QueryType(Ast!AddRootSource(query, d))
    BY <1>1 DEF QueryType, Ast!AddRootSource, Ast!EmptyAst
  <2>. QED  BY <1>1, <1>2, <2>1, EmptyGood, FailedStep
<1>3. CASE ~(\/ FailedWith(query, builder) \/ FailedWith(Ast!EmptyAst, builder)
             \/ FailedWith(Ast!AddRootSource(query, d), builder))
  <2>. DEFINE A    == Ast!AddRootSource(query, d)
              more == Append(builder.sources, [dataset |-> d, id |-> 0])
              from == <<d>>
              b    == [builder EXCEPT !.sources = more]
              a    == [asked EXCEPT !.from = from]
  <2>1. ~Ast!HasRootSource(query) /\ Done(A, b, a)
    BY <1>3 DEF From, Failed
  <2>2. query.sources = <<>>
    <3>1. query.sources # <<>> => 1 \in DOMAIN query.sources
      BY <1>1, QueryFields, EmptySeq DEF GoodQuery
    <3>. QED  BY <1>1, <2>1, <3>1 DEF GoodQuery, GoodSources, Ast!HasRootSource
  <2>3. builder.sources = <<>>
    BY <1>1, <2>2, EmptySeq DEF Binds
  <2>4. more = <<[dataset |-> d, id |-> 0]>>
    BY <2>3
  <2>5. from \in Seq(Datasets) /\ from # <<>>
    BY OneElement
  <2>6. from = <<d>>
    OBVIOUS
  <2>. HIDE DEF A, more, from
  <2>7. /\ GoodQuery(A) /\ Extends(query, A) /\ Binds(more, A)
        /\ OnlySources(query, A)
        /\ Len(A.sources) = 1 /\ A.sources[1].dataset = d
    BY <1>1, <2>2, <2>4, EmptySeq, RootAdded DEF A
  <2>8. A.statement = query.statement /\ A.time = query.time /\ A.limit = query.limit
        /\ A.items = query.items /\ A.whereRoot = query.whereRoot
    <3>1. query \in Queries
      BY <1>1 DEF GoodQuery
    <3>. QED  BY <2>7, <3>1 DEF Queries, OnlySources
  <2>9. /\ b \in Builders /\ b.failed = builder.failed /\ b.sources = more
        /\ b.selects = builder.selects /\ b.selectsAdded = builder.selectsAdded
        /\ b.orders = builder.orders /\ b.ordersAdded = builder.ordersAdded
        /\ b.where = builder.where /\ b.whereAdded = builder.whereAdded
    BY <1>1, <2>7 DEF Builders, Binds
  <2>10. /\ a \in Requests /\ a.failed = asked.failed /\ a.fetched = asked.fetched
         /\ a.statement = asked.statement /\ a.time = asked.time /\ a.limit = asked.limit
         /\ a.from = from /\ a.joins = asked.joins /\ a.set = asked.set
         /\ a.select = asked.select /\ a.order = asked.order /\ a.where = asked.where
    BY <1>1, <2>5 DEF Requests
  <2>. HIDE DEF a, b
  <2>11. FieldsOf(A, "set") = FieldsOf(query, "set")
         /\ FieldsOf(A, "select") = FieldsOf(query, "select")
         /\ FieldsOf(A, "order") = FieldsOf(query, "order")
    BY <1>1, <2>7, <2>8, SameFields DEF Kinds
  <2>12. SourcesAsked(A, a)
    <3>1. asked.joins = <<>>
      BY <1>1, <2>2, LenProperties DEF Meant, SourcesAsked, Requests
    <3>. QED  BY <2>5, <2>6, <2>7, <2>10, <3>1 DEF SourcesAsked
  <2>13. builder.whereAdded => asked.where # <<>> /\ Stands(A, A.whereRoot, asked.where)
    BY <1>1, <2>7, <2>8, StandsOn DEF Meant
  <2>14. Meant("SELECT", A, b, a)
    BY <1>1, <2>8, <2>9, <2>10, <2>11, <2>12, <2>13 DEF Meant
  <2>15. Holds(client, A, b, a) /\ b.failed = a.failed /\ QueryType(A)
    BY <1>1, <2>7, <2>9, <2>10, <2>14, GoodType DEF Holds
  <2>. QED  BY <1>1, <2>1, <2>9, <2>10, <2>15, DoneStep
<1>. QED  BY <1>2, <1>3

(* Start keeps the invariant.                                              *)
LEMMA StartStep ==
  ASSUME IInv, client = "DML", NEW s \in Statements \ {"SELECT"}, NEW d \in Datasets, Start(s, d)
  PROVE  IInv'
<1>. DEFINE E    == [Ast!EmptyAst EXCEPT !.statement = s]
            A    == Ast!AddRootSource(E, d)
            root == <<[dataset |-> d, id |-> 0]>>
            from == <<d>>
            b    == [NewBuilder EXCEPT !.sources = root]
            a    == [NothingAsked EXCEPT !.statement = s, !.from = from]
<1>1. Call /\ client # "C" /\ held' \subseteq Steps
  BY Facts DEF Start, StepOf, Steps, Statements
<1>2. CASE \E left \in {Ast!EmptyAst, A} :
             Done(left, [NewBuilder EXCEPT !.failed = TRUE],
                  [NothingAsked EXCEPT !.failed = TRUE])
  <2>. DEFINE c == [NewBuilder EXCEPT !.failed = TRUE]
              e == [NothingAsked EXCEPT !.failed = TRUE]
  <2>1. c \in Builders /\ c.failed = TRUE /\ e \in Requests /\ e.failed = TRUE
    BY NewTypes DEF Builders, Requests
  <2>2. Done(Ast!EmptyAst, c, e) \/ Done(A, c, e)
    BY <1>2
  <2>3. QueryType(A)
    BY NewTypes, EmptyGood DEF QueryType, Ast!AddRootSource, Ast!EmptyAst, Statements
  <2>. HIDE DEF A, c, e
  <2>. QED  BY <1>1, <2>1, <2>2, <2>3, EmptyGood, DoneStep
<1>3. CASE Done(A, b, a)
  <2>1. /\ E \in Queries /\ E.sources = Ast!EmptyAst.sources /\ E.items = Ast!EmptyAst.items
        /\ E.conditions = Ast!EmptyAst.conditions /\ E.statement = s
        /\ E.time = <<>> /\ E.limit = 0 /\ E.whereRoot = -1
    BY EmptyGood DEF GoodQuery, Queries
  <2>. HIDE DEF E
  <2>2. GoodQuery(E) /\ Len(E.sources) = 0 /\ \A kind \in Kinds : FieldsOf(E, kind) = <<>>
    BY <2>1, EmptyGood, SameLists
  <2>3. /\ GoodQuery(A) /\ Extends(E, A) /\ Binds(root, A) /\ OnlySources(E, A)
        /\ Len(A.sources) = 1 /\ A.sources[1].dataset = d
    BY <2>2, RootAdded
  <2>4. from \in Seq(Datasets) /\ from # <<>> /\ from = <<d>>
    BY OneElement
  <2>. HIDE DEF A, root, from
  <2>5. A.statement = s /\ A.time = <<>> /\ A.limit = 0 /\ A.items = E.items /\ A.whereRoot = -1
    BY <2>1, <2>3 DEF OnlySources, Queries
  <2>6. /\ b \in Builders /\ b.failed = FALSE /\ b.sources = root /\ b.selects = <<>>
        /\ b.orders = <<>> /\ b.where = <<>> /\ b.selectsAdded = FALSE
        /\ b.ordersAdded = FALSE /\ b.whereAdded = FALSE
    BY <2>3, NewTypes DEF Builders, Binds
  <2>7. /\ a \in Requests /\ a.failed = FALSE /\ a.fetched = FALSE
        /\ a.statement = s /\ a.from = from /\ a.joins = <<>>
        /\ a.select = <<>> /\ a.set = <<>> /\ a.order = <<>>
        /\ a.where = <<>> /\ a.time = <<>> /\ a.limit = 0
    BY <2>4, NewTypes DEF Requests
  <2>8. Done(A, b, a)
    BY <1>3
  <2>. HIDE DEF a, b
  <2>9. FieldsOf(A, "set") = <<>> /\ FieldsOf(A, "select") = <<>> /\ FieldsOf(A, "order") = <<>>
    BY <2>2, <2>3, <2>5, SameFields DEF Kinds
  <2>10. SourcesAsked(A, a)
    BY <2>3, <2>4, <2>7 DEF SourcesAsked
  <2>11. Meant("DML", A, b, a)
    BY <2>5, <2>6, <2>7, <2>9, <2>10 DEF Meant, ListAsked
  <2>12. Holds(client, A, b, a) /\ QueryType(A)
    BY <2>3, <2>6, <2>11, GoodType DEF Holds
  <2>. QED  BY <1>1, <2>6, <2>7, <2>8, <2>12, DoneStep
<1>. QED
  <2>1. \/ Done(A, b, a)
        \/ \E left \in {Ast!EmptyAst, A} :
             Done(left, [NewBuilder EXCEPT !.failed = TRUE],
                  [NothingAsked EXCEPT !.failed = TRUE])
    BY DEF Start
  <2>. QED  BY <1>2, <1>3, <2>1

(* An ignored call keeps the invariant.                                    *)
LEMMA IgnoredStep ==
  ASSUME IInv, client # "C", Ignored, held' \subseteq Steps
  PROVE  IInv'
BY Facts, DoneStep DEF Ignored

(* Set keeps the invariant.                                                *)
LEMMA SetStep ==
  ASSUME IInv, client = "DML", NEW d \in Datasets, Set(d)
  PROVE  IInv'
<1>1. client # "C" /\ held' \subseteq Steps
  BY Facts DEF Set, Steps
<1>2. CASE Ignored
  BY <1>1, <1>2, IgnoredStep
<1>3. CASE ~Ignored
  <2>1. /\ Ok /\ Call /\ ~builder.failed
        /\ asked \in Requests /\ builder \in Builders /\ builder.failed = asked.failed
        /\ QueryType(query) /\ GoodQuery(query) /\ Binds(builder.sources, query)
        /\ Meant("DML", query, builder, asked)
    BY <1>3, Facts DEF Set, Ok
  <2>2. CASE ~(FindSource(builder.sources, d) >= 0)
    <3>1. FailedWith(query, builder)
      BY <1>3, <2>2 DEF Set, Failed
    <3>. QED  BY <1>1, <2>1, <3>1, FailedStep
  <2>3. CASE FindSource(builder.sources, d) >= 0
    <3>. DEFINE fields == <<d>>
                set    == Append(asked.set, d)
                A      == ItemsAdded(query, builder.sources, "set", fields, 1)
                a      == [asked EXCEPT !.set = set]
    <3>1. Done(A, builder, a)
      BY <1>3, <2>3 DEF Set
    <3>2. fields \in Seq(Datasets) /\ Len(fields) = 1
          /\ AllBound(builder.sources, fields)
      BY <2>3, OneElement DEF AllBound
    <3>3. set \in Seq(Datasets) /\ asked.set \o fields = set
      <4>1. asked.set \in Seq(Datasets)
        BY <2>1 DEF Requests
      <4>. QED  BY <4>1, AppendProperties, AppendIsConcat
    <3>. HIDE DEF fields, set
    <3>4. A = ItemsAdded(query, builder.sources, "set", fields, Len(fields))
      BY <3>2
    <3>. HIDE DEF A
    <3>5. /\ GoodQuery(A) /\ Extends(query, A) /\ Binds(builder.sources, A)
          /\ OnlyItems(query, A)
          /\ FieldsOf(A, "set") = FieldsOf(query, "set") \o fields
          /\ FieldsOf(A, "select") = FieldsOf(query, "select")
          /\ FieldsOf(A, "order") = FieldsOf(query, "order")
      <4>. DEFINE kind == "set"
      <4>1. kind \in Kinds /\ "select" \in Kinds /\ "order" \in Kinds
            /\ "select" # kind /\ "order" # kind
        BY DEF Kinds
      <4>2. A = ItemsAdded(query, builder.sources, kind, fields, Len(fields))
        BY <3>4
      <4>. HIDE DEF kind
      <4>3. GoodQuery(query) /\ Binds(builder.sources, query)
        BY <2>1
      <4>4. Lists(query, builder.sources, kind, fields, A)
        BY <3>2, <4>1, <4>2, <4>3, AddedItems, Zenon
      <4>. QED  BY <4>1, <4>4 DEF kind, Lists
    <3>6. A.statement = query.statement /\ A.time = query.time /\ A.limit = query.limit
          /\ A.sources = query.sources /\ A.whereRoot = query.whereRoot
      <4>1. query \in Queries
        BY <2>1 DEF GoodQuery
      <4>. QED  BY <3>5, <4>1 DEF Queries, OnlyItems
    <3>7. /\ a \in Requests /\ a.failed = asked.failed /\ a.fetched = asked.fetched
          /\ a.statement = asked.statement /\ a.time = asked.time /\ a.limit = asked.limit
          /\ a.from = asked.from /\ a.joins = asked.joins /\ a.set = set
          /\ a.select = asked.select /\ a.order = asked.order /\ a.where = asked.where
      BY <2>1, <3>3 DEF Requests
    <3>. HIDE DEF a
    <3>8. FieldsOf(A, "set") = a.set
      BY <2>1, <3>3, <3>5, <3>7 DEF Meant
    <3>9. SourcesAsked(A, a)
      <4>1. SourcesAsked(query, asked)
        BY <2>1 DEF Meant
      <4>2. a.from = asked.from /\ a.joins = asked.joins
        BY <3>7
      <4>. QED  BY <2>1, <3>5, <3>6, <4>1, <4>2, SameSources
    <3>10. builder.whereAdded => asked.where # <<>> /\ Stands(A, A.whereRoot, asked.where)
      BY <2>1, <3>5, <3>6, StandsOn DEF Meant
    <3>11. Meant("DML", A, builder, a)
      BY <2>1, <3>5, <3>6, <3>7, <3>8, <3>9, <3>10 DEF Meant
    <3>12. Holds(client, A, builder, a) /\ builder.failed = a.failed /\ QueryType(A)
      BY <2>1, <3>5, <3>7, <3>11, GoodType DEF Holds
    <3>. QED  BY <1>1, <2>1, <3>1, <3>7, <3>12, DoneStep
  <2>. QED  BY <2>2, <2>3
<1>. QED  BY <1>2, <1>3

(* Where of an UPDATE or DELETE keeps the invariant.                       *)
LEMMA DmlWhereStep ==
  ASSUME IInv, client = "DML", NEW c \in Wheres, DmlWhere(c)
  PROVE  IInv'
<1>1. held' \subseteq Steps
  BY Facts DEF DmlWhere, Steps
<1>. QED  BY <1>1, IgnoredStep, WhereStep DEF DmlWhere

-----------------------------------------------------------------------------
(* Joins.                                                                  *)

(* A query changed in part has its type.                                   *)
LEMMA PartialTypes ==
  ASSUME NEW A, QueryType(A)
  PROVE  /\ \A bound, c, n : QueryType(NodesAdded(A, bound, c, n))
         /\ \A bound, kind, fields, n : QueryType(ItemsAdded(A, bound, kind, fields, n))
         /\ \A parent, dataset : QueryType(Ast!AddJoinSource(A, parent, dataset))
BY DEF QueryType, NodesAdded, ItemsAdded, Ast!AddJoinSource, Ast!EmptyAst

(* Growing twice is growing.                                               *)
LEMMA ExtendsFurther ==
  ASSUME NEW A, NEW B, NEW C, Extends(A, B), Extends(B, C)
  PROVE  Extends(A, C)
BY DEF Extends

(* A dataset is still found when another one is bound.                     *)
LEMMA StillFound ==
  ASSUME NEW bound \in Seq(Bindings), NEW new \in Bindings, NEW d,
         FindSource(bound, d) >= 0 \/ d = new.dataset
  PROVE  FindSource(Append(bound, new), d) >= 0
<1>. DEFINE more == Append(bound, new)
<1>1. /\ more \in Seq(Bindings) /\ Len(bound) \in Nat /\ DOMAIN bound = 1 .. Len(bound)
      /\ DOMAIN more = 1 .. Len(bound) + 1
      /\ \A i \in 1 .. Len(bound) : more[i] = bound[i]
      /\ more[Len(bound) + 1] = new
  BY AppendProperties, LenProperties
<1>. HIDE DEF more
<1>2. \E i \in DOMAIN more : more[i].dataset = d
  <2>1. CASE FindSource(bound, d) >= 0
    <3>1. PICK i \in DOMAIN bound : bound[i].dataset = d
      BY <2>1, FoundSource
    <3>. QED  BY <1>1, <3>1
  <2>2. CASE d = new.dataset
    BY <1>1, <2>2
  <2>. QED  BY <2>1, <2>2
<1>3. FindSource(more, d) >= 0
  BY <1>1, <1>2, FoundSource
<1>. QED  BY <1>3 DEF more

(* What on takes resolves once the source is bound.                        *)
LEMMA TakenBinds ==
  ASSUME builder.sources \in Seq(Bindings), NEW c, IsCondition(c), NEW d \in Datasets,
         TakesOn(c, d), NEW id \in Nat,
         NEW bound, bound = Append(builder.sources, [dataset |-> d, id |-> id])
  PROVE  AllResolve(bound, c)
<1>. DEFINE new == [dataset |-> d, id |-> id]
<1>1. new \in Bindings /\ new.dataset = d
  BY DEF Bindings
<1>2. bound = Append(builder.sources, new)
  OBVIOUS
<1>. HIDE DEF new
<1>3. \A field : OnFieldResolves(field, d) => FindSource(bound, field) >= 0
  BY <1>1, <1>2, StillFound DEF OnFieldResolves, IsTarget
<1>. QED  BY <1>3, TakenResolves DEF Resolves, AllResolve

SourceAdded(A, d, B, more) ==
  /\ GoodQuery(B) /\ Extends(A, B) /\ Binds(more, B)
  /\ OnlySources(A, B)
  /\ Len(B.sources) = Len(A.sources) + 1
  /\ \A i \in DOMAIN A.sources : B.sources[i] = A.sources[i]
  /\ B.sources[Len(A.sources) + 1].dataset = d
  /\ B.sources[Len(A.sources) + 1].id = Len(A.sources)

(* A JOIN source with its ON condition keeps what was asked.               *)
LEMMA JoinAdded ==
  ASSUME NEW A, GoodQuery(A), NEW bound, Binds(bound, A), A.sources # <<>>,
         NEW parent \in Int, NEW d \in Datasets,
         NEW B, B = Ast!AddJoinSource(A, parent, d),
         NEW more, more = Append(bound, [dataset |-> d, id |-> Len(A.sources)])
  PROVE  SourceAdded(A, d, B, more)
<1>. DEFINE new == [id |-> Len(A.sources), type |-> "JOIN", parent |-> parent, dataset |-> d,
                    on |-> -1]
<1>1. Len(A.sources) \in Nat
  BY QueryFields DEF GoodQuery
<1>2. new \in Sources /\ new.id = Len(A.sources) /\ new.dataset = d
  BY <1>1 DEF Sources
<1>3. B = WithSource(A, new)
  BY DEF WithSource, Ast!AddJoinSource
<1>. HIDE DEF new
<1>4. more = Append(bound, [dataset |-> new.dataset, id |-> Len(A.sources)])
  BY <1>2
<1>5. A.sources = <<>> => new.type = "ROOT"
  OBVIOUS
<1>6. Joined(A, new, B, more)
  BY <1>2, <1>3, <1>4, <1>5, NewSource
<1>. QED  BY <1>2, <1>6 DEF Joined, SourceAdded

(* The join asked for is the join of the query.                            *)
LEMMA JoinAsked ==
  ASSUME NEW Q, GoodQuery(Q), Q.sources # <<>>, NEW a \in Requests, SourcesAsked(Q, a),
         NEW A, GoodQuery(A), Extends(Q, A), Len(A.sources) = Len(Q.sources) + 1,
         NEW d \in Datasets, NEW on \in Ons,
         \A i \in DOMAIN Q.sources : A.sources[i].on = Q.sources[i].on,
         A.sources[Len(A.sources)].dataset = d, Stands(A, A.sources[Len(A.sources)].on, on),
         NEW c, c.from = a.from, c.joins = Append(a.joins, [dataset |-> d, on |-> on])
  PROVE  SourcesAsked(A, c)
<1>. DEFINE n   == Len(a.joins)
            new == [dataset |-> d, on |-> on]
<1>1. /\ a.joins \in Seq(Joins) /\ n \in Nat /\ DOMAIN a.joins = 1 .. n
      /\ a.from # <<>> /\ Len(Q.sources) = n + 1 /\ a.from = <<Q.sources[1].dataset>>
      /\ DOMAIN Q.sources = 1 .. n + 1
  BY QueryFields, LenProperties DEF Requests, SourcesAsked, GoodQuery
<1>2. /\ Len(c.joins) = n + 1 /\ DOMAIN c.joins = 1 .. n + 1 /\ c.joins[n + 1] = new
      /\ \A i \in 1 .. n : c.joins[i] = a.joins[i]
  <2>1. new \in Joins
    BY DEF Joins
  <2>. HIDE DEF new
  <2>2. c.joins = Append(a.joins, new)
    BY DEF new
  <2>. QED  BY <1>1, <2>1, <2>2, AppendProperties, LenProperties
<1>3. A.sources[1].dataset = Q.sources[1].dataset
  BY <1>1 DEF Extends
<1>4. ASSUME NEW i \in 1 .. n + 1
      PROVE  /\ A.sources[i + 1].dataset = c.joins[i].dataset
             /\ Stands(A, A.sources[i + 1].on, c.joins[i].on)
  <2>1. CASE i \in 1 .. n
    <3>1. i + 1 \in DOMAIN Q.sources
      BY <1>1, <2>1
    <3>2. /\ Q.sources[i + 1].dataset = a.joins[i].dataset
          /\ Stands(Q, Q.sources[i + 1].on, a.joins[i].on)
      BY <1>1, <2>1 DEF SourcesAsked
    <3>3. A.sources[i + 1].dataset = Q.sources[i + 1].dataset
          /\ A.sources[i + 1].on = Q.sources[i + 1].on
      BY <3>1 DEF Extends
    <3>4. Stands(A, A.sources[i + 1].on, a.joins[i].on)
      BY <3>2, <3>3, StandsOn
    <3>. QED  BY <1>2, <2>1, <3>2, <3>3, <3>4
  <2>2. CASE i = n + 1
    <3>1. i + 1 = Len(A.sources)
      BY <1>1, <2>2
    <3>2. c.joins[i].dataset = d /\ c.joins[i].on = on
      BY <1>2, <2>2
    <3>. QED  BY <3>1, <3>2
  <2>. QED  BY <1>1, <2>1, <2>2
<1>5. Len(A.sources) = Len(c.joins) + 1
  BY <1>1, <1>2
<1>. QED  BY <1>1, <1>2, <1>3, <1>4, <1>5 DEF SourcesAsked

(* JoinOn keeps the invariant.                                             *)
LEMMA JoinOnStep ==
  ASSUME IInv, client = "SELECT", NEW d \in Datasets, NEW c \in Ons, JoinOn(d, c)
  PROVE  IInv'
<1>. DEFINE target == Len(query.sources)
            bound  == Append(builder.sources, [dataset |-> d, id |-> target])
            parent == OnParent(c, d)
            b      == [builder EXCEPT !.sources = bound]
            A      == Ast!AddJoinSource(query, parent, d)
            B      == ConditionAdded(A, bound, c)
            last   == LastCondition(B)
            C      == Ast!SetJoinOnRoot(B, target, last)
            joins  == Append(asked.joins, [dataset |-> d, on |-> c])
            a      == [asked EXCEPT !.joins = joins]
<1>1. /\ Call /\ ~builder.failed /\ held' \subseteq Steps /\ client # "C"
      /\ asked \in Requests /\ builder \in Builders /\ builder.failed = asked.failed
      /\ QueryType(query) /\ GoodQuery(query) /\ Binds(builder.sources, query)
      /\ Meant("SELECT", query, builder, asked) /\ SourcesAsked(query, asked)
  BY Facts DEF JoinOn, Ok, Meant
<1>2. bound \in Seq(Bindings) /\ b \in Builders
  <2>. DEFINE new == [dataset |-> d, id |-> target]
  <2>1. new \in Bindings
    BY <1>1, QueryFields DEF Bindings, GoodQuery
  <2>2. builder.sources \in Seq(Bindings)
    BY <1>1 DEF Builders
  <2>. HIDE DEF new
  <2>3. Append(builder.sources, new) \in Seq(Bindings)
    BY <2>1, <2>2, AppendProperties
  <2>4. bound \in Seq(Bindings)
    BY <2>3 DEF new
  <2>. HIDE DEF bound
  <2>. QED  BY <1>1, <2>4 DEF Builders
<1>3. CASE FailedWith(query, builder) \/ FailedWith(A, builder)
  <2>1. QueryType(A)
    BY <1>1, PartialTypes
  <2>. HIDE DEF A
  <2>. QED  BY <1>1, <1>3, <2>1, FailedStep
<1>4. CASE \E n \in 0 .. Len(c) - 1 : FailedWith(NodesAdded(A, bound, c, n), b)
  <2>1. PICK n \in 0 .. Len(c) - 1 : FailedWith(NodesAdded(A, bound, c, n), b)
    BY <1>4
  <2>2. QueryType(A)
    BY <1>1, PartialTypes
  <2>. HIDE DEF A, b, bound
  <2>3. QueryType(NodesAdded(A, bound, c, n))
    BY <2>2, PartialTypes
  <2>. QED  BY <1>1, <1>2, <2>1, <2>3, FailedStep
<1>5. ASSUME builder.sources # <<>>, TakesOn(c, d), Done(C, b, a) PROVE IInv'
  <2>1. IsCondition(c)
    BY DslAssumption
  <2>2. target \in Nat /\ query.sources # <<>> /\ builder.sources \in Seq(Bindings)
        /\ DOMAIN query.sources = 1 .. target /\ parent \in Int
    <3>1. query.sources # <<>>
      BY <1>1, <1>5, EmptySeq DEF Binds
    <3>2. parent \in Int
      BY <1>1, FoundSource DEF OnParent, Binds
    <3>. HIDE DEF parent
    <3>. QED  BY <1>1, <3>1, <3>2, QueryFields DEF GoodQuery, Binds
  <2>3. AllResolve(bound, c)
    <3>. HIDE DEF target
    <3>. QED  BY <1>5, <2>1, <2>2, TakenBinds
  <2>. HIDE DEF parent, bound
  <2>4. /\ GoodQuery(A) /\ Extends(query, A) /\ Binds(bound, A)
        /\ OnlySources(query, A)
        /\ Len(A.sources) = target + 1
        /\ \A i \in DOMAIN query.sources : A.sources[i] = query.sources[i]
        /\ A.sources[target + 1].dataset = d
        /\ A.sources[target + 1].id = target
    <3>1. bound = Append(builder.sources, [dataset |-> d, id |-> Len(query.sources)])
      BY DEF bound
    <3>2. SourceAdded(query, d, A, bound)
      <4>. HIDE DEF target
      <4>. QED  BY <1>1, <2>2, <3>1, JoinAdded
    <3>. QED  BY <3>2 DEF SourceAdded
  <2>. HIDE DEF A
  <2>5. Conditioned(A, bound, c, B)
    BY <2>1, <2>3, <2>4, AddedCondition
  <2>6. /\ GoodQuery(B) /\ Extends(A, B) /\ Binds(bound, B) /\ OnlyConditions(A, B)
        /\ Stands(B, last, c) /\ last \in Int
    <3>1. GoodQuery(B) /\ Extends(A, B) /\ Binds(bound, B) /\ OnlyConditions(A, B)
          /\ Stands(B, last, c)
      BY <2>5 DEF Conditioned
    <3>. HIDE DEF B
    <3>. QED  BY <3>1, QueryFields DEF GoodQuery, LastCondition
  <2>. HIDE DEF B, last
  <2>7. OnSet(B, bound, target, last, C)
    BY <2>6, JoinCondition
  <2>. HIDE DEF C
  <2>8. /\ GoodQuery(C) /\ Extends(query, C) /\ Binds(bound, C)
    BY <2>4, <2>6, <2>7, ExtendsFurther DEF OnSet
  <2>9. /\ B.sources = A.sources /\ C.statement = query.statement /\ C.time = query.time
        /\ C.limit = query.limit /\ C.items = query.items /\ C.whereRoot = query.whereRoot
    <3>1. query \in Queries /\ A \in Queries /\ B \in Queries
      BY <1>1, <2>4, <2>6 DEF GoodQuery
    <3>2. A.statement = query.statement /\ A.time = query.time
          /\ A.limit = query.limit /\ A.items = query.items /\ A.whereRoot = query.whereRoot
      BY <2>4, <3>1 DEF OnlySources, Queries
    <3>3. B.statement = A.statement /\ B.time = A.time /\ B.sources = A.sources
          /\ B.limit = A.limit /\ B.items = A.items /\ B.whereRoot = A.whereRoot
      BY <2>6, <3>1 DEF OnlyConditions, Queries
    <3>4. C.statement = B.statement /\ C.time = B.time
          /\ C.limit = B.limit /\ C.items = B.items /\ C.whereRoot = B.whereRoot
      BY <2>7, <3>1 DEF OnSet, OnlySources, Queries
    <3>. QED  BY <3>2, <3>3, <3>4
  <2>10. /\ Len(C.sources) = target + 1
         /\ \A i \in 1 .. target : C.sources[i].on = query.sources[i].on
         /\ C.sources[target + 1].dataset = d
         /\ C.sources[target + 1].on = last
    <3>1. \A i \in 1 .. target : i \in DOMAIN B.sources /\ B.sources[i] = query.sources[i]
          /\ B.sources[i].id # target
      <4>1. \A i \in 1 .. target : query.sources[i].id = i - 1 /\ i - 1 # target
            /\ i \in 1 .. target + 1
        BY <1>1, <2>2 DEF GoodQuery, GoodSources
      <4>2. DOMAIN B.sources = 1 .. target + 1
        BY <2>4, <2>6, <2>9, QueryFields DEF GoodQuery
      <4>. QED  BY <2>2, <2>4, <2>9, <4>1, <4>2
    <3>2. target + 1 \in DOMAIN B.sources
      BY <2>2, <2>4, <2>6, <2>9, QueryFields DEF GoodQuery
    <3>3. Len(C.sources) = target + 1 /\ \A i \in DOMAIN B.sources :
            /\ C.sources[i].dataset = B.sources[i].dataset
            /\ C.sources[i].on = IF B.sources[i].id = target THEN last ELSE B.sources[i].on
      BY <2>4, <2>7, <2>9 DEF OnSet
    <3>4. \A i \in 1 .. target : C.sources[i].on = query.sources[i].on
      BY <3>1, <3>3
    <3>. QED  BY <2>4, <2>9, <3>2, <3>3, <3>4
  <2>11. Stands(C, last, c)
    BY <2>6, <2>7, StandsOn DEF OnSet
  <2>12. joins \in Seq(Joins)
    <3>. DEFINE new == [dataset |-> d, on |-> c]
    <3>1. new \in Joins /\ asked.joins \in Seq(Joins)
      BY <1>1 DEF Joins, Requests
    <3>. HIDE DEF new
    <3>2. Append(asked.joins, new) \in Seq(Joins)
      BY <3>1, AppendProperties
    <3>. QED  BY <3>2 DEF new
  <2>13. joins = Append(asked.joins, [dataset |-> d, on |-> c])
    OBVIOUS
  <2>. HIDE DEF joins
  <2>14. /\ b.failed = builder.failed /\ b.sources = bound
         /\ b.selects = builder.selects /\ b.selectsAdded = builder.selectsAdded
         /\ b.orders = builder.orders /\ b.ordersAdded = builder.ordersAdded
         /\ b.where = builder.where /\ b.whereAdded = builder.whereAdded
    BY <1>1 DEF Builders
  <2>15. /\ a \in Requests /\ a.failed = asked.failed /\ a.fetched = asked.fetched
         /\ a.statement = asked.statement /\ a.time = asked.time /\ a.limit = asked.limit
         /\ a.from = asked.from /\ a.joins = joins /\ a.set = asked.set
         /\ a.select = asked.select /\ a.order = asked.order /\ a.where = asked.where
    BY <1>1, <2>12 DEF Requests
  <2>. HIDE DEF a, b
  <2>16. SourcesAsked(C, a)
    <3>1. \A i \in DOMAIN query.sources : C.sources[i].on = query.sources[i].on
      BY <2>2, <2>10
    <3>2. C.sources[Len(C.sources)].dataset = d /\ Stands(C, C.sources[Len(C.sources)].on, c)
      BY <2>10, <2>11
    <3>3. Len(C.sources) = Len(query.sources) + 1
      BY <2>10
    <3>4. a.from = asked.from /\ a.joins = Append(asked.joins, [dataset |-> d, on |-> c])
      BY <2>13, <2>15
    <3>. QED  BY <1>1, <2>2, <2>8, <3>1, <3>2, <3>3, <3>4, JoinAsked
  <2>17. FieldsOf(C, "set") = FieldsOf(query, "set")
         /\ FieldsOf(C, "select") = FieldsOf(query, "select")
         /\ FieldsOf(C, "order") = FieldsOf(query, "order")
    BY <1>1, <2>8, <2>9, SameFields DEF Kinds
  <2>18. builder.whereAdded => asked.where # <<>> /\ Stands(C, C.whereRoot, asked.where)
    BY <1>1, <2>8, <2>9, StandsOn DEF Meant
  <2>19. Meant("SELECT", C, b, a)
    BY <1>1, <2>9, <2>14, <2>15, <2>16, <2>17, <2>18 DEF Meant
  <2>20. Holds(client, C, b, a) /\ b.failed = a.failed /\ QueryType(C)
    BY <1>1, <2>8, <2>14, <2>15, <2>19, GoodType DEF Holds
  <2>. QED  BY <1>1, <1>2, <1>5, <2>15, <2>20, DoneStep
<1>. QED
  <2>1. \/ FailedWith(query, builder) \/ FailedWith(A, builder)
        \/ \E n \in 0 .. Len(c) - 1 : FailedWith(NodesAdded(A, bound, c, n), b)
        \/ builder.sources # <<>> /\ TakesOn(c, d) /\ Done(C, b, a)
    BY DEF JoinOn, Failed
  <2>. QED  BY <1>3, <1>4, <1>5, <2>1

-----------------------------------------------------------------------------
(* The requests.                                                           *)

(* The first n of a list begin it.                                         *)
LEMMA PrefixBegins ==
  ASSUME NEW S, NEW s \in Seq(S), NEW t \in Seq(S), Begins(s, t)
  PROVE  IsPrefix(s, t)
<1>1. Len(s) \in Nat /\ Len(t) \in Nat /\ Len(s) <= Len(t) /\ \A i \in 1 .. Len(s) : s[i] = t[i]
  BY LenProperties DEF Begins
<1>2. SubSeq(s, 1, Len(s)) = [i \in 1 .. Len(s) |-> s[i]]
      /\ SubSeq(t, 1, Len(s)) = [i \in 1 .. Len(s) |-> t[i]]
  BY <1>1
<1>3. [i \in 1 .. Len(s) |-> s[i]] = [i \in 1 .. Len(s) |-> t[i]]
  BY <1>1
<1>. QED  BY <1>1, <1>2, <1>3 DEF IsPrefix

(* The datasets of the sources are those of FROM and the JOINs, in order.  *)
LEMMA SourcesAreAsked ==
  ASSUME NEW A, GoodQuery(A), NEW a \in Requests, SourcesAsked(A, a)
  PROVE  DatasetsOf(A.sources) = a.from \o DatasetsOf(a.joins)
<1>. DEFINE n == Len(a.joins)
            s == DatasetsOf(A.sources)
            f == a.from
            r == DatasetsOf(a.joins)
<1>1. /\ a.joins \in Seq(Joins) /\ n \in Nat /\ DOMAIN a.joins = 1 .. n
      /\ DOMAIN A.sources = 1 .. Len(A.sources) /\ Len(A.sources) \in Nat
      /\ \A i \in 1 .. n : a.joins[i] \in Joins
  BY QueryFields, LenProperties DEF Requests, GoodQuery
<1>2. r = [i \in 1 .. n |-> a.joins[i].dataset]
  BY <1>1 DEF DatasetsOf
<1>3. r \in Seq(Datasets) /\ Len(r) = n /\ DOMAIN r = 1 .. n
  <2>1. \A i \in 1 .. n : a.joins[i].dataset \in Datasets
    BY <1>1 DEF Joins
  <2>2. r \in [1 .. n -> Datasets]
    BY <1>2, <2>1
  <2>. HIDE DEF r
  <2>. QED  BY <1>1, <2>2, LenProperties
<1>4. s = [i \in 1 .. Len(A.sources) |-> A.sources[i].dataset]
  BY <1>1 DEF DatasetsOf
<1>5. CASE a.from = <<>>
  <2>1. A.sources = <<>> /\ a.joins = <<>>
    BY <1>5 DEF SourcesAsked
  <2>. QED  BY <1>5, <2>1 DEF DatasetsOf
<1>6. CASE a.from # <<>>
  <2>1. Len(A.sources) = n + 1 /\ f = <<A.sources[1].dataset>>
        /\ \A i \in 1 .. n : A.sources[i + 1].dataset = a.joins[i].dataset
    BY <1>1, <1>6 DEF SourcesAsked
  <2>2. f \in Seq(Datasets) /\ Len(f) = 1 /\ f[1] = A.sources[1].dataset
    <3>1. f \in Seq(Datasets)
      BY DEF Requests
    <3>. QED  BY <2>1, <3>1
  <2>. HIDE DEF f, r
  <2>3. /\ f \o r \in Seq(Datasets) /\ Len(f \o r) = Len(f) + Len(r)
        /\ \A i \in 1 .. Len(f) + Len(r) :
             (f \o r)[i] = IF i <= Len(f) THEN f[i] ELSE r[i - Len(f)]
    <3>1. f \in Seq(Datasets) /\ r \in Seq(Datasets)
      BY <1>3, <2>2
    <3>. QED  BY <3>1, ConcatProperties
  <2>4. DOMAIN (f \o r) = 1 .. n + 1
    BY <1>1, <1>3, <2>2, <2>3, LenProperties
  <2>5. ASSUME NEW i \in 1 .. n + 1 PROVE (f \o r)[i] = A.sources[i].dataset
    <3>1. CASE i = 1
      BY <1>1, <1>3, <2>2, <2>3, <3>1
    <3>2. CASE i # 1
      <4>1. i - 1 \in 1 .. n /\ (i - 1) + 1 = i /\ ~(i <= 1) /\ i \in 1 .. 1 + n
        BY <1>1, <3>2
      <4>2. (f \o r)[i] = r[i - 1]
        BY <1>3, <2>2, <2>3, <4>1
      <4>3. r[i - 1] = a.joins[i - 1].dataset
        BY <1>2, <4>1
      <4>4. A.sources[(i - 1) + 1].dataset = a.joins[i - 1].dataset
        BY <2>1, <4>1
      <4>. QED  BY <4>1, <4>2, <4>3, <4>4
    <3>. QED  BY <3>1, <3>2
  <2>6. f \o r = [i \in 1 .. n + 1 |-> A.sources[i].dataset]
    <3>1. f \o r = [i \in DOMAIN (f \o r) |-> (f \o r)[i]]
      BY <2>3, LenProperties
    <3>. QED  BY <2>4, <2>5, <3>1
  <2>. QED  BY <1>4, <2>1, <2>6 DEF f, r
<1>. QED  BY <1>5, <1>6

(* What is meant does not depend on the error.                             *)
CollectsAlike(c, b) ==
  /\ c.selects = b.selects /\ c.selectsAdded = b.selectsAdded
  /\ c.orders = b.orders /\ c.ordersAdded = b.ordersAdded
  /\ c.where = b.where /\ c.whereAdded = b.whereAdded

AsksAlike(d, a) ==
  /\ d.fetched = a.fetched /\ d.statement = a.statement /\ d.from = a.from /\ d.joins = a.joins
  /\ d.select = a.select /\ d.set = a.set /\ d.order = a.order /\ d.where = a.where
  /\ d.time = a.time /\ d.limit = a.limit

LEMMA MeantSame ==
  ASSUME NEW who, NEW A, NEW b, NEW a, Meant(who, A, b, a),
         NEW c, CollectsAlike(c, b), NEW d, AsksAlike(d, a)
  PROVE  Meant(who, A, c, d)
BY DEF Meant, SourcesAsked, CollectsAlike, AsksAlike

(* A statement handed over is the one asked for.                           *)
LEMMA HandOverStep ==
  ASSUME IInv, Ok, client # "C", held' \subseteq Steps,
         NEW A, GoodQuery(A), NEW b \in Builders, Binds(b.sources, A), ~b.failed,
         NEW a, a = [asked EXCEPT !.fetched = TRUE], Meant(client, A, b, a),
         asked.fetched \/ (/\ FieldsOf(A, "select") = asked.select
                           /\ FieldsOf(A, "order") = asked.order),
         asked.where # <<>> => Stands(A, A.whereRoot, asked.where),
         HandOver(A, b)
  PROVE  IInv'
<1>1. /\ Call /\ ~builder.failed /\ asked \in Requests /\ builder.failed = asked.failed
      /\ QueryType(A)
  BY Facts, GoodType DEF Ok
<1>2. CASE FailedWith(A, b)
  BY <1>1, <1>2, FailedStep
<1>3. CASE ~FailedWith(A, b)
  <2>1. PICK ran \in BOOLEAN, answered \in BOOLEAN :
          /\ ran => ServerTakes(A)
          /\ builder' = [b EXCEPT !.failed = ~answered]
          /\ asked' = [asked EXCEPT !.fetched = TRUE, !.failed = ~answered]
          /\ sent' = [query |-> A, asked |-> asked, ran |-> ran]
    BY <1>3 DEF HandOver
  <2>2. query' = A /\ client' = client /\ calls' \in 0 .. CallBound
    <3>1. query' = A
      BY <1>3 DEF HandOver
    <3>2. client' = client /\ calls' \in 0 .. CallBound
      BY <1>1, DslAssumption DEF Call, IInv, TypeOK
    <3>. QED  BY <3>1, <3>2
  <2>3. /\ builder' \in Builders /\ builder'.failed = (~answered) /\ builder'.sources = b.sources
        /\ builder'.selects = b.selects /\ builder'.selectsAdded = b.selectsAdded
        /\ builder'.orders = b.orders /\ builder'.ordersAdded = b.ordersAdded
        /\ builder'.where = b.where /\ builder'.whereAdded = b.whereAdded
    BY <2>1 DEF Builders
  <2>4. /\ a.fetched = TRUE /\ a.statement = asked.statement /\ a.from = asked.from
        /\ a.joins = asked.joins /\ a.select = asked.select /\ a.set = asked.set
        /\ a.order = asked.order /\ a.where = asked.where /\ a.time = asked.time
        /\ a.limit = asked.limit
    BY <1>1 DEF Requests
  <2>5. /\ asked' \in Requests /\ asked'.failed = (~answered) /\ asked'.fetched = TRUE
        /\ asked'.statement = asked.statement /\ asked'.from = asked.from
        /\ asked'.joins = asked.joins /\ asked'.select = asked.select /\ asked'.set = asked.set
        /\ asked'.order = asked.order /\ asked'.where = asked.where /\ asked'.time = asked.time
        /\ asked'.limit = asked.limit /\ asked'.fetched = a.fetched
    BY <1>1, <2>1, <2>4 DEF Requests
  <2>6. TypeOK'
    BY <1>1, <2>2, <2>3 DEF IInv, TypeOK, QueryType, Builders, Steps
  <2>7. BuilderInv'
    <3>1. Meant(client, A, builder', asked')
      <4>1. CollectsAlike(builder', b)
        BY <2>3 DEF CollectsAlike
      <4>2. AsksAlike(asked', a)
        BY <2>4, <2>5 DEF AsksAlike
      <4>. QED  BY <4>1, <4>2, MeantSame
    <3>2. Holds(client, A, builder', asked')
      BY <2>3, <3>1 DEF Holds
    <3>. QED  BY <2>2, <2>3, <2>5, <3>2 DEF BuilderInv
  <2>8. SourcesAsked(A, asked)
    BY <2>4 DEF Meant, SourcesAsked
  <2>9. A.statement = asked.statement /\ A.time = asked.time /\ A.limit = asked.limit
        /\ FieldsOf(A, "set") = asked.set /\ (asked.where = <<>> => A.whereRoot = -1)
    BY <2>4 DEF Meant
  <2>10. \A i \in DOMAIN asked.joins :
           TreeOf(A, A.sources[i + 1].on) = Tree(asked.joins[i].on, Len(asked.joins[i].on))
    BY <2>8 DEF SourcesAsked, Stands
  <2>11. IF asked.where = <<>> THEN ~HasWhere(A)
         ELSE HasWhere(A) /\ TreeOf(A, A.whereRoot) = Tree(asked.where, Len(asked.where))
    <3>1. CASE asked.where = <<>>
      BY <2>9, <3>1 DEF HasWhere
    <3>2. CASE asked.where # <<>>
      BY <3>2, QueryFields DEF HasWhere, Stands, GoodQuery
    <3>. QED  BY <3>1, <3>2
  <2>12. IF asked.fetched
         THEN /\ IsPrefix(FieldsOf(A, "select"), asked.select)
              /\ IsPrefix(FieldsOf(A, "order"), asked.order)
         ELSE FieldsOf(A, "select") = asked.select /\ FieldsOf(A, "order") = asked.order
    <3>1. asked.select \in Seq(Datasets) /\ asked.order \in Seq(Datasets)
      BY <1>1 DEF Requests
    <3>2. FieldsOf(A, "select") \in Seq(Datasets) /\ FieldsOf(A, "order") \in Seq(Datasets)
      BY FieldsAreDatasets DEF Kinds
    <3>3. Begins(FieldsOf(A, "select"), asked.select) /\ Begins(FieldsOf(A, "order"), asked.order)
      BY <2>4, <3>1, BeginsNothing DEF Meant, ListAsked
    <3>. QED  BY <3>1, <3>2, <3>3, PrefixBegins
  <2>13. SentAsAsked'
    <3>1. sent'.query = A /\ sent'.asked = asked
      BY <2>1
    <3>2. DatasetsOf(A.sources) = asked.from \o DatasetsOf(asked.joins)
      BY <1>1, <2>8, SourcesAreAsked
    <3>. QED  BY <1>1, <2>9, <2>10, <2>11, <2>12, <3>1, <3>2 DEF SentAsAsked
  <2>14. NoUnfilteredWrite'
    <3>1. sent'.query = A /\ sent'.asked = asked /\ sent'.ran = ran
      BY <2>1
    <3>2. ASSUME ran, A.statement \in {"UPDATE", "DELETE"}
          PROVE  asked.where # <<>> /\ HasWhere(A)
      <4>1. HasWhere(A)
        BY <2>1, <3>2 DEF ServerTakes, ServerTakesDelete
      <4>. QED  BY <2>11, <4>1
    <3>. QED  BY <3>1, <3>2 DEF NoUnfilteredWrite
  <2>. QED  BY <2>5, <2>6, <2>7, <2>13, <2>14 DEF IInv, SentInv
<1>. QED  BY <1>2, <1>3

(* B is A with the condition added and made the root.                      *)
Rooted(A, bound, where, B) ==
  /\ GoodQuery(B) /\ Extends(A, B) /\ Binds(bound, B)
  /\ B.statement = A.statement /\ B.sources = A.sources /\ B.time = A.time
  /\ B.items = A.items /\ B.limit = A.limit
  /\ IF where = <<>> THEN B = A ELSE Stands(B, B.whereRoot, where)

(* A WHERE added to a query keeps its type.                                *)
LEMMA WhereType ==
  ASSUME NEW A, QueryType(A), NEW bound, NEW where
  PROVE  QueryType(WithWhere(A, bound, where))
<1>. DEFINE C == ConditionAdded(A, bound, where)
            B == [C EXCEPT !.whereRoot = LastCondition(C)]
<1>1. QueryType(C)
  BY PartialTypes DEF ConditionAdded
<1>. HIDE DEF C
<1>2. QueryType(B)
  BY <1>1 DEF QueryType, Ast!EmptyAst
<1>. HIDE DEF B
<1>3. WithWhere(A, bound, where) = A \/ WithWhere(A, bound, where) = B
  BY DEF WithWhere, B, C
<1>. QED  BY <1>2, <1>3

(* A WHERE added to a query is its root.                                   *)
LEMMA WhereRooted ==
  ASSUME NEW A, GoodQuery(A), NEW bound, Binds(bound, A), NEW where \in Wheres \cup {<<>>},
         where # <<>> => AllResolve(bound, where),
         NEW B, B = WithWhere(A, bound, where)
  PROVE  Rooted(A, bound, where, B)
<1>1. CASE where = <<>>
  <2>1. B = A
    BY <1>1 DEF WithWhere
  <2>. QED  BY <1>1, <2>1 DEF Rooted, Extends
<1>2. CASE where # <<>>
  <2>. DEFINE C    == ConditionAdded(A, bound, where)
              last == LastCondition(C)
  <2>1. IsCondition(where) /\ AllResolve(bound, where)
    BY <1>2, DslAssumption
  <2>2. Conditioned(A, bound, where, C)
    BY <2>1, AddedCondition
  <2>3. B = [C EXCEPT !.whereRoot = last]
    BY <1>2 DEF WithWhere
  <2>4. GoodQuery(C) /\ Extends(A, C) /\ Binds(bound, C) /\ OnlyConditions(A, C)
        /\ Stands(C, last, where)
    BY <2>2 DEF Conditioned
  <2>. HIDE DEF C, last
  <2>5. last \in Nat
    BY <2>4, QueryFields DEF Stands, GoodQuery
  <2>6. /\ B \in Queries /\ B.statement = C.statement /\ B.sources = C.sources
        /\ B.time = C.time /\ B.items = C.items /\ B.limit = C.limit
        /\ B.conditions = C.conditions /\ B.whereRoot = last
    BY <2>3, <2>4, <2>5 DEF GoodQuery, Queries
  <2>7. GoodQuery(B) /\ Binds(bound, B) /\ Extends(C, B)
    BY <2>4, <2>6, SameLists
  <2>8. Stands(B, last, where) /\ Extends(A, B)
    BY <2>4, <2>7, StandsOn, ExtendsFurther
  <2>9. C.statement = A.statement /\ C.sources = A.sources
        /\ C.time = A.time /\ C.items = A.items /\ C.limit = A.limit
    BY <2>4 DEF OnlyConditions, GoodQuery, Queries
  <2>. QED  BY <1>2, <2>6, <2>7, <2>8, <2>9 DEF Rooted
<1>. QED  BY <1>1, <1>2

(* The whole list is there after the first fetch and stays as it was.      *)
LEMMA ListComplete ==
  ASSUME NEW old \in Seq(Datasets), NEW asks \in Seq(Datasets), NEW added \in BOOLEAN,
         ListAsked(old, added, asks), NEW new, new = IF added THEN <<>> ELSE asks
  PROVE  Begins(old \o new, asks) /\ (~added => old \o new = asks)
<1>1. CASE added
  <2>1. new = <<>> /\ old \o new = old
    BY <1>1, ConcatEmptySeq
  <2>. QED  BY <1>1, <2>1 DEF ListAsked
<1>2. CASE ~added
  <2>1. old = <<>> /\ new = asks /\ <<>> \o asks = asks
    BY <1>2, ConcatEmptySeq DEF ListAsked
  <2>2. old \o new = asks
    BY <2>1
  <2>. QED  BY <2>2, BeginsNothing
<1>. QED  BY <1>1, <1>2

(* What a fetch adds to the query.                                         *)
LEMMA FetchAdds ==
  ASSUME NEW Q, GoodQuery(Q), NEW bound, Binds(bound, Q),
         NEW selects \in Seq(Datasets), FieldsReached(bound, selects) = Len(selects),
         NEW where \in Wheres \cup {<<>>}, NodesReached(bound, where) = Len(where),
         NEW orders \in Seq(Datasets), FieldsReached(bound, orders) = Len(orders),
         NEW A, A = ItemsAdded(Q, bound, "select", selects, Len(selects)),
         NEW B, B = WithWhere(A, bound, where),
         NEW D, D = ItemsAdded(B, bound, "order", orders, Len(orders))
  PROVE  /\ Lists(Q, bound, "select", selects, A)
         /\ Rooted(A, bound, where, B)
         /\ Lists(B, bound, "order", orders, D)
<1>1. "select" \in Kinds /\ "order" \in Kinds
  BY DEF Kinds
<1>2. Lists(Q, bound, "select", selects, A)
  <2>1. AllBound(bound, selects)
    BY AllFieldsReached
  <2>. DEFINE kind == "select"
  <2>2. kind \in Kinds /\ A = ItemsAdded(Q, bound, kind, selects, Len(selects))
    BY <1>1
  <2>. HIDE DEF kind
  <2>3. Lists(Q, bound, kind, selects, A)
    BY <2>1, <2>2, AddedItems
  <2>. QED  BY <2>3 DEF kind
<1>3. Rooted(A, bound, where, B)
  <2>1. where # <<>> => AllResolve(bound, where)
    <3>1. where # <<>> => where \in Seq(DslLeaves \cup Groups)
      BY DslAssumption DEF IsCondition
    <3>. QED  BY <3>1, AllNodesReached
  <2>2. GoodQuery(A) /\ Binds(bound, A)
    BY <1>2 DEF Lists
  <2>. QED  BY <2>1, <2>2, WhereRooted
<1>4. Lists(B, bound, "order", orders, D)
  <2>1. AllBound(bound, orders)
    BY AllFieldsReached
  <2>2. GoodQuery(B) /\ Binds(bound, B)
    BY <1>3 DEF Rooted
  <2>. DEFINE kind == "order"
  <2>3. kind \in Kinds /\ D = ItemsAdded(B, bound, kind, orders, Len(orders))
    BY <1>1
  <2>. HIDE DEF kind
  <2>4. Lists(B, bound, kind, orders, D)
    BY <2>1, <2>2, <2>3, AddedItems
  <2>. QED  BY <2>4 DEF kind
<1>. QED  BY <1>2, <1>3, <1>4

(* A fetch leaves the sources and adds behind the conditions.              *)
LEMMA FetchKeeps ==
  ASSUME NEW Q, GoodQuery(Q), NEW bound, NEW selects, NEW where, NEW orders, NEW A, NEW B, NEW D,
         Lists(Q, bound, "select", selects, A), Rooted(A, bound, where, B),
         Lists(B, bound, "order", orders, D)
  PROVE  GoodQuery(D) /\ Extends(Q, D) /\ D.sources = Q.sources
<1>1. /\ GoodQuery(D) /\ Extends(Q, A) /\ Extends(A, B) /\ Extends(B, D)
      /\ GoodQuery(A) /\ GoodQuery(B) /\ OnlyItems(Q, A) /\ OnlyItems(B, D)
  BY DEF Lists, Rooted
<1>2. A.sources = Q.sources /\ D.sources = B.sources
  BY <1>1 DEF OnlyItems, GoodQuery, Queries
<1>3. B.sources = A.sources
  BY DEF Rooted
<1>. QED  BY <1>1, <1>2, <1>3, ExtendsFurther

(* Fetch keeps the invariant.                                              *)
LEMMA FetchStep ==
  ASSUME IInv, client = "SELECT", Fetch
  PROVE  IInv'
<1>. DEFINE selects == IF builder.selectsAdded THEN <<>> ELSE builder.selects
            orders  == IF builder.ordersAdded THEN <<>> ELSE builder.orders
            where   == builder.where
            bound   == builder.sources
            A       == ItemsAdded(query, bound, "select", selects, Len(selects))
            B       == WithWhere(A, bound, where)
            D       == ItemsAdded(B, bound, "order", orders, Len(orders))
            s       == [builder EXCEPT !.selectsAdded = TRUE]
            o       == [s EXCEPT !.ordersAdded = TRUE]
            a       == [asked EXCEPT !.fetched = TRUE]
<1>1. /\ Ok /\ Call /\ ~builder.failed /\ held' \subseteq Steps /\ client # "C"
      /\ asked \in Requests /\ builder \in Builders /\ builder.failed = asked.failed
      /\ QueryType(query) /\ GoodQuery(query) /\ Binds(bound, query)
      /\ Meant("SELECT", query, builder, asked)
  BY Facts DEF Fetch, Ok
<1>2. /\ s \in Builders /\ s.failed = builder.failed /\ s.sources = bound
      /\ s.selects = builder.selects /\ s.selectsAdded = TRUE
      /\ s.orders = builder.orders /\ s.ordersAdded = builder.ordersAdded
      /\ s.where = builder.where /\ s.whereAdded = builder.whereAdded
  BY <1>1 DEF Builders
<1>3. QueryType(A) /\ QueryType(B)
  <2>1. QueryType(A)
    <3>. HIDE DEF selects
    <3>. QED  BY <1>1, PartialTypes
  <2>. HIDE DEF A
  <2>. QED  BY <2>1, WhereType
<1>4. CASE \E n : FailedWith(ItemsAdded(query, bound, "select", selects, n), builder)
  <2>1. PICK n : FailedWith(ItemsAdded(query, bound, "select", selects, n), builder)
    BY <1>4
  <2>. HIDE DEF selects
  <2>2. QueryType(ItemsAdded(query, bound, "select", selects, n))
    BY <1>1, PartialTypes
  <2>. QED  BY <1>1, <2>1, <2>2, FailedStep
<1>5. CASE \E n : FailedWith(NodesAdded(A, bound, where, n), s)
  <2>1. PICK n : FailedWith(NodesAdded(A, bound, where, n), s)
    BY <1>5
  <2>. HIDE DEF A, s
  <2>2. QueryType(NodesAdded(A, bound, where, n))
    BY <1>3, PartialTypes
  <2>. QED  BY <1>1, <1>2, <2>1, <2>2, FailedStep
<1>6. CASE \E n : FailedWith(ItemsAdded(B, bound, "order", orders, n), s)
  <2>1. PICK n : FailedWith(ItemsAdded(B, bound, "order", orders, n), s)
    BY <1>6
  <2>. HIDE DEF B, s, orders
  <2>2. QueryType(ItemsAdded(B, bound, "order", orders, n))
    BY <1>3, PartialTypes
  <2>. QED  BY <1>1, <1>2, <2>1, <2>2, FailedStep
<1>7. ASSUME FieldsReached(bound, selects) = Len(selects),
             NodesReached(bound, where) = Len(where),
             FieldsReached(bound, orders) = Len(orders), HandOver(D, o)
      PROVE  IInv'
  <2>1. /\ selects \in Seq(Datasets) /\ orders \in Seq(Datasets) /\ where \in Wheres \cup {<<>>}
        /\ builder.selects \in Seq(Datasets) /\ builder.orders \in Seq(Datasets)
        /\ builder.selectsAdded \in BOOLEAN /\ builder.ordersAdded \in BOOLEAN
    <3>1. <<>> \in Seq(Datasets)
      OBVIOUS
    <3>. QED  BY <1>1, <3>1 DEF Builders
  <2>2. selects = (IF builder.selectsAdded THEN <<>> ELSE builder.selects)
        /\ orders = (IF builder.ordersAdded THEN <<>> ELSE builder.orders)
    OBVIOUS
  <2>3. "select" \in Kinds /\ "order" \in Kinds /\ "set" \in Kinds
    BY DEF Kinds
  <2>. HIDE DEF selects, orders
  <2>4. /\ Lists(query, bound, "select", selects, A)
        /\ Rooted(A, bound, where, B)
        /\ Lists(B, bound, "order", orders, D)
    <3>. HIDE DEF where
    <3>. QED  BY <1>1, <1>7, <2>1, FetchAdds
  <2>5. Rooted(A, bound, where, B)
    BY <2>4
  <2>6. Lists(B, bound, "order", orders, D)
    BY <2>4
  <2>7. HandOver(D, o)
    BY <1>7
  <2>. HIDE DEF A, B, D
  <2>8. /\ GoodQuery(D) /\ Extends(query, A) /\ Extends(A, B) /\ Extends(B, D) /\ Binds(bound, D)
        /\ GoodQuery(A) /\ GoodQuery(B) /\ OnlyItems(query, A) /\ OnlyItems(B, D)
    BY <2>4, <2>5, <2>6 DEF Lists, Rooted
  <2>9. Extends(query, D)
    BY <2>8, ExtendsFurther
  <2>10. /\ A.statement = query.statement /\ A.sources = query.sources /\ A.time = query.time
         /\ A.limit = query.limit /\ A.whereRoot = query.whereRoot
    BY <1>1, <2>8 DEF OnlyItems, GoodQuery, Queries
  <2>11. /\ D.statement = B.statement /\ D.sources = B.sources /\ D.time = B.time
         /\ D.limit = B.limit /\ D.whereRoot = B.whereRoot
    BY <2>8 DEF OnlyItems, GoodQuery, Queries
  <2>12. /\ D.statement = query.statement /\ D.sources = query.sources /\ D.time = query.time
         /\ D.limit = query.limit
    BY <2>5, <2>10, <2>11 DEF Rooted
  <2>13. FieldsOf(B, "select") = FieldsOf(A, "select") /\ FieldsOf(B, "order") = FieldsOf(A, "order")
         /\ FieldsOf(B, "set") = FieldsOf(A, "set")
    BY <2>3, <2>5, <2>8, SameFields DEF Rooted
  <2>14. /\ FieldsOf(D, "select") = FieldsOf(query, "select") \o selects
         /\ FieldsOf(D, "order") = FieldsOf(query, "order") \o orders
         /\ FieldsOf(D, "set") = FieldsOf(query, "set")
    <3>1. /\ FieldsOf(A, "select") = FieldsOf(query, "select") \o selects
          /\ FieldsOf(A, "order") = FieldsOf(query, "order")
          /\ FieldsOf(A, "set") = FieldsOf(query, "set")
      BY <2>3, <2>4 DEF Lists
    <3>2. /\ FieldsOf(D, "order") = FieldsOf(B, "order") \o orders
          /\ FieldsOf(D, "select") = FieldsOf(B, "select")
          /\ FieldsOf(D, "set") = FieldsOf(B, "set")
      BY <2>3, <2>6 DEF Lists
    <3>. QED  BY <2>13, <3>1, <3>2
  <2>15. /\ Begins(FieldsOf(D, "select"), builder.selects)
         /\ ~builder.selectsAdded => FieldsOf(D, "select") = builder.selects
         /\ Begins(FieldsOf(D, "order"), builder.orders)
         /\ ~builder.ordersAdded => FieldsOf(D, "order") = builder.orders
    <3>1. ListAsked(FieldsOf(query, "select"), builder.selectsAdded, builder.selects)
          /\ ListAsked(FieldsOf(query, "order"), builder.ordersAdded, builder.orders)
      BY <1>1 DEF Meant
    <3>2. FieldsOf(query, "select") \in Seq(Datasets) /\ FieldsOf(query, "order") \in Seq(Datasets)
      BY <1>1, <2>3, FieldsAreDatasets
    <3>3. /\ Begins(FieldsOf(query, "select") \o selects, builder.selects)
          /\ ~builder.selectsAdded => FieldsOf(query, "select") \o selects = builder.selects
      BY SMTT(30), <2>1, <2>2, <3>1, <3>2, ListComplete
    <3>4. /\ Begins(FieldsOf(query, "order") \o orders, builder.orders)
          /\ ~builder.ordersAdded => FieldsOf(query, "order") \o orders = builder.orders
      <4>. DEFINE old == FieldsOf(query, "order")
      <4>1. old \in Seq(Datasets) /\ ListAsked(old, builder.ordersAdded, builder.orders)
        BY <3>1, <3>2
      <4>. HIDE DEF old
      <4>2. Begins(old \o orders, builder.orders)
            /\ (~builder.ordersAdded => old \o orders = builder.orders)
        BY <2>1, <2>2, <4>1, ListComplete
      <4>. QED  BY <4>2 DEF old
    <3>. QED  BY <2>14, <3>3, <3>4
  <2>16. /\ o \in Builders /\ o.failed = builder.failed /\ o.sources = bound
         /\ o.selects = builder.selects /\ o.selectsAdded = TRUE
         /\ o.orders = builder.orders /\ o.ordersAdded = TRUE
         /\ o.where = builder.where /\ o.whereAdded = builder.whereAdded
    <3>. HIDE DEF s
    <3>. QED  BY <1>2 DEF Builders
  <2>17. /\ a.fetched = TRUE /\ a.statement = asked.statement /\ a.from = asked.from
         /\ a.joins = asked.joins /\ a.select = asked.select /\ a.set = asked.set
         /\ a.order = asked.order /\ a.where = asked.where /\ a.time = asked.time
         /\ a.limit = asked.limit
    BY <1>1 DEF Requests
  <2>18. a = [asked EXCEPT !.fetched = TRUE]
    OBVIOUS
  <2>. HIDE DEF s, o, a
  <2>19. SourcesAsked(D, a)
    <3>1. SourcesAsked(query, asked)
      BY <1>1 DEF Meant
    <3>. QED  BY <1>1, <2>8, <2>9, <2>12, <2>17, <3>1, SameSources
  <2>20. builder.where = asked.where /\ (asked.where # <<>> => Stands(D, D.whereRoot, asked.where))
    <3>1. builder.where = asked.where
      BY <1>1 DEF Meant
    <3>2. asked.where # <<>> => Stands(B, B.whereRoot, asked.where)
      BY <2>5, <3>1 DEF Rooted
    <3>. QED  BY <2>8, <2>11, <3>1, <3>2, StandsOn
  <2>21. asked.where = <<>> => D.whereRoot = -1
    BY <1>1, <2>5, <2>10, <2>11, <2>20 DEF Meant, Rooted
  <2>22. builder.selects = asked.select /\ builder.orders = asked.order
         /\ builder.selectsAdded = asked.fetched /\ builder.ordersAdded = asked.fetched
         /\ (builder.whereAdded => asked.where # <<>>) /\ query.statement = asked.statement
         /\ query.time = asked.time /\ query.limit = asked.limit
         /\ FieldsOf(query, "set") = asked.set
    BY <1>1 DEF Meant
  <2>23. Meant("SELECT", D, o, a)
    BY <2>12, <2>14, <2>15, <2>16, <2>17, <2>19, <2>20, <2>21, <2>22 DEF Meant, ListAsked
  <2>24. asked.fetched \/ (/\ FieldsOf(D, "select") = asked.select
                           /\ FieldsOf(D, "order") = asked.order)
    BY <2>15, <2>22
  <2>25. ~o.failed /\ Binds(o.sources, D) /\ Meant(client, D, o, a)
    BY <1>1, <2>8, <2>16, <2>23
  <2>. QED  BY <1>1, <2>7, <2>8, <2>16, <2>18, <2>20, <2>24, <2>25, HandOverStep
<1>. QED
  <2>1. \/ \E n : FailedWith(ItemsAdded(query, bound, "select", selects, n), builder)
        \/ \E n : FailedWith(NodesAdded(A, bound, where, n), s)
        \/ \E n : FailedWith(ItemsAdded(B, bound, "order", orders, n), s)
        \/ /\ FieldsReached(bound, selects) = Len(selects)
           /\ NodesReached(bound, where) = Len(where)
           /\ FieldsReached(bound, orders) = Len(orders)
           /\ HandOver(D, o)
    BY DEF Fetch, Failed
  <2>. QED  BY <1>4, <1>5, <1>6, <1>7, <2>1

(* Execute keeps the invariant.                                            *)
LEMMA ExecuteStep ==
  ASSUME IInv, client = "DML", Execute
  PROVE  IInv'
<1>. DEFINE where == IF builder.whereAdded THEN <<>> ELSE builder.where
            bound == builder.sources
            A     == WithWhere(query, bound, where)
            added == builder.whereAdded \/ where # <<>>
            b     == [builder EXCEPT !.whereAdded = added]
            a     == [asked EXCEPT !.fetched = TRUE]
<1>1. /\ Ok /\ Call /\ ~builder.failed /\ held' \subseteq Steps /\ client # "C"
      /\ asked \in Requests /\ builder \in Builders /\ builder.failed = asked.failed
      /\ QueryType(query) /\ GoodQuery(query) /\ Binds(bound, query)
      /\ Meant("DML", query, builder, asked)
  BY Facts DEF Execute, Ok
<1>2. CASE \E n : FailedWith(NodesAdded(query, bound, where, n), builder)
  <2>1. PICK n : FailedWith(NodesAdded(query, bound, where, n), builder)
    BY <1>2
  <2>. HIDE DEF where
  <2>2. QueryType(NodesAdded(query, bound, where, n))
    BY <1>1, PartialTypes
  <2>. QED  BY <1>1, <2>1, <2>2, FailedStep
<1>3. ASSUME NodesReached(bound, where) = Len(where), HandOver(A, b)
      PROVE  IInv'
  <2>1. where \in Wheres \cup {<<>>} /\ where = (IF builder.whereAdded THEN <<>> ELSE builder.where)
    BY <1>1 DEF Builders
  <2>. HIDE DEF where
  <2>2. Rooted(query, bound, where, A)
    <3>1. where # <<>> => AllResolve(bound, where)
      <4>1. where # <<>> => where \in Seq(DslLeaves \cup Groups)
        BY <2>1, DslAssumption DEF IsCondition
      <4>. QED  BY <1>3, <4>1, AllNodesReached
    <3>. QED  BY <1>1, <2>1, <3>1, WhereRooted
  <2>3. HandOver(A, b)
    BY <1>3
  <2>. HIDE DEF A
  <2>4. /\ GoodQuery(A) /\ Extends(query, A) /\ Binds(bound, A)
        /\ A.statement = query.statement /\ A.sources = query.sources /\ A.time = query.time
        /\ A.items = query.items /\ A.limit = query.limit
    BY <2>2 DEF Rooted
  <2>5. FieldsOf(A, "select") = FieldsOf(query, "select")
        /\ FieldsOf(A, "order") = FieldsOf(query, "order")
        /\ FieldsOf(A, "set") = FieldsOf(query, "set")
    BY <1>1, <2>4, SameFields DEF Kinds
  <2>6. added \in BOOLEAN /\ (added <=> builder.whereAdded \/ where # <<>>)
    BY <1>1 DEF Builders
  <2>. HIDE DEF added
  <2>7. /\ b \in Builders /\ b.failed = builder.failed /\ b.sources = bound
        /\ b.selects = builder.selects /\ b.selectsAdded = builder.selectsAdded
        /\ b.orders = builder.orders /\ b.ordersAdded = builder.ordersAdded
        /\ b.where = builder.where /\ b.whereAdded = added
    BY <1>1, <2>6 DEF Builders
  <2>8. /\ a.fetched = TRUE /\ a.statement = asked.statement /\ a.from = asked.from
        /\ a.joins = asked.joins /\ a.select = asked.select /\ a.set = asked.set
        /\ a.order = asked.order /\ a.where = asked.where /\ a.time = asked.time
        /\ a.limit = asked.limit
    BY <1>1 DEF Requests
  <2>9. a = [asked EXCEPT !.fetched = TRUE]
    OBVIOUS
  <2>. HIDE DEF a, b
  <2>10. /\ builder.where = asked.where /\ builder.selects = asked.select
         /\ builder.orders = asked.order /\ asked.select = <<>> /\ asked.order = <<>>
         /\ query.statement = asked.statement /\ query.time = asked.time
         /\ query.limit = asked.limit /\ FieldsOf(query, "set") = asked.set
         /\ ListAsked(FieldsOf(query, "select"), builder.selectsAdded, asked.select)
         /\ ListAsked(FieldsOf(query, "order"), builder.ordersAdded, asked.order)
         /\ (asked.where = <<>> => query.whereRoot = -1)
         /\ (builder.whereAdded => asked.where # <<>> /\ Stands(query, query.whereRoot, asked.where))
    BY <1>1 DEF Meant
  <2>11. SourcesAsked(A, a)
    <3>1. SourcesAsked(query, asked)
      BY <1>1 DEF Meant
    <3>. QED  BY <1>1, <2>4, <2>8, <3>1, SameSources
  <2>12. asked.where # <<>> => Stands(A, A.whereRoot, asked.where)
    <3>1. CASE builder.whereAdded
      <4>1. A = query
        BY <2>1, <2>2, <3>1 DEF Rooted
      <4>. QED  BY <2>10, <3>1, <4>1
    <3>2. CASE ~builder.whereAdded
      <4>1. where = asked.where
        BY <2>1, <2>10, <3>2
      <4>. QED  BY <2>2, <4>1 DEF Rooted
    <3>. QED  BY <3>1, <3>2
  <2>13. asked.where = <<>> => A.whereRoot = -1
    <3>1. asked.where = <<>> => where = <<>>
      BY <2>1, <2>10
    <3>. QED  BY <2>2, <2>10, <3>1 DEF Rooted
  <2>14. added => asked.where # <<>>
    BY <2>1, <2>6, <2>10
  <2>15. Meant("DML", A, b, a)
    BY <2>4, <2>5, <2>7, <2>8, <2>10, <2>11, <2>12, <2>13, <2>14 DEF Meant
  <2>16. FieldsOf(A, "select") = asked.select /\ FieldsOf(A, "order") = asked.order
    <3>1. \A list : Begins(list, <<>>) /\ list \in Seq(Datasets) => list = <<>>
      BY EmptySeq, LenProperties DEF Begins
    <3>2. FieldsOf(query, "select") \in Seq(Datasets) /\ FieldsOf(query, "order") \in Seq(Datasets)
      BY <1>1, FieldsAreDatasets DEF Kinds
    <3>. QED  BY <2>5, <2>10, <3>1, <3>2 DEF ListAsked
  <2>17. ~b.failed /\ Binds(b.sources, A) /\ Meant(client, A, b, a)
    BY <1>1, <2>4, <2>7, <2>15
  <2>. QED  BY <1>1, <2>3, <2>4, <2>7, <2>9, <2>12, <2>16, <2>17, HandOverStep
<1>. QED
  <2>1. \/ \E n : FailedWith(NodesAdded(query, bound, where, n), builder)
        \/ /\ NodesReached(bound, where) = Len(where)
           /\ HandOver(A, b)
    BY DEF Execute, Failed
  <2>. QED  BY <1>2, <1>3, <2>1

-----------------------------------------------------------------------------
(* The C caller builds no statement.                                       *)

(* A condition added through the C API keeps the invariant.                *)
LEMMA CConditionStep ==
  ASSUME IInv, client = "C", NEW c, CCondition(c)
  PROVE  IInv'
<1>1. QueryType(query')
  BY Facts DEF CCondition, QueryType, Ast!AddCondition, Ast!EmptyAst
<1>2. /\ client' = client /\ builder' = builder /\ held' = held /\ asked' = asked
      /\ sent' = sent /\ calls' = calls
  BY DEF CCondition
<1>3. TypeOK'
  BY <1>1, <1>2 DEF IInv, TypeOK, QueryType
<1>4. BuilderInv'
  BY <1>2 DEF BuilderInv
<1>5. SentInv'
  BY <1>2 DEF IInv, SentInv, SentAsAsked, NoUnfilteredWrite
<1>. QED  BY <1>2, <1>3, <1>4, <1>5 DEF IInv

-----------------------------------------------------------------------------
(* The invariant holds throughout.                                         *)

(* The invariant holds of a new client.                                    *)
LEMMA InitInvariant == Init => IInv
<1>. SUFFICES ASSUME Init PROVE IInv
  OBVIOUS
<1>1. builder = NewBuilder /\ held = {} /\ asked = NothingAsked /\ sent = NothingSent /\ calls = 0
      /\ client \in {"SELECT", "DML", "C"}
  BY DEF Init
<1>2. QueryType(query)
  <2>1. CASE client # "C"
    BY <2>1, EmptyGood DEF Init
  <2>2. CASE client = "C"
    <3>1. PICK d \in Datasets :
            query = Ast!AddJoinSource(Ast!AddJoinSource(Ast!AddRootSource(Ast!EmptyAst, d), 0, d), 0, d)
      BY <2>2 DEF Init
    <3>2. QueryType(Ast!AddRootSource(Ast!EmptyAst, d))
      BY EmptyGood DEF QueryType, Ast!AddRootSource, Ast!EmptyAst
    <3>. QED  BY <3>1, <3>2, PartialTypes
  <2>. QED  BY <2>1, <2>2
<1>3. TypeOK
  <2>1. 0 \in 0 .. CallBound
    BY DslAssumption
  <2>. QED  BY <1>1, <1>2, <2>1, NewTypes DEF TypeOK, QueryType, Builders
<1>4. BuilderInv
  <2>1. SUFFICES ASSUME client # "C" PROVE Holds(client, query, builder, asked)
    BY <1>1, NewTypes DEF BuilderInv
  <2>2. query = Ast!EmptyAst
    BY <2>1 DEF Init
  <2>3. FieldsOf(Ast!EmptyAst, "set") = <<>> /\ FieldsOf(Ast!EmptyAst, "select") = <<>>
        /\ FieldsOf(Ast!EmptyAst, "order") = <<>>
    BY EmptyGood DEF Kinds
  <2>4. SourcesAsked(Ast!EmptyAst, NothingAsked)
    BY NewTypes, EmptyGood DEF SourcesAsked
  <2>5. Meant(client, Ast!EmptyAst, NewBuilder, NothingAsked)
    BY <2>3, <2>4, NewTypes, EmptyGood DEF Meant, ListAsked
  <2>. QED  BY <1>1, <2>2, <2>5, NewTypes, EmptyGood DEF Holds
<1>5. SentInv
  BY <1>1 DEF SentInv, SentAsAsked, NoUnfilteredWrite
<1>. QED  BY <1>1, <1>3, <1>4, <1>5, NewTypes DEF IInv

(* Every step keeps the invariant.                                         *)
LEMMA StepInvariant == IInv /\ [Next]_vars => IInv'
<1>. SUFFICES ASSUME IInv, [Next]_vars PROVE IInv'
  OBVIOUS
<1>1. CASE UNCHANGED vars
  <2>1. /\ client' = client /\ query' = query /\ builder' = builder /\ held' = held
        /\ asked' = asked /\ sent' = sent /\ calls' = calls
    BY <1>1 DEF vars
  <2>2. TypeOK'
    BY <2>1 DEF IInv, TypeOK
  <2>3. asked' \in Requests /\ BuilderInv'
    BY <2>1 DEF IInv, BuilderInv
  <2>4. SentInv'
    BY <2>1 DEF IInv, SentInv, SentAsAsked, NoUnfilteredWrite
  <2>. QED  BY <2>2, <2>3, <2>4 DEF IInv
<1>2. ASSUME client = "SELECT", NEW d \in Datasets, Begin(d) \/ Select(d) \/ From(d) \/ OrderBy(d)
      PROVE  IInv'
  BY <1>2, BeginStep, SelectStep, FromStep, OrderByStep
<1>3. ASSUME client = "SELECT", NEW d \in Datasets, NEW c \in Ons, JoinOn(d, c) PROVE IInv'
  BY <1>3, JoinOnStep
<1>4. ASSUME client = "SELECT", NEW c \in Wheres, Where(c) PROVE IInv'
  BY <1>4, Facts, WhereStep DEF Where
<1>5. ASSUME client # "C", NEW b \in Times, NEW e \in Times, TimeRange(b, e) PROVE IInv'
  BY <1>5, TimeRangeStep
<1>6. ASSUME client = "SELECT", NEW n \in -1 .. MaxLimit + 1, Limit(n) PROVE IInv'
  BY <1>6, LimitStep
<1>7. ASSUME client # "C", CallRefused PROVE IInv'
  BY <1>7, CallRefusedStep
<1>8. ASSUME client = "SELECT", Fetch PROVE IInv'
  BY <1>8, FetchStep
<1>9. ASSUME client = "DML", NEW s \in Statements \ {"SELECT"}, NEW d \in Datasets, Start(s, d)
      PROVE  IInv'
  BY <1>9, StartStep
<1>10. ASSUME client = "DML", NEW d \in Datasets, Set(d) PROVE IInv'
  BY <1>10, SetStep
<1>11. ASSUME client = "DML", NEW c \in Wheres, DmlWhere(c) PROVE IInv'
  BY <1>11, DmlWhereStep
<1>12. ASSUME client = "DML", Execute PROVE IInv'
  BY <1>12, ExecuteStep
<1>13. ASSUME client = "C", NEW c, CCondition(c) PROVE IInv'
  BY <1>13, CConditionStep
<1>14. CASE Next
  <2>1. CASE client = "SELECT"
    BY <1>2, <1>3, <1>4, <1>5, <1>6, <1>7, <1>8, <1>14, <2>1 DEF Next
  <2>2. CASE client = "DML"
    BY <1>5, <1>7, <1>9, <1>10, <1>11, <1>12, <1>14, <2>2 DEF Next, DmlTimeRange
  <2>3. CASE client = "C"
    BY <1>13, <1>14, <2>3 DEF Next, CLeaf, CGroup
  <2>. QED  BY <1>14, <2>1, <2>2, <2>3 DEF Next
<1>. QED  BY <1>1, <1>14

(* The invariant holds throughout.                                         *)
LEMMA Invariant == Spec => []IInv
BY InitInvariant, StepInvariant, PTL DEF Spec

(* The members of the builders have their types, and a limit the query     *)
(* holds is one the server takes, whatever the calls were.                 *)
THEOREM TypeCorrect == Spec => []TypeOK
<1>1. IInv => TypeOK
  BY DEF IInv
<1>. QED  BY <1>1, Invariant, PTL

(* Every statement that leaves a builder means what the calls since its    *)
(* start asked for, for every set of datasets, conditions and times.       *)
THEOREM StatementAsAsked == Spec => []SentAsAsked
<1>1. IInv => SentAsAsked
  BY DEF IInv, SentInv
<1>. QED  BY <1>1, Invariant, PTL

(* No UPDATE or DELETE runs without the WHERE its own chain asked for.     *)
THEOREM WritesFiltered == Spec => []NoUnfilteredWrite
<1>1. IInv => NoUnfilteredWrite
  BY DEF IInv, SentInv
<1>. QED  BY <1>1, Invariant, PTL

-----------------------------------------------------------------------------
(* What Leaf and Connect make are conditions, as DslAssumption says of     *)
(* those that callers pass.                                                *)

(* A single node is a condition.                                           *)
LEMMA LeafIsCondition ==
  ASSUME NEW node \in DslLeaves
  PROVE  IsCondition(Leaf(node))
<1>1. Leaf(node) = <<node>> /\ Len(Leaf(node)) = 1 /\ DOMAIN Leaf(node) = 1 .. 1
      /\ Leaf(node)[1] = node /\ Leaf(node) # <<>>
  BY DEF Leaf
<1>2. Leaf(node) \in Seq(DslLeaves \cup Groups)
  BY <1>1, OneElement
<1>3. node.type # "GROUP"
  BY DEF DslLeaves, Value, InRange, Compare
<1>. QED  BY <1>1, <1>2, <1>3 DEF IsCondition

(* The nodes of a connected condition: those of left, those of right with  *)
(* their children moved behind them, and the group over the two roots.     *)
Connected(left, right, c) ==
  /\ c \in Seq(DslLeaves \cup Groups)
  /\ Len(c) = Len(left) + Len(right) + 1
  /\ \A i \in 1 .. Len(left) : c[i] = left[i]
  /\ \A i \in 1 .. Len(right) : c[Len(left) + i] = Moved(right[i], Len(left))
  /\ c[Len(left) + Len(right) + 1].type = "GROUP"
  /\ c[Len(left) + Len(right) + 1].children = <<Len(left), Len(left) + Len(right)>>

(* What Connect returns.                                                   *)
LEMMA ConnectNodes ==
  ASSUME NEW left, IsCondition(left), NEW right, IsCondition(right), NEW logic \in {"AND", "OR"}
  PROVE  Connected(left, right, Connect(logic, left, right))
<1>. DEFINE c     == Connect(logic, left, right)
            S     == DslLeaves \cup Groups
            n     == Len(left)
            m     == Len(right)
            moved == [i \in 1 .. m |-> Moved(right[i], n)]
            kids  == <<n, n + m>>
            group == [type |-> "GROUP", logic |-> logic, children |-> kids]
            last  == <<group>>
            two   == left \o moved
<1>1. /\ left \in Seq(S) /\ n \in Nat /\ DOMAIN left = 1 .. n
      /\ right \in Seq(S) /\ m \in Nat /\ DOMAIN right = 1 .. m
      /\ \A i \in 1 .. m : right[i] \in S
  BY LenProperties DEF IsCondition
<1>2. ASSUME NEW i \in 1 .. m PROVE Moved(right[i], n) \in S
  <2>1. CASE right[i].type # "GROUP"
    BY <1>1, <2>1 DEF Moved
  <2>2. CASE right[i].type = "GROUP"
    <3>. DEFINE old == right[i].children
                new == [j \in DOMAIN old |-> old[j] + n]
    <3>1. right[i] \in Groups
      BY <1>1, <2>2 DEF DslLeaves, Value, InRange, Compare
    <3>2. old \in Seq(Nat)
      BY <3>1 DEF Groups
    <3>3. new \in Seq(Nat)
      <4>1. DOMAIN old = 1 .. Len(old) /\ Len(old) \in Nat /\ \A j \in DOMAIN old : old[j] \in Nat
        BY <3>2, LenProperties, ElementOfSeq
      <4>. HIDE DEF old
      <4>2. new \in [1 .. Len(old) -> Nat]
        BY <1>1, <4>1
      <4>. QED  BY <4>1, <4>2
    <3>4. Moved(right[i], n) = [right[i] EXCEPT !.children = new]
      BY <2>2 DEF Moved
    <3>. HIDE DEF new
    <3>. QED  BY <3>1, <3>3, <3>4 DEF Groups
  <2>. QED  BY <2>1, <2>2
<1>3. moved \in Seq(S) /\ Len(moved) = m /\ \A i \in 1 .. m : moved[i] = Moved(right[i], n)
  <2>1. moved \in [1 .. m -> S]
    BY <1>2
  <2>. HIDE DEF S
  <2>. QED  BY <1>1, <2>1, LenProperties
<1>4. last \in Seq(S) /\ Len(last) = 1 /\ last[1] = group
  <2>1. kids \in Seq(Nat)
    BY <1>1
  <2>. HIDE DEF kids
  <2>2. group \in S
    BY <2>1 DEF Groups
  <2>. HIDE DEF group, S
  <2>. QED  BY <2>2, OneElement
<1>5. group.type = "GROUP" /\ group.children = <<n, n + m>>
  OBVIOUS
<1>6. c = two \o last
  <2>1. moved = [i \in DOMAIN right |->
                   IF right[i].type # "GROUP" THEN right[i]
                   ELSE [right[i] EXCEPT !.children = [j \in DOMAIN @ |-> @[j] + n]]]
    BY <1>1 DEF Moved
  <2>. HIDE DEF moved
  <2>. QED  BY <2>1 DEF Connect
<1>. HIDE DEF moved, last, group, S, c
<1>7. /\ two \in Seq(S) /\ Len(two) = n + m
      /\ \A i \in 1 .. n + m : two[i] = IF i <= n THEN left[i] ELSE moved[i - n]
  <2>. HIDE DEF n, m
  <2>1. /\ two \in Seq(S) /\ Len(two) = Len(left) + Len(moved)
        /\ \A i \in 1 .. Len(left) + Len(moved) :
             two[i] = IF i <= Len(left) THEN left[i] ELSE moved[i - Len(left)]
    BY <1>1, <1>3, ConcatProperties
  <2>. QED  BY <1>3, <2>1 DEF n, m
<1>. HIDE DEF two
<1>8. /\ c \in Seq(S) /\ Len(c) = n + m + 1
      /\ \A i \in 1 .. n + m + 1 : c[i] = IF i <= n + m THEN two[i] ELSE last[i - (n + m)]
  <2>1. /\ two \o last \in Seq(S) /\ Len(two \o last) = Len(two) + Len(last)
        /\ \A i \in 1 .. Len(two) + Len(last) :
             (two \o last)[i] = IF i <= Len(two) THEN two[i] ELSE last[i - Len(two)]
    <3>1. two \in Seq(S) /\ last \in Seq(S)
      BY <1>4, <1>7
    <3>. QED  BY <3>1, ConcatProperties
  <2>2. Len(two) = n + m /\ Len(last) = 1
    BY <1>4, <1>7
  <2>. QED  BY <1>1, <1>6, <2>1, <2>2
<1>9. \A i \in 1 .. n : c[i] = left[i]
  BY <1>1, <1>7, <1>8
<1>10. \A i \in 1 .. m : c[n + i] = Moved(right[i], n)
  <2>1. \A i \in 1 .. m : n + i \in 1 .. n + m /\ n + i \in 1 .. n + m + 1 /\ n + i <= n + m
        /\ ~(n + i <= n) /\ n + i - n = i
    BY <1>1
  <2>2. \A i \in 1 .. m : two[n + i] = moved[i]
    BY <1>7, <2>1
  <2>3. \A i \in 1 .. m : c[n + i] = two[n + i]
    BY <1>8, <2>1
  <2>. QED  BY <1>3, <2>2, <2>3
<1>11. c[n + m + 1] = group
  <2>1. n + m + 1 \in 1 .. n + m + 1 /\ ~(n + m + 1 <= n + m) /\ n + m + 1 - (n + m) = 1
    BY <1>1
  <2>. QED  BY <1>4, <1>8, <2>1
<1>12. /\ c \in Seq(DslLeaves \cup Groups)
       /\ Len(c) = Len(left) + Len(right) + 1
       /\ \A i \in 1 .. Len(left) : c[i] = left[i]
       /\ \A i \in 1 .. Len(right) : c[Len(left) + i] = Moved(right[i], Len(left))
       /\ c[Len(left) + Len(right) + 1].type = "GROUP"
       /\ c[Len(left) + Len(right) + 1].children = <<Len(left), Len(left) + Len(right)>>
  BY <1>5, <1>8, <1>9, <1>10, <1>11 DEF S
<1>. QED  BY <1>12 DEF Connected, c

(* Two conditions connected are a condition: && and || keep DslAssumption. *)
THEOREM ConnectIsCondition ==
  ASSUME NEW left, IsCondition(left), NEW right, IsCondition(right), NEW logic \in {"AND", "OR"}
  PROVE  IsCondition(Connect(logic, left, right))
<1>. DEFINE n == Len(left)
            m == Len(right)
            c == Connect(logic, left, right)
<1>1. /\ n \in Nat /\ DOMAIN left = 1 .. n /\ m \in Nat /\ DOMAIN right = 1 .. m
      /\ left # <<>> /\ right # <<>>
  BY LenProperties DEF IsCondition
<1>2. n # 0 /\ m # 0
  BY <1>1, EmptySeq DEF IsCondition
<1>3. /\ c \in Seq(DslLeaves \cup Groups) /\ Len(c) = n + m + 1
      /\ \A i \in 1 .. n : c[i] = left[i]
      /\ \A i \in 1 .. m : c[n + i] = Moved(right[i], n)
      /\ c[n + m + 1].type = "GROUP" /\ c[n + m + 1].children = <<n, n + m>>
  <2>1. Connected(left, right, c)
    BY ConnectNodes
  <2>. HIDE DEF c
  <2>. QED  BY <2>1 DEF Connected
<1>. HIDE DEF c
<1>4. DOMAIN c = 1 .. n + m + 1 /\ c # <<>>
  BY <1>1, <1>3, LenProperties, EmptySeq
<1>5. \A i \in 1 .. m :
        /\ c[n + i].type = right[i].type
        /\ c[n + i].type = "GROUP" =>
             /\ Len(c[n + i].children) = Len(right[i].children)
             /\ DOMAIN c[n + i].children = DOMAIN right[i].children
             /\ \A j \in DOMAIN right[i].children : c[n + i].children[j] = right[i].children[j] + n
  <2>1. SUFFICES ASSUME NEW i \in 1 .. m, NEW new, new = Moved(right[i], n)
                 PROVE  /\ new.type = right[i].type
                        /\ new.type = "GROUP" =>
                             /\ Len(new.children) = Len(right[i].children)
                             /\ DOMAIN new.children = DOMAIN right[i].children
                             /\ \A j \in DOMAIN right[i].children :
                                  new.children[j] = right[i].children[j] + n
    BY <1>3
  <2>2. CASE right[i].type # "GROUP"
    BY <2>1, <2>2 DEF Moved
  <2>3. CASE right[i].type = "GROUP"
    <3>. DEFINE old == right[i].children
                kid == [j \in DOMAIN old |-> old[j] + n]
    <3>1. right[i] \in Groups
      <4>1. right[i] \in DslLeaves \cup Groups
        BY <1>1, ElementOfSeq DEF IsCondition
      <4>. QED  BY <2>3, <4>1 DEF DslLeaves, Value, InRange, Compare
    <3>2. new = [right[i] EXCEPT !.children = kid]
      BY <2>1, <2>3 DEF Moved
    <3>3. /\ DOMAIN kid = DOMAIN old /\ Len(kid) = Len(old)
          /\ \A j \in DOMAIN old : kid[j] = old[j] + n
      BY <1>1, <3>1 DEF Groups
    <3>. HIDE DEF kid
    <3>4. new.type = "GROUP" /\ new.children = kid
      BY <2>3, <3>1, <3>2 DEF Groups
    <3>. QED  BY <2>3, <3>3, <3>4
  <2>. QED  BY <2>2, <2>3
<1>6. ASSUME NEW i \in 1 .. n + m + 1, c[i].type = "GROUP", NEW j \in DOMAIN c[i].children
      PROVE  c[i].children[j] \in 1 .. i - 1
  <2>1. CASE i \in 1 .. n
    BY <1>1, <1>3, <1>6, <2>1 DEF IsCondition
  <2>2. CASE i \in n + 1 .. n + m
    <3>. DEFINE k == i - n
    <3>1. k \in 1 .. m /\ n + k = i
      BY <1>1, <2>2
    <3>. HIDE DEF k
    <3>2. right[k].type = "GROUP" /\ j \in DOMAIN right[k].children
          /\ c[i].children[j] = right[k].children[j] + n
      BY <1>5, <1>6, <3>1
    <3>3. right[k].children[j] \in 1 .. k - 1
      BY <1>1, <3>1, <3>2 DEF IsCondition
    <3>. QED  BY <1>1, <3>1, <3>2, <3>3
  <2>3. CASE i = n + m + 1
    <3>1. c[i].children = <<n, n + m>> /\ j \in {1, 2}
      BY <1>3, <1>6, <2>3
    <3>. QED  BY <1>1, <1>2, <2>3, <3>1
  <2>. QED  BY <1>1, <2>1, <2>2, <2>3
<1>7. ASSUME NEW i \in 1 .. n + m + 1, c[i].type = "GROUP" PROVE Len(c[i].children) = 2
  <2>1. CASE i \in 1 .. n
    BY <1>1, <1>3, <1>7, <2>1 DEF IsCondition
  <2>2. CASE i \in n + 1 .. n + m
    <3>1. PICK k \in 1 .. m : n + k = i
      <4>1. i - n \in 1 .. m /\ n + (i - n) = i
        BY <1>1, <2>2
      <4>. QED  BY <4>1
    <3>2. right[k].type = "GROUP" /\ Len(c[i].children) = Len(right[k].children)
      BY <1>5, <1>7, <3>1
    <3>. QED  BY <1>1, <3>1, <3>2 DEF IsCondition
  <2>3. CASE i = n + m + 1
    BY <1>3, <2>3
  <2>. QED  BY <1>1, <2>1, <2>2, <2>3
<1>8. ASSUME NEW i \in 1 .. n + m
      PROVE  \E k \in i + 1 .. n + m + 1 :
               c[k].type = "GROUP" /\ \E j \in DOMAIN c[k].children : c[k].children[j] = i
  <2>. DEFINE ends == <<n, n + m>>
              root == n + m + 1
  <2>1. c[root].type = "GROUP" /\ c[root].children = ends /\ root \in i + 1 .. n + m + 1
    BY <1>1, <1>3
  <2>2. 1 \in DOMAIN ends /\ 2 \in DOMAIN ends /\ ends[1] = n /\ ends[2] = n + m
    OBVIOUS
  <2>3. CASE i = n \/ i = n + m
    <3>. HIDE DEF ends, root
    <3>1. \E j \in DOMAIN c[root].children : c[root].children[j] = i
      BY <2>1, <2>2, <2>3
    <3>. QED  BY <2>1, <3>1
  <2>4. CASE i \in 1 .. n - 1
    <3>1. PICK k \in i + 1 .. n :
            left[k].type = "GROUP" /\ \E j \in DOMAIN left[k].children : left[k].children[j] = i
      BY <2>4 DEF IsCondition
    <3>2. k \in 1 .. n /\ k \in i + 1 .. n + m + 1
      BY <1>1, <2>4
    <3>. QED  BY <1>3, <3>1, <3>2
  <2>5. CASE i \in n + 1 .. n + m - 1
    <3>. DEFINE h == i - n
    <3>1. h \in 1 .. m - 1 /\ h + n = i
      BY <1>1, <2>5
    <3>. HIDE DEF h
    <3>2. PICK k \in h + 1 .. m :
            right[k].type = "GROUP" /\ \E j \in DOMAIN right[k].children : right[k].children[j] = h
      BY <3>1 DEF IsCondition
    <3>3. k \in 1 .. m /\ n + k \in i + 1 .. n + m + 1
      BY <1>1, <3>1
    <3>4. PICK j \in DOMAIN right[k].children : right[k].children[j] = h
      BY <3>2
    <3>5. c[n + k].type = "GROUP" /\ j \in DOMAIN c[n + k].children /\ c[n + k].children[j] = i
      BY <1>5, <3>1, <3>2, <3>3, <3>4
    <3>. DEFINE x == n + k
    <3>6. x \in i + 1 .. n + m + 1 /\ c[x].type = "GROUP"
          /\ j \in DOMAIN c[x].children /\ c[x].children[j] = i
      BY <3>3, <3>5
    <3>. HIDE DEF x
    <3>7. \E e \in DOMAIN c[x].children : c[x].children[e] = i
      BY <3>6
    <3>. HIDE DEF c
    <3>. QED  BY <3>6, <3>7
  <2>6. i = n \/ i = n + m \/ i \in 1 .. n - 1 \/ i \in n + 1 .. n + m - 1
    <3>. HIDE DEF n, m
    <3>. QED  BY <1>1
  <2>. QED  BY <2>3, <2>4, <2>5, <2>6
<1>9. n + m + 1 - 1 = n + m
  BY <1>1
<1>. QED  BY <1>3, <1>4, <1>6, <1>7, <1>8, <1>9 DEF IsCondition, c

(* The branches of a condition, and whether one of them has no anchor.     *)
Branchings == Seq(BOOLEAN) \ {<<>>}
Open(branches) == \E i \in DOMAIN branches : ~branches[i]

(* Two lists of branches under OR, and under AND.                          *)
Both(logic, left, right) == IF logic = "OR" THEN left \o right ELSE Merge(left, right)

Link(logic, child, f, i) == IF i = 1 THEN child[1] ELSE Both(logic, f[i - 1], child[i])
Links(logic, child, f, n) == f = [i \in 1 .. n |-> Link(logic, child, f, i)]

(* What a chain says of one element.                                       *)
LEMMA LinksElement ==
  ASSUME NEW logic, NEW child, NEW f, NEW n, Links(logic, child, f, n), NEW i \in 1 .. n
  PROVE  f[i] = Link(logic, child, f, i)
<1>. DEFINE g == [k \in 1 .. n |-> Link(logic, child, f, k)]
<1>1. f = g
  BY DEF Links
<1>2. g[i] = Link(logic, child, f, i)
  OBVIOUS
<1>. QED  BY <1>1, <1>2

(* A list of lists can be joined, and merged, from the first on.           *)
LEMMA LinksExist ==
  ASSUME NEW logic, NEW child, NEW n \in Nat
  PROVE  \E f : Links(logic, child, f, n)
<1>. DEFINE bad == {m \in 0 .. n : ~\E f : Links(logic, child, f, m)}
<1>1. SUFFICES ASSUME bad # {} PROVE FALSE
  OBVIOUS
<1>2. PICK m \in bad : \A k \in bad : m <= k
  <2>1. bad \subseteq Nat
    OBVIOUS
  <2>. HIDE DEF bad
  <2>. QED  BY <1>1, <2>1, LeastNatural
<1>3. m # 0
  <2>1. Links(logic, child, [i \in 1 .. 0 |-> 0], 0)
    BY DEF Links
  <2>. QED  BY <1>2, <2>1
<1>4. m \in 0 .. n /\ m - 1 \in 0 .. n /\ ~(m <= m - 1)
  BY <1>2, <1>3
<1>5. PICK f : Links(logic, child, f, m - 1)
  BY <1>2, <1>4
<1>. DEFINE g == [i \in 1 .. m |-> IF i = m THEN Link(logic, child, f, m) ELSE f[i]]
<1>6. ASSUME NEW i \in 1 .. m PROVE g[i] = Link(logic, child, g, i)
  <2>1. Link(logic, child, f, i) = Link(logic, child, g, i)
    <3>1. CASE i = 1
      BY <3>1 DEF Link
    <3>2. CASE i # 1
      <4>1. f[i - 1] = g[i - 1]
        BY <1>4, <3>2
      <4>. HIDE DEF g
      <4>. QED  BY <4>1 DEF Link
    <3>. QED  BY <3>1, <3>2
  <2>2. CASE i = m
    BY <2>1, <2>2
  <2>3. CASE i # m
    <3>1. i \in 1 .. m - 1
      BY <1>4, <2>3
    <3>2. f[i] = Link(logic, child, f, i)
      BY <1>5, <3>1, LinksElement
    <3>. QED  BY <2>1, <2>3, <3>2
  <2>. QED  BY <2>2, <2>3
<1>7. Links(logic, child, g, m)
  BY <1>6 DEF Links
<1>. QED  BY <1>2, <1>7

(* OR lists the branches of both sides.                                    *)
LEMMA JoinedBranches ==
  ASSUME NEW left \in Branchings, NEW right \in Branchings
  PROVE  /\ left \o right \in Branchings
         /\ Open(left \o right) <=> Open(left) \/ Open(right)
<1>. DEFINE s == left \o right
<1>1. /\ Len(left) \in Nat \ {0} /\ DOMAIN left = 1 .. Len(left)
      /\ Len(right) \in Nat \ {0} /\ DOMAIN right = 1 .. Len(right)
  BY EmptySeq, LenProperties DEF Branchings
<1>2. s \in Seq(BOOLEAN) /\ Len(s) = Len(left) + Len(right) /\ DOMAIN s = 1 .. Len(left) + Len(right)
  BY LenProperties, ConcatProperties DEF Branchings
<1>3. \A i \in 1 .. Len(left) : s[i] = left[i]
  BY ConcatProperties DEF Branchings
<1>4. \A i \in 1 .. Len(right) : s[Len(left) + i] = right[i]
  BY <1>1, ConcatProperties DEF Branchings
<1>. HIDE DEF s
<1>5. s # <<>>
  BY <1>1, <1>2, EmptySeq
<1>6. ASSUME Open(s) PROVE Open(left) \/ Open(right)
  <2>1. PICK i \in 1 .. Len(left) + Len(right) : ~s[i]
    BY <1>2, <1>6 DEF Open
  <2>2. CASE i <= Len(left)
    BY <1>1, <1>3, <2>1, <2>2 DEF Open
  <2>3. CASE ~(i <= Len(left))
    <3>1. i - Len(left) \in 1 .. Len(right) /\ Len(left) + (i - Len(left)) = i
      BY <1>1, <2>3
    <3>2. ~right[i - Len(left)]
      BY <1>4, <2>1, <3>1
    <3>. QED  BY <1>1, <3>1, <3>2 DEF Open
  <2>. QED  BY <2>2, <2>3
<1>7. ASSUME Open(left) PROVE Open(s)
  <2>1. PICK i \in 1 .. Len(left) : ~left[i]
    BY <1>1, <1>7 DEF Open
  <2>2. i \in DOMAIN s /\ ~s[i]
    BY <1>1, <1>2, <1>3, <2>1
  <2>. QED  BY <2>2 DEF Open
<1>8. ASSUME Open(right) PROVE Open(s)
  <2>1. PICK i \in 1 .. Len(right) : ~right[i]
    BY <1>1, <1>8 DEF Open
  <2>2. Len(left) + i \in DOMAIN s /\ ~s[Len(left) + i]
    BY <1>1, <1>2, <1>4, <2>1
  <2>. QED  BY <2>2 DEF Open
<1>. QED  BY <1>2, <1>5, <1>6, <1>7, <1>8 DEF s, Branchings

(* The lists a group makes of its children, with what they hold.           *)
Chained(logic, child, f, i) ==
  /\ f[i] \in Branchings
  /\ IF logic = "OR" THEN Open(f[i]) <=> \E j \in 1 .. i : Open(child[j])
     ELSE Open(f[i]) <=> \A j \in 1 .. i : Open(child[j])

(* OR: there is an open branch if one child has one.                       *)
LEMMA OrChain ==
  ASSUME NEW n \in Nat, NEW child, \A i \in 1 .. n : child[i] \in Branchings,
         NEW f, Links("OR", child, f, n), NEW k \in 1 .. n
  PROVE  Chained("OR", child, f, k)
<1>. DEFINE bad == {i \in 1 .. n : ~Chained("OR", child, f, i)}
<1>1. SUFFICES ASSUME bad # {} PROVE FALSE
  OBVIOUS
<1>2. PICK i \in bad : \A m \in bad : i <= m
  <2>1. bad \subseteq Nat
    OBVIOUS
  <2>. HIDE DEF bad
  <2>. QED  BY <1>1, <2>1, LeastNatural
<1>3. i \in 1 .. n /\ f[i] = Link("OR", child, f, i) /\ child[i] \in Branchings
  BY <1>2, LinksElement
<1>4. CASE i = 1
  <2>1. f[i] = child[1] /\ \A j \in 1 .. i : j = 1
    BY <1>3, <1>4 DEF Link
  <2>. QED  BY <1>2, <1>3, <1>4, <2>1 DEF Chained
<1>5. CASE i # 1
  <2>1. i - 1 \in 1 .. n /\ ~(i <= i - 1)
    BY <1>3, <1>5
  <2>2. Chained("OR", child, f, i - 1)
    BY <1>2, <2>1
  <2>3. f[i] = f[i - 1] \o child[i]
    BY <1>3, <1>5 DEF Link, Both
  <2>4. f[i - 1] \in Branchings /\ (Open(f[i - 1]) <=> \E j \in 1 .. i - 1 : Open(child[j]))
    BY <2>2 DEF Chained
  <2>5. f[i] \in Branchings /\ (Open(f[i]) <=> Open(f[i - 1]) \/ Open(child[i]))
    BY <1>3, <2>3, <2>4, JoinedBranches
  <2>6. \A j : j \in 1 .. i <=> j \in 1 .. i - 1 \/ j = i
    BY <1>3
  <2>7. Chained("OR", child, f, i)
    BY <2>4, <2>5, <2>6 DEF Chained
  <2>. QED  BY <1>2, <2>7
<1>. QED  BY <1>4, <1>5

(* FlattenSeq of the children of an OR.                                    *)
LEMMA FlattenOpen ==
  ASSUME NEW n \in Nat \ {0}, NEW child, Len(child) = n, \A i \in 1 .. n : child[i] \in Branchings
  PROVE  /\ FlattenSeq(child) \in Branchings
         /\ Open(FlattenSeq(child)) <=> \E j \in 1 .. n : Open(child[j])
<1>. DEFINE f == CHOOSE g : Links("OR", child, g, n)
            Flattens(g) == g = [i \in 1 .. n |-> IF i = 1 THEN child[i] ELSE g[i - 1] \o child[i]]
            h == CHOOSE g : Flattens(g)
<1>1. Links("OR", child, f, n)
  BY LinksExist
<1>2. Flattens(f)
  <2>1. \A i \in 1 .. n : Link("OR", child, f, i) = IF i = 1 THEN child[i] ELSE f[i - 1] \o child[i]
    BY DEF Link, Both
  <2>. HIDE DEF f
  <2>. QED  BY <1>1, <2>1 DEF Links
<1>. HIDE DEF f
<1>3. Flattens(h)
  BY <1>2
<1>4. FlattenSeq(child) = h[n]
  BY DEF FlattenSeq
<1>. HIDE DEF h
<1>5. Links("OR", child, h, n)
  <2>1. \A i \in 1 .. n : Link("OR", child, h, i) = IF i = 1 THEN child[i] ELSE h[i - 1] \o child[i]
    BY DEF Link, Both
  <2>. QED  BY <1>3, <2>1 DEF Links
<1>6. Chained("OR", child, h, n)
  BY <1>5, OrChain
<1>. QED  BY <1>4, <1>6 DEF Chained

(* AND pairs every branch of one side with every branch of the other.      *)
LEMMA MergedBranches ==
  ASSUME NEW left \in Branchings, NEW right \in Branchings
  PROVE  /\ Merge(left, right) \in Branchings
         /\ Open(Merge(left, right)) <=> Open(left) /\ Open(right)
<1>. DEFINE n == Len(left)
            row(i) == [j \in DOMAIN right |-> left[i] \/ right[j]]
            rows == [i \in DOMAIN left |-> row(i)]
<1>1. /\ n \in Nat \ {0} /\ DOMAIN left = 1 .. n
      /\ Len(right) \in Nat \ {0} /\ DOMAIN right = 1 .. Len(right)
  BY EmptySeq, LenProperties DEF Branchings
<1>2. ASSUME NEW i \in 1 .. n
      PROVE  row(i) \in Branchings /\ (Open(row(i)) <=> ~left[i] /\ Open(right))
  <2>1. left[i] \in BOOLEAN /\ \A j \in DOMAIN right : right[j] \in BOOLEAN
    BY <1>1, ElementOfSeq DEF Branchings
  <2>2. \A j \in DOMAIN right : (left[i] \/ right[j]) \in BOOLEAN
    OBVIOUS
  <2>3. row(i) \in [1 .. Len(right) -> BOOLEAN]
    BY <1>1, <2>2
  <2>4. row(i) \in Seq(BOOLEAN)
    BY <1>1, <2>3, IsASeq
  <2>5. DOMAIN row(i) = DOMAIN right
    OBVIOUS
  <2>6. row(i) # <<>>
    <3>1. DOMAIN <<>> = {}
      OBVIOUS
    <3>2. 1 \in DOMAIN right
      BY <1>1
    <3>. HIDE DEF row
    <3>. QED  BY <2>5, <3>1, <3>2
  <2>7. \A j \in DOMAIN right : row(i)[j] = (left[i] \/ right[j])
    OBVIOUS
  <2>8. Open(row(i)) <=> ~left[i] /\ Open(right)
    <3>. HIDE DEF row
    <3>. QED  BY <2>5, <2>7 DEF Open
  <2>. QED  BY <2>4, <2>6, <2>8 DEF Branchings
<1>3. Len(rows) = n /\ \A i \in 1 .. n : rows[i] = row(i)
  BY <1>1
<1>4. Merge(left, right) = FlattenSeq(rows)
  BY DEF Merge
<1>. HIDE DEF rows, row
<1>5. \A i \in 1 .. n : rows[i] \in Branchings
  BY <1>2, <1>3
<1>6. /\ FlattenSeq(rows) \in Branchings
      /\ Open(FlattenSeq(rows)) <=> \E i \in 1 .. n : Open(rows[i])
  BY <1>1, <1>3, <1>5, FlattenOpen
<1>7. (\E i \in 1 .. n : Open(rows[i])) <=> Open(left) /\ Open(right)
  BY <1>1, <1>2, <1>3 DEF Open
<1>. QED  BY <1>4, <1>6, <1>7

(* AND: there is an open branch if every child has one.                    *)
LEMMA AndChain ==
  ASSUME NEW n \in Nat, NEW child, \A i \in 1 .. n : child[i] \in Branchings,
         NEW f, Links("AND", child, f, n), NEW k \in 1 .. n
  PROVE  Chained("AND", child, f, k)
<1>. DEFINE bad == {i \in 1 .. n : ~Chained("AND", child, f, i)}
<1>1. SUFFICES ASSUME bad # {} PROVE FALSE
  OBVIOUS
<1>2. PICK i \in bad : \A m \in bad : i <= m
  <2>1. bad \subseteq Nat
    OBVIOUS
  <2>. HIDE DEF bad
  <2>. QED  BY <1>1, <2>1, LeastNatural
<1>3. i \in 1 .. n /\ f[i] = Link("AND", child, f, i) /\ child[i] \in Branchings
  BY <1>2, LinksElement
<1>4. CASE i = 1
  <2>1. f[i] = child[1] /\ \A j \in 1 .. i : j = 1
    BY <1>3, <1>4 DEF Link
  <2>. QED  BY <1>2, <1>3, <1>4, <2>1 DEF Chained
<1>5. CASE i # 1
  <2>1. i - 1 \in 1 .. n /\ ~(i <= i - 1)
    BY <1>3, <1>5
  <2>2. Chained("AND", child, f, i - 1)
    BY <1>2, <2>1
  <2>3. f[i] = Merge(f[i - 1], child[i])
    BY <1>3, <1>5 DEF Link, Both
  <2>4. f[i - 1] \in Branchings /\ (Open(f[i - 1]) <=> \A j \in 1 .. i - 1 : Open(child[j]))
    BY <2>2 DEF Chained
  <2>5. f[i] \in Branchings /\ (Open(f[i]) <=> Open(f[i - 1]) /\ Open(child[i]))
    BY <1>3, <2>3, <2>4, MergedBranches
  <2>6. \A j : j \in 1 .. i <=> j \in 1 .. i - 1 \/ j = i
    BY <1>3
  <2>7. Chained("AND", child, f, i)
    BY <2>4, <2>5, <2>6 DEF Chained
  <2>. QED  BY <1>2, <2>7
<1>. QED  BY <1>4, <1>5

(* The children of an AND, merged.                                         *)
LEMMA MergeOpen ==
  ASSUME NEW n \in Nat \ {0}, NEW child, Len(child) = n, \A i \in 1 .. n : child[i] \in Branchings
  PROVE  /\ MergeAll(child) \in Branchings
         /\ Open(MergeAll(child)) <=> \A j \in 1 .. n : Open(child[j])
<1>. DEFINE f == CHOOSE g : Links("AND", child, g, n)
            Merges(g) == g = [j \in 1 .. n |-> IF j = 1 THEN child[1] ELSE Merge(g[j - 1], child[j])]
            h == CHOOSE g : Merges(g)
<1>1. Links("AND", child, f, n)
  BY LinksExist
<1>2. Merges(f)
  <2>1. \A i \in 1 .. n : Link("AND", child, f, i) = IF i = 1 THEN child[1] ELSE Merge(f[i - 1], child[i])
    BY DEF Link, Both
  <2>. HIDE DEF f
  <2>. QED  BY <1>1, <2>1 DEF Links
<1>. HIDE DEF f
<1>3. Merges(h)
  BY <1>2
<1>4. MergeAll(child) = h[n]
  BY DEF MergeAll
<1>. HIDE DEF h
<1>5. Links("AND", child, h, n)
  <2>1. \A i \in 1 .. n : Link("AND", child, h, i) = IF i = 1 THEN child[1] ELSE Merge(h[i - 1], child[i])
    BY DEF Link, Both
  <2>. QED  BY <1>3, <2>1 DEF Links
<1>6. Chained("AND", child, h, n)
  BY <1>5, AndChain
<1>. QED  BY <1>4, <1>6 DEF Chained

(* What a group makes of its children: no branch if one of them has none,  *)
(* and otherwise an open one as its logic has it.                          *)
Grouped(logic, child, n, b) ==
  IF \E j \in 1 .. n : child[j] = <<>> THEN b = <<>>
  ELSE /\ b \in Branchings
       /\ IF logic = "OR" THEN Open(b) <=> \E j \in 1 .. n : Open(child[j])
          ELSE Open(b) <=> \A j \in 1 .. n : Open(child[j])

LEMMA GroupOpen ==
  ASSUME NEW logic, NEW n \in Nat \ {0}, NEW child, DOMAIN child = 1 .. n, Len(child) = n,
         \A i \in 1 .. n : child[i] \in Branchings \cup {<<>>}
  PROVE  Grouped(logic, child, n, GroupBranches(logic, child))
<1>1. CASE \E j \in 1 .. n : child[j] = <<>>
  BY <1>1 DEF Grouped, GroupBranches
<1>2. CASE ~\E j \in 1 .. n : child[j] = <<>>
  <2>1. \A i \in 1 .. n : child[i] \in Branchings
    BY <1>2
  <2>2. CASE logic = "OR"
    <3>1. GroupBranches(logic, child) = FlattenSeq(child)
      BY <1>2, <2>2 DEF GroupBranches
    <3>. QED  BY <1>2, <2>1, <2>2, <3>1, FlattenOpen DEF Grouped
  <2>3. CASE logic # "OR"
    <3>1. GroupBranches(logic, child) = MergeAll(child)
      BY <1>2, <2>3 DEF GroupBranches
    <3>. QED  BY <1>2, <2>1, <2>3, <3>1, MergeOpen DEF Grouped
  <2>. QED  BY <2>2, <2>3
<1>. QED  BY <1>1, <1>2

-----------------------------------------------------------------------------
(* The leaves, the branches and the truth of the nodes of a query, each a  *)
(* recursion over children that stand before their parent.                 *)

OfLeaf(what, x, node, id) ==
  CASE what = "leaves"  -> {id}
    [] what = "anchors" -> LeafAnchors(x.query, node, x.target)
    [] what = "holds"   -> id \in x

OfGroup(what, node, kids) ==
  CASE what = "leaves"  -> UNION {kids[j] : j \in DOMAIN kids}
    [] what = "anchors" -> IF Len(node.children) < 2 THEN <<>> ELSE GroupBranches(node.logic, kids)
    [] what = "holds"   -> IF node.logic = "AND" THEN \A j \in DOMAIN kids : kids[j]
                           ELSE \E j \in DOMAIN kids : kids[j]

KidsOf(node, f) == [j \in DOMAIN node.children |-> f[node.children[j]]]

ValueOf(what, x, A, f, id) ==
  IF A.conditions[id + 1].type # "GROUP" THEN OfLeaf(what, x, A.conditions[id + 1], id)
  ELSE OfGroup(what, A.conditions[id + 1], KidsOf(A.conditions[id + 1], f))

Computes(what, x, A, f, n) == f = [id \in 0 .. n - 1 |-> ValueOf(what, x, A, f, id)]

(* The children of the first n nodes stand before them.                    *)
Ordered(A, n) ==
  \A id \in 0 .. n - 1 : A.conditions[id + 1].type = "GROUP" =>
    \A j \in DOMAIN A.conditions[id + 1].children : A.conditions[id + 1].children[j] \in 0 .. id - 1

(* A node over equal values of its children.                               *)
LEMMA ValueSame ==
  ASSUME NEW what, NEW x, NEW A, NEW f, NEW g, NEW id,
         A.conditions[id + 1].type = "GROUP" => \A j \in DOMAIN A.conditions[id + 1].children :
           f[A.conditions[id + 1].children[j]] = g[A.conditions[id + 1].children[j]]
  PROVE  ValueOf(what, x, A, f, id) = ValueOf(what, x, A, g, id)
<1>1. CASE A.conditions[id + 1].type # "GROUP"
  BY <1>1 DEF ValueOf
<1>2. CASE A.conditions[id + 1].type = "GROUP"
  <2>1. KidsOf(A.conditions[id + 1], f) = KidsOf(A.conditions[id + 1], g)
    BY <1>2 DEF KidsOf
  <2>. QED  BY <2>1 DEF ValueOf
<1>. QED  BY <1>1, <1>2

(* What a computation says of one node.                                    *)
LEMMA ComputesElement ==
  ASSUME NEW what, NEW x, NEW A, NEW f, NEW n, Computes(what, x, A, f, n), NEW id \in 0 .. n - 1
  PROVE  f[id] = ValueOf(what, x, A, f, id)
<1>. DEFINE g == [k \in 0 .. n - 1 |-> ValueOf(what, x, A, f, k)]
<1>1. f = g
  BY DEF Computes
<1>2. g[id] = ValueOf(what, x, A, f, id)
  OBVIOUS
<1>. QED  BY <1>1, <1>2

(* Children before parents: every node has a value.                        *)
LEMMA ComputesExist ==
  ASSUME NEW what, NEW x, NEW A, NEW n \in Nat, Ordered(A, n)
  PROVE  \E f : Computes(what, x, A, f, n)
<1>. DEFINE bad == {m \in 0 .. n : ~\E f : Computes(what, x, A, f, m)}
<1>1. SUFFICES ASSUME bad # {} PROVE FALSE
  OBVIOUS
<1>2. PICK m \in bad : \A k \in bad : m <= k
  <2>1. bad \subseteq Nat
    OBVIOUS
  <2>. HIDE DEF bad
  <2>. QED  BY <1>1, <2>1, LeastNatural
<1>3. m # 0
  <2>1. 0 .. 0 - 1 = {}
    OBVIOUS
  <2>2. Computes(what, x, A, [i \in 0 .. 0 - 1 |-> 0], 0)
    BY <2>1 DEF Computes
  <2>. QED  BY <1>2, <2>2
<1>4. m \in 0 .. n /\ m - 1 \in 0 .. n /\ ~(m <= m - 1)
  BY <1>2, <1>3
<1>5. PICK f : Computes(what, x, A, f, m - 1)
  BY <1>2, <1>4
<1>. DEFINE g == [i \in 0 .. m - 1 |-> IF i = m - 1 THEN ValueOf(what, x, A, f, m - 1) ELSE f[i]]
<1>6. ASSUME NEW i \in 0 .. m - 1 PROVE g[i] = ValueOf(what, x, A, g, i)
  <2>1. ASSUME A.conditions[i + 1].type = "GROUP", NEW j \in DOMAIN A.conditions[i + 1].children
        PROVE  f[A.conditions[i + 1].children[j]] = g[A.conditions[i + 1].children[j]]
    <3>1. A.conditions[i + 1].children[j] \in 0 .. i - 1
      BY <1>4, <2>1 DEF Ordered
    <3>. QED  BY <1>4, <3>1
  <2>2. ValueOf(what, x, A, f, i) = ValueOf(what, x, A, g, i)
    <3>. HIDE DEF g
    <3>. QED  BY <2>1, ValueSame
  <2>3. CASE i = m - 1
    BY <2>2, <2>3
  <2>4. CASE i # m - 1
    <3>1. i \in 0 .. m - 1 - 1
      BY <1>4, <2>4
    <3>2. f[i] = ValueOf(what, x, A, f, i)
      BY <1>5, <3>1, ComputesElement
    <3>. QED  BY <2>2, <2>4, <3>2
  <2>. QED  BY <2>3, <2>4
<1>7. Computes(what, x, A, g, m)
  BY <1>6 DEF Computes
<1>. QED  BY <1>2, <1>7

(* The leaves of one node from its children's.                             *)
LeavesAt(A, f, id) ==
  LET c == A.conditions[id + 1]
  IN IF c.type = "GROUP" THEN UNION {f[c.children[j]] : j \in DOMAIN c.children} ELSE {id}

LeavesAre(A, n, f) == \A id \in 0 .. n - 1 : f[id] = LeavesAt(A, f, id)

LEMMA LeavesComputed ==
  ASSUME NEW A, NEW n \in Nat \ {0}, Ordered(A, n)
  PROVE  \E f : Leaves(A, n - 1) = f[n - 1] /\ LeavesAre(A, n, f)
<1>. DEFINE P(f) == f = [id \in 0 .. n - 1 |-> LeavesAt(A, f, id)]
            h == CHOOSE f : P(f)
<1>1. PICK f : Computes("leaves", 0, A, f, n)
  BY ComputesExist
<1>2. \A id \in 0 .. n - 1 : LeavesAt(A, f, id) = ValueOf("leaves", 0, A, f, id)
  BY DEF LeavesAt, ValueOf, OfLeaf, OfGroup, KidsOf
<1>3. P(f)
  BY <1>1, <1>2 DEF Computes
<1>4. P(h)
  <2>. HIDE DEF P
  <2>. QED  BY <1>3
<1>5. Leaves(A, n - 1) = h[n - 1]
  BY DEF Leaves, LeavesAt
<1>. HIDE DEF h
<1>6. \A id \in 0 .. n - 1 : h[id] = LeavesAt(A, h, id)
  <2>1. h = [id \in 0 .. n - 1 |-> LeavesAt(A, h, id)]
    BY <1>4
  <2>2. \A id \in 0 .. n - 1 : [i \in 0 .. n - 1 |-> LeavesAt(A, h, i)][id] = LeavesAt(A, h, id)
    OBVIOUS
  <2>. QED  BY <2>1, <2>2
<1>. QED  BY <1>5, <1>6 DEF LeavesAre

(* The branches of one node from its children's.                           *)
AnchorsAt(A, target, f, id) ==
  LET c     == A.conditions[id + 1]
      child == [j \in DOMAIN c.children |-> f[c.children[j]]]
  IN IF c.type # "GROUP" THEN LeafAnchors(A, c, target)
     ELSE IF Len(c.children) < 2 THEN <<>> ELSE GroupBranches(c.logic, child)

AnchorsAre(A, target, n, f) == \A id \in 0 .. n - 1 : f[id] = AnchorsAt(A, target, f, id)

LEMMA AnchorsComputed ==
  ASSUME NEW A, NEW target, NEW n \in Nat \ {0}, Ordered(A, n)
  PROVE  \E f : BranchAnchors(A, target, n - 1) = f[n - 1] /\ AnchorsAre(A, target, n, f)
<1>. DEFINE x == [query |-> A, target |-> target]
            P(f) == f = [id \in 0 .. n - 1 |-> AnchorsAt(A, target, f, id)]
            h == CHOOSE f : P(f)
<1>1. PICK f : Computes("anchors", x, A, f, n)
  BY ComputesExist
<1>2. \A id \in 0 .. n - 1 : AnchorsAt(A, target, f, id) = ValueOf("anchors", x, A, f, id)
  BY DEF AnchorsAt, ValueOf, OfLeaf, OfGroup, KidsOf
<1>3. P(f)
  BY <1>1, <1>2 DEF Computes
<1>4. P(h)
  <2>. HIDE DEF P
  <2>. QED  BY <1>3
<1>5. BranchAnchors(A, target, n - 1) = h[n - 1]
  BY DEF BranchAnchors, AnchorsAt
<1>. HIDE DEF h
<1>6. \A id \in 0 .. n - 1 : h[id] = AnchorsAt(A, target, h, id)
  <2>1. h = [id \in 0 .. n - 1 |-> AnchorsAt(A, target, h, id)]
    BY <1>4
  <2>2. \A id \in 0 .. n - 1 :
          [i \in 0 .. n - 1 |-> AnchorsAt(A, target, h, i)][id] = AnchorsAt(A, target, h, id)
    OBVIOUS
  <2>. QED  BY <2>1, <2>2
<1>. QED  BY <1>5, <1>6 DEF AnchorsAre

(* The truth of one node from its children's.                              *)
HoldsAt(A, true, f, id) ==
  LET c == A.conditions[id + 1]
  IN IF c.type # "GROUP" THEN id \in true
     ELSE IF c.logic = "AND" THEN \A j \in DOMAIN c.children : f[c.children[j]]
     ELSE \E j \in DOMAIN c.children : f[c.children[j]]

TruthIs(A, true, n, f) == \A id \in 0 .. n - 1 : f[id] <=> HoldsAt(A, true, f, id)

LEMMA HoldsComputed ==
  ASSUME NEW A, NEW true, NEW n \in Nat \ {0}, Ordered(A, n)
  PROVE  \E f : (Satisfies(A, n - 1, true) <=> f[n - 1]) /\ TruthIs(A, true, n, f)
<1>. DEFINE P(f) == f = [id \in 0 .. n - 1 |-> HoldsAt(A, true, f, id)]
            h == CHOOSE f : P(f)
<1>1. PICK f : Computes("holds", true, A, f, n)
  BY ComputesExist
<1>2. \A id \in 0 .. n - 1 : HoldsAt(A, true, f, id) = ValueOf("holds", true, A, f, id)
  BY DEF HoldsAt, ValueOf, OfLeaf, OfGroup, KidsOf
<1>3. P(f)
  BY <1>1, <1>2 DEF Computes
<1>4. P(h)
  <2>. HIDE DEF P
  <2>. QED  BY <1>3
<1>5. Satisfies(A, n - 1, true) = h[n - 1]
  BY DEF Satisfies, HoldsAt
<1>. HIDE DEF h
<1>6. \A id \in 0 .. n - 1 : h[id] = HoldsAt(A, true, h, id)
  <2>1. h = [id \in 0 .. n - 1 |-> HoldsAt(A, true, h, id)]
    BY <1>4
  <2>2. \A id \in 0 .. n - 1 :
          [i \in 0 .. n - 1 |-> HoldsAt(A, true, h, i)][id] = HoldsAt(A, true, h, id)
    OBVIOUS
  <2>. QED  BY <2>1, <2>2
<1>. QED  BY <1>5, <1>6 DEF TruthIs

(* The nodes a C caller makes: groups of earlier nodes, and leaves over    *)
(* sources.                                                                *)
GoodNode(c, id) ==
  IF c.type = "GROUP"
  THEN /\ DOMAIN c.children = 1 .. Len(c.children) /\ Len(c.children) \in Nat /\ Len(c.children) >= 2
       /\ \A j \in DOMAIN c.children : c.children[j] \in 0 .. id - 1
       /\ c.logic \in {"AND", "OR"}
  ELSE \/ c.type \in {"VALUE", "RANGE"} /\ c.source \in Nat /\ c.right = -1
       \/ c.type = "FIELD_COMPARE" /\ c.source \in Nat /\ c.right \in Nat

GoodOn(A, n) == \A id \in 0 .. n - 1 : GoodNode(A.conditions[id + 1], id)

Reaches(A, target, c) ==
  c.type \in {"VALUE", "FIELD_COMPARE"} /\ c.source <= target /\ c.right <= target
Anchors(A, target, c) == c.type = "FIELD_COMPARE" /\ IsAnchor(c, target)

(* The leaves of a node, with their verdict.                               *)
LEMMA LeafBranch ==
  ASSUME NEW A, DOMAIN A.sources = 1 .. Len(A.sources), Len(A.sources) \in Nat,
         NEW target \in Nat, target < Len(A.sources),
         NEW c, NEW id, GoodNode(c, id), c.type # "GROUP"
  PROVE  /\ LeafAnchors(A, c, target) \in Branchings \cup {<<>>}
         /\ LeafAnchors(A, c, target) # <<>> <=> Reaches(A, target, c)
         /\ Reaches(A, target, c) => (Open(LeafAnchors(A, c, target)) <=> ~Anchors(A, target, c))
<1>1. \A b \in BOOLEAN : <<b>> \in Branchings /\ (Open(<<b>>) <=> ~b)
  <2>. SUFFICES ASSUME NEW b \in BOOLEAN PROVE <<b>> \in Branchings /\ (Open(<<b>>) <=> ~b)
    OBVIOUS
  <2>1. <<b>> \in Seq(BOOLEAN) /\ <<b>> # <<>>
    OBVIOUS
  <2>2. DOMAIN <<b>> = {1} /\ <<b>>[1] = b
    OBVIOUS
  <2>. QED  BY <2>1, <2>2 DEF Branchings, Open
<1>2. \A s \in Nat : FieldAllowed(A, s, target) <=> s <= target
  BY DEF FieldAllowed
<1>3. IsAnchor(c, target) \in BOOLEAN
  BY DEF IsAnchor
<1>4. CASE c.type = "RANGE"
  BY <1>4 DEF LeafAnchors, Reaches
<1>5. CASE c.type = "VALUE"
  <2>1. c.source \in Nat /\ c.right = -1
    BY <1>5 DEF GoodNode
  <2>2. Reaches(A, target, c) <=> c.source <= target
    BY <1>5, <2>1 DEF Reaches
  <2>3. ~Anchors(A, target, c)
    BY <1>5 DEF Anchors
  <2>4. LeafAnchors(A, c, target) = IF c.source <= target THEN <<FALSE>> ELSE <<>>
    BY <1>2, <1>5, <2>1 DEF LeafAnchors
  <2>5. <<FALSE>> # <<>> /\ <<FALSE>> \in Branchings /\ Open(<<FALSE>>)
    BY <1>1 DEF Branchings
  <2>. QED  BY <2>2, <2>3, <2>4, <2>5
<1>6. CASE c.type = "FIELD_COMPARE"
  <2>1. c.source \in Nat /\ c.right \in Nat
    BY <1>6 DEF GoodNode
  <2>2. Reaches(A, target, c) <=> c.source <= target /\ c.right <= target
    BY <1>6, <2>1 DEF Reaches
  <2>. DEFINE b == IsAnchor(c, target)
  <2>3. LeafAnchors(A, c, target) = IF c.source <= target /\ c.right <= target THEN <<b>> ELSE <<>>
    BY <1>2, <1>6, <2>1 DEF LeafAnchors
  <2>4. <<b>> # <<>> /\ <<b>> \in Branchings /\ (Open(<<b>>) <=> ~b)
    BY <1>1, <1>3 DEF Branchings
  <2>5. Anchors(A, target, c) <=> b
    BY <1>6 DEF Anchors
  <2>. HIDE DEF b
  <2>. QED  BY <2>2, <2>3, <2>4, <2>5
<1>. QED  BY <1>4, <1>5, <1>6 DEF GoodNode

(* The truth of a condition depends on its own leaves only, and grows with *)
(* them.                                                                   *)
LEMMA TruthGrows ==
  ASSUME NEW A, NEW n \in Nat, GoodOn(A, n), NEW l, LeavesAre(A, n, l),
         NEW S, NEW s, TruthIs(A, S, n, s), NEW T, NEW t, TruthIs(A, T, n, t),
         NEW root \in 0 .. n - 1, l[root] \cap S \subseteq T, s[root]
  PROVE  t[root]
<1>. DEFINE Grows(id) == (l[id] \cap S \subseteq T) /\ s[id] => t[id]
            bad == {id \in 0 .. n - 1 : ~Grows(id)}
<1>1. SUFFICES ASSUME bad # {} PROVE FALSE
  OBVIOUS
<1>2. PICK id \in bad : \A k \in bad : id <= k
  <2>1. bad \subseteq Nat
    OBVIOUS
  <2>. HIDE DEF bad
  <2>. QED  BY <1>1, <2>1, LeastNatural
<1>. DEFINE c == A.conditions[id + 1]
<1>3. /\ id \in 0 .. n - 1 /\ l[id] \cap S \subseteq T /\ s[id] /\ ~t[id]
      /\ l[id] = LeavesAt(A, l, id) /\ HoldsAt(A, S, s, id) /\ ~HoldsAt(A, T, t, id)
  BY <1>2 DEF LeavesAre, TruthIs
<1>4. CASE c.type # "GROUP"
  BY <1>3, <1>4 DEF LeavesAt, HoldsAt
<1>5. CASE c.type = "GROUP"
  <2>1. \A j \in DOMAIN c.children : c.children[j] \in 0 .. id - 1
    BY <1>3, <1>5 DEF GoodOn, GoodNode
  <2>2. ASSUME NEW j \in DOMAIN c.children, s[c.children[j]] PROVE t[c.children[j]]
    <3>1. c.children[j] \in 0 .. n - 1 /\ ~(id <= c.children[j])
      BY <1>3, <2>1
    <3>2. c.children[j] \notin bad
      BY <1>2, <3>1
    <3>3. l[c.children[j]] \subseteq l[id]
      BY <1>3, <1>5 DEF LeavesAt
    <3>4. l[c.children[j]] \cap S \subseteq T
      BY <1>3, <3>3
    <3>. QED  BY <2>2, <3>1, <3>2, <3>4
  <2>. QED  BY <1>3, <1>5, <2>2 DEF HoldsAt
<1>. QED  BY <1>4, <1>5

(* What the branches of a node say of its leaves and of its truth when     *)
(* every leaf but the anchors is true.                                     *)
Judges(A, target, n, l, f, h, id) ==
  /\ l[id] \subseteq 0 .. n - 1
  /\ f[id] \in Branchings \cup {<<>>}
  /\ f[id] # <<>> <=> \A k \in l[id] : Reaches(A, target, A.conditions[k + 1])
  /\ f[id] # <<>> => (Open(f[id]) <=> h[id])

NotAnchors(A, target, n) == {k \in 0 .. n - 1 : ~Anchors(A, target, A.conditions[k + 1])}

(* A group judges as its children do.                                      *)
LEMMA GroupJudges ==
  ASSUME NEW A, NEW target, NEW n \in Nat, NEW id \in 0 .. n - 1,
         NEW c, c = A.conditions[id + 1], GoodNode(c, id), c.type = "GROUP",
         NEW l, NEW f, NEW h, NEW true,
         l[id] = LeavesAt(A, l, id), f[id] = AnchorsAt(A, target, f, id),
         h[id] <=> HoldsAt(A, true, h, id),
         \A j \in DOMAIN c.children : Judges(A, target, n, l, f, h, c.children[j])
  PROVE  Judges(A, target, n, l, f, h, id)
<1>. DEFINE m == Len(c.children)
            kid(j) == c.children[j]
            child == [j \in DOMAIN c.children |-> f[c.children[j]]]
<1>1. /\ m \in Nat \ {0} /\ m >= 2 /\ DOMAIN c.children = 1 .. m /\ c.logic \in {"AND", "OR"}
      /\ ~(m < 2)
  BY DEF GoodNode
<1>2. \A j \in 1 .. m : /\ l[kid(j)] \subseteq 0 .. n - 1
                        /\ f[kid(j)] \in Branchings \cup {<<>>}
                        /\ f[kid(j)] # <<>> <=> \A k \in l[kid(j)] : Reaches(A, target, A.conditions[k + 1])
                        /\ f[kid(j)] # <<>> => (Open(f[kid(j)]) <=> h[kid(j)])
  BY <1>1 DEF Judges
<1>3. DOMAIN child = 1 .. m /\ Len(child) = m /\ \A j \in 1 .. m : child[j] = f[kid(j)]
  BY <1>1
<1>4. f[id] = GroupBranches(c.logic, child)
  BY <1>1 DEF AnchorsAt
<1>5. l[id] = UNION {l[kid(j)] : j \in 1 .. m}
  BY <1>1 DEF LeavesAt
<1>6. h[id] <=> IF c.logic = "AND" THEN \A j \in 1 .. m : h[kid(j)] ELSE \E j \in 1 .. m : h[kid(j)]
  BY <1>1 DEF HoldsAt
<1>. HIDE DEF child, m, kid
<1>7. Grouped(c.logic, child, m, f[id])
  <2>1. \A j \in 1 .. m : child[j] \in Branchings \cup {<<>>}
    BY <1>2, <1>3
  <2>. QED  BY <1>1, <1>3, <1>4, <2>1, GroupOpen
<1>8. l[id] \subseteq 0 .. n - 1
  BY <1>2, <1>5
<1>9. (\A k \in l[id] : Reaches(A, target, A.conditions[k + 1])) <=> \A j \in 1 .. m : f[kid(j)] # <<>>
  BY <1>2, <1>5
<1>10. CASE \E j \in 1 .. m : child[j] = <<>>
  <2>1. f[id] = <<>>
    BY <1>7, <1>10 DEF Grouped
  <2>. QED  BY <1>3, <1>8, <1>9, <1>10, <2>1 DEF Judges
<1>11. CASE ~\E j \in 1 .. m : child[j] = <<>>
  <2>1. f[id] \in Branchings /\ f[id] # <<>>
    BY <1>7, <1>11 DEF Grouped, Branchings
  <2>2. \A j \in 1 .. m : f[kid(j)] # <<>> /\ (Open(child[j]) <=> h[kid(j)])
    BY <1>2, <1>3, <1>11
  <2>3. Open(f[id]) <=> h[id]
    <3>1. CASE c.logic = "OR"
      BY <1>6, <1>7, <1>11, <2>2, <3>1 DEF Grouped
    <3>2. CASE c.logic = "AND"
      BY <1>6, <1>7, <1>11, <2>2, <3>2 DEF Grouped
    <3>. QED  BY <1>1, <3>1, <3>2
  <2>. QED  BY <1>8, <1>9, <2>1, <2>2, <2>3 DEF Judges
<1>. QED  BY <1>10, <1>11

(* Every node judges.                                                      *)
LEMMA NodesJudge ==
  ASSUME NEW A, DOMAIN A.sources = 1 .. Len(A.sources), Len(A.sources) \in Nat,
         NEW target \in Nat, target < Len(A.sources), NEW n \in Nat, GoodOn(A, n),
         NEW l, LeavesAre(A, n, l), NEW f, AnchorsAre(A, target, n, f),
         NEW h, TruthIs(A, NotAnchors(A, target, n), n, h), NEW root \in 0 .. n - 1
  PROVE  Judges(A, target, n, l, f, h, root)
<1>. DEFINE bad == {id \in 0 .. n - 1 : ~Judges(A, target, n, l, f, h, id)}
<1>1. SUFFICES ASSUME bad # {} PROVE FALSE
  OBVIOUS
<1>2. PICK id \in bad : \A k \in bad : id <= k
  <2>1. bad \subseteq Nat
    OBVIOUS
  <2>. HIDE DEF bad
  <2>. QED  BY <1>1, <2>1, LeastNatural
<1>. DEFINE c == A.conditions[id + 1]
<1>3. /\ id \in 0 .. n - 1 /\ GoodNode(c, id)
      /\ l[id] = LeavesAt(A, l, id) /\ f[id] = AnchorsAt(A, target, f, id)
      /\ h[id] <=> HoldsAt(A, NotAnchors(A, target, n), h, id)
  BY <1>2 DEF LeavesAre, AnchorsAre, TruthIs, GoodOn
<1>4. CASE c.type # "GROUP"
  <2>1. l[id] = {id} /\ f[id] = LeafAnchors(A, c, target)
    BY <1>3, <1>4 DEF LeavesAt, AnchorsAt
  <2>2. h[id] <=> ~Anchors(A, target, c)
    BY <1>3, <1>4 DEF HoldsAt, NotAnchors
  <2>3. Judges(A, target, n, l, f, h, id)
    BY <1>3, <1>4, <2>1, <2>2, LeafBranch DEF Judges
  <2>. QED  BY <1>2, <2>3
<1>5. CASE c.type = "GROUP"
  <2>1. \A j \in DOMAIN c.children : Judges(A, target, n, l, f, h, c.children[j])
    <3>1. \A j \in DOMAIN c.children : c.children[j] \in 0 .. id - 1
      BY <1>3, <1>5 DEF GoodNode
    <3>. QED  BY <1>2, <1>3, <3>1
  <2>2. Judges(A, target, n, l, f, h, id)
    <3>. HIDE DEF bad
    <3>. QED  BY <1>3, <1>5, <2>1, GroupJudges
  <2>. QED  BY <1>2, <2>2
<1>. QED  BY <1>4, <1>5

(* The server's rule is that no row pair satisfies the condition without   *)
(* a comparison that relates the joined source to an earlier one.          *)
LEMMA BranchesRelate ==
  ASSUME NEW A, DOMAIN A.sources = 1 .. Len(A.sources), Len(A.sources) \in Nat,
         NEW target \in Nat, target < Len(A.sources), NEW n \in Nat \ {0}, GoodOn(A, n)
  PROVE  ValidateJoinOnCondition(A, target, n - 1) <=> Relates(A, target, n - 1)
<1>. DEFINE root == n - 1
            free == NotAnchors(A, target, n)
<1>1. Ordered(A, n) /\ root \in 0 .. n - 1
  <2>1. ASSUME NEW id \in 0 .. n - 1, A.conditions[id + 1].type = "GROUP",
               NEW j \in DOMAIN A.conditions[id + 1].children
        PROVE  A.conditions[id + 1].children[j] \in 0 .. id - 1
    <3>1. GoodNode(A.conditions[id + 1], id)
      BY DEF GoodOn
    <3>. QED  BY <2>1, <3>1 DEF GoodNode
  <2>2. Ordered(A, n)
    BY <2>1 DEF Ordered
  <2>. QED  BY <2>2
<1>2. PICK l : Leaves(A, root) = l[root] /\ LeavesAre(A, n, l)
  BY <1>1, LeavesComputed
<1>3. PICK f : BranchAnchors(A, target, root) = f[root] /\ AnchorsAre(A, target, n, f)
  BY <1>1, AnchorsComputed
<1>4. PICK h : (Satisfies(A, root, free) <=> h[root]) /\ TruthIs(A, free, n, h)
  BY <1>1, HoldsComputed
<1>5. /\ l[root] \subseteq 0 .. n - 1
      /\ f[root] # <<>> <=> \A k \in l[root] : Reaches(A, target, A.conditions[k + 1])
      /\ f[root] # <<>> => (Open(f[root]) <=> h[root])
  <2>1. Judges(A, target, n, l, f, h, root)
    BY <1>1, <1>2, <1>3, <1>4, NodesJudge
  <2>. QED  BY <2>1 DEF Judges
<1>. DEFINE anchors == {k \in l[root] : Anchors(A, target, A.conditions[k + 1])}
<1>. HIDE DEF root
<1>6. ValidateJoinOnCondition(A, target, root) <=> f[root] # <<>> /\ ~Open(f[root])
  <2>1. ValidateJoinOnCondition(A, target, root)
          <=> f[root] # <<>> /\ \A i \in DOMAIN f[root] : f[root][i]
    BY <1>3 DEF ValidateJoinOnCondition
  <2>. QED  BY <2>1 DEF Open
<1>7. Relates(A, target, root) <=>
        /\ \A k \in l[root] : Reaches(A, target, A.conditions[k + 1])
        /\ \A true \in SUBSET l[root] : Satisfies(A, root, true) => true \cap anchors # {}
  <2>1. anchors = {id \in l[root] : A.conditions[id + 1].type = "FIELD_COMPARE"
                                    /\ IsAnchor(A.conditions[id + 1], target)}
    BY DEF Anchors
  <2>2. Leaves(A, root) = l[root]
    BY <1>2
  <2>. HIDE DEF anchors
  <2>. QED  BY <2>1, <2>2 DEF Relates, Reaches
<1>. HIDE DEF free, anchors
<1>8. ASSUME h[root], NEW true, true = l[root] \cap free PROVE Satisfies(A, root, true)
  <2>1. PICK t : (Satisfies(A, root, true) <=> t[root]) /\ TruthIs(A, true, n, t)
    BY <1>1, HoldsComputed DEF root
  <2>2. l[root] \cap free \subseteq true
    BY <1>8
  <2>3. t[root]
    BY <1>1, <1>2, <1>4, <1>8, <2>1, <2>2, TruthGrows
  <2>. QED  BY <2>1, <2>3
<1>9. ASSUME NEW true \in SUBSET l[root], Satisfies(A, root, true), true \cap anchors = {}
      PROVE  h[root]
  <2>1. PICK t : (Satisfies(A, root, true) <=> t[root]) /\ TruthIs(A, true, n, t)
    BY <1>1, HoldsComputed DEF root
  <2>2. l[root] \cap true \subseteq free
    BY <1>5, <1>9 DEF anchors, free, NotAnchors
  <2>. QED  BY <1>1, <1>2, <1>4, <1>9, <2>1, <2>2, TruthGrows
<1>10. (l[root] \cap free) \cap anchors = {}
  BY DEF free, anchors, NotAnchors
<1>11. ASSUME f[root] # <<>>
       PROVE  h[root] <=> \E true \in SUBSET l[root] : Satisfies(A, root, true) /\ true \cap anchors = {}
  BY <1>8, <1>9, <1>10
<1>. QED  BY <1>5, <1>6, <1>7, <1>11 DEF root

-----------------------------------------------------------------------------
(* The C caller's query.                                                   *)

(* Its three sources stand, and its nodes are in order.                    *)
OnInv ==
  client = "C" =>
    /\ DOMAIN query.sources = 1 .. 3 /\ Len(query.sources) = 3
    /\ DOMAIN query = DOMAIN Ast!EmptyAst
    /\ query.conditions \in Seq(LeafNodes \cup GroupNodes)
    /\ \A id \in 0 .. Len(query.conditions) - 1 : query.conditions[id + 1].id = id
    /\ GoodOn(query, Len(query.conditions))

(* Nobody becomes another client.                                          *)
LEMMA ClientStays == [Next]_vars => client' = client
<1>1. ASSUME Call PROVE client' = client
  BY <1>1 DEF Call
<1>2. ASSUME Next PROVE client' = client
  <2>1. CASE client = "SELECT"
    BY <1>1, <1>2, <2>1 DEF Next, Begin, Select, From, OrderBy, JoinOn, Where, TimeRange, Limit,
                            CallRefused, Fetch, Ok
  <2>2. CASE client = "DML"
    BY <1>1, <1>2, <2>2 DEF Next, Start, CallRefused, Set, DmlWhere, DmlTimeRange, TimeRange,
                            Execute, Ok, Ignored
  <2>3. CASE client = "C"
    BY <1>2, <2>3 DEF Next, CLeaf, CGroup, CCondition
  <2>. QED  BY <1>2, <2>1, <2>2, <2>3 DEF Next
<1>. QED  BY <1>2 DEF vars

(* A node the caller adds.                                                 *)
LEMMA OnNodeAdded ==
  ASSUME OnInv, client = "C", client' = client, NEW c, CCondition(c),
         c \in LeafNodes \cup GroupNodes,
         c.id = Len(query.conditions), GoodNode(c, Len(query.conditions))
  PROVE  OnInv'
<1>. DEFINE n == Len(query.conditions)
            new == Append(query.conditions, c)
<1>1. n \in Nat /\ DOMAIN query.conditions = 1 .. n
  BY LenProperties DEF OnInv
<1>2. /\ query'.conditions = new /\ query'.sources = query.sources
      /\ DOMAIN query' = DOMAIN query
  BY DEF OnInv, CCondition, Ast!AddCondition, Ast!EmptyAst
<1>3. /\ Len(new) = n + 1 /\ DOMAIN new = 1 .. n + 1 /\ new[n + 1] = c
      /\ new \in Seq(LeafNodes \cup GroupNodes)
      /\ \A i \in 1 .. n : new[i] = query.conditions[i]
  BY <1>1, AppendProperties, LenProperties DEF OnInv
<1>. HIDE DEF new
<1>4. ASSUME NEW id \in 0 .. n PROVE new[id + 1].id = id /\ GoodNode(new[id + 1], id)
  <2>1. CASE id = n
    BY <1>3, <2>1
  <2>2. CASE id # n
    <3>1. id \in 0 .. n - 1 /\ id + 1 \in 1 .. n
      BY <1>1, <2>2
    <3>. QED  BY <1>3, <3>1 DEF OnInv, GoodOn
  <2>. QED  BY <2>1, <2>2
<1>5. n + 1 \in Nat /\ n + 1 - 1 = n
  BY <1>1
<1>6. \A id \in 0 .. Len(new) - 1 : new[id + 1].id = id /\ GoodNode(new[id + 1], id)
  BY <1>3, <1>4, <1>5
<1>7. GoodOn(query', Len(new))
  BY <1>2, <1>6 DEF GoodOn
<1>8. /\ DOMAIN query'.sources = 1 .. 3 /\ Len(query'.sources) = 3
      /\ DOMAIN query' = DOMAIN Ast!EmptyAst
  BY <1>2 DEF OnInv
<1>9. /\ query'.conditions \in Seq(LeafNodes \cup GroupNodes)
      /\ \A id \in 0 .. Len(query'.conditions) - 1 : query'.conditions[id + 1].id = id
      /\ GoodOn(query', Len(query'.conditions))
  <2>1. query'.conditions = new /\ new \in Seq(LeafNodes \cup GroupNodes)
    BY <1>2, <1>3
  <2>2. \A id \in 0 .. Len(new) - 1 : new[id + 1].id = id
    BY <1>6
  <2>. QED  BY <2>1, <2>2, <1>7, Zenon
<1>. QED  BY <1>8, <1>9 DEF OnInv

(* A leaf and a group as the caller adds them.                             *)
LEMMA OnLeafMade ==
  ASSUME NEW leaf \in OnLeaves, NEW n \in Nat,
         NEW c, c = [id |-> n, type |-> leaf.type, text |-> "plain",
                     source |-> leaf.source, right |-> leaf.right]
  PROVE  c \in LeafNodes /\ c.id = n /\ GoodNode(c, n)
<1>1. leaf \in [type : {"VALUE", "RANGE"}, source : Nat, right : {-1}]
      \/ leaf \in [type : {"FIELD_COMPARE"}, source : Nat, right : Nat]
  BY DslAssumption
<1>. QED  BY <1>1 DEF GoodNode, LeafNodes

LEMMA OnGroupMade ==
  ASSUME OnInv, client = "C", NEW i \in Nat, NEW j \in Nat, NEW logic \in {"AND", "OR"},
         Ast!MayGroup(query, <<i, j>>),
         NEW c, c = [id |-> Len(query.conditions), type |-> "GROUP", logic |-> logic,
                     children |-> <<i, j>>]
  PROVE  c \in GroupNodes /\ c.id = Len(query.conditions) /\ GoodNode(c, Len(query.conditions))
<1>. DEFINE n == Len(query.conditions)
            kids == <<i, j>>
<1>1. c.id = n /\ c.type = "GROUP" /\ c.children = kids /\ c.logic = logic
      /\ n \in Nat /\ DOMAIN query.conditions = 1 .. n
  BY LenProperties DEF OnInv
<1>2. DOMAIN kids = 1 .. 2 /\ Len(kids) = 2 /\ kids[1] = i /\ kids[2] = j
  OBVIOUS
<1>3. \A k \in 1 .. 2 : kids[k] \in 0 .. n - 1
  <2>1. \A k \in 1 .. 2 : Ast!HasCondition(query, kids[k])
    BY <1>2 DEF Ast!MayGroup
  <2>. HIDE DEF kids
  <2>2. ASSUME NEW k \in 1 .. 2 PROVE kids[k] \in 0 .. n - 1
    <3>1. PICK m \in 1 .. n : query.conditions[m].id = kids[k]
      BY <1>1, <2>1 DEF Ast!HasCondition
    <3>2. m - 1 \in 0 .. n - 1 /\ m - 1 + 1 = m
      BY <1>1
    <3>3. query.conditions[m - 1 + 1].id = m - 1
      BY <3>2 DEF OnInv
    <3>. QED  BY <3>1, <3>2, <3>3
  <2>. QED  BY <2>2
<1>4. c \in GroupNodes
  BY <1>1 DEF GroupNodes
<1>5. c.children = kids
  OBVIOUS
<1>. HIDE DEF kids
<1>. QED  BY <1>1, <1>2, <1>3, <1>4, <1>5 DEF GoodNode

(* The C caller's query stays in order.                                    *)
LEMMA OnInvariant == Spec => []OnInv
<1>1. Init => OnInv
  <2>. SUFFICES ASSUME Init, client = "C" PROVE OnInv
    BY DEF OnInv
  <2>1. PICK d \in Datasets :
          query = Ast!AddJoinSource(Ast!AddJoinSource(Ast!AddRootSource(Ast!EmptyAst, d), 0, d), 0, d)
    BY DEF Init
  <2>2. PICK a, b, c : /\ query.sources = Append(Append(Append(<<>>, a), b), c)
                       /\ query.conditions = <<>> /\ DOMAIN query = DOMAIN Ast!EmptyAst
    BY <2>1 DEF Ast!AddRootSource, Ast!AddJoinSource, Ast!EmptyAst
  <2>3. \A s \in Seq({a, b, c}), e \in {a, b, c} :
          Append(s, e) \in Seq({a, b, c}) /\ Len(Append(s, e)) = Len(s) + 1 /\ Len(s) \in Nat
    BY AppendProperties, LenProperties
  <2>4. <<>> \in Seq({a, b, c}) /\ Len(<<>>) = 0
    OBVIOUS
  <2>5. query.sources \in Seq({a, b, c}) /\ Len(query.sources) = 3
    BY <2>2, <2>3, <2>4
  <2>6. DOMAIN query.sources = 1 .. 3 /\ Len(query.sources) = 3
    BY <2>5, LenProperties
  <2>7. query.conditions \in Seq(LeafNodes \cup GroupNodes) /\ Len(query.conditions) = 0
    BY <2>2
  <2>8. 0 .. 0 - 1 = {}
    OBVIOUS
  <2>. QED  BY <2>2, <2>6, <2>7, <2>8 DEF OnInv, GoodOn
<1>2. OnInv /\ [Next]_vars => OnInv'
  <2>. SUFFICES ASSUME OnInv, [Next]_vars, client' = "C" PROVE OnInv'
    BY DEF OnInv
  <2>1. client = "C" /\ client' = client
    BY ClientStays
  <2>2. CASE UNCHANGED vars
    BY <2>2 DEF vars, OnInv
  <2>3. ASSUME NEW leaf \in OnLeaves, CLeaf(leaf) PROVE OnInv'
    <3>1. Len(query.conditions) \in Nat
      BY <2>1, LenProperties DEF OnInv
    <3>. QED  BY <2>1, <2>3, <3>1, OnLeafMade, OnNodeAdded DEF CLeaf
  <2>4. ASSUME NEW logic \in {"AND", "OR"}, NEW i \in 0 .. NodeBound, NEW j \in 0 .. NodeBound,
               CGroup(logic, <<i, j>>)
        PROVE  OnInv'
    <3>1. i \in Nat /\ j \in Nat
      BY <2>4
    <3>. QED  BY <2>1, <2>4, <3>1, OnGroupMade, OnNodeAdded DEF CGroup
  <2>5. CASE Next
    BY <2>1, <2>3, <2>4, <2>5 DEF Next
  <2>. QED  BY <2>2, <2>5
<1>. QED  BY <1>1, <1>2, PTL DEF Spec

(* The server takes an ON condition exactly if it relates the joined       *)
(* source to an earlier one: the product of the branches of ANDs and ORs   *)
(* says for every tree, and every node used twice, what the row pairs say. *)
THEOREM AcceptedJoinsRelate == Spec => []JoinsRelate
<1>1. OnInv => JoinsRelate
  <2>. SUFFICES ASSUME OnInv, client = "C", query.conditions # <<>>,
                       NEW target \in 1 .. Len(query.sources) - 1
                PROVE  ValidateJoinOnCondition(query, target, LastCondition(query))
                         <=> Relates(query, target, LastCondition(query))
    BY DEF JoinsRelate
  <2>. DEFINE n == Len(query.conditions)
  <2>1. n \in Nat \ {0}
    BY LenProperties, EmptySeq DEF OnInv
  <2>2. /\ DOMAIN query.sources = 1 .. Len(query.sources) /\ Len(query.sources) = 3
        /\ GoodOn(query, n)
    BY DEF OnInv
  <2>3. target \in Nat /\ target < Len(query.sources)
    BY <2>2
  <2>4. LastCondition(query) = n - 1
    BY DEF LastCondition
  <2>. HIDE DEF n
  <2>5. ValidateJoinOnCondition(query, target, n - 1) <=> Relates(query, target, n - 1)
    <3>. DEFINE A == query
    <3>1. DOMAIN A.sources = 1 .. Len(A.sources) /\ Len(A.sources) \in Nat /\ GoodOn(A, n)
          /\ target \in Nat /\ target < Len(A.sources)
      BY <2>2, <2>3
    <3>. HIDE DEF A
    <3>2. ValidateJoinOnCondition(A, target, n - 1) <=> Relates(A, target, n - 1)
      BY <2>1, <3>1, BranchesRelate
    <3>. QED  BY <3>2 DEF A
  <2>. QED  BY <2>4, <2>5
<1>. QED  BY <1>1, OnInvariant, PTL

-----------------------------------------------------------------------------
(* The two judges of an ON condition.                                      *)

(* A source the builder is about to bind, and those bound before.          *)
Widens(more, bound, d, target) ==
  /\ bound \in Seq(Bindings) /\ more \in Seq(Bindings)
  /\ target \in Nat /\ Len(bound) = target /\ Len(more) = target + 1
  /\ \A i \in 1 .. target : more[i] = bound[i]
  /\ \A i \in 1 .. target + 1 : more[i].id = i - 1
  /\ more[target + 1].dataset = d
  /\ ~(FindSource(bound, d) >= 0)

(* A name stands for the new source or for one before it.                  *)
LEMMA NameStands ==
  ASSUME NEW more, NEW bound, NEW d, NEW target, Widens(more, bound, d, target),
         NEW x, FindSource(more, x) >= 0
  PROVE  /\ FindSource(more, x) \in 0 .. target
         /\ FindSource(more, x) = target <=> x = d
         /\ x = d \/ FindSource(bound, x) >= 0
<1>1. /\ bound \in Seq(Bindings) /\ more \in Seq(Bindings) /\ target \in Nat
      /\ DOMAIN bound = 1 .. target /\ DOMAIN more = 1 .. target + 1
  BY LenProperties DEF Widens
<1>2. PICK i \in 1 .. target + 1 : more[i].dataset = x /\ FindSource(more, x) = i - 1
  <2>1. \E i \in DOMAIN more : more[i].dataset = x /\ FindSource(more, x) = more[i].id
    <3>1. more \in Seq(Bindings)
      BY <1>1
    <3>. QED  BY <3>1, FoundSource
  <2>2. PICK i \in DOMAIN more : more[i].dataset = x /\ FindSource(more, x) = more[i].id
    BY <2>1
  <2>. QED  BY <1>1, <2>2 DEF Widens
<1>3. CASE i = target + 1
  BY <1>1, <1>2, <1>3 DEF Widens
<1>4. CASE i \in 1 .. target
  <2>1. i \in DOMAIN bound /\ bound[i].dataset = x
    BY <1>1, <1>2, <1>4 DEF Widens
  <2>2. FindSource(bound, x) >= 0
    BY <1>1, <2>1, FoundSource
  <2>3. x # d
    BY <2>2 DEF Widens
  <2>. QED  BY <1>1, <1>2, <1>4, <2>2, <2>3
<1>. QED  BY <1>1, <1>2, <1>3, <1>4

(* Both judge a leaf alike: by names, and by the ids they are bound to.    *)
LEMMA LeafAgrees ==
  ASSUME NEW more, NEW d, NEW target, Widens(more, builder.sources, d, target),
         NEW A, DOMAIN A.sources = 1 .. target + 1,
         NEW node \in DslLeaves, Resolves(more, node), NEW base, NEW i,
         NEW new, new = QueryNode(more, node, base, i)
  PROVE  new.type # "GROUP" /\ LeafAnchors(A, new, target) = OnLeafAnchors(node, d)
<1>. DEFINE left  == FindSource(more, node.left)
            right == FindSource(more, node.right)
<1>1. target \in Nat
  BY DEF Widens
<1>2. left >= 0 => /\ left \in 0 .. target
                   /\ left = target <=> node.left = d
                   /\ OnFieldResolves(node.left, d)
  BY NameStands DEF OnFieldResolves, IsTarget
<1>3. right >= 0 => /\ right \in 0 .. target
                    /\ right = target <=> node.right = d
                    /\ OnFieldResolves(node.right, d)
  BY NameStands DEF OnFieldResolves, IsTarget
<1>4. CASE \E x \in Datasets : node = Value(x)
  <2>1. node.type = "VALUE" /\ left >= 0
    BY <1>4 DEF Value, Resolves
  <2>2. new.type = "VALUE" /\ new.source = left
    BY <2>1 DEF QueryNode
  <2>3. left \in 0 .. target /\ OnFieldResolves(node.left, d)
    BY <1>2, <2>1
  <2>. HIDE DEF left
  <2>4. LeafAnchors(A, new, target) = <<FALSE>>
    <3>1. FieldAllowed(A, new.source, target)
      BY <1>1, <2>2, <2>3 DEF FieldAllowed
    <3>. QED  BY <2>2, <3>1 DEF LeafAnchors
  <2>5. OnLeafAnchors(node, d) = <<FALSE>>
    BY <2>1, <2>3 DEF OnLeafAnchors, OnAnchored
  <2>. QED  BY <2>2, <2>4, <2>5
<1>5. CASE \E x \in Datasets : node = InRange(x)
  <2>1. node.type = "RANGE"
    BY <1>5 DEF InRange
  <2>2. new.type = "RANGE"
    BY <2>1 DEF QueryNode
  <2>3. LeafAnchors(A, new, target) = <<>>
    BY <2>2 DEF LeafAnchors
  <2>4. OnLeafAnchors(node, d) = <<>>
    BY <2>1 DEF OnLeafAnchors
  <2>. QED  BY <2>2, <2>3, <2>4
<1>6. CASE \E x, y \in Datasets : node = Compare(x, y)
  <2>1. node.type = "FIELD_COMPARE" /\ left >= 0 /\ right >= 0
    BY <1>6 DEF Compare, Resolves
  <2>2. new.type = "FIELD_COMPARE" /\ new.source = left /\ new.right = right
    BY <2>1 DEF QueryNode
  <2>3. /\ left \in 0 .. target /\ right \in 0 .. target
        /\ left = target <=> node.left = d
        /\ right = target <=> node.right = d
        /\ OnFieldResolves(node.left, d) /\ OnFieldResolves(node.right, d)
    BY <1>2, <1>3, <2>1
  <2>. HIDE DEF left, right
  <2>4. LeafAnchors(A, new, target) = <<IsAnchor(new, target)>>
    <3>1. FieldAllowed(A, new.source, target) /\ FieldAllowed(A, new.right, target)
      BY <1>1, <2>2, <2>3 DEF FieldAllowed
    <3>. QED  BY <2>2, <3>1 DEF LeafAnchors
  <2>5. OnLeafAnchors(node, d) = <<OnAnchored(node, d)>>
    BY <2>1, <2>3 DEF OnLeafAnchors
  <2>6. IsAnchor(new, target) = OnAnchored(node, d)
    <3>1. IsAnchor(new, target) \in BOOLEAN /\ OnAnchored(node, d) \in BOOLEAN
      BY DEF IsAnchor, OnAnchored
    <3>2. IsAnchor(new, target) <=> OnAnchored(node, d)
      BY <1>1, <2>1, <2>2, <2>3 DEF IsAnchor, OnAnchored, IsTarget
    <3>. QED  BY <3>1, <3>2
  <2>. QED  BY <2>2, <2>4, <2>5, <2>6
<1>. QED  BY <1>4, <1>5, <1>6 DEF DslLeaves

(* The nodes of c stand in A behind base others, and each judges them.     *)
Copied(A, more, c, base) ==
  \A i \in DOMAIN c : A.conditions[base + i] = QueryNode(more, c[i], base, i)
OnVerdicts(c, d, f) == \A i \in DOMAIN c : f[i] = OnNode(c, d, f, i)

(* The branches of a group of a query.                                     *)
GroupValue(node, kids) ==
  IF Len(node.children) < 2 THEN <<>> ELSE GroupBranches(node.logic, kids)
NodeIs(A, id, node) == A.conditions[id + 1] = node
LEMMA GroupAnchors ==
  ASSUME NEW A, NEW id, NEW node, NodeIs(A, id, node), node.type = "GROUP",
         NEW target, NEW g
  PROVE  AnchorsAt(A, target, g, id) = GroupValue(node, KidsOf(node, g))
BY DEF AnchorsAt, KidsOf, GroupValue, NodeIs

(* They judge a group alike if they judge its children alike.              *)
LEMMA GroupAgrees ==
  ASSUME NEW c, IsCondition(c), NEW i \in DOMAIN c, c[i].type = "GROUP", NEW base \in Nat,
         NEW A, NEW more, A.conditions[base + i] = QueryNode(more, c[i], base, i),
         NEW target, NEW d, NEW f, NEW g,
         \A k \in 1 .. i - 1 : g[base + k - 1] = f[k]
  PROVE  AnchorsAt(A, target, g, base + i - 1) = OnNode(c, d, f, i)
<1>. DEFINE new == QueryNode(more, c[i], base, i)
            kids == c[i].children
            mine == [j \in DOMAIN kids |-> f[kids[j]]]
            its  == KidsOf(new, g)
<1>1. c[i] \in Groups /\ i \in Nat /\ (\A j \in DOMAIN kids : kids[j] \in 1 .. i - 1) /\ Len(kids) = 2
  <2>1. \A k \in DOMAIN c : c[k].type = "GROUP" => Len(c[k].children) = 2
    BY DEF IsCondition
  <2>2. Len(kids) = 2
    BY <2>1
  <2>. HIDE DEF kids
  <2>3. (\A j \in DOMAIN kids : kids[j] \in 1 .. i - 1) /\ c[i] \in Groups
    BY NodeKinds DEF kids
  <2>4. i \in Nat
    BY NodeKinds
  <2>. QED  BY <2>2, <2>3, <2>4
<1>2. /\ new.type = "GROUP" /\ new.logic = c[i].logic
      /\ new.children = [j \in DOMAIN kids |-> base + kids[j] - 1]
  BY DEF QueryNode
<1>3. base + i - 1 + 1 = base + i
  BY <1>1
<1>4. DOMAIN new.children = DOMAIN kids /\ Len(new.children) = 2
  <2>1. DOMAIN kids = 1 .. 2
    BY <1>1 DEF Groups
  <2>. HIDE DEF new, kids
  <2>2. DOMAIN new.children = 1 .. 2 /\ new.children = [j \in 1 .. 2 |-> base + kids[j] - 1]
    BY <1>2, <2>1
  <2>3. Len(new.children) = 2
    BY <2>2
  <2>. QED  BY <2>1, <2>2, <2>3
<1>5. its = mine
  <2>1. \A j \in DOMAIN kids : g[new.children[j]] = f[kids[j]]
    BY <1>1, <1>2
  <2>. HIDE DEF new, kids
  <2>. QED  BY <1>4, <2>1 DEF KidsOf
<1>6. AnchorsAt(A, target, g, base + i - 1) = GroupBranches(c[i].logic, its)
  <2>. HIDE DEF new
  <2>1. NodeIs(A, base + i - 1, new)
    BY <1>3 DEF new, NodeIs
  <2>2. new.type = "GROUP" /\ new.logic = c[i].logic
    BY <1>2
  <2>3. ~(Len(new.children) < 2)
    BY <1>4
  <2>4. AnchorsAt(A, target, g, base + i - 1) = GroupValue(new, its)
    BY <2>1, <2>2, GroupAnchors
  <2>. QED  BY <2>2, <2>3, <2>4 DEF GroupValue
<1>7. OnNode(c, d, f, i) = GroupBranches(c[i].logic, mine)
  BY DEF OnNode
<1>. QED  BY <1>5, <1>6, <1>7

(* They judge every node alike.                                            *)
LEMMA NodesAgree ==
  ASSUME NEW c, IsCondition(c), NEW d, NEW target, NEW more, AllResolve(more, c),
         Widens(more, builder.sources, d, target), NEW base \in Nat,
         NEW A, DOMAIN A.sources = 1 .. target + 1, Copied(A, more, c, base),
         NEW f, OnVerdicts(c, d, f), NEW g, AnchorsAre(A, target, base + Len(c), g),
         NEW i \in DOMAIN c
  PROVE  g[base + i - 1] = f[i]
<1>. DEFINE Bad == {k \in DOMAIN c : g[base + k - 1] # f[k]}
<1>1. Len(c) \in Nat /\ DOMAIN c = 1 .. Len(c)
  BY NodeKinds
<1>2. SUFFICES ASSUME Bad # {} PROVE FALSE
  OBVIOUS
<1>3. PICK k \in Bad : \A j \in Bad : k <= j
  <2>1. Bad \subseteq Nat
    BY <1>1
  <2>. HIDE DEF Bad
  <2>. QED  BY <1>2, <2>1, LeastNatural
<1>4. k \in DOMAIN c /\ k \in 1 .. Len(c) /\ g[base + k - 1] # f[k]
      /\ \A j \in 1 .. k - 1 : g[base + j - 1] = f[j]
  <2>1. k \in DOMAIN c /\ k \in 1 .. Len(c) /\ g[base + k - 1] # f[k]
    BY <1>1
  <2>2. ASSUME NEW j \in 1 .. k - 1 PROVE g[base + j - 1] = f[j]
    <3>1. j \in DOMAIN c /\ ~(k <= j)
      BY <1>1, <2>1
    <3>2. j \notin Bad
      BY <1>3, <3>1
    <3>. QED  BY <3>1, <3>2
  <2>. QED  BY <2>1, <2>2
<1>. HIDE DEF Bad
<1>5. A.conditions[base + k] = QueryNode(more, c[k], base, k) /\ Resolves(more, c[k])
      /\ f[k] = OnNode(c, d, f, k)
  BY <1>4 DEF Copied, AllResolve, OnVerdicts
<1>6. base + k - 1 \in 0 .. base + Len(c) - 1 /\ base + k - 1 + 1 = base + k
  BY <1>1, <1>4
<1>7. g[base + k - 1] = AnchorsAt(A, target, g, base + k - 1)
  BY <1>6 DEF AnchorsAre
<1>8. CASE c[k].type = "GROUP"
  <2>1. AnchorsAt(A, target, g, base + k - 1) = OnNode(c, d, f, k)
    <3>1. \A j \in 1 .. k - 1 : g[base + j - 1] = f[j]
      BY <1>4
    <3>2. A.conditions[base + k] = QueryNode(more, c[k], base, k)
      BY <1>5
    <3>3. k \in DOMAIN c /\ IsCondition(c) /\ c[k].type = "GROUP" /\ base \in Nat
      BY <1>4, <1>8
    <3>. QED  BY <3>1, <3>2, <3>3, GroupAgrees, SMTT(30)
  <2>. QED  BY <1>4, <1>5, <1>7, <2>1
<1>9. CASE c[k].type # "GROUP"
  <2>. DEFINE new == QueryNode(more, c[k], base, k)
  <2>1. c[k] \in DslLeaves
    BY <1>4, <1>9, NodeKinds DEF DslLeaves
  <2>2. new.type # "GROUP" /\ LeafAnchors(A, new, target) = OnLeafAnchors(c[k], d)
    BY <1>5, <2>1, LeafAgrees
  <2>3. A.conditions[base + k] = new
    BY <1>5
  <2>. HIDE DEF new
  <2>4. AnchorsAt(A, target, g, base + k - 1) = LeafAnchors(A, new, target)
    BY <1>6, <2>2, <2>3 DEF AnchorsAt
  <2>. QED  BY <1>4, <1>5, <1>7, <1>9, <2>2, <2>4 DEF OnNode
<1>. QED  BY <1>8, <1>9

(* A condition without an anchor has an open branch, if it has branches:   *)
(* on need not look for anchors beside its branches.                       *)
LEMMA OpenWithoutAnchor ==
  ASSUME NEW c, IsCondition(c), NEW d, OnAnchors(c, d) = {},
         NEW f, OnVerdicts(c, d, f), NEW i \in DOMAIN c
  PROVE  f[i] = <<>> \/ (f[i] \in Branchings /\ Open(f[i]))
<1>. DEFINE Fine(k) == f[k] = <<>> \/ (f[k] \in Branchings /\ Open(f[k]))
            Bad == {k \in DOMAIN c : ~Fine(k)}
<1>1. Len(c) \in Nat /\ DOMAIN c = 1 .. Len(c)
  BY NodeKinds
<1>2. SUFFICES ASSUME Bad # {} PROVE FALSE
  OBVIOUS
<1>3. PICK k \in Bad : \A j \in Bad : k <= j
  <2>1. Bad \subseteq Nat
    BY <1>1
  <2>. HIDE DEF Bad
  <2>. QED  BY <1>2, <2>1, LeastNatural
<1>4. k \in DOMAIN c /\ k \in Nat /\ ~Fine(k) /\ \A j \in 1 .. k - 1 : Fine(j)
  BY <1>1, <1>3
<1>. HIDE DEF Bad
<1>5. f[k] = OnNode(c, d, f, k)
  BY <1>4 DEF OnVerdicts
<1>6. CASE c[k].type # "GROUP"
  <2>1. ~OnAnchored(c[k], d)
    BY <1>4 DEF OnAnchors
  <2>2. OnAnchored(c[k], d) = FALSE
    BY <2>1 DEF OnAnchored
  <2>3. f[k] = <<>> \/ f[k] = <<FALSE>>
    BY <1>5, <1>6, <2>2 DEF OnNode, OnLeafAnchors
  <2>4. <<FALSE>> \in Branchings /\ Open(<<FALSE>>)
    <3>1. <<FALSE>> \in Seq(BOOLEAN) /\ <<FALSE>> # <<>> /\ 1 \in DOMAIN <<FALSE>> /\ ~(<<FALSE>>[1])
      OBVIOUS
    <3>. QED  BY <3>1 DEF Branchings, Open
  <2>. QED  BY <1>4, <2>3, <2>4
<1>7. CASE c[k].type = "GROUP"
  <2>. DEFINE kids  == c[k].children
              child == [j \in DOMAIN kids |-> f[kids[j]]]
  <2>1. DOMAIN kids = 1 .. 2 /\ \A j \in DOMAIN kids : kids[j] \in 1 .. k - 1
    BY <1>4, <1>7, NodeKinds DEF IsCondition, Groups
  <2>. HIDE DEF kids
  <2>2. DOMAIN child = 1 .. 2 /\ Len(child) = 2
    BY <2>1
  <2>3. \A j \in 1 .. 2 : child[j] = <<>> \/ (child[j] \in Branchings /\ Open(child[j]))
    BY <1>4, <2>1
  <2>4. f[k] = GroupBranches(c[k].logic, child)
    BY <1>5, <1>7 DEF OnNode, kids
  <2>. HIDE DEF child
  <2>5. Grouped(c[k].logic, child, 2, f[k])
    <3>1. 2 \in Nat \ {0} /\ \A j \in 1 .. 2 : child[j] \in Branchings \cup {<<>>}
      BY <2>3
    <3>. QED  BY <2>2, <2>4, <3>1, GroupOpen
  <2>. QED  BY <1>4, <2>3, <2>5 DEF Grouped
<1>. QED  BY <1>6, <1>7

(* The nodes of a good query stand before their parents.                   *)
LEMMA NodesOrdered ==
  ASSUME NEW A, GoodQuery(A), NEW n \in 0 .. Len(A.conditions)
  PROVE  Ordered(A, n)
<1>1. Len(A.conditions) \in Nat /\ DOMAIN A.conditions = 1 .. Len(A.conditions)
  BY QueryFields DEF GoodQuery
<1>2. SUFFICES ASSUME NEW id \in 0 .. n - 1, A.conditions[id + 1].type = "GROUP",
                      NEW j \in DOMAIN A.conditions[id + 1].children
               PROVE  A.conditions[id + 1].children[j] \in 0 .. id - 1
  BY DEF Ordered
<1>3. id + 1 \in DOMAIN A.conditions /\ id + 1 - 2 = id - 1
  BY <1>1
<1>4. A.conditions[id + 1].children[j] \in 0 .. id + 1 - 2
  BY <1>2, <1>3 DEF GoodQuery, GoodNodes
<1>. QED  BY <1>3, <1>4

(* The verdicts of on.                                                     *)
LEMMA OnComputed ==
  ASSUME NEW c, IsCondition(c), NEW d
  PROVE  \E f : BuildOnBranchAnchors(c, d) = f[Len(c)] /\ OnVerdicts(c, d, f)
<1>1. Len(c) \in Nat /\ DOMAIN c = 1 .. Len(c) /\ Len(c) \in DOMAIN c
  <2>1. c \in Seq(DslLeaves \cup Groups) /\ c # <<>>
    BY DEF IsCondition
  <2>2. Len(c) # 0
    BY <2>1, EmptySeq
  <2>. QED  BY <2>1, <2>2, LenProperties
<1>2. Founded(c, Len(c))
  <2>1. \A i \in DOMAIN c : c[i].type = "GROUP" =>
          \A j \in DOMAIN c[i].children : c[i].children[j] \in 1 .. i - 1
    BY NodeKinds
  <2>. QED  BY <1>1, <2>1 DEF Founded
<1>. DEFINE Anchored(f) == f = [i \in DOMAIN c |-> OnNode(c, d, f, i)]
            f == CHOOSE f : Anchored(f)
<1>3. BuildOnBranchAnchors(c, d) = f[Len(c)]
  BY DEF BuildOnBranchAnchors, OnNode
<1>4. \E g : Anchored(g)
  <2>1. PICK g : OnUnfolds(c, d, g, Len(c))
    BY <1>1, <1>2, OnTreesExist
  <2>2. Anchored(g)
    BY <1>1, <2>1 DEF OnUnfolds
  <2>. QED  BY <2>2
<1>5. Anchored(f)
  BY <1>4
<1>. HIDE DEF f
<1>6. OnVerdicts(c, d, f)
  <2>1. \A i \in DOMAIN c : f[i] = OnNode(c, d, f, i)
    BY <1>5
  <2>. QED  BY <2>1 DEF OnVerdicts
<1>. QED  BY <1>3, <1>6

(* The builder's next binding widens what it has bound.                    *)
LEMMA BindingWidens ==
  ASSUME NEW A, GoodQuery(A), NEW bound, Binds(bound, A), NEW d \in Datasets,
         ~(FindSource(bound, d) >= 0),
         NEW more, more = Append(bound, [dataset |-> d, id |-> Len(A.sources)])
  PROVE  Widens(more, bound, d, Len(A.sources))
<1>. DEFINE target == Len(A.sources)
            new    == [dataset |-> d, id |-> target]
<1>1. target \in Nat /\ bound \in Seq(Bindings) /\ Len(bound) = target
      /\ DOMAIN bound = 1 .. target /\ \A i \in DOMAIN bound : bound[i].id = i - 1
  BY QueryFields, LenProperties DEF GoodQuery, Binds
<1>2. new \in Bindings /\ new.id = target /\ new.dataset = d
  BY <1>1 DEF Bindings
<1>3. more = Append(bound, new)
  OBVIOUS
<1>. HIDE DEF new, target
<1>4. more \in Seq(Bindings) /\ Len(more) = target + 1 /\ more[target + 1] = new
      /\ \A i \in 1 .. target : more[i] = bound[i]
  BY <1>1, <1>2, <1>3, AppendProperties
<1>5. \A i \in 1 .. target + 1 : more[i].id = i - 1
  <2>1. \A i \in 1 .. target : more[i].id = i - 1
    BY <1>1, <1>4
  <2>2. more[target + 1].id = target + 1 - 1
    BY <1>1, <1>2, <1>4
  <2>. QED  BY <1>1, <2>1, <2>2
<1>6. Widens(more, bound, d, target)
  BY <1>1, <1>2, <1>4, <1>5 DEF Widens
<1>. QED  BY <1>6 DEF target

(* Every branch is anchored: none is open.                                 *)
LEMMA AllAnchored ==
  ASSUME NEW branches
  PROVE  (\A i \in DOMAIN branches : branches[i]) <=> ~Open(branches)
BY DEF Open

(* A condition that both would take for one source: on takes it exactly if *)
(* the server does.                                                        *)
LEMMA JudgesAgree ==
  ASSUME GoodQuery(query), Binds(builder.sources, query), query.sources # <<>>,
         NEW parent \in Int, NEW d \in Datasets, ~(FindSource(builder.sources, d) >= 0),
         NEW c, IsCondition(c),
         NEW more, more = Append(builder.sources, [dataset |-> d, id |-> Len(query.sources)]),
         AllResolve(more, c),
         NEW A, A = Ast!AddJoinSource(query, parent, d),
         NEW B, B = ConditionAdded(A, more, c)
  PROVE  TakesOn(c, d) <=> ValidateJoinOnCondition(B, Len(query.sources), LastCondition(B))
<1>. DEFINE target == Len(query.sources)
            base   == Len(A.conditions)
            n      == base + Len(c)
<1>1. Len(c) \in Nat /\ DOMAIN c = 1 .. Len(c) /\ Len(c) \in DOMAIN c
  <2>1. c \in Seq(DslLeaves \cup Groups) /\ c # <<>>
    BY DEF IsCondition
  <2>2. Len(c) # 0
    BY <2>1, EmptySeq
  <2>. QED  BY <2>1, <2>2, LenProperties
<1>2. SourceAdded(query, d, A, more)
  BY JoinAdded
<1>3. GoodQuery(A) /\ Binds(more, A) /\ Len(A.sources) = target + 1 /\ target \in Nat
      /\ DOMAIN A.sources = 1 .. target + 1 /\ base \in Nat
  <2>1. GoodQuery(A) /\ Binds(more, A) /\ Len(A.sources) = target + 1
    BY <1>2 DEF SourceAdded
  <2>. QED  BY <2>1, QueryFields DEF GoodQuery
<1>4. Widens(more, builder.sources, d, target)
  BY BindingWidens
<1>5. Conditioned(A, more, c, B)
  BY <1>3, AddedCondition
<1>6. /\ Len(B.conditions) = n
      /\ \A i \in DOMAIN c : B.conditions[base + i] = QueryNode(more, c[i], base, i)
      /\ OnlyConditions(A, B)
  <2>1. \A i \in DOMAIN c : Resolves(more, c[i])
    BY DEF AllResolve
  <2>2. OnlyConditions(A, B)
    BY <1>5 DEF Conditioned
  <2>. QED  BY <1>3, <2>1, <2>2, ManyNodes
<1>7. GoodQuery(B) /\ B.sources = A.sources /\ Copied(B, more, c, base)
  BY <1>3, <1>5, <1>6 DEF Conditioned, OnlyConditions, Copied, GoodQuery, Queries
<1>. HIDE DEF target
<1>8. n \in Nat \ {0} /\ Ordered(B, n) /\ LastCondition(B) = n - 1
  <2>1. n \in Nat \ {0} /\ n = Len(B.conditions)
    BY <1>1, <1>3, <1>6
  <2>. HIDE DEF n
  <2>. QED  BY <1>7, <2>1, NodesOrdered DEF LastCondition
<1>9. PICK g : BranchAnchors(B, target, n - 1) = g[n - 1] /\ AnchorsAre(B, target, n, g)
  BY <1>8, AnchorsComputed
<1>10. PICK f : BuildOnBranchAnchors(c, d) = f[Len(c)] /\ OnVerdicts(c, d, f)
  BY OnComputed
<1>11. g[n - 1] = f[Len(c)]
  <2>1. AnchorsAre(B, target, base + Len(c), g)
    BY <1>9
  <2>2. DOMAIN B.sources = 1 .. target + 1
    BY <1>3, <1>7
  <2>3. Copied(B, more, c, base) /\ base \in Nat
    BY <1>3, <1>7
  <2>. HIDE DEF base
  <2>4. g[base + Len(c) - 1] = f[Len(c)]
    <3>1. OnVerdicts(c, d, f)
      BY <1>10
    <3>2. Len(c) \in DOMAIN c
      BY <1>1
    <3>. HIDE DEF n
    <3>. QED  BY <1>4, <2>1, <2>2, <2>3, <3>1, <3>2, NodesAgree
  <2>5. n - 1 = base + Len(c) - 1
    BY <1>1, <2>3
  <2>. HIDE DEF n
  <2>. QED  BY <2>4, <2>5
<1>. DEFINE branches == f[Len(c)]
<1>. HIDE DEF base, n
<1>12. OnAnchors(c, d) = {} => branches = <<>> \/ Open(branches)
  BY <1>1, <1>10, OpenWithoutAnchor
<1>. HIDE DEF branches
<1>13. TakesOn(c, d) <=> branches # <<>> /\ ~Open(branches)
  BY <1>10, <1>12, AllAnchored DEF TakesOn, branches
<1>14. ValidateJoinOnCondition(B, target, LastCondition(B)) <=> branches # <<>> /\ ~Open(branches)
  BY <1>8, <1>9, <1>11, AllAnchored DEF ValidateJoinOnCondition, branches
<1>. QED  BY <1>13, <1>14 DEF target

-----------------------------------------------------------------------------
(* The joins of a statement are those the server takes.                    *)

(* A leaf is judged by its node and the target alone.                      *)
NamesUpTo(A, target) ==
  target \in Nat /\ \E n \in Nat : DOMAIN A.sources = 1 .. n /\ target < n
LEMMA LeafKept ==
  ASSUME NEW A, NEW B, NEW target, NamesUpTo(A, target), NamesUpTo(B, target), NEW c \in LeafNodes
  PROVE  LeafAnchors(A, c, target) = LeafAnchors(B, c, target)
<1>1. c.source \in Nat /\ c.right \in Nat \cup {-1}
      /\ c.type \in {"VALUE", "FIELD_COMPARE", "RANGE"}
  BY DEF LeafNodes
<1>2. FieldAllowed(A, c.source, target) <=> FieldAllowed(B, c.source, target)
  BY <1>1 DEF FieldAllowed, NamesUpTo
<1>3. c.type = "FIELD_COMPARE" =>
        (FieldAllowed(A, c.right, target) <=> FieldAllowed(B, c.right, target))
  BY <1>1 DEF FieldAllowed, NamesUpTo
<1>. QED  BY <1>1, <1>2, <1>3 DEF LeafAnchors

(* So is a group, by its children.                                         *)
LEMMA GroupKept ==
  ASSUME NEW A, NEW B, NEW id, NEW c, NodeIs(A, id, c), NodeIs(B, id, c),
         c.type = "GROUP", NEW f, NEW g, KidsOf(c, g) = KidsOf(c, f), NEW target
  PROVE  AnchorsAt(A, target, f, id) = AnchorsAt(B, target, g, id)
<1>1. AnchorsAt(A, target, f, id) = GroupValue(c, KidsOf(c, f))
  BY GroupAnchors
<1>2. AnchorsAt(B, target, g, id) = GroupValue(c, KidsOf(c, g))
  BY GroupAnchors
<1>. QED  BY <1>1, <1>2

(* The branches of a condition do not change when a query grows.           *)
LEMMA AnchorsKept ==
  ASSUME NEW A, NEW B, GoodQuery(A), GoodQuery(B), Extends(A, B),
         NEW target \in 0 .. Len(A.sources) - 1, NEW root \in 0 .. Len(A.conditions) - 1
  PROVE  BranchAnchors(B, target, root) = BranchAnchors(A, target, root)
<1>. DEFINE n == root + 1
<1>1. /\ Len(A.conditions) \in Nat /\ Len(B.conditions) \in Nat
      /\ DOMAIN A.conditions = 1 .. Len(A.conditions)
      /\ DOMAIN B.conditions = 1 .. Len(B.conditions)
      /\ \A i \in DOMAIN A.conditions : A.conditions[i] \in LeafNodes \cup GroupNodes
  BY QueryFields DEF GoodQuery
<1>2. /\ Len(A.sources) \in Nat /\ Len(B.sources) \in Nat
      /\ DOMAIN A.sources = 1 .. Len(A.sources) /\ DOMAIN B.sources = 1 .. Len(B.sources)
  BY QueryFields DEF GoodQuery
<1>3. target \in Nat /\ target < Len(A.sources) /\ target < Len(B.sources)
  <2>1. target + 1 \in DOMAIN A.sources /\ target \in Nat
    BY <1>2
  <2>2. target + 1 \in DOMAIN B.sources
    BY <2>1 DEF Extends
  <2>. QED  BY <1>2, <2>1, <2>2
<1>4. n \in Nat \ {0} /\ n \in 0 .. Len(A.conditions) /\ n \in 0 .. Len(B.conditions)
      /\ n - 1 = root
  <2>1. n \in DOMAIN A.conditions /\ root \in Nat
    BY <1>1
  <2>2. n \in DOMAIN B.conditions
    BY <2>1 DEF Extends
  <2>. QED  BY <1>1, <2>1, <2>2
<1>. HIDE DEF n
<1>5. Ordered(A, n) /\ Ordered(B, n)
  BY <1>4, NodesOrdered
<1>6. PICK f : BranchAnchors(A, target, n - 1) = f[n - 1] /\ AnchorsAre(A, target, n, f)
  BY <1>4, <1>5, AnchorsComputed
<1>7. PICK g : BranchAnchors(B, target, n - 1) = g[n - 1] /\ AnchorsAre(B, target, n, g)
  BY <1>4, <1>5, AnchorsComputed
<1>. DEFINE Bad == {id \in 0 .. n - 1 : g[id] # f[id]}
<1>8. ASSUME Bad # {} PROVE FALSE
  <2>1. PICK k \in Bad : \A j \in Bad : k <= j
    <3>1. Bad \subseteq Nat
      BY <1>4
    <3>. HIDE DEF Bad
    <3>. QED  BY <1>8, <3>1, LeastNatural
  <2>2. k \in 0 .. n - 1 /\ g[k] # f[k] /\ \A j \in 0 .. k - 1 : g[j] = f[j]
    BY <1>4, <2>1
  <2>. HIDE DEF Bad
  <2>3. k + 1 \in DOMAIN A.conditions
    BY <1>1, <1>4, <2>2
  <2>4. B.conditions[k + 1] = A.conditions[k + 1]
    BY <2>3 DEF Extends
  <2>5. f[k] = AnchorsAt(A, target, f, k) /\ g[k] = AnchorsAt(B, target, g, k)
    BY <1>6, <1>7, <2>2 DEF AnchorsAre
  <2>. DEFINE c == A.conditions[k + 1]
  <2>6. c \in LeafNodes \cup GroupNodes
    BY <1>1, <2>3
  <2>7. CASE c.type = "GROUP"
    <3>1. \A j \in DOMAIN c.children : c.children[j] \in 0 .. k - 1
      BY <1>5, <2>2, <2>7 DEF Ordered
    <3>2. \A j \in DOMAIN c.children : g[c.children[j]] = f[c.children[j]]
      BY <2>2, <3>1
    <3>3. KidsOf(c, g) = KidsOf(c, f)
      BY <3>2 DEF KidsOf
    <3>. HIDE DEF c
    <3>4. A.conditions[k + 1] = c /\ B.conditions[k + 1] = c
      BY <2>4 DEF c
    <3>5. NodeIs(A, k, c) /\ NodeIs(B, k, c) /\ c.type = "GROUP"
      BY <2>7, <3>4 DEF NodeIs
    <3>6. AnchorsAt(A, target, f, k) = AnchorsAt(B, target, g, k)
      BY <3>3, <3>5, GroupKept
    <3>. QED  BY <2>2, <2>5, <3>6
  <2>8. CASE c.type # "GROUP"
    <3>1. c \in LeafNodes
      BY <2>6, <2>8 DEF GroupNodes
    <3>2. A.conditions[k + 1] = c /\ B.conditions[k + 1] = c
      BY <2>4
    <3>. HIDE DEF c
    <3>3. LeafAnchors(A, c, target) = LeafAnchors(B, c, target)
      <4>1. NamesUpTo(A, target) /\ NamesUpTo(B, target)
        BY <1>2, <1>3 DEF NamesUpTo
      <4>. QED  BY <3>1, <4>1, LeafKept
    <3>. QED  BY <2>2, <2>5, <2>8, <3>2, <3>3 DEF AnchorsAt
  <2>. QED  BY <2>7, <2>8
<1>9. g[n - 1] = f[n - 1]
  <2>1. n - 1 \in 0 .. n - 1
    BY <1>4
  <2>. QED  BY <1>8, <2>1
<1>. QED  BY <1>4, <1>6, <1>7, <1>9

(* The rule for one source.                                                *)
JoinAccepted(A, i) ==
  A.sources[i].type = "JOIN" =>
    /\ A.sources[i].parent \in 0 .. A.sources[i].id - 1
    /\ A.sources[i].on + 1 \in DOMAIN A.conditions
    /\ ValidateJoinOnCondition(A, A.sources[i].id, A.sources[i].on)

(* Joins that were taken are still taken when a query grows.               *)
LEMMA JoinsKept ==
  ASSUME NEW A, NEW B, GoodQuery(A), GoodQuery(B), Extends(A, B), JoinsAccepted(A),
         \A i \in DOMAIN A.sources : B.sources[i] = A.sources[i],
         \A i \in DOMAIN B.sources \ DOMAIN A.sources : JoinAccepted(B, i)
  PROVE  JoinsAccepted(B)
<1>1. /\ Len(A.conditions) \in Nat /\ DOMAIN A.conditions = 1 .. Len(A.conditions)
      /\ Len(A.sources) \in Nat /\ DOMAIN A.sources = 1 .. Len(A.sources)
      /\ \A i \in DOMAIN A.sources : A.sources[i] \in Sources
  BY QueryFields DEF GoodQuery
<1>2. ASSUME NEW i \in DOMAIN A.sources, A.sources[i].type = "JOIN" PROVE JoinAccepted(B, i)
  <2>. DEFINE s == A.sources[i]
  <2>1. /\ s.parent \in 0 .. s.id - 1 /\ s.on + 1 \in DOMAIN A.conditions
        /\ ValidateJoinOnCondition(A, s.id, s.on)
    BY <1>2 DEF JoinsAccepted
  <2>2. s.id \in 0 .. Len(A.sources) - 1
    <3>1. s.id = i - 1
      BY DEF GoodQuery, GoodSources
    <3>. QED  BY <1>1, <3>1
  <2>3. s.on \in 0 .. Len(A.conditions) - 1
    <3>1. s.on \in Int
      BY <1>1 DEF Sources
    <3>. QED  BY <1>1, <2>1, <3>1
  <2>4. s.on + 1 \in DOMAIN B.conditions
    BY <2>1 DEF Extends
  <2>5. B.sources[i] = s
    OBVIOUS
  <2>. HIDE DEF s
  <2>6. BranchAnchors(B, s.id, s.on) = BranchAnchors(A, s.id, s.on)
    BY <2>2, <2>3, AnchorsKept
  <2>. QED  BY <2>1, <2>4, <2>5, <2>6 DEF JoinAccepted, ValidateJoinOnCondition
<1>3. \A i \in DOMAIN A.sources : JoinAccepted(B, i)
  BY <1>2 DEF JoinAccepted
<1>4. \A i \in DOMAIN B.sources : JoinAccepted(B, i)
  BY <1>3
<1>. QED  BY <1>4 DEF JoinsAccepted, JoinAccepted

(* The parent that on computes is a source bound before.                   *)
LEMMA ParentBefore ==
  ASSUME NEW d, NEW more, NEW target, Widens(more, builder.sources, d, target),
         NEW c, IsCondition(c), AllResolve(more, c), TakesOn(c, d)
  PROVE  OnParent(c, d) \in 0 .. target - 1
<1>. DEFINE found == OnAnchors(c, d)
<1>1. found # {} /\ found \subseteq DOMAIN c /\ DOMAIN c \subseteq Nat
  <2>1. DOMAIN c \subseteq Nat
    BY NodeKinds
  <2>. QED  BY <2>1 DEF TakesOn, OnAnchors
<1>2. Min(found) \in found
  <2>. HIDE DEF found
  <2>. QED  BY <1>1, MinNatural
<1>. DEFINE anchor == c[Min(found)]
            x      == IF IsTarget(anchor.left, d) THEN anchor.right ELSE anchor.left
<1>3. OnAnchored(anchor, d) /\ Resolves(more, anchor)
  BY <1>2 DEF OnAnchors, AllResolve
<1>4. OnParent(c, d) = FindSource(builder.sources, x)
  BY DEF OnParent
<1>. HIDE DEF found, anchor
<1>5. x # d /\ FindSource(more, x) >= 0
  BY <1>3 DEF OnAnchored, Resolves, IsTarget
<1>. HIDE DEF x
<1>6. FindSource(builder.sources, x) >= 0
  BY <1>5, NameStands
<1>7. builder.sources \in Seq(Bindings) /\ more \in Seq(Bindings) /\ target \in Nat
      /\ DOMAIN builder.sources = 1 .. target
  BY LenProperties DEF Widens
<1>8. PICK i \in DOMAIN builder.sources : FindSource(builder.sources, x) = builder.sources[i].id
  BY <1>6, <1>7, FoundSource
<1>9. builder.sources[i].id = i - 1
  BY <1>7, <1>8 DEF Widens
<1>. QED  BY <1>4, <1>7, <1>8, <1>9

(* The joins of the query, and of the statement that left.                 *)
JoinsInv ==
  /\ client # "C" /\ ~builder.failed => JoinsAccepted(query)
  /\ sent # NothingSent => JoinsAccepted(sent.query)

(* A query without joins.                                                  *)
LEMMA NoJoins ==
  ASSUME NEW A, \A i \in DOMAIN A.sources : A.sources[i].type = "ROOT"
  PROVE  JoinsAccepted(A)
BY DEF JoinsAccepted

(* A call that ends in the builder.                                        *)
LEMMA JoinsDone ==
  ASSUME NEW A, NEW b, NEW a, Done(A, b, a), client' = client, ~b.failed => JoinsAccepted(A)
  PROVE  JoinsInv'
BY DEF Done, JoinsInv

(* A call that fails.                                                      *)
LEMMA JoinsFailed ==
  ASSUME NEW A, NEW b \in Builders, FailedWith(A, b), client' = client
  PROVE  JoinsInv'
<1>. DEFINE c == [b EXCEPT !.failed = TRUE]
            a == [asked EXCEPT !.failed = TRUE]
<1>1. c.failed = TRUE
  BY DEF Builders
<1>2. Done(A, c, a)
  BY DEF FailedWith
<1>. HIDE DEF a, c
<1>. QED  BY <1>1, <1>2, JoinsDone

(* A query with the sources and conditions it had.                         *)
LEMMA JoinsSame ==
  ASSUME NEW A, GoodQuery(A), NEW B, GoodQuery(B), JoinsAccepted(A),
         B.sources = A.sources, Extends(A, B)
  PROVE  JoinsAccepted(B)
<1>1. \A i \in DOMAIN B.sources \ DOMAIN A.sources : JoinAccepted(B, i)
  OBVIOUS
<1>2. \A i \in DOMAIN A.sources : B.sources[i] = A.sources[i]
  OBVIOUS
<1>. QED  BY <1>1, <1>2, JoinsKept

(* A call that leaves the sources and the conditions alone.                *)
LEMMA JoinsStay ==
  ASSUME IInv, IInv', JoinsInv, client # "C", client' = client, sent' = NothingSent,
         ~builder'.failed => /\ ~builder.failed
                             /\ query'.sources = query.sources
                             /\ query'.conditions = query.conditions
  PROVE  JoinsInv'
<1>1. ASSUME ~builder'.failed PROVE JoinsAccepted(query')
  <2>1. JoinsAccepted(query) /\ GoodQuery(query)
    BY <1>1, Facts DEF JoinsInv
  <2>2. GoodQuery(query')
    BY <1>1 DEF IInv, BuilderInv, Holds
  <2>3. Extends(query, query')
    BY <1>1 DEF Extends
  <2>. QED  BY <1>1, <2>1, <2>2, <2>3, JoinsSame
<1>. QED  BY <1>1 DEF JoinsInv

(* A request: the statement that leaves is the query's.                    *)
LEMMA JoinsHandedOver ==
  ASSUME NEW A, JoinsAccepted(A), NEW b \in Builders, HandOver(A, b), client' = client
  PROVE  JoinsInv'
<1>1. CASE FailedWith(A, b)
  BY <1>1, JoinsFailed
<1>2. CASE ~FailedWith(A, b)
  <2>1. query' = A
    BY <1>2 DEF HandOver
  <2>2. PICK ran : sent' = [query |-> A, asked |-> asked, ran |-> ran]
    BY <1>2 DEF HandOver
  <2>3. sent'.query = A
    BY <2>2
  <2>. QED  BY <2>1, <2>3 DEF JoinsInv
<1>. QED  BY <1>1, <1>2

(* The new source and its condition are taken.                             *)
LEMMA NewJoinTaken ==
  ASSUME IInv, JoinsInv, client = "SELECT", ~builder.failed, NEW d \in Datasets, NEW c \in Ons,
         builder.sources # <<>>, ~(FindSource(builder.sources, d) >= 0), TakesOn(c, d),
         NEW more, more = Append(builder.sources, [dataset |-> d, id |-> Len(query.sources)]),
         NEW A, A = Ast!AddJoinSource(query, OnParent(c, d), d),
         NEW B, B = ConditionAdded(A, more, c),
         NEW C, C = Ast!SetJoinOnRoot(B, Len(query.sources), LastCondition(B))
  PROVE  JoinsAccepted(C)
<1>. DEFINE target == Len(query.sources)
            parent == OnParent(c, d)
            last   == LastCondition(B)
<1>1. GoodQuery(query) /\ Binds(builder.sources, query) /\ JoinsAccepted(query)
  BY Facts DEF JoinsInv
<1>2. IsCondition(c)
  BY DslAssumption
<1>3. target \in Nat /\ DOMAIN query.sources = 1 .. target /\ query.sources # <<>>
      /\ builder.sources \in Seq(Bindings)
  <2>1. query.sources # <<>>
    BY <1>1, EmptySeq DEF Binds
  <2>. QED  BY <1>1, <2>1, QueryFields DEF GoodQuery, Binds
<1>4. AllResolve(more, c)
  <2>. HIDE DEF target
  <2>. QED  BY <1>2, <1>3, TakenBinds DEF target
<1>5. Widens(more, builder.sources, d, target)
  BY <1>1, BindingWidens
<1>. HIDE DEF target
<1>6. parent \in 0 .. target - 1
  BY <1>2, <1>4, <1>5, ParentBefore
<1>7. parent \in Int /\ A = Ast!AddJoinSource(query, parent, d)
  BY <1>3, <1>6
<1>. HIDE DEF parent
<1>8. SourceAdded(query, d, A, more)
  BY <1>1, <1>3, <1>7, JoinAdded
<1>9. A.sources[target + 1].type = "JOIN" /\ A.sources[target + 1].parent = parent
  <2>. DEFINE new == [id |-> target, type |-> "JOIN", parent |-> parent, dataset |-> d, on |-> -1]
  <2>1. A.sources = Append(query.sources, new)
    <3>1. query \in Queries
      BY <1>1 DEF GoodQuery
    <3>. QED  BY <1>7, <3>1 DEF Ast!AddJoinSource, Queries, target
  <2>2. new.type = "JOIN" /\ new.parent = parent
    OBVIOUS
  <2>. HIDE DEF new
  <2>3. A.sources[target + 1] = new
    <3>1. query.sources \in Seq(Sources)
      BY <1>1 DEF GoodQuery, Queries
    <3>. QED  BY <2>1, <3>1, AppendProperties DEF target
  <2>. QED  BY <2>2, <2>3
<1>10. /\ GoodQuery(A) /\ Extends(query, A) /\ Binds(more, A)
       /\ Len(A.sources) = target + 1
       /\ \A i \in DOMAIN query.sources : A.sources[i] = query.sources[i]
       /\ A.sources[target + 1].id = target
  BY <1>8 DEF SourceAdded, target
<1>11. Conditioned(A, more, c, B)
  BY <1>2, <1>4, <1>10, AddedCondition
<1>12. /\ GoodQuery(B) /\ Extends(A, B) /\ Binds(more, B) /\ B.sources = A.sources
       /\ last \in 0 .. Len(B.conditions) - 1
  BY <1>10, <1>11 DEF Conditioned, OnlyConditions, Stands, GoodQuery, Queries
<1>13. ValidateJoinOnCondition(B, target, last)
  <2>. HIDE DEF last
  <2>. QED  BY <1>1, <1>2, <1>3, <1>4, <1>7, JudgesAgree DEF target, last
<1>14. OnSet(B, more, target, last, C)
  <2>1. last \in Int
    BY <1>12, QueryFields DEF GoodQuery
  <2>2. C = Ast!SetJoinOnRoot(B, target, last)
    BY DEF target
  <2>. HIDE DEF last
  <2>. QED  BY <1>12, <2>1, <2>2, JoinCondition
<1>15. GoodQuery(C) /\ Extends(B, C) /\ Extends(query, C)
  BY <1>10, <1>12, <1>14, ExtendsFurther DEF OnSet
<1>16. C.conditions = B.conditions /\ C.sources = [i \in DOMAIN B.sources |->
         IF B.sources[i].id = target THEN [B.sources[i] EXCEPT !.on = last] ELSE B.sources[i]]
  <2>1. B \in Queries
    BY <1>12 DEF GoodQuery
  <2>. QED  BY <2>1 DEF Ast!SetJoinOnRoot, Queries, target
<1>. HIDE DEF last
<1>17. \A i \in DOMAIN query.sources : C.sources[i] = query.sources[i]
  <2>1. SUFFICES ASSUME NEW i \in 1 .. target PROVE C.sources[i] = query.sources[i]
    BY <1>3
  <2>2. query.sources[i].id = i - 1 /\ B.sources[i] = query.sources[i] /\ i \in DOMAIN B.sources
    <3>1. query.sources[i].id = i - 1
      BY <1>1, <1>3 DEF GoodQuery, GoodSources
    <3>2. i \in DOMAIN B.sources
      BY <1>3, <1>10, <1>12, QueryFields DEF GoodQuery
    <3>. QED  BY <1>3, <1>10, <1>12, <3>1, <3>2
  <2>3. B.sources[i].id # target
    BY <1>3, <2>2
  <2>. QED  BY <1>16, <2>2, <2>3
<1>18. JoinAccepted(C, target + 1)
  <2>. DEFINE s == B.sources[target + 1]
  <2>1. s \in Sources /\ s.type = "JOIN" /\ s.parent = parent /\ s.id = target
        /\ target + 1 \in DOMAIN B.sources
    <3>1. target + 1 \in DOMAIN B.sources
      BY <1>3, <1>10, <1>12, QueryFields DEF GoodQuery
    <3>2. s \in Sources
      BY <1>12, <3>1, QueryFields DEF GoodQuery
    <3>. QED  BY <1>9, <1>10, <1>12, <3>1, <3>2
  <2>2. C.sources[target + 1] = [s EXCEPT !.on = last]
    BY <1>16, <2>1
  <2>. HIDE DEF s
  <2>3. /\ C.sources[target + 1].parent = parent /\ C.sources[target + 1].id = target
        /\ C.sources[target + 1].on = last
    BY <2>1, <2>2 DEF Sources
  <2>4. target \in 0 .. Len(B.sources) - 1
    BY <1>3, <1>10, <1>12
  <2>5. BranchAnchors(C, target, last) = BranchAnchors(B, target, last)
    BY <1>12, <1>15, <2>4, AnchorsKept
  <2>6. ValidateJoinOnCondition(C, target, last)
    BY <1>13, <2>5 DEF ValidateJoinOnCondition
  <2>7. last + 1 \in DOMAIN C.conditions
    BY <1>12, <1>16, QueryFields DEF GoodQuery
  <2>. QED  BY <1>6, <2>3, <2>6, <2>7 DEF JoinAccepted
<1>19. \A i \in DOMAIN C.sources \ DOMAIN query.sources : i = target + 1
  <2>1. DOMAIN C.sources = 1 .. target + 1
    BY <1>10, <1>12, <1>16, QueryFields DEF GoodQuery
  <2>. QED  BY <1>3, <2>1
<1>20. \A i \in DOMAIN C.sources \ DOMAIN query.sources : JoinAccepted(C, i)
  BY <1>18, <1>19
<1>. QED  BY <1>1, <1>15, <1>17, <1>20, JoinsKept

(* JoinOn adds a join that the server takes.                               *)
LEMMA JoinsJoinOn ==
  ASSUME IInv, JoinsInv, client = "SELECT", NEW d \in Datasets, NEW c \in Ons, JoinOn(d, c)
  PROVE  JoinsInv'
<1>. DEFINE target == Len(query.sources)
            bound  == Append(builder.sources, [dataset |-> d, id |-> target])
            b      == [builder EXCEPT !.sources = bound]
            A      == Ast!AddJoinSource(query, OnParent(c, d), d)
            B      == ConditionAdded(A, bound, c)
            C      == Ast!SetJoinOnRoot(B, target, LastCondition(B))
            a      == [asked EXCEPT !.joins = Append(@, [dataset |-> d, on |-> c])]
<1>1. client' = client /\ ~builder.failed /\ builder \in Builders
  BY Facts DEF JoinOn, Ok, Call
<1>2. b \in Builders
  <2>. DEFINE new == [dataset |-> d, id |-> target]
  <2>1. new \in Bindings
    BY <1>1, Facts, QueryFields DEF Bindings, GoodQuery
  <2>2. builder.sources \in Seq(Bindings)
    BY <1>1 DEF Builders
  <2>. HIDE DEF new
  <2>3. Append(builder.sources, new) \in Seq(Bindings)
    BY <2>1, <2>2, AppendProperties
  <2>4. bound \in Seq(Bindings)
    BY <2>3 DEF new
  <2>. HIDE DEF bound
  <2>. QED  BY <1>1, <2>4 DEF Builders
<1>3. CASE FailedWith(query, builder) \/ FailedWith(A, builder)
  <2>. HIDE DEF A
  <2>. QED  BY <1>1, <1>3, JoinsFailed
<1>4. CASE \E n \in 0 .. Len(c) - 1 : FailedWith(NodesAdded(A, bound, c, n), b)
  <2>1. PICK n \in 0 .. Len(c) - 1 : FailedWith(NodesAdded(A, bound, c, n), b)
    BY <1>4
  <2>. HIDE DEF A, b, bound
  <2>. QED  BY <1>1, <1>2, <2>1, JoinsFailed
<1>5. CASE /\ builder.sources # <<>> /\ ~(FindSource(builder.sources, d) >= 0)
           /\ TakesOn(c, d) /\ Done(C, b, a)
  <2>1. JoinsAccepted(C)
    BY <1>1, <1>5, NewJoinTaken
  <2>. HIDE DEF C, b, a
  <2>. QED  BY <1>1, <1>5, <2>1, JoinsDone
<1>. QED
  <2>1. \/ FailedWith(query, builder) \/ FailedWith(A, builder)
        \/ \E n \in 0 .. Len(c) - 1 : FailedWith(NodesAdded(A, bound, c, n), b)
        \/ /\ builder.sources # <<>> /\ ~(FindSource(builder.sources, d) >= 0)
           /\ TakesOn(c, d) /\ Done(C, b, a)
    BY DEF JoinOn, Failed
  <2>. QED  BY <1>3, <1>4, <1>5, <2>1

(* The joins of a fetch are those of the query.                            *)
LEMMA JoinsFetch ==
  ASSUME IInv, JoinsInv, client = "SELECT", Fetch
  PROVE  JoinsInv'
<1>. DEFINE selects == IF builder.selectsAdded THEN <<>> ELSE builder.selects
            orders  == IF builder.ordersAdded THEN <<>> ELSE builder.orders
            where   == builder.where
            bound   == builder.sources
            A       == ItemsAdded(query, bound, "select", selects, Len(selects))
            B       == WithWhere(A, bound, where)
            D       == ItemsAdded(B, bound, "order", orders, Len(orders))
            s       == [builder EXCEPT !.selectsAdded = TRUE]
            o       == [s EXCEPT !.ordersAdded = TRUE]
<1>1. /\ client' = client /\ ~builder.failed /\ builder \in Builders
      /\ GoodQuery(query) /\ Binds(bound, query) /\ JoinsAccepted(query)
  BY Facts DEF Fetch, Ok, Call, JoinsInv
<1>2. s \in Builders /\ o \in Builders
  BY <1>1 DEF Builders
<1>3. CASE \E X : FailedWith(X, builder) \/ FailedWith(X, s)
  <2>. HIDE DEF s
  <2>. QED  BY <1>1, <1>2, <1>3, JoinsFailed
<1>4. ASSUME FieldsReached(bound, selects) = Len(selects),
             NodesReached(bound, where) = Len(where),
             FieldsReached(bound, orders) = Len(orders), HandOver(D, o)
      PROVE  JoinsInv'
  <2>1. selects \in Seq(Datasets) /\ orders \in Seq(Datasets) /\ where \in Wheres \cup {<<>>}
    <3>1. <<>> \in Seq(Datasets)
      OBVIOUS
    <3>. QED  BY <1>1, <3>1 DEF Builders
  <2>. HIDE DEF selects, orders, where
  <2>2. /\ Lists(query, bound, "select", selects, A)
        /\ Rooted(A, bound, where, B)
        /\ Lists(B, bound, "order", orders, D)
    BY <1>1, <1>4, <2>1, FetchAdds
  <2>3. HandOver(D, o)
    BY <1>4
  <2>. HIDE DEF A, B, D, o
  <2>4. GoodQuery(D) /\ Extends(query, D) /\ D.sources = query.sources
    BY <1>1, <2>2, FetchKeeps
  <2>5. JoinsAccepted(D)
    BY <1>1, <2>4, JoinsSame
  <2>. QED  BY <1>1, <1>2, <2>3, <2>5, JoinsHandedOver
<1>. QED
  <2>1. \/ \E n : FailedWith(ItemsAdded(query, bound, "select", selects, n), builder)
        \/ \E n : FailedWith(NodesAdded(A, bound, where, n), s)
        \/ \E n : FailedWith(ItemsAdded(B, bound, "order", orders, n), s)
        \/ /\ FieldsReached(bound, selects) = Len(selects)
           /\ NodesReached(bound, where) = Len(where)
           /\ FieldsReached(bound, orders) = Len(orders)
           /\ HandOver(D, o)
    BY DEF Fetch, Failed
  <2>. QED  BY <1>3, <1>4, <2>1

(* Execute hands over the joins of the query.                              *)
LEMMA JoinsExecute ==
  ASSUME IInv, JoinsInv, client = "DML", Execute
  PROVE  JoinsInv'
<1>. DEFINE where == IF builder.whereAdded THEN <<>> ELSE builder.where
            bound == builder.sources
            A     == WithWhere(query, bound, where)
            added == builder.whereAdded \/ where # <<>>
            b     == [builder EXCEPT !.whereAdded = added]
<1>1. /\ client' = client /\ ~builder.failed /\ builder \in Builders
      /\ GoodQuery(query) /\ Binds(bound, query) /\ JoinsAccepted(query)
  BY Facts DEF Execute, Ok, Call, JoinsInv
<1>2. b \in Builders
  <2>1. added \in BOOLEAN
    BY <1>1 DEF Builders
  <2>. HIDE DEF added
  <2>. QED  BY <1>1, <2>1 DEF Builders
<1>3. CASE \E X : FailedWith(X, builder)
  BY <1>1, <1>3, JoinsFailed
<1>4. ASSUME NodesReached(bound, where) = Len(where), HandOver(A, b)
      PROVE  JoinsInv'
  <2>1. where \in Wheres \cup {<<>>}
    BY <1>1 DEF Builders
  <2>. HIDE DEF where, b
  <2>2. Rooted(query, bound, where, A)
    <3>1. where # <<>> => AllResolve(bound, where)
      <4>1. where # <<>> => where \in Seq(DslLeaves \cup Groups)
        BY <2>1, DslAssumption DEF IsCondition
      <4>. QED  BY <1>4, <4>1, AllNodesReached
    <3>. QED  BY <1>1, <2>1, <3>1, WhereRooted
  <2>3. JoinsAccepted(A)
    <3>. HIDE DEF A
    <3>. QED  BY <1>1, <2>2, JoinsSame DEF Rooted
  <2>. QED  BY <1>1, <1>2, <1>4, <2>3, JoinsHandedOver
<1>. QED
  <2>1. \/ \E X : FailedWith(X, builder)
        \/ NodesReached(bound, where) = Len(where) /\ HandOver(A, b)
    BY DEF Execute, Failed
  <2>. QED  BY <1>3, <1>4, <2>1

(* A new client has no joins.                                              *)
LEMMA JoinsInit == Init => JoinsInv
<1>. SUFFICES ASSUME Init PROVE JoinsInv
  OBVIOUS
<1>1. sent = NothingSent /\ (client # "C" => query = Ast!EmptyAst)
  BY DEF Init
<1>2. JoinsAccepted(Ast!EmptyAst)
  <2>1. DOMAIN Ast!EmptyAst.sources = {}
    BY EmptyGood
  <2>. QED  BY <2>1, NoJoins
<1>. QED  BY <1>1, <1>2 DEF JoinsInv

(* The calls that start a statement have a root source at most.            *)
LEMMA JoinsBegun ==
  ASSUME IInv, JoinsInv, client # "C", NEW d \in Datasets,
         Begin(d) \/ From(d) \/ (\E s \in Statements \ {"SELECT"} : Start(s, d))
  PROVE  JoinsInv'
<1>1. client' = client
  BY DEF Begin, From, Start, Ok, Call
<1>2. Ast!EmptyAst.sources = <<>> /\ JoinsAccepted(Ast!EmptyAst)
  <2>1. DOMAIN Ast!EmptyAst.sources = {}
    BY EmptyGood
  <2>. QED  BY <2>1, EmptyGood, NoJoins
<1>. DEFINE root == [id |-> 0, type |-> "ROOT", parent |-> -1, dataset |-> d, on |-> -1]
<1>3. ASSUME NEW A, "sources" \in DOMAIN A, A.sources = <<>>
      PROVE  JoinsAccepted(Ast!AddRootSource(A, d))
  <2>. DEFINE B == Ast!AddRootSource(A, d)
  <2>1. B.sources = Append(<<>>, root)
    BY <1>3 DEF Ast!AddRootSource
  <2>2. Append(<<>>, root) = <<root>>
    OBVIOUS
  <2>3. \A i \in DOMAIN B.sources : B.sources[i] = root
    BY <2>1, <2>2
  <2>4. root.type = "ROOT"
    OBVIOUS
  <2>. HIDE DEF root, B
  <2>5. \A i \in DOMAIN B.sources : B.sources[i].type = "ROOT"
    BY <2>3, <2>4
  <2>. QED  BY <2>5, NoJoins DEF B
<1>. HIDE DEF root
<1>4. CASE Begin(d)
  BY <1>1, <1>2, <1>4, JoinsDone DEF Begin
<1>5. CASE From(d)
  <2>1. ~builder.failed /\ builder \in Builders /\ GoodQuery(query)
    BY <1>5, Facts DEF From, Ok
  <2>2. CASE Ast!HasRootSource(query) \/ Failed(Ast!EmptyAst) \/ Failed(Ast!AddRootSource(query, d))
    BY <1>1, <1>5, <2>1, <2>2, JoinsFailed DEF From, Failed
  <2>3. CASE ~(Ast!HasRootSource(query) \/ Failed(Ast!EmptyAst) \/ Failed(Ast!AddRootSource(query, d)))
    <3>1. query.sources = <<>>
      <4>1. query.sources # <<>> => 1 \in DOMAIN query.sources
        BY <2>1, QueryFields, EmptySeq DEF GoodQuery
      <4>. QED  BY <2>1, <2>3, <4>1 DEF GoodQuery, GoodSources, Ast!HasRootSource
    <3>2. "sources" \in DOMAIN query
      BY <2>1 DEF GoodQuery, Queries
    <3>3. JoinsAccepted(Ast!AddRootSource(query, d))
      BY <1>3, <3>1, <3>2
    <3>. QED  BY <1>1, <1>5, <2>3, <3>3, JoinsDone DEF From
  <2>. QED  BY <2>2, <2>3
<1>6. ASSUME NEW s \in Statements \ {"SELECT"}, Start(s, d) PROVE JoinsInv'
  <2>. DEFINE E == [Ast!EmptyAst EXCEPT !.statement = s]
  <2>1. "sources" \in DOMAIN E /\ E.sources = <<>>
    BY <1>2, EmptyGood DEF GoodQuery, Queries
  <2>. HIDE DEF E
  <2>2. JoinsAccepted(Ast!AddRootSource(E, d))
    BY <1>3, <2>1
  <2>. QED  BY <1>1, <1>2, <1>6, <2>2, JoinsDone DEF Start, E
<1>. QED  BY <1>4, <1>5, <1>6

(* The calls that leave the sources and the conditions alone.              *)
LEMMA JoinsUntouched ==
  ASSUME IInv, IInv', JoinsInv, client # "C",
         \/ \E d \in Datasets : Select(d) \/ OrderBy(d) \/ Set(d)
         \/ \E c \in Wheres : Where(c) \/ DmlWhere(c)
         \/ \E b, e \in Times : TimeRange(b, e)
         \/ \E n \in -1 .. MaxLimit + 1 : Limit(n)
         \/ CallRefused
  PROVE  JoinsInv'
<1>1. client' = client /\ sent' = NothingSent
  BY DEF Select, OrderBy, Set, Where, DmlWhere, WhereAs, TimeRange, Limit, CallRefused, Ignored,
         Failed, FailedWith, Done, Ok, Call
<1>2. builder \in Builders /\ DOMAIN query = DOMAIN Ast!EmptyAst
  BY Facts DEF QueryType
<1>3. "sources" \in DOMAIN query /\ "conditions" \in DOMAIN query
  BY <1>2 DEF Ast!EmptyAst
<1>4. ASSUME FailedWith(query, builder) PROVE builder'.failed
  <2>. DEFINE b == [builder EXCEPT !.failed = TRUE]
  <2>1. b.failed
    BY <1>2 DEF Builders
  <2>2. builder' = b
    BY <1>4 DEF FailedWith, Done
  <2>. HIDE DEF b
  <2>. QED  BY <2>1, <2>2
<1>. DEFINE Untouched == ~builder'.failed => /\ ~builder.failed
                                             /\ query'.sources = query.sources
                                             /\ query'.conditions = query.conditions
<1>5. ASSUME NEW d \in Datasets, Select(d) \/ OrderBy(d) PROVE Untouched
  BY <1>5 DEF Select, OrderBy, Ok, Done
<1>6. ASSUME NEW c \in Wheres, Ok, WhereAs(c) PROVE Untouched
  BY <1>4, <1>6 DEF WhereAs, Ok, Done, Failed
<1>7. ASSUME Ignored PROVE Untouched
  BY <1>7 DEF Ignored, Done
<1>8. ASSUME NEW d \in Datasets, Set(d) PROVE Untouched
  <2>1. CASE Ignored
    BY <1>7, <2>1
  <2>2. CASE ~Ignored /\ FindSource(builder.sources, d) >= 0
    <3>. DEFINE A == ItemsAdded(query, builder.sources, "set", <<d>>, 1)
    <3>1. A.sources = query.sources /\ A.conditions = query.conditions
      BY <1>3 DEF ItemsAdded
    <3>2. query' = A /\ ~builder.failed
      BY <1>8, <2>2 DEF Set, Done, Ok
    <3>. HIDE DEF A
    <3>. QED  BY <3>1, <3>2
  <2>3. CASE ~Ignored /\ ~(FindSource(builder.sources, d) >= 0)
    BY <1>4, <1>8, <2>3 DEF Set, Failed
  <2>. QED  BY <2>1, <2>2, <2>3
<1>9. ASSUME NEW A, A.sources = query.sources, A.conditions = query.conditions, Ok,
             NEW b, NEW a, Done(A, b, a) \/ Failed(query)
      PROVE  Untouched
  BY <1>4, <1>9 DEF Ok, Done, Failed
<1>10. ASSUME NEW b \in Times, NEW e \in Times, TimeRange(b, e) PROVE Untouched
  <2>. DEFINE A == [query EXCEPT !.time = <<b, e>>]
  <2>1. A.sources = query.sources /\ A.conditions = query.conditions
    BY <1>3
  <2>2. Ok /\ \E p, q : Done(A, p, q) \/ Failed(query)
    BY <1>10 DEF TimeRange
  <2>. HIDE DEF A
  <2>. QED  BY <1>9, <2>1, <2>2
<1>11. ASSUME NEW n \in -1 .. MaxLimit + 1, Limit(n) PROVE Untouched
  <2>. DEFINE A == [query EXCEPT !.limit = n]
  <2>1. A.sources = query.sources /\ A.conditions = query.conditions
    BY <1>3
  <2>2. Ok /\ \E p, q : Done(A, p, q) \/ Failed(query)
    BY <1>11 DEF Limit
  <2>. HIDE DEF A
  <2>. QED  BY <1>9, <2>1, <2>2
<1>12. ASSUME CallRefused PROVE Untouched
  BY <1>4, <1>12 DEF CallRefused, Failed
<1>13. Untouched
  <2>. HIDE DEF Untouched
  <2>. QED  BY <1>5, <1>6, <1>7, <1>8, <1>10, <1>11, <1>12 DEF Where, DmlWhere
<1>. QED  BY <1>1, <1>13, JoinsStay

(* Every step keeps the joins accepted.                                    *)
LEMMA JoinsStep == IInv /\ IInv' /\ JoinsInv /\ [Next]_vars => JoinsInv'
<1>. SUFFICES ASSUME IInv, IInv', JoinsInv, [Next]_vars PROVE JoinsInv'
  OBVIOUS
<1>1. CASE UNCHANGED vars
  BY <1>1 DEF vars, JoinsInv
<1>2. CASE client = "C" /\ Next
  <2>1. client' = client /\ sent' = sent
    BY <1>2 DEF Next, CLeaf, CGroup, CCondition
  <2>. QED  BY <1>2, <2>1 DEF JoinsInv
<1>3. CASE client = "SELECT" /\ Next
  <2>1. ASSUME NEW d \in Datasets, Begin(d) \/ From(d) PROVE JoinsInv'
    BY <1>3, <2>1, JoinsBegun
  <2>2. ASSUME NEW d \in Datasets, NEW c \in Ons, JoinOn(d, c) PROVE JoinsInv'
    BY <1>3, <2>2, JoinsJoinOn
  <2>3. ASSUME Fetch PROVE JoinsInv'
    BY <1>3, <2>3, JoinsFetch
  <2>4. ASSUME \/ \E d \in Datasets : Select(d) \/ OrderBy(d)
               \/ \E c \in Wheres : Where(c)
               \/ \E b, e \in Times : TimeRange(b, e)
               \/ \E n \in -1 .. MaxLimit + 1 : Limit(n)
               \/ CallRefused
        PROVE  JoinsInv'
    BY <1>3, <2>4, JoinsUntouched
  <2>. QED  BY <1>3, <2>1, <2>2, <2>3, <2>4 DEF Next
<1>4. CASE client = "DML" /\ Next
  <2>1. ASSUME NEW s \in Statements \ {"SELECT"}, NEW d \in Datasets, Start(s, d) PROVE JoinsInv'
    BY <1>4, <2>1, JoinsBegun
  <2>2. ASSUME Execute PROVE JoinsInv'
    BY <1>4, <2>2, JoinsExecute
  <2>3. ASSUME \/ \E d \in Datasets : Set(d)
               \/ \E c \in Wheres : DmlWhere(c)
               \/ \E b, e \in Times : TimeRange(b, e)
               \/ CallRefused
        PROVE  JoinsInv'
    BY <1>4, <2>3, JoinsUntouched
  <2>. QED  BY <1>4, <2>1, <2>2, <2>3 DEF Next, DmlTimeRange
<1>. QED  BY <1>1, <1>2, <1>3, <1>4 DEF Next

(* The joins of every statement are accepted.                              *)
LEMMA JoinsInvariant == Spec => []JoinsInv
<1>1. Init => IInv /\ JoinsInv
  BY InitInvariant, JoinsInit
<1>2. (IInv /\ JoinsInv) /\ [Next]_vars => (IInv /\ JoinsInv)'
  BY StepInvariant, JoinsStep
<1>. QED  BY <1>1, <1>2, PTL DEF Spec

(* Whatever was joined so far, on and the server judge every next          *)
(* condition alike.                                                        *)
LEMMA NextJudgedAlike ==
  ASSUME IInv, client = "SELECT", OnlySourcesAsked, builder.sources # <<>>,
         NEW d \in Datasets, NEW c \in OnCandidates, FindSource(builder.sources, d) = -1,
         NEW more, more = Append(builder.sources, [dataset |-> d, id |-> Len(query.sources)]),
         NodesReached(more, c) = Len(c),
         NEW A, A = ConditionAdded(Ast!AddJoinSource(query, 0, d), more, c)
  PROVE  TakesOn(c, d) <=> ValidateJoinOnCondition(A, Len(query.sources), LastCondition(A))
<1>1. ~asked.failed
  BY NewTypes DEF OnlySourcesAsked, NothingAsked
<1>2. GoodQuery(query) /\ Binds(builder.sources, query)
  BY <1>1, Facts
<1>3. query.sources # <<>>
  BY <1>2, EmptySeq DEF Binds
<1>4. IsCondition(c)
  BY DslAssumption
<1>5. AllResolve(more, c)
  BY <1>4, AllNodesReached DEF IsCondition
<1>. DEFINE S == Ast!AddJoinSource(query, 0, d)
<1>6. S = Ast!AddJoinSource(query, 0, d) /\ A = ConditionAdded(S, more, c)
  OBVIOUS
<1>. HIDE DEF S
<1>7. 0 \in Int /\ ~(FindSource(builder.sources, d) >= 0)
  OBVIOUS
<1>. QED  BY <1>2, <1>3, <1>4, <1>5, <1>6, <1>7, JudgesAgree

(* on and the server, two implementations of one rule, agree on every next *)
(* condition whatever is joined so far, and the server takes the joins of  *)
(* every statement that leaves a builder: no query is sent to be refused   *)
(* for its ON conditions.                                                  *)
THEOREM JudgesAgreeThroughout == Spec => []BuilderAgreesWithServer
<1>1. IInv /\ JoinsInv => BuilderAgreesWithServer
  <2>. SUFFICES ASSUME IInv, JoinsInv PROVE BuilderAgreesWithServer
    OBVIOUS
  <2>1. sent # NothingSent => JoinsAccepted(sent.query)
    BY DEF JoinsInv
  <2>. QED  BY <2>1, NextJudgedAlike DEF BuilderAgreesWithServer
<1>. QED  BY <1>1, Invariant, JoinsInvariant, PTL

=============================================================================
